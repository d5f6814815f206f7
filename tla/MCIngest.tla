------------------------------ MODULE MCIngest ------------------------------
\* A small instance of Ingest for TLC: one sFlow agent and two gNMI devices.
EXTENDS Ingest, TLC

CONSTANTS sflow, gnmi, agent, leaf1, leaf2, other

MCSourcesOf == sflow :> {agent} @@ gnmi :> {leaf1}
\* Two names of one id: hash() of queue names collides modulo 1024.
MCQueueId == "q0" :> 0 @@ "q1" :> 1 @@ "be" :> 1
MCSpelling == [s \in {"up", "UP", "oc:DOWN", "odd", "ESTABLISHED"} |->
                 CASE s = "up" -> "UP" [] s = "oc:DOWN" -> "DOWN" [] OTHER -> s]

Ok(rows) == [status |-> "ok", rows |-> rows]
Down == [status |-> "down", rows |-> <<>>]
Garbled == [status |-> "garbled", rows |-> <<>>]

Sample(k, bytes, rate) ==
  [wellFormed |-> TRUE, device |-> agent, key |-> k, bytes |-> bytes, rate |-> rate]
BadSample == [wellFormed |-> FALSE, device |-> agent, key |-> 1, bytes |-> 9, rate |-> 9]
Counter(ok, octets, speed) ==
  [wellFormed |-> ok, device |-> agent, octets |-> octets, speed |-> speed, errors |-> 0]
Update(item, leaf, val) == [item |-> item, leaf |-> leaf, val |-> val]

Flows == Ok(<<Sample(1, 2, 1), BadSample, Sample(1, 1, 3), Sample(2, 5, 0)>>)
SFlowAnswers ==
  {[flows |-> Flows, counters |-> Ok(<<Counter(TRUE, 30, 4), Counter(TRUE, 75, 0)>>)],
   [flows |-> Down, counters |-> Ok(<<Counter(FALSE, 30, 4)>>)]}

\* No status: not a record.
Interfaces == Ok(<<Update("e0", "mtu", 3)>>)
Queues == Ok(<<Update(<<"e0", "q0">>, "dropped-pkts", 2), Update(None, "dropped-pkts", 9),
               Update(<<"e1", "q0">>, "dropped-pkts", 0),
               Update(<<"e0", "q1">>, "ecn-marked-pkts", 1),
               Update(<<"e0", "be">>, "ecn-marked-pkts", None)>>)
Peers(as) == Ok(<<Update("p", "session-state", "odd"), Update("p", "peer-as", as)>>)

\* leaf2 does not answer; leaf1 has a peer of AS number as.
GnmiAnswer(as) ==
  leaf1 :> [p \in Path |-> CASE p = "interface" -> Interfaces
                             [] p = "bgp" -> Peers(as)
                             [] p = "queue" -> Queues]
    @@ leaf2 :> [p \in Path |-> Down]
MCAnswers == sflow :> SFlowAnswers @@ gnmi :> {GnmiAnswer(1)}
\* A four-byte AS number does not fit the INTEGER column peer_as.
WideAnswers == sflow :> SFlowAnswers @@ gnmi :> {GnmiAnswer(IntMax + 1)}
=============================================================================
