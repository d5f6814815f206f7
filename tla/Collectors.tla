----------------------------- MODULE Collectors -----------------------------
(***************************************************************************)
(* What one poll turns into: the sFlow-RT client                           *)
(* (collectors/sflow_rt_client.py) and the gNMI client and its parsers     *)
(* (collectors/gnmi_client.py), with the normalizers that make table rows  *)
(* of their records (services/ingest.py, services/gnmi_ingest.py).  The    *)
(* tenant of a row and the loops themselves are in Ingest.                 *)
(*                                                                         *)
(* What a remote end answers is [status, rows]: "down" for a transport     *)
(* error or a status that is not 2xx, "garbled" for a body that is not     *)
(* JSON.  The packets of a flow go as its bytes and the outgoing           *)
(* direction of an interface as the incoming one; neither is repeated.     *)
(***************************************************************************)
EXTENDS Integers, Sequences, FiniteSetsExt, Functions

CONSTANTS
  QueueId,     \* the id a queue name becomes: int(name), else abs(hash(name)) % 1024
  Spelling,    \* a status as sent to what _normalize_* looks up: upper case, no prefix
  IntMax,      \* the largest value of an INTEGER column
  Percent,     \* 100 %, the cap of a utilization
  PollSeconds, \* POLL_INTERVAL_SECONDS
  None         \* NULL; also the item of a path that names none

ASSUME CollectorsAssumption ==
  /\ IntMax \in Nat /\ Percent \in Nat /\ PollSeconds \in Nat \ {0}
  /\ None \notin Nat

-----------------------------------------------------------------------------
(* sFlow-RT *)

\* Either answer raises out of the client only when it is not JSON.
FlowsRaise(a) == a.status = "garbled"

\* get_top_flows: the samples by their place in the answer; none when sFlow-RT is
\* down, malformed ones skipped.
TopFlows(a) == IF a.status = "down" THEN {} ELSE {i \in DOMAIN a.rows : a.rows[i].wellFormed}

\* One malformed item raises KeyError or ValueError: only HTTPError is caught.
CountersRaise(a) ==
  \/ a.status = "garbled"
  \/ a.status = "ok" /\ \E i \in DOMAIN a.rows : ~a.rows[i].wellFormed

InterfaceCounters(a) == IF a.status = "down" THEN <<>> ELSE a.rows

\* The samples of a that go into the row of key k of device d.
Bucket(a, d, k) == {i \in TopFlows(a) : a.rows[i].device = d /\ a.rows[i].key = k}

\* Faulty variant of FlowRow: the samples are added up first.
FlowRowLastRate(a, d, k) ==
  [device |-> d, key |-> k,
   bytes |-> a.rows[Max(Bucket(a, d, k))].rate
             * SumFunction([i \in Bucket(a, d, k) |-> a.rows[i].bytes]),
   rate |-> a.rows[Max(Bucket(a, d, k))].rate]

\* Every sample is scaled by its own rate; the rate stored is that of the last one.
FlowRow(a, d, k) ==
  [device |-> d, key |-> k,
   bytes |-> SumFunction([i \in Bucket(a, d, k) |-> a.rows[i].bytes * a.rows[i].rate]),
   rate |-> a.rows[Max(Bucket(a, d, k))].rate]

(***************************************************************************)
(* normalize_flows: one row per key (agent, input interface, addresses,    *)
(* protocol; one poll has one minute).                                     *)
(***************************************************************************)
FlowRows(a) == {FlowRow(a, a.rows[i].device, a.rows[i].key) : i \in TopFlows(a)}

\* normalize_counters: a row per item, the counters taken for those of the window.
CounterRows(counters) ==
  LET Bps(c) == (c.octets * 8) \div PollSeconds
      Speed(c) == IF c.speed > 0 THEN c.speed ELSE 1000000000 IN
  {[device |-> counters[i].device, item |-> i, bps |-> Bps(counters[i]),
    util |-> Min({Percent, (Bps(counters[i]) * Percent) \div Speed(counters[i])}),
    errors |-> counters[i].errors] : i \in DOMAIN counters}

-----------------------------------------------------------------------------
(* gNMI *)

Path == {"interface", "bgp", "queue"}

\* The columns a path's leaves are stored in.
Columns == [p \in Path |->
  CASE p = "interface" -> {"admin-status", "oper-status", "mtu"}
    [] p = "bgp" -> {"session-state", "peer-as", "received-prefixes"}
    [] p = "queue" -> {"pfc-pause-rx", "ecn-marked-pkts", "dropped-pkts"}]

\* The values a status column may take, and what any other value becomes.
Statuses == [n \in {"admin-status", "oper-status", "session-state"} |->
  CASE n = "admin-status" -> {"UP", "DOWN", "TESTING"}
    [] n = "oper-status" -> {"UP", "DOWN", "TESTING", "UNKNOWN", "DORMANT",
                             "NOT_PRESENT", "LOWER_LAYER_DOWN"}
    [] n = "session-state" -> {"IDLE", "CONNECT", "ACTIVE", "OPENSENT",
                               "OPENCONFIRM", "ESTABLISHED"}]
Fallback(n) == IF n = "session-state" THEN "IDLE" ELSE "UNKNOWN"

Status(n, leaves) ==
  IF n \in DOMAIN leaves /\ Spelling[leaves[n]] \in Statuses[n]
  THEN Spelling[leaves[n]] ELSE Fallback(n)

\* _safe_int; the counters of a queue are never NULL
Number(n, leaves, missing) ==
  IF n \in DOMAIN leaves /\ leaves[n] \in Int THEN leaves[n] ELSE missing

\* Faulty variant of KeyOf: a queue is known by its name alone.
KeyOfName(p, item) == IF p = "queue" THEN <<None, QueueId[item[2]]>> ELSE item

\* What leaves are grouped by: an interface, a peer, or (interface, queue id).
KeyOf(p, item) == IF p = "queue" THEN <<item[1], QueueId[item[2]]>> ELSE item

\* Of several updates of one leaf, in whatever container, the last one stays.
Leaves(p, us, key) ==
  LET At == {k \in DOMAIN us : us[k].item # None /\ KeyOf(p, us[k].item) = key} IN
  [n \in {us[k].leaf : k \in At} |-> us[Max({k \in At : us[k].leaf = n})].val]

\* An interface or a peer that shows no status is not a record.
Complete(p, leaves) ==
  CASE p = "interface" -> {"oper-status", "admin-status"} \cap DOMAIN leaves # {}
    [] p = "bgp" -> "session-state" \in DOMAIN leaves
    [] p = "queue" -> TRUE

Row(d, p, key, leaves) ==
  [device |-> d, path |-> p, key |-> key,
   status |-> [n \in Columns[p] \cap DOMAIN Statuses |-> Status(n, leaves)],
   number |-> [n \in Columns[p] \ DOMAIN Statuses |->
                 Number(n, leaves, IF p = "queue" THEN 0 ELSE None)]]

\* The rows of one path of one device: none when it does not answer.
ParsePath(d, p, a) ==
  IF a.status # "ok" THEN {}
  ELSE LET keys == {KeyOf(p, a.rows[k].item) :
                      k \in {j \in DOMAIN a.rows : a.rows[j].item # None}} IN
       {Row(d, p, k, Leaves(p, a.rows, k)) :
          k \in {q \in keys : Complete(p, Leaves(p, a.rows, q))}}

\* A getter asks every target in turn and keeps what each one has.
GetPath(p, answers) == UNION {ParsePath(d, p, answers[d][p]) : d \in DOMAIN answers}

-----------------------------------------------------------------------------
\* Every value fits its column: INTEGER is 32 bits wide, the others are not bounded here.
FlowFits(r) == r.rate <= IntMax
CounterFits(r) == r.errors <= IntMax
DeviceFits(r) ==
  \A n \in DOMAIN r.number \cap {"mtu", "peer-as"} : r.number[n] # None => r.number[n] <= IntMax
=============================================================================
