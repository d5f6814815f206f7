---------------------------- MODULE MCDetection ----------------------------
\* A small instance of Assessments for TLC: two tenants that share names of places.
EXTENDS Assessments, TLC

CONSTANTS t1, t2, l1, l2, q1, q2

Util(t, l, u) == [table |-> "util", tenant |-> t, at |-> l, util |-> u]
Flow(t, l, b) == [table |-> "flow", tenant |-> t, at |-> l, bytes |-> b]
Counters(t, q, pfc, ecn, drops) ==
  [table |-> "queue", tenant |-> t, at |-> q, pfc |-> pfc, ecn |-> ecn, drops |-> drops]
State(t, l) ==
  [table |-> "state", tenant |-> t, at |-> l, speed |-> 1, up |-> TRUE, minute |-> 0, copy |-> 0]

MCSamples ==
  {Util(t1, l1, 60), Util(t1, l2, 0), Flow(t1, l1, 1), Flow(t1, l1, 2),
   Counters(t1, q1, 1, 0, 0), Counters(t1, q1, 0, 0, 1),
   Counters(t1, q2, 4, 0, 0), Counters(t2, q1, 0, 2, 1)}
SteadySamples == {Flow(t1, l1, 1), Flow(t1, l1, 2)}
MCEarlier == {State(t1, l1), State(t1, l2)}
MCConfigured == t1 :> {} @@ t2 :> {{l1, l2}}
=============================================================================
