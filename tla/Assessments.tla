---------------------------- MODULE Assessments ----------------------------
(***************************************************************************)
(* What an operator is told on request about the same measurements: the    *)
(* RDMA health (services/rdma.py) and the ECMP imbalance                   *)
(* (services/fabric.py), next to what the detectors report of their own.   *)
(* Averages are rounded to whole percents, not to hundredths.              *)
(***************************************************************************)
EXTENDS Detection

CONSTANTS
  Windows,        \* the window_minutes asked for
  Configured,     \* ecmp_groups: the groups of a tenant, {} when there are none
  MinMean,        \* MIN_MEAN_UTIL_PCT
  StateWindow     \* the hour _infer_groups_by_speed looks back

ASSUME AssessmentsAssumption ==
  /\ Windows \subseteq Nat \ {0}
  /\ MinMean \in Nat \ {0}

\* The queues with a signal, as sums over the window.
QueueSums(t, w) ==
  LET recent == Since(t, "queue", now - w) IN
  {q \in {Sums(At(recent, at)) : at \in Places(recent)} : q.pfc + q.ecn + q.drops > 0}

\* Faulty variant of Assess: drops on one queue and pauses on another are a lossless drop.
AssessAcross(queues) ==
  CASE (\E q \in queues : q.drops > 0) /\ (\E q \in queues : q.pfc > 0) -> "critical"
    [] ~((\E q \in queues : q.drops > 0) /\ (\E q \in queues : q.pfc > 0))
       /\ \E q \in queues : q.pfc > Storm -> "high"
    [] OTHER -> "low"

\* _assess; the flow side changes the wording only.
Assess(queues) ==
  CASE \E q \in queues : LosslessDrop(q) -> "critical"
    [] /\ \A q \in queues : ~LosslessDrop(q)
       /\ \E q \in queues : q.pfc > Storm -> "high"
    [] /\ \A q \in queues : ~LosslessDrop(q) /\ q.pfc <= Storm
       /\ \E q \in queues : q.ecn > 0 -> "medium"
    [] OTHER -> "low"

RdmaHealth(t, w) == Assess(QueueSums(t, w))

-----------------------------------------------------------------------------
(* ECMP imbalance *)

\* The links of a tenant that were UP at some time of the hour, by speed.
InferredGroups(t) ==
  LET up == {r \in Since(t, "state", now - StateWindow) : r.up} IN
  {g \in {Places({r \in up : r.speed = s}) : s \in {r.speed : r \in up}} : Cardinality(g) >= 2}

Groups(t) == IF Configured[t] # {} THEN Configured[t] ELSE InferredGroups(t)

\* avg(greatest(in, out)) over the window, of the links that have a sample in it
AverageUtil(t, w) ==
  LET recent == Since(t, "util", now - w) IN
  [at \in Places(recent) |->
     LET n == Cardinality(At(recent, at)) IN
     (2 * SumFunction([r \in At(recent, at) |-> r.util]) + n) \div (2 * n)]

(***************************************************************************)
(* _imbalance_metrics over the members of a group that have samples: cv =  *)
(* stddev / mean > 0.30 or max / mean > 1.5, unless the mean is below      *)
(* MinMean or there is one member only.                                    *)
(***************************************************************************)
Metrics(u) ==
  LET n == Cardinality(DOMAIN u)
      sum == SumFunction(u)
      squares == SumFunction([i \in DOMAIN u |-> u[i] * u[i]])
      top == Max({u[i] : i \in DOMAIN u})
      judged == n >= 2 /\ sum >= MinMean * n IN
  [n |-> n, sum |-> sum, top |-> top,
   imbalanced |-> judged /\ \/ 100 * (n * squares - sum * sum) > 9 * sum * sum
                            \/ 2 * n * top > 3 * sum]

Judged(t, w) ==
  LET a == AverageUtil(t, w) IN
  {Metrics(u) : u \in {[i \in g \cap DOMAIN a |-> a[i]] :
                         g \in {h \in Groups(t) : Cardinality(h \cap DOMAIN a) >= 2}}}

\* max_mean_ratio of an imbalanced group: max / mean rounded to hundredths.
Ratio(m) == (200 * m.n * m.top + m.sum) \div (2 * m.sum)

\* Faulty variant of FabricSeverity: the limits themselves are below them.
FabricSeverityStrict(t, w) ==
  LET ratios == {Ratio(m) : m \in {j \in Judged(t, w) : j.imbalanced}} IN
  CASE \E r \in ratios : r > 300 -> "high"
    [] (\A r \in ratios : r <= 300) /\ \E r \in ratios : r > 200 -> "medium"
    [] OTHER -> "low"

\* _overall_severity: the worst ratio decides.
FabricSeverity(t, w) ==
  LET ratios == {Ratio(m) : m \in {j \in Judged(t, w) : j.imbalanced}} IN
  CASE \E r \in ratios : r >= 300 -> "high"
    [] (\A r \in ratios : r < 300) /\ \E r \in ratios : r >= 200 -> "medium"
    [] OTHER -> "low"

-----------------------------------------------------------------------------
(***************************************************************************)
(* The detector and the health tool agree on the failure RDMA must not     *)
(* hit, whatever window at least as long as the detector's is asked for:   *)
(* what the detector reports as a lossless drop the tool calls critical,   *)
(* what it reports as a storm at least high unless it is exactly at the    *)
(* limit.  For any window, what the tool calls critical is drops and       *)
(* pauses of one queue.                                                    *)
(***************************************************************************)
RdmaAgrees ==
  \A t \in Active :
    LET found == RdmaStress(t, now) IN
    \A w \in Windows :
      LET health == RdmaHealth(t, w) IN
      /\ w >= Lookback =>
           /\ (\E e \in found : e.type = "lossless_drop") => health = "critical"
           /\ (\E e \in found : e.type = "pfc_storm" /\ e.value > Storm)
                => health \in {"high", "critical"}
      /\ health = "critical" =>
           \E r, q \in Since(t, "queue", now - w) : r.at = q.at /\ r.drops > 0 /\ q.pfc > 0

(***************************************************************************)
(* "Hash polarization": a link that carries all the load of its group is   *)
(* an imbalance of more than low severity, down to the group of two, where *)
(* max / mean is exactly the limit - once the mean of the group reaches    *)
(* MinMean.  Below it a group is not judged: at 5 %, a link at the 60 % of *)
(* the threshold detector in a group of more than twelve, and any link in  *)
(* a group of more than twenty.                                            *)
(***************************************************************************)
LoneLoadIsImbalance ==
  \A t \in Active, w \in Windows : \A g \in Groups(t) :
    LET u == AverageUtil(t, w) members == g \cap DOMAIN u IN
    (/\ Cardinality(members) >= 2
     /\ \E i \in members : /\ u[i] >= MinMean * Cardinality(members)
                           /\ \A j \in members \ {i} : u[j] = 0)
      => FabricSeverity(t, w) \in {"medium", "high"}
=============================================================================
