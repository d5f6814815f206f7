----------------------------- MODULE Detection -----------------------------
(***************************************************************************)
(* The detectors (services/anomalies.py) and the baselines they compare    *)
(* with (services/baselines.py), two tasks that read what the ingestion    *)
(* loops store while these go on storing.                                  *)
(*                                                                         *)
(* A detection pass runs the three detectors of one active tenant after    *)
(* the other and commits what all of them found at the end, in one         *)
(* transaction.  Every SELECT is awaited and sees what is committed when   *)
(* it runs; the clock an event carries, and from which its window starts,  *)
(* is read apart from it, so the rows counted may be younger than it.      *)
(*                                                                         *)
(* A row is one measurement: a link utilization (of the two directions,    *)
(* the larger), the bytes a flow poll gives a link, the counters of a      *)
(* queue (pfc is received plus sent pauses), the state of an interface.    *)
(* Time is in minutes, as ts_bucket is.                                    *)
(***************************************************************************)
EXTENDS Integers, FiniteSetsExt, Functions

CONSTANTS
  Active,        \* the active tenants
  Samples,       \* what a row may measure: tenant, place and values
  Earlier,       \* rows stored before: the states of some interfaces
  Lookback,      \* SPIKE_LOOKBACK_MINUTES, RDMA_LOOKBACK_MINUTES
  Warn, High, Critical,   \* UTIL_THRESHOLD_*
  Storm,         \* PFC_STORM_THRESHOLD_FRAMES
  EcnSpike,      \* ECN_SPIKE_THRESHOLD_PACKETS
  MinSamples,    \* MIN_SAMPLES_FOR_BASELINE
  HourLength,    \* minutes of an hour
  Late,          \* how long after its minute a row may be committed
  MaxLag,        \* how long the detection loop may take from pass to pass
  MaxMinute, MaxRows, MaxSnapshots, \* bounds
  FailMinutes,   \* bound: the minutes in which passes may raise
  NoPass

ASSUME DetectionAssumption ==
  /\ Late \in Nat /\ MaxLag \in Nat \ {0} /\ Lookback \in Nat /\ Late + MaxLag < Lookback
  /\ Warn \in Nat /\ High \in Nat /\ Critical \in Nat /\ Warn <= High /\ High <= Critical
  /\ Storm \in Nat /\ EcnSpike \in Nat /\ MaxMinute \in Nat

\* What the columns of each table hold: percentages, volumes, counts and states.
Measured(r) ==
  \/ r.table = "util" /\ "util" \in DOMAIN r /\ r.util \in Nat
  \/ r.table = "flow" /\ "bytes" \in DOMAIN r /\ r.bytes \in Nat
  \/ r.table = "queue" /\ {"pfc", "ecn", "drops"} \subseteq DOMAIN r
     /\ r.pfc \in Nat /\ r.ecn \in Nat /\ r.drops \in Nat
ASSUME SamplesAssumption ==
  /\ \A s \in Samples : /\ {"table", "tenant", "at"} \subseteq DOMAIN s /\ Measured(s)
                         /\ {"minute", "copy"} \cap DOMAIN s = {}
  /\ IsFiniteSet(Earlier)
  /\ \A r \in Earlier : r.table = "state" /\ r.minute = 0

VARIABLES
  now,
  rows,       \* flow_summary_minute, interface_utilization_minute, queue_stats_minute, ...
  snapshots,  \* baseline_snapshots
  computed,   \* what compute_baselines has read and not yet written
  pass,       \* the detection pass under way: tenants left, the one in hand
              \* (turn), what comes next for it (stage), the clock its detector
              \* has read, the rows it has read, events found
  events,     \* anomaly_events
  lastPass,   \* when the last pass began
  failedAt    \* the minutes of passes that raised

detectionVars == <<now, rows, snapshots, computed, pass, events, lastPass, failedAt>>

\* Faulty variant of Of: the tenant is not compared.
OfAnyone(t, table) == {r \in rows : r.table = table}

Of(t, table) == {r \in rows : r.table = table /\ r.tenant = t}
\* ts_bucket >= m minutes and some seconds: there is no upper end.
Since(t, table, m) == {r \in Of(t, table) : r.minute > m}
Places(S) == {r.at : r \in S}
At(S, at) == {r \in S : r.at = at}
Hour(minute) == minute \div HourLength

-----------------------------------------------------------------------------
(* The detectors *)

\* Faulty variant of UtilSeverity: the limits themselves are below them.
UtilSeverityStrict(pct) ==
  CASE pct > Critical -> "critical"
    [] pct > High /\ pct <= Critical -> "high"
    [] pct > Warn /\ pct <= High -> "medium"
    [] OTHER -> "low"

UtilSeverity(pct) ==
  CASE pct >= Critical -> "critical"
    [] pct >= High /\ pct < Critical -> "high"
    [] pct >= Warn /\ pct < High -> "medium"
    [] OTHER -> "low"

Event(t, at, type, severity, value, ts) ==
  [tenant |-> t, at |-> at, type |-> type, severity |-> severity, value |-> value, ts |-> ts]

\* Rows of the latest minute of their link, however long ago that was.
Breaching(t) ==
  LET Latest(at) == Max({r.minute : r \in At(Of(t, "util"), at)}) IN
  {q \in Of(t, "util") : q.minute = Latest(q.at) /\ q.util >= Warn}
ThresholdBreaches(t, breaching, ts) ==
  {Event(t, r.at, "threshold_breach", UtilSeverity(r.util), r.util, ts) : r \in breaching}

(***************************************************************************)
(* A snapshot holds the count, sum and sum of squares of per-minute totals *)
(* instead of their mean and population deviation: Deviates(z, b, x) is    *)
(* (x - mean) / stddev >= z.                                               *)
(***************************************************************************)
Deviates(z, b, x) ==
  /\ b.n * x >= b.sum
  /\ (b.n * x - b.sum) * (b.n * x - b.sum) >= z * z * (b.n * b.squares - b.sum * b.sum)
SpikeSeverity(b, x) ==
  CASE Deviates(6, b, x) -> "critical"
    [] Deviates(5, b, x) /\ ~Deviates(6, b, x) -> "high"
    [] OTHER -> "medium"

\* The snapshots that may serve as the baseline of a link: the dict keeps any one.
BaselinesOf(t, at, ts) ==
  {b \in snapshots : b.tenant = t /\ b.at = at /\ b.hour = Hour(ts)}
Bytes(S) == SumFunction([r \in S |-> r.bytes])
Spike(t, at, b, x, ts) ==
  IF b.n < MinSamples \/ b.n * b.squares = b.sum * b.sum \/ ~Deviates(3, b, x) THEN {}
  ELSE {Event(t, at, "spike", SpikeSeverity(b, x), x, ts)}
\* What detect_spikes may return: one baseline per link, whichever it is.
SpikeOutcomes(t, flows, ts) ==
  LET links == {at \in Places(flows) : BaselinesOf(t, at, ts) # {}} IN
  {UNION {Spike(t, at, f[at], Bytes(At(flows, at)), ts) : at \in links} :
     f \in {g \in [links -> snapshots] : \A at \in links : g[at] \in BaselinesOf(t, at, ts)}}

Sums(S) == [pfc |-> SumFunction([r \in S |-> r.pfc]),
            ecn |-> SumFunction([r \in S |-> r.ecn]),
            drops |-> SumFunction([r \in S |-> r.drops])]
LosslessDrop(q) == q.drops > 0 /\ q.pfc > 0

QueueEvents(t, at, q, ts) ==
  IF LosslessDrop(q) THEN {Event(t, at, "lossless_drop", "critical", q.drops, ts)}
  ELSE {e \in {Event(t, at, "pfc_storm", "high", q.pfc, ts)} : q.pfc >= Storm}
       \cup {e \in {Event(t, at, "ecn_spike", "medium", q.ecn, ts)} : q.ecn >= EcnSpike}

RdmaStress(t, ts) ==
  LET recent == Since(t, "queue", ts - Lookback) IN
  UNION {QueueEvents(t, at, Sums(At(recent, at)), ts) : at \in Places(recent)}

-----------------------------------------------------------------------------
DetectionInit ==
  /\ now = 0
  /\ rows = Earlier /\ snapshots = {} /\ events = {} /\ failedAt = {}
  /\ computed = {}
  /\ pass = NoPass
  /\ lastPass = 0

\* The row a measurement becomes: the same one may be stored again.
Timed(s, minute, copy) ==
  [f \in DOMAIN s \cup {"minute", "copy"} |->
     CASE f = "minute" -> minute [] f = "copy" -> copy [] OTHER -> s[f]]

\* A collector commits a measurement of this minute or, having waited, of an earlier one.
Store(s, late) ==
  /\ Cardinality(rows \ Earlier) < MaxRows /\ late <= now
  /\ LET copies == {r \in rows : r = Timed(s, now - late, r.copy)} IN
     rows' = rows \cup {Timed(s, now - late, Cardinality(copies))}
  /\ UNCHANGED <<now, snapshots, computed, pass, events, lastPass, failedAt>>

\* What the flows of one link and hour make, from per-minute totals.
Baseline(t, at, h) ==
  LET flows == {r \in Of(t, "flow") : r.at = at /\ Hour(r.minute) = h}
      minutes == {r.minute : r \in flows}
      total == [m \in minutes |-> Bytes({r \in flows : r.minute = m})] IN
  [tenant |-> t, at |-> at, hour |-> h, n |-> Cardinality(minutes),
   sum |-> SumFunction(total),
   squares |-> SumFunction([m \in minutes |-> total[m] * total[m]])]
\* One for each link and hour that has a flow; too few minutes make no snapshot.
Baselines ==
  {b \in {Baseline(r.tenant, r.at, Hour(r.minute)) : r \in {q \in rows : q.table = "flow"}} :
     b.n >= MinSamples}

\* compute_baselines reads in one session and writes in another.
ReadFlows ==
  /\ computed = {} /\ Baselines # {}
  /\ computed' = Baselines
  /\ UNCHANGED <<now, rows, snapshots, pass, events, lastPass, failedAt>>
WriteSnapshots ==
  /\ computed # {} /\ Cardinality(snapshots \cup computed) <= MaxSnapshots
  /\ snapshots' = snapshots \cup computed
  /\ computed' = {}
  /\ UNCHANGED <<now, rows, pass, events, lastPass, failedAt>>

BeginPass ==
  /\ pass = NoPass
  /\ pass' = [todo |-> Active, turn |-> {}, stage |-> "utils", clock |-> 0, read |-> {},
              found |-> {}, since |-> now]
  /\ UNCHANGED <<now, rows, snapshots, computed, events, lastPass, failedAt>>

\* The pass goes on to a stage of a tenant, with the clock, rows and events it then has.
GoesOn(todo, turn, stage, clock, read, new) ==
  /\ pass' = [todo |-> todo, turn |-> turn, stage |-> stage, clock |-> clock, read |-> read,
              found |-> pass.found \cup new, since |-> pass.since]
  /\ UNCHANGED <<now, rows, snapshots, computed, events, lastPass, failedAt>>
InHand(t, stage) == pass # NoPass /\ pass.turn = {t} /\ pass.stage = stage

\* detect_threshold_breaches: the query of the next tenant, ...
SelectUtils(t) ==
  /\ pass # NoPass /\ pass.turn = {} /\ t \in pass.todo
  /\ GoesOn(pass.todo, {t}, "clock", 0, Breaching(t), {})

\* ... its events, and the clock of detect_spikes, which is called at once.
ReadClock(t) ==
  /\ InHand(t, "clock")
  /\ GoesOn(pass.todo, {t}, "flows", now, {}, ThresholdBreaches(t, pass.read, now))

\* detect_spikes: the flows since its clock less the lookback, ...
SelectFlows(t) ==
  /\ InHand(t, "flows")
  /\ GoesOn(pass.todo, {t}, "baselines", pass.clock,
            Since(t, "flow", pass.clock - Lookback), {})

\* ... then the baselines.
SelectBaselines(t) ==
  /\ InHand(t, "baselines")
  /\ \E spikes \in SpikeOutcomes(t, pass.read, pass.clock) :
       GoesOn(pass.todo, {t}, "clock again", 0, {}, spikes)

\* detect_rdma_stress: its clock, ...
ReadClockAgain(t) ==
  /\ InHand(t, "clock again")
  /\ GoesOn(pass.todo, {t}, "queues", now, {}, {})

\* Faulty variant of SelectQueues: what was found in the tenants before is forgotten.
SelectQueuesForgets(t) ==
  /\ InHand(t, "queues")
  /\ pass' = [pass EXCEPT !.todo = @ \ {t}, !.turn = {}, !.stage = "utils", !.clock = 0,
                          !.found = RdmaStress(t, pass.clock)]
  /\ UNCHANGED <<now, rows, snapshots, computed, events, lastPass, failedAt>>

\* ... then the queues; the tenant is done.
SelectQueues(t) ==
  /\ InHand(t, "queues")
  /\ GoesOn(pass.todo \ {t}, {}, "utils", 0, {}, RdmaStress(t, pass.clock))

CommitPass ==
  /\ pass # NoPass /\ pass.todo = {}
  /\ events' = events \cup pass.found
  /\ lastPass' = pass.since
  /\ pass' = NoPass
  /\ UNCHANGED <<now, rows, snapshots, computed, failedAt>>

\* A query or the commit raises: every tenant's events of the pass are lost.
PassRaises ==
  /\ pass # NoPass /\ now \in FailMinutes
  /\ failedAt' = failedAt \cup {now}
  /\ lastPass' = pass.since
  /\ pass' = NoPass
  /\ UNCHANGED <<now, rows, snapshots, computed, events>>

\* The loop is not held up for longer than MaxLag.
Tick ==
  /\ now < MaxMinute /\ now - lastPass < MaxLag
  /\ now' = now + 1
  /\ UNCHANGED <<rows, snapshots, computed, pass, events, lastPass, failedAt>>

DetectionNext ==
  \/ \E s \in Samples, late \in 0..Late : Store(s, late)
  \/ ReadFlows \/ WriteSnapshots
  \/ BeginPass \/ CommitPass \/ PassRaises
  \/ \E t \in Active : \/ SelectUtils(t) \/ ReadClock(t) \/ SelectFlows(t)
                        \/ SelectBaselines(t) \/ ReadClockAgain(t) \/ SelectQueues(t)
  \/ Tick

DetectionSpec == DetectionInit /\ [][DetectionNext]_detectionVars

-----------------------------------------------------------------------------
Found == events \cup (IF pass = NoPass THEN {} ELSE pass.found)

DetectionTypeOK ==
  /\ now \in 0..MaxMinute
  /\ \A r \in rows \ Earlier : \E s \in Samples : r = Timed(s, r.minute, r.copy)
  /\ \A r \in rows : r.minute \in 0..now
  /\ \A b \in snapshots \cup computed : b.n \in Nat /\ b.sum \in Nat /\ b.squares \in Nat
  /\ pass # NoPass => /\ pass.turn \subseteq pass.todo /\ pass.todo \subseteq Active
                      /\ pass.since \in lastPass..now /\ pass.clock \in 0..now
                      /\ pass.read \subseteq rows
  /\ \A e \in Found : e.tenant \in Active /\ e.severity \in {"medium", "high", "critical"}
  /\ failedAt \subseteq 0..now

\* A single row that is enough for one of the queue detectors.
Alarming(r) == r.table = "queue" /\ (LosslessDrop(r) \/ r.pfc >= Storm \/ r.ecn >= EcnSpike)

(***************************************************************************)
(* "One tenant's quiet network never masks another tenant's incident": a   *)
(* burst on a queue of an active tenant that has left the lookback was     *)
(* reported while it was in it, however late its row was committed and     *)
(* whatever was stored during the passes, unless a pass raised meanwhile.  *)
(***************************************************************************)
BurstReported ==
  \A r \in rows :
    Alarming(r) /\ r.tenant \in Active /\ r.minute + Lookback <= now =>
      \/ \E e \in Found : /\ e.tenant = r.tenant /\ e.at = r.at
                          /\ e.type \in {"lossless_drop", "pfc_storm", "ecn_spike"}
                          /\ e.ts \in r.minute..r.minute + Lookback - 1
      \/ \E f \in failedAt : f \in r.minute..r.minute + Lookback

(***************************************************************************)
(* "All queries are tenant-scoped", "one tenant's baseline never           *)
(* contaminates another's": what an event or a snapshot says was measured  *)
(* at that place by that tenant.  What a spike or a queue event counts is  *)
(* no older than the lookback before its ts; as no query has an upper end, *)
(* it may be younger than ts, by the lag of the loop at most.  A spike has *)
(* a baseline of the hour of its ts.                                       *)
(***************************************************************************)
OwnEvidence ==
  LET Mine(e, table) == {r \in rows : /\ r.table = table /\ r.tenant = e.tenant /\ r.at = e.at} IN
  /\ \A e \in Found :
       LET Window(table) == {r \in Mine(e, table) : r.minute \in e.ts - Lookback + 1..e.ts + MaxLag} IN
       CASE e.type = "threshold_breach" -> \E r \in Mine(e, "util") : r.util = e.value
         [] e.type = "spike" -> /\ e.value <= Bytes(Window("flow"))
                                /\ \E b \in snapshots : /\ b.tenant = e.tenant /\ b.at = e.at
                                                        /\ b.hour = Hour(e.ts)
                                                        /\ Deviates(3, b, e.value)
         [] e.type = "lossless_drop" -> LosslessDrop(Sums(Window("queue")))
         [] e.type = "pfc_storm" -> e.value <= Sums(Window("queue")).pfc
         [] e.type = "ecn_spike" -> e.value <= Sums(Window("queue")).ecn
  /\ \A b \in snapshots \cup computed :
       /\ b.sum <= Bytes({r \in Mine(b, "flow") : Hour(r.minute) = b.hour})
       /\ b.n <= Cardinality({r.minute : r \in Mine(b, "flow")})

(***************************************************************************)
(* The acceptance criterion of the detector: "Spike detection returns zero *)
(* events when current traffic is within 3 stddev of baseline".  Of the    *)
(* minutes a spike is about, one at least had that much traffic.           *)
(***************************************************************************)
SteadyIsNoSpike ==
  \A e \in Found : e.type = "spike" =>
    \E m \in e.ts - Lookback + 1..e.ts + MaxLag, b \in snapshots :
      /\ b.tenant = e.tenant /\ b.at = e.at
      /\ Deviates(3, b, Bytes({r \in rows : /\ r.table = "flow" /\ r.tenant = e.tenant
                                            /\ r.at = e.at /\ r.minute = m}))
=============================================================================
