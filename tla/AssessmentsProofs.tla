------------------------- MODULE AssessmentsProofs -------------------------
(***************************************************************************)
(* Theorems of Detection and of Assessments for every set of tenants,      *)
(* every set of measurements and every threshold: what is reported was     *)
(* measured, a burst is reported before it leaves the lookback, and the    *)
(* tools an operator asks agree with the detectors.                        *)
(***************************************************************************)
EXTENDS Assessments, SumProofs, TLAPS

-----------------------------------------------------------------------------
(***************************************************************************)
(* The state.                                                              *)
(***************************************************************************)
Clock ==
  /\ now \in 0..MaxMinute /\ lastPass \in 0..now /\ now - lastPass <= MaxLag
  /\ failedAt \subseteq 0..now
  /\ pass # NoPass =>
       /\ pass.turn \subseteq pass.todo /\ pass.todo \subseteq Active
       /\ pass.since \in lastPass..now /\ pass.clock \in 0..now
       /\ pass.stage \in {"flows", "baselines", "queues"} => pass.since <= pass.clock
\* What the tenant in hand has read.
ReadFor(turn, stage, clock, read) ==
  /\ read \subseteq rows
  /\ \A r \in read, t \in turn :
       /\ stage = "clock" => r \in Of(t, "util") /\ r.util >= Warn
       /\ stage = "baselines" => r \in Since(t, "flow", clock - Lookback)
ReadOK == pass # NoPass => ReadFor(pass.turn, pass.stage, pass.clock, pass.read)
IsRow(r) ==
  /\ r.minute \in 0..now
  /\ r.table = "state" \/ Measured(r)
  /\ r \in Earlier \/ \E s \in Samples : r = Timed(s, r.minute, r.copy)
RowsOK == IsFiniteSet(rows) /\ \A r \in rows : IsRow(r)
IsSnapshot(b) == b.n \in Nat /\ b.sum \in Nat /\ b.squares \in Nat
SnapshotsOK == \A b \in snapshots \cup computed : IsSnapshot(b)
EventOK(e) == e.tenant \in Active /\ e.severity \in {"medium", "high", "critical"}
EventsOK == \A e \in Found : EventOK(e)

DetectionInv == Clock /\ RowsOK /\ ReadOK /\ SnapshotsOK /\ EventsOK

LEMMA TimedFields ==
  ASSUME NEW s \in Samples, NEW m, NEW c
  PROVE  LET r == Timed(s, m, c) IN
         /\ r.minute = m /\ r.copy = c
         /\ r.table = s.table /\ r.tenant = s.tenant /\ r.at = s.at
         /\ Measured(r)
<1>. DEFINE r == Timed(s, m, c)
<1>1. /\ {"table", "tenant", "at"} \subseteq DOMAIN s /\ Measured(s)
      /\ "minute" \notin DOMAIN s /\ "copy" \notin DOMAIN s
  BY SamplesAssumption
<1>2. /\ DOMAIN r = DOMAIN s \cup {"minute", "copy"}
      /\ r["minute"] = m /\ r["copy"] = c
      /\ \A f \in DOMAIN s : r[f] = s[f]
  BY <1>1 DEF Timed
<1>. HIDE DEF r
<1>3. r.table = s.table /\ r.tenant = s.tenant /\ r.at = s.at
  BY <1>1, <1>2
<1>4. Measured(r)
  BY <1>1, <1>2, <1>3 DEF Measured
<1>5. r.minute = m /\ r.copy = c
  BY <1>2
<1>. QED  BY <1>3, <1>4, <1>5 DEF r

\* Of the rows that a query selects.
LEMMA Selected ==
  ASSUME RowsOK, NEW t, NEW table, NEW m
  PROVE  /\ Since(t, table, m) \subseteq Of(t, table) /\ Of(t, table) \subseteq rows
         /\ IsFiniteSet(Since(t, table, m)) /\ IsFiniteSet(Of(t, table))
         /\ \A at : At(Since(t, table, m), at) \subseteq Since(t, table, m)
                    /\ IsFiniteSet(At(Since(t, table, m), at))
<1>1. Since(t, table, m) \subseteq Of(t, table) /\ Of(t, table) \subseteq rows
      /\ \A at : At(Since(t, table, m), at) \subseteq rows
  BY DEF Since, Of, At
<1>2. IsFiniteSet(Since(t, table, m)) /\ IsFiniteSet(Of(t, table))
      /\ \A at : IsFiniteSet(At(Since(t, table, m), at))
  BY <1>1, FS_Subset DEF RowsOK
<1>. QED  BY <1>1, <1>2 DEF At

\* The sums of the detectors, over any of the rows.
LEMMA BytesOf ==
  ASSUME NEW S, IsFiniteSet(S), \A r \in S : r.bytes \in Nat, NEW T \in SUBSET S
  PROVE  Bytes(S) \in Nat /\ Bytes(T) <= Bytes(S)
<1>. DEFINE f == [r \in S |-> r.bytes]
            e == [r \in T |-> r.bytes]
<1>1. /\ DOMAIN f = S /\ DOMAIN e = T
      /\ \A r \in S : f[r] \in Nat
      /\ \A r \in T : e[r] = f[r]
  OBVIOUS
<1>2. Bytes(S) = SumFunction(f) /\ Bytes(T) = SumFunction(e)
  BY DEF Bytes
<1>. HIDE DEF e, f
<1>. QED  BY <1>1, <1>2, SumOfNats, SumOfPart

LEMMA QueueSumsOf ==
  ASSUME NEW S, IsFiniteSet(S), \A r \in S : r.pfc \in Nat /\ r.ecn \in Nat /\ r.drops \in Nat,
         NEW T \in SUBSET S
  PROVE  /\ Sums(S).pfc \in Nat /\ Sums(S).ecn \in Nat /\ Sums(S).drops \in Nat
         /\ Sums(T).pfc <= Sums(S).pfc /\ Sums(T).ecn <= Sums(S).ecn
         /\ Sums(T).drops <= Sums(S).drops
         /\ \A r \in S : /\ r.pfc <= Sums(S).pfc /\ r.ecn <= Sums(S).ecn
                         /\ r.drops <= Sums(S).drops
         /\ Sums(S).pfc > 0 => \E r \in S : r.pfc > 0
         /\ Sums(S).drops > 0 => \E r \in S : r.drops > 0
<1>. DEFINE Fn(R, k) == [r \in R |-> r[k]]
<1>1. \A R : /\ Sums(R).pfc = SumFunction(Fn(R, "pfc"))
             /\ Sums(R).ecn = SumFunction(Fn(R, "ecn"))
             /\ Sums(R).drops = SumFunction(Fn(R, "drops"))
  BY DEF Sums
<1>2. ASSUME NEW k \in {"pfc", "ecn", "drops"}
      PROVE  /\ SumFunction(Fn(S, k)) \in Nat
             /\ SumFunction(Fn(S, k)) > 0 => \E r \in S : r[k] > 0
             /\ \A r \in S : r[k] <= SumFunction(Fn(S, k))
             /\ SumFunction(Fn(T, k)) <= SumFunction(Fn(S, k))
  <2>. DEFINE f == Fn(S, k)
              e == Fn(T, k)
  <2>1. /\ DOMAIN f = S /\ DOMAIN e = T
        /\ \A r \in S : f[r] \in Nat /\ f[r] = r[k]
        /\ \A r \in T : e[r] = f[r]
    OBVIOUS
  <2>. HIDE DEF e, f
  <2>2. /\ SumFunction(f) \in Nat
        /\ SumFunction(f) > 0 => \E r \in S : f[r] > 0
        /\ \A r \in S : f[r] <= SumFunction(f)
    BY <2>1, SumOfNats
  <2>3. SumFunction(e) <= SumFunction(f)
    BY <2>1, SumOfPart
  <2>. QED  BY <2>1, <2>2, <2>3 DEF e, f
<1>. HIDE DEF Fn
<1>. QED  BY <1>1, <1>2

-----------------------------------------------------------------------------
(***************************************************************************)
(* What the detectors find.                                                *)
(***************************************************************************)
QueueTypes == {"lossless_drop", "pfc_storm", "ecn_spike"}
Severities == {"medium", "high", "critical"}
Recent(t, table, at, ts) == At(Since(t, table, ts - Lookback), at)

LEMMA ThresholdFound ==
  ASSUME RowsOK, NEW t, NEW breaching \in SUBSET Of(t, "util"),
         \A r \in breaching : r.util >= Warn, NEW ts, NEW e \in ThresholdBreaches(t, breaching, ts)
  PROVE  /\ e.tenant = t /\ e.type = "threshold_breach" /\ e.severity \in Severities
         /\ e.ts = ts
         /\ \E r \in Of(t, "util") : r.at = e.at /\ r.util = e.value
<1>1. PICK r \in Of(t, "util") :
        r.util >= Warn /\ e = Event(t, r.at, "threshold_breach", UtilSeverity(r.util), r.util, ts)
  BY DEF ThresholdBreaches
<1>2. r.util \in Nat
  <2>1. r \in rows /\ r.table = "util"
    BY DEF Of
  <2>. QED  BY <2>1 DEF RowsOK, IsRow, Measured
<1>3. UtilSeverity(r.util) \in Severities
  BY <1>1, <1>2, DetectionAssumption DEF UtilSeverity, Severities
<1>. QED  BY <1>1, <1>3 DEF Event

LEMMA SpikeFound ==
  ASSUME NEW t, NEW flows, NEW ts, NEW spikes \in SpikeOutcomes(t, flows, ts), NEW e \in spikes
  PROVE  /\ e.tenant = t /\ e.type = "spike" /\ e.severity \in Severities /\ e.ts = ts
         /\ e.value = Bytes(At(flows, e.at))
         /\ \E b \in snapshots : /\ b.tenant = t /\ b.at = e.at /\ b.hour = Hour(ts)
                                 /\ Deviates(3, b, e.value)
<1>1. PICK at, b : b \in BaselinesOf(t, at, ts) /\ e \in Spike(t, at, b, Bytes(At(flows, at)), ts)
  <2>. DEFINE links == {at \in Places(flows) : BaselinesOf(t, at, ts) # {}}
  <2>1. PICK f \in [links -> snapshots] :
          /\ \A at \in links : f[at] \in BaselinesOf(t, at, ts)
          /\ spikes = UNION {Spike(t, at, f[at], Bytes(At(flows, at)), ts) : at \in links}
    BY DEF SpikeOutcomes
  <2>2. PICK at \in links : e \in Spike(t, at, f[at], Bytes(At(flows, at)), ts)
    BY <2>1
  <2>. QED  BY <2>1, <2>2
<1>. DEFINE x == Bytes(At(flows, at))
<1>2. e = Event(t, at, "spike", SpikeSeverity(b, x), x, ts) /\ Deviates(3, b, x)
  BY <1>1 DEF Spike
<1>3. SpikeSeverity(b, x) \in Severities
  BY DEF SpikeSeverity, Severities
<1>4. b \in snapshots /\ b.tenant = t /\ b.at = at /\ b.hour = Hour(ts)
  BY <1>1 DEF BaselinesOf
<1>5. /\ e.tenant = t /\ e.at = at /\ e.type = "spike" /\ e.ts = ts /\ e.value = x
      /\ e.severity = SpikeSeverity(b, x)
  BY <1>2 DEF Event
<1>. HIDE DEF x
<1>6. e.value = Bytes(At(flows, e.at))
  BY <1>5 DEF x
<1>. QED  BY <1>2, <1>3, <1>4, <1>5, <1>6

LEMMA RdmaFound ==
  ASSUME NEW t, NEW ts, NEW e \in RdmaStress(t, ts)
  PROVE  LET q == Sums(Recent(t, "queue", e.at, ts)) IN
         /\ e.tenant = t /\ e.type \in QueueTypes /\ e.severity \in Severities /\ e.ts = ts
         /\ e.at \in Places(Since(t, "queue", ts - Lookback))
         /\ e.type = "lossless_drop" => LosslessDrop(q)
         /\ e.type = "pfc_storm" => e.value = q.pfc
         /\ e.type = "ecn_spike" => e.value = q.ecn
<1>1. PICK at \in Places(Since(t, "queue", ts - Lookback)) :
        e \in QueueEvents(t, at, Sums(Recent(t, "queue", at, ts)), ts)
  BY DEF RdmaStress, Recent
<1>2. PICK q : q = Sums(Recent(t, "queue", at, ts))
  OBVIOUS
<1>3. \/ e = Event(t, at, "lossless_drop", "critical", q.drops, ts) /\ LosslessDrop(q)
      \/ e = Event(t, at, "pfc_storm", "high", q.pfc, ts)
      \/ e = Event(t, at, "ecn_spike", "medium", q.ecn, ts)
  BY <1>1, <1>2 DEF QueueEvents
<1>4. e.at = at /\ e.tenant = t /\ e.ts = ts
  BY <1>3 DEF Event
<1>5. q = Sums(Recent(t, "queue", e.at, ts))
  BY <1>2, <1>4
<1>6. /\ e.type \in QueueTypes /\ e.severity \in Severities
      /\ e.type = "lossless_drop" => LosslessDrop(q)
      /\ e.type = "pfc_storm" => e.value = q.pfc
      /\ e.type = "ecn_spike" => e.value = q.ecn
  BY <1>3 DEF Event, QueueTypes, Severities
<1>. QED  BY <1>1, <1>4, <1>5, <1>6

\* The queue detector sees any row of its lookback that is enough alone.
LEMMA RdmaFinds ==
  ASSUME RowsOK, NEW t, NEW ts, NEW r \in Since(t, "queue", ts - Lookback), Alarming(r)
  PROVE  \E e \in RdmaStress(t, ts) :
           e.tenant = t /\ e.at = r.at /\ e.type \in QueueTypes /\ e.ts = ts
<1>. DEFINE S == Recent(t, "queue", r.at, ts)
<1>1. IsFiniteSet(S) /\ S \subseteq rows /\ r \in S /\ \A x \in S : x.table = "queue"
  <2>1. IsFiniteSet(S) /\ S \subseteq Since(t, "queue", ts - Lookback)
        /\ Since(t, "queue", ts - Lookback) \subseteq rows
    BY Selected DEF Recent
  <2>2. \A x \in Since(t, "queue", ts - Lookback) : x.table = "queue"
    BY DEF Since, Of
  <2>3. r \in S
    BY DEF Recent, At
  <2>. QED  BY <2>1, <2>2, <2>3
<1>2. \A x \in S : x.pfc \in Nat /\ x.ecn \in Nat /\ x.drops \in Nat
  BY <1>1 DEF RowsOK, IsRow, Measured
<1>3. PICK q : q = Sums(S)
  OBVIOUS
<1>4. /\ q.pfc \in Nat /\ q.ecn \in Nat /\ q.drops \in Nat
      /\ r.pfc <= q.pfc /\ r.ecn <= q.ecn /\ r.drops <= q.drops
  <2>. HIDE DEF S
  <2>. QED  BY <1>1, <1>2, <1>3, QueueSumsOf
<1>5. /\ r.pfc \in Nat /\ r.ecn \in Nat /\ r.drops \in Nat
      /\ LosslessDrop(r) \/ r.pfc >= Storm \/ r.ecn >= EcnSpike
  BY <1>1, <1>2 DEF Alarming
<1>6. LosslessDrop(q) \/ q.pfc >= Storm \/ q.ecn >= EcnSpike
  BY <1>4, <1>5, DetectionAssumption DEF LosslessDrop
<1>7. \E e \in QueueEvents(t, r.at, q, ts) : e.type \in QueueTypes /\ e.tenant = t
                                               /\ e.at = r.at /\ e.ts = ts
  <2>1. CASE LosslessDrop(q)
    <3>1. Event(t, r.at, "lossless_drop", "critical", q.drops, ts) \in QueueEvents(t, r.at, q, ts)
      BY <2>1 DEF QueueEvents
    <3>. QED  BY <3>1 DEF Event, QueueTypes
  <2>2. CASE ~LosslessDrop(q) /\ q.pfc >= Storm
    <3>1. Event(t, r.at, "pfc_storm", "high", q.pfc, ts) \in QueueEvents(t, r.at, q, ts)
      BY <2>2 DEF QueueEvents
    <3>. QED  BY <3>1 DEF Event, QueueTypes
  <2>3. CASE ~LosslessDrop(q) /\ q.ecn >= EcnSpike
    <3>1. Event(t, r.at, "ecn_spike", "medium", q.ecn, ts) \in QueueEvents(t, r.at, q, ts)
      BY <2>3 DEF QueueEvents
    <3>. QED  BY <3>1 DEF Event, QueueTypes
  <2>. QED  BY <1>6, <2>1, <2>2, <2>3
<1>8. r.at \in Places(Since(t, "queue", ts - Lookback))
  BY DEF Places
<1>9. QueueEvents(t, r.at, q, ts) \subseteq RdmaStress(t, ts)
  BY <1>3, <1>8 DEF RdmaStress, Recent
<1>. QED  BY <1>7, <1>9

-----------------------------------------------------------------------------
(***************************************************************************)
(* What a snapshot holds: taking the volumes of an hour by the minute      *)
(* leaves none out and counts none twice.                                  *)
(***************************************************************************)
HourFlows(t, at, h) == {r \in Of(t, "flow") : r.at = at /\ Hour(r.minute) = h}

LEMMA BaselineIs ==
  ASSUME RowsOK, NEW t, NEW at, NEW h
  PROVE  LET b == Baseline(t, at, h) IN
         /\ b.tenant = t /\ b.at = at /\ b.hour = h /\ IsSnapshot(b)
         /\ b.sum = Bytes(HourFlows(t, at, h))
         /\ b.n = Cardinality({r.minute : r \in HourFlows(t, at, h)})
<1>. DEFINE S == HourFlows(t, at, h)
            X == {r.minute : r \in S}
            In(m) == {r \in S : r.minute = m}
            f == [r \in S |-> r.bytes]
            e == [m \in X |-> Bytes(In(m))]
            g == [r \in S |-> r.minute]
            sq == [m \in X |-> e[m] * e[m]]
<1>0. Baseline(t, at, h) = [tenant |-> t, at |-> at, hour |-> h, n |-> Cardinality(X),
                            sum |-> SumFunction(e), squares |-> SumFunction(sq)]
  BY DEF Baseline, HourFlows
<1>1. IsFiniteSet(S) /\ \A r \in S : r.bytes \in Nat
  <2>1. S \subseteq rows /\ \A r \in S : r.table = "flow"
    BY DEF HourFlows, Of
  <2>. QED  BY <2>1, FS_Subset DEF RowsOK, IsRow, Measured
<1>2. IsFiniteSet(X) /\ g \in [S -> X]
  <2>1. g \in Surjection(S, X)
    BY DEF Surjection
  <2>. HIDE DEF S, X, g
  <2>. QED  BY <1>1, <2>1, FS_Surjection DEF Surjection
<1>3. ASSUME NEW m \in X
      PROVE  /\ e[m] \in Nat
             /\ \E P \in SUBSET S :
                  (\A i \in S : i \in P <=> g[i] = m) /\ e[m] = SumFunctionOnSet(f, P)
  <2>. DEFINE P == In(m)
              fp == [r \in P |-> r.bytes]
  <2>1. IsFiniteSet(P) /\ P \in SUBSET S /\ \A i \in S : i \in P <=> g[i] = m
    BY <1>1, FS_Subset
  <2>2. e[m] = Bytes(P) /\ Bytes(P) = SumFunctionOnSet(fp, P)
    BY DEF Bytes, SumFunction
  <2>3. \A r \in P : fp[r] = f[r] /\ r.bytes \in Nat
    BY <1>1
  <2>. HIDE DEF S, X, P, f, e, g, fp
  <2>4. SumFunctionOnSet(fp, P) = SumFunctionOnSet(f, P)
    BY <2>1, <2>3, SumSame
  <2>5. Bytes(P) \in Nat
    BY <2>1, <2>3, BytesOf
  <2>. QED  BY <2>1, <2>2, <2>4, <2>5
<1>4. \A i \in S : f[i] \in Int
  BY <1>1
<1>5. SumFunctionOnSet(e, X) = SumFunctionOnSet(f, S)
  <2>. HIDE DEF S, X, f, e, g
  <2>. QED  BY <1>1, <1>2, <1>3, <1>4, SumInGroups
<1>6. SumFunction(e) = Bytes(S)
  BY <1>5 DEF SumFunction, Bytes
<1>7. SumFunction(e) \in Nat /\ SumFunction(sq) \in Nat
  <2>1. DOMAIN e = X /\ DOMAIN sq = X /\ \A m \in X : sq[m] = e[m] * e[m]
    OBVIOUS
  <2>2. \A m \in X : e[m] \in Nat /\ sq[m] \in Nat
    <3>. HIDE DEF X, e, sq
    <3>. QED  BY <1>3, <2>1
  <2>. HIDE DEF X, e, sq
  <2>. QED  BY <1>2, <2>1, <2>2, SumOfNats
<1>8. Cardinality(X) \in Nat
  BY <1>2, FS_CardinalityType
<1>. HIDE DEF S, X, e, sq
<1>9. /\ Baseline(t, at, h).tenant = t /\ Baseline(t, at, h).at = at
      /\ Baseline(t, at, h).hour = h /\ Baseline(t, at, h).n = Cardinality(X)
      /\ Baseline(t, at, h).sum = SumFunction(e)
      /\ Baseline(t, at, h).squares = SumFunction(sq)
  BY <1>0
<1>. QED  BY <1>6, <1>7, <1>8, <1>9 DEF IsSnapshot, S, X

-----------------------------------------------------------------------------
LEMMA DetectionInitInv == DetectionInit => DetectionInv
<1>. SUFFICES ASSUME DetectionInit PROVE DetectionInv
  OBVIOUS
<1>1. Clock
  BY DetectionAssumption DEF DetectionInit, Clock
<1>2. RowsOK
  BY SamplesAssumption DEF DetectionInit, RowsOK, IsRow
<1>3. SnapshotsOK /\ EventsOK /\ ReadOK
  BY DEF DetectionInit, SnapshotsOK, EventsOK, Found, ReadOK
<1>. QED  BY <1>1, <1>2, <1>3 DEF DetectionInv

\* A row is one as well when the clock has gone on.
LEMMA RowsLater ==
  ASSUME RowsOK, now \in Nat, now' \in Nat, now <= now', rows' = rows
  PROVE  RowsOK'
<1>1. ASSUME NEW r \in rows
      PROVE  r.minute \in 0..now'
  BY DEF RowsOK, IsRow
<1>. QED  BY <1>1 DEF RowsOK, IsRow

LEMMA StoreRow ==
  ASSUME RowsOK, Clock, NEW s \in Samples, NEW late \in 0..Late, Store(s, late)
  PROVE  /\ RowsOK' /\ rows \subseteq rows'
         /\ \A r \in rows' \ rows : r.minute = now - late /\ r.minute \in 0..now
<1>. DEFINE m == now - late
            c == Cardinality({r \in rows : r = Timed(s, m, r.copy)})
            new == Timed(s, m, c)
<1>1. rows' = rows \cup {new} /\ now' = now /\ late <= now
  BY DEF Store
<1>2. now \in Nat /\ late \in Nat /\ m \in 0..now
  BY <1>1, DetectionAssumption DEF Clock
<1>3. new.minute = m /\ new.copy = c /\ Measured(new)
  BY TimedFields
<1>4. new = Timed(s, new.minute, new.copy)
  BY <1>3
<1>5. IsFiniteSet(rows')
  BY <1>1, FS_AddElement DEF RowsOK
<1>. HIDE DEF m, c, new
<1>6. RowsOK'
  BY <1>1, <1>2, <1>3, <1>4, <1>5 DEF RowsOK, IsRow
<1>. QED  BY <1>1, <1>2, <1>3, <1>6 DEF m

\* The pass goes on to a stage of a tenant.
LEMMA PassGoesOn ==
  ASSUME DetectionInv, pass # NoPass, NEW todo \in SUBSET pass.todo, NEW turn \in SUBSET todo,
         NEW stage, NEW clock \in 0..now, NEW read, NEW new,
         stage \in {"flows", "baselines", "queues"} => pass.since <= clock,
         ReadFor(turn, stage, clock, read), \A e \in new : EventOK(e),
         GoesOn(todo, turn, stage, clock, read, new)
  PROVE  DetectionInv'
<1>1. /\ pass'.todo = todo /\ pass'.turn = turn /\ pass'.stage = stage /\ pass'.clock = clock
      /\ pass'.read = read /\ pass'.found = pass.found \cup new /\ pass'.since = pass.since
      /\ UNCHANGED <<now, rows, snapshots, computed, events, lastPass, failedAt>>
  BY DEF GoesOn
<1>2. Clock'
  BY <1>1 DEF DetectionInv, Clock
<1>3. RowsOK' /\ SnapshotsOK'
  BY <1>1 DEF DetectionInv, RowsOK, IsRow, SnapshotsOK
<1>4. ReadOK'
  BY <1>1 DEF ReadOK, ReadFor, Of, Since
<1>5. EventsOK'
  <2>1. \A e \in Found : EventOK(e)
    BY DEF DetectionInv, EventsOK
  <2>. QED  BY <1>1, <2>1 DEF EventsOK, Found
<1>. QED  BY <1>2, <1>3, <1>4, <1>5 DEF DetectionInv

\* The steps of a pass through one tenant.
Steps(t) == \/ SelectUtils(t) \/ ReadClock(t) \/ SelectFlows(t)
            \/ SelectBaselines(t) \/ ReadClockAgain(t) \/ SelectQueues(t)

\* A pass finds nothing but events of the tenant in hand, with the clock of a detector.
LEMMA StepsFind ==
  ASSUME DetectionInv, NEW t \in Active, Steps(t)
  PROVE  /\ pass # NoPass /\ DetectionInv'
         /\ \E todo, turn, stage, clock, read, new :
              /\ GoesOn(todo, turn, stage, clock, read, new)
              /\ \/ new = {}
                 \/ \E ts \in 0..now :
                      \/ /\ InHand(t, "clock") /\ ts = now
                         /\ new = ThresholdBreaches(t, pass.read, ts)
                      \/ /\ InHand(t, "baselines") /\ ts = pass.clock
                         /\ new \in SpikeOutcomes(t, pass.read, ts)
                      \/ /\ InHand(t, "queues") /\ ts = pass.clock
                         /\ new = RdmaStress(t, ts)
<1>i. Clock /\ RowsOK /\ ReadOK
  BY DEF DetectionInv
<1>n. now \in Nat /\ 0 \in 0..now /\ now \in 0..now /\ lastPass \in 0..now
  BY <1>i, DetectionAssumption DEF Clock
<1>p. pass # NoPass
  BY DEF Steps, SelectUtils, ReadClock, SelectFlows, SelectBaselines, ReadClockAgain, SelectQueues,
         InHand
<1>c. /\ pass.clock \in 0..now /\ pass.since \in lastPass..now /\ pass.turn \subseteq pass.todo
      /\ pass.since <= now
      /\ pass.stage \in {"flows", "baselines", "queues"} => pass.since <= pass.clock
  BY <1>p, <1>i, <1>n DEF Clock
<1>h. \A stage : InHand(t, stage) => {t} \in SUBSET pass.todo /\ pass.stage = stage
  <2>1. ASSUME pass.turn = {t}
        PROVE  {t} \in SUBSET pass.todo
    <3>1. t \in pass.todo
      BY <2>1, <1>c
    <3>. QED  BY <3>1
  <2>. QED  BY <2>1 DEF InHand
<1>r. ReadFor(pass.turn, pass.stage, pass.clock, pass.read)
  BY <1>p, <1>i DEF ReadOK
<1>1. CASE SelectUtils(t)
  <2>1. {t} \in SUBSET pass.todo /\ GoesOn(pass.todo, {t}, "clock", 0, Breaching(t), {})
    BY <1>1 DEF SelectUtils
  <2>2. ReadFor({t}, "clock", 0, Breaching(t))
    BY DEF ReadFor, Breaching, Of
  <2>3. DetectionInv'
    BY <1>p, <1>n, <2>1, <2>2, PassGoesOn
  <2>. QED  BY <1>p, <2>1, <2>3
<1>2. CASE ReadClock(t)
  <2>. DEFINE new == ThresholdBreaches(t, pass.read, now)
  <2>1. InHand(t, "clock") /\ GoesOn(pass.todo, {t}, "flows", now, {}, new)
    BY <1>2 DEF ReadClock
  <2>2. ReadFor({t}, "flows", now, {})
    BY DEF ReadFor
  <2>3. \A e \in new : EventOK(e)
    <3>1. pass.read \in SUBSET Of(t, "util") /\ \A r \in pass.read : r.util >= Warn
      BY <2>1, <1>r DEF InHand, ReadFor
    <3>. QED  BY <3>1, <1>i, ThresholdFound DEF EventOK, Severities
  <2>4. {t} \in SUBSET pass.todo
    BY <2>1, <1>h
  <2>5. DetectionInv'
    <3>. HIDE DEF new
    <3>. QED  BY <1>p, <1>n, <1>c, <2>1, <2>2, <2>3, <2>4, PassGoesOn
  <2>. QED  BY <1>p, <1>n, <2>1, <2>5
<1>3. CASE SelectFlows(t)
  <2>. DEFINE read == Since(t, "flow", pass.clock - Lookback)
  <2>1. InHand(t, "flows") /\ GoesOn(pass.todo, {t}, "baselines", pass.clock, read, {})
    BY <1>3 DEF SelectFlows
  <2>2. ReadFor({t}, "baselines", pass.clock, read)
    BY DEF ReadFor, Since, Of
  <2>3. {t} \in SUBSET pass.todo /\ pass.since <= pass.clock
    BY <2>1, <1>c, <1>h
  <2>4. DetectionInv'
    <3>. HIDE DEF read
    <3>. QED  BY <1>p, <1>c, <2>1, <2>2, <2>3, PassGoesOn
  <2>. QED  BY <1>p, <2>1, <2>4
<1>4. CASE SelectBaselines(t)
  <2>1. PICK spikes \in SpikeOutcomes(t, pass.read, pass.clock) :
          GoesOn(pass.todo, {t}, "clock again", 0, {}, spikes)
    BY <1>4 DEF SelectBaselines
  <2>2. InHand(t, "baselines") /\ {t} \in SUBSET pass.todo
    BY <1>4, <1>h DEF SelectBaselines
  <2>3. ReadFor({t}, "clock again", 0, {})
    BY DEF ReadFor
  <2>4. ASSUME NEW e \in spikes
        PROVE  EventOK(e)
    <3>0. PICK flows, ts : spikes \in SpikeOutcomes(t, flows, ts)
      OBVIOUS
    <3>1. e.tenant = t /\ e.severity \in Severities
      BY <3>0, SpikeFound
    <3>. QED  BY <3>1 DEF EventOK, Severities
  <2>5. DetectionInv'
    BY <1>p, <1>n, <2>1, <2>2, <2>3, <2>4, PassGoesOn
  <2>. QED  BY <1>p, <1>c, <2>1, <2>2, <2>5
<1>5. CASE ReadClockAgain(t)
  <2>1. InHand(t, "clock again") /\ GoesOn(pass.todo, {t}, "queues", now, {}, {})
    BY <1>5 DEF ReadClockAgain
  <2>2. ReadFor({t}, "queues", now, {})
    BY DEF ReadFor
  <2>3. {t} \in SUBSET pass.todo
    BY <2>1, <1>h
  <2>4. DetectionInv'
    BY <1>p, <1>n, <1>c, <2>1, <2>2, <2>3, PassGoesOn
  <2>. QED  BY <1>p, <2>1, <2>4
<1>6. CASE SelectQueues(t)
  <2>. DEFINE new == RdmaStress(t, pass.clock)
  <2>1. InHand(t, "queues") /\ GoesOn(pass.todo \ {t}, {}, "utils", 0, {}, new)
    BY <1>6 DEF SelectQueues
  <2>2. ReadFor({}, "utils", 0, {})
    BY DEF ReadFor
  <2>3. \A e \in new : EventOK(e)
    BY RdmaFound DEF EventOK, Severities
  <2>4. DetectionInv'
    <3>. HIDE DEF new
    <3>. QED  BY <1>p, <1>n, <2>1, <2>2, <2>3, PassGoesOn
  <2>. QED  BY <1>p, <1>c, <2>1, <2>4
<1>. QED  BY <1>1, <1>2, <1>3, <1>4, <1>5, <1>6 DEF Steps

LEMMA DetectionStepInv ==
  ASSUME DetectionInv, [DetectionNext]_detectionVars
  PROVE  DetectionInv'
<1>i. Clock /\ RowsOK /\ ReadOK /\ SnapshotsOK /\ EventsOK
  BY DEF DetectionInv
<1>n. now \in Nat /\ now \in 0..MaxMinute /\ lastPass \in 0..now /\ MaxMinute \in Nat
      /\ MaxLag \in Nat
  BY <1>i, DetectionAssumption DEF Clock
\* A step that leaves the pass alone and takes no row away.
<1>r. ASSUME pass' = pass, rows \subseteq rows'
      PROVE  ReadOK'
  BY <1>r, <1>i DEF ReadOK, ReadFor, Since, Of
<1>1. ASSUME NEW s \in Samples, NEW late \in 0..Late, Store(s, late)
      PROVE  DetectionInv'
  <2>1. RowsOK' /\ ReadOK'
    BY <1>1, <1>i, <1>r, StoreRow DEF Store
  <2>2. Clock' /\ SnapshotsOK' /\ EventsOK'
    BY <1>1, <1>i DEF Store, Clock, SnapshotsOK, EventsOK, Found
  <2>. QED  BY <2>1, <2>2 DEF DetectionInv
<1>2. CASE ReadFlows
  <2>1. ASSUME NEW b \in computed'
        PROVE  IsSnapshot(b)
    <3>1. PICK r \in rows : b = Baseline(r.tenant, r.at, Hour(r.minute))
      BY <1>2 DEF ReadFlows, Baselines
    <3>. QED  BY <3>1, <1>i, BaselineIs
  <2>2. Clock' /\ RowsOK' /\ EventsOK'
    BY <1>2, <1>i DEF ReadFlows, Clock, RowsOK, IsRow, EventsOK, Found
  <2>3. SnapshotsOK'
    BY <1>2, <2>1, <1>i DEF ReadFlows, SnapshotsOK
  <2>4. ReadOK'
    BY <1>2, <1>r DEF ReadFlows
  <2>. QED  BY <2>2, <2>3, <2>4 DEF DetectionInv
<1>3. CASE WriteSnapshots
  <2>1. Clock' /\ RowsOK' /\ EventsOK'
    BY <1>3, <1>i DEF WriteSnapshots, Clock, RowsOK, IsRow, EventsOK, Found
  <2>2. SnapshotsOK'
    BY <1>3, <1>i DEF WriteSnapshots, SnapshotsOK
  <2>3. ReadOK'
    BY <1>3, <1>r DEF WriteSnapshots
  <2>. QED  BY <2>1, <2>2, <2>3 DEF DetectionInv
<1>4. CASE BeginPass
  <2>0. /\ UNCHANGED <<now, rows, snapshots, computed, events, lastPass, failedAt>>
        /\ pass'.todo = Active /\ pass'.turn = {} /\ pass'.stage = "utils" /\ pass'.clock = 0
        /\ pass'.read = {} /\ pass'.found = {} /\ pass'.since = now
    BY <1>4 DEF BeginPass
  <2>1. RowsOK' /\ SnapshotsOK'
    BY <2>0, <1>i DEF RowsOK, IsRow, SnapshotsOK
  <2>2. Clock'
    BY <2>0, <1>i, <1>n DEF Clock
  <2>3. ReadOK'
    BY <2>0 DEF ReadOK, ReadFor
  <2>4. EventsOK'
    BY <2>0, <1>i DEF EventsOK, Found
  <2>. QED  BY <2>1, <2>2, <2>3, <2>4 DEF DetectionInv
<1>5. ASSUME NEW t \in Active, Steps(t)
      PROVE  DetectionInv'
  BY <1>5, StepsFind
<1>6. CASE CommitPass \/ PassRaises
  <2>0. /\ UNCHANGED <<now, rows, snapshots, computed>> /\ Found' \subseteq Found
        /\ pass # NoPass /\ pass' = NoPass /\ lastPass' = pass.since
        /\ failedAt' \in {failedAt, failedAt \cup {now}}
    BY <1>6 DEF CommitPass, PassRaises, Found
  <2>1. RowsOK' /\ SnapshotsOK'
    BY <2>0, <1>i DEF RowsOK, IsRow, SnapshotsOK
  <2>2. Clock'
    BY <2>0, <1>i, <1>n DEF Clock
  <2>3. ReadOK' /\ EventsOK'
    BY <2>0, <1>i DEF ReadOK, EventsOK
  <2>. QED  BY <2>1, <2>2, <2>3 DEF DetectionInv
<1>8. CASE Tick
  <2>1. now' = now + 1 /\ now < MaxMinute /\ now - lastPass < MaxLag /\ rows' = rows
    BY <1>8 DEF Tick
  <2>2. RowsOK'
    BY <2>1, <1>i, <1>n, RowsLater
  <2>3. SnapshotsOK' /\ EventsOK' /\ ReadOK'
    BY <1>8, <1>i, <1>r DEF Tick, SnapshotsOK, EventsOK, Found
  <2>4. Clock'
    BY <1>8, <2>1, <1>i, <1>n DEF Tick, Clock
  <2>. QED  BY <2>2, <2>3, <2>4 DEF DetectionInv
<1>9. CASE UNCHANGED detectionVars
  BY <1>9, <1>i, <1>r DEF detectionVars, DetectionInv, Clock, RowsOK, IsRow, SnapshotsOK, EventsOK, Found
<1>. QED  BY <1>1, <1>2, <1>3, <1>4, <1>5, <1>6, <1>8, <1>9 DEF DetectionNext, Steps

THEOREM DetectionInvariant == DetectionSpec => []DetectionInv
BY DetectionInitInv, DetectionStepInv, PTL DEF DetectionSpec

(***************************************************************************)
(* The types; with them, that no event is of low severity, which says that *)
(* the limits of the detectors and of the severities agree.                *)
(***************************************************************************)
THEOREM DetectionTypeHolds == DetectionSpec => []DetectionTypeOK
<1>1. DetectionInv => DetectionTypeOK
  <2>. SUFFICES ASSUME DetectionInv PROVE DetectionTypeOK
    OBVIOUS
  <2>1. Clock /\ RowsOK /\ ReadOK /\ SnapshotsOK /\ EventsOK
    BY DEF DetectionInv
  <2>2. pass # NoPass => /\ pass.turn \subseteq pass.todo /\ pass.todo \subseteq Active
                         /\ pass.since \in lastPass..now /\ pass.clock \in 0..now
                         /\ pass.read \subseteq rows
    BY <2>1 DEF Clock, ReadOK, ReadFor
  <2>3. /\ \A r \in rows \ Earlier : \E s \in Samples : r = Timed(s, r.minute, r.copy)
        /\ \A r \in rows : r.minute \in 0..now
    BY <2>1 DEF RowsOK, IsRow
  <2>4. \A b \in snapshots \cup computed : b.n \in Nat /\ b.sum \in Nat /\ b.squares \in Nat
    BY <2>1 DEF SnapshotsOK, IsSnapshot
  <2>. QED  BY <2>1, <2>2, <2>3, <2>4 DEF DetectionTypeOK, Clock, EventsOK, EventOK
<1>. QED  BY <1>1, DetectionInvariant, PTL

-----------------------------------------------------------------------------
(***************************************************************************)
(* Bursts.  A burst is settled by an event of a committed pass or by a     *)
(* pass that raised; until then the last pass began too early to have seen *)
(* it (SettledInTime), which with MaxLag keeps it in the lookback, and a   *)
(* pass under way that began late enough has found it if it is done with   *)
(* its tenant (FoundInPass).                                               *)
(***************************************************************************)
Burst(r) == r \in rows /\ Alarming(r) /\ r.tenant \in Active
Reports(e, r) ==
  /\ e.tenant = r.tenant /\ e.at = r.at /\ e.type \in QueueTypes
  /\ e.ts \in r.minute..r.minute + Lookback - 1
Settled(r) ==
  \/ \E e \in events : Reports(e, r)
  \/ \E f \in failedAt : f \in r.minute..r.minute + Lookback
SettledInTime == \A r \in rows : Burst(r) /\ ~Settled(r) => lastPass <= r.minute + Late
FoundInPass ==
  pass # NoPass =>
    \A r \in rows :
      Burst(r) /\ ~Settled(r) /\ r.tenant \notin pass.todo /\ r.minute + Late < pass.since
        => \E e \in pass.found : Reports(e, r)
BurstInv == DetectionInv /\ SettledInTime /\ FoundInPass

\* What is not settled is still in the lookback.
LEMMA NotLeftYet ==
  ASSUME DetectionInv, SettledInTime, NEW r \in rows, Burst(r), ~Settled(r)
  PROVE  now < r.minute + Lookback /\ r.minute \in 0..now /\ r.table = "queue"
<1>1. lastPass <= r.minute + Late
  BY DEF SettledInTime
<1>2. /\ now \in Nat /\ lastPass \in 0..now /\ now - lastPass <= MaxLag
      /\ r.minute \in 0..now
  BY DetectionAssumption DEF DetectionInv, Clock, RowsOK, IsRow
<1>3. Late \in Nat /\ MaxLag \in Nat /\ Lookback \in Nat /\ Late + MaxLag < Lookback
  BY DetectionAssumption
<1>. QED  BY <1>1, <1>2, <1>3 DEF Burst, Alarming

\* A step that takes neither rows, events nor failures away settles no less.
LEMMA SettledLater ==
  ASSUME events \subseteq events', failedAt \subseteq failedAt', NEW r
  PROVE  Settled(r) => Settled(r)'
BY DEF Settled, Reports

LEMMA BurstInitInv == DetectionInit => BurstInv
<1>. SUFFICES ASSUME DetectionInit PROVE BurstInv
  OBVIOUS
<1>1. DetectionInv
  BY DetectionInitInv
<1>2. SettledInTime
  <2>1. \A r \in rows : lastPass <= r.minute + Late
    BY SamplesAssumption, DetectionAssumption DEF DetectionInit
  <2>. QED  BY <2>1 DEF SettledInTime
<1>3. FoundInPass
  BY DEF DetectionInit, FoundInPass
<1>. QED  BY <1>1, <1>2, <1>3 DEF BurstInv

LEMMA BurstStepInv ==
  ASSUME BurstInv, [DetectionNext]_detectionVars
  PROVE  BurstInv'
<1>i. DetectionInv /\ SettledInTime /\ FoundInPass /\ Clock /\ RowsOK
  BY DEF BurstInv, DetectionInv
<1>i2. DetectionInv'
  BY <1>i, DetectionStepInv
<1>n. /\ now \in Nat /\ lastPass \in 0..now
      /\ pass # NoPass => pass.since \in lastPass..now
      /\ \A r \in rows : r.minute \in 0..now
  BY <1>i, DetectionAssumption DEF Clock, RowsOK, IsRow
<1>l. Late \in Nat /\ MaxLag \in Nat /\ Lookback \in Nat /\ Late + MaxLag < Lookback
  BY DetectionAssumption
<1>1. ASSUME NEW s \in Samples, NEW late \in 0..Late, Store(s, late)
      PROVE  SettledInTime' /\ FoundInPass'
  <2>1. /\ UNCHANGED <<now, pass, events, lastPass, failedAt>>
        /\ \A r \in rows' \ rows : r.minute = now - late /\ r.minute \in 0..now
    BY <1>1, <1>i, StoreRow DEF Store
  <2>2. \A r \in rows' \ rows : now <= r.minute + Late
    BY <1>l, <1>n, <2>1
  <2>3. SettledInTime'
    <3>. SUFFICES ASSUME NEW r \in rows', Burst(r)', ~Settled(r)' PROVE lastPass' <= r.minute + Late
      BY DEF SettledInTime
    <3>1. CASE r \in rows
      BY <3>1, <2>1, <1>i DEF SettledInTime, Burst, Settled, Reports
    <3>2. CASE r \notin rows
      BY <3>2, <2>1, <2>2, <1>n, <1>l
    <3>. QED  BY <3>1, <3>2
  <2>4. FoundInPass'
    <3>. SUFFICES ASSUME pass # NoPass, NEW r \in rows', Burst(r)', ~Settled(r)',
                         r.tenant \notin pass.todo, r.minute + Late < pass.since
                  PROVE  \E e \in pass.found : Reports(e, r)
      BY <2>1 DEF FoundInPass, Reports
    <3>1. CASE r \in rows
      BY <3>1, <2>1, <1>i DEF FoundInPass, Burst, Settled, Reports
    <3>2. CASE r \notin rows
      BY <3>2, <2>1, <2>2, <1>n, <1>l
    <3>. QED  BY <3>1, <3>2
  <2>. QED  BY <2>3, <2>4
<1>2. CASE ReadFlows \/ WriteSnapshots \/ Tick \/ UNCHANGED detectionVars
  <2>1. UNCHANGED <<rows, pass, events, lastPass, failedAt>>
    BY <1>2 DEF ReadFlows, WriteSnapshots, Tick, detectionVars
  <2>2. SettledInTime' /\ FoundInPass'
    BY <2>1, <1>i DEF SettledInTime, FoundInPass, Burst, Settled, Reports
  <2>. QED  BY <2>2, <1>i2 DEF BurstInv
<1>3. CASE BeginPass
  <2>1. UNCHANGED <<rows, events, lastPass, failedAt>> /\ pass'.todo = Active
    BY <1>3 DEF BeginPass
  <2>2. SettledInTime'
    BY <2>1, <1>i DEF SettledInTime, Burst, Settled, Reports
  <2>3. FoundInPass'
    BY <2>1 DEF FoundInPass, Burst
  <2>. QED  BY <2>2, <2>3, <1>i2 DEF BurstInv
<1>4. ASSUME NEW t \in Active, Steps(t)
      PROVE  SettledInTime' /\ FoundInPass'
  <2>1. /\ UNCHANGED <<now, rows, events, lastPass, failedAt>>
        /\ pass # NoPass /\ pass'.since = pass.since /\ pass.found \subseteq pass'.found
    BY <1>4, <1>i, StepsFind DEF GoesOn
  <2>2. \/ pass'.todo = pass.todo
        \/ /\ pass'.todo = pass.todo \ {t} /\ InHand(t, "queues")
           /\ RdmaStress(t, pass.clock) \subseteq pass'.found
    <3>1. CASE SelectQueues(t)
      BY <3>1 DEF SelectQueues, GoesOn
    <3>2. CASE ~SelectQueues(t)
      <4>1. \E turn, stage, clock, read, new : GoesOn(pass.todo, turn, stage, clock, read, new)
        BY <1>4, <3>2 DEF Steps, SelectUtils, ReadClock, SelectFlows, SelectBaselines,
                           ReadClockAgain
      <4>. QED  BY <4>1 DEF GoesOn
    <3>. QED  BY <3>1, <3>2
  <2>4. SettledInTime'
    BY <2>1, <1>i DEF SettledInTime, Burst, Settled, Reports
  <2>5. FoundInPass'
    <3>. SUFFICES ASSUME NEW r \in rows, Burst(r), ~Settled(r),
                         r.tenant \notin pass'.todo, r.minute + Late < pass.since
                  PROVE  \E e \in pass'.found : Reports(e, r)
      BY <2>1 DEF FoundInPass, Burst, Settled, Reports
    <3>1. CASE r.tenant \notin pass.todo
      <4>1. \E e \in pass.found : Reports(e, r)
        BY <3>1, <1>i, <2>1 DEF FoundInPass
      <4>. QED  BY <4>1, <2>1
    <3>2. CASE r.tenant \in pass.todo
      <4>0. r.tenant = t /\ InHand(t, "queues") /\ RdmaStress(t, pass.clock) \subseteq pass'.found
        BY <3>2, <2>2
      <4>1. now < r.minute + Lookback /\ r.minute \in 0..now /\ r.table = "queue"
        BY <1>i, NotLeftYet
      <4>2. pass.clock \in 0..now /\ pass.since <= pass.clock /\ pass.since \in lastPass..now
        BY <4>0, <1>i, <2>1 DEF InHand, Clock
      <4>3. r.minute > pass.clock - Lookback /\ pass.clock \in r.minute..r.minute + Lookback - 1
        BY <4>1, <4>2, <1>n, <1>l
      <4>4. r \in Since(t, "queue", pass.clock - Lookback)
        BY <4>0, <4>1, <4>3 DEF Since, Of
      <4>5. PICK e \in RdmaStress(t, pass.clock) :
              e.tenant = t /\ e.at = r.at /\ e.type \in QueueTypes /\ e.ts = pass.clock
        BY <4>4, <1>i, RdmaFinds DEF Burst
      <4>6. Reports(e, r)
        BY <4>0, <4>3, <4>5 DEF Reports
      <4>. QED  BY <4>0, <4>5, <4>6
    <3>. QED  BY <3>1, <3>2
  <2>. QED  BY <2>4, <2>5
<1>5. CASE CommitPass
  <2>1. /\ UNCHANGED <<now, rows, failedAt>> /\ pass # NoPass /\ pass.todo = {}
        /\ events' = events \cup pass.found /\ lastPass' = pass.since /\ pass' = NoPass
    BY <1>5 DEF CommitPass
  <2>2. FoundInPass'
    BY <2>1 DEF FoundInPass
  <2>3. SettledInTime'
    <3>. SUFFICES ASSUME NEW r \in rows, Burst(r), ~Settled(r)'
                  PROVE  pass.since <= r.minute + Late
      BY <2>1 DEF SettledInTime, Burst
    <3>1. ~Settled(r)
      BY <2>1, SettledLater
    <3>2. ~\E e \in pass.found : Reports(e, r)
      BY <2>1 DEF Settled, Reports
    <3>3. ~(r.minute + Late < pass.since)
      BY <2>1, <3>1, <3>2, <1>i DEF FoundInPass
    <3>. QED  BY <3>3, <2>1, <1>n, <1>l
  <2>. QED  BY <2>2, <2>3, <1>i2 DEF BurstInv
<1>6. CASE PassRaises
  <2>1. /\ UNCHANGED <<now, rows, events>> /\ failedAt' = failedAt \cup {now}
        /\ lastPass' = pass.since /\ pass' = NoPass
    BY <1>6 DEF PassRaises
  <2>2. FoundInPass'
    BY <2>1 DEF FoundInPass
  <2>3. SettledInTime'
    <3>. SUFFICES ASSUME NEW r \in rows, Burst(r), ~Settled(r)'
                  PROVE  FALSE
      BY <2>1 DEF SettledInTime, Burst
    <3>1. ~Settled(r)
      BY <2>1, SettledLater
    <3>2. now < r.minute + Lookback /\ r.minute \in 0..now
      BY <3>1, <1>i, NotLeftYet
    <3>3. now \in r.minute..r.minute + Lookback
      BY <3>2, <1>n, <1>l
    <3>. QED  BY <3>3, <2>1 DEF Settled
  <2>. QED  BY <2>2, <2>3, <1>i2 DEF BurstInv
<1>. QED  BY <1>1, <1>2, <1>3, <1>4, <1>5, <1>6, <1>i2 DEF DetectionNext, Steps, BurstInv

THEOREM BurstInvariant == DetectionSpec => []BurstInv
BY BurstInitInv, BurstStepInv, PTL DEF DetectionSpec

(***************************************************************************)
(* A burst on a queue of an active tenant is reported before it leaves the *)
(* lookback, for every lookback longer than the lateness of a row and the  *)
(* lag of the loop together, unless a pass raised meanwhile.               *)
(***************************************************************************)
THEOREM BurstHolds == DetectionSpec => []BurstReported
<1>1. BurstInv => BurstReported
  <2>. SUFFICES ASSUME BurstInv, NEW r \in rows, Alarming(r), r.tenant \in Active,
                       r.minute + Lookback <= now
                PROVE  \/ \E e \in Found : /\ e.tenant = r.tenant /\ e.at = r.at
                                           /\ e.type \in {"lossless_drop", "pfc_storm", "ecn_spike"}
                                           /\ e.ts \in r.minute..r.minute + Lookback - 1
                       \/ \E f \in failedAt : f \in r.minute..r.minute + Lookback
    BY DEF BurstReported
  <2>1. DetectionInv /\ SettledInTime /\ Burst(r)
    BY DEF BurstInv, Burst
  <2>2. r.minute \in 0..now /\ now \in Nat
    BY <2>1, DetectionAssumption DEF DetectionInv, Clock, RowsOK, IsRow
  <2>3. Settled(r)
    <3>1. ~Settled(r) => now < r.minute + Lookback
      BY <2>1, NotLeftYet
    <3>. QED  BY <3>1, <2>2, DetectionAssumption
  <2>. QED  BY <2>3 DEF Settled, Reports, Found, QueueTypes
<1>. QED  BY <1>1, BurstInvariant, PTL

-----------------------------------------------------------------------------
(***************************************************************************)
(* What was measured stays measured: the evidence of an event and of a     *)
(* snapshot only grows, as rows and snapshots are never taken away.        *)
(***************************************************************************)
MineOf(x, table) == {r \in rows : r.table = table /\ r.tenant = x.tenant /\ r.at = x.at}
WindowOf(e, table) == {r \in MineOf(e, table) : r.minute \in e.ts - Lookback + 1..e.ts + MaxLag}
HourOf(b) == {r \in MineOf(b, "flow") : Hour(r.minute) = b.hour}
Minutes(S) == {r.minute : r \in S}

EventEvident(e) ==
  /\ e.type \in QueueTypes \cup {"threshold_breach", "spike"}
  /\ e.type = "threshold_breach" => \E r \in MineOf(e, "util") : r.util = e.value
  /\ e.type = "spike" => /\ e.value <= Bytes(WindowOf(e, "flow")) /\ e.value \in Nat
                         /\ \E b \in snapshots : /\ b.tenant = e.tenant /\ b.at = e.at
                                                 /\ b.hour = Hour(e.ts)
                                                 /\ Deviates(3, b, e.value)
  /\ e.type = "lossless_drop" => LosslessDrop(Sums(WindowOf(e, "queue")))
  /\ e.type = "pfc_storm" => /\ e.value <= Sums(WindowOf(e, "queue")).pfc /\ e.value \in Nat
  /\ e.type = "ecn_spike" => /\ e.value <= Sums(WindowOf(e, "queue")).ecn /\ e.value \in Nat
SnapshotEvident(b) ==
  /\ b.sum <= Bytes(HourOf(b)) /\ b.sum \in Nat
  /\ b.n <= Cardinality(Minutes(MineOf(b, "flow"))) /\ b.n \in Nat
EvidenceInv ==
  /\ DetectionInv
  /\ \A e \in Found : EventEvident(e)
  /\ \A b \in snapshots \cup computed : SnapshotEvident(b)

LEMMA MinutesFinite ==
  ASSUME NEW S, IsFiniteSet(S), NEW T \in SUBSET S
  PROVE  /\ Cardinality(Minutes(S)) \in Nat /\ Cardinality(Minutes(T)) \in Nat
         /\ Cardinality(Minutes(T)) <= Cardinality(Minutes(S))
<1>. DEFINE g == [r \in S |-> r.minute]
            X == Minutes(S)
            Y == Minutes(T)
<1>1. g \in Surjection(S, X) /\ Y \subseteq X
  BY DEF Surjection, Minutes
<1>. HIDE DEF g, X, Y
<1>2. IsFiniteSet(X)
  BY <1>1, FS_Surjection
<1>3. IsFiniteSet(Y) /\ Cardinality(Y) <= Cardinality(X)
  BY <1>1, <1>2, FS_Subset
<1>4. Cardinality(X) \in Nat /\ Cardinality(Y) \in Nat
  BY <1>2, <1>3, FS_CardinalityType
<1>. QED  BY <1>3, <1>4 DEF X, Y

\* The rows an evidence is about are finitely many and hold numbers.
LEMMA WindowRows ==
  ASSUME RowsOK, NEW x
  PROVE  /\ IsFiniteSet(MineOf(x, "flow"))
         /\ IsFiniteSet(WindowOf(x, "flow")) /\ \A r \in WindowOf(x, "flow") : r.bytes \in Nat
         /\ IsFiniteSet(HourOf(x)) /\ \A r \in HourOf(x) : r.bytes \in Nat
         /\ IsFiniteSet(WindowOf(x, "queue"))
         /\ \A r \in WindowOf(x, "queue") : r.pfc \in Nat /\ r.ecn \in Nat /\ r.drops \in Nat
<1>1. \A table : MineOf(x, table) \subseteq rows /\ WindowOf(x, table) \subseteq rows
  BY DEF MineOf, WindowOf
<1>2. HourOf(x) \subseteq rows
  BY DEF HourOf, MineOf
<1>3. /\ IsFiniteSet(MineOf(x, "flow")) /\ IsFiniteSet(WindowOf(x, "flow"))
      /\ IsFiniteSet(HourOf(x)) /\ IsFiniteSet(WindowOf(x, "queue"))
  BY <1>1, <1>2, FS_Subset DEF RowsOK
<1>4. /\ \A r \in WindowOf(x, "flow") : r.table = "flow" /\ r \in rows
      /\ \A r \in HourOf(x) : r.table = "flow" /\ r \in rows
      /\ \A r \in WindowOf(x, "queue") : r.table = "queue" /\ r \in rows
  BY DEF WindowOf, HourOf, MineOf
<1>. QED  BY <1>3, <1>4 DEF RowsOK, IsRow, Measured

LEMMA EventStaysEvident ==
  ASSUME RowsOK, RowsOK', rows \subseteq rows', snapshots \subseteq snapshots',
         NEW e, EventEvident(e)
  PROVE  EventEvident(e)'
<1>1. /\ WindowOf(e, "flow") \subseteq WindowOf(e, "flow")'
      /\ WindowOf(e, "queue") \subseteq WindowOf(e, "queue")'
      /\ MineOf(e, "util") \subseteq MineOf(e, "util")'
  BY DEF WindowOf, MineOf
<1>2. PICK F, G, Q, R : /\ F = WindowOf(e, "flow") /\ G = WindowOf(e, "flow")'
                        /\ Q = WindowOf(e, "queue") /\ R = WindowOf(e, "queue")'
  OBVIOUS
<1>3. /\ IsFiniteSet(G) /\ \A r \in G : r.bytes \in Nat
      /\ IsFiniteSet(R) /\ \A r \in R : r.pfc \in Nat /\ r.ecn \in Nat /\ r.drops \in Nat
  <2>1. /\ G \subseteq rows' /\ \A r \in G : r.table = "flow"
        /\ R \subseteq rows' /\ \A r \in R : r.table = "queue"
    BY <1>2 DEF WindowOf, MineOf
  <2>2. IsFiniteSet(G) /\ IsFiniteSet(R)
    BY <2>1, FS_Subset DEF RowsOK
  <2>. QED  BY <2>1, <2>2 DEF RowsOK, IsRow, Measured
<1>4. Bytes(F) <= Bytes(G) /\ Bytes(F) \in Nat /\ Bytes(G) \in Nat
  <2>1. IsFiniteSet(F) /\ \A r \in F : r.bytes \in Nat
    BY <1>2, WindowRows
  <2>. QED  BY <1>1, <1>2, <1>3, <2>1, BytesOf
<1>5. /\ Sums(Q).pfc <= Sums(R).pfc /\ Sums(Q).ecn <= Sums(R).ecn
      /\ Sums(Q).drops <= Sums(R).drops
      /\ Sums(Q).pfc \in Nat /\ Sums(Q).ecn \in Nat /\ Sums(Q).drops \in Nat
      /\ Sums(R).pfc \in Nat /\ Sums(R).ecn \in Nat /\ Sums(R).drops \in Nat
  <2>1. IsFiniteSet(Q) /\ \A r \in Q : r.pfc \in Nat /\ r.ecn \in Nat /\ r.drops \in Nat
    BY <1>2, WindowRows
  <2>. QED  BY <1>1, <1>2, <1>3, <2>1, QueueSumsOf
<1>6. LosslessDrop(Sums(Q)) => LosslessDrop(Sums(R))
  BY <1>5 DEF LosslessDrop
<1>. QED  BY <1>1, <1>2, <1>4, <1>5, <1>6 DEF EventEvident

LEMMA SnapshotStaysEvident ==
  ASSUME RowsOK, RowsOK', rows \subseteq rows', NEW b, SnapshotEvident(b)
  PROVE  SnapshotEvident(b)'
<1>1. HourOf(b) \subseteq HourOf(b)' /\ MineOf(b, "flow") \subseteq MineOf(b, "flow")'
  BY DEF HourOf, MineOf
<1>2. PICK F, G, Q, R : /\ F = HourOf(b) /\ G = HourOf(b)'
                        /\ Q = MineOf(b, "flow") /\ R = MineOf(b, "flow")'
  OBVIOUS
<1>3. IsFiniteSet(G) /\ (\A r \in G : r.bytes \in Nat) /\ IsFiniteSet(R)
  <2>1. /\ G \subseteq rows' /\ \A r \in G : r.table = "flow"
        /\ R \subseteq rows'
    BY <1>2 DEF HourOf, MineOf
  <2>2. IsFiniteSet(G) /\ IsFiniteSet(R)
    BY <2>1, FS_Subset DEF RowsOK
  <2>. QED  BY <2>1, <2>2 DEF RowsOK, IsRow, Measured
<1>4. Bytes(F) <= Bytes(G) /\ Bytes(F) \in Nat /\ Bytes(G) \in Nat
  <2>1. IsFiniteSet(F) /\ \A r \in F : r.bytes \in Nat
    BY <1>2, WindowRows
  <2>. QED  BY <1>1, <1>2, <1>3, <2>1, BytesOf
<1>5. /\ Cardinality(Minutes(Q)) <= Cardinality(Minutes(R))
      /\ Cardinality(Minutes(Q)) \in Nat /\ Cardinality(Minutes(R)) \in Nat
  BY <1>1, <1>2, <1>3, MinutesFinite
<1>. QED  BY <1>2, <1>4, <1>5 DEF SnapshotEvident, Minutes

\* Whatever a detector has read since its clock is of the window of its event.
LEMMA ReadInWindow ==
  ASSUME DetectionInv, pass # NoPass, pass.stage \in {"flows", "baselines", "queues"},
         NEW t, NEW e, NEW table, e.tenant = t, e.ts = pass.clock
  PROVE  At(Since(t, table, pass.clock - Lookback), e.at) = WindowOf(e, table)
<1>1. /\ now \in Nat /\ lastPass \in 0..now /\ now - lastPass <= MaxLag
      /\ pass.since \in lastPass..now /\ pass.clock \in 0..now /\ pass.since <= pass.clock
      /\ MaxLag \in Nat /\ Lookback \in Nat
  BY DetectionAssumption DEF DetectionInv, Clock
<1>2. now <= pass.clock + MaxLag
  BY <1>1
<1>3. ASSUME NEW r \in rows
      PROVE  r.minute > pass.clock - Lookback
               <=> r.minute \in pass.clock - Lookback + 1..pass.clock + MaxLag
  <2>1. r.minute \in 0..now
    BY DEF DetectionInv, RowsOK, IsRow
  <2>. QED  BY <1>1, <1>2, <2>1
<1>. QED  BY <1>3 DEF At, Since, Of, WindowOf, MineOf

\* What a detector finds in the tenant in hand is evident at once.
LEMMA BreachIsEvident ==
  ASSUME DetectionInv, NEW t, InHand(t, "clock"), NEW e \in ThresholdBreaches(t, pass.read, now)
  PROVE  EventEvident(e)
<1>1. pass.read \in SUBSET Of(t, "util") /\ \A r \in pass.read : r.util >= Warn
  BY DEF DetectionInv, ReadOK, ReadFor, InHand
<1>2. /\ e.type = "threshold_breach" /\ e.tenant = t
      /\ \E r \in Of(t, "util") : r.at = e.at /\ r.util = e.value
  BY <1>1, ThresholdFound DEF DetectionInv
<1>3. \E r \in MineOf(e, "util") : r.util = e.value
  BY <1>2 DEF MineOf, Of
<1>. QED  BY <1>2, <1>3 DEF EventEvident

LEMMA SpikeIsEvident ==
  ASSUME DetectionInv, NEW t, InHand(t, "baselines"),
         NEW spikes \in SpikeOutcomes(t, pass.read, pass.clock), NEW e \in spikes
  PROVE  EventEvident(e)
<1>1. /\ e.tenant = t /\ e.type = "spike" /\ e.ts = pass.clock
      /\ e.value = Bytes(At(pass.read, e.at))
      /\ \E b \in snapshots : /\ b.tenant = t /\ b.at = e.at /\ b.hour = Hour(e.ts)
                              /\ Deviates(3, b, e.value)
  BY SpikeFound
<1>2. pass.read \subseteq Since(t, "flow", pass.clock - Lookback)
  BY DEF DetectionInv, ReadOK, ReadFor, InHand
<1>3. PICK F, G : F = WindowOf(e, "flow") /\ G = At(pass.read, e.at) /\ G \in SUBSET F
  <2>1. At(pass.read, e.at) \subseteq At(Since(t, "flow", pass.clock - Lookback), e.at)
    BY <1>2 DEF At
  <2>. QED  BY <2>1, <1>1, ReadInWindow DEF InHand
<1>4. IsFiniteSet(F) /\ \A r \in F : r.bytes \in Nat
  BY <1>3, WindowRows DEF DetectionInv
<1>5. Bytes(G) <= Bytes(F) /\ Bytes(G) \in Nat
  <2>1. IsFiniteSet(G) /\ \A r \in G : r.bytes \in Nat
    BY <1>3, <1>4, FS_Subset
  <2>. QED  BY <1>3, <1>4, <2>1, BytesOf
<1>. QED  BY <1>1, <1>3, <1>5 DEF EventEvident

LEMMA RdmaIsEvident ==
  ASSUME DetectionInv, NEW t, InHand(t, "queues"), NEW e \in RdmaStress(t, pass.clock)
  PROVE  EventEvident(e)
<1>1. PICK q : q = Sums(WindowOf(e, "queue"))
  OBVIOUS
<1>2. e.tenant = t /\ e.ts = pass.clock /\ e.type \in QueueTypes
  BY RdmaFound
<1>3. q = Sums(Recent(t, "queue", e.at, pass.clock))
  BY <1>1, <1>2, ReadInWindow DEF InHand, Recent
<1>4. /\ e.type = "lossless_drop" => LosslessDrop(q)
      /\ e.type = "pfc_storm" => e.value = q.pfc
      /\ e.type = "ecn_spike" => e.value = q.ecn
  BY <1>3, RdmaFound
<1>5. q.pfc \in Nat /\ q.ecn \in Nat
  <2>1. PICK S : S = WindowOf(e, "queue")
    OBVIOUS
  <2>. QED  BY <1>1, <2>1, WindowRows, QueueSumsOf DEF DetectionInv
<1>. QED  BY <1>1, <1>2, <1>4, <1>5 DEF EventEvident, QueueTypes

LEMMA BaselineIsEvident ==
  ASSUME RowsOK, NEW b \in Baselines
  PROVE  SnapshotEvident(b)
<1>1. PICK r \in rows : b = Baseline(r.tenant, r.at, Hour(r.minute))
  BY DEF Baselines
<1>2. PICK t, at, h : b = Baseline(t, at, h)
  BY <1>1
<1>3. /\ b.tenant = t /\ b.at = at /\ b.hour = h /\ IsSnapshot(b)
      /\ b.sum = Bytes(HourFlows(t, at, h))
      /\ b.n = Cardinality({x.minute : x \in HourFlows(t, at, h)})
  BY <1>2, BaselineIs
<1>4. HourFlows(t, at, h) = HourOf(b)
  BY <1>3 DEF HourFlows, HourOf, MineOf, Of
<1>5. PICK S, T : S = MineOf(b, "flow") /\ T = HourOf(b) /\ T \subseteq S
  BY DEF HourOf
<1>6. b.n = Cardinality(Minutes(T))
  BY <1>3, <1>4, <1>5 DEF Minutes
<1>7. Cardinality(Minutes(T)) <= Cardinality(Minutes(S))
  BY <1>5, WindowRows, MinutesFinite
<1>8. b.sum = Bytes(HourOf(b))
  BY <1>3, <1>4
<1>. QED  BY <1>3, <1>5, <1>6, <1>7, <1>8 DEF SnapshotEvident, IsSnapshot

LEMMA EvidenceStepInv ==
  ASSUME EvidenceInv, [DetectionNext]_detectionVars
  PROVE  EvidenceInv'
<1>i. /\ DetectionInv /\ RowsOK /\ Clock
      /\ \A e \in Found : EventEvident(e)
      /\ \A b \in snapshots \cup computed : SnapshotEvident(b)
  BY DEF EvidenceInv, DetectionInv
<1>i2. DetectionInv' /\ RowsOK'
  BY <1>i, DetectionStepInv DEF DetectionInv
<1>1. rows \subseteq rows' /\ snapshots \subseteq snapshots'
      /\ (snapshots \cup computed)' \subseteq snapshots \cup computed \cup Baselines
  BY DEF DetectionNext, detectionVars, Store, ReadFlows, WriteSnapshots, BeginPass, CommitPass,
         PassRaises, SelectUtils, ReadClock, SelectFlows, SelectBaselines, ReadClockAgain,
         SelectQueues, GoesOn, Tick
<1>2. ASSUME NEW e \in Found'
      PROVE  EventEvident(e)
  <2>1. CASE \E s \in Samples, late \in 0..Late : Store(s, late)
    BY <2>1, <1>i DEF Store, Found
  <2>2. CASE ReadFlows \/ WriteSnapshots \/ Tick \/ UNCHANGED detectionVars
    BY <2>2, <1>i DEF ReadFlows, WriteSnapshots, Tick, detectionVars, Found
  <2>3. CASE BeginPass
    <3>1. events' = events /\ pass'.found = {}
      BY <2>3 DEF BeginPass
    <3>. QED  BY <3>1, <1>i DEF Found
  <2>4. CASE CommitPass \/ PassRaises
    BY <2>4, <1>i DEF CommitPass, PassRaises, Found
  <2>5. CASE \E t \in Active : Steps(t)
    <3>0. PICK t \in Active : Steps(t)
      BY <2>5
    <3>1. PICK todo, turn, stage, clock, read, new :
            /\ GoesOn(todo, turn, stage, clock, read, new)
            /\ \/ new = {}
               \/ InHand(t, "clock") /\ new = ThresholdBreaches(t, pass.read, now)
               \/ InHand(t, "baselines") /\ new \in SpikeOutcomes(t, pass.read, pass.clock)
               \/ InHand(t, "queues") /\ new = RdmaStress(t, pass.clock)
      BY <3>0, <1>i, StepsFind
    <3>2. pass # NoPass
      BY <3>0, <1>i, StepsFind
    <3>3. e \in Found \/ e \in new
      BY <3>1, <3>2 DEF GoesOn, Found
    <3>4. \A x \in new : EventEvident(x)
      BY <3>1, <1>i, BreachIsEvident, SpikeIsEvident, RdmaIsEvident
    <3>. QED  BY <3>3, <3>4, <1>i
  <2>. QED  BY <2>1, <2>2, <2>3, <2>4, <2>5 DEF DetectionNext, Steps
<1>3. ASSUME NEW b \in (snapshots \cup computed)'
      PROVE  SnapshotEvident(b)
  BY <1>1, <1>i, BaselineIsEvident
<1>4. /\ \A e \in Found' : EventEvident(e)'
      /\ \A b \in (snapshots \cup computed)' : SnapshotEvident(b)'
  BY <1>1, <1>2, <1>3, <1>i, <1>i2, EventStaysEvident, SnapshotStaysEvident
<1>. QED  BY <1>4, <1>i2 DEF EvidenceInv

THEOREM EvidenceInvariant == DetectionSpec => []EvidenceInv
<1>1. DetectionInit => EvidenceInv
  BY DetectionInitInv DEF DetectionInit, EvidenceInv, Found
<1>. QED  BY <1>1, EvidenceStepInv, PTL DEF DetectionSpec

(***************************************************************************)
(* What an event or a snapshot says was measured by its own tenant at its  *)
(* own place; what a spike or a queue event counts, at most the lookback   *)
(* before its clock and at most the lag of the loop after it.              *)
(***************************************************************************)
THEOREM OwnEvidenceHolds == DetectionSpec => []OwnEvidence
<1>1. EvidenceInv => OwnEvidence
  <2>. SUFFICES ASSUME EvidenceInv PROVE OwnEvidence
    OBVIOUS
  <2>1. ASSUME NEW e \in Found
        PROVE  EventEvident(e)
    BY DEF EvidenceInv
  <2>2. ASSUME NEW b \in snapshots \cup computed
        PROVE  SnapshotEvident(b)
    BY DEF EvidenceInv
  <2>. QED  BY <2>1, <2>2 DEF OwnEvidence, EventEvident, SnapshotEvident, MineOf, WindowOf, HourOf, Minutes, QueueTypes
<1>. QED  BY <1>1, EvidenceInvariant, PTL

-----------------------------------------------------------------------------
(***************************************************************************)
(* In a window at least as long as the lookback, what the detector saw of  *)
(* a queue is part of what the health tool sees of it.                     *)
(***************************************************************************)
Seen(t, w, at) == At(Since(t, "queue", now - w), at)

LEMMA SeenSums ==
  ASSUME RowsOK, Clock, NEW w \in Windows, NEW t, NEW at
  PROVE  LET q == Sums(Recent(t, "queue", at, now))
             p == Sums(Seen(t, w, at)) IN
         /\ q.pfc \in Nat /\ q.ecn \in Nat /\ q.drops \in Nat
         /\ p.pfc \in Nat /\ p.ecn \in Nat /\ p.drops \in Nat
         /\ w >= Lookback => q.pfc <= p.pfc /\ q.drops <= p.drops
         /\ p.pfc > 0 => \E r \in Seen(t, w, at) : r.pfc > 0
         /\ p.drops > 0 => \E r \in Seen(t, w, at) : r.drops > 0
<1>1. PICK S, T : S = Seen(t, w, at) /\ T = Recent(t, "queue", at, now)
  OBVIOUS
<1>2. w \in Nat /\ Lookback \in Nat /\ now \in Nat
  BY DetectionAssumption, AssessmentsAssumption DEF Clock
<1>3. IsFiniteSet(S) /\ S \subseteq Since(t, "queue", now - w)
      /\ Since(t, "queue", now - w) \subseteq rows
  BY <1>1, <1>2, Selected DEF Seen
<1>4. \A r \in S : r.pfc \in Nat /\ r.ecn \in Nat /\ r.drops \in Nat
  <2>1. \A r \in S : r \in rows /\ r.table = "queue"
    BY <1>3 DEF Since, Of
  <2>. QED  BY <2>1 DEF RowsOK, IsRow, Measured
<1>5. w >= Lookback => T \subseteq S
  <2>1. w >= Lookback =>
          \A r \in rows : r.minute > now - Lookback => r.minute > now - w
    BY <1>2 DEF RowsOK, IsRow
  <2>. QED  BY <1>1, <2>1 DEF Seen, Recent, At, Since, Of
<1>6. IsFiniteSet(T) /\ \A r \in T : r.pfc \in Nat /\ r.ecn \in Nat /\ r.drops \in Nat
  <2>1. IsFiniteSet(T) /\ T \subseteq Since(t, "queue", now - Lookback)
        /\ Since(t, "queue", now - Lookback) \subseteq rows
    BY <1>1, <1>2, Selected DEF Recent
  <2>2. \A r \in T : r \in rows /\ r.table = "queue"
    BY <2>1 DEF Since, Of
  <2>. QED  BY <2>1, <2>2 DEF RowsOK, IsRow, Measured
<1>7. /\ Sums(S).pfc \in Nat /\ Sums(S).ecn \in Nat /\ Sums(S).drops \in Nat
      /\ Sums(S).pfc > 0 => \E r \in S : r.pfc > 0
      /\ Sums(S).drops > 0 => \E r \in S : r.drops > 0
  BY <1>3, <1>4, QueueSumsOf
<1>8. Sums(T).pfc \in Nat /\ Sums(T).ecn \in Nat /\ Sums(T).drops \in Nat
  BY <1>6, QueueSumsOf
<1>9. w >= Lookback => Sums(T).pfc <= Sums(S).pfc /\ Sums(T).drops <= Sums(S).drops
  BY <1>3, <1>4, <1>5, QueueSumsOf
<1>. QED  BY <1>1, <1>7, <1>8, <1>9

\* A queue with drops or pauses is one the tool assesses.
LEMMA SeenIsAssessed ==
  ASSUME RowsOK, Clock, NEW w \in Windows, w >= Lookback, NEW t, NEW e \in RdmaStress(t, now),
         Sums(Seen(t, w, e.at)).pfc > 0
  PROVE  Sums(Seen(t, w, e.at)) \in QueueSums(t, w)
<1>1. PICK p : p = Sums(Seen(t, w, e.at))
  OBVIOUS
<1>2. p.pfc \in Nat /\ p.ecn \in Nat /\ p.drops \in Nat
  BY <1>1, SeenSums
<1>3. p.pfc + p.ecn + p.drops > 0
  BY <1>1, <1>2
<1>4. e.at \in Places(Since(t, "queue", now - w))
  <2>1. PICK r \in Since(t, "queue", now - Lookback) : r.at = e.at
    BY RdmaFound DEF Places
  <2>2. r \in Since(t, "queue", now - w)
    <3>1. r \in rows /\ r.minute \in 0..now /\ now \in Nat
      BY <2>1 DEF Since, Of, RowsOK, IsRow, Clock
    <3>. QED  BY <2>1, <3>1, DetectionAssumption, AssessmentsAssumption DEF Since
  <2>. QED  BY <2>1, <2>2 DEF Places
<1>. QED  BY <1>1, <1>3, <1>4 DEF QueueSums, Seen

LEMMA AssessWorst ==
  ASSUME NEW queues, \A q \in queues : q.pfc \in Nat
  PROVE  /\ Assess(queues) = "critical" <=> \E q \in queues : LosslessDrop(q)
         /\ (\E q \in queues : q.pfc > Storm) => Assess(queues) \in {"high", "critical"}
<1>1. CASE \E q \in queues : LosslessDrop(q)
  BY <1>1 DEF Assess
<1>2. CASE \A q \in queues : ~LosslessDrop(q)
  <2>1. CASE \E q \in queues : q.pfc > Storm
    <3>1. ~\A q \in queues : ~LosslessDrop(q) /\ q.pfc <= Storm
      BY <2>1, DetectionAssumption
    <3>2. Assess(queues) = "high"
      BY <1>2, <2>1, <3>1 DEF Assess
    <3>. QED  BY <1>2, <3>2
  <2>2. CASE ~\E q \in queues : q.pfc > Storm
    <3>1. Assess(queues) \in {"medium", "low"}
      BY <1>2, <2>2 DEF Assess
    <3>. QED  BY <1>2, <2>2, <3>1
  <2>. QED  BY <2>1, <2>2
<1>. QED  BY <1>1, <1>2

(***************************************************************************)
(* The detector and the health tool never disagree on what RDMA must not   *)
(* hit, for every storm limit and every window at least as long as the     *)
(* lookback; and the tool calls nothing critical without a queue for it.   *)
(***************************************************************************)
THEOREM RdmaAgreesHolds == DetectionSpec => []RdmaAgrees
<1>1. DetectionInv => RdmaAgrees
  <2>. SUFFICES ASSUME DetectionInv, NEW t \in Active, NEW w \in Windows
                PROVE  /\ w >= Lookback =>
                            /\ (\E e \in RdmaStress(t, now) : e.type = "lossless_drop")
                                 => RdmaHealth(t, w) = "critical"
                            /\ (\E e \in RdmaStress(t, now) : e.type = "pfc_storm" /\ e.value > Storm)
                                 => RdmaHealth(t, w) \in {"high", "critical"}
                       /\ RdmaHealth(t, w) = "critical" =>
                            \E r, q \in Since(t, "queue", now - w) :
                              r.at = q.at /\ r.drops > 0 /\ q.pfc > 0
    BY DEF RdmaAgrees
  <2>i. RowsOK /\ Clock
    BY DEF DetectionInv
  <2>1. \A q \in QueueSums(t, w) :
          /\ q.pfc \in Nat
          /\ \E at : q = Sums(Seen(t, w, at))
    BY <2>i, SeenSums DEF QueueSums, Seen
  <2>2. /\ RdmaHealth(t, w) = "critical" <=> \E q \in QueueSums(t, w) : LosslessDrop(q)
        /\ (\E q \in QueueSums(t, w) : q.pfc > Storm) => RdmaHealth(t, w) \in {"high", "critical"}
    BY <2>1, AssessWorst DEF RdmaHealth
  <2>3. ASSUME w >= Lookback, NEW e \in RdmaStress(t, now), e.type = "lossless_drop"
        PROVE  RdmaHealth(t, w) = "critical"
    <3>1. PICK q, p : q = Sums(Recent(t, "queue", e.at, now)) /\ p = Sums(Seen(t, w, e.at))
      OBVIOUS
    <3>2. q.drops > 0 /\ q.pfc > 0
      BY <2>3, <3>1, RdmaFound DEF LosslessDrop
    <3>3. /\ q.pfc \in Nat /\ q.drops \in Nat /\ p.pfc \in Nat /\ p.drops \in Nat
          /\ q.pfc <= p.pfc /\ q.drops <= p.drops
      BY <2>i, <2>3, <3>1, SeenSums
    <3>4. p.pfc > 0 /\ LosslessDrop(p)
      BY <3>2, <3>3 DEF LosslessDrop
    <3>5. p \in QueueSums(t, w)
      BY <2>i, <2>3, <3>1, <3>4, SeenIsAssessed
    <3>. QED  BY <2>2, <3>4, <3>5
  <2>4. ASSUME w >= Lookback, NEW e \in RdmaStress(t, now), e.type = "pfc_storm", e.value > Storm
        PROVE  RdmaHealth(t, w) \in {"high", "critical"}
    <3>1. PICK q, p : q = Sums(Recent(t, "queue", e.at, now)) /\ p = Sums(Seen(t, w, e.at))
      OBVIOUS
    <3>2. q.pfc > Storm
      BY <2>4, <3>1, RdmaFound
    <3>3. q.pfc \in Nat /\ p.pfc \in Nat /\ q.pfc <= p.pfc
      BY <2>i, <2>4, <3>1, SeenSums
    <3>4. p.pfc > 0 /\ p.pfc > Storm
      BY <3>2, <3>3, DetectionAssumption
    <3>5. p \in QueueSums(t, w)
      BY <2>i, <2>4, <3>1, <3>4, SeenIsAssessed
    <3>. QED  BY <2>2, <3>4, <3>5
  <2>5. ASSUME RdmaHealth(t, w) = "critical"
        PROVE  \E r, q \in Since(t, "queue", now - w) :
                 r.at = q.at /\ r.drops > 0 /\ q.pfc > 0
    <3>1. PICK p \in QueueSums(t, w) : LosslessDrop(p)
      BY <2>2, <2>5
    <3>2. PICK at : p = Sums(Seen(t, w, at))
      BY <2>1
    <3>3. /\ \E r \in Seen(t, w, at) : r.pfc > 0
          /\ \E r \in Seen(t, w, at) : r.drops > 0
      BY <2>i, <3>1, <3>2, SeenSums DEF LosslessDrop
    <3>. QED  BY <3>3 DEF Seen, At
  <2>. QED  BY <2>3, <2>4, <2>5
<1>. QED  BY <1>1, DetectionInvariant, PTL

-----------------------------------------------------------------------------
(***************************************************************************)
(* Imbalance.                                                              *)
(***************************************************************************)
LEMMA FiniteMax ==
  ASSUME NEW S, IsFiniteSet(S), S # {}, S \subseteq Int
  PROVE  Max(S) \in S /\ \A y \in S : y <= Max(S)
<1>. DEFINE G == {T \in SUBSET S : T # {} => \E x \in T : \A y \in T : x >= y}
<1>1. ASSUME NEW T \in SUBSET S, \A U \in SUBSET T : U # T => U \in G
      PROVE  T \in G
  <2>. SUFFICES ASSUME T # {} PROVE \E x \in T : \A y \in T : x >= y
    OBVIOUS
  <2>1. PICK z \in T : TRUE
    OBVIOUS
  <2>2. T \ {z} \in G
    BY <1>1, <2>1
  <2>3. CASE T \ {z} = {}
    <3>1. \A y \in T : y = z
      BY <2>3
    <3>. QED  BY <2>1, <3>1
  <2>4. CASE T \ {z} # {}
    <3>1. PICK x \in T \ {z} : \A y \in T \ {z} : x >= y
      BY <2>2, <2>4
    <3>2. x \in Int /\ z \in Int /\ x \in T /\ \A y \in T : y \in Int
      BY <2>1, <3>1
    <3>3. CASE x >= z
      BY <3>1, <3>2, <3>3
    <3>4. CASE z > x
      <4>1. \A y \in T : z >= y
        BY <3>1, <3>2, <3>4
      <4>. QED  BY <2>1, <4>1
    <3>. QED  BY <3>2, <3>3, <3>4
  <2>. QED  BY <2>3, <2>4
<1>2. \A T \in SUBSET S : T \in G
  <2>. HIDE DEF G
  <2>. QED  BY <1>1, SubsetInduction
<1>3. PICK x \in S : \A y \in S : x >= y
  BY <1>2
<1>4. Max(S) \in S /\ \A y \in S : Max(S) >= y
  BY <1>3 DEF Max
<1>. QED  BY <1>4

\* A rounded average of natural numbers is one.
LEMMA RoundedAverage ==
  ASSUME NEW s \in Nat, NEW n \in Nat, n > 0
  PROVE  (2 * s + n) \div (2 * n) \in Nat
OBVIOUS

LEMMA AveragesAreNats ==
  ASSUME RowsOK, Clock, NEW w \in Windows, NEW t
  PROVE  /\ IsFiniteSet(DOMAIN AverageUtil(t, w))
         /\ \A at \in DOMAIN AverageUtil(t, w) : AverageUtil(t, w)[at] \in Nat
<1>. DEFINE R == Since(t, "util", now - w)
            P == Places(R)
<1>1. DOMAIN AverageUtil(t, w) = P
  BY DEF AverageUtil
<1>2. IsFiniteSet(R) /\ R \subseteq rows /\ \A r \in R : r.table = "util"
  <2>1. IsFiniteSet(R) /\ R \subseteq Of(t, "util") /\ Of(t, "util") \subseteq rows
    BY Selected
  <2>. QED  BY <2>1 DEF Of
<1>3. IsFiniteSet(P)
  <2>1. [r \in R |-> r.at] \in Surjection(R, P)
    BY DEF Surjection, Places
  <2>2. PICK A, B, f : A = R /\ B = P /\ f \in Surjection(A, B)
    BY <2>1
  <2>3. IsFiniteSet(A)
    BY <1>2, <2>2
  <2>4. IsFiniteSet(B)
    BY <2>2, <2>3, FS_Surjection
  <2>. QED  BY <2>2, <2>4
<1>4. ASSUME NEW at \in P
      PROVE  AverageUtil(t, w)[at] \in Nat
  <2>1. PICK S : S = At(R, at)
    OBVIOUS
  <2>2. IsFiniteSet(S) /\ S # {} /\ \A r \in S : r.util \in Nat
    <3>1. S \subseteq R /\ S # {}
      BY <2>1 DEF At, Places
    <3>2. \A r \in S : r \in rows /\ r.table = "util"
      BY <1>2, <3>1
    <3>3. IsFiniteSet(S)
      BY <1>2, <3>1, FS_Subset
    <3>. QED  BY <3>1, <3>2, <3>3 DEF RowsOK, IsRow, Measured
  <2>3. PICK f : f = [r \in S |-> r.util]
    OBVIOUS
  <2>4. DOMAIN f = S /\ \A r \in S : f[r] \in Nat
    BY <2>2, <2>3
  <2>5. SumFunction(f) \in Nat
    BY <2>2, <2>4, SumOfNats
  <2>6. Cardinality(S) \in Nat /\ Cardinality(S) > 0
    BY <2>2, FS_CardinalityType, FS_EmptySet
  <2>7. AverageUtil(t, w)[at] = (2 * SumFunction(f) + Cardinality(S)) \div (2 * Cardinality(S))
    BY <2>1, <2>3 DEF AverageUtil
  <2>8. PICK s \in Nat, n \in Nat : s = SumFunction(f) /\ n = Cardinality(S) /\ n > 0
    BY <2>5, <2>6
  <2>. QED  BY <2>7, <2>8, RoundedAverage
<1>. QED  BY <1>1, <1>3, <1>4

LEMMA MetricsAre ==
  ASSUME NEW u, IsFiniteSet(DOMAIN u), DOMAIN u # {}, \A i \in DOMAIN u : u[i] \in Nat
  PROVE  LET m == Metrics(u) IN
         /\ m.n = Cardinality(DOMAIN u) /\ m.n \in Nat
         /\ m.sum = SumFunction(u) /\ m.sum \in Nat
         /\ m.top \in {u[i] : i \in DOMAIN u} /\ \A i \in DOMAIN u : u[i] <= m.top
         /\ m.imbalanced <=>
              /\ m.n >= 2 /\ m.sum >= MinMean * m.n
              /\ \/ 100 * (m.n * SumFunction([i \in DOMAIN u |-> u[i] * u[i]]) - m.sum * m.sum)
                      > 9 * m.sum * m.sum
                 \/ 2 * m.n * m.top > 3 * m.sum
<1>. DEFINE D == DOMAIN u
            V == {u[i] : i \in D}
            sq == [i \in D |-> u[i] * u[i]]
<1>1. Cardinality(D) \in Nat
  BY FS_CardinalityType
<1>2. SumFunction(u) \in Nat
  BY SumOfNats
<1>3. Max(V) \in V /\ \A y \in V : y <= Max(V)
  <2>1. [i \in D |-> u[i]] \in Surjection(D, V) /\ V # {} /\ V \subseteq Int
    BY DEF Surjection
  <2>2. PICK A, B, f : A = D /\ B = V /\ f \in Surjection(A, B)
    BY <2>1
  <2>3. IsFiniteSet(B)
    BY <2>2, FS_Surjection
  <2>. QED  BY <2>1, <2>2, <2>3, FiniteMax
<1>4. /\ Metrics(u).n = Cardinality(D) /\ Metrics(u).sum = SumFunction(u)
      /\ Metrics(u).top = Max(V)
      /\ Metrics(u).imbalanced =
           /\ Cardinality(D) >= 2 /\ SumFunction(u) >= MinMean * Cardinality(D)
           /\ \/ 100 * (Cardinality(D) * SumFunction(sq) - SumFunction(u) * SumFunction(u))
                   > 9 * SumFunction(u) * SumFunction(u)
              \/ 2 * Cardinality(D) * Max(V) > 3 * SumFunction(u)
  BY DEF Metrics
<1>5. \A i \in D : u[i] <= Max(V)
  BY <1>3
<1>. HIDE DEF V, sq
<1>6. /\ Metrics(u).top \in V /\ \A i \in D : u[i] <= Metrics(u).top
  BY <1>3, <1>4, <1>5
<1>. QED  BY <1>1, <1>2, <1>4, <1>6 DEF V, sq

LEMMA RatioIsInt ==
  ASSUME NEW n \in Nat, NEW top \in Nat, NEW sum \in Nat, sum > 0
  PROVE  (200 * n * top + sum) \div (2 * sum) \in Int
<1>1. PICK a \in Nat, b \in Nat : a = 200 * n * top + sum /\ b = 2 * sum /\ b > 0
  OBVIOUS
<1>2. a \div b \in Int
  BY <1>1
<1>. QED  BY <1>1, <1>2

LEMMA QuotientAtLeast ==
  ASSUME NEW a \in Nat, NEW b \in Nat, b > 0, NEW c \in Nat, a >= c * b
  PROVE  a \div b >= c
OBVIOUS

\* A group with one loaded member: the mean is u / n and the maximum is u.
LEMMA LoneNumbers ==
  ASSUME NEW n \in Nat, n >= 2, NEW v \in Nat, v > 0
  PROVE  /\ 100 * (n * (v * v) - v * v) > 9 * v * v
         /\ (200 * n * v + v) \div (2 * v) >= 200
<1>1. PICK w \in Nat : w = v * v /\ w > 0
  OBVIOUS
<1>2. n * w >= 2 * w /\ n * w \in Nat
  BY <1>1
<1>3. 100 * (n * w - w) > 9 * w
  BY <1>1, <1>2
<1>4. 9 * v * v = 9 * w
  BY <1>1
<1>5. PICK x \in Nat : x = n * v /\ x >= 2 * v
  OBVIOUS
<1>6. 200 * n * v = 200 * x
  BY <1>5
<1>7. PICK a \in Nat, b \in Nat : a = 200 * n * v + v /\ b = 2 * v /\ b > 0
  BY <1>5, <1>6
<1>8. a >= 200 * b
  BY <1>5, <1>6, <1>7
<1>9. a \div b >= 200
  BY <1>7, <1>8, QuotientAtLeast
<1>. QED  BY <1>1, <1>3, <1>4, <1>7, <1>9

LEMMA LoneMetrics ==
  ASSUME NEW u, IsFiniteSet(DOMAIN u), \A i \in DOMAIN u : u[i] \in Nat,
         Cardinality(DOMAIN u) >= 2, NEW i \in DOMAIN u,
         u[i] >= MinMean * Cardinality(DOMAIN u), \A j \in DOMAIN u \ {i} : u[j] = 0
  PROVE  Metrics(u).imbalanced /\ Ratio(Metrics(u)) >= 200
<1>. DEFINE D == DOMAIN u
            sq == [j \in D |-> u[j] * u[j]]
<1>1. PICK v \in Nat : v = u[i]
  OBVIOUS
<1>2. PICK n \in Nat : n = Cardinality(D) /\ n >= 2
  BY FS_CardinalityType
<1>3. MinMean * n \in Nat /\ MinMean * n <= v /\ v > 0
  <2>1. MinMean \in Nat \ {0}
    BY AssessmentsAssumption
  <2>2. MinMean * n >= 2
    BY <1>2, <2>1
  <2>. QED  BY <1>1, <1>2, <2>1, <2>2
<1>4. IsFiniteSet(D \ {i}) /\ \A j \in D \ {i} : u[j] = 0 /\ sq[j] = 0
  BY FS_Subset
<1>5. SumFunction(u) = v
  <2>1. SumFunctionOnSet(u, D) = u[i] + SumFunctionOnSet(u, D \ {i})
    BY SumTake
  <2>2. SumFunctionOnSet(u, D \ {i}) = 0
    BY <1>4, SumZero
  <2>. QED  BY <1>1, <2>1, <2>2 DEF SumFunction
<1>6. SumFunction(sq) = v * v
  <2>1. DOMAIN sq = D /\ sq[i] = v * v /\ \A j \in D : sq[j] \in Int
    BY <1>1
  <2>. HIDE DEF sq
  <2>2. SumFunctionOnSet(sq, D) = sq[i] + SumFunctionOnSet(sq, D \ {i})
    BY <2>1, SumTake
  <2>3. SumFunctionOnSet(sq, D \ {i}) = 0
    BY <1>4, SumZero
  <2>4. sq[i] \in Int
    BY <2>1
  <2>. QED  BY <2>1, <2>2, <2>3, <2>4 DEF SumFunction
<1>7. PICK m : m = Metrics(u)
  OBVIOUS
<1>8. /\ m.n = n /\ m.sum = v
      /\ m.top \in {u[j] : j \in D} /\ \A j \in D : u[j] <= m.top
      /\ m.imbalanced <=>
           /\ n >= 2 /\ v >= MinMean * n
           /\ \/ 100 * (n * (v * v) - v * v) > 9 * v * v
              \/ 2 * n * m.top > 3 * v
  <2>. HIDE DEF sq
  <2>. QED  BY <1>2, <1>5, <1>6, <1>7, MetricsAre DEF sq
<1>9. m.top = v
  <2>1. PICK j \in D : m.top = u[j]
    BY <1>8
  <2>. QED  BY <1>1, <1>3, <1>8, <2>1
<1>10. m.imbalanced
  BY <1>2, <1>3, <1>8, LoneNumbers
<1>11. Ratio(m) >= 200
  BY <1>2, <1>3, <1>8, <1>9, LoneNumbers DEF Ratio
<1>. QED  BY <1>7, <1>10, <1>11

(***************************************************************************)
(* A link that carries all the load of its group is judged an imbalance of *)
(* more than low severity in groups of every size, once the mean of the    *)
(* group reaches MinMean.                                                  *)
(***************************************************************************)
THEOREM LoneLoadHolds == DetectionSpec => []LoneLoadIsImbalance
<1>1. DetectionInv => LoneLoadIsImbalance
  <2>. SUFFICES ASSUME DetectionInv, NEW t \in Active, NEW w \in Windows, NEW g \in Groups(t),
                       Cardinality(g \cap DOMAIN AverageUtil(t, w)) >= 2,
                       NEW i \in g \cap DOMAIN AverageUtil(t, w),
                       AverageUtil(t, w)[i] >= MinMean * Cardinality(g \cap DOMAIN AverageUtil(t, w)),
                       \A j \in (g \cap DOMAIN AverageUtil(t, w)) \ {i} : AverageUtil(t, w)[j] = 0
                PROVE  FabricSeverity(t, w) \in {"medium", "high"}
    BY DEF LoneLoadIsImbalance
  <2>. DEFINE a == AverageUtil(t, w)
              Of1(h) == [j \in h \cap DOMAIN a |-> a[j]]
  <2>1. IsFiniteSet(DOMAIN a) /\ \A j \in DOMAIN a : a[j] \in Nat
    BY AveragesAreNats DEF DetectionInv
  <2>2. \A h : /\ DOMAIN Of1(h) = h \cap DOMAIN a /\ IsFiniteSet(DOMAIN Of1(h))
               /\ \A j \in DOMAIN Of1(h) : Of1(h)[j] \in Nat /\ Of1(h)[j] = a[j]
    BY <2>1, FS_Subset
  <2>3. PICK u : u = Of1(g)
    OBVIOUS
  <2>4. Metrics(u) \in Judged(t, w)
    BY <2>3 DEF Judged
  <2>5. Metrics(u).imbalanced /\ Ratio(Metrics(u)) >= 200
    <3>1. /\ DOMAIN u = g \cap DOMAIN a /\ IsFiniteSet(DOMAIN u)
          /\ \A j \in DOMAIN u : u[j] \in Nat /\ u[j] = a[j]
      BY <2>2, <2>3
    <3>. HIDE DEF Of1
    <3>. QED  BY <3>1, LoneMetrics
  <2>6. ASSUME NEW m \in Judged(t, w), m.imbalanced
        PROVE  Ratio(m) \in Int
    <3>1. PICK h \in Groups(t) : Cardinality(h \cap DOMAIN a) >= 2 /\ m = Metrics(Of1(h))
      BY DEF Judged
    <3>2. PICK v : v = Of1(h)
      OBVIOUS
    <3>3. /\ IsFiniteSet(DOMAIN v) /\ Cardinality(DOMAIN v) >= 2
          /\ \A j \in DOMAIN v : v[j] \in Nat
      BY <2>2, <3>1, <3>2
    <3>4. DOMAIN v # {}
      BY <3>3, FS_EmptySet
    <3>. HIDE DEF Of1
    <3>5. /\ m.n \in Nat /\ m.sum \in Nat /\ m.n >= 2 /\ m.sum >= MinMean * m.n
          /\ m.top \in {v[j] : j \in DOMAIN v}
      BY <2>6, <3>1, <3>2, <3>3, <3>4, MetricsAre
    <3>6. m.top \in Nat
      BY <3>3, <3>5
    <3>7. m.sum > 0
      <4>1. PICK k \in Nat : k = MinMean * m.n /\ k >= 2
        BY <3>5, AssessmentsAssumption
      <4>. QED  BY <3>5, <4>1
    <3>. QED  BY <3>5, <3>6, <3>7, RatioIsInt DEF Ratio
  <2>. DEFINE ratios == {Ratio(m) : m \in {j \in Judged(t, w) : j.imbalanced}}
  <2>7. \A r \in ratios : r \in Int
    BY <2>6
  <2>8. \E r \in ratios : r >= 200
    BY <2>4, <2>5
  <2>9. FabricSeverity(t, w) = CASE \E r \in ratios : r >= 300 -> "high"
                              [] (\A r \in ratios : r < 300) /\ \E r \in ratios : r >= 200 -> "medium"
                              [] OTHER -> "low"
    BY DEF FabricSeverity
  <2>. HIDE DEF ratios
  <2>10. CASE \E r \in ratios : r >= 300
    <3>1. ~\A r \in ratios : r < 300
      BY <2>7, <2>10
    <3>. QED  BY <2>9, <2>10, <3>1
  <2>11. CASE ~\E r \in ratios : r >= 300
    <3>1. \A r \in ratios : r < 300
      BY <2>7, <2>11
    <3>. QED  BY <2>8, <2>9, <2>11, <3>1
  <2>. QED  BY <2>10, <2>11
<1>. QED  BY <1>1, DetectionInvariant, PTL
=============================================================================
