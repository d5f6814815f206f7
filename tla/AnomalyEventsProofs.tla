------------------------ MODULE AnomalyEventsProofs ------------------------
(***************************************************************************)
(* The deduplication of module AnomalyEvents, for every set of conditions, *)
(* severities, recorders and rows.                                         *)
(***************************************************************************)
EXTENDS AnomalyEvents, SumProofs

EventsInv == EventsTypeOK /\ OneOpenPerCondition

LEMMA UsedRows ==
  ASSUME EventsTypeOK
  PROVE  \A id \in RowId : (id \in Used <=> rows[id] # NoRow) /\ (id \in Used => rows[id] \in Row)
BY DEF EventsTypeOK, Used

LEMMA FreshRowType ==
  ASSUME NEW k \in Condition, NEW keyed \in BOOLEAN, NEW s \in Severity, NEW t \in Nat
  PROVE  FreshRow(k, keyed, s, t) \in Row
BY DEF FreshRow, Row

\* What a bump does to the row it hits and to the others.
LEMMA BumpEffect ==
  ASSUME EventsTypeOK, NEW p \in Pending, NEW id \in Used, Bump(id, p)
  PROVE  /\ rows' \in [RowId -> Row \cup {NoRow}]
         /\ rows'[id] # NoRow
         /\ rows'[id].sev = Escalated(rows[id].sev, p.sev)
         /\ rows'[id].count = rows[id].count + 1
         /\ rows'[id].cond = rows[id].cond /\ rows'[id].keyed = rows[id].keyed
         /\ rows'[id].acked = rows[id].acked /\ rows'[id].resolved = rows[id].resolved
         /\ \A j \in RowId : j # id => rows'[j] = rows[j]
<1>1. id \in RowId /\ rows[id] \in Row
  BY UsedRows DEF Used
<1>. DEFINE row == [ cond |-> rows[id].cond, keyed |-> rows[id].keyed,
                     sev |-> Escalated(rows[id].sev, p.sev),
                     count |-> rows[id].count + 1, ts |-> rows[id].ts, last |-> p.at,
                     acked |-> rows[id].acked, resolved |-> rows[id].resolved ]
<1>2. row \in Row
  BY <1>1 DEF Row, Pending, Escalated
<1>3. rows' = [rows EXCEPT ![id] = row]
  BY DEF Bump
<1>4. rows \in [RowId -> Row \cup {NoRow}]
  BY DEF EventsTypeOK
<1>5. rows'[id] = row /\ row # NoRow
  BY <1>1, <1>2, <1>3, <1>4, EventsNullAssumption
<1>6. rows' \in [RowId -> Row \cup {NoRow}] /\ \A j \in RowId : j # id => rows'[j] = rows[j]
  BY <1>2, <1>3, <1>4
<1>7. /\ row.sev = Escalated(rows[id].sev, p.sev)
      /\ row.count = rows[id].count + 1
      /\ row.cond = rows[id].cond
  OBVIOUS
<1>8. row.keyed = rows[id].keyed
  BY Zenon
<1>9. row.acked = rows[id].acked
  BY Zenon
<1>10. row.resolved = rows[id].resolved
  BY Zenon
<1>. HIDE DEF row
<1>. QED
  BY <1>5, <1>6, <1>7, <1>8, <1>9, <1>10

LEMMA InsertEffect ==
  ASSUME EventsTypeOK, NEW row \in Row, NEW id \in RowId, Insert(id, row)
  PROVE  /\ rows' \in [RowId -> Row \cup {NoRow}]
         /\ rows[id] = NoRow /\ rows'[id] = row /\ row # NoRow
         /\ \A j \in RowId : j # id => rows'[j] = rows[j]
BY EventsNullAssumption DEF EventsTypeOK, Insert, Used

\* An operator sets one flag of one row.
LEMMA FlagEffect ==
  ASSUME EventsTypeOK, NEW id \in Used,
         \/ rows' = [rows EXCEPT ![id].acked = TRUE]
         \/ rows' = [rows EXCEPT ![id].resolved = TRUE]
  PROVE  /\ rows' \in [RowId -> Row \cup {NoRow}]
         /\ rows'[id] # NoRow
         /\ rows'[id].sev = rows[id].sev /\ rows'[id].count = rows[id].count
         /\ rows'[id].cond = rows[id].cond /\ rows'[id].keyed = rows[id].keyed
         /\ rows[id].resolved => rows'[id].resolved
         /\ \A j \in RowId : j # id => rows'[j] = rows[j]
<1>1. id \in RowId /\ rows[id] \in Row /\ rows \in [RowId -> Row \cup {NoRow}]
  BY UsedRows DEF Used, EventsTypeOK
<1>2. /\ [rows[id] EXCEPT !.acked = TRUE] \in Row
      /\ [rows[id] EXCEPT !.resolved = TRUE] \in Row
  BY <1>1 DEF Row
<1>3. rows'[id] \in {[rows[id] EXCEPT !.acked = TRUE], [rows[id] EXCEPT !.resolved = TRUE]}
  BY <1>1
<1>4. \A j \in RowId : j # id => rows'[j] = rows[j]
  BY <1>1
<1>5. rows' \in [RowId -> Row \cup {NoRow}]
  BY <1>1, <1>2
<1>6. rows'[id] # NoRow
  BY <1>2, <1>3, EventsNullAssumption
<1>7. /\ rows'[id].sev = rows[id].sev /\ rows'[id].count = rows[id].count
      /\ rows'[id].cond = rows[id].cond /\ rows'[id].keyed = rows[id].keyed
      /\ rows[id].resolved => rows'[id].resolved
  BY <1>1, <1>3 DEF Row
<1>. QED
  BY <1>4, <1>5, <1>6, <1>7

LEMMA PendingType ==
  ASSUME EventsTypeOK, NEW r \in Recorder, pending[r] # Idle
  PROVE  pending[r] \in Pending
BY DEF EventsTypeOK

-----------------------------------------------------------------------------
LEMMA EventsTypeStep == EventsTypeOK /\ [EventsNext]_eventVars => EventsTypeOK'
<1>. SUFFICES ASSUME EventsTypeOK, [EventsNext]_eventVars PROVE EventsTypeOK'
  OBVIOUS
<1>1. ASSUME NEW r \in Recorder, NEW k \in Condition, NEW s \in Severity, Begin(r, k, s)
      PROVE  EventsTypeOK'
  <2>1. [cond |-> k, sev |-> s, at |-> now] \in Pending
    BY DEF EventsTypeOK, Pending
  <2>. QED
    BY <1>1, <2>1 DEF Begin, EventsTypeOK
<1>2. ASSUME NEW r \in Recorder, Upsert(r) PROVE EventsTypeOK'
  <2>. DEFINE p == pending[r]
  <2>1. p \in Pending
    BY <1>2, PendingType DEF Upsert
  <2>2. rows' \in [RowId -> Row \cup {NoRow}]
    <3>1. ASSUME NEW id \in Open(p.cond), Bump(id, p)
          PROVE  rows' \in [RowId -> Row \cup {NoRow}]
      BY <2>1, <3>1, BumpEffect DEF Open
    <3>2. ASSUME NEW id \in RowId, Insert(id, FreshRow(p.cond, TRUE, p.sev, p.at))
          PROVE  rows' \in [RowId -> Row \cup {NoRow}]
      <4>1. FreshRow(p.cond, TRUE, p.sev, p.at) \in Row
        BY <2>1, FreshRowType DEF Pending
      <4>. QED
        BY <3>2, <4>1, InsertEffect
    <3>. QED
      BY <1>2, <3>1, <3>2 DEF Upsert, Record
  <2>3. reported' \in [Condition -> Nat]
    BY <1>2, <2>1 DEF Upsert, Record, EventsTypeOK, Pending
  <2>. QED
    BY <1>2, <2>2, <2>3 DEF Upsert, EventsTypeOK
<1>3. ASSUME NEW r \in Recorder, Fail(r) PROVE EventsTypeOK'
  BY <1>3 DEF Fail, EventsTypeOK
<1>4. ASSUME NEW k \in Condition, NEW s \in Severity, DetectorInsert(k, s)
      PROVE  EventsTypeOK'
  <2>1. FreshRow(k, FALSE, s, now) \in Row
    BY FreshRowType DEF EventsTypeOK
  <2>2. rows' \in [RowId -> Row \cup {NoRow}]
    BY <1>4, <2>1, InsertEffect DEF DetectorInsert
  <2>. QED
    BY <1>4, <2>2 DEF DetectorInsert, EventsTypeOK
<1>5. ASSUME NEW id \in RowId, Acknowledge(id) \/ Resolve(id) PROVE EventsTypeOK'
  BY <1>5, FlagEffect DEF Acknowledge, Resolve, EventsTypeOK
<1>6. CASE ClockTick
  BY <1>6 DEF ClockTick, EventsTypeOK
<1>7. CASE UNCHANGED eventVars
  BY <1>7 DEF eventVars, EventsTypeOK
<1>. QED
  BY EventsAssumption, <1>1, <1>2, <1>3, <1>4, <1>5, <1>6, <1>7 DEF EventsNext

-----------------------------------------------------------------------------
\* The ways a step can write the table.
Bumps == \E p \in Pending : \E id \in Open(p.cond) : Bump(id, p)
Opens == \E p \in Pending : /\ Open(p.cond) = {}
                            /\ \E id \in RowId : Insert(id, FreshRow(p.cond, TRUE, p.sev, p.at))
Appends == \E k \in Condition, s \in Severity : \E id \in RowId :
             Insert(id, FreshRow(k, FALSE, s, now))
Flags == \E id \in RowId : Acknowledge(id) \/ Resolve(id)

LEMMA TableStep ==
  ASSUME EventsTypeOK, [EventsNext]_eventVars
  PROVE  Bumps \/ Opens \/ Appends \/ Flags \/ UNCHANGED rows
<1>1. ASSUME NEW r \in Recorder, Upsert(r) PROVE Bumps \/ Opens
  BY <1>1, PendingType DEF Upsert, Record, Bumps, Opens
<1>2. ASSUME NEW k \in Condition, NEW s \in Severity, DetectorInsert(k, s) PROVE Appends
  BY <1>2 DEF DetectorInsert, Appends
<1>3. ASSUME NEW r \in Recorder, NEW k \in Condition, NEW s \in Severity,
             Begin(r, k, s)
      PROVE  UNCHANGED rows
  BY <1>3 DEF Begin
<1>4. ASSUME NEW r \in Recorder, Fail(r) PROVE UNCHANGED rows
  BY <1>4 DEF Fail
<1>. QED
  BY EventsAssumption, <1>1, <1>2, <1>3, <1>4 DEF EventsNext, Flags, ClockTick, eventVars

\* Bumping moves no row into or out of the open index.
LEMMA BumpOpen ==
  ASSUME EventsTypeOK, NEW p \in Pending, NEW id \in Open(p.cond), Bump(id, p)
  PROVE  \A k \in Condition : Open(k)' = Open(k)
BY BumpEffect DEF Open, Used

LEMMA InsertOpen ==
  ASSUME EventsTypeOK, NEW k \in Condition, NEW keyed \in BOOLEAN,
         NEW s \in Severity, NEW t \in Nat,
         NEW id \in RowId, Insert(id, FreshRow(k, keyed, s, t))
  PROVE  \A c \in Condition :
           Open(c)' = IF keyed /\ c = k THEN Open(c) \cup {id} ELSE Open(c)
<1>. DEFINE row == FreshRow(k, keyed, s, t)
<1>1. row \in Row
  BY FreshRowType
<1>2. row.cond = k /\ row.keyed = keyed /\ row.resolved = FALSE
  BY Zenon DEF FreshRow
<1>. HIDE DEF row
<1>3. /\ rows[id] = NoRow /\ rows'[id] = row /\ row # NoRow
      /\ \A j \in RowId : j # id => rows'[j] = rows[j]
  BY <1>1, InsertEffect DEF row
<1>. QED
  BY <1>2, <1>3 DEF Open, Used

LEMMA FlagOpen ==
  ASSUME EventsTypeOK, NEW id \in RowId, Acknowledge(id) \/ Resolve(id)
  PROVE  \A k \in Condition : Open(k)' \subseteq Open(k)
BY FlagEffect DEF Acknowledge, Resolve, Open, Used

LEMMA OneOpenStep == EventsInv /\ [EventsNext]_eventVars => OneOpenPerCondition'
<1>. SUFFICES ASSUME EventsInv, [EventsNext]_eventVars PROVE OneOpenPerCondition'
  OBVIOUS
<1>. USE DEF EventsInv
<1>1. CASE Bumps
  BY <1>1, BumpOpen DEF Bumps, OneOpenPerCondition
<1>2. CASE Opens
  <2>1. PICK p \in Pending, id \in RowId :
          Open(p.cond) = {} /\ Insert(id, FreshRow(p.cond, TRUE, p.sev, p.at))
    BY <1>2 DEF Opens
  <2>2. \A c \in Condition :
          Open(c)' = IF c = p.cond THEN Open(c) \cup {id} ELSE Open(c)
    BY <2>1, InsertOpen DEF Pending
  <2>. QED
    BY <2>1, <2>2 DEF OneOpenPerCondition
<1>3. CASE Appends
  <2>1. PICK k \in Condition, s \in Severity, id \in RowId :
          Insert(id, FreshRow(k, FALSE, s, now))
    BY <1>3 DEF Appends
  <2>2. \A c \in Condition : Open(c)' = Open(c)
    BY <2>1, InsertOpen DEF EventsTypeOK
  <2>. QED
    BY <2>2 DEF OneOpenPerCondition
<1>4. CASE Flags
  BY <1>4, FlagOpen DEF Flags, OneOpenPerCondition
<1>5. CASE UNCHANGED rows
  BY <1>5 DEF OneOpenPerCondition, Open, Used
<1>. QED
  BY <1>1, <1>2, <1>3, <1>4, <1>5, TableStep

THEOREM EventsInvariant == EventsSpec => []EventsInv
<1>1. EventsInit => EventsInv
  BY DEF EventsInit, EventsInv, EventsTypeOK, OneOpenPerCondition, Open, Used
<1>2. EventsInv /\ [EventsNext]_eventVars => EventsInv'
  BY EventsTypeStep, OneOpenStep DEF EventsInv
<1>. QED
  BY <1>1, <1>2, PTL DEF EventsSpec

-----------------------------------------------------------------------------
(***************************************************************************)
(* The count of occurrences: the sum over the rows of a fingerprint needs  *)
(* that these are finitely many, as rows appear one at a time.             *)
(***************************************************************************)
CountInv == EventsTypeOK /\ IsFiniteSet(Used) /\ OccurrencesConserved

\* The rows a sum is over, and what it adds.
LEMMA CountedFacts ==
  ASSUME EventsTypeOK, IsFiniteSet(Used), NEW k \in Condition
  PROVE  /\ IsFiniteSet(Counted(k)) /\ Counted(k) \subseteq RowId
         /\ \A id \in Counted(k) : id \in Used /\ rows[id] \in Row /\ rows[id].count \in Nat
<1>1. Counted(k) \subseteq Used
  BY DEF Counted
<1>2. \A id \in Used : id \in RowId /\ rows[id] \in Row /\ rows[id].count \in Nat
  BY UsedRows DEF Used, Row
<1>. QED  BY <1>1, <1>2, FS_Subset

\* A report that finds an open row: that row counts one more.
LEMMA BumpCounts ==
  ASSUME CountInv, NEW p \in Pending, NEW id \in Open(p.cond), Bump(id, p)
  PROVE  /\ Used' = Used
         /\ \A k \in Condition :
              Occurrences(k)' = IF k = p.cond THEN Occurrences(k) + 1 ELSE Occurrences(k)
<1>1. /\ id \in Used /\ id \in RowId /\ rows[id].cond = p.cond /\ rows[id].keyed
      /\ p.cond \in Condition
  BY DEF Open, Used, Pending
<1>2. /\ rows'[id] # NoRow /\ rows'[id].count = rows[id].count + 1
      /\ rows'[id].cond = rows[id].cond /\ rows'[id].keyed = rows[id].keyed
      /\ \A j \in RowId : j # id => rows'[j] = rows[j]
  BY <1>1, BumpEffect DEF CountInv
<1>3. Used' = Used
  BY <1>1, <1>2 DEF Used
<1>4. ASSUME NEW k \in Condition
      PROVE  Occurrences(k)' = IF k = p.cond THEN Occurrences(k) + 1 ELSE Occurrences(k)
  <2>. DEFINE S == Counted(k)
              f == [j \in S |-> rows[j].count]
              e == [j \in S |-> rows'[j].count]
  <2>1. Counted(k)' = S
    BY <1>1, <1>2, <1>3 DEF Counted, Used
  <2>2. Occurrences(k) = SumFunctionOnSet(f, S) /\ Occurrences(k)' = SumFunctionOnSet(e, S)
    BY <2>1 DEF Occurrences, SumFunction
  <2>3. /\ IsFiniteSet(S) /\ S \subseteq RowId
        /\ \A j \in S : rows[j].count \in Nat /\ (j # id => rows'[j] = rows[j])
    BY <1>2, CountedFacts DEF CountInv
  <2>4. CASE k = p.cond
    <3>1. id \in S
      BY <1>1, <2>4 DEF Counted
    <3>2. /\ \A j \in S : f[j] \in Int /\ e[j] \in Int
          /\ \A j \in S \ {id} : e[j] = f[j]
          /\ f[id] \in Int /\ e[id] = f[id] + 1
      BY <1>2, <2>3, <3>1
    <3>. HIDE DEF S, f, e
    <3>3. SumFunctionOnSet(e, S) = SumFunctionOnSet(f, S) + (e[id] - f[id])
      BY <2>3, <3>1, <3>2, SumChange
    <3>4. SumFunctionOnSet(f, S) \in Int
      BY <2>3, <3>2, SumInt
    <3>. QED  BY <2>2, <2>4, <3>2, <3>3, <3>4
  <2>5. CASE k # p.cond
    <3>1. id \notin S
      BY <1>1, <2>5 DEF Counted
    <3>2. \A j \in S : e[j] = f[j]
      BY <2>3, <3>1
    <3>. HIDE DEF S, f, e
    <3>3. SumFunctionOnSet(e, S) = SumFunctionOnSet(f, S)
      BY <2>3, <3>2, SumSame
    <3>. QED  BY <2>2, <2>5, <3>3
  <2>. QED  BY <2>4, <2>5
<1>. QED  BY <1>3, <1>4

\* A new row counts one for its condition if it has a fingerprint, else nothing.
LEMMA InsertCounts ==
  ASSUME CountInv, NEW c \in Condition, NEW keyed \in BOOLEAN, NEW s \in Severity,
         NEW t \in Nat, NEW id \in RowId, Insert(id, FreshRow(c, keyed, s, t))
  PROVE  /\ Used' = Used \cup {id}
         /\ \A k \in Condition :
              Occurrences(k)' = IF keyed /\ k = c THEN Occurrences(k) + 1 ELSE Occurrences(k)
<1>. DEFINE row == FreshRow(c, keyed, s, t)
<1>1. row \in Row
  BY FreshRowType
<1>2. row.cond = c /\ row.count = 1
  BY DEF FreshRow
<1>3. row.keyed = keyed
  BY Zenon DEF FreshRow
<1>. HIDE DEF row
<1>4. /\ rows[id] = NoRow /\ rows'[id] = row /\ row # NoRow /\ id \notin Used
      /\ \A j \in RowId : j # id => rows'[j] = rows[j]
  BY <1>1, InsertEffect DEF CountInv, row, Used
<1>5. Used' = Used \cup {id}
  BY <1>4 DEF Used
<1>6. ASSUME NEW k \in Condition
      PROVE  Occurrences(k)' = IF keyed /\ k = c THEN Occurrences(k) + 1 ELSE Occurrences(k)
  <2>. DEFINE S == Counted(k)
              f == [j \in S |-> rows[j].count]
              e == [j \in Counted(k)' |-> rows'[j].count]
  <2>1. Counted(k)' = IF keyed /\ k = c THEN S \cup {id} ELSE S
    BY <1>2, <1>3, <1>4, <1>5 DEF Counted, Used
  <2>2. /\ Occurrences(k) = SumFunctionOnSet(f, S)
        /\ Occurrences(k)' = SumFunctionOnSet(e, Counted(k)')
    BY DEF Occurrences, SumFunction
  <2>3. /\ IsFiniteSet(S) /\ S \subseteq RowId /\ id \notin S
        /\ \A j \in S : rows[j].count \in Nat /\ rows'[j] = rows[j]
    BY <1>4, CountedFacts DEF CountInv
  <2>4. \A j \in S : f[j] \in Int /\ e[j] = f[j]
    BY <2>1, <2>3
  <2>5. SumFunctionOnSet(e, S) = SumFunctionOnSet(f, S) /\ SumFunctionOnSet(f, S) \in Int
    <3>. HIDE DEF S, f, e
    <3>. QED  BY <2>3, <2>4, SumSame, SumInt
  <2>6. CASE keyed /\ k = c
    <3>1. Counted(k)' = S \cup {id}
      BY <2>1, <2>6
    <3>2. e[id] = 1 /\ \A j \in S \cup {id} : e[j] \in Int
      BY <1>2, <1>4, <2>4, <3>1
    <3>. HIDE DEF S, f, e
    <3>3. SumFunctionOnSet(e, S \cup {id}) = e[id] + SumFunctionOnSet(e, S)
      BY <2>3, <3>2, SumAdd
    <3>. QED  BY <2>2, <2>5, <2>6, <3>1, <3>2, <3>3
  <2>7. CASE ~(keyed /\ k = c)
    <3>1. Counted(k)' = S
      BY <2>1, <2>7
    <3>. HIDE DEF S, f, e
    <3>. QED  BY <2>2, <2>5, <2>7, <3>1
  <2>. QED  BY <2>6, <2>7
<1>. QED  BY <1>5, <1>6

\* Flags of a row, and steps that leave the table alone, count nothing.
LEMMA FlagCounts ==
  ASSUME CountInv, Flags \/ UNCHANGED rows
  PROVE  Used' = Used /\ \A k \in Condition : Occurrences(k)' = Occurrences(k)
<1>1. \A j \in RowId : /\ rows'[j] = NoRow <=> rows[j] = NoRow
                       /\ j \in Used => /\ rows'[j].count = rows[j].count
                                        /\ rows'[j].cond = rows[j].cond
                                        /\ rows'[j].keyed = rows[j].keyed
  <2>1. CASE UNCHANGED rows
    BY <2>1
  <2>2. ASSUME NEW id \in RowId, Acknowledge(id) \/ Resolve(id)
        PROVE  /\ id \in Used /\ rows'[id] # NoRow /\ rows[id] # NoRow
               /\ rows'[id].count = rows[id].count
               /\ rows'[id].cond = rows[id].cond /\ rows'[id].keyed = rows[id].keyed
               /\ \A j \in RowId : j # id => rows'[j] = rows[j]
    BY <2>2, FlagEffect DEF Acknowledge, Resolve, CountInv, Used
  <2>. QED  BY <2>1, <2>2 DEF Flags
<1>2. Used' = Used
  BY <1>1 DEF Used
<1>3. ASSUME NEW k \in Condition PROVE Occurrences(k)' = Occurrences(k)
  <2>. DEFINE S == Counted(k)
              f == [j \in S |-> rows[j].count]
              e == [j \in S |-> rows'[j].count]
  <2>1. Counted(k)' = S
    BY <1>1, <1>2 DEF Counted, Used
  <2>2. Occurrences(k) = SumFunctionOnSet(f, S) /\ Occurrences(k)' = SumFunctionOnSet(e, S)
    BY <2>1 DEF Occurrences, SumFunction
  <2>3. IsFiniteSet(S) /\ \A j \in S : e[j] = f[j]
    BY <1>1, CountedFacts DEF CountInv
  <2>. HIDE DEF S, f, e
  <2>. QED  BY <2>2, <2>3, SumSame
<1>. QED  BY <1>2, <1>3

\* Every step that is a report counts once, in the row and in the history.
LEMMA CountStep == CountInv /\ [EventsNext]_eventVars => CountInv'
<1>. SUFFICES ASSUME CountInv, [EventsNext]_eventVars PROVE CountInv'
  OBVIOUS
<1>1. EventsTypeOK' /\ reported \in [Condition -> Nat] /\ now \in Nat
  BY EventsTypeStep DEF CountInv, EventsTypeOK
<1>2. ASSUME NEW r \in Recorder, Upsert(r)
      PROVE  IsFiniteSet(Used') /\ OccurrencesConserved'
  <2>. DEFINE p == pending[r]
  <2>1. p \in Pending /\ p.cond \in Condition /\ p.sev \in Severity /\ p.at \in Nat
    BY <1>2, PendingType DEF Upsert, CountInv, Pending
  <2>2. /\ \/ \E id \in Open(p.cond) : Bump(id, p)
           \/ \E id \in RowId : Insert(id, FreshRow(p.cond, TRUE, p.sev, p.at))
        /\ reported' = [reported EXCEPT ![p.cond] = @ + 1]
    BY <1>2 DEF Upsert, Record
  <2>. HIDE DEF p
  <2>3. /\ Used' = Used \/ \E id \in RowId : Used' = Used \cup {id}
        /\ \A k \in Condition :
             Occurrences(k)' = IF k = p.cond THEN Occurrences(k) + 1 ELSE Occurrences(k)
    <3>1. CASE \E id \in Open(p.cond) : Bump(id, p)
      BY <2>1, <3>1, BumpCounts
    <3>2. CASE \E id \in RowId : Insert(id, FreshRow(p.cond, TRUE, p.sev, p.at))
      BY <2>1, <3>2, InsertCounts
    <3>. QED  BY <2>2, <3>1, <3>2
  <2>4. IsFiniteSet(Used')
    BY <2>3, FS_AddElement DEF CountInv
  <2>5. \A k \in Condition : reported'[k] = IF k = p.cond THEN reported[k] + 1 ELSE reported[k]
    BY <1>1, <2>1, <2>2
  <2>6. OccurrencesConserved'
    BY <2>3, <2>5 DEF OccurrencesConserved, CountInv
  <2>. QED  BY <2>4, <2>6
<1>3. ASSUME NEW c \in Condition, NEW s \in Severity, DetectorInsert(c, s)
      PROVE  IsFiniteSet(Used') /\ OccurrencesConserved'
  <2>1. PICK id \in RowId : Insert(id, FreshRow(c, FALSE, s, now))
    BY <1>3 DEF DetectorInsert
  <2>2. Used' = Used \cup {id} /\ \A k \in Condition : Occurrences(k)' = Occurrences(k)
    BY <1>1, <2>1, InsertCounts
  <2>3. reported' = reported
    BY <1>3 DEF DetectorInsert
  <2>. QED  BY <2>2, <2>3, FS_AddElement DEF OccurrencesConserved, CountInv
<1>4. ASSUME Flags \/ UNCHANGED rows, UNCHANGED reported
      PROVE  IsFiniteSet(Used') /\ OccurrencesConserved'
  BY <1>4, FlagCounts DEF OccurrencesConserved, CountInv
<1>5. ASSUME NEW r \in Recorder, NEW k \in Condition, NEW s \in Severity,
             Begin(r, k, s)
      PROVE  IsFiniteSet(Used') /\ OccurrencesConserved'
  BY <1>4, <1>5 DEF Begin
<1>6. ASSUME NEW id \in RowId, Acknowledge(id) \/ Resolve(id)
      PROVE  IsFiniteSet(Used') /\ OccurrencesConserved'
  <2>1. Flags /\ UNCHANGED reported
    BY <1>6 DEF Acknowledge, Resolve, Flags
  <2>. QED  BY <1>4, <2>1
<1>7. ASSUME ClockTick \/ UNCHANGED eventVars \/ \E r \in Recorder : Fail(r)
      PROVE  IsFiniteSet(Used') /\ OccurrencesConserved'
  BY <1>4, <1>7 DEF ClockTick, Fail, eventVars
<1>. QED
  BY EventsAssumption, <1>1, <1>2, <1>3, <1>4, <1>5, <1>6, <1>7
  DEF EventsNext, CountInv

(***************************************************************************)
(* No report of a condition is lost or counted twice: the occurrence       *)
(* counts of its rows, open and resolved, add up to the reports committed  *)
(* (record_anomaly in services/anomaly_dedup.py).                          *)
(***************************************************************************)
THEOREM OccurrencesHold == EventsSpec => []OccurrencesConserved
<1>1. EventsInit => CountInv
  <2>. SUFFICES ASSUME EventsInit PROVE CountInv
    OBVIOUS
  <2>1. EventsTypeOK /\ Used = {} /\ \A k \in Condition : Counted(k) = {} /\ reported[k] = 0
    BY DEF EventsInit, EventsTypeOK, Used, Counted
  <2>2. IsFiniteSet({})
    BY FS_EmptySet
  <2>3. \A f : SumFunctionOnSet(f, {}) = 0
    BY <2>2, SumRecursion
  <2>4. \A k \in Condition : Occurrences(k) = 0
    BY <2>1, <2>3 DEF Occurrences, SumFunction
  <2>. QED  BY <2>1, <2>2, <2>4 DEF CountInv, OccurrencesConserved
<1>2. CountInv => OccurrencesConserved
  BY DEF CountInv
<1>. QED  BY <1>1, <1>2, CountStep, PTL DEF EventsSpec

(***************************************************************************)
(* Every row of the table is a whole row, whatever reports, escalations    *)
(* and operators' edits were applied to it (services/anomaly_dedup.py).    *)
(***************************************************************************)
THEOREM EventsTypeHolds == EventsSpec => []EventsTypeOK
<1>1. EventsInv => EventsTypeOK
  BY DEF EventsInv
<1>. QED
  BY <1>1, EventsInvariant, PTL

(***************************************************************************)
(* At most one row of a fingerprint is open, whoever writes concurrently.  *)
(***************************************************************************)
THEOREM OneOpenHolds == EventsSpec => []OneOpenPerCondition
<1>1. EventsInv => OneOpenPerCondition
  BY DEF EventsInv
<1>. QED
  BY <1>1, EventsInvariant, PTL

-----------------------------------------------------------------------------
\* No step lowers the severity of a row or touches a resolved one's report.
LEMMA RowStep ==
  ASSUME EventsTypeOK, [EventsNext]_eventVars, NEW i \in Used
  PROVE  /\ rows'[i].sev >= rows[i].sev
         /\ rows[i].resolved => rows'[i] \in {rows[i], [rows[i] EXCEPT !.acked = TRUE]}
<1>0. i \in RowId /\ rows[i] \in Row /\ rows[i].sev \in Nat /\ rows[i] # NoRow
  BY UsedRows, EventsAssumption DEF Used, Row
<1>1. CASE Bumps
  <2>1. PICK p \in Pending, id \in RowId : id \in Open(p.cond) /\ Bump(id, p)
    BY <1>1 DEF Bumps, Open, Used
  <2>2. id \in Used /\ ~rows[id].resolved
    BY <2>1 DEF Open
  <2>3. /\ rows'[id].sev = Escalated(rows[id].sev, p.sev)
        /\ \A j \in RowId : j # id => rows'[j] = rows[j]
    BY <2>1, <2>2, BumpEffect
  <2>4. rows'[i].sev >= rows[i].sev
    <3>1. p.sev \in Nat
      BY EventsAssumption DEF Pending
    <3>2. CASE i = id
      BY <1>0, <2>3, <3>1, <3>2 DEF Escalated
    <3>3. CASE i # id
      BY <1>0, <2>3, <3>3
    <3>. QED
      BY <3>2, <3>3
  <2>. QED
    BY <1>0, <2>2, <2>3, <2>4
<1>2. ASSUME NEW row \in Row, NEW id \in RowId, Insert(id, row)
      PROVE  rows'[i] = rows[i]
  BY <1>0, <1>2, InsertEffect
<1>3. CASE Opens
  <2>1. PICK p \in Pending, id \in RowId : Insert(id, FreshRow(p.cond, TRUE, p.sev, p.at))
    BY <1>3 DEF Opens
  <2>2. rows'[i] = rows[i]
    BY <1>2, <2>1, FreshRowType DEF Pending
  <2>. QED
    BY <1>0, <2>2
<1>4. CASE Appends
  <2>1. rows'[i] = rows[i]
    BY <1>2, <1>4, FreshRowType DEF Appends, EventsTypeOK
  <2>. QED
    BY <1>0, <2>1
<1>5. ASSUME NEW id \in RowId, Acknowledge(id)
      PROVE  /\ rows'[i].sev = rows[i].sev
             /\ rows'[i] \in {rows[i], [rows[i] EXCEPT !.acked = TRUE]}
  <2>1. id \in Used
    BY <1>5 DEF Acknowledge
  <2>2. rows'[i].sev = rows[i].sev
    BY <1>0, <1>5, <2>1, FlagEffect DEF Acknowledge
  <2>. QED
    BY <1>0, <1>5, <2>2 DEF Acknowledge, EventsTypeOK
<1>6. ASSUME NEW id \in RowId, Resolve(id)
      PROVE  /\ rows'[i].sev = rows[i].sev
             /\ rows[i].resolved => rows'[i] = rows[i]
  <2>1. id \in Used /\ ~rows[id].resolved
    BY <1>6 DEF Resolve
  <2>2. /\ rows'[i].sev = rows[i].sev
        /\ \A j \in RowId : j # id => rows'[j] = rows[j]
    BY <1>0, <1>6, <2>1, FlagEffect DEF Resolve
  <2>. QED
    BY <1>0, <2>1, <2>2
<1>7. CASE Flags
  BY <1>0, <1>5, <1>6, <1>7 DEF Flags
<1>8. CASE UNCHANGED rows
  BY <1>0, <1>8
<1>. QED
  BY <1>1, <1>3, <1>4, <1>7, <1>8, TableStep

(***************************************************************************)
(* Overlapping recorders and operators never lower an event's severity.    *)
(***************************************************************************)
THEOREM SeverityHolds == EventsSpec => SeverityNeverLowers
<1>1. EventsTypeOK /\ [EventsNext]_eventVars
        => [\A id \in Used : rows'[id].sev >= rows[id].sev]_eventVars
  BY RowStep
<1>2. EventsInv => EventsTypeOK
  BY DEF EventsInv
<1>. QED
  BY <1>1, <1>2, EventsInvariant, PTL DEF EventsSpec, SeverityNeverLowers

(***************************************************************************)
(* A resolved event never takes another report.                            *)
(***************************************************************************)
THEOREM ClosedHolds == EventsSpec => ClosedRowsFrozen
<1>1. EventsTypeOK /\ [EventsNext]_eventVars
        => [\A id \in Used : rows[id].resolved
              => rows'[id] \in {rows[id], [rows[id] EXCEPT !.acked = TRUE]}]_eventVars
  BY RowStep
<1>2. EventsInv => EventsTypeOK
  BY DEF EventsInv
<1>. QED
  BY <1>1, <1>2, EventsInvariant, PTL DEF EventsSpec, ClosedRowsFrozen

-----------------------------------------------------------------------------
\* With one open row, the incident is that row's.
LEMMA IncidentOfOpen ==
  ASSUME OneOpenPerCondition, NEW k \in Condition, NEW id \in Open(k)
  PROVE  IncidentOf(k) = [sev |-> rows[id].sev, count |-> rows[id].count,
                          acked |-> rows[id].acked]
<1>1. (CHOOSE j \in Open(k) : TRUE) = id
  BY DEF OneOpenPerCondition
<1>. QED
  BY <1>1 DEF IncidentOf

\* A step that leaves the open rows of a condition alone leaves its incident alone.
LEMMA IncidentUnchanged ==
  ASSUME NEW k \in Condition, Open(k)' = Open(k),
         \A id \in Open(k) : rows'[id].sev = rows[id].sev
                             /\ rows'[id].count = rows[id].count
                             /\ rows'[id].acked = rows[id].acked
  PROVE  IncidentOf(k)' = IncidentOf(k)
<1>1. CASE Open(k) = {}
  BY <1>1 DEF IncidentOf
<1>2. CASE Open(k) # {}
  <2>. DEFINE id == CHOOSE j \in Open(k) : TRUE
  <2>1. id \in Open(k)
    BY <1>2
  <2>2. IncidentOf(k) = [sev |-> rows[id].sev, count |-> rows[id].count,
                         acked |-> rows[id].acked]
    BY <1>2 DEF IncidentOf
  <2>3. IncidentOf(k)' = [sev |-> rows'[id].sev, count |-> rows'[id].count,
                          acked |-> rows'[id].acked]
    BY <1>2 DEF IncidentOf
  <2>. HIDE DEF id
  <2>. QED
    BY <2>1, <2>2, <2>3
<1>. QED
  BY <1>1, <1>2

LEMMA IncidentOfOpenNext ==
  ASSUME OneOpenPerCondition', NEW k \in Condition, NEW id \in RowId, id \in Open(k)'
  PROVE  IncidentOf(k)' = [sev |-> rows'[id].sev, count |-> rows'[id].count,
                           acked |-> rows'[id].acked]
<1>1. (CHOOSE j \in Open(k) : TRUE)' = id
  BY DEF OneOpenPerCondition
<1>. QED
  BY <1>1 DEF IncidentOf

inc == [k \in Condition |-> IncidentOf(k)]

\* The rows of one condition change; the incidents of the others do not.
LEMMA OneIncidentChanges ==
  ASSUME NEW k \in Condition, NEW x, IncidentOf(k)' = x,
         \A c \in Condition : c # k => IncidentOf(c)' = IncidentOf(c)
  PROVE  inc' = [inc EXCEPT ![k] = x]
BY DEF inc

LEMMA IncidentFields ==
  ASSUME NEW s, NEW n, NEW a, NEW x, x = [sev |-> s, count |-> n, acked |-> a]
  PROVE  x.sev = s /\ x.count = n /\ x.acked = a
OBVIOUS

\* A bump of the open row is a report on its incident.
LEMMA BumpReports ==
  ASSUME EventsInv, EventsInv', NEW p \in Pending, NEW id \in Open(p.cond), Bump(id, p)
  PROVE  \E k \in Condition, s \in Severity : Abstract!Report(k, s)
<1>. DEFINE k == p.cond
            old == IncidentOf(k)
            new == [sev |-> Abstract!Worse(old.sev, p.sev), count |-> old.count + 1,
                    acked |-> old.acked]
<1>1. k \in Condition /\ p.sev \in Severity
  BY DEF Pending
<1>2. id \in RowId /\ rows[id] \in Row /\ id \in Used
  BY UsedRows DEF Open, Used, EventsInv
<1>3. /\ rows'[id].sev = Escalated(rows[id].sev, p.sev)
      /\ rows'[id].count = rows[id].count + 1
      /\ rows'[id].acked = rows[id].acked
      /\ \A j \in RowId : j # id => rows'[j] = rows[j]
  BY <1>2, BumpEffect DEF EventsInv
<1>4. \A c \in Condition : Open(c)' = Open(c)
  BY BumpOpen DEF EventsInv
<1>5. old = [sev |-> rows[id].sev, count |-> rows[id].count, acked |-> rows[id].acked]
  BY <1>1, IncidentOfOpen DEF EventsInv
<1>6. old # NoIncident
  BY <1>2, <1>5, EventsNullAssumption DEF Row
<1>7. /\ old.sev = rows[id].sev
      /\ old.count = rows[id].count
      /\ old.acked = rows[id].acked
  BY <1>5, IncidentFields
<1>8. IncidentOf(k)' = [sev |-> rows'[id].sev, count |-> rows'[id].count,
                        acked |-> rows'[id].acked]
  BY <1>1, <1>2, <1>4, IncidentOfOpenNext DEF EventsInv
<1>9. IncidentOf(k)' = new
  BY <1>3, <1>7, <1>8 DEF Escalated, Abstract!Worse
<1>10. \A c \in Condition : c # k => IncidentOf(c)' = IncidentOf(c)
  <2>. SUFFICES ASSUME NEW c \in Condition, c # k PROVE IncidentOf(c)' = IncidentOf(c)
    OBVIOUS
  <2>1. \A j \in Open(c) : rows'[j] = rows[j]
    BY <1>3 DEF Open, Used
  <2>. QED
    BY <1>4, <2>1, IncidentUnchanged
<1>11. inc' = [inc EXCEPT ![k] = new]
  BY <1>1, <1>9, <1>10, OneIncidentChanges
<1>12. inc[k] = old
  BY <1>1 DEF inc
<1>. HIDE DEF old
<1>13. Abstract!Report(k, p.sev)
  BY <1>1, <1>6, <1>11, <1>12 DEF Abstract!Report, inc
<1>. QED
  BY <1>1, <1>13

\* The first report of a condition opens its incident.
LEMMA InsertReports ==
  ASSUME EventsInv, EventsInv', NEW p \in Pending, Open(p.cond) = {},
         NEW id \in RowId, Insert(id, FreshRow(p.cond, TRUE, p.sev, p.at))
  PROVE  \E k \in Condition, s \in Severity : Abstract!Report(k, s)
<1>. DEFINE k == p.cond
            row == FreshRow(p.cond, TRUE, p.sev, p.at)
            new == [sev |-> p.sev, count |-> 1, acked |-> FALSE]
<1>1. k \in Condition /\ p.sev \in Severity /\ p.at \in Nat
  BY DEF Pending
<1>2. row \in Row
  BY <1>1, FreshRowType
<1>3. rows'[id] = row /\ rows[id] = NoRow /\ \A j \in RowId : j # id => rows'[j] = rows[j]
  BY <1>2, InsertEffect DEF EventsInv
<1>4. \A c \in Condition : Open(c)' = IF c = k THEN Open(c) \cup {id} ELSE Open(c)
  BY <1>1, InsertOpen DEF EventsInv
<1>5. row.sev = p.sev /\ row.count = 1 /\ row.acked = FALSE
  BY DEF FreshRow
<1>6. IncidentOf(k)' = new
  <2>1. id \in Open(k)'
    BY <1>1, <1>4
  <2>2. IncidentOf(k)' = [sev |-> rows'[id].sev, count |-> rows'[id].count,
                          acked |-> rows'[id].acked]
    BY <1>1, <2>1, IncidentOfOpenNext DEF EventsInv
  <2>. HIDE DEF row
  <2>. QED
    BY <1>3, <1>5, <2>2
<1>7. \A c \in Condition : c # k => IncidentOf(c)' = IncidentOf(c)
  <2>. SUFFICES ASSUME NEW c \in Condition, c # k PROVE IncidentOf(c)' = IncidentOf(c)
    OBVIOUS
  <2>1. \A j \in Open(c) : rows'[j] = rows[j]
    BY <1>3 DEF Open, Used
  <2>. QED
    BY <1>4, <2>1, IncidentUnchanged
<1>8. inc' = [inc EXCEPT ![k] = new]
  BY <1>1, <1>6, <1>7, OneIncidentChanges
<1>9. inc[k] = NoIncident
  BY <1>1 DEF inc, IncidentOf
<1>10. Abstract!Report(k, p.sev)
  BY <1>8, <1>9 DEF Abstract!Report, inc
<1>. QED
  BY <1>1, <1>10

\* A detector's row has no fingerprint: no incident is concerned.
LEMMA AppendStutters == EventsInv /\ Appends => UNCHANGED inc
<1>. SUFFICES ASSUME EventsInv, NEW k \in Condition, NEW s \in Severity, NEW id \in RowId,
                     Insert(id, FreshRow(k, FALSE, s, now))
              PROVE  UNCHANGED inc
  BY DEF Appends
<1>1. now \in Nat /\ FreshRow(k, FALSE, s, now) \in Row
  BY FreshRowType DEF EventsInv, EventsTypeOK
<1>2. rows[id] = NoRow /\ \A j \in RowId : j # id => rows'[j] = rows[j]
  BY <1>1, InsertEffect DEF EventsInv
<1>3. \A c \in Condition : Open(c)' = Open(c)
  BY <1>1, InsertOpen DEF EventsInv
<1>4. \A c \in Condition : IncidentOf(c)' = IncidentOf(c)
  <2>. SUFFICES ASSUME NEW c \in Condition PROVE IncidentOf(c)' = IncidentOf(c)
    OBVIOUS
  <2>1. \A j \in Open(c) : rows'[j] = rows[j]
    BY <1>2 DEF Open, Used
  <2>. QED
    BY <1>3, <2>1, IncidentUnchanged
<1>. QED
  BY <1>4 DEF inc

\* Acknowledging the open row acknowledges the incident; any other row, nothing.
LEMMA AcknowledgeAcks ==
  ASSUME EventsInv, EventsInv', NEW id \in RowId, Acknowledge(id)
  PROVE  (\E k \in Condition : Abstract!Ack(k)) \/ UNCHANGED inc
<1>1. id \in Used /\ rows[id] \in Row /\ rows \in [RowId -> Row \cup {NoRow}]
  BY UsedRows DEF Acknowledge, EventsInv, EventsTypeOK
<1>2. rows' = [rows EXCEPT ![id].acked = TRUE] /\ ~rows[id].acked
  BY DEF Acknowledge
<1>3. /\ rows'[id] # NoRow
      /\ rows'[id].sev = rows[id].sev /\ rows'[id].count = rows[id].count
      /\ rows'[id].cond = rows[id].cond /\ rows'[id].keyed = rows[id].keyed
      /\ \A j \in RowId : j # id => rows'[j] = rows[j]
  BY <1>1, <1>2, FlagEffect DEF EventsInv
<1>4. rows'[id].resolved = rows[id].resolved /\ rows'[id].acked = TRUE
  BY <1>1, <1>2 DEF Row
<1>5. \A c \in Condition : Open(c)' = Open(c)
  BY <1>1, <1>3, <1>4 DEF Open, Used
<1>6. \A c \in Condition : id \notin Open(c) => IncidentOf(c)' = IncidentOf(c)
  <2>. SUFFICES ASSUME NEW c \in Condition, id \notin Open(c)
                PROVE  IncidentOf(c)' = IncidentOf(c)
    OBVIOUS
  <2>1. \A j \in Open(c) : rows'[j] = rows[j]
    BY <1>3 DEF Open, Used
  <2>. QED
    BY <1>5, <2>1, IncidentUnchanged
<1>7. CASE \A c \in Condition : id \notin Open(c)
  BY <1>6, <1>7 DEF inc
<1>8. ASSUME NEW k \in Condition, id \in Open(k) PROVE Abstract!Ack(k)
  <2>. DEFINE old == [sev |-> rows[id].sev, count |-> rows[id].count,
                      acked |-> rows[id].acked]
  <2>1. IncidentOf(k) = old /\ inc[k] = old
    BY <1>8, IncidentOfOpen DEF EventsInv, inc
  <2>2. old # NoIncident
    BY <1>1, EventsNullAssumption DEF Row
  <2>3. IncidentOf(k)' = [sev |-> rows'[id].sev, count |-> rows'[id].count,
                          acked |-> rows'[id].acked]
    BY <1>5, <1>8, IncidentOfOpenNext DEF EventsInv
  <2>4. IncidentOf(k)' = [sev |-> old.sev, count |-> old.count, acked |-> TRUE]
    BY <1>3, <1>4, <2>3, IncidentFields
  <2>5. \A c \in Condition : c # k => id \notin Open(c)
    BY <1>8 DEF Open
  <2>6. inc' = [inc EXCEPT ![k] =
               [sev |-> old.sev, count |-> old.count, acked |-> TRUE]]
    BY <1>6, <2>4, <2>5, OneIncidentChanges
  <2>7. ~old.acked
    BY <1>2
  <2>. HIDE DEF old
  <2>. QED
    BY <2>1, <2>2, <2>6, <2>7 DEF Abstract!Ack, inc
<1>. QED
  BY <1>7, <1>8

\* Resolving the open row closes the incident; any other row, nothing.
LEMMA ResolveCloses ==
  ASSUME EventsInv, EventsInv', NEW id \in RowId, Resolve(id)
  PROVE  (\E k \in Condition : Abstract!Close(k)) \/ UNCHANGED inc
<1>1. id \in Used /\ rows[id] \in Row /\ rows \in [RowId -> Row \cup {NoRow}]
  BY UsedRows DEF Resolve, EventsInv, EventsTypeOK
<1>2. rows' = [rows EXCEPT ![id].resolved = TRUE]
  BY DEF Resolve
<1>3. \A j \in RowId : j # id => rows'[j] = rows[j]
  BY <1>1, <1>2
<1>4. rows'[id].resolved = TRUE
  BY <1>1, <1>2 DEF Row
<1>5. \A c \in Condition : Open(c)' = Open(c) \ {id}
  BY <1>3, <1>4 DEF Open, Used
<1>6. \A c \in Condition : id \notin Open(c) => IncidentOf(c)' = IncidentOf(c)
  <2>. SUFFICES ASSUME NEW c \in Condition, id \notin Open(c)
                PROVE  IncidentOf(c)' = IncidentOf(c)
    OBVIOUS
  <2>1. \A j \in Open(c) : rows'[j] = rows[j]
    BY <1>3 DEF Open, Used
  <2>2. Open(c)' = Open(c)
    BY <1>5
  <2>. QED
    BY <2>1, <2>2, IncidentUnchanged
<1>7. CASE \A c \in Condition : id \notin Open(c)
  BY <1>6, <1>7 DEF inc
<1>8. ASSUME NEW k \in Condition, id \in Open(k) PROVE Abstract!Close(k)
  <2>. DEFINE old == [sev |-> rows[id].sev, count |-> rows[id].count,
                      acked |-> rows[id].acked]
  <2>1. inc[k] = old
    BY <1>8, IncidentOfOpen DEF EventsInv, inc
  <2>2. old # NoIncident
    BY <1>1, EventsNullAssumption DEF Row
  <2>3. Open(k)' = {}
    BY <1>5, <1>8 DEF EventsInv, OneOpenPerCondition
  <2>4. IncidentOf(k)' = NoIncident
    BY <2>3 DEF IncidentOf
  <2>5. \A c \in Condition : c # k => id \notin Open(c)
    BY <1>8 DEF Open
  <2>6. inc' = [inc EXCEPT ![k] = NoIncident]
    BY <1>6, <2>4, <2>5, OneIncidentChanges
  <2>. QED
    BY <2>1, <2>2, <2>6 DEF Abstract!Close, inc
<1>. QED
  BY <1>7, <1>8

LEMMA IncidentStep ==
  EventsInv /\ EventsInv' /\ [EventsNext]_eventVars => [Abstract!IncidentNext]_inc
<1>. SUFFICES ASSUME EventsInv, EventsInv', [EventsNext]_eventVars
              PROVE  [Abstract!IncidentNext]_inc
  OBVIOUS
<1>. USE DEF Abstract!IncidentNext
<1>1. CASE Bumps
  BY <1>1, BumpReports DEF Bumps
<1>2. CASE Opens
  BY <1>2, InsertReports DEF Opens
<1>3. CASE Appends
  BY <1>3, AppendStutters
<1>4. CASE Flags
  BY <1>4, AcknowledgeAcks, ResolveCloses DEF Flags
<1>5. CASE UNCHANGED rows
  BY <1>5 DEF inc, IncidentOf, Open, Used
<1>. QED
  BY <1>1, <1>2, <1>3, <1>4, <1>5, TableStep DEF EventsInv

(***************************************************************************)
(* The fingerprinted rows implement the incidents readers are promised.    *)
(***************************************************************************)
THEOREM EventsImplementIncidents == EventsSpec => ImplementsIncidents
<1>1. EventsInit => Abstract!IncidentInit
  <2>. SUFFICES ASSUME EventsInit PROVE Abstract!IncidentInit
    OBVIOUS
  <2>1. \A k \in Condition : Open(k) = {}
    BY DEF EventsInit, Open, Used
  <2>. QED
    BY <2>1 DEF Abstract!IncidentInit, IncidentOf
<1>. QED
  BY <1>1, EventsInvariant, IncidentStep, PTL
     DEF EventsSpec, ImplementsIncidents, Abstract!IncidentSpec, inc
=============================================================================
