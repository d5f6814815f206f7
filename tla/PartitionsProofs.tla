-------------------------- MODULE PartitionsProofs --------------------------
(***************************************************************************)
(* How far the partitions of the migration reach, for every calendar of    *)
(* months, every set of tables, cycles and stops.  No tick commits, so the *)
(* inductive invariant pins the partitions to the month of the migration.  *)
(***************************************************************************)
EXTENDS Partitions, FiniteSetTheorems, SequenceTheorems, TLAPS

\* No row is of the future.
RowsInPast == \A t \in Tables : \A d \in rows[t] : d <= day

\* Every table has the partitions of the migration, no more and no fewer.
PartitionsOfMigration ==
  partitioned =>
    \A t \in Tables :
      part[t] = {m \in Months : migrated - 1 <= m /\ m <= migrated + Forward}

\* The migration is past, and what cycles hold was polled since.
SinceMigration ==
  partitioned =>
    /\ migrated <= MonthOf(day)
    /\ \A c \in Cycles : polled[c] # None => migrated <= MonthOf(polled[c])

\* The rows of a partitioned table lie in its partitions.
RowsPlaced ==
  partitioned => \A t \in Tables : \A d \in rows[t] : MonthOf(d) <= migrated + Forward

PartInv ==
  PartTypeOK /\ RowsInPast /\ PartitionsOfMigration /\ SinceMigration /\ RowsPlaced

-----------------------------------------------------------------------------
\* The calendar: months are numbered from one.
LEMMA Calendar ==
  /\ Len(MonthStart) \in Nat \ {0}
  /\ Months = 1 .. Len(MonthStart)
  /\ \A m \in Months : MonthStart[m] \in Nat
  /\ Days \subseteq Nat
<1>1. /\ Len(MonthStart) \in Nat /\ Months = 1 .. Len(MonthStart)
      /\ \A m \in Months : MonthStart[m] \in Nat
  BY PartitionsAssumption, LenProperties, ElementOfSeq DEF Months
<1>2. Len(MonthStart) # 0 /\ 1 \in Months
  BY <1>1, PartitionsAssumption
<1>. QED  BY <1>1, <1>2 DEF Days

(***************************************************************************)
(* MonthOf counts the months that have begun; because they begin in order, *)
(* these are all months up to the one it returns.                          *)
(***************************************************************************)
LEMMA MonthOfFacts ==
  ASSUME NEW d \in Int
  PROVE  /\ MonthOf(d) \in 0 .. Len(MonthStart)
         /\ \A m \in Months : m <= MonthOf(d) <=> MonthStart[m] <= d
<1>. DEFINE B == {m \in Months : MonthStart[m] <= d}
            n == Len(MonthStart)
            k == Cardinality(B)
<1>1. n \in Nat \ {0} /\ Months = 1 .. n /\ \A m \in Months : MonthStart[m] \in Nat
  BY Calendar
<1>2. IsFiniteSet(Months) /\ Cardinality(Months) = n
  BY <1>1, FS_Interval
<1>3. B \subseteq Months /\ IsFiniteSet(B) /\ k \in Nat /\ k <= n
  BY <1>1, <1>2, FS_Subset, FS_CardinalityType
<1>4. \A m \in B : m <= k
  <2>. SUFFICES ASSUME NEW m \in B PROVE m <= k
    OBVIOUS
  <2>1. m \in 1 .. n /\ MonthStart[m] <= d
    BY <1>1
  <2>2. \A i \in 1 .. m : i \in B
    BY <1>1, <2>1, PartitionsAssumption
  <2>3. IsFiniteSet(1 .. m) /\ Cardinality(1 .. m) = m
    BY <2>1, FS_Interval
  <2>. QED  BY <1>3, <2>1, <2>2, <2>3, FS_Subset
<1>5. IsFiniteSet(1 .. k) /\ Cardinality(1 .. k) = k
  BY <1>3, FS_Interval
<1>6. B \subseteq 1 .. k
  BY <1>1, <1>3, <1>4
<1>7. B = 1 .. k
  BY <1>3, <1>5, <1>6, FS_Subset
<1>8. MonthOf(d) = k
  BY DEF MonthOf
<1>. HIDE DEF B, k, n
<1>9. \A m \in Months : m \in B <=> MonthStart[m] <= d
  BY DEF B
<1>10. \A m \in Months : m \in 1 .. k <=> m <= k
  BY <1>1, <1>3
<1>. QED  BY <1>1, <1>3, <1>7, <1>8, <1>9, <1>10 DEF n

\* Later days are in later months, and a day's month is known to the model.
LEMMA MonthOfMonotone ==
  ASSUME NEW d \in Int, NEW e \in Int, d <= e
  PROVE  MonthOf(d) <= MonthOf(e)
<1>1. CASE MonthOf(d) = 0
  BY <1>1, MonthOfFacts, Calendar
<1>2. CASE MonthOf(d) # 0
  <2>1. MonthOf(d) \in Months
    BY <1>2, MonthOfFacts, Calendar
  <2>2. MonthStart[MonthOf(d)] <= d
    BY <2>1, MonthOfFacts, Calendar
  <2>3. MonthStart[MonthOf(d)] <= e
    BY <2>1, <2>2, Calendar
  <2>. QED  BY <2>1, <2>3, MonthOfFacts
<1>. QED  BY <1>1, <1>2

LEMMA MonthOfDay ==
  ASSUME NEW d \in Days
  PROVE  d \in Nat /\ MonthOf(d) \in Months
<1>1. d \in Nat /\ 1 \in Months /\ MonthStart[1] <= d
  BY Calendar DEF Days
<1>. QED  BY <1>1, MonthOfFacts, Calendar

\* The months the type of migrated names are those MonthOf returns.
LEMMA MonthOfMigrated ==
  ASSUME NEW d \in Days
  PROVE  MonthOf(d) \in 0 .. Cardinality(Months)
<1>1. Cardinality(Months) = Len(MonthStart)
  <2>. DEFINE n == Len(MonthStart)
  <2>1. n \in Nat \ {0} /\ Months = 1 .. n
    BY Calendar
  <2>. HIDE DEF n
  <2>2. Cardinality(Months) = n
    BY <2>1, FS_Interval
  <2>. QED  BY <2>2 DEF n
<1>2. d \in Int
  BY Calendar
<1>. QED  BY <1>1, <1>2, MonthOfFacts

\* The numbers the steps compare.
LEMMA Numbers ==
  ASSUME PartTypeOK
  PROVE  /\ Months \subseteq Nat /\ Forward \in Nat /\ MaxLate \in Nat
         /\ migrated \in Nat /\ day \in Days /\ day \in Nat
         /\ \A d \in Days : d \in Nat /\ MonthOf(d) \in Months /\ MonthOf(d) \in Nat
<1>1. Months \subseteq Nat
  BY Calendar
<1>2. \A d \in Days : d \in Nat /\ MonthOf(d) \in Months /\ MonthOf(d) \in Nat
  BY <1>1, MonthOfDay
<1>3. /\ Forward \in Nat /\ MaxLate \in Nat /\ day \in Days
      /\ migrated \in 0 .. Cardinality(Months)
  BY PartitionsAssumption DEF PartTypeOK
<1>. QED  BY <1>1, <1>2, <1>3

-----------------------------------------------------------------------------
\* Before the migration there is nothing to place.
LEMMA PartInit == PartitionsInit => PartInv
<1>. SUFFICES ASSUME PartitionsInit PROVE PartInv
  OBVIOUS
<1>1. 0 \in 0 .. Cardinality(Months)
  BY Calendar, FS_Interval
<1>2. PartTypeOK
  BY <1>1, PartitionsAssumption DEF PartitionsInit, PartTypeOK
<1>3. RowsInPast /\ PartitionsOfMigration /\ SinceMigration /\ RowsPlaced
  BY DEF PartitionsInit, RowsInPast, PartitionsOfMigration, SinceMigration, RowsPlaced
<1>. QED  BY <1>2, <1>3 DEF PartInv

(***************************************************************************)
(* The migration makes the partitions of its month; the rows it copies are *)
(* of the past, so they have one.                                          *)
(***************************************************************************)
LEMMA UpgradeKeepsInv ==
  ASSUME PartInv, Upgrade
  PROVE  PartInv'
<1>. USE DEF Upgrade
<1>1. /\ day' = day /\ polled' = polled /\ tick' = tick /\ up' = up
      /\ partitioned' = TRUE /\ migrated' = MonthOf(day)
      /\ \A c \in Cycles : polled[c] = None
  BY DEF PartInv, PartTypeOK
<1>2. /\ part' \in [Tables -> SUBSET Months] /\ rows' \in [Tables -> SUBSET Days]
      /\ \A t \in Tables : part'[t] = EnsureMonths(day) /\ rows'[t] \subseteq rows[t]
  BY DEF PartInv, PartTypeOK, EnsureMonths
<1>3. PartTypeOK'
  BY <1>1, <1>2, MonthOfMigrated DEF PartInv, PartTypeOK
<1>4. RowsInPast'
  BY <1>1, <1>2 DEF PartInv, RowsInPast
<1>5. PartitionsOfMigration'
  BY <1>1, <1>2 DEF PartitionsOfMigration, EnsureMonths
<1>6. SinceMigration'
  BY <1>1, Numbers DEF PartInv, SinceMigration
<1>7. RowsPlaced'
  <2>. SUFFICES ASSUME NEW t \in Tables, NEW d \in rows[t]
                PROVE  MonthOf(d) <= MonthOf(day) + Forward
    BY <1>1, <1>2 DEF RowsPlaced
  <2>1. d \in Days /\ d <= day
    BY DEF PartInv, PartTypeOK, RowsInPast
  <2>. QED  BY <2>1, Numbers, MonthOfMonotone DEF PartInv
<1>. QED  BY <1>3, <1>4, <1>5, <1>6, <1>7 DEF PartInv

\* A cycle commits its rows only into partitions the tables have.
LEMMA CommitKeepsInv ==
  ASSUME PartInv, NEW c \in Cycles, Commit(c)
  PROVE  PartInv'
<1>. USE DEF Commit
<1>1. /\ polled[c] # None /\ polled[c] \in Days /\ polled[c] <= day
      /\ UNCHANGED <<day, partitioned, part, up, tick, migrated>>
  BY DEF PartInv, PartTypeOK
<1>2. polled' \in [Cycles -> Days \cup {None}]
      /\ \A e \in Cycles : polled'[e] # None => polled'[e] = polled[e]
  BY DEF PartInv, PartTypeOK
<1>3. ASSUME NEW t \in Tables
      PROVE  \A d \in rows'[t] : d \in rows[t] \/ (d = polled[c] /\ Finds(c, t))
  BY <1>1 DEF PartInv, PartTypeOK
<1>4. rows' \in [Tables -> SUBSET Days]
  BY <1>1 DEF PartInv, PartTypeOK
<1>5. PartTypeOK'
  BY <1>1, <1>2, <1>4 DEF PartInv, PartTypeOK
<1>6. RowsInPast'
  BY <1>1, <1>3 DEF PartInv, RowsInPast
<1>7. PartitionsOfMigration' /\ SinceMigration'
  BY <1>1, <1>2 DEF PartInv, PartitionsOfMigration, SinceMigration
<1>8. RowsPlaced'
  BY <1>1, <1>3 DEF PartInv, RowsPlaced, PartitionsOfMigration, Finds
<1>. QED  BY <1>5, <1>6, <1>7, <1>8 DEF PartInv

\* The worker changes nothing anybody else sees.
LEMMA TickKeepsInv ==
  ASSUME PartInv, TickEnsures \/ TickRaises
  PROVE  PartInv'
<1>1. UNCHANGED <<day, partitioned, part, rows, up, polled, migrated>>
  BY DEF TickEnsures, TickRaises
<1>2. tick' # None => tick' \subseteq Months
  BY DEF TickEnsures, TickRaises, EnsureMonths
<1>. QED
  BY <1>1, <1>2 DEF PartInv, PartTypeOK, RowsInPast, PartitionsOfMigration,
                    SinceMigration, RowsPlaced

\* The process, the clock and the polls change no table.
LEMMA OutsideKeepsInv ==
  ASSUME PartInv,
         Downgrade \/ Start \/ Stop \/ DayPasses \/ \E c \in Cycles : Poll(c)
  PROVE  PartInv'
<1>0. PartTypeOK
  BY DEF PartInv
<1>1. /\ rows' = rows /\ migrated' = migrated
      /\ part' \in [Tables -> SUBSET Months]
      /\ partitioned' => partitioned /\ part' = part
      /\ partitioned' \in BOOLEAN /\ up' \in BOOLEAN
  <2>1. CASE Downgrade
    BY <2>1 DEF Downgrade, PartInv, PartTypeOK
  <2>2. CASE Start \/ Stop \/ DayPasses \/ \E c \in Cycles : Poll(c)
    <3>1. UNCHANGED <<rows, migrated, part, partitioned>> /\ up' \in {up, TRUE, FALSE}
      BY <2>2 DEF Start, Stop, DayPasses, Poll
    <3>. QED  BY <1>0, <3>1 DEF PartTypeOK
  <2>. QED  BY <2>1, <2>2
<1>2. day' \in Days /\ day' \in Nat /\ day \in Nat /\ day <= day'
  <2>1. CASE DayPasses
    BY <1>0, <2>1, Numbers, PartitionsAssumption, Calendar DEF DayPasses, Days
  <2>2. CASE Downgrade \/ Start \/ Stop \/ \E c \in Cycles : Poll(c)
    BY <1>0, <2>2, Numbers DEF Downgrade, Start, Stop, Poll
  <2>. QED  BY <2>1, <2>2
<1>3. /\ polled' \in [Cycles -> Days \cup {None}]
      /\ tick' # None => tick' \subseteq Months
      /\ \A c \in Cycles : polled'[c] # None =>
            up' /\ (polled'[c] = polled[c] \/ polled'[c] = day)
  BY <1>0, <1>2 DEF Downgrade, Start, Stop, DayPasses, Poll, PartTypeOK
<1>4. PartTypeOK'
  <2>1. \A c \in Cycles : polled[c] # None => polled[c] \in Nat /\ polled[c] <= day
    BY <1>0, Numbers DEF PartTypeOK
  <2>. QED  BY <1>0, <1>1, <1>2, <1>3, <2>1 DEF PartTypeOK
<1>5. RowsInPast'
  <2>1. \A t \in Tables : \A d \in rows[t] : d \in Nat /\ d <= day
    BY <1>0, Numbers DEF PartInv, PartTypeOK, RowsInPast
  <2>. QED  BY <1>1, <1>2, <2>1 DEF RowsInPast
<1>6. PartitionsOfMigration' /\ RowsPlaced'
  BY <1>1 DEF PartInv, PartitionsOfMigration, RowsPlaced
<1>7. SinceMigration'
  <2>1. MonthOf(day) <= MonthOf(day') /\ MonthOf(day) \in Nat /\ MonthOf(day') \in Nat
    BY <1>0, <1>2, Numbers, MonthOfMonotone
  <2>. QED  BY <1>0, <1>1, <1>3, <2>1, Numbers DEF PartInv, SinceMigration
<1>. QED  BY <1>4, <1>5, <1>6, <1>7 DEF PartInv

\* The step of the invariant, action by action.
LEMMA PartStep == PartInv /\ [PartitionsNext]_vars => PartInv'
<1>. SUFFICES ASSUME PartInv, [PartitionsNext]_vars PROVE PartInv'
  OBVIOUS
<1>1. CASE UNCHANGED vars
  BY <1>1 DEF vars, PartInv, PartTypeOK, RowsInPast, PartitionsOfMigration,
              SinceMigration, RowsPlaced
<1>. QED
  BY <1>1, UpgradeKeepsInv, CommitKeepsInv, TickKeepsInv, OutsideKeepsInv DEF PartitionsNext

(***************************************************************************)
(* The inductive invariant of the partitions.                              *)
(***************************************************************************)
THEOREM PartInvariant == PartitionsSpec => []PartInv
<1>. QED  BY PartInit, PartStep, PTL DEF PartitionsSpec

(***************************************************************************)
(* The types; only a running API holds polled rows, none of the future.    *)
(***************************************************************************)
THEOREM PartTypeHolds == PartitionsSpec => []PartTypeOK
<1>1. PartInv => PartTypeOK
  BY DEF PartInv
<1>. QED  BY <1>1, PartInvariant, PTL

(***************************************************************************)
(* The month rollover: a cycle stores what it polled exactly until Forward *)
(* months after the migration, whatever the worker does (partition_        *)
(* maintenance.py).                                                        *)
(***************************************************************************)
THEOREM HorizonHolds == PartitionsSpec => RowsLandUntilHorizon
<1>. DEFINE Lands(c) ==
       (\A t \in Writes[c] : polled[c] \in rows'[t])
         <=> (partitioned => MonthOf(polled[c]) <= migrated + Forward)
<1>1. ASSUME PartInv, [PartitionsNext]_vars,
             NEW c \in Cycles, polled[c] # None, polled'[c] = None, up'
      PROVE  Lands(c)
  <2>1. Commit(c)
    <3>1. up /\ day # None
      BY <1>1, PartitionsAssumption DEF PartInv, PartTypeOK
    <3>. QED
      BY <1>1, <3>1 DEF PartInv, PartTypeOK, PartitionsNext, vars, Upgrade, Downgrade, Start,
                        Stop, TickEnsures, TickRaises, Poll, Commit, DayPasses
  <2>2. /\ Writes[c] \subseteq Tables /\ Writes[c] # {}
        /\ polled[c] \in Days /\ MonthOf(polled[c]) \in Months
        /\ MonthOf(polled[c]) \in Nat /\ migrated \in Nat /\ Forward \in Nat
    BY <1>1, Numbers, PartitionsAssumption DEF PartInv, PartTypeOK
  <2>3. ASSUME NEW t \in Writes[c], partitioned
        PROVE  /\ MonthOf(polled[c]) \in part[t] <=> MonthOf(polled[c]) <= migrated + Forward
               /\ polled[c] \in rows[t] => MonthOf(polled[c]) <= migrated + Forward
    BY <1>1, <2>2, <2>3 DEF PartInv, PartitionsOfMigration, SinceMigration, RowsPlaced
  <2>4. CASE \A t \in Writes[c] : Finds(c, t)
    <3>1. \A t \in Writes[c] : polled[c] \in rows'[t]
      BY <1>1, <2>1, <2>2, <2>4 DEF Commit
    <3>. QED  BY <2>2, <2>3, <2>4, <3>1 DEF Finds
  <2>5. CASE ~(\A t \in Writes[c] : Finds(c, t))
    <3>1. rows' = rows
      BY <2>1, <2>5 DEF Commit
    <3>. QED  BY <2>2, <2>3, <2>5, <3>1 DEF Finds
  <2>. QED  BY <2>4, <2>5
<1>2. PartInv /\ [PartitionsNext]_vars =>
        [\A c \in Cycles : polled[c] # None /\ polled'[c] = None /\ up' => Lands(c)]_vars
  BY <1>1
<1>. QED  BY <1>2, PartInvariant, PTL DEF PartitionsSpec, RowsLandUntilHorizon

(***************************************************************************)
(* Only an upgrade deletes rows, and only rows of months before the        *)
(* previous one (0007_data_scale.py); no retention is ever applied.        *)
(***************************************************************************)
THEOREM RowsKeptHolds == PartitionsSpec => RowsKept
<1>. DEFINE Kept ==
       \A t \in Tables : \A d \in rows[t] \ rows'[t] :
         partitioned' /\ ~partitioned /\ MonthOf(d) < MonthOf(day) - 1
<1>1. ASSUME PartInv, [PartitionsNext]_vars PROVE [Kept]_vars
  <2>. SUFFICES ASSUME NEW t \in Tables, NEW d \in rows[t] \ rows'[t]
                PROVE  partitioned' /\ ~partitioned /\ MonthOf(d) < MonthOf(day) - 1
    OBVIOUS
  <2>1. CASE Upgrade
    <3>1. d \in Days /\ ~(MonthOf(d) >= MonthOf(day) - 1)
      BY <1>1, <2>1 DEF Upgrade, PartInv, PartTypeOK
    <3>2. MonthOf(d) \in Nat /\ MonthOf(day) \in Nat
      BY <1>1, <3>1, Numbers DEF PartInv
    <3>. QED  BY <2>1, <3>1, <3>2 DEF Upgrade
  <2>2. CASE \E c \in Cycles : Commit(c)
    BY <1>1, <2>2 DEF Commit, PartInv, PartTypeOK
  <2>. QED
    BY <1>1, <2>1, <2>2
    DEF PartitionsNext, vars, Downgrade, Start, Stop, TickEnsures, TickRaises, Poll, DayPasses
<1>. QED  BY <1>1, PartInvariant, PTL DEF PartitionsSpec, RowsKept
=============================================================================
