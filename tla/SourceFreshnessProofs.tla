----------------------- MODULE SourceFreshnessProofs -----------------------
(***************************************************************************)
(* What a freshness scan may write, for every set of sources, every        *)
(* threshold and multiplier, however heartbeats, failures and flushes      *)
(* interleave.  Only a scan's snapshot links its writes to the rows, so    *)
(* the inductive invariant says what the snapshot still knows.             *)
(***************************************************************************)
EXTENDS SourceFreshness, TLAPS

\* A scan without its snapshot knows no row and has noted nothing.
UnreadKnowsNothing ==
  scan # Idle /\ ~scan.read => scan.seen = Settled /\ scan.dirty = Settled

\* What the scan read of a row still holds, or a heartbeat landed after it read.
SnapshotCurrent ==
  scan # Idle => \A s \in Left :
    /\ beat[s] # Never
    /\ beat[s] = scan.seen[s].beat \/ s \in landed

\* The changes it has noted are right for the row as it was read, none says silent.
ChangesCurrent ==
  scan # Idle => \A s \in DOMAIN scan.dirty :
    /\ beat[s] # Never /\ scan.dirty[s] # "silent"
    /\ scan.dirty[s] = Classify(scan.at, beat[s], s) \/ s \in landed

FreshInv == FreshTypeOK /\ UnreadKnowsNothing /\ SnapshotCurrent /\ ChangesCurrent

-----------------------------------------------------------------------------
\* The two limits of a source are positive.
LEMMA LimitsPositive ==
  ASSUME NEW s \in Source
  PROVE  /\ Threshold[s] \in Nat \ {0}
         /\ Threshold[s] * Multiplier \in Nat \ {0}
<1>1. Threshold[s] \in Nat \ {0} /\ Multiplier \in Nat \ {0}
  BY FreshnessAssumption
<1>2. \A a, b \in Nat \ {0} : a * b \in Nat \ {0}
  OBVIOUS
<1>. QED  BY <1>1, <1>2

\* What classify says of a row, and that a row silent at one time stays so.
LEMMA ClassifyFacts ==
  ASSUME NEW s \in Source, NEW t \in Nat, NEW last \in Nat
  PROVE  /\ Classify(t, last, s) \in Status
         /\ Classify(t, t, s) = "fresh"
         /\ \A u \in Nat : t <= u /\ Classify(t, last, s) = "silent"
                             => Classify(u, last, s) = "silent"
<1>. DEFINE T == Threshold[s]
            P == Threshold[s] * Multiplier
<1>1. T \in Nat \ {0} /\ P \in Nat \ {0}
  BY LimitsPositive
<1>2. \A u, l \in Nat :
        Classify(u, l, s) = IF u >= l + P THEN "silent"
                            ELSE IF u >= l + T THEN "stale" ELSE "fresh"
  BY <1>1 DEF Classify
<1>. HIDE DEF T, P
<1>. QED  BY <1>1, <1>2 DEF Status

(***************************************************************************)
(* The row a scan looks at: its verdict is classify of the heartbeat it    *)
(* read, and what it has noted then is still right for every noted row.    *)
(***************************************************************************)
LEMMA RowFacts ==
  ASSUME FreshInv, scan # Idle, NEW s \in Left
  PROVE  /\ s \in Source /\ beat[s] \in Nat
         /\ scan.at \in Nat /\ scan.at <= now
         /\ Verdict(s) \in Status
         /\ Verdict(s) = Classify(scan.at, beat[s], s) \/ s \in landed
         /\ DOMAIN DirtyAfter(s) \subseteq DOMAIN scan.dirty \cup {s}
         /\ \A x \in DOMAIN DirtyAfter(s) :
               /\ x \in Source /\ beat[x] # Never
               /\ DirtyAfter(s)[x] \in Status
               /\ DirtyAfter(s)[x] = Classify(scan.at, beat[x], x) \/ x \in landed
               /\ DirtyAfter(s)[x] = "silent" => x = s /\ Verdict(s) = "silent"
<1>1. /\ s \in Source /\ scan.at \in Nat /\ scan.at <= now /\ now \in Nat
      /\ scan.seen[s] \in Seen /\ beat[s] \in Nat
  BY DEF FreshInv, FreshTypeOK, SnapshotCurrent, Left
<1>2. Verdict(s) \in Status
  BY <1>1, ClassifyFacts DEF Verdict, Seen
<1>3. Verdict(s) = Classify(scan.at, beat[s], s) \/ s \in landed
  BY DEF FreshInv, SnapshotCurrent, Verdict
<1>4. CASE Verdict(s) = scan.seen[s].status
  BY <1>1, <1>2, <1>3, <1>4
  DEF DirtyAfter, FreshInv, FreshTypeOK, ChangesCurrent
<1>5. CASE Verdict(s) # scan.seen[s].status
  <2>1. DirtyAfter(s) = With(scan.dirty, s, Verdict(s))
    BY <1>5 DEF DirtyAfter
  <2>2. /\ DOMAIN DirtyAfter(s) = DOMAIN scan.dirty \cup {s}
        /\ \A x \in DOMAIN DirtyAfter(s) :
              DirtyAfter(s)[x] = IF x = s THEN Verdict(s) ELSE scan.dirty[x]
    BY <2>1 DEF With
  <2>3. ASSUME NEW x \in DOMAIN DirtyAfter(s)
        PROVE  /\ x \in Source /\ beat[x] # Never
               /\ DirtyAfter(s)[x] \in Status
               /\ DirtyAfter(s)[x] = Classify(scan.at, beat[x], x) \/ x \in landed
               /\ DirtyAfter(s)[x] = "silent" => x = s /\ Verdict(s) = "silent"
    <3>1. CASE x = s
      BY <1>1, <1>2, <1>3, <2>2, <3>1, FreshnessAssumption
    <3>2. CASE x # s
      <4>1. x \in DOMAIN scan.dirty /\ DirtyAfter(s)[x] = scan.dirty[x]
        BY <2>2, <3>2
      <4>. QED
        BY <4>1 DEF FreshInv, FreshTypeOK, ChangesCurrent
    <3>. QED  BY <3>1, <3>2
  <2>. QED  BY <1>1, <1>2, <1>3, <2>2, <2>3
<1>. QED  BY <1>4, <1>5

\* The invariant holds at the start: nothing has a row, no scan runs.
LEMMA FreshInitInv == FreshInit => FreshInv
<1>. SUFFICES ASSUME FreshInit PROVE FreshInv
  OBVIOUS
<1>1. FreshTypeOK
  BY DEF FreshInit, FreshTypeOK, Status
<1>2. UnreadKnowsNothing /\ SnapshotCurrent /\ ChangesCurrent
  BY DEF FreshInit, UnreadKnowsNothing, SnapshotCurrent, ChangesCurrent
<1>. QED  BY <1>1, <1>2 DEF FreshInv

(***************************************************************************)
(* A heartbeat that lands while a scan has its snapshot is noted as landed; *)
(* before, the scan knows no row it could contradict.                      *)
(***************************************************************************)
LEMMA LandKeepsInv ==
  ASSUME FreshInv, NEW s \in Source, Land(s)
  PROVE  FreshInv'
<1>. USE DEF Land, FreshInv
<1>1. FreshTypeOK'
  BY DEF FreshTypeOK, Status
<1>2. /\ scan' = scan /\ landed \subseteq landed'
      /\ \A x \in Source : beat'[x] = beat[x] \/ (beat'[x] # Never /\ x = s)
      /\ Reading => s \in landed'
  BY DEF FreshTypeOK
<1>3. scan # Idle /\ (Left # {} \/ DOMAIN scan.dirty # {}) => Reading
  BY DEF UnreadKnowsNothing, Reading, Left, Settled, FreshTypeOK
<1>4. UnreadKnowsNothing'
  BY <1>2 DEF UnreadKnowsNothing, Settled
<1>5. SnapshotCurrent'
  BY <1>2, <1>3 DEF SnapshotCurrent, Left, FreshTypeOK
<1>6. ChangesCurrent'
  <2>. SUFFICES ASSUME scan # Idle, NEW x \in DOMAIN scan.dirty
       PROVE  /\ beat'[x] # Never /\ scan.dirty[x] # "silent"
              /\ scan.dirty[x] = Classify(scan.at, beat'[x], x) \/ x \in landed'
    BY <1>2 DEF ChangesCurrent, Classify
  <2>. QED
    BY <1>2, <1>3 DEF ChangesCurrent, FreshTypeOK
<1>. QED  BY <1>1, <1>4, <1>5, <1>6

\* Looking at one row keeps what the scan knows of the others.
LEMMA RowKeepsInv ==
  ASSUME FreshInv, NEW s \in Source, ScanRow(s)
  PROVE  FreshInv'
<1>1. /\ scan # Idle /\ s \in Left
      /\ UNCHANGED <<now, ingested, stamped, beat, landed, failures>>
  BY DEF ScanRow, Reading
<1>2. /\ DOMAIN scan'.seen = DOMAIN scan.seen \ {s}
      /\ \A x \in DOMAIN scan'.seen : scan'.seen[x] = scan.seen[x]
      /\ scan'.at = scan.at /\ scan'.read = TRUE
  BY DEF ScanRow, Reading, Without
<1>3. \/ scan'.dirty = Settled /\ open' = open \cup {s} /\ status' = Flushed(DirtyAfter(s))
      \/ /\ scan'.dirty = DirtyAfter(s) /\ Verdict(s) # "silent"
         /\ status' = status /\ open' = open
  BY DEF ScanRow, Reading
<1>4. /\ DOMAIN scan'.dirty \subseteq Source
      /\ \A x \in DOMAIN scan'.dirty :
           /\ beat[x] # Never
           /\ scan'.dirty[x] \in Status
           /\ scan'.dirty[x] = Classify(scan.at, beat[x], x) \/ x \in landed
           /\ scan'.dirty[x] # "silent"
  BY <1>1, <1>3, RowFacts DEF Settled
<1>5. status' \in [Source -> Status]
  <2>1. \A x \in DOMAIN DirtyAfter(s) : DirtyAfter(s)[x] \in Status
    BY <1>1, RowFacts
  <2>2. Flushed(DirtyAfter(s)) \in [Source -> Status]
    BY <2>1 DEF Flushed, FreshInv, FreshTypeOK
  <2>. QED  BY <1>3, <2>2 DEF FreshInv, FreshTypeOK
<1>6. FreshTypeOK'
  <2>1. /\ now' \in Nat /\ ingested' \in [Source -> Nat \cup {Never}]
        /\ beat' \in [Source -> Nat \cup {Never}]
        /\ stamped' \in [Source -> Nat \cup {Never}]
        /\ open' \subseteq Source /\ landed' \subseteq Source /\ failures' \in Nat
    BY <1>1, <1>3 DEF FreshInv, FreshTypeOK
  <2>2. /\ scan'.at \in 0..now' /\ scan'.read \in BOOLEAN
        /\ DOMAIN scan'.seen \subseteq Source
        /\ \A x \in DOMAIN scan'.seen : scan'.seen[x] \in Seen
    BY <1>1, <1>2 DEF FreshInv, FreshTypeOK
  <2>. QED  BY <1>4, <1>5, <2>1, <2>2 DEF FreshTypeOK
<1>7. UnreadKnowsNothing'
  BY <1>2 DEF UnreadKnowsNothing
<1>8. SnapshotCurrent'
  <2>. SUFFICES ASSUME NEW x \in DOMAIN scan'.seen
       PROVE  /\ beat[x] # Never
              /\ beat[x] = scan'.seen[x].beat \/ x \in landed
    BY <1>1 DEF SnapshotCurrent, Left
  <2>. QED  BY <1>1, <1>2 DEF FreshInv, SnapshotCurrent, Left
<1>9. ChangesCurrent'
  BY <1>1, <1>2, <1>4 DEF ChangesCurrent, Classify
<1>. QED  BY <1>6, <1>7, <1>8, <1>9 DEF FreshInv

\* A scan begins with nothing, and reads what is in the table.
LEMMA ReadKeepsInv ==
  ASSUME FreshInv, ScanBegin \/ ScanRead
  PROVE  FreshInv'
<1>1. CASE ScanBegin
  BY <1>1 DEF ScanBegin, FreshInv, FreshTypeOK, UnreadKnowsNothing, SnapshotCurrent,
              ChangesCurrent, Settled, Left
<1>2. CASE ScanRead
  <2>. USE <1>2 DEF ScanRead, FreshInv
  <2>1. /\ UNCHANGED <<now, ingested, stamped, beat, status, open, landed, failures>>
        /\ scan # Idle /\ scan.at \in 0..now /\ scan.dirty = Settled
        /\ scan'.at = scan.at /\ scan'.read /\ scan'.dirty = scan.dirty
        /\ DOMAIN scan'.seen = Tracked
        /\ \A x \in Tracked : scan'.seen[x] = [beat |-> beat[x], status |-> status[x]]
    BY DEF FreshTypeOK, UnreadKnowsNothing
  <2>2. \A x \in Tracked : beat[x] \in Nat /\ x \in Source /\ status[x] \in Status
    BY DEF Tracked, FreshTypeOK
  <2>3. scan'.read = TRUE
    BY DEF FreshTypeOK
  <2>4. FreshTypeOK'
    BY <2>1, <2>2, <2>3 DEF FreshTypeOK, Seen, Settled
  <2>5. UnreadKnowsNothing'
    BY <2>3 DEF UnreadKnowsNothing
  <2>6. SnapshotCurrent'
    BY <2>1, <2>2, FreshnessAssumption DEF SnapshotCurrent, Left
  <2>7. ChangesCurrent'
    BY <2>1 DEF ChangesCurrent, Settled
  <2>. QED  BY <2>4, <2>5, <2>6, <2>7
<1>. QED  BY <1>1, <1>2

\* The step of the invariant, action by action.
LEMMA FreshStepInv == FreshInv /\ [FreshNext]_freshVars => FreshInv'
<1>. SUFFICES ASSUME FreshInv, [FreshNext]_freshVars PROVE FreshInv'
  OBVIOUS
<1>1. ASSUME NEW s \in Source, Ingest(s) \/ HeartbeatFails(s) PROVE FreshInv'
  <2>1. FreshTypeOK'
    BY <1>1 DEF Ingest, HeartbeatFails, FreshInv, FreshTypeOK
  <2>2. UNCHANGED <<beat, status, scan, landed>>
    BY <1>1 DEF Ingest, HeartbeatFails
  <2>. QED
    BY <2>1, <2>2 DEF FreshInv, UnreadKnowsNothing, SnapshotCurrent, ChangesCurrent, Left,
                      Settled, Classify
<1>2. ASSUME NEW s \in Source, Land(s) PROVE FreshInv'
  BY <1>2, LandKeepsInv
<1>3. ASSUME NEW s \in Source, ScanRow(s) PROVE FreshInv'
  BY <1>3, RowKeepsInv
<1>4. ASSUME NEW s \in Source, ResolveEvent(s) PROVE FreshInv'
  BY <1>4 DEF ResolveEvent, FreshInv, FreshTypeOK, UnreadKnowsNothing, SnapshotCurrent,
              ChangesCurrent, Left, Settled, Classify
<1>5. CASE ScanBegin \/ ScanRead
  BY <1>5, ReadKeepsInv
<1>6. CASE ScanFinish \/ ScanFails
  <2>1. status' \in [Source -> Status]
    BY <1>6 DEF ScanFinish, ScanFails, Reading, Flushed, FreshInv, FreshTypeOK
  <2>2. /\ scan' = Idle /\ failures' \in Nat /\ landed' = {}
        /\ UNCHANGED <<now, ingested, stamped, beat, open>>
    BY <1>6 DEF ScanFinish, ScanFails, FreshInv, FreshTypeOK
  <2>. QED
    BY <2>1, <2>2 DEF FreshInv, FreshTypeOK, UnreadKnowsNothing, SnapshotCurrent, ChangesCurrent
<1>7. CASE ClockTick
  BY <1>7 DEF ClockTick, FreshInv, FreshTypeOK, UnreadKnowsNothing, SnapshotCurrent,
              ChangesCurrent, Left, Settled, Classify
<1>8. CASE UNCHANGED freshVars
  BY <1>8 DEF freshVars, FreshInv, FreshTypeOK, UnreadKnowsNothing, SnapshotCurrent,
              ChangesCurrent, Left, Settled, Classify
<1>. QED
  BY <1>1, <1>2, <1>3, <1>4, <1>5, <1>6, <1>7, <1>8 DEF FreshNext

(***************************************************************************)
(* The inductive invariant, and with it the types.                         *)
(***************************************************************************)
THEOREM FreshInvariant == FreshSpec => []FreshInv
<1>. QED  BY FreshInitInv, FreshStepInv, PTL DEF FreshSpec

\* The types of the freshness scanner's state.
THEOREM FreshTypeHolds == FreshSpec => []FreshTypeOK
<1>1. FreshInv => FreshTypeOK
  BY DEF FreshInv
<1>. QED  BY <1>1, FreshInvariant, PTL

(***************************************************************************)
(* A scan alarms about a source only if it is silent now or a heartbeat of *)
(* it landed after the scan's snapshot (services/source_freshness.py).     *)
(***************************************************************************)
THEOREM AlarmsHold == FreshSpec => AlarmsExplained
<1>1. FreshInv /\ [FreshNext]_freshVars =>
        [\A s \in open' \ open : SilentNow(s) \/ s \in landed]_freshVars
  <2>. SUFFICES ASSUME FreshInv, [FreshNext]_freshVars, NEW s \in open' \ open
                PROVE  SilentNow(s) \/ s \in landed
    OBVIOUS
  <2>1. ScanRow(s) /\ Verdict(s) = "silent"
    BY DEF FreshNext, freshVars, Ingest, Land, HeartbeatFails, ScanRow, ResolveEvent,
           ScanBegin, ScanRead, ScanFinish, ScanFails, ClockTick
  <2>2. scan # Idle /\ s \in Left /\ now \in Nat
    BY <2>1 DEF ScanRow, Reading, FreshInv, FreshTypeOK
  <2>3. /\ s \in Source /\ beat[s] \in Nat /\ scan.at \in Nat /\ scan.at <= now
        /\ Verdict(s) = Classify(scan.at, beat[s], s) \/ s \in landed
    BY <2>2, RowFacts
  <2>. QED
    BY <2>1, <2>2, <2>3, ClassifyFacts, FreshnessAssumption DEF SilentNow
<1>. QED  BY <1>1, FreshInvariant, PTL DEF FreshSpec, AlarmsExplained

(***************************************************************************)
(* What a scan writes into the status column is what classify says at the  *)
(* scan's clock, unless a heartbeat landed after its snapshot: the one way *)
(* a scan can be out of date (services/source_freshness.py).               *)
(***************************************************************************)
THEOREM WrongStatusHolds == FreshSpec => WrongStatusExplained
<1>. DEFINE Explained ==
       scan # Idle /\ UNCHANGED stamped =>
         \A s \in Tracked \ landed :
           status'[s] \in {status[s], Classify(scan.at, beat[s], s)}
<1>1. ASSUME FreshInv, [FreshNext]_freshVars PROVE [Explained]_freshVars
  <2>. SUFFICES ASSUME scan # Idle, UNCHANGED stamped, NEW s \in Tracked, s \notin landed,
                       status'[s] # status[s]
                PROVE  status'[s] = Classify(scan.at, beat[s], s)
    OBVIOUS
  <2>1. s \in Source /\ beat[s] \in Nat /\ status \in [Source -> Status]
    BY <1>1 DEF Tracked, FreshInv, FreshTypeOK
  <2>2. ASSUME NEW r \in Source, Land(r) PROVE FALSE
    BY <1>1, <2>2 DEF Land, FreshInv, FreshTypeOK
  <2>3. ASSUME NEW r \in Source, ScanRow(r) PROVE status'[s] = Classify(scan.at, beat[s], s)
    <3>1. /\ status'[s] = DirtyAfter(r)[s] /\ s \in DOMAIN DirtyAfter(r)
          /\ r \in Left
      BY <2>1, <2>3 DEF ScanRow, Reading, Flushed
    <3>. QED  BY <1>1, <3>1, RowFacts
  <2>4. CASE ScanFinish
    <3>1. status'[s] = scan.dirty[s] /\ s \in DOMAIN scan.dirty
      BY <2>1, <2>4 DEF ScanFinish, Flushed
    <3>. QED  BY <1>1, <3>1 DEF FreshInv, ChangesCurrent
  <2>. QED
    BY <1>1, <2>2, <2>3, <2>4
    DEF FreshNext, freshVars, Ingest, HeartbeatFails, ResolveEvent, ScanBegin, ScanRead,
        ScanFails, ClockTick
<1>. QED  BY <1>1, FreshInvariant, PTL DEF FreshSpec, WrongStatusExplained

(***************************************************************************)
(* A source is marked silent only in the commit that opens its event: the  *)
(* one write that reaches the database alone, the last commit, marks none. *)
(***************************************************************************)
THEOREM SilentMarkHolds == FreshSpec => SilentMarkHasEvent
<1>. DEFINE HasEvent ==
       \A s \in Source :
         status'[s] = "silent" /\ status[s] # "silent" => s \in open'
<1>1. ASSUME FreshInv, [FreshNext]_freshVars PROVE [HasEvent]_freshVars
  <2>. SUFFICES ASSUME NEW s \in Source, status'[s] = "silent", status[s] # "silent"
                PROVE  s \in open'
    OBVIOUS
  <2>1. ASSUME NEW r \in Source, Land(r) PROVE FALSE
    BY <1>1, <2>1 DEF Land, FreshInv, FreshTypeOK
  <2>2. ASSUME NEW r \in Source, ScanRow(r) PROVE s \in open'
    <3>1. /\ DirtyAfter(r)[s] = "silent" /\ s \in DOMAIN DirtyAfter(r)
          /\ scan # Idle /\ r \in Left
      BY <2>2 DEF ScanRow, Reading, Flushed
    <3>2. s = r /\ Verdict(r) = "silent"
      BY <1>1, <3>1, RowFacts
    <3>. QED  BY <2>2, <3>2 DEF ScanRow, Reading
  <2>3. CASE ScanFinish
    BY <1>1, <2>3 DEF ScanFinish, Reading, Flushed, FreshInv, ChangesCurrent
  <2>. QED
    BY <1>1, <2>1, <2>2, <2>3
    DEF FreshNext, freshVars, Ingest, HeartbeatFails, ResolveEvent, ScanBegin, ScanRead,
        ScanFails, ClockTick
<1>. QED  BY <1>1, FreshInvariant, PTL DEF FreshSpec, SilentMarkHasEvent

-----------------------------------------------------------------------------
(***************************************************************************)
(* A row without a heartbeat since the snapshot has not changed since it   *)
(* was read.  Before the scan looks at it the snapshot equals the row and  *)
(* nothing is noted for it; afterwards what the next flush leaves in the   *)
(* column is what classify says.                                           *)
(***************************************************************************)
SeenRight ==
  Reading => \A s \in Tracked \ landed :
    /\ s \in Left => /\ scan.seen[s] = [beat |-> beat[s], status |-> status[s]]
                     /\ s \notin DOMAIN scan.dirty
    /\ s \notin Left => Flushed(scan.dirty)[s] = Classify(scan.at, beat[s], s)

\* A row of the scan leaves what is noted or flushed right, for itself and the others.
LEMMA RowKeepsSeen ==
  ASSUME FreshInv, SeenRight, NEW r \in Source, ScanRow(r)
  PROVE  SeenRight'
<1>1. Reading /\ r \in Left /\ beat' = beat /\ landed' = landed
  BY DEF ScanRow, Reading
<1>2. /\ scan'.at = scan.at /\ DOMAIN scan'.seen = DOMAIN scan.seen \ {r}
      /\ \A x \in DOMAIN scan'.seen : scan'.seen[x] = scan.seen[x]
  BY DEF ScanRow, Reading, Without
<1>3. \/ scan'.dirty = Settled /\ status' = Flushed(DirtyAfter(r))
      \/ scan'.dirty = DirtyAfter(r) /\ status' = status
  BY DEF ScanRow, Reading
<1>4. \A s \in Source :
        [x \in Source |-> IF x \in DOMAIN scan'.dirty THEN scan'.dirty[x] ELSE status'[x]][s]
          = Flushed(DirtyAfter(r))[s]
  BY <1>3 DEF Flushed, Settled
<1>5. /\ \A x \in DOMAIN DirtyAfter(r) \ {r} :
            x \in DOMAIN scan.dirty /\ DirtyAfter(r)[x] = scan.dirty[x]
      /\ DOMAIN scan.dirty \subseteq DOMAIN DirtyAfter(r)
  BY DEF DirtyAfter, With
<1>. SUFFICES ASSUME NEW s \in Tracked \ landed
     PROVE  /\ s \in DOMAIN scan'.seen =>
                 /\ scan'.seen[s] = [beat |-> beat[s], status |-> status'[s]]
                 /\ s \notin DOMAIN scan'.dirty
            /\ s \notin DOMAIN scan'.seen =>
                 Flushed(scan.dirty)'[s] = Classify(scan.at, beat[s], s)
  BY <1>1, <1>2 DEF SeenRight, Tracked, Left, Classify
<1>6. s \in Source /\ Flushed(scan.dirty)'[s] = Flushed(DirtyAfter(r))[s]
  BY <1>4 DEF Tracked, Flushed
<1>7. CASE s \in DOMAIN scan'.seen
  <2>1. s # r /\ s \in Left
    BY <1>2, <1>7 DEF Left
  <2>2. scan.seen[s] = [beat |-> beat[s], status |-> status[s]] /\ s \notin DOMAIN scan.dirty
    BY <1>1, <2>1 DEF SeenRight
  <2>3. s \notin DOMAIN DirtyAfter(r)
    BY <1>5, <2>1, <2>2
  <2>4. status'[s] = status[s] /\ s \notin DOMAIN scan'.dirty
    BY <1>3, <1>6, <2>3 DEF Flushed, Settled
  <2>. QED  BY <1>2, <1>7, <2>2, <2>4
<1>8. CASE s = r
  <2>1. scan.seen[s] = [beat |-> beat[s], status |-> status[s]] /\ s \notin DOMAIN scan.dirty
    BY <1>1, <1>1, <1>8 DEF SeenRight
  <2>2. Verdict(s) = Classify(scan.at, beat[s], s)
    BY <2>1 DEF Verdict
  <2>3. Flushed(DirtyAfter(s))[s] = Verdict(s)
    <3>1. CASE Verdict(s) = scan.seen[s].status
      BY <1>6, <2>1, <3>1 DEF DirtyAfter, Flushed
    <3>2. CASE Verdict(s) # scan.seen[s].status
      BY <1>6, <3>2 DEF DirtyAfter, Flushed, With
    <3>. QED  BY <3>1, <3>2
  <2>. QED  BY <1>2, <1>6, <1>8, <2>2, <2>3
<1>9. CASE s # r /\ s \notin DOMAIN scan'.seen
  <2>1. s \notin Left
    BY <1>2, <1>9 DEF Left
  <2>2. Flushed(scan.dirty)[s] = Classify(scan.at, beat[s], s)
    BY <1>1, <2>1 DEF SeenRight
  <2>3. Flushed(DirtyAfter(r))[s] = Flushed(scan.dirty)[s]
    BY <1>5, <1>6, <1>9 DEF Flushed
  <2>. QED  BY <1>6, <1>9, <2>2, <2>3
<1>. QED  BY <1>7, <1>8, <1>9

\* No other step disturbs it: a heartbeat in between is noted as landed.
LEMMA SeenStep == FreshInv /\ SeenRight /\ [FreshNext]_freshVars => SeenRight'
<1>. SUFFICES ASSUME FreshInv, SeenRight, [FreshNext]_freshVars PROVE SeenRight'
  OBVIOUS
<1>1. ASSUME NEW r \in Source, Land(r) PROVE SeenRight'
  <2>1. /\ scan' = scan /\ Reading' = Reading
        /\ \A x \in Source \ {r} : beat'[x] = beat[x] /\ status'[x] = status[x]
    BY <1>1 DEF Land, FreshInv, FreshTypeOK, Reading
  <2>2. SUFFICES ASSUME Reading, NEW s \in Source, beat'[s] # Never, s \notin landed'
        PROVE  /\ s \in Left => /\ scan.seen[s] = [beat |-> beat'[s], status |-> status'[s]]
                                /\ s \notin DOMAIN scan.dirty
               /\ s \notin Left => Flushed(scan.dirty)'[s] = Classify(scan.at, beat'[s], s)
    BY <2>1 DEF SeenRight, Tracked, Left, Classify
  <2>3. s # r /\ s \notin landed
    BY <1>1, <2>2 DEF Land
  <2>4. beat'[s] = beat[s] /\ status'[s] = status[s]
    BY <2>1, <2>3
  <2>5. Flushed(scan.dirty)'[s] = Flushed(scan.dirty)[s]
    BY <2>1, <2>4 DEF Flushed
  <2>. QED  BY <2>2, <2>3, <2>4, <2>5 DEF SeenRight, Tracked
<1>2. ASSUME NEW r \in Source, ScanRow(r) PROVE SeenRight'
  BY <1>2, RowKeepsSeen
<1>3. CASE ScanRead
  <2>1. /\ UNCHANGED <<beat, status, landed>> /\ scan.dirty = Settled
        /\ scan'.dirty = scan.dirty /\ DOMAIN scan'.seen = Tracked
        /\ \A x \in Tracked : scan'.seen[x] = [beat |-> beat[x], status |-> status[x]]
    BY <1>3 DEF ScanRead, FreshInv, FreshTypeOK, UnreadKnowsNothing
  <2>. QED  BY <2>1 DEF SeenRight, Left, Settled, Tracked
<1>4. CASE ScanBegin \/ ScanFinish \/ ScanFails
  BY <1>4 DEF ScanBegin, ScanFinish, ScanFails, SeenRight, Reading
<1>5. ASSUME UNCHANGED <<beat, status, scan, landed>> PROVE SeenRight'
  BY <1>5 DEF SeenRight, Reading, Tracked, Left, Flushed, Classify
<1>6. (\E s \in Source : Ingest(s) \/ HeartbeatFails(s) \/ ResolveEvent(s))
        \/ ClockTick \/ UNCHANGED freshVars => UNCHANGED <<beat, status, scan, landed>>
  BY DEF Ingest, HeartbeatFails, ResolveEvent, ClockTick, freshVars
<1>. QED  BY <1>1, <1>2, <1>3, <1>4, <1>5, <1>6 DEF FreshNext

(***************************************************************************)
(* A scan that ends leaves the status of every source without a heartbeat  *)
(* since its snapshot as classify says, whatever flushes, late heartbeats  *)
(* and failed scans came before: the safety half of StatusRepaired         *)
(* (services/source_freshness.py).                                         *)
(***************************************************************************)
THEOREM ScanRepairsHolds == FreshSpec => ScanRepairs
<1>. DEFINE Repairs ==
       ScanFinish => \A s \in Tracked \ landed : status'[s] = Classify(scan.at, beat[s], s)
<1>1. FreshInit => SeenRight
  BY DEF FreshInit, SeenRight, Reading
<1>2. FreshSpec => []SeenRight
  BY <1>1, SeenStep, FreshInvariant, PTL DEF FreshSpec
<1>3. ASSUME SeenRight, ScanFinish, NEW s \in Tracked \ landed
      PROVE  status'[s] = Classify(scan.at, beat[s], s)
  BY <1>3 DEF SeenRight, ScanFinish
<1>4. SeenRight => [Repairs]_freshVars
  BY <1>3
<1>. QED  BY <1>2, <1>4, PTL DEF ScanRepairs
=============================================================================
