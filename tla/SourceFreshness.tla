-------------------------- MODULE SourceFreshness --------------------------
(***************************************************************************)
(* Heartbeats of ingest sources and the scanner that turns silence into    *)
(* collector_silent events (services/source_freshness.py,                  *)
(* services/source_freshness_loop.py).                                     *)
(*                                                                         *)
(* A heartbeat takes its time stamp first and lands later, when its upsert *)
(* commits.  A scan takes its clock, then reads all rows, then works       *)
(* through that snapshot (the sessions do not expire on commit) while      *)
(* heartbeats go on.                                                       *)
(* Its status changes stay in the session until an event is recorded,      *)
(* which flushes and commits them all, or the scan ends.  The event table  *)
(* is seen as module Incidents: a source's incident is open or it is not.  *)
(*                                                                         *)
(* No module of the repository calls record_heartbeat.  The sources of the *)
(* constant Reporting are those whose ingest calls it, as its docstring    *)
(* asks; the others ingest without.                                        *)
(***************************************************************************)
EXTENDS Naturals

CONSTANTS
  Source,      \* (tenant, kind, device)
  Reporting,   \* the sources whose ingest calls record_heartbeat
  Threshold,   \* STALE_THRESHOLDS, by source
  Multiplier,  \* SILENT_MULTIPLIER
  Never, Idle,
  MaxNow,      \* bound on the clock
  MaxFailures  \* bound on the scans that fail

ASSUME FreshnessAssumption ==
  /\ Reporting \subseteq Source
  /\ Threshold \in [Source -> Nat \ {0}]
  /\ Multiplier \in Nat \ {0}
  /\ Never \notin Nat
  /\ MaxNow \in Nat /\ MaxFailures \in Nat

Status == {"fresh", "stale", "silent"}
Seen   == [beat : Nat, status : Status]

VARIABLES
  now,
  ingested,  \* time of each source's last successful tick (history variable)
  stamped,   \* the heartbeat of a source under way: its time stamp, or Never
  beat,      \* last_ingest_ts, or Never: no row
  status,    \* the status column
  open,      \* sources whose collector_silent incident is open
  scan,      \* the running scan: its clock (at), whether it has its snapshot
             \* (read), the rows of it not looked at (seen), its unflushed
             \* changes (dirty); or Idle
  landed,    \* sources whose heartbeat landed since that snapshot (history variable)
  failures   \* scans that failed

freshVars == <<now, ingested, stamped, beat, status, open, scan, landed, failures>>

FreshTypeOK ==
  /\ now \in Nat
  /\ ingested \in [Source -> Nat \cup {Never}]
  /\ stamped \in [Source -> Nat \cup {Never}]
  /\ beat \in [Source -> Nat \cup {Never}]
  /\ status \in [Source -> Status]
  /\ open \subseteq Source
  /\ landed \subseteq Source
  /\ failures \in Nat
  /\ scan # Idle =>
       /\ scan.at \in 0..now /\ scan.read \in BOOLEAN
       /\ DOMAIN scan.seen \subseteq Source /\ DOMAIN scan.dirty \subseteq Source
       /\ \A s \in DOMAIN scan.seen : scan.seen[s] \in Seen
       /\ \A s \in DOMAIN scan.dirty : scan.dirty[s] \in Status

FreshInit ==
  /\ now = 0
  /\ ingested = [s \in Source |-> Never]
  /\ stamped = [s \in Source |-> Never]
  /\ beat = [s \in Source |-> Never]
  /\ status = [s \in Source |-> "fresh"]
  /\ open = {}
  /\ scan = Idle
  /\ landed = {}
  /\ failures = 0

Tracked == {s \in Source : beat[s] # Never}

\* Faulty variant of Classify: a label no reader knows.
ClassifyOffline(t, last, s) ==
  IF t >= last + Threshold[s] * Multiplier THEN "offline" ELSE "fresh"

\* classify(t, last, kind of s)
Classify(t, last, s) ==
  CASE t >= last + Threshold[s] * Multiplier -> "silent"
    [] t >= last + Threshold[s] /\ t < last + Threshold[s] * Multiplier -> "stale"
    [] OTHER -> "fresh"

(***************************************************************************)
(* An ingest tick of the source.  One that reports goes on to its          *)
(* heartbeat, which reads the clock; the loop waits until it has landed.   *)
(***************************************************************************)
Ingest(s) ==
  /\ \/ /\ s \in Reporting
        /\ stamped[s] = Never
        /\ stamped' = [stamped EXCEPT ![s] = now]
        /\ UNCHANGED ingested
     \/ /\ s \notin Reporting
        /\ ingested' = [ingested EXCEPT ![s] = now]
        /\ UNCHANGED stamped
  /\ UNCHANGED <<now, beat, status, open, scan, landed, failures>>

\* Whether the scan has its snapshot.
Reading == scan # Idle /\ scan.read

\* The upsert of a heartbeat commits; it writes the time it was stamped with.
Land(s) ==
  /\ stamped[s] # Never
  /\ stamped' = [stamped EXCEPT ![s] = Never]
  /\ ingested' = [ingested EXCEPT ![s] = stamped[s]]
  /\ beat' = [beat EXCEPT ![s] = stamped[s]]
  /\ status' = [status EXCEPT ![s] = "fresh"]
  /\ landed' = IF Reading THEN landed \cup {s} ELSE landed
  /\ UNCHANGED <<now, open, scan, failures>>

\* The upsert fails: the tick of the ingest loop did.
HeartbeatFails(s) ==
  /\ stamped[s] # Never
  /\ stamped' = [stamped EXCEPT ![s] = Never]
  /\ UNCHANGED <<now, ingested, beat, status, open, scan, landed, failures>>

\* No unflushed change, no row.
Settled == [s \in {} |-> "fresh"]

\* The loop opens a session; the scan takes its clock.
ScanBegin ==
  /\ scan = Idle
  /\ scan' = [at |-> now, read |-> FALSE, seen |-> Settled, dirty |-> Settled]
  /\ UNCHANGED <<now, ingested, stamped, beat, status, open, landed, failures>>

\* Its query answers: the snapshot.
ScanRead ==
  /\ scan # Idle
  /\ ~scan.read
  /\ scan' = [ at |-> scan.at, read |-> TRUE,
               seen |-> [s \in Tracked |-> [beat |-> beat[s], status |-> status[s]]],
               dirty |-> Settled ]
  /\ UNCHANGED <<now, ingested, stamped, beat, status, open, landed, failures>>

Left == DOMAIN scan.seen

Without(f, s)  == [x \in DOMAIN f \ {s} |-> f[x]]
With(f, s, v)  == [x \in DOMAIN f \cup {s} |-> IF x = s THEN v ELSE f[x]]
Flushed(dirty) == [s \in Source |-> IF s \in DOMAIN dirty THEN dirty[s] ELSE status[s]]

\* Faulty variant of Verdict: one tick early.
VerdictEarly(s) == Classify(scan.at + 1, scan.seen[s].beat, s)

Verdict(s) == Classify(scan.at, scan.seen[s].beat, s)

\* Faulty variant of DirtyAfter: only the heartbeat makes a source fresh.
DirtyAfterNotFresh(s) ==
  IF Verdict(s) \in {"fresh", scan.seen[s].status}
  THEN scan.dirty ELSE With(scan.dirty, s, Verdict(s))

DirtyAfter(s) ==
  IF Verdict(s) = scan.seen[s].status THEN scan.dirty ELSE With(scan.dirty, s, Verdict(s))

\* Faulty variant of ScanRow: an event only when the status changes.
ScanRowOnTransition(s) ==
  /\ Reading
  /\ s \in Left
  /\ scan' = [ at |-> scan.at, read |-> TRUE, seen |-> Without(scan.seen, s), dirty |-> Settled ]
  /\ status' = Flushed(DirtyAfter(s))
  /\ open' = IF Verdict(s) = "silent" /\ scan.seen[s].status # "silent"
             THEN open \cup {s} ELSE open
  /\ UNCHANGED <<now, ingested, stamped, beat, landed, failures>>

\* Faulty variant of ScanRow: an event for a stale source too.
ScanRowStaleToo(s) ==
  /\ Reading
  /\ s \in Left
  /\ scan' = [ at |-> scan.at, read |-> TRUE, seen |-> Without(scan.seen, s), dirty |-> Settled ]
  /\ status' = Flushed(DirtyAfter(s))
  /\ open' = IF Verdict(s) = "fresh" THEN open ELSE open \cup {s}
  /\ UNCHANGED <<now, ingested, stamped, beat, landed, failures>>

\* Faulty variant of ScanRow: commits the status, then writes the event, or fails to.
ScanRowCommitFirst(s) ==
  /\ Reading
  /\ s \in Left
  /\ scan' = [ at |-> scan.at, read |-> TRUE, seen |-> Without(scan.seen, s), dirty |-> Settled ]
  /\ status' = Flushed(DirtyAfter(s))
  /\ open' \in IF Verdict(s) = "silent" THEN {open, open \cup {s}} ELSE {open}
  /\ UNCHANGED <<now, ingested, stamped, beat, landed, failures>>

(***************************************************************************)
(* One row of the scan: note a changed status; for a silent source record  *)
(* the event, whose commit takes the noted changes along.                  *)
(***************************************************************************)
ScanRow(s) ==
  /\ Reading
  /\ s \in Left
  /\ \/ /\ Verdict(s) # "silent"
        /\ scan' = [ at |-> scan.at, read |-> TRUE,
                     seen |-> Without(scan.seen, s), dirty |-> DirtyAfter(s) ]
        /\ UNCHANGED <<status, open>>
     \/ /\ Verdict(s) = "silent"
        /\ scan' = [ at |-> scan.at, read |-> TRUE, seen |-> Without(scan.seen, s), dirty |-> Settled ]
        /\ status' = Flushed(DirtyAfter(s))
        /\ open' = open \cup {s}
  /\ UNCHANGED <<now, ingested, stamped, beat, landed, failures>>

\* Faulty variant of ScanFinish: no last commit.
ScanFinishForgets ==
  /\ Reading
  /\ Left = {}
  /\ scan' = Idle
  /\ landed' = {}
  /\ UNCHANGED <<now, ingested, stamped, beat, status, open, failures>>

\* The last commit.
ScanFinish ==
  /\ Reading
  /\ Left = {}
  /\ status' = Flushed(scan.dirty)
  /\ scan' = Idle
  /\ landed' = {}
  /\ UNCHANGED <<now, ingested, stamped, beat, open, failures>>

\* A database error: the session is closed, unflushed changes are lost.
ScanFails ==
  /\ scan # Idle
  /\ failures < MaxFailures
  /\ failures' = failures + 1
  /\ scan' = Idle
  /\ landed' = {}
  /\ UNCHANGED <<now, ingested, stamped, beat, status, open>>

\* An operator resolves the event.
ResolveEvent(s) ==
  /\ s \in open
  /\ open' = open \ {s}
  /\ UNCHANGED <<now, ingested, stamped, beat, status, scan, landed, failures>>

ClockTick ==
  /\ now < MaxNow
  /\ now' = now + 1
  /\ UNCHANGED <<ingested, stamped, beat, status, open, scan, landed, failures>>

FreshNext ==
  \/ \E s \in Source : Ingest(s) \/ Land(s) \/ HeartbeatFails(s) \/ ScanRow(s) \/ ResolveEvent(s)
  \/ ScanBegin \/ ScanRead \/ ScanFinish \/ ScanFails
  \/ ClockTick

(***************************************************************************)
(* The loop starts a scan every 30 s, whatever became of the last one, and *)
(* a scan goes on until it ends.  The database does not fail for ever      *)
(* (MaxFailures): otherwise every scan could stop short of the same row.   *)
(***************************************************************************)
FreshFairness ==
  WF_freshVars(ScanBegin \/ ScanRead \/ ScanFinish \/ \E s \in Source : ScanRow(s))

FreshSpec == FreshInit /\ [][FreshNext]_freshVars
FairFreshSpec == FreshSpec /\ FreshFairness

-----------------------------------------------------------------------------
SilentNow(s) == beat[s] # Never /\ Classify(now, beat[s], s) = "silent"

(***************************************************************************)
(* A scan works on a snapshot: it may alarm about a source that has come   *)
(* back, but only if the heartbeat landed after the snapshot was read.     *)
(***************************************************************************)
AlarmsExplained ==
  [][\A s \in open' \ open : SilentNow(s) \/ s \in landed]_freshVars

(***************************************************************************)
(* What a scan writes into the status column, in whichever commit and      *)
(* after however many failed scans, is what classify says of the row at    *)
(* the scan's clock.  Only a heartbeat that landed after the snapshot can  *)
(* make it wrong: the flush then overwrites its "fresh".                   *)
(***************************************************************************)
WrongStatusExplained ==
  [][scan # Idle /\ UNCHANGED stamped =>
       \A s \in Tracked \ landed :
         status'[s] \in {status[s], Classify(scan.at, beat[s], s)}]_freshVars

(***************************************************************************)
(* A scan that ends repairs: whatever flushes, late heartbeats and failed  *)
(* scans did before, its last commit leaves the status of every source     *)
(* without a heartbeat since its snapshot as classify says.                *)
(***************************************************************************)
ScanRepairs ==
  [][ScanFinish =>
       \A s \in Tracked \ landed :
         status'[s] = Classify(scan.at, beat[s], s)]_freshVars

(***************************************************************************)
(* No failure between the two writes leaves a source marked silent without *)
(* its event: they reach the database in one commit.                       *)
(***************************************************************************)
SilentMarkHasEvent ==
  [][\A s \in Source :
       status'[s] = "silent" /\ status[s] # "silent" => s \in open']_freshVars

(***************************************************************************)
(* However flushes, heartbeats and failing scans interleave, the status of *)
(* every source is again and again what classify says of it.               *)
(***************************************************************************)
StatusRepaired ==
  \A s \in Source : []<>(beat[s] # Never => status[s] = Classify(now, beat[s], s))

(***************************************************************************)
(* A source that delivered and then fell silent has an open event before   *)
(* long, unless it delivers again ("makes silent collectors a first-class  *)
(* anomaly signal"), even if an operator resolved an earlier one.          *)
(***************************************************************************)
IngestSilent(s) == ingested[s] # Never /\ Classify(now, ingested[s], s) = "silent"

SilenceNoticed == \A s \in Source : IngestSilent(s) ~> (s \in open \/ ~IngestSilent(s))
=============================================================================
