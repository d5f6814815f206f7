--------------------------- MODULE AnomalyEvents ---------------------------
(***************************************************************************)
(* The anomaly_events table and everything that writes it: record_anomaly, *)
(* acknowledge and resolve (services/anomaly_dedup.py, called from the     *)
(* freshness scanner and routers/admin.py) and the detectors, which insert *)
(* rows of their own (services/anomalies.py).                              *)
(*                                                                         *)
(* Each writer changes the table with one SQL statement in a transaction   *)
(* of its own; PostgreSQL serializes statements on one row or one index    *)
(* key, so a statement and its commit are one step here.  What is read     *)
(* before the statement (the clock) is read in an earlier step.            *)
(***************************************************************************)
EXTENDS Naturals, FiniteSets, Functions

CONSTANTS
  Condition,  \* (tenant, type, scope, cause); sha256 is taken as injective
  Detected,   \* the conditions services/anomalies.py looks for
  Severity,   \* ranks, as _escalate_sql compares them
  Recorder,   \* sessions that may be inside record_anomaly at once
  RowId,
  NoRow, Idle, NoIncident,
  MaxNow,     \* bound on the clock
  MaxReports  \* bound on the reports begun per condition

ASSUME EventsAssumption ==
  /\ Detected \subseteq Condition
  /\ Severity \subseteq Nat
  /\ MaxNow \in Nat /\ MaxReports \in Nat

VARIABLES
  now,
  rows,      \* anomaly_events
  pending,   \* what each recorder will write, `now` captured; or Idle
  reported   \* reports committed so far, per condition (history variable)

eventVars == <<now, rows, pending, reported>>

Row == [ cond : Condition,
         keyed : BOOLEAN,     \* fingerprint IS NOT NULL
         sev : Severity, count : Nat,
         ts : Nat, last : Nat,
         acked : BOOLEAN, resolved : BOOLEAN ]

Pending == [cond : Condition, sev : Severity, at : Nat]

ASSUME EventsNullAssumption ==
  /\ NoRow \notin Row /\ Idle \notin Pending
  /\ NoIncident \notin [sev : Severity, count : Nat, acked : BOOLEAN]

EventsTypeOK ==
  /\ now \in Nat
  /\ rows \in [RowId -> Row \cup {NoRow}]
  /\ pending \in [Recorder -> Pending \cup {Idle}]
  /\ reported \in [Condition -> Nat]

EventsInit ==
  /\ now = 0
  /\ rows = [id \in RowId |-> NoRow]
  /\ pending = [r \in Recorder |-> Idle]
  /\ reported = [k \in Condition |-> 0]

Used == {id \in RowId : rows[id] # NoRow}

FreshRow(k, keyed, s, t) ==
  [ cond |-> k, keyed |-> keyed, sev |-> s, count |-> 1, ts |-> t, last |-> t,
    acked |-> FALSE, resolved |-> FALSE ]

\* The rows of condition k in the partial unique index.
Open(k) == {id \in Used : rows[id].cond = k /\ rows[id].keyed /\ ~rows[id].resolved}

\* Faulty variant of Escalated: ranks add up.
EscalatedAdds(old, new) == old + new

\* _escalate_sql
Escalated(old, new) == IF old >= new THEN old ELSE new

\* record_anomaly reads the clock and builds its statement.
Begin(r, k, s) ==
  /\ pending[r] = Idle
  /\ reported[k] < MaxReports
  /\ pending' = [pending EXCEPT ![r] = [cond |-> k, sev |-> s, at |-> now]]
  /\ UNCHANGED <<now, rows, reported>>

\* Faulty variant of Bump: forgets to count.
BumpUncounted(id, p) ==
  rows' = [rows EXCEPT ![id].sev = Escalated(@, p.sev), ![id].last = p.at]

\* Faulty variant of Bump: a recurrence withdraws the acknowledgement.
BumpUnacks(id, p) ==
  rows' = [rows EXCEPT ![id].sev = Escalated(@, p.sev), ![id].count = @ + 1,
                       ![id].last = p.at, ![id].acked = FALSE]

\* ON CONFLICT DO UPDATE: bump the open row.
Bump(id, p) ==
  rows' = [rows EXCEPT ![id] =
    [ cond |-> @.cond, keyed |-> @.keyed, sev |-> Escalated(@.sev, p.sev),
      count |-> @.count + 1, ts |-> @.ts, last |-> p.at,
      acked |-> @.acked, resolved |-> @.resolved ]]

Insert(id, row) == id \notin Used /\ rows' = [rows EXCEPT ![id] = row]

\* Faulty variant of Record: an acknowledged event takes no further reports.
RecordUnacked(p) ==
  /\ \/ \E id \in Open(p.cond) : ~rows[id].acked /\ Bump(id, p)
     \/ /\ \A id \in Open(p.cond) : rows[id].acked
        /\ \E id \in RowId : Insert(id, FreshRow(p.cond, TRUE, p.sev, p.at))
  /\ reported' = [reported EXCEPT ![p.cond] = @ + 1]

\* The upsert of what p says, and its commit.
Record(p) ==
  /\ \/ \E id \in Open(p.cond) : Bump(id, p)
     \/ /\ Open(p.cond) = {}
        /\ \E id \in RowId : Insert(id, FreshRow(p.cond, TRUE, p.sev, p.at))
  /\ reported' = [reported EXCEPT ![p.cond] = @ + 1]

Upsert(r) ==
  /\ pending[r] # Idle
  /\ Record(pending[r])
  /\ pending' = [pending EXCEPT ![r] = Idle]
  /\ UNCHANGED now

\* The statement or its commit fails; nothing is written.
Fail(r) ==
  /\ pending[r] # Idle
  /\ pending' = [pending EXCEPT ![r] = Idle]
  /\ UNCHANGED <<now, rows, reported>>

\* A detector pass adds a row without a fingerprint, whatever is open.
DetectorInsert(k, s) ==
  /\ \E id \in RowId : Insert(id, FreshRow(k, FALSE, s, now))
  /\ UNCHANGED <<now, pending, reported>>

\* POST /admin/anomalies/{id}/ack by an operator of the row's tenant.
Acknowledge(id) ==
  /\ id \in Used
  /\ ~rows[id].acked
  /\ rows' = [rows EXCEPT ![id].acked = TRUE]
  /\ UNCHANGED <<now, pending, reported>>

\* Faulty variant of Resolve: the toggle a retry would undo.
ResolveToggles(id) ==
  /\ id \in Used
  /\ rows' = [rows EXCEPT ![id].resolved = ~@]
  /\ UNCHANGED <<now, pending, reported>>

\* POST /admin/anomalies/{id}/resolve by an operator of the row's tenant.
Resolve(id) ==
  /\ id \in Used
  /\ ~rows[id].resolved
  /\ rows' = [rows EXCEPT ![id].resolved = TRUE]
  /\ UNCHANGED <<now, pending, reported>>

ClockTick ==
  /\ now < MaxNow
  /\ now' = now + 1
  /\ UNCHANGED <<rows, pending, reported>>

EventsNext ==
  \/ \E r \in Recorder :
       \/ \E k \in Condition \ Detected, s \in Severity : Begin(r, k, s)
       \/ Upsert(r)
       \/ Fail(r)
  \/ \E k \in Detected, s \in Severity : DetectorInsert(k, s)
  \/ \E id \in RowId : Acknowledge(id) \/ Resolve(id)
  \/ ClockTick

EventsSpec == EventsInit /\ [][EventsNext]_eventVars

-----------------------------------------------------------------------------
(***************************************************************************)
(* However recorders, retries and operators interleave, at most one row of *)
(* a fingerprint is open ("one open event per fingerprint").               *)
(***************************************************************************)
OneOpenPerCondition == \A k \in Condition : \A i, j \in Open(k) : i = j

(***************************************************************************)
(* No report is lost or counted twice: the rows of a fingerprint, open and *)
(* resolved, add up to the reports committed.                              *)
(***************************************************************************)
Counted(k) == {id \in Used : rows[id].cond = k /\ rows[id].keyed}
Occurrences(k) == SumFunction([id \in Counted(k) |-> rows[id].count])

OccurrencesConserved == \A k \in Condition : Occurrences(k) = reported[k]

(***************************************************************************)
(* "Severity only ever goes up", whatever the order in which overlapping   *)
(* recorders land, and operators never touch it.                           *)
(***************************************************************************)
SeverityNeverLowers ==
  [][\A id \in Used : rows'[id].sev >= rows[id].sev]_eventVars

(***************************************************************************)
(* A resolved event is history: a recurrence opens a fresh row and never   *)
(* reaches it.  (It may still be acknowledged.)                            *)
(***************************************************************************)
ClosedRowsFrozen ==
  [][\A id \in Used : rows[id].resolved
       => rows'[id] \in {rows[id], [rows[id] EXCEPT !.acked = TRUE]}]_eventVars

\* The open row of a fingerprint, read as an incident.
IncidentOf(k) ==
  IF Open(k) = {} THEN NoIncident
  ELSE LET row == rows[CHOOSE id \in Open(k) : TRUE]
       IN  [sev |-> row.sev, count |-> row.count, acked |-> row.acked]

Abstract == INSTANCE Incidents WITH incident <- [k \in Condition |-> IncidentOf(k)]

(***************************************************************************)
(* The rows of a fingerprint behave as one incident at a time that counts  *)
(* reports, keeps the worst severity, is acknowledged once and survives    *)
(* recurrences acknowledged (record_anomaly, acknowledge, resolve).        *)
(***************************************************************************)
ImplementsIncidents == Abstract!IncidentSpec
=============================================================================
