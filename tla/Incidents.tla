----------------------------- MODULE Incidents -----------------------------
(***************************************************************************)
(* What the deduplicated anomaly table promises its readers, without rows, *)
(* transactions or concurrent writers: per condition there is at most one  *)
(* open incident, which counts its reports and keeps the worst severity,   *)
(* until an operator resolves it (the class comment of AnomalyEvent in     *)
(* db/models.py, the docstring of record_anomaly in                        *)
(* services/anomaly_dedup.py).                                             *)
(***************************************************************************)
EXTENDS Naturals

CONSTANTS
  Condition,  \* what a fingerprint identifies: (tenant, type, scope, cause)
  Severity,   \* ranks: 1 low .. 4 critical, 0 anything else
  NoIncident

VARIABLE incident

Incident == [sev : Severity, count : Nat, acked : BOOLEAN]

Worse(s, t) == IF s >= t THEN s ELSE t

IncidentInit == incident = [k \in Condition |-> NoIncident]

Report(k, s) ==
  incident' = [incident EXCEPT ![k] =
    IF @ = NoIncident
    THEN [sev |-> s, count |-> 1, acked |-> FALSE]
    ELSE [sev |-> Worse(@.sev, s), count |-> @.count + 1, acked |-> @.acked]]

Ack(k) ==
  /\ incident[k] # NoIncident
  /\ ~incident[k].acked
  /\ incident' = [incident EXCEPT ![k] =
       [sev |-> @.sev, count |-> @.count, acked |-> TRUE]]

Close(k) ==
  /\ incident[k] # NoIncident
  /\ incident' = [incident EXCEPT ![k] = NoIncident]

IncidentNext ==
  \E k \in Condition : (\E s \in Severity : Report(k, s)) \/ Ack(k) \/ Close(k)

IncidentSpec == IncidentInit /\ [][IncidentNext]_incident
=============================================================================
