------------------------------ MODULE ToolQuota ------------------------------
(***************************************************************************)
(* Per-tool usage counters and limits of one tenant                        *)
(* (apps/telemetry-api/services/tool_audit.py, consume_quota and           *)
(* set_quota).  A row of tenant_quotas belongs to one UTC day and no       *)
(* operation addresses the row of another day, so only today's rows are    *)
(* kept; a new day finds none.                                             *)
(***************************************************************************)
EXTENDS Integers

CONSTANTS
  Tool,
  NoRow,     \* today's row has not been inserted yet
  NoLimit,   \* NULL limit: unlimited
  Settings,  \* the quota payloads administrators post: [tool, call, byte]
  Payload,   \* response_bytes a caller may report
  MaxDay     \* bound on day rollovers

Limit == Nat \cup {NoLimit}

ASSUME QuotaAssumption ==
  /\ NoLimit \notin Nat
  /\ Payload \subseteq Nat
  /\ Settings \subseteq [tool : Tool, call : Limit, byte : Limit]
  /\ MaxDay \in Nat

QuotaRow == [calls : Nat, bytes : Nat, callLimit : Limit, byteLimit : Limit]

ASSUME RowAssumption == NoRow \notin QuotaRow

VARIABLES
  quota,    \* quota[t]: today's row of tool t, or NoRow
  granted,  \* granted[t]: consume calls answered "allowed" today (history variable)
  day       \* days elapsed

quotaVars == <<quota, granted, day>>

QuotaTypeOK ==
  /\ quota \in [Tool -> QuotaRow \cup {NoRow}]
  /\ granted \in [Tool -> Nat]
  /\ day \in Nat

QuotaInit ==
  /\ quota = [t \in Tool |-> NoRow]
  /\ granted = [t \in Tool |-> 0]
  /\ day = 0

\* Faulty variant of Bumped: the upsert counts down.
BumpedDown(t, b) ==
  IF quota[t] = NoRow
  THEN [calls |-> 1, bytes |-> b, callLimit |-> NoLimit, byteLimit |-> NoLimit]
  ELSE [quota[t] EXCEPT !.calls = @ - 1, !.bytes = @ + b]

\* The row INSERT ... ON CONFLICT DO UPDATE ... RETURNING leaves behind.
Bumped(t, b) ==
  IF quota[t] = NoRow
  THEN [calls |-> 1, bytes |-> b, callLimit |-> NoLimit, byteLimit |-> NoLimit]
  ELSE [ calls |-> quota[t].calls + 1, bytes |-> quota[t].bytes + b,
         callLimit |-> quota[t].callLimit, byteLimit |-> quota[t].byteLimit ]

Exceeds(used, limit) == limit # NoLimit /\ used > limit

OverCalls(row) == Exceeds(row.calls, row.callLimit)
OverBytes(row) == Exceeds(row.bytes, row.byteLimit)

\* QuotaDecision for the row the statement returned.
DecisionFor(row) ==
  [ allowed |-> ~(OverCalls(row) \/ OverBytes(row)),
    reason  |-> IF OverCalls(row) THEN "call_limit_exceeded"
                ELSE IF OverBytes(row) THEN "byte_limit_exceeded" ELSE "ok" ]

\* consume_quota: a denied call is counted like any other.
Consume(t, b) ==
  LET row == Bumped(t, b) IN
  /\ quota' = [quota EXCEPT ![t] = row]
  /\ granted' = IF DecisionFor(row).allowed
                THEN [granted EXCEPT ![t] = @ + 1] ELSE granted
  /\ UNCHANGED day

\* Faulty variant of SetQuota: replaces the row, counters included.
SetQuotaReset(s) ==
  /\ quota' = [quota EXCEPT ![s.tool] =
       [calls |-> 0, bytes |-> 0, callLimit |-> s.call, byteLimit |-> s.byte]]
  /\ UNCHANGED <<granted, day>>

\* set_quota: limits for today only; the counters keep their values.
SetQuota(s) ==
  /\ quota' = [quota EXCEPT ![s.tool] =
       IF @ = NoRow
       THEN [calls |-> 0, bytes |-> 0, callLimit |-> s.call, byteLimit |-> s.byte]
       ELSE [@ EXCEPT !.callLimit = s.call, !.byteLimit = s.byte]]
  /\ UNCHANGED <<granted, day>>

\* current_period_start moves on: nobody has a row, or a limit, yet.
NewDay ==
  /\ day < MaxDay
  /\ day' = day + 1
  /\ quota' = [t \in Tool |-> NoRow]
  /\ granted' = [t \in Tool |-> 0]

QuotaNext ==
  \/ \E t \in Tool, b \in Payload : Consume(t, b)
  \/ \E s \in Settings : SetQuota(s)
  \/ NewDay

QuotaSpec == QuotaInit /\ [][QuotaNext]_quotaVars

-----------------------------------------------------------------------------
CallsToday(t) == IF quota[t] = NoRow THEN 0 ELSE quota[t].calls

(***************************************************************************)
(* Whenever consume_quota lets a call pass, the calls it has let pass that *)
(* day, this one included, are within the call limit then in force, in     *)
(* whatever order concurrent callers, denied calls and limit changes came. *)
(***************************************************************************)
GrantsWithinLimit ==
  [][\A t \in Tool :
       granted'[t] > granted[t]
         => \/ quota'[t].callLimit = NoLimit
            \/ granted'[t] <= quota'[t].callLimit]_quotaVars

\* The strengthening GrantsWithinLimit needs: every grant was counted.
GrantsCounted == \A t \in Tool : granted[t] <= CallsToday(t)
==============================================================================
