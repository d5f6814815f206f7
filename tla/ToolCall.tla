------------------------------ MODULE ToolCall ------------------------------
(***************************************************************************)
(* One MCP tool invocation end to end: audit_tool                          *)
(* (apps/mcp-server/middleware/audit.py) around rate_limit                 *)
(* (middleware/ratelimit.py) around the tool body, against the             *)
(* /tool-audit endpoints of the telemetry API (routers/tool_audit.py,      *)
(* services/tool_audit.py).                                                *)
(*                                                                         *)
(* The MCP processes share one tenant's quota rows and have limiter        *)
(* histories of their own.  A process runs one asyncio loop: between two   *)
(* awaits nothing else of that process runs, so what the wrapper does from *)
(* the consume answer to the first await of the tool body is one step.     *)
(***************************************************************************)
EXTENDS RateLimit, ToolQuota

CONSTANTS
  Process,   \* MCP server processes (a restart is a process not used before)
  Sites,     \* the assignments of invocations to (process, tool) to explore
  Allowed,   \* tools the API key's allowlist admits (may_call_tool)
  NoReply

ASSUME ToolCallAssumption ==
  /\ Bucket = Process \X Tool
  /\ Sites \subseteq [Call -> Bucket]
  /\ Allowed \subseteq Tool
  /\ 0 \in Payload

VARIABLES
  up,         \* processes that are running
  pc,         \* where each invocation is, or how it ended
  site,       \* the (process, tool) an invocation belongs to
  inbox,      \* consume requests the API has not handled yet
  reply,      \* the API's answer to an invocation's consume request
  decision,   \* what _consume_quota returned to the wrapper
  tasks,      \* pending _record tasks: [call, status]
  posted,     \* the records that reached the API: [call, status]
  fired       \* calls whose _record task was created (history variable)

auditVars == <<tasks, posted, fired>>
gateVars == <<up, pc, site, inbox, reply, decision, auditVars>>
toolVars == <<rateVars, quotaVars, gateVars>>

InFlight == {"consuming", "running"}
Finished == {"ok", "error", "limited"}          \* the wrapper's finally block ran
Ended    == Finished \cup {"refused", "cancelled", "gone"}

Record == [call : Call, status : {"ok", "error"}]

-----------------------------------------------------------------------------
\* What the consume endpoint answers; HTTPException wraps its detail.
Forbidden        == [status |-> 403]
Answer(d)        == IF d.allowed THEN [status |-> 200, body |-> d]
                    ELSE [status |-> 429, body |-> [detail |-> d]]

\* The dict _consume_quota makes of it.
Unavailable == [allowed |-> TRUE, reason |-> "audit_unavailable"]
Refusal     == [allowed |-> FALSE, reason |-> "forbidden"]

\* Faulty variant of Understood: hands the 403 body on like the 429 body.
UnderstoodRaw(r) == IF r.status = 403 THEN [detail |-> "forbidden"] ELSE r.body

Understood(r) == IF r.status = 403 THEN Refusal ELSE r.body

\* decision.get("allowed", True)
MayRun(d) == "allowed" \in DOMAIN d => d.allowed

Reasons == {"ok", "call_limit_exceeded", "byte_limit_exceeded",
            "audit_unavailable", "forbidden"}
Decision == [allowed : BOOLEAN, reason : Reasons]
Dict     == Decision \cup [detail : Decision]
Reply    == [status : {403}] \cup [status : {200}, body : Decision]
              \cup [status : {429}, body : [detail : Decision]]

-----------------------------------------------------------------------------
ToolTypeOK ==
  /\ RateTypeOK
  /\ QuotaTypeOK
  /\ up \subseteq Process
  /\ pc \in [Call -> {"new"} \cup InFlight \cup Ended]
  /\ site \in [Call -> Bucket]
  /\ inbox \subseteq Call
  /\ reply \in [Call -> Reply \cup {NoReply}]
  /\ decision \in [Call -> Dict \cup {NoReply}]
  /\ tasks \subseteq Record
  /\ posted \subseteq Record
  /\ fired \subseteq Call

ToolInit ==
  /\ RateInit
  /\ QuotaInit
  /\ up = Process
  /\ pc = [c \in Call |-> "new"]
  /\ site \in Sites
  /\ inbox = {}
  /\ reply = [c \in Call |-> NoReply]
  /\ decision = [c \in Call |-> NoReply]
  /\ tasks = {}
  /\ posted = {}
  /\ fired = {}

ProcessOf(c) == site[c][1]
ToolOf(c)    == site[c][2]

\* The wrapper sends POST /tool-audit/consume and awaits the answer.
Invoke(c) ==
  /\ pc[c] = "new"
  /\ ProcessOf(c) \in up
  /\ pc' = [pc EXCEPT ![c] = "consuming"]
  /\ inbox' = inbox \cup {c}
  /\ UNCHANGED <<rateVars, quotaVars, up, site, reply, decision, auditVars>>

(***************************************************************************)
(* The consume endpoint: 403 for a tool outside the allowlist, otherwise   *)
(* count the call and answer 200 or 429.  It runs to its end even when the *)
(* client has stopped waiting.  The wrapper reports response_bytes = 0.    *)
(***************************************************************************)
ServeConsume(c) ==
  /\ c \in inbox
  /\ inbox' = inbox \ {c}
  /\ \/ /\ ToolOf(c) \notin Allowed
        /\ reply' = [reply EXCEPT ![c] = Forbidden]
        /\ UNCHANGED quotaVars
     \/ /\ ToolOf(c) \in Allowed
        /\ reply' = [reply EXCEPT
                       ![c] = Answer(DecisionFor(Bumped(ToolOf(c), 0)))]
        /\ Consume(ToolOf(c), 0)
  /\ UNCHANGED <<rateVars, up, pc, site, decision, auditVars>>

\* asyncio.create_task(_record(...)) in the finally block.
FireAudit(c, status) ==
  /\ tasks' = tasks \cup {[call |-> c, status |-> status]}
  /\ fired' = fired \cup {c}

(***************************************************************************)
(* The wrapper has its decision: return the refusal, or enter the rate     *)
(* limiter, which starts the body or returns its own error dict.           *)
(***************************************************************************)
Proceed(c, d) ==
  /\ decision' = [decision EXCEPT ![c] = d]
  /\ \/ /\ ~MayRun(d)
        /\ pc' = [pc EXCEPT ![c] = "refused"]
        /\ UNCHANGED <<rateVars, tasks, fired>>
     \/ /\ MayRun(d)
        /\ Admit(c, site[c])
        /\ pc' = [pc EXCEPT ![c] = "running"]
        /\ UNCHANGED <<tasks, fired>>
     \/ /\ MayRun(d)
        /\ Refuse(site[c])
        /\ pc' = [pc EXCEPT ![c] = "limited"]
        /\ FireAudit(c, "error")

\* The answer arrives.
Continue(c) ==
  /\ pc[c] = "consuming"
  /\ reply[c] # NoReply
  /\ Proceed(c, Understood(reply[c]))
  /\ UNCHANGED <<quotaVars, up, site, inbox, reply, posted>>

\* Faulty variant of ConsumeFails: no timeout, waits for the API to be done.
ConsumeFailsNoTimeout(c) ==
  /\ pc[c] = "consuming"
  /\ c \notin inbox /\ reply[c] = NoReply
  /\ Proceed(c, Unavailable)
  /\ UNCHANGED <<quotaVars, up, site, inbox, reply, posted>>

(***************************************************************************)
(* No usable answer: connection refused, another HTTP error, or the        *)
(* client's timeout.  The request may have been handled, may never be, or  *)
(* may still be handled later.                                             *)
(***************************************************************************)
ConsumeFails(c) ==
  /\ pc[c] = "consuming"
  /\ \E late \in BOOLEAN : inbox' = IF late THEN inbox ELSE inbox \ {c}
  /\ Proceed(c, Unavailable)
  /\ UNCHANGED <<quotaVars, up, site, reply, posted>>

\* Faulty variant of Return: an error dict is recorded as a success.
ReturnAlwaysOk(c) ==
  /\ pc[c] = "running"
  /\ pc' \in {[pc EXCEPT ![c] = status] : status \in {"ok", "error"}}
  /\ FireAudit(c, "ok")
  /\ UNCHANGED <<rateVars, quotaVars, up, site, inbox, reply, decision, posted>>

\* The body returns a dict with or without "error", or raises: status ok or error.
Return(c) ==
  /\ pc[c] = "running"
  /\ \E status \in {"ok", "error"} :
       /\ pc' = [pc EXCEPT ![c] = status]
       /\ FireAudit(c, status)
  /\ UNCHANGED <<rateVars, quotaVars, up, site, inbox, reply, decision, posted>>

(***************************************************************************)
(* The client cancels the invocation.  CancelledError is no Exception: in  *)
(* the body it reaches the finally block with status "ok" and result       *)
(* unbound, whose UnboundLocalError skips create_task; while consuming     *)
(* there is no finally block yet.                                          *)
(***************************************************************************)
Cancel(c) ==
  /\ pc[c] \in InFlight
  /\ pc' = [pc EXCEPT ![c] = "cancelled"]
  /\ UNCHANGED <<rateVars, quotaVars, up, site, inbox, reply, decision, auditVars>>

(***************************************************************************)
(* POST /tool-audit/record, or its failure, which is only logged.  No row  *)
(* of tool_call_audit comes of it: text() does not bind ":args::jsonb"     *)
(* (services/tool_audit.py), so the INSERT raises whatever was posted.     *)
(***************************************************************************)
RunAuditTask(r) ==
  /\ r \in tasks
  /\ tasks' = tasks \ {r}
  /\ posted' \in {posted, posted \cup {r}}
  /\ UNCHANGED <<rateVars, quotaVars, up, pc, site, inbox, reply, decision, fired>>

\* The process dies with its invocations and its unsent audit records.  (The
\* exit of a process that has none is left out: it changes nothing they see.)
Exit(p) ==
  /\ p \in up
  /\ \E c \in Call : ProcessOf(c) = p
  /\ up' = up \ {p}
  /\ pc' = [c \in Call |-> IF ProcessOf(c) = p /\ pc[c] \in InFlight
                           THEN "gone" ELSE pc[c]]
  /\ tasks' = {r \in tasks : ProcessOf(r.call) # p}
  /\ UNCHANGED <<rateVars, quotaVars, site, inbox, reply, decision, posted, fired>>

\* POST /tool-audit/quota by a tenant_admin.
PutQuota(s) == SetQuota(s) /\ UNCHANGED <<rateVars, gateVars>>

Midnight == NewDay /\ UNCHANGED <<rateVars, gateVars>>

ClockTick == Tick /\ UNCHANGED <<quotaVars, gateVars>>

ToolNext ==
  \/ \E c \in Call : \/ Invoke(c) \/ ServeConsume(c) \/ Continue(c)
                     \/ ConsumeFails(c) \/ Return(c) \/ Cancel(c)
  \/ \E r \in tasks : RunAuditTask(r)
  \/ \E p \in Process : Exit(p)
  \/ \E s \in Settings : PutQuota(s)
  \/ Midnight
  \/ ClockTick

(***************************************************************************)
(* The HTTP client gives up after 15 s, so waiting for the consume answer  *)
(* and running the body (one telemetry request) both end.  Nothing is      *)
(* assumed of the API or of the audit tasks.                               *)
(***************************************************************************)
ToolFairness ==
  \A c \in Call : WF_toolVars(Continue(c) \/ ConsumeFails(c)) /\ WF_toolVars(Return(c))

ToolSpec == ToolInit /\ [][ToolNext]_toolVars
FairToolSpec == ToolSpec /\ ToolFairness

-----------------------------------------------------------------------------
Entered(c) == pc[c] \in {"running", "ok", "error"}

(***************************************************************************)
(* A body of a tool outside the key's allowlist runs only when the consume *)
(* exchange failed (audit.py fails open); never after the API's refusal    *)
(* was received.  Nothing behind the wrapper checks the allowlist again.   *)
(***************************************************************************)
ForbiddenRunsOnlyUnanswered ==
  \A c \in Call : Entered(c) /\ ToolOf(c) \notin Allowed => decision[c] = Unavailable

(***************************************************************************)
(* "Fires an audit record": every record, pending or posted, tells how its *)
(* call ended, so there is one per call at most, and a call the wrapper    *)
(* carried to its finally block has fired one.  Nothing is said of calls   *)
(* that were refused: audit.py means to record them too, and does not.     *)
(***************************************************************************)
AuditTruthful ==
  /\ \A r \in tasks \cup posted :
       r.call \in fired /\ (r.status = "ok" <=> pc[r.call] = "ok")
  /\ \A c \in Call : pc[c] \in Finished => c \in fired

(***************************************************************************)
(* An invocation returns to the caller (or ends with its process) however  *)
(* slow the API's quota and audit endpoints are: "a slow audit path must   *)
(* never stall the caller".                                                *)
(***************************************************************************)
CallsReturn == \A c \in Call : pc[c] \in InFlight ~> pc[c] \in Ended

(***************************************************************************)
(* The invocations use the limiter as module RateLimit specifies, so the   *)
(* window bound proved there holds of them.                                *)
(***************************************************************************)
UsesRateLimit == RateSpec

(***************************************************************************)
(* What audit.py promises: "If the tenant is over limit the decorator      *)
(* short-circuits [...] the tool body never runs", for the calls whose 429 *)
(* arrived.                                                                *)
(***************************************************************************)
OverLimitNeverRuns ==
  \A c \in Call :
    Entered(c) /\ reply[c] # NoReply /\ reply[c].status = 429
      => decision[c] = Unavailable
==============================================================================
