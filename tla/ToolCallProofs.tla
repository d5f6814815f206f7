--------------------------- MODULE ToolCallProofs ---------------------------
(***************************************************************************)
(* The rate limiter, the quota counters, what the invocation wrapper       *)
(* inherits from both, and its own safety properties, for every set of     *)
(* calls, processes, tools, buckets and tenants, every budget and limit.   *)
(***************************************************************************)
EXTENDS ToolCall, FiniteSetTheorems, TLAPS

-----------------------------------------------------------------------------
(***************************************************************************)
(* The sliding-window bound of module RateLimit.                           *)
(***************************************************************************)

(***************************************************************************)
(* Remembering the window is enough: if the code's memory holds every call *)
(* of the last window and has room, the window that contains now has room. *)
(***************************************************************************)
LEMMA RoomInEveryWindow ==
  ASSUME RateTypeOK, RemembersWindow, NEW b \in Bucket, NEW t \in 0..MaxNow,
         HasRoom(b), t <= now, now < t + Window
  PROVE  /\ IsFiniteSet(InWindow(b, t))
         /\ Cardinality(InWindow(b, t)) < MaxCalls[b]
<1>1. InWindow(b, t) \subseteq Live(b)
  BY RateAssumption DEF InWindow, Live, RemembersWindow, RateTypeOK, Entry
<1>2. Live(b) \subseteq log[b] /\ IsFiniteSet(log[b])
  BY DEF Live, RemembersWindow
<1>3. IsFiniteSet(Live(b))
  BY <1>2, FS_Subset
<1>4. /\ IsFiniteSet(InWindow(b, t))
      /\ Cardinality(InWindow(b, t)) <= Cardinality(Live(b))
  BY <1>1, <1>3, FS_Subset
<1>5. /\ Cardinality(Live(b)) \in Nat
      /\ Cardinality(InWindow(b, t)) \in Nat
      /\ MaxCalls[b] \in Nat
  BY <1>3, <1>4, FS_CardinalityType, RateAssumption
<1>. QED
  BY <1>4, <1>5 DEF HasRoom

(***************************************************************************)
(* The limiter's variables keep their types.                               *)
(***************************************************************************)
LEMMA RateTypeStep == RateTypeOK /\ [RateNext]_rateVars => RateTypeOK'
<1>. SUFFICES ASSUME RateTypeOK, [RateNext]_rateVars PROVE RateTypeOK'
  OBVIOUS
<1>. USE DEF RateTypeOK
<1>1. ASSUME NEW c \in Call, NEW b \in Bucket, Admit(c, b) PROVE RateTypeOK'
  BY <1>1 DEF Admit, Live, Entry
<1>2. ASSUME NEW b \in Bucket, Refuse(b) PROVE RateTypeOK'
  BY <1>2 DEF Refuse, Live
<1>3. CASE Tick
  BY <1>3 DEF Tick
<1>4. CASE UNCHANGED rateVars
  BY <1>4 DEF rateVars
<1>. QED
  BY <1>1, <1>2, <1>3, <1>4 DEF RateNext

(***************************************************************************)
(* Pruning drops only what has left the window.                            *)
(***************************************************************************)
LEMMA RemembersStep ==
  RateTypeOK /\ RemembersWindow /\ [RateNext]_rateVars => RemembersWindow'
<1>. SUFFICES ASSUME RateTypeOK, RemembersWindow, [RateNext]_rateVars
              PROVE  RemembersWindow'
  OBVIOUS
<1>. USE DEF RateTypeOK, RemembersWindow
<1>1. ASSUME NEW c \in Call, NEW b \in Bucket, Admit(c, b)
      PROVE  RemembersWindow'
  <2>. DEFINE entry == [call |-> c, at |-> now]
  <2>1. \A d \in Bucket : IsFiniteSet(log'[d])
    <3>1. IsFiniteSet(log[b] \cup {entry})
      BY FS_AddElement
    <3>. QED
      BY <1>1, <3>1 DEF Admit
  <2>2. \A d \in Bucket : history'[d] \subseteq log'[d]
    BY <1>1 DEF Admit, Live
  <2>3. \A d \in Bucket : \A e \in log'[d] : e.at <= now'
    BY <1>1 DEF Admit, Entry
  <2>4. \A d \in Bucket : \A e \in log'[d] :
           now' - e.at < Window => e \in history'[d]
    BY <1>1 DEF Admit, Live, Entry
  <2>. QED
    BY <2>1, <2>2, <2>3, <2>4
<1>2. ASSUME NEW b \in Bucket, Refuse(b) PROVE RemembersWindow'
  BY <1>2 DEF Refuse, Live
<1>3. CASE Tick
  BY <1>3, RateAssumption DEF Tick, Entry
<1>4. CASE UNCHANGED rateVars
  BY <1>4 DEF rateVars
<1>. QED
  BY <1>1, <1>2, <1>3, <1>4 DEF RateNext

(***************************************************************************)
(* An admitted call fits in every window it belongs to.                    *)
(***************************************************************************)
LEMMA WindowStep ==
  RateInv /\ [RateNext]_rateVars => WindowBound'
<1>. SUFFICES ASSUME RateInv, [RateNext]_rateVars,
                     NEW d \in Bucket, NEW t \in 0..MaxNow
              PROVE  Cardinality(InWindow(d, t))' <= MaxCalls[d]
  BY DEF WindowBound
<1>. USE DEF RateInv
<1>0. Cardinality(InWindow(d, t)) <= MaxCalls[d]
  BY DEF WindowBound
<1>1. ASSUME NEW c \in Call, NEW b \in Bucket, Admit(c, b)
      PROVE  Cardinality(InWindow(d, t))' <= MaxCalls[d]
  <2>. DEFINE entry == [call |-> c, at |-> now]
  <2>1. CASE d = b /\ t <= now /\ now < t + Window
    <3>1. InWindow(d, t)' = InWindow(d, t) \cup {entry}
      BY <1>1, <2>1 DEF Admit, InWindow, RateTypeOK
    <3>2. IsFiniteSet(InWindow(d, t)) /\ Cardinality(InWindow(d, t)) < MaxCalls[d]
      BY <1>1, <2>1, RoomInEveryWindow DEF Admit
    <3>3. Cardinality(InWindow(d, t) \cup {entry})
            \in {Cardinality(InWindow(d, t)), Cardinality(InWindow(d, t)) + 1}
      BY <3>2, FS_AddElement
    <3>4. Cardinality(InWindow(d, t)) \in Nat /\ MaxCalls[d] \in Nat
      BY <3>2, FS_CardinalityType, RateAssumption
    <3>5. Cardinality(InWindow(d, t) \cup {entry}) <= MaxCalls[d]
      BY <3>2, <3>3, <3>4
    <3>. QED
      BY <3>1, <3>5
  <2>2. CASE ~(d = b /\ t <= now /\ now < t + Window)
    <3>1. InWindow(d, t)' = InWindow(d, t)
      BY <1>1, <2>2 DEF Admit, InWindow, RateTypeOK
    <3>. QED
      BY <1>0, <3>1
  <2>. QED
    BY <2>1, <2>2
<1>2. CASE UNCHANGED log
  <2>1. InWindow(d, t)' = InWindow(d, t)
    BY <1>2 DEF InWindow
  <2>. QED
    BY <1>0, <2>1
<1>. QED
  BY <1>1, <1>2 DEF RateNext, Refuse, Tick, rateVars

(***************************************************************************)
(* The strengthening holds initially and every step of the limiter keeps   *)
(* it.                                                                     *)
(***************************************************************************)
THEOREM RateInvariant == RateSpec => []RateInv
<1>1. RateInit => RateInv
  <2>. SUFFICES ASSUME RateInit PROVE RateInv
    OBVIOUS
  <2>1. RateTypeOK
    BY DEF RateInit, RateTypeOK
  <2>2. RemembersWindow
    BY FS_EmptySet DEF RateInit, RemembersWindow
  <2>3. WindowBound
    <3>. SUFFICES ASSUME NEW b \in Bucket, NEW t \in 0..MaxNow
                  PROVE  Cardinality(InWindow(b, t)) <= MaxCalls[b]
      BY DEF WindowBound
    <3>1. InWindow(b, t) = {}
      BY DEF RateInit, InWindow
    <3>. QED
      BY <3>1, FS_EmptySet, RateAssumption
  <2>. QED
    BY <2>1, <2>2, <2>3 DEF RateInv
<1>2. RateInv /\ [RateNext]_rateVars => RateInv'
  BY RateTypeStep, RemembersStep, WindowStep DEF RateInv
<1>. QED
  BY <1>1, <1>2, PTL DEF RateSpec

(***************************************************************************)
(* At most max_calls tool bodies start in any window of window_seconds.    *)
(***************************************************************************)
THEOREM RateLimitHolds == RateSpec => []WindowBound
<1>1. RateInv => WindowBound
  BY DEF RateInv
<1>. QED
  BY <1>1, RateInvariant, PTL

-----------------------------------------------------------------------------
(***************************************************************************)
(* The grant bound of module ToolQuota.                                    *)
(***************************************************************************)

\* What a consume leaves in today's row, whichever branch of the upsert ran.
LEMMA BumpedRow ==
  ASSUME QuotaTypeOK, NEW t \in Tool, NEW b \in Payload
  PROVE  /\ Bumped(t, b) \in QuotaRow
         /\ Bumped(t, b) # NoRow
         /\ Bumped(t, b).calls = CallsToday(t) + 1
<1>1. Bumped(t, b) \in QuotaRow /\ Bumped(t, b).calls = CallsToday(t) + 1
  <2>1. b \in Nat
    BY QuotaAssumption
  <2>2. CASE quota[t] = NoRow
    BY <2>1, <2>2 DEF Bumped, CallsToday, QuotaRow, Limit
  <2>3. CASE quota[t] # NoRow
    <3>1. quota[t] \in QuotaRow
      BY <2>3 DEF QuotaTypeOK
    <3>. QED
      BY <2>1, <2>3, <3>1 DEF Bumped, CallsToday, QuotaRow
  <2>. QED
    BY <2>2, <2>3
<1>. QED
  BY <1>1, RowAssumption

\* Limits may change at any time; the counter is never touched by that.
LEMMA SetRow ==
  ASSUME QuotaTypeOK, NEW s \in Settings, SetQuota(s)
  PROVE  /\ quota' \in [Tool -> QuotaRow \cup {NoRow}]
         /\ \A u \in Tool : CallsToday(u)' = CallsToday(u)
<1>. USE QuotaAssumption, RowAssumption DEF QuotaTypeOK, QuotaRow, Limit, SetQuota
<1>1. CASE quota[s.tool] = NoRow
  BY <1>1 DEF CallsToday
<1>2. CASE quota[s.tool] # NoRow
  BY <1>2 DEF CallsToday
<1>. QED
  BY <1>1, <1>2

LEMMA QuotaTypeStep == QuotaTypeOK /\ [QuotaNext]_quotaVars => QuotaTypeOK'
<1>. SUFFICES ASSUME QuotaTypeOK, [QuotaNext]_quotaVars PROVE QuotaTypeOK'
  OBVIOUS
<1>. USE DEF QuotaTypeOK
<1>1. ASSUME NEW t \in Tool, NEW b \in Payload, Consume(t, b)
      PROVE  QuotaTypeOK'
  BY <1>1, BumpedRow DEF Consume
<1>2. ASSUME NEW s \in Settings, SetQuota(s)
      PROVE  QuotaTypeOK'
  BY <1>2, SetRow DEF SetQuota
<1>3. CASE NewDay
  BY <1>3, QuotaAssumption DEF NewDay
<1>4. CASE UNCHANGED quotaVars
  BY <1>4 DEF quotaVars
<1>. QED
  BY <1>1, <1>2, <1>3, <1>4 DEF QuotaNext

LEMMA GrantsCountedStep ==
  QuotaTypeOK /\ GrantsCounted /\ [QuotaNext]_quotaVars => GrantsCounted'
<1>. SUFFICES ASSUME QuotaTypeOK, GrantsCounted, [QuotaNext]_quotaVars,
                     NEW u \in Tool
              PROVE  granted'[u] <= CallsToday(u)'
  BY DEF GrantsCounted
<1>0. granted[u] <= CallsToday(u) /\ granted[u] \in Nat /\ CallsToday(u) \in Nat
  BY DEF GrantsCounted, QuotaTypeOK, CallsToday, QuotaRow
<1>1. ASSUME NEW t \in Tool, NEW b \in Payload, Consume(t, b)
      PROVE  granted'[u] <= CallsToday(u)'
  <2>1. Bumped(t, b) # NoRow /\ Bumped(t, b).calls = CallsToday(t) + 1
    BY BumpedRow
  <2>2. CASE u = t
    <3>1. CallsToday(u)' = CallsToday(u) + 1
      BY <1>1, <2>1, <2>2 DEF Consume, CallsToday, QuotaTypeOK
    <3>2. granted'[u] <= granted[u] + 1
      BY <1>0, <1>1, <2>2 DEF Consume, QuotaTypeOK
    <3>3. granted'[u] \in Nat
      BY <1>0, <1>1, <2>2 DEF Consume, QuotaTypeOK
    <3>. QED
      BY <1>0, <3>1, <3>2, <3>3
  <2>3. CASE u # t
    BY <1>0, <1>1, <2>3 DEF Consume, CallsToday, QuotaTypeOK
  <2>. QED
    BY <2>2, <2>3
<1>2. ASSUME NEW s \in Settings, SetQuota(s)
      PROVE  granted'[u] <= CallsToday(u)'
  BY <1>0, <1>2, SetRow DEF SetQuota
<1>3. CASE NewDay
  BY <1>3 DEF NewDay, CallsToday
<1>4. CASE UNCHANGED quotaVars
  BY <1>0, <1>4 DEF quotaVars, CallsToday
<1>. QED
  BY <1>1, <1>2, <1>3, <1>4 DEF QuotaNext

\* The step that grants saw a counter within the limit.
LEMMA GrantStep ==
  ASSUME QuotaTypeOK, GrantsCounted, [QuotaNext]_quotaVars,
         NEW u \in Tool, granted'[u] > granted[u]
  PROVE  quota'[u].callLimit = NoLimit \/ granted'[u] <= quota'[u].callLimit
<1>0. granted[u] <= CallsToday(u) /\ granted[u] \in Nat /\ CallsToday(u) \in Nat
  BY DEF GrantsCounted, QuotaTypeOK, CallsToday, QuotaRow
<1>1. PICK b \in Payload : Consume(u, b)
  <2>1. ASSUME NEW t \in Tool, NEW b \in Payload, Consume(t, b)
        PROVE  \E c \in Payload : Consume(u, c)
    <3>1. granted'[t] # granted[t] /\ t = u
      BY <1>0, <2>1 DEF Consume, QuotaTypeOK
    <3>. QED
      BY <2>1, <3>1
  <2>2. granted' # granted
    BY <1>0
  <2>3. ~NewDay
    BY <1>0 DEF NewDay
  <2>. QED
    BY <2>1, <2>2, <2>3 DEF QuotaNext, SetQuota, quotaVars
<1>. DEFINE row == Bumped(u, b)
<1>2. row \in QuotaRow /\ row.calls = CallsToday(u) + 1 /\ quota'[u] = row
  BY <1>1, BumpedRow DEF Consume, QuotaTypeOK
<1>3. DecisionFor(row).allowed /\ granted'[u] = granted[u] + 1
  BY <1>0, <1>1 DEF Consume, QuotaTypeOK
<1>4. row.callLimit = NoLimit \/ row.calls <= row.callLimit
  <2>1. ~OverCalls(row)
    BY <1>3, Zenon DEF DecisionFor
  <2>. QED
    BY <1>2, <2>1, QuotaAssumption DEF OverCalls, Exceeds, QuotaRow, Limit
<1>5. row.callLimit = NoLimit \/ row.callLimit \in Nat
  BY <1>2 DEF QuotaRow, Limit
<1>. QED
  BY <1>0, <1>2, <1>3, <1>4, <1>5

(***************************************************************************)
(* However consume calls, limit changes and day rollovers interleave, a    *)
(* grant never exceeds the call limit in force when it is given.           *)
(***************************************************************************)
THEOREM QuotaHolds == QuotaSpec => GrantsWithinLimit
<1>. DEFINE QInv == QuotaTypeOK /\ GrantsCounted
<1>1. QuotaInit => QInv
  BY DEF QuotaInit, QuotaTypeOK, GrantsCounted, CallsToday
<1>2. QInv /\ [QuotaNext]_quotaVars => QInv'
  BY QuotaTypeStep, GrantsCountedStep
<1>3. QInv /\ [QuotaNext]_quotaVars =>
        [\A t \in Tool :
           granted'[t] > granted[t]
             => \/ quota'[t].callLimit = NoLimit
                \/ granted'[t] <= quota'[t].callLimit]_quotaVars
  BY GrantStep
<1>. QED
  BY <1>1, <1>2, <1>3, PTL DEF QuotaSpec, GrantsWithinLimit

-----------------------------------------------------------------------------
(***************************************************************************)
(* The wrapper: module ToolCall.                                           *)
(***************************************************************************)

\* An invocation stays with the process and the tool it was made for.
SiteOK == site \in [Call -> Bucket]

LEMMA SiteInvariant == ToolSpec => []SiteOK
<1>1. ToolInit => SiteOK
  BY ToolCallAssumption DEF ToolInit, SiteOK
<1>2. SiteOK /\ [ToolNext]_toolVars => SiteOK'
  <2>. SUFFICES ASSUME [ToolNext]_toolVars PROVE UNCHANGED site
    BY DEF SiteOK
  <2>. QED
    BY DEF ToolNext, Invoke, ServeConsume, Continue, ConsumeFails, Return, Cancel,
           RunAuditTask, Exit, PutQuota, Midnight, ClockTick, toolVars, gateVars
<1>. QED
  BY <1>1, <1>2, PTL DEF ToolSpec

\* Entering the limiter is a step of the limiter; being refused leaves it alone.
LEMMA ProceedRates ==
  ASSUME SiteOK, NEW c \in Call, NEW d, Proceed(c, d)
  PROVE  [RateNext]_rateVars
<1>1. site[c] \in Bucket
  BY DEF SiteOK
<1>. QED
  BY <1>1 DEF Proceed, RateNext, rateVars

(***************************************************************************)
(* Every step of an invocation, a handler or an administrator is a step of *)
(* the limiter or leaves it alone.                                         *)
(***************************************************************************)
LEMMA ToolStepIsRateStep == SiteOK /\ [ToolNext]_toolVars => [RateNext]_rateVars
<1>. SUFFICES ASSUME SiteOK, [ToolNext]_toolVars PROVE [RateNext]_rateVars
  OBVIOUS
<1>1. ASSUME NEW c \in Call, Continue(c) \/ ConsumeFails(c)
      PROVE  [RateNext]_rateVars
  BY <1>1, ProceedRates DEF Continue, ConsumeFails
<1>2. ASSUME NEW c \in Call, Invoke(c) \/ ServeConsume(c) \/ Return(c) \/ Cancel(c)
      PROVE  [RateNext]_rateVars
  BY <1>2 DEF Invoke, ServeConsume, Return, Cancel
<1>3. CASE \/ \E r \in tasks : RunAuditTask(r)
           \/ \E p \in Process : Exit(p)
           \/ \E s \in Settings : PutQuota(s)
           \/ Midnight
  BY <1>3 DEF RunAuditTask, Exit, PutQuota, Midnight
<1>4. CASE ClockTick
  BY <1>4 DEF ClockTick, RateNext
<1>5. CASE UNCHANGED toolVars
  BY <1>5 DEF toolVars
<1>. QED
  BY <1>1, <1>2, <1>3, <1>4, <1>5 DEF ToolNext

(***************************************************************************)
(* The wrapped tool calls implement the limiter: no call reaches a bucket  *)
(* but through its prune-check-append step.                                *)
(***************************************************************************)
THEOREM ToolImplementsRateLimit == ToolSpec => UsesRateLimit
<1>1. ToolInit => RateInit
  BY DEF ToolInit
<1>. QED
  BY <1>1, SiteInvariant, ToolStepIsRateStep, PTL DEF ToolSpec, RateSpec, UsesRateLimit

(***************************************************************************)
(* Whatever happens to invocations, processes and the API, no bucket lets  *)
(* more than max_calls bodies start in any window.                         *)
(***************************************************************************)
THEOREM ToolWindowBound == ToolSpec => []WindowBound
BY ToolImplementsRateLimit, RateLimitHolds, PTL DEF UsesRateLimit

-----------------------------------------------------------------------------
\* Every step is a step of the quota counters or leaves them alone.
LEMMA ToolStepIsQuotaStep == SiteOK /\ [ToolNext]_toolVars => [QuotaNext]_quotaVars
<1>. SUFFICES ASSUME SiteOK, [ToolNext]_toolVars PROVE [QuotaNext]_quotaVars
  OBVIOUS
<1>1. ASSUME NEW c \in Call, ServeConsume(c)
      PROVE  [QuotaNext]_quotaVars
  <2>1. ToolOf(c) \in Tool /\ 0 \in Payload
    BY ToolCallAssumption DEF SiteOK, ToolOf
  <2>. QED
    BY <1>1, <2>1 DEF ServeConsume, QuotaNext
<1>2. ASSUME NEW c \in Call,
             Invoke(c) \/ Continue(c) \/ ConsumeFails(c) \/ Return(c) \/ Cancel(c)
      PROVE  [QuotaNext]_quotaVars
  BY <1>2 DEF Invoke, Continue, ConsumeFails, Return, Cancel
<1>3. CASE \/ \E r \in tasks : RunAuditTask(r)
           \/ \E p \in Process : Exit(p)
           \/ ClockTick
  BY <1>3 DEF RunAuditTask, Exit, ClockTick
<1>4. CASE (\E s \in Settings : PutQuota(s)) \/ Midnight
  BY <1>4 DEF PutQuota, Midnight, QuotaNext
<1>5. CASE UNCHANGED toolVars
  BY <1>5 DEF toolVars
<1>. QED
  BY <1>1, <1>2, <1>3, <1>4, <1>5 DEF ToolNext

(***************************************************************************)
(* With lost answers, abandoned requests and process deaths included, the  *)
(* API never grants a tool more calls a day than the limit in force.       *)
(***************************************************************************)
THEOREM ToolGrantsWithinLimit == ToolSpec => GrantsWithinLimit
<1>1. ToolInit => QuotaInit
  BY DEF ToolInit
<1>2. ToolSpec => QuotaSpec
  BY <1>1, SiteInvariant, ToolStepIsQuotaStep, PTL DEF ToolSpec, QuotaSpec
<1>. QED
  BY <1>2, QuotaHolds

-----------------------------------------------------------------------------
(***************************************************************************)
(* The strengthening ForbiddenRunsOnlyUnanswered needs: the only answer to *)
(* a call of a forbidden tool is the 403.                                  *)
(***************************************************************************)
ForbiddenInv ==
  /\ SiteOK
  /\ DOMAIN pc = Call /\ DOMAIN decision = Call /\ DOMAIN reply = Call
  /\ \A c \in Call : reply[c] # NoReply /\ ToolOf(c) \notin Allowed
                       => reply[c] = Forbidden
  /\ ForbiddenRunsOnlyUnanswered

LEMMA ProceedKeepsForbidden ==
  ASSUME ForbiddenInv, NEW c \in Call, NEW d, Proceed(c, d),
         UNCHANGED <<site, reply>>,
         ToolOf(c) \notin Allowed => d \in {Refusal, Unavailable}
  PROVE  ForbiddenInv'
<1>. USE DEF ForbiddenInv, SiteOK, ForbiddenRunsOnlyUnanswered, Entered, ToolOf
<1>1. ~MayRun(Refusal)
  BY Zenon DEF MayRun, Refusal
<1>. QED
  BY <1>1 DEF Proceed

LEMMA ForbiddenStep == ForbiddenInv /\ [ToolNext]_toolVars => ForbiddenInv'
<1>. SUFFICES ASSUME ForbiddenInv, [ToolNext]_toolVars PROVE ForbiddenInv'
  OBVIOUS
<1>1. ASSUME NEW c \in Call, Continue(c) PROVE ForbiddenInv'
  <2>1. ToolOf(c) \notin Allowed => Understood(reply[c]) = Refusal
    BY <1>1 DEF Continue, ForbiddenInv, Understood, Forbidden
  <2>. QED
    BY <1>1, <2>1, ProceedKeepsForbidden DEF Continue
<1>2. ASSUME NEW c \in Call, ConsumeFails(c) PROVE ForbiddenInv'
  BY <1>2, ProceedKeepsForbidden DEF ConsumeFails
<1>. USE DEF ForbiddenInv, SiteOK, ForbiddenRunsOnlyUnanswered, Entered, ToolOf
<1>3. ASSUME NEW c \in Call, ServeConsume(c) PROVE ForbiddenInv'
  BY <1>3 DEF ServeConsume
<1>4. ASSUME NEW c \in Call, Invoke(c) \/ Return(c) \/ Cancel(c) PROVE ForbiddenInv'
  BY <1>4 DEF Invoke, Return, Cancel, InFlight
<1>5. ASSUME NEW p \in Process, Exit(p) PROVE ForbiddenInv'
  BY <1>5 DEF Exit
<1>6. CASE \/ \E r \in tasks : RunAuditTask(r)
           \/ \E s \in Settings : PutQuota(s)
           \/ Midnight \/ ClockTick
           \/ UNCHANGED toolVars
  BY <1>6 DEF RunAuditTask, PutQuota, Midnight, ClockTick, gateVars, toolVars
<1>. QED
  BY <1>1, <1>2, <1>3, <1>4, <1>5, <1>6 DEF ToolNext

(***************************************************************************)
(* A body of a forbidden tool never starts on an answer of the API.        *)
(***************************************************************************)
THEOREM ForbiddenHolds == ToolSpec => []ForbiddenRunsOnlyUnanswered
<1>1. ToolInit => ForbiddenInv
  BY ToolCallAssumption
     DEF ToolInit, ForbiddenInv, SiteOK, ForbiddenRunsOnlyUnanswered, Entered
<1>2. ForbiddenInv => ForbiddenRunsOnlyUnanswered
  BY DEF ForbiddenInv
<1>. QED
  BY <1>1, <1>2, ForbiddenStep, PTL DEF ToolSpec

-----------------------------------------------------------------------------
\* AuditTruthful is inductive once records are known to be about calls, and to be
\* fired for no call that has not ended.
AuditInv ==
  /\ DOMAIN pc = Call
  /\ fired \subseteq Call
  /\ tasks \subseteq Record
  /\ posted \subseteq Record
  /\ \A c \in fired : pc[c] \in Finished
  /\ AuditTruthful

\* Ending a call with a record of how it ended.
LEMMA FireKeepsAudit ==
  ASSUME AuditInv, NEW c \in Call, NEW status \in {"ok", "error"},
         NEW how \in Finished, how = "ok" <=> status = "ok",
         pc[c] \in InFlight, pc' = [pc EXCEPT ![c] = how],
         FireAudit(c, status), UNCHANGED posted
  PROVE  AuditInv'
<1>1. c \notin fired
  BY DEF AuditInv, AuditTruthful, InFlight, Finished
<1>2. /\ DOMAIN pc' = Call
      /\ fired' \subseteq Call
      /\ tasks' \subseteq Record
      /\ posted' \subseteq Record
  BY DEF AuditInv, FireAudit, Record
<1>3. \A r \in tasks' \cup posted' :
         r.call \in fired' /\ (r.status = "ok" <=> pc'[r.call] = "ok")
  BY <1>1 DEF AuditInv, AuditTruthful, FireAudit, Record
<1>4. \A d \in Call : d \in fired' <=> pc'[d] \in Finished
  BY DEF AuditInv, AuditTruthful, FireAudit
<1>. QED
  BY <1>2, <1>3, <1>4 DEF AuditInv, AuditTruthful

\* Moving a call in flight to a place without a record.
LEMMA MoveKeepsAudit ==
  ASSUME AuditInv, NEW c \in Call,
         NEW how \in {"consuming", "running", "refused", "cancelled"},
         pc[c] \notin Ended, pc' = [pc EXCEPT ![c] = how],
         UNCHANGED auditVars
  PROVE  AuditInv'
<1>1. c \notin fired
  BY DEF AuditInv, AuditTruthful, Ended
<1>. QED
  BY <1>1 DEF AuditInv, AuditTruthful, auditVars, Finished, Record

LEMMA AuditStep == AuditInv /\ [ToolNext]_toolVars => AuditInv'
<1>. SUFFICES ASSUME AuditInv, [ToolNext]_toolVars PROVE AuditInv'
  OBVIOUS
<1>1. ASSUME NEW c \in Call, NEW d, Proceed(c, d), pc[c] = "consuming",
             UNCHANGED posted
      PROVE  AuditInv'
  <2>1. CASE pc' = [pc EXCEPT ![c] = "limited"] /\ FireAudit(c, "error")
    BY <1>1, <2>1, FireKeepsAudit DEF InFlight, Finished
  <2>2. CASE \/ pc' = [pc EXCEPT ![c] = "refused"] /\ UNCHANGED <<tasks, fired>>
             \/ pc' = [pc EXCEPT ![c] = "running"] /\ UNCHANGED <<tasks, fired>>
    BY <1>1, <2>2, MoveKeepsAudit DEF Ended, Finished, auditVars
  <2>. QED
    BY <1>1, <2>1, <2>2 DEF Proceed
<1>2. ASSUME NEW c \in Call, Continue(c) \/ ConsumeFails(c) PROVE AuditInv'
  BY <1>1, <1>2 DEF Continue, ConsumeFails
<1>3. ASSUME NEW c \in Call, Return(c) PROVE AuditInv'
  BY <1>3, FireKeepsAudit DEF Return, InFlight, Finished
<1>4. ASSUME NEW c \in Call, Invoke(c) \/ Cancel(c) PROVE AuditInv'
  BY <1>4, MoveKeepsAudit DEF Invoke, Cancel, Ended, Finished, InFlight
<1>5. ASSUME NEW r \in tasks, RunAuditTask(r) PROVE AuditInv'
  BY <1>5 DEF RunAuditTask, AuditInv, AuditTruthful
<1>6. ASSUME NEW p \in Process, Exit(p) PROVE AuditInv'
  <2>1. \A c \in Call : pc'[c] = pc[c] \/ (pc[c] \in InFlight /\ pc'[c] = "gone")
    BY <1>6 DEF Exit
  <2>2. \A c \in Call : /\ pc'[c] \in Finished <=> pc[c] \in Finished
                        /\ pc'[c] = "ok" <=> pc[c] = "ok"
    BY <2>1 DEF Finished, InFlight
  <2>. QED
    BY <1>6, <2>2 DEF Exit, AuditInv, AuditTruthful, Record
<1>7. CASE \/ \E c \in Call : ServeConsume(c)
           \/ \E s \in Settings : PutQuota(s)
           \/ Midnight \/ ClockTick
           \/ UNCHANGED toolVars
  BY <1>7 DEF ServeConsume, PutQuota, Midnight, ClockTick, gateVars, toolVars,
              auditVars, AuditInv, AuditTruthful
<1>. QED
  BY <1>2, <1>3, <1>4, <1>5, <1>6, <1>7 DEF ToolNext

(***************************************************************************)
(* No audit record fired ever misreports its call, and none is missing for *)
(* a call the wrapper carried to its finally block.                        *)
(***************************************************************************)
THEOREM AuditHolds == ToolSpec => []AuditTruthful
<1>1. ToolInit => AuditInv
  BY DEF ToolInit, AuditInv, AuditTruthful, Finished
<1>2. AuditInv => AuditTruthful
  BY DEF AuditInv
<1>. QED
  BY <1>1, <1>2, AuditStep, PTL DEF ToolSpec

-----------------------------------------------------------------------------
LEMMA DecisionType ==
  ASSUME QuotaTypeOK, NEW t \in Tool
  PROVE  DecisionFor(Bumped(t, 0)) \in Decision
BY DEF DecisionFor, Decision, Reasons, OverCalls, OverBytes, Exceeds

LEMMA AnswerType ==
  ASSUME NEW d \in Decision
  PROVE  Answer(d) \in Reply
<1>1. CASE d.allowed
  <2>1. Answer(d) = [status |-> 200, body |-> d]
    BY <1>1 DEF Answer
  <2>. QED
    BY <2>1 DEF Reply
<1>2. CASE ~d.allowed
  <2>1. Answer(d) = [status |-> 429, body |-> [detail |-> d]]
    BY <1>2 DEF Answer
  <2>. QED
    BY <2>1 DEF Reply
<1>. QED
  BY <1>1, <1>2

LEMMA UnderstoodType ==
  ASSUME NEW r \in Reply
  PROVE  Understood(r) \in Dict
BY DEF Understood, Reply, Dict, Refusal, Decision, Reasons

\* The wrapper's part of the types; the limiter's and the quota's are proved there.
GateTypeOK ==
  /\ up \subseteq Process
  /\ pc \in [Call -> {"new"} \cup InFlight \cup Ended]
  /\ site \in [Call -> Bucket]
  /\ inbox \subseteq Call
  /\ reply \in [Call -> Reply \cup {NoReply}]
  /\ decision \in [Call -> Dict \cup {NoReply}]
  /\ tasks \subseteq Record /\ posted \subseteq Record /\ fired \subseteq Call

LEMMA ProceedTypes ==
  ASSUME GateTypeOK, NEW c \in Call, NEW d \in Dict, Proceed(c, d),
         inbox' \subseteq inbox, UNCHANGED <<up, site, reply, posted>>
  PROVE  GateTypeOK'
BY DEF GateTypeOK, Proceed, FireAudit, Record, InFlight, Ended, Finished

LEMMA GateStep ==
  ASSUME GateTypeOK, QuotaTypeOK, [ToolNext]_toolVars
  PROVE  GateTypeOK'
<1>1. ASSUME NEW c \in Call, Invoke(c) PROVE GateTypeOK'
  BY <1>1 DEF GateTypeOK, Invoke, InFlight, auditVars
<1>2. ASSUME NEW c \in Call, ServeConsume(c) PROVE GateTypeOK'
  <2>1. CASE ToolOf(c) \notin Allowed
    <3>1. Forbidden \in Reply
      BY DEF Forbidden, Reply
    <3>2. reply' = [reply EXCEPT ![c] = Forbidden]
      BY <1>2, <2>1 DEF ServeConsume
    <3>. QED
      BY <1>2, <3>1, <3>2 DEF GateTypeOK, ServeConsume, auditVars
  <2>2. CASE ToolOf(c) \in Allowed
    <3>1. Answer(DecisionFor(Bumped(ToolOf(c), 0))) \in Reply
      BY <2>2, ToolCallAssumption, DecisionType, AnswerType
    <3>2. reply' = [reply EXCEPT ![c] = Answer(DecisionFor(Bumped(ToolOf(c), 0)))]
      BY <1>2, <2>2 DEF ServeConsume
    <3>. QED
      BY <1>2, <3>1, <3>2 DEF GateTypeOK, ServeConsume, auditVars
  <2>. QED
    BY <2>1, <2>2
<1>3. ASSUME NEW c \in Call, Continue(c) PROVE GateTypeOK'
  <2>1. Understood(reply[c]) \in Dict
    BY <1>3, UnderstoodType DEF Continue, GateTypeOK
  <2>. QED
    BY <1>3, <2>1, ProceedTypes DEF Continue
<1>4. ASSUME NEW c \in Call, ConsumeFails(c) PROVE GateTypeOK'
  <2>1. Unavailable \in Dict
    BY DEF Unavailable, Dict, Decision, Reasons
  <2>. QED
    BY <1>4, <2>1, ProceedTypes DEF ConsumeFails
<1>5. ASSUME NEW c \in Call, Return(c) PROVE GateTypeOK'
  BY <1>5 DEF GateTypeOK, Return, FireAudit, Record, InFlight, Ended, Finished
<1>6. ASSUME NEW c \in Call, Cancel(c) PROVE GateTypeOK'
  BY <1>6 DEF GateTypeOK, Cancel, Ended, auditVars
<1>7. ASSUME NEW r \in tasks, RunAuditTask(r) PROVE GateTypeOK'
  BY <1>7 DEF GateTypeOK, RunAuditTask
<1>8. ASSUME NEW p \in Process, Exit(p) PROVE GateTypeOK'
  BY <1>8 DEF GateTypeOK, Exit, Ended
<1>9. ASSUME UNCHANGED gateVars PROVE GateTypeOK'
  BY <1>9 DEF GateTypeOK, gateVars, auditVars
<1>. QED
  BY <1>1, <1>2, <1>3, <1>4, <1>5, <1>6, <1>7, <1>8, <1>9
     DEF ToolNext, PutQuota, Midnight, ClockTick, toolVars

(***************************************************************************)
(* Every answer, decision and audit record keeps its shape through lost    *)
(* answers, cancellations and exits (audit.py, routers/tool_audit.py).     *)
(***************************************************************************)
THEOREM ToolTypeHolds == ToolSpec => []ToolTypeOK
<1>. DEFINE Inv == RateTypeOK /\ QuotaTypeOK /\ GateTypeOK
<1>1. ToolInit => Inv
  BY ToolCallAssumption
     DEF ToolInit, RateInit, QuotaInit, RateTypeOK, QuotaTypeOK, GateTypeOK, Record
<1>2. Inv /\ [ToolNext]_toolVars => Inv'
  BY ToolStepIsRateStep, ToolStepIsQuotaStep, RateTypeStep, QuotaTypeStep, GateStep
     DEF GateTypeOK, SiteOK
<1>3. Inv => ToolTypeOK
  BY DEF ToolTypeOK, GateTypeOK
<1>. QED
  BY <1>1, <1>2, <1>3, PTL DEF ToolSpec
=============================================================================
