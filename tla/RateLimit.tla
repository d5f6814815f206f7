------------------------------ MODULE RateLimit ------------------------------
(***************************************************************************)
(* The per-tool sliding-window rate limiter of the MCP server              *)
(* (apps/mcp-server/middleware/ratelimit.py).  One bucket is one key of    *)
(* _call_history in one MCP process: the limiter is in memory, so every    *)
(* process has buckets of its own.                                         *)
(*                                                                         *)
(* The code keeps a list of time stamps.  Two calls accepted at the same   *)
(* instant are two list elements, so an entry here is tagged with the call *)
(* it was appended for, and a bucket is a set of entries.                  *)
(***************************************************************************)
EXTENDS Integers, FiniteSets

CONSTANTS
  Call,      \* tool invocations
  Bucket,    \* (process, tool) pairs
  MaxCalls,  \* max_calls of the bucket's tool
  Window,    \* window_seconds, in clock ticks
  MaxNow     \* bound on the clock

ASSUME RateAssumption ==
  /\ MaxCalls \in [Bucket -> Nat \ {0}]
  /\ Window \in Nat \ {0}
  /\ MaxNow \in Nat

VARIABLES
  now,      \* time.monotonic()
  history,  \* _call_history: the entries the code still remembers
  log       \* every entry ever appended, pruned or not (history variable)

rateVars == <<now, history, log>>

Entry == [call : Call, at : Nat]

RateTypeOK ==
  /\ now \in Nat
  /\ history \in [Bucket -> SUBSET Entry]
  /\ log \in [Bucket -> SUBSET Entry]

RateInit ==
  /\ now = 0
  /\ history = [b \in Bucket |-> {}]
  /\ log = [b \in Bucket |-> {}]

\* The pruned history: entries still inside the window that ends now.
Live(b) == {e \in history[b] : now - e.at < Window}

\* Faulty variant of HasRoom: rejects only beyond max_calls.
HasRoomPastLimit(b) == Cardinality(Live(b)) <= MaxCalls[b]

HasRoom(b) == Cardinality(Live(b)) < MaxCalls[b]

\* No entry was ever appended for this call.
Unseen(c) == \A b \in Bucket : \A e \in log[b] : e.call # c

\* Under budget: prune, append, go on to the tool.
Admit(c, b) ==
  /\ Unseen(c)
  /\ HasRoom(b)
  /\ history' = [history EXCEPT ![b] = Live(b) \cup {[call |-> c, at |-> now]}]
  /\ log' = [log EXCEPT ![b] = @ \cup {[call |-> c, at |-> now]}]
  /\ UNCHANGED now

\* Over budget: prune and return the rate_limit_exceeded dict.
Refuse(b) ==
  /\ ~HasRoom(b)
  /\ history' = [history EXCEPT ![b] = Live(b)]
  /\ UNCHANGED <<now, log>>

Tick ==
  /\ now < MaxNow
  /\ now' = now + 1
  /\ UNCHANGED <<history, log>>

RateNext ==
  \/ \E c \in Call, b \in Bucket : Admit(c, b)
  \/ \E b \in Bucket : Refuse(b)
  \/ Tick

RateSpec == RateInit /\ [][RateNext]_rateVars

-----------------------------------------------------------------------------
\* The calls admitted in the window that starts at t.
InWindow(b, t) == {e \in log[b] : t <= e.at /\ e.at < t + Window}

(***************************************************************************)
(* A bucket never lets more than max_calls tool bodies start inside any    *)
(* window of window_seconds, wherever the window starts: pruning never     *)
(* forgets a call that still counts (ratelimit.py, rate_limit).            *)
(***************************************************************************)
WindowBound ==
  \A b \in Bucket, t \in 0..MaxNow : Cardinality(InWindow(b, t)) <= MaxCalls[b]

(***************************************************************************)
(* The inductive strengthening of WindowBound: what the code remembers     *)
(* includes every call of the last window, and never exceeds the budget.   *)
(***************************************************************************)
RemembersWindow ==
  \A b \in Bucket :
    /\ IsFiniteSet(log[b])
    /\ history[b] \subseteq log[b]
    /\ \A e \in log[b] : e.at <= now
    /\ \A e \in log[b] : now - e.at < Window => e \in history[b]

RateInv == RateTypeOK /\ RemembersWindow /\ WindowBound
==============================================================================
