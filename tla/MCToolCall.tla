----------------------------- MODULE MCToolCall -----------------------------
\* A small instance of ToolCall for TLC.
EXTENDS ToolCall, TLC

CONSTANTS c1, c2, p1, p2, t1, t2

MCBucket   == Process \X Tool
MCMaxCalls == [b \in MCBucket |-> 1]
\* Two calls of one bucket; of two processes; of a forbidden tool beside them.
MCSites == {c1 :> <<p1, t1>> @@ c2 :> b : b \in {<<p1, t1>>, <<p2, t1>>, <<p1, t2>>}}
MCSettings == {[tool |-> t1, call |-> 1, byte |-> 0]}
==============================================================================
