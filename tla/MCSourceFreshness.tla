------------------------- MODULE MCSourceFreshness -------------------------
\* A small instance of SourceFreshness for TLC.
EXTENDS SourceFreshness

CONSTANTS s1, s2

\* Stale from one tick on, silent from two on.
MCThreshold == [s \in Source |-> 1]
=============================================================================
