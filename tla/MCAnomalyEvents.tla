-------------------------- MODULE MCAnomalyEvents --------------------------
\* A small instance of AnomalyEvents for TLC.
EXTENDS AnomalyEvents, TLC

\* Row ids come from gen_random_uuid and recorders are alike.
MCSymmetry == Permutations(RowId) \cup Permutations(Recorder)
=============================================================================
