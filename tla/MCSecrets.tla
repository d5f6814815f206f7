----------------------------- MODULE MCSecrets -----------------------------
(* Two processes, so that a turnover finds one on the old key and one on   *)
(* the new; three versions, so that one turnover follows another.          *)
EXTENDS Secrets
=============================================================================
