------------------------------ MODULE MCApiKeys ------------------------------
\* A small instance of ApiKeys for TLC.
EXTENDS ApiKeys, TLC

\* Key ids come from gen_random_uuid; requests and tenants are alike.
MCSymmetry == Permutations(KeyId) \cup Permutations(Request) \cup Permutations(Tenant)
==============================================================================
