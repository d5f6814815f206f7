-------------------------- MODULE CredentialProofs --------------------------
(***************************************************************************)
(* The two kinds of credentials the system keeps: API keys (ApiKeys) and   *)
(* encrypted secrets (Secrets), for any number of either.                  *)
(***************************************************************************)
EXTENDS ApiKeys, Secrets, TLAPS

-----------------------------------------------------------------------------
(***************************************************************************)
(* Proofs about ApiKeys.  Every step leaves the tenant, scope, name and    *)
(* parent of a key alone (KeysSteady), so what a rotation read of the old  *)
(* key still holds when it writes (JobCurrent), and the chain it extends   *)
(* keeps its scope; a key is only ever deactivated.                        *)
(***************************************************************************)

KeysInv == KeysTypeOK /\ JobCurrent /\ ChainKeepsScope

\* A row that differs from the old one at most in active and expires.
SameKey(new, old) ==
  /\ new.tenant = old.tenant /\ new.scope = old.scope
  /\ new.parent = old.parent /\ new.room = old.room

\* A used key stays used, keeps what identifies it, and stays revoked.
Steady(k) ==
  /\ keys'[k] # NoKey
  /\ SameKey(keys'[k], keys[k])
  /\ ~keys[k].active => ~keys'[k].active

\* The rows the operations write are rows.
LEMMA NewRowType ==
  ASSUME NEW t \in Tenant, NEW s \in Scope, NEW e \in Nat \cup {Forever}
  PROVE  NewRow(t, s, e) \in Row
BY KeysAssumption DEF NewRow, Row

LEMMA RowNotNull == NoKey \notin Row /\ NoKey \notin Job
BY KeysNullAssumption

LEMMA UsedRow ==
  ASSUME KeysTypeOK, NEW k \in Used
  PROVE  keys[k] \in Row
BY DEF KeysTypeOK, Used

LEMMA RequestRow ==
  ASSUME KeysTypeOK, NEW r \in Request, pc[r] # "idle"
  PROVE  /\ ctx[r] \in Row
         /\ pc[r] = "rotating" => job[r] \in Job
BY DEF KeysTypeOK

LEMMA AgedOutRow ==
  ASSUME KeysTypeOK, NEW r \in Request, pc[r] = "rotating", job[r].old \in Used
  PROVE  /\ AgedOut(r) \in Row
         /\ SameKey(AgedOut(r), keys[job[r].old])
         /\ ~keys[job[r].old].active => ~AgedOut(r).active
<1>1. keys[job[r].old] \in Row
  BY UsedRow
<1>2. job[r].until \in Nat
  BY RequestRow DEF Job
<1>3. AgedOut(r) \in Row
  BY <1>1, <1>2 DEF AgedOut, Row
<1>4. SameKey(AgedOut(r), keys[job[r].old])
  BY DEF AgedOut, SameKey
<1>5. ~keys[job[r].old].active => ~AgedOut(r).active
  BY Zenon DEF AgedOut
<1> QED
  BY <1>3, <1>4, <1>5

LEMMA RevokedRow ==
  ASSUME KeysTypeOK, NEW k \in Used
  PROVE  Revoked(k) \in Row /\ SameKey(Revoked(k), keys[k]) /\ ~Revoked(k).active
<1>1. keys[k] \in Row
  BY UsedRow
<1>2. Revoked(k) \in Row
  BY <1>1 DEF Revoked, Row, KeysTypeOK
<1>3. SameKey(Revoked(k), keys[k])
  BY DEF Revoked, SameKey
<1>4. ~Revoked(k).active
  BY Zenon DEF Revoked
<1> QED
  BY <1>2, <1>3, <1>4

LEMMA SuccessorRow ==
  ASSUME KeysTypeOK, NEW r \in Request, pc[r] = "rotating", job[r].row.room > 0
  PROVE  Successor(r) \in Row
<1>1. ctx[r] \in Row /\ job[r].row \in Row /\ job[r].old \in KeyId
  BY RequestRow DEF Job
<1>2. job[r].row.room - 1 \in 0..NameRoom
  BY <1>1, KeysAssumption DEF Row
<1> QED
  BY <1>1, <1>2 DEF Successor, Row

\* What each step does to the table: one new key at most, and a used key is
\* written by ageing it out or revoking it.
LEMMA StepKeys ==
  ASSUME KeysTypeOK, JobCurrent, KeysNext
  PROVE  /\ keys' \in [KeyId -> Row \cup {NoKey}]
         /\ \A k \in Used : Steady(k)
<1> USE DEF KeysTypeOK
<1>u. ASSUME keys' = keys
      PROVE  \A k \in Used : Steady(k)
  BY <1>u, Zenon DEF Steady, SameKey, Used
<1>n. ASSUME NEW n \in KeyId, n \notin Used, NEW row \in Row,
             keys' = [keys EXCEPT ![n] = row]
      PROVE  /\ keys' \in [KeyId -> Row \cup {NoKey}]
             /\ \A k \in Used : Steady(k)
  <2>1. \A k \in Used : keys'[k] = keys[k]
    BY <1>n DEF Used
  <2>2. \A k \in Used : Steady(k)
    BY <2>1, Zenon DEF Steady, SameKey, Used
  <2> QED
    BY <1>n, <2>2
<1>1. ASSUME NEW k \in KeyId, NEW t \in Tenant, NEW scope \in Scope, Seed(k, t, scope)
      PROVE  /\ keys' \in [KeyId -> Row \cup {NoKey}]
             /\ \A j \in Used : Steady(j)
  BY <1>1, <1>n, NewRowType DEF Seed
<1>2. ASSUME NEW r \in Request, NEW k \in KeyId, NEW scope \in Scope,
             NEW life \in Lifetimes, Mint(r, k, scope, life)
      PROVE  /\ keys' \in [KeyId -> Row \cup {NoKey}]
             /\ \A j \in Used : Steady(j)
  <2> DEFINE end == IF life = Forever THEN Forever ELSE now + life
  <2>1. end \in Nat \cup {Forever}
    BY KeysAssumption
  <2>2. ctx[r].tenant \in Tenant
    BY <1>2, RequestRow DEF Mint, MayAdminister, Row
  <2>3. NewRow(ctx[r].tenant, scope, end) \in Row
    BY <2>1, <2>2, NewRowType
  <2> QED
    BY <1>2, <2>3, <1>n DEF Mint
<1>3. ASSUME NEW r \in Request, NEW n \in KeyId, RotateWrite(r, n)
      PROVE  /\ keys' \in [KeyId -> Row \cup {NoKey}]
             /\ \A j \in Used : Steady(j)
  <2>1. pc[r] = "rotating" /\ n \notin Used /\ job[r].old \in Used
    BY <1>3 DEF RotateWrite, JobCurrent
  <2>2. Successor(r) \in Row /\ AgedOut(r) \in Row
    BY <1>3, <2>1, SuccessorRow, AgedOutRow DEF RotateWrite
  <2>3. keys' = [keys EXCEPT ![n] = Successor(r), ![job[r].old] = AgedOut(r)]
    BY <1>3 DEF RotateWrite
  <2>4. \A k \in Used : keys'[k] = IF k = job[r].old THEN AgedOut(r) ELSE keys[k]
    BY <2>1, <2>3 DEF Used
  <2>5. AgedOut(r) # NoKey
    BY <2>2, RowNotNull
  <2>6. ASSUME NEW k \in Used
        PROVE  Steady(k)
    <3>1. CASE k = job[r].old
      <4>1. keys'[k] = AgedOut(r)
        BY <2>4, <3>1
      <4> QED
        BY <4>1, <3>1, <2>1, <2>5, AgedOutRow, Zenon DEF Steady
    <3>2. CASE k # job[r].old
      <4>1. keys'[k] = keys[k]
        BY <2>4, <3>2
      <4> QED
        BY <4>1, Zenon DEF Steady, SameKey, Used
    <3> QED
      BY <3>1, <3>2
  <2>7. keys' \in [KeyId -> Row \cup {NoKey}]
    BY <2>2, <2>3
  <2> QED
    BY <2>6, <2>7
<1>4. ASSUME NEW r \in Request, NEW n \in KeyId, Revoke(r, n)
      PROVE  /\ keys' \in [KeyId -> Row \cup {NoKey}]
             /\ \A j \in Used : Steady(j)
  <2>1. n \in Used
    BY <1>4 DEF Revoke, OwnKeys
  <2>2. Revoked(n) \in Row /\ SameKey(Revoked(n), keys[n]) /\ ~Revoked(n).active
    BY <2>1, RevokedRow
  <2>3. keys' = [keys EXCEPT ![n] = Revoked(n)]
    BY <1>4 DEF Revoke
  <2>4. \A k \in Used : keys'[k] = IF k = n THEN Revoked(n) ELSE keys[k]
    BY <2>3 DEF Used
  <2>5. Revoked(n) # NoKey
    BY <2>2, RowNotNull
  <2>6. ASSUME NEW k \in Used
        PROVE  Steady(k)
    <3>1. CASE k = n
      <4>1. keys'[k] = Revoked(n)
        BY <2>4, <3>1
      <4> QED
        BY <4>1, <3>1, <2>2, <2>5, Zenon DEF Steady
    <3>2. CASE k # n
      <4>1. keys'[k] = keys[k]
        BY <2>4, <3>2
      <4> QED
        BY <4>1, Zenon DEF Steady, SameKey, Used
    <3> QED
      BY <3>1, <3>2
  <2>7. keys' \in [KeyId -> Row \cup {NoKey}]
    BY <2>2, <2>3
  <2> QED
    BY <2>6, <2>7
<1>5. ASSUME NEW r \in Request, Admit(r) \/ Reject(r) \/ Respond(r)
      PROVE  keys' = keys
  BY <1>5 DEF Admit, Reject, Respond
<1>6. ASSUME NEW r \in Request, NEW k \in KeyId,
             Lookup(r, k) \/ \E grace \in Graces : RotateRead(r, k, grace)
      PROVE  keys' = keys
  BY <1>6 DEF Lookup, RotateRead
<1>7. ClockTick => keys' = keys
  BY DEF ClockTick
<1> QED
  BY <1>u, <1>1, <1>2, <1>3, <1>4, <1>5, <1>6, <1>7 DEF KeysNext

\* What each step does to a request: only a lookup takes up a row, only
\* RotateRead takes up a rotation, and both keep it until the request ends.
LEMMA StepRequest ==
  ASSUME KeysTypeOK, KeysNext, NEW r \in Request
  PROVE  \/ pc'[r] = pc[r] /\ ctx'[r] = ctx[r] /\ job'[r] = job[r]
         \/ pc'[r] = "idle" /\ ctx'[r] = NoKey /\ job'[r] = NoKey
         \/ /\ pc'[r] = "looked" /\ ctx'[r] \in Row /\ job'[r] = job[r]
         \/ /\ pc[r] = "looked" /\ pc'[r] = "admitted"
            /\ ctx'[r] = ctx[r] /\ job'[r] = job[r]
         \/ /\ \E k \in KeyId, grace \in Graces : RotateRead(r, k, grace)
            /\ ctx'[r] = ctx[r]
<1> USE DEF KeysTypeOK
<1>1. ASSUME NEW k \in KeyId, NEW t \in Tenant, NEW scope \in Scope, Seed(k, t, scope)
      PROVE  pc'[r] = pc[r] /\ ctx'[r] = ctx[r] /\ job'[r] = job[r]
  BY <1>1 DEF Seed
<1>2. ASSUME NEW q \in Request, Admit(q)
      PROVE  \/ pc'[r] = pc[r] /\ ctx'[r] = ctx[r] /\ job'[r] = job[r]
             \/ /\ pc[r] = "looked" /\ pc'[r] = "admitted"
                /\ ctx'[r] = ctx[r] /\ job'[r] = job[r]
  BY <1>2 DEF Admit
<1>3. ASSUME NEW q \in Request, End(q)
      PROVE  \/ pc'[r] = pc[r] /\ ctx'[r] = ctx[r] /\ job'[r] = job[r]
             \/ pc'[r] = "idle" /\ ctx'[r] = NoKey /\ job'[r] = NoKey
  BY <1>3 DEF End
<1>4. ASSUME NEW q \in Request, NEW k \in KeyId, Lookup(q, k)
      PROVE  \/ pc'[r] = pc[r] /\ ctx'[r] = ctx[r] /\ job'[r] = job[r]
             \/ /\ pc'[r] = "looked" /\ ctx'[r] \in Row /\ job'[r] = job[r]
  <2>1. keys[k] \in Row
    BY <1>4, UsedRow DEF Lookup
  <2> QED
    BY <1>4, <2>1 DEF Lookup
<1>5. ASSUME NEW q \in Request, NEW k \in KeyId, NEW grace \in Graces, RotateRead(q, k, grace)
      PROVE  \/ pc'[r] = pc[r] /\ ctx'[r] = ctx[r] /\ job'[r] = job[r]
             \/ q = r /\ ctx'[r] = ctx[r]
  BY <1>5 DEF RotateRead
<1>6. ASSUME NEW q \in Request, NEW k \in KeyId
      PROVE  /\ Reject(q) \/ Respond(q) \/ RotateWrite(q, k) \/ Revoke(q, k) => End(q)
             /\ \A scope \in Scope, life \in Lifetimes : Mint(q, k, scope, life) => End(q)
  BY DEF Reject, Respond, RotateWrite, Revoke, Mint
<1>7. ClockTick => pc'[r] = pc[r] /\ ctx'[r] = ctx[r] /\ job'[r] = job[r]
  BY DEF ClockTick
<1>8. CASE \E k \in KeyId, t \in Tenant, scope \in Scope : Seed(k, t, scope)
  BY <1>8, <1>1
<1>9. CASE ClockTick
  BY <1>9, <1>7
<1>10. ASSUME NEW q \in Request,
              \/ Admit(q) \/ Reject(q) \/ Respond(q)
              \/ \E k \in KeyId :
                   \/ Lookup(q, k) \/ RotateWrite(q, k) \/ Revoke(q, k)
                   \/ \E scope \in Scope, life \in Lifetimes : Mint(q, k, scope, life)
                   \/ \E grace \in Graces : RotateRead(q, k, grace)
       PROVE  \/ pc'[r] = pc[r] /\ ctx'[r] = ctx[r] /\ job'[r] = job[r]
              \/ pc'[r] = "idle" /\ ctx'[r] = NoKey /\ job'[r] = NoKey
              \/ /\ pc'[r] = "looked" /\ ctx'[r] \in Row /\ job'[r] = job[r]
              \/ /\ pc[r] = "looked" /\ pc'[r] = "admitted"
                 /\ ctx'[r] = ctx[r] /\ job'[r] = job[r]
              \/ /\ \E k \in KeyId, grace \in Graces : RotateRead(r, k, grace)
                 /\ ctx'[r] = ctx[r]
  <2>1. CASE Admit(q)
    BY <1>2, <2>1
  <2>2. CASE Reject(q) \/ Respond(q)
    <3>1. End(q)
      BY <2>2 DEF Reject, Respond
    <3> QED
      BY <1>3, <3>1
  <2>3. ASSUME NEW k \in KeyId, Lookup(q, k)
        PROVE  \/ pc'[r] = pc[r] /\ ctx'[r] = ctx[r] /\ job'[r] = job[r]
               \/ /\ pc'[r] = "looked" /\ ctx'[r] \in Row /\ job'[r] = job[r]
    BY <1>4, <2>3
  <2>4. ASSUME NEW k \in KeyId,
               \/ RotateWrite(q, k) \/ Revoke(q, k)
               \/ \E scope \in Scope, life \in Lifetimes : Mint(q, k, scope, life)
        PROVE  \/ pc'[r] = pc[r] /\ ctx'[r] = ctx[r] /\ job'[r] = job[r]
               \/ pc'[r] = "idle" /\ ctx'[r] = NoKey /\ job'[r] = NoKey
    <3>1. End(q)
      BY <2>4, <1>6
    <3> QED
      BY <1>3, <3>1
  <2>5. ASSUME NEW k \in KeyId, NEW grace \in Graces, RotateRead(q, k, grace)
        PROVE  \/ pc'[r] = pc[r] /\ ctx'[r] = ctx[r] /\ job'[r] = job[r]
               \/ /\ \E j \in KeyId, g \in Graces : RotateRead(r, j, g)
                  /\ ctx'[r] = ctx[r]
    BY <1>5, <2>5
  <2> QED
    BY <1>10, <2>1, <2>2, <2>3, <2>4, <2>5
<1> QED
  BY <1>8, <1>9, <1>10 DEF KeysNext

LEMMA RotateReadJob ==
  ASSUME KeysTypeOK, NEW r \in Request, NEW k \in KeyId, NEW grace \in Graces,
         RotateRead(r, k, grace)
  PROVE  /\ pc'[r] = "rotating" /\ pc[r] = "admitted"
         /\ job'[r] \in Job
         /\ job'[r].old = k /\ job'[r].row = keys[k]
         /\ k \in Used /\ keys[k].tenant = ctx[r].tenant /\ ctx[r].scope \in Admins
<1> DEFINE new == [old |-> k, row |-> keys[k], until |-> now + grace]
<1>1. k \in Used /\ keys[k].tenant = ctx[r].tenant /\ ctx[r].scope \in Admins
  BY DEF RotateRead, OwnKeys, MayAdminister
<1>2. keys[k] \in Row /\ now + grace \in Nat
  BY <1>1, UsedRow, KeysAssumption DEF KeysTypeOK
<1>3. new \in Job
  BY <1>2 DEF Job
<1>4. job'[r] = new /\ pc'[r] = "rotating" /\ pc[r] = "admitted"
  BY DEF RotateRead, KeysTypeOK, MayAdminister
<1>5. new.old = k /\ new.row = keys[k]
  OBVIOUS
<1> QED
  BY <1>1, <1>3, <1>4, <1>5

LEMMA TypeStep ==
  ASSUME KeysTypeOK, JobCurrent, KeysNext
  PROVE  KeysTypeOK'
<1>1. keys' \in [KeyId -> Row \cup {NoKey}]
  BY StepKeys
<1>2. now' \in Nat
  BY DEF KeysTypeOK, KeysNext, Seed, Admit, Reject, Respond, Lookup, RotateWrite,
         Revoke, Mint, RotateRead, ClockTick
<1>3. ASSUME NEW r \in Request
      PROVE  /\ pc'[r] \in {"idle", "looked", "admitted", "rotating"}
             /\ ctx'[r] \in Row \cup {NoKey}
             /\ job'[r] \in Job \cup {NoKey}
             /\ pc'[r] # "idle" => ctx'[r] # NoKey
             /\ pc'[r] = "rotating" => job'[r] # NoKey
  BY StepRequest, RotateReadJob, RowNotNull DEF KeysTypeOK
<1>4. /\ DOMAIN pc' = Request /\ DOMAIN ctx' = Request /\ DOMAIN job' = Request
      /\ pc' = [r \in Request |-> pc'[r]]
      /\ ctx' = [r \in Request |-> ctx'[r]]
      /\ job' = [r \in Request |-> job'[r]]
  BY DEF KeysTypeOK, KeysNext, Seed, Admit, Reject, Respond, Lookup, RotateWrite,
         Revoke, Mint, RotateRead, ClockTick, End
<1> QED
  BY <1>1, <1>2, <1>3, <1>4 DEF KeysTypeOK

LEMMA JobStep ==
  ASSUME KeysTypeOK, JobCurrent, KeysNext
  PROVE  JobCurrent'
<1> SUFFICES ASSUME NEW r \in Request, pc'[r] = "rotating"
             PROVE  /\ ctx'[r].scope \in Admins /\ ctx'[r].tenant = job'[r].row.tenant
                    /\ job'[r].old \in Used'
                    /\ job'[r].row.tenant = keys'[job'[r].old].tenant
                    /\ job'[r].row.scope = keys'[job'[r].old].scope
                    /\ job'[r].row.room = keys'[job'[r].old].room
  BY DEF JobCurrent
<1>1. CASE pc'[r] = pc[r] /\ ctx'[r] = ctx[r] /\ job'[r] = job[r]
  <2>1. /\ job[r].old \in Used /\ job'[r].old = job[r].old
        /\ ctx[r].scope \in Admins /\ ctx[r].tenant = job[r].row.tenant
        /\ job[r].row.tenant = keys[job[r].old].tenant
        /\ job[r].row.scope = keys[job[r].old].scope
        /\ job[r].row.room = keys[job[r].old].room
    BY <1>1 DEF JobCurrent
  <2>2. Steady(job[r].old)
    BY <2>1, StepKeys
  <2>3. job[r].old \in Used'
    BY <2>1, <2>2 DEF Used, Steady
  <2> QED
    BY <1>1, <2>1, <2>2, <2>3 DEF Steady, SameKey
<1>2. ASSUME NEW k \in KeyId, NEW grace \in Graces, RotateRead(r, k, grace), ctx'[r] = ctx[r]
      PROVE  /\ ctx'[r].scope \in Admins /\ ctx'[r].tenant = job'[r].row.tenant
             /\ job'[r].old \in Used'
             /\ job'[r].row.tenant = keys'[job'[r].old].tenant
             /\ job'[r].row.scope = keys'[job'[r].old].scope
             /\ job'[r].row.room = keys'[job'[r].old].room
  <2>1. keys' = keys
    BY <1>2 DEF RotateRead
  <2> QED
    BY <1>2, <2>1, RotateReadJob DEF Used
<1> QED
  BY <1>1, <1>2, StepRequest

\* A key that appears is the head of a chain, or succeeds the key a request
\* has rotated.
LEMMA NewKeys ==
  ASSUME KeysTypeOK, JobCurrent, KeysNext, NEW k \in KeyId, k \notin Used, keys'[k] # NoKey
  PROVE  \/ keys'[k].parent = NoKey
         \/ \E r \in Request : RotateWrite(r, k) /\ keys'[k] = Successor(r)
<1> USE DEF KeysTypeOK
<1>0. keys[k] = NoKey
  BY DEF Used
<1>1. ASSUME NEW n \in KeyId, NEW t, NEW scope, NEW end,
             keys' = [keys EXCEPT ![n] = NewRow(t, scope, end)]
      PROVE  keys'[k].parent = NoKey
  BY <1>0, <1>1 DEF NewRow
<1>2. ASSUME NEW n \in KeyId, NEW t \in Tenant, NEW scope \in Scope, Seed(n, t, scope)
      PROVE  keys'[k].parent = NoKey
  BY <1>1, <1>2 DEF Seed
<1>3. ASSUME NEW r \in Request, NEW n \in KeyId, NEW scope \in Scope,
             NEW life \in Lifetimes, Mint(r, n, scope, life)
      PROVE  keys'[k].parent = NoKey
  BY <1>1, <1>3 DEF Mint
<1>4. ASSUME NEW r \in Request, NEW n \in KeyId, RotateWrite(r, n)
      PROVE  RotateWrite(r, k) /\ keys'[k] = Successor(r)
  <2>1. job[r].old \in Used /\ job[r].old # k
    BY <1>4 DEF RotateWrite, JobCurrent
  <2>2. keys' = [keys EXCEPT ![n] = Successor(r), ![job[r].old] = AgedOut(r)]
    BY <1>4 DEF RotateWrite
  <2>3. n = k
    BY <1>0, <2>1, <2>2
  <2> QED
    BY <1>4, <2>1, <2>2, <2>3
<1>5. ASSUME NEW r \in Request, NEW n \in KeyId, Revoke(r, n)
      PROVE  FALSE
  <2>1. n \in Used /\ n # k /\ keys' = [keys EXCEPT ![n] = Revoked(n)]
    BY <1>5 DEF Revoke, OwnKeys
  <2> QED
    BY <1>0, <2>1
<1>6. keys' # keys
  BY <1>0
<1>7. ASSUME NEW r \in Request, NEW n \in KeyId
      PROVE  /\ ~Admit(r) /\ ~Reject(r) /\ ~Respond(r) /\ ~Lookup(r, n) /\ ~ClockTick
             /\ \A grace \in Graces : ~RotateRead(r, n, grace)
  BY <1>6 DEF Admit, Reject, Respond, Lookup, RotateRead, ClockTick
<1>8. ~ClockTick /\ \A r \in Request : ~Admit(r) /\ ~Reject(r) /\ ~Respond(r)
  BY <1>6 DEF Admit, Reject, Respond, ClockTick
<1> QED
  BY <1>2, <1>3, <1>4, <1>5, <1>7, <1>8 DEF KeysNext

LEMMA ChainStep ==
  ASSUME KeysTypeOK, JobCurrent, ChainKeepsScope, KeysNext
  PROVE  ChainKeepsScope'
<1> SUFFICES ASSUME NEW k \in KeyId, keys'[k] # NoKey, keys'[k].parent # NoKey
             PROVE  LET p == keys'[k].parent IN
                    /\ p \in Used'
                    /\ keys'[p].tenant = keys'[k].tenant
                    /\ keys'[p].scope = keys'[k].scope
                    /\ keys'[k].room < keys'[p].room
  BY DEF ChainKeepsScope, Used
<1>1. CASE k \in Used
  <2> DEFINE p == keys[k].parent
  <2>1. Steady(k)
    BY <1>1, StepKeys
  <2>2. keys'[k].parent = p
    BY <2>1 DEF Steady, SameKey
  <2>3. p \in Used /\ keys[p].tenant = keys[k].tenant /\ keys[p].scope = keys[k].scope
        /\ keys[k].room < keys[p].room
    BY <1>1, <2>2 DEF ChainKeepsScope
  <2>4. Steady(p) /\ p \in Used'
    BY <2>3, StepKeys DEF Steady, Used
  <2> QED
    BY <2>1, <2>2, <2>3, <2>4 DEF Steady, SameKey
<1>2. CASE k \notin Used
  <2>1. PICK r \in Request : RotateWrite(r, k) /\ keys'[k] = Successor(r)
    BY <1>2, NewKeys
  <2> DEFINE p == job[r].old
  <2>2. /\ p \in Used /\ ctx[r].tenant = keys[p].tenant
        /\ job[r].row.scope = keys[p].scope /\ job[r].row.room = keys[p].room
    BY <2>1 DEF JobCurrent, RotateWrite
  <2>3. Steady(p) /\ p \in Used'
    BY <2>2, StepKeys DEF Steady, Used
  <2>4. /\ keys'[k].parent = p /\ keys'[k].tenant = ctx[r].tenant
        /\ keys'[k].scope = job[r].row.scope /\ keys'[k].room = job[r].row.room - 1
    BY <2>1 DEF Successor
  <2>5. job[r].row.room \in Nat
    BY <2>2, UsedRow DEF Row
  <2> QED
    BY <2>2, <2>3, <2>4, <2>5 DEF Steady, SameKey
<1> QED
  BY <1>1, <1>2

\* Who may have changed a key.
ByOwnAdmin(k) ==
  \E r \in Request :
    /\ pc[r] \in {"admitted", "rotating"} /\ pc'[r] = "idle"
    /\ ctx[r].scope \in Admins /\ ctx[r].tenant = keys'[k].tenant

AtTheShell(k) ==
  k \notin Used /\ keys'[k] = NewRow(keys'[k].tenant, keys'[k].scope, Forever)

LEMMA ChangedBy ==
  ASSUME KeysTypeOK, JobCurrent, KeysNext, NEW k \in KeyId, keys'[k] # keys[k]
  PROVE  AtTheShell(k) \/ ByOwnAdmin(k)
<1> USE DEF KeysTypeOK
<1>e. ASSUME NEW r \in Request, pc[r] \in {"admitted", "rotating"}, End(r),
             ctx[r].scope \in Admins, ctx[r].tenant = keys'[k].tenant
      PROVE  ByOwnAdmin(k)
  BY <1>e DEF End, ByOwnAdmin
<1>2. ASSUME NEW n \in KeyId, NEW t \in Tenant, NEW scope \in Scope, Seed(n, t, scope)
      PROVE  AtTheShell(k)
  <2>1. n = k /\ k \notin Used /\ keys'[k] = NewRow(t, scope, Forever)
    BY <1>2 DEF Seed
  <2>2. keys'[k].tenant = t /\ keys'[k].scope = scope
    BY <2>1 DEF NewRow
  <2> QED
    BY <2>1, <2>2 DEF AtTheShell
<1>3. ASSUME NEW r \in Request, NEW n \in KeyId, NEW scope \in Scope,
             NEW life \in Lifetimes, Mint(r, n, scope, life)
      PROVE  ByOwnAdmin(k)
  <2>1. n = k
    BY <1>3 DEF Mint
  <2>2. keys'[k].tenant = ctx[r].tenant
    BY <1>3, <2>1 DEF Mint, NewRow
  <2> QED
    BY <1>3, <2>2, <1>e DEF Mint, MayAdminister
<1>4. ASSUME NEW r \in Request, NEW n \in KeyId, RotateWrite(r, n)
      PROVE  ByOwnAdmin(k)
  <2> DEFINE p == job[r].old
  <2>1. /\ p \in Used /\ ctx[r].scope \in Admins /\ ctx[r].tenant = keys[p].tenant
        /\ pc[r] = "rotating" /\ End(r)
    BY <1>4 DEF RotateWrite, JobCurrent
  <2>2. keys' = [keys EXCEPT ![n] = Successor(r), ![p] = AgedOut(r)]
    BY <1>4 DEF RotateWrite
  <2>3. CASE k = p
    <3>1. keys'[k].tenant = keys[p].tenant
      BY <2>1, <2>2, <2>3 DEF AgedOut, Used
    <3> QED
      BY <2>1, <3>1, <1>e
  <2>4. CASE k # p
    <3>1. keys'[k] = Successor(r)
      BY <2>2, <2>4
    <3>2. keys'[k].tenant = ctx[r].tenant
      BY <3>1 DEF Successor
    <3> QED
      BY <2>1, <3>2, <1>e
  <2> QED
    BY <2>3, <2>4
<1>5. ASSUME NEW r \in Request, NEW n \in KeyId, Revoke(r, n)
      PROVE  ByOwnAdmin(k)
  <2>1. n = k /\ keys'[k] = Revoked(k) /\ keys[k].tenant = ctx[r].tenant
    BY <1>5 DEF Revoke, OwnKeys
  <2>2. keys'[k].tenant = ctx[r].tenant
    BY <2>1 DEF Revoked
  <2> QED
    BY <1>5, <2>2, <1>e DEF Revoke, MayAdminister
<1>7. ASSUME NEW r \in Request, NEW n \in KeyId
      PROVE  /\ ~Lookup(r, n)
             /\ \A grace \in Graces : ~RotateRead(r, n, grace)
  BY DEF Lookup, RotateRead
<1>8. ~ClockTick /\ \A r \in Request : ~Admit(r) /\ ~Reject(r) /\ ~Respond(r)
  BY DEF Admit, Reject, Respond, ClockTick
<1> QED
  BY <1>2, <1>3, <1>4, <1>5, <1>7, <1>8 DEF KeysNext

-----------------------------------------------------------------------------
(***************************************************************************)
(* KeysInv is an invariant: types, what a rotation has read still holds,   *)
(* and a successor has the tenant and scope of the key it replaces         *)
(* (rotate_key's second statement acts on what its first one read).        *)
(***************************************************************************)
THEOREM KeysInvariant == KeysSpec => []KeysInv
<1>1. KeysInit => KeysInv
  BY KeysAssumption DEF KeysInit, KeysInv, KeysTypeOK, JobCurrent, ChainKeepsScope, Used
<1>2. KeysInv /\ [KeysNext]_keyVars => KeysInv'
  <2> SUFFICES ASSUME KeysInv, [KeysNext]_keyVars
               PROVE  KeysInv'
    OBVIOUS
  <2>1. CASE KeysNext
    BY <2>1, TypeStep, JobStep, ChainStep DEF KeysInv
  <2>2. CASE UNCHANGED keyVars
    BY <2>2 DEF keyVars, KeysInv, KeysTypeOK, JobCurrent, ChainKeepsScope, Used
  <2> QED
    BY <2>1, <2>2
<1> QED
  BY <1>1, <1>2, PTL DEF KeysSpec

(***************************************************************************)
(* Every key is a whole row and every request acts on one it has read      *)
(* (mint_key, rotate_key, revoke_key).                                     *)
(***************************************************************************)
THEOREM KeysTypeHolds == KeysSpec => []KeysTypeOK
<1>1. KeysInv => KeysTypeOK
  BY DEF KeysInv
<1> QED
  BY <1>1, KeysInvariant, PTL

(***************************************************************************)
(* Every rotation chain keeps tenant and scope and runs out of name        *)
(* (the INSERT of rotate_key), for any number of keys and requests.        *)
(***************************************************************************)
THEOREM ChainHolds == KeysSpec => []ChainKeepsScope
<1>1. KeysInv => ChainKeepsScope
  BY DEF KeysInv
<1> QED
  BY <1>1, KeysInvariant, PTL

(***************************************************************************)
(* No interleaving of rotations and revocations makes a revoked key live   *)
(* again: rotate_key writes expires_at only, never is_active.              *)
(***************************************************************************)
THEOREM RevocationHolds == KeysSpec => RevocationSticks
<1>1. KeysInv /\ [KeysNext]_keyVars
      => [\A k \in Used : ~keys[k].active => ~keys'[k].active]_keyVars
  <2> SUFFICES ASSUME KeysInv, KeysNext, NEW k \in Used, ~keys[k].active
               PROVE  ~keys'[k].active
    BY Zenon
  <2>1. Steady(k)
    BY StepKeys DEF KeysInv
  <2> QED
    BY <2>1, Zenon DEF Steady
<1> QED
  BY <1>1, KeysInvariant, PTL DEF KeysSpec, RevocationSticks

(***************************************************************************)
(* The endpoints change keys of the caller's tenant only, and only for a   *)
(* tenant_admin, whatever other requests do between their statements.      *)
(***************************************************************************)
THEOREM OwnAdminsHold == KeysSpec => OnlyOwnAdmins
<1> DEFINE OwnStep ==
      \A k \in KeyId : keys'[k] # keys[k] =>
        /\ k \in Used => keys'[k].tenant = keys[k].tenant
        /\ \/ k \notin Used /\ keys'[k] = NewRow(keys'[k].tenant, keys'[k].scope, Forever)
           \/ \E r \in Request :
                /\ pc[r] \in {"admitted", "rotating"} /\ pc'[r] = "idle"
                /\ ctx[r].scope \in Admins /\ ctx[r].tenant = keys'[k].tenant
<1>1. KeysInv /\ [KeysNext]_keyVars => [OwnStep]_keyVars
  <2> SUFFICES ASSUME KeysInv, KeysNext
               PROVE  OwnStep
    BY Zenon
  <2> SUFFICES ASSUME NEW k \in KeyId, keys'[k] # keys[k]
               PROVE  /\ k \in Used => keys'[k].tenant = keys[k].tenant
                      /\ AtTheShell(k) \/ ByOwnAdmin(k)
    BY Zenon DEF AtTheShell, ByOwnAdmin
  <2>1. AtTheShell(k) \/ ByOwnAdmin(k)
    BY ChangedBy DEF KeysInv
  <2>2. k \in Used => keys'[k].tenant = keys[k].tenant
    BY StepKeys DEF KeysInv, Steady, SameKey
  <2> QED
    BY <2>1, <2>2
<1> QED
  BY <1>1, KeysInvariant, PTL DEF KeysSpec, OnlyOwnAdmins

-----------------------------------------------------------------------------
(***************************************************************************)
(* LabelTrue and Recoverable are invariants for any number of secrets,     *)
(* processes, plaintexts and turnovers.                                    *)
(*                                                                         *)
(* Recoverable is not inductive: a store may write with any key a call     *)
(* holds, and a turnover moves the keys that count.  TwoKeys adds what     *)
(* keeps both in step: processes are at most one version behind, a call    *)
(* holds the key of its process, and a settled deployment has one key.     *)
(***************************************************************************)

TwoKeys ==
  /\ \A p \in Procs : env[p] \in {master - 1, master}
  /\ \A p \in Procs : calls[p] # None => calls[p].kv = env[p]
  /\ \A r \in Refs : rows[r] # None =>
       rows[r].value = last[r] /\ rows[r].key \in {master - 1, master}
  /\ \A r \in Refs : rows[r] = None => last[r] = None
  /\ settled => /\ \A p \in Procs : env[p] = master
                /\ \A r \in Refs : rows[r] # None => rows[r].key = master

SecretsInv == SecretsTypeOK /\ LabelTrue /\ TwoKeys

USE DEF SecretRow, Call, Versions

LEMMA InitSecrets == SecretsInit => SecretsInv
BY SecretsAssumption DEF SecretsInit, SecretsInv, SecretsTypeOK, LabelTrue, TwoKeys

LEMMA StepSecrets == SecretsInv /\ [SecretsNext]_vars => SecretsInv'
<1> SUFFICES ASSUME SecretsInv, [SecretsNext]_vars PROVE SecretsInv'
  OBVIOUS
<1> USE SecretsAssumption, NoneAssumption DEF SecretsInv, SecretsTypeOK, LabelTrue, TwoKeys
<1>1. ASSUME NEW p \in Procs, NEW r \in Refs, NEW v \in Values, BeginStore(p, r, v)
      PROVE  SecretsInv'
  <2> DEFINE c == [ref |-> r, value |-> v, kv |-> env[p]]
  <2>1. c \in Call /\ c # None /\ c.kv = env[p]
    BY <1>1
  <2>2. calls' = [calls EXCEPT ![p] = c]
    BY <1>1 DEF BeginStore
  <2> HIDE DEF c
  <2> QED
    BY <1>1, <2>1, <2>2 DEF BeginStore
<1>2. ASSUME NEW p \in Procs, Store(p) PROVE SecretsInv'
  <2> DEFINE c == calls[p]
             u == [key |-> c.kv, value |-> c.value, version |-> c.kv]
  <2>1. c \in Call /\ c.ref \in Refs /\ c.value \in Values /\ c.kv = env[p]
    BY <1>2 DEF Store
  <2>2. u \in SecretRow /\ u # None /\ u.key = u.version /\ u.key = env[p] /\ u.value = c.value
    BY <2>1
  <2>3. /\ rows' = [rows EXCEPT ![c.ref] = u]
        /\ last' = [last EXCEPT ![c.ref] = c.value]
        /\ calls' = [calls EXCEPT ![p] = None]
        /\ UNCHANGED <<env, master, settled, stores>>
    BY <1>2 DEF Store, Upserted
  <2>4. c.value # None
    BY <2>1
  <2> HIDE DEF c, u
  <2>5. SecretsTypeOK' /\ LabelTrue'
    BY <2>1, <2>2, <2>3
  <2>6. \A r \in Refs : rows'[r] # None =>
          rows'[r].value = last'[r] /\ rows'[r].key \in {master' - 1, master'}
    BY <2>1, <2>2, <2>3
  <2> QED
    BY <2>1, <2>2, <2>3, <2>5, <2>6
<1>3. ASSUME NEW p \in Procs, StoreFails(p) PROVE SecretsInv'
  BY <1>3 DEF StoreFails
<1>4. ASSUME NEW p \in Procs, Redeploy(p) PROVE SecretsInv'
  BY <1>4 DEF Redeploy
<1>5. CASE Turn
  <2>1. settled /\ master' = master + 1 /\ settled' = FALSE /\ master' \in Versions
    BY <1>5 DEF Turn
  <2>2. UNCHANGED <<rows, env, calls, last, stores>>
    BY <1>5 DEF Turn
  <2>3. SecretsTypeOK' /\ LabelTrue'
    BY <2>1, <2>2
  <2>4. master' - 1 = master
    BY <2>1
  <2>5. \A p \in Procs : env'[p] \in {master' - 1, master'}
    BY <2>1, <2>2, <2>4
  <2>6. \A r \in Refs : rows'[r] # None =>
          rows'[r].value = last'[r] /\ rows'[r].key \in {master' - 1, master'}
    BY <2>1, <2>2, <2>4
  <2> QED
    BY <2>1, <2>2, <2>3, <2>5, <2>6
<1>6. CASE Rewrap
  <2>1. \A r \in Refs : rows[r] # None /\ rows'[r] # rows[r] =>
          /\ Behind(r) /\ rows'[r] = Rewrapped(rows[r])
    BY <1>6 DEF Rewrap, Behind
  <2>2. \A r \in Refs : rows[r] # None =>
          /\ rows'[r] \in SecretRow /\ rows'[r].key = master /\ rows'[r].version = master
          /\ rows'[r].value = rows[r].value
    <3> SUFFICES ASSUME NEW r \in Refs, rows[r] # None
                 PROVE  /\ rows'[r] \in SecretRow /\ rows'[r].key = master
                        /\ rows'[r].version = master /\ rows'[r].value = rows[r].value
      OBVIOUS
    <3>1. CASE Behind(r)
      BY <1>6, <3>1 DEF Rewrap, Rewrapped
    <3>2. CASE ~Behind(r)
      BY <1>6, <3>2 DEF Rewrap, Behind
    <3> QED
      BY <3>1, <3>2
  <2>3. \A r \in Refs : rows[r] = None => rows'[r] = None
    BY <1>6 DEF Rewrap, Behind
  <2>4. rows' \in [Refs -> SecretRow \cup {None}]
    <3>1. \A r \in Refs : rows'[r] \in SecretRow \cup {None}
      BY <2>2, <2>3
    <3> QED
      BY <1>6, <3>1 DEF Rewrap
  <2>5. settled' => \A p \in Procs : env[p] = master
    BY <1>6 DEF Rewrap
  <2>6. settled' \in BOOLEAN /\ UNCHANGED <<env, calls, master, last, stores>>
    BY <1>6 DEF Rewrap
  <2> QED
    BY <2>2, <2>3, <2>4, <2>5, <2>6
<1>7. CASE UNCHANGED vars
  BY <1>7 DEF vars
<1> QED
  BY <1>1, <1>2, <1>3, <1>4, <1>5, <1>6, <1>7 DEF SecretsNext

(***************************************************************************)
(* The strengthened invariant.                                             *)
(***************************************************************************)
THEOREM SecretsInvariant == SecretsSpec => []SecretsInv
BY InitSecrets, StepSecrets, PTL DEF SecretsSpec

(***************************************************************************)
(* key_version always names the key of its row.                            *)
(***************************************************************************)
THEOREM LabelHolds == SecretsSpec => []LabelTrue
<1>1. SecretsInv => LabelTrue
  BY DEF SecretsInv
<1> QED
  BY <1>1, SecretsInvariant, PTL

(***************************************************************************)
(* No turnover loses a secret, and a settled one is readable everywhere.   *)
(***************************************************************************)
THEOREM RecoverableHolds == SecretsSpec => []Recoverable
<1>1. SecretsInv => Recoverable
  BY DEF SecretsInv, TwoKeys, Recoverable, Read, Decrypts
<1> QED
  BY <1>1, SecretsInvariant, PTL

(***************************************************************************)
(* rewrap_all never raises during a turnover: whatever processes on either *)
(* key have stored, and however often it ran before, every row it takes is *)
(* under the key before the new one.                                       *)
(***************************************************************************)
THEOREM RewrapHolds == SecretsSpec => []RewrapSucceeds
<1>1. SecretsInv => RewrapSucceeds
  BY DEF SecretsInv, LabelTrue, TwoKeys, RewrapSucceeds, Behind, Decrypts
<1> QED
  BY <1>1, SecretsInvariant, PTL
=============================================================================
