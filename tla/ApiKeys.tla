------------------------------- MODULE ApiKeys -------------------------------
(***************************************************************************)
(* The life of an API key: minted, rotated and revoked by the tenant_admin *)
(* keys of its tenant (services/api_key_rotation.py, routers/admin.py) or  *)
(* created with scripts/seed.py, while requests are being authenticated    *)
(* (middleware/auth.py).                                                   *)
(*                                                                         *)
(* A request looks its key up once and acts on that row until it ends,     *)
(* whatever becomes of the key.  rotate_key reads the old key in one       *)
(* statement and writes both keys in later ones; the transaction commits   *)
(* once, so the writes are one step.  last_used_at, which nothing reads,   *)
(* and the tenant's is_active, which nothing changes, are left out.        *)
(***************************************************************************)
EXTENDS Naturals

CONSTANTS
  KeyId, Request, Tenant,
  Scope,     \* what a key may do: role, tool_allowlist, rate_limit_per_minute
  Admins,    \* the scopes whose role is tenant_admin
  Graces,    \* grace_hours a caller may ask for
  Lifetimes, \* ttl_days a caller may ask for, or Forever
  NameRoom,  \* rotations the name column has room for: each adds 21 characters
  Forever,   \* NULL expires_at
  NoKey,
  MaxNow     \* bound on the clock

ASSUME KeysAssumption ==
  /\ Admins \subseteq Scope
  /\ Graces \subseteq Nat
  /\ Lifetimes \subseteq Nat \cup {Forever}
  /\ NameRoom \in Nat /\ MaxNow \in Nat
  /\ Forever \notin Nat
  /\ NoKey \notin KeyId

VARIABLES
  now,
  keys,  \* api_keys
  pc,    \* where each request is
  ctx,   \* the row its lookup returned
  job    \* what its rotation has read: the old key, its row, its new end

keyVars == <<now, keys, pc, ctx, job>>

Row == [ tenant : Tenant, scope : Scope, active : BOOLEAN,
         expires : Nat \cup {Forever},
         parent : KeyId \cup {NoKey},   \* rotated_from_id
         room : 0..NameRoom ]

Job == [old : KeyId, row : Row, until : Nat]

ASSUME KeysNullAssumption == NoKey \notin Row /\ NoKey \notin Job

KeysTypeOK ==
  /\ now \in Nat
  /\ keys \in [KeyId -> Row \cup {NoKey}]
  /\ pc \in [Request -> {"idle", "looked", "admitted", "rotating"}]
  /\ ctx \in [Request -> Row \cup {NoKey}]
  /\ job \in [Request -> Job \cup {NoKey}]
  /\ \A r \in Request : /\ pc[r] # "idle" => ctx[r] # NoKey
                        /\ pc[r] = "rotating" => job[r] # NoKey

Used == {k \in KeyId : keys[k] # NoKey}

Expired(row) == row.expires # Forever /\ row.expires <= now

NewRow(t, scope, expires) ==
  [ tenant |-> t, scope |-> scope, active |-> TRUE, expires |-> expires,
    parent |-> NoKey, room |-> NameRoom ]

KeysInit ==
  /\ now = 0
  /\ keys = [k \in KeyId |-> NoKey]
  /\ pc = [r \in Request |-> "idle"]
  /\ ctx = [r \in Request |-> NoKey]
  /\ job = [r \in Request |-> NoKey]

\* scripts/seed.py create-key
Seed(k, t, scope) ==
  /\ k \notin Used
  /\ keys' = [keys EXCEPT ![k] = NewRow(t, scope, Forever)]
  /\ UNCHANGED <<now, pc, ctx, job>>

\* _lookup_context finds an active row for the key.  (Otherwise: 401.)
Lookup(r, k) ==
  /\ pc[r] = "idle"
  /\ k \in Used /\ keys[k].active
  /\ pc' = [pc EXCEPT ![r] = "looked"]
  /\ ctx' = [ctx EXCEPT ![r] = keys[k]]
  /\ UNCHANGED <<now, keys, job>>

\* The clock is read after the row: admitted, or 401.
Admit(r) ==
  /\ pc[r] = "looked"
  /\ ~Expired(ctx[r])
  /\ pc' = [pc EXCEPT ![r] = "admitted"]
  /\ UNCHANGED <<now, keys, ctx, job>>

\* The request is answered and its locals are gone.
End(r) ==
  /\ pc' = [pc EXCEPT ![r] = "idle"]
  /\ ctx' = [ctx EXCEPT ![r] = NoKey]
  /\ job' = [job EXCEPT ![r] = NoKey]

Reject(r) ==
  /\ pc[r] = "looked"
  /\ Expired(ctx[r])
  /\ End(r)
  /\ UNCHANGED <<now, keys>>

\* require_role("tenant_admin")
MayAdminister(r) == pc[r] = "admitted" /\ ctx[r].scope \in Admins

\* Any other request, one that is refused, and one that fails, changes no key.
Respond(r) ==
  /\ pc[r] \in {"admitted", "rotating"}
  /\ End(r)
  /\ UNCHANGED <<now, keys>>

\* POST /admin/keys
Mint(r, k, scope, life) ==
  /\ MayAdminister(r)
  /\ k \notin Used
  /\ keys' = [keys EXCEPT ![k] =
       NewRow(ctx[r].tenant, scope, IF life = Forever THEN Forever ELSE now + life)]
  /\ End(r)
  /\ UNCHANGED now

\* Faulty variant of OwnKeys: any tenant's.
OwnKeysAll(r) == Used

\* The keys the WHERE clauses of rotate_key and revoke_key let a request reach.
OwnKeys(r) == {k \in Used : keys[k].tenant = ctx[r].tenant}

\* POST /admin/keys/{id}/rotate reads the old key, then the clock.
RotateRead(r, k, grace) ==
  /\ MayAdminister(r)
  /\ k \in OwnKeys(r)
  /\ pc' = [pc EXCEPT ![r] = "rotating"]
  /\ job' = [job EXCEPT ![r] = [old |-> k, row |-> keys[k], until |-> now + grace]]
  /\ UNCHANGED <<now, keys, ctx>>

\* Faulty variant of Successor: the caller's scope instead of the old key's.
SuccessorOfCaller(r) ==
  [ tenant |-> ctx[r].tenant, scope |-> ctx[r].scope, active |-> TRUE,
    expires |-> job[r].row.expires, parent |-> job[r].old, room |-> job[r].row.room - 1 ]

\* The row rotate_key inserts: scope and end of the old key as it was read.
Successor(r) ==
  [ tenant |-> ctx[r].tenant, scope |-> job[r].row.scope, active |-> TRUE,
    expires |-> job[r].row.expires, parent |-> job[r].old, room |-> job[r].row.room - 1 ]

\* Faulty variant of AgedOut: saves the row as it was read.
AgedOutAsRead(r) ==
  LET row == job[r].row IN
  [ tenant |-> row.tenant, scope |-> row.scope, active |-> row.active,
    expires |-> job[r].until, parent |-> row.parent, room |-> row.room ]

\* "Age the old key out": its end is set, whatever it was.
AgedOut(r) ==
  LET row == keys[job[r].old] IN
  [ tenant |-> row.tenant, scope |-> row.scope, active |-> row.active,
    expires |-> job[r].until, parent |-> row.parent, room |-> row.room ]

\* Faulty variant of RotateWrite: the name is not checked.
RotateWriteAnyName(r, k) ==
  /\ pc[r] = "rotating"
  /\ k \notin Used
  /\ keys' = [keys EXCEPT ![k] = Successor(r), ![job[r].old] = AgedOut(r)]
  /\ End(r)
  /\ UNCHANGED now

\* Both writes and the commit.  A name without room fails: Respond.
RotateWrite(r, k) ==
  /\ pc[r] = "rotating"
  /\ k \notin Used
  /\ job[r].row.room > 0
  /\ keys' = [keys EXCEPT ![k] = Successor(r), ![job[r].old] = AgedOut(r)]
  /\ End(r)
  /\ UNCHANGED now

Revoked(k) ==
  LET row == keys[k] IN
  [ tenant |-> row.tenant, scope |-> row.scope, active |-> FALSE,
    expires |-> now, parent |-> row.parent, room |-> row.room ]

\* DELETE /admin/keys/{id}
Revoke(r, k) ==
  /\ MayAdminister(r)
  /\ k \in OwnKeys(r)
  /\ keys' = [keys EXCEPT ![k] = Revoked(k)]
  /\ End(r)
  /\ UNCHANGED now

ClockTick ==
  /\ now < MaxNow
  /\ now' = now + 1
  /\ UNCHANGED <<keys, pc, ctx, job>>

KeysNext ==
  \/ \E k \in KeyId, t \in Tenant, scope \in Scope : Seed(k, t, scope)
  \/ \E r \in Request :
       \/ Admit(r) \/ Reject(r) \/ Respond(r)
       \/ \E k \in KeyId :
            \/ Lookup(r, k) \/ RotateWrite(r, k) \/ Revoke(r, k)
            \/ \E scope \in Scope, life \in Lifetimes : Mint(r, k, scope, life)
            \/ \E grace \in Graces : RotateRead(r, k, grace)
  \/ ClockTick

KeysSpec == KeysInit /\ [][KeysNext]_keyVars

-----------------------------------------------------------------------------
(***************************************************************************)
(* A revoked key is never live again, even when a rotation that read it    *)
(* before the revocation writes it afterwards (rotate_key takes no lock).  *)
(***************************************************************************)
RevocationSticks ==
  [][\A k \in Used : ~keys[k].active => ~keys'[k].active]_keyVars

(***************************************************************************)
(* The keys of a tenant are created, prolonged, aged and revoked only by   *)
(* requests of its own tenant_admin keys, or at the shell; and no key      *)
(* changes hands, whatever requests run beside each other.                 *)
(***************************************************************************)
OnlyOwnAdmins ==
  [][\A k \in KeyId : keys'[k] # keys[k] =>
       /\ k \in Used => keys'[k].tenant = keys[k].tenant
       /\ \/ k \notin Used /\ keys'[k] = NewRow(keys'[k].tenant, keys'[k].scope, Forever)
          \/ \E r \in Request :
               /\ pc[r] \in {"admitted", "rotating"} /\ pc'[r] = "idle"
               /\ ctx[r].scope \in Admins /\ ctx[r].tenant = keys'[k].tenant]_keyVars

(***************************************************************************)
(* Along a rotation chain no key gains or loses rights, and the chain ends *)
(* before its name column overflows (rotated_from_id "keeps the audit      *)
(* chain"; the new key "inherits the old key's scope").                    *)
(***************************************************************************)
ChainKeepsScope ==
  \A k \in Used : keys[k].parent # NoKey =>
    LET p == keys[k].parent IN
    /\ p \in Used
    /\ keys[p].tenant = keys[k].tenant /\ keys[p].scope = keys[k].scope
    /\ keys[k].room < keys[p].room

(***************************************************************************)
(* Strengthening for the proofs: what a rotation read of the old key still *)
(* holds of it, whatever was done to the key since.                        *)
(***************************************************************************)
JobCurrent ==
  \A r \in Request : pc[r] = "rotating" =>
    LET row == job[r].row IN
    /\ ctx[r].scope \in Admins /\ ctx[r].tenant = row.tenant
    /\ job[r].old \in Used
    /\ row.tenant = keys[job[r].old].tenant
    /\ row.scope = keys[job[r].old].scope
    /\ row.room = keys[job[r].old].room
==============================================================================
