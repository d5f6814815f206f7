------------------------------ MODULE Secrets ------------------------------
(***************************************************************************)
(* encrypted_secrets and services/crypto.py through turnovers of the       *)
(* master key.                                                             *)
(*                                                                         *)
(* A ciphertext is the key it was made with and the value inside;          *)
(* pgp_sym_decrypt raises on any other key.  Master keys are numbered by   *)
(* the FLOWMIND_DATA_KEY_VERSION they come with.  A process has the        *)
(* environment it was started with until it is deployed anew.  store_secret *)
(* takes key and version when it is called, and its statement runs later.  *)
(* Nothing in the repository calls these functions yet: the processes and  *)
(* the operator follow the procedure of crypto.py:9-11.                    *)
(***************************************************************************)
EXTENDS Integers

CONSTANTS Refs,        \* (tenant_id, secret_kind, secret_ref)
          Procs,       \* processes that store and read secrets
          Values,      \* plaintexts
          MaxVersion,  \* bound on the versions of the master key
          MaxStores,   \* bound on stores
          None

ASSUME SecretsAssumption == MaxVersion \in Nat \ {0} /\ MaxStores \in Nat

Versions == 1 .. MaxVersion
SecretRow == [key : Versions, value : Values, version : Versions]
Call == [ref : Refs, value : Values, kv : Versions]

ASSUME NoneAssumption == None \notin SecretRow /\ None \notin Call /\ None \notin Values

VARIABLES
  rows,      \* encrypted_secrets: Refs -> SecretRow, or None
  env,       \* the version whose key and number a process has in its environment
  calls,     \* store_secret calls whose statement has not committed
  master,    \* the version the operator is turning the deployment to
  settled,   \* every process is on it, and rewrap_all has returned since
  last,      \* history: the plaintext of the last committed store of each ref
  stores

vars == <<rows, env, calls, master, settled, last, stores>>

-----------------------------------------------------------------------------
Decrypts(row, key) == row.key = key

(* read_secret in process p.                                               *)
Read(p, r) ==
  IF rows[r] # None /\ Decrypts(rows[r], env[p]) THEN rows[r].value ELSE None

SecretsInit ==
  /\ rows = [r \in Refs |-> None] /\ last = [r \in Refs |-> None]
  /\ env = [p \in Procs |-> 1] /\ calls = [p \in Procs |-> None]
  /\ master = 1 /\ settled = TRUE /\ stores = 0

(* store_secret up to its await: the parameters of the upsert are bound.   *)
BeginStore(p, r, v) ==
  /\ calls[p] = None /\ stores < MaxStores
  /\ calls' = [calls EXCEPT ![p] = [ref |-> r, value |-> v, kv |-> env[p]]]
  /\ stores' = stores + 1
  /\ UNCHANGED <<rows, env, master, settled, last>>

(* Faulty variant of Upserted: a conflict does not update key_version. *)
UpsertedKeepingVersion(c) ==
  [key |-> c.kv, value |-> c.value,
   version |-> IF rows[c.ref] = None THEN c.kv ELSE rows[c.ref].version]

Upserted(c) == [key |-> c.kv, value |-> c.value, version |-> c.kv]

(* The upsert of store_secret and its commit.                              *)
Store(p) ==
  /\ calls[p] # None
  /\ rows' = [rows EXCEPT ![calls[p].ref] = Upserted(calls[p])]
  /\ last' = [last EXCEPT ![calls[p].ref] = calls[p].value]
  /\ calls' = [calls EXCEPT ![p] = None]
  /\ UNCHANGED <<env, master, settled, stores>>

StoreFails(p) ==
  /\ calls[p] # None /\ calls' = [calls EXCEPT ![p] = None]
  /\ UNCHANGED <<rows, env, master, settled, last, stores>>

(* The operator makes a new master key and starts to deploy it.            *)
Turn ==
  /\ settled /\ master < MaxVersion
  /\ master' = master + 1 /\ settled' = FALSE
  /\ UNCHANGED <<rows, env, calls, last, stores>>

(* A process is restarted with the new environment; a statement it had not *)
(* committed is rolled back.                                               *)
Redeploy(p) ==
  /\ env[p] # master
  /\ env' = [env EXCEPT ![p] = master] /\ calls' = [calls EXCEPT ![p] = None]
  /\ UNCHANGED <<rows, master, settled, last, stores>>

(* Faulty variant of Behind: the rows of the last version are taken for done. *)
BehindByTwo(r) == rows[r] # None /\ rows[r].version < master - 1

(* WHERE key_version != :new_version                                       *)
Behind(r) == rows[r] # None /\ rows[r].version # master

(* Faulty variant of Rewrapped: key_version is not set. *)
RewrappedUnlabelled(row) == [key |-> master, value |-> row.value, version |-> row.version]

Rewrapped(row) == [key |-> master, value |-> row.value, version |-> master]

(* rewrap_all(old, new) in one statement: it raises, and changes nothing,  *)
(* if a row it takes is not under the old key.  It may be called before    *)
(* every process is deployed, and again.                                   *)
Rewrap ==
  /\ ~settled
  /\ \A r \in Refs : Behind(r) => Decrypts(rows[r], master - 1)
  /\ rows' = [r \in Refs |-> IF Behind(r) THEN Rewrapped(rows[r]) ELSE rows[r]]
  /\ settled' = (\A p \in Procs : env[p] = master)
  /\ UNCHANGED <<env, calls, master, last, stores>>

SecretsNext ==
  \/ \E p \in Procs : \/ \E r \in Refs, v \in Values : BeginStore(p, r, v)
                      \/ Store(p) \/ StoreFails(p) \/ Redeploy(p)
  \/ Turn \/ Rewrap

SecretsSpec == SecretsInit /\ [][SecretsNext]_vars

-----------------------------------------------------------------------------
SecretsTypeOK ==
  /\ rows \in [Refs -> SecretRow \cup {None}] /\ env \in [Procs -> Versions]
  /\ calls \in [Procs -> Call \cup {None}] /\ master \in Versions /\ settled \in BOOLEAN
  /\ last \in [Refs -> Values \cup {None}] /\ stores \in Nat

(***************************************************************************)
(* key_version names the key a row is really under, whatever stores and    *)
(* rewraps overlap: rewrap_all picks its rows by it.                       *)
(***************************************************************************)
LabelTrue == \A r \in Refs : rows[r] # None => rows[r].key = rows[r].version

(***************************************************************************)
(* No turnover loses a secret: at any time its last stored plaintext can   *)
(* be had with the new key or the one before, and once the turnover has    *)
(* settled every process reads it, also if old processes stored secrets    *)
(* after a first rewrap (crypto.py:9-11, 133-134).                         *)
(***************************************************************************)
Recoverable ==
  /\ \A r \in Refs : rows[r] # None =>
       rows[r].value = last[r] /\ rows[r].key \in {master - 1, master}
  /\ settled => \A p \in Procs, r \in Refs : Read(p, r) = last[r]

(***************************************************************************)
(* Whenever rewrap_all is called during a turnover, each row it takes by   *)
(* key_version decrypts with the old key: no mix of rows makes it raise    *)
(* and roll back the others, and then raise again at every later call.     *)
(***************************************************************************)
RewrapSucceeds == ~settled => \A r \in Refs : Behind(r) => Decrypts(rows[r], master - 1)
=============================================================================
