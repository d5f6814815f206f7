--------------------------- MODULE TenantRouting ---------------------------
(***************************************************************************)
(* The in-process cache that maps an ingest source to its tenant           *)
(* (services/tenant_routing.py), shared by the sFlow and the gNMI loop of  *)
(* one process (services/ingest.py, services/gnmi_ingest.py), while an     *)
(* operator edits the mapping (scripts/seed.py).                           *)
(*                                                                         *)
(* The loops are tasks of one event loop: what tenant_for does between two *)
(* awaits is one step.  A refresh awaits twice, for the SELECT and for the *)
(* session to close, so two refreshes can overlap.                         *)
(*                                                                         *)
(* A refresh installs a table exactly as it read it, so the cache is       *)
(* represented by the number of the table it holds, 0 for the empty dict.  *)
(* Ingest composes the cache with the cycles of the loops.                 *)
(***************************************************************************)
EXTENDS Naturals, Sequences

CONSTANTS
  Loop,
  Source,      \* (kind, identifier)
  SourcesOf,   \* the sources each loop looks up
  Tenant, Default,
  NoMapping,
  TTL,         \* TENANT_ROUTING_TTL_SECONDS, in ticks
  MaxEdits,    \* bound on mapping edits
  MaxFailures  \* bound on failed refreshes

Table == [Source -> Tenant \cup {NoMapping}]

ASSUME RoutingAssumption ==
  /\ SourcesOf \in [Loop -> SUBSET Source]
  /\ NoMapping \notin Tenant
  /\ TTL \in Nat \ {0}
  /\ MaxEdits \in Nat /\ MaxFailures \in Nat

VARIABLES
  tables,    \* every state of collector_sources so far, the last one current
  loaded,    \* _cache
  age,       \* time since _loaded_at, as far as it matters
  pc,        \* where each loop is in tenant_for
  asked,     \* the source it asks for
  fetched,   \* the table its refresh has read, 0 outside one
  answer,    \* what tenant_for last returned for a source (history variable)
  failures,  \* failed refreshes
  overtaken  \* loops that had read when another loop's table was installed (history)

loopVars == <<pc, asked, fetched>>
routingVars == <<tables, loaded, age, loopVars, answer, failures, overtaken>>

Current == Len(tables)

RoutingTypeOK ==
  /\ tables \in Seq(Table) /\ Current > 0
  /\ loaded \in 0..Current
  /\ age \in 0..TTL
  /\ pc \in [Loop -> {"idle", "reading", "closing"}]
  /\ asked \in [Loop -> Source]
  /\ fetched \in [Loop -> 0..Current]
  /\ answer \in [Source -> Tenant \cup {Default, NoMapping}]
  /\ failures \in Nat
  /\ overtaken \subseteq Loop

(***************************************************************************)
(* _loaded_at starts at 0.0 and is compared with time.monotonic(), which   *)
(* may itself be close to 0: the empty cache can be of any age.            *)
(***************************************************************************)
RoutingInit ==
  /\ tables \in {<<t>> : t \in Table}
  /\ loaded = 0
  /\ age \in 0..TTL
  /\ pc = [l \in Loop |-> "idle"]
  /\ asked \in {f \in [Loop -> Source] : \A l \in Loop : f[l] \in SourcesOf[l]}
  /\ fetched = [l \in Loop |-> 0]
  /\ answer = [s \in Source |-> NoMapping]
  /\ failures = 0
  /\ overtaken = {}

\* Faulty variant of TenantIn: a source the cached table does not have is given none.
TenantInTable(v, s) == IF v = 0 THEN Default ELSE tables[v][s]

\* _cache.get(source, DEFAULT_TENANT_ID) with table v cached
TenantIn(v, s) == IF v = 0 \/ tables[v][s] = NoMapping THEN Default ELSE tables[v][s]

Return(l, s, v) ==
  /\ pc' = [pc EXCEPT ![l] = "idle"]
  /\ answer' = [answer EXCEPT ![s] = TenantIn(v, s)]

\* The cache is young enough: tenant_for answers without an await.
Serve(l, s) ==
  /\ pc[l] = "idle" /\ s \in SourcesOf[l]
  /\ age < TTL
  /\ Return(l, s, loaded)
  /\ asked' = [asked EXCEPT ![l] = s]
  /\ UNCHANGED <<tables, loaded, age, fetched, failures, overtaken>>

StartRefresh(l, s) ==
  /\ pc[l] = "idle" /\ s \in SourcesOf[l]
  /\ age = TTL
  /\ pc' = [pc EXCEPT ![l] = "reading"]
  /\ asked' = [asked EXCEPT ![l] = s]
  /\ UNCHANGED <<tables, loaded, age, fetched, answer, failures, overtaken>>

\* Faulty variant of Read: it may miss the latest edit.
ReadOld(l) ==
  /\ pc[l] = "reading"
  /\ pc' = [pc EXCEPT ![l] = "closing"]
  /\ \E v \in {1, Current} : fetched' = [fetched EXCEPT ![l] = v]
  /\ UNCHANGED <<tables, loaded, age, asked, answer, failures, overtaken>>

\* The SELECT sees the mapping as it is now.
Read(l) ==
  /\ pc[l] = "reading"
  /\ pc' = [pc EXCEPT ![l] = "closing"]
  /\ fetched' = [fetched EXCEPT ![l] = Current]
  /\ UNCHANGED <<tables, loaded, age, asked, answer, failures, overtaken>>

\* Faulty variant of Apply: only the first table is installed.
ApplyOnce(l) ==
  /\ pc[l] = "closing"
  /\ loaded' = IF loaded = 0 THEN fetched[l] ELSE loaded
  /\ age' = 0
  /\ Return(l, asked[l], loaded')
  /\ fetched' = [fetched EXCEPT ![l] = 0]
  /\ overtaken' = {m \in Loop \ {l} : pc[m] = "closing"}
  /\ UNCHANGED <<tables, asked, failures>>

\* The session is closed: install what was read, whatever is there by now.
Apply(l) ==
  /\ pc[l] = "closing"
  /\ loaded' = fetched[l]
  /\ age' = 0
  /\ Return(l, asked[l], fetched[l])
  /\ fetched' = [fetched EXCEPT ![l] = 0]
  /\ overtaken' = {m \in Loop \ {l} : pc[m] = "closing"}
  /\ UNCHANGED <<tables, asked, failures>>

\* The refresh raises: the cache as it is answers, and stays overdue.
RefreshFails(l) ==
  /\ pc[l] \in {"reading", "closing"}
  /\ failures < MaxFailures
  /\ failures' = failures + 1
  /\ Return(l, asked[l], loaded)
  /\ fetched' = [fetched EXCEPT ![l] = 0]
  /\ overtaken' = overtaken \ {l}
  /\ UNCHANGED <<tables, loaded, age, asked>>

\* scripts/seed.py map-source: a mapping is added or moved, never removed.
MapSource(s, t) ==
  /\ Current <= MaxEdits
  /\ tables' = Append(tables, [tables[Current] EXCEPT ![s] = t])
  /\ UNCHANGED <<loaded, age, loopVars, answer, failures, overtaken>>

\* Past TTL the age makes no difference any more.
AgeTick ==
  /\ age < TTL
  /\ age' = age + 1
  /\ UNCHANGED <<tables, loaded, loopVars, answer, failures, overtaken>>

RoutingNext ==
  \/ \E l \in Loop : \/ \E s \in Source : Serve(l, s) \/ StartRefresh(l, s)
                     \/ Read(l) \/ Apply(l) \/ RefreshFails(l)
  \/ \E s \in Source, t \in Tenant : MapSource(s, t)
  \/ AgeTick

RoutingSpec == RoutingInit /\ [][RoutingNext]_routingVars

-----------------------------------------------------------------------------
(***************************************************************************)
(* The cache goes back to an older mapping only when two refreshes         *)
(* overlapped: the one installed last had read before the other.           *)
(***************************************************************************)
RegressOnlyByOverlap ==
  [][loaded' < loaded =>
       \E l \in overtaken : pc[l] = "closing" /\ loaded' = fetched[l]]_routingVars

(***************************************************************************)
(* The strengthening RegressOnlyByOverlap needs: a refresh that was not    *)
(* overtaken has read at least what is cached.                             *)
(***************************************************************************)
ReadsAhead ==
  /\ loaded <= Current
  /\ \A l \in Loop : pc[l] = "closing" =>
       fetched[l] \in 1..Current /\ (l \in overtaken \/ loaded <= fetched[l])

\* Mapped to a tenant of its own since before the process started.
Elsewhere(s) == \A v \in 1..Current : tables[v][s] \notin {Default, NoMapping}

(***************************************************************************)
(* Once a mapping is loaded, neither a failed refresh nor one that was     *)
(* overtaken sends records of a mapped source to the default tenant: only  *)
(* a process that has loaded none does ("fall back to whatever was loaded  *)
(* last").                                                                 *)
(***************************************************************************)
MappedStaysMapped ==
  [][\A s \in Source :
       answer'[s] # answer[s] /\ answer'[s] = Default /\ Elsewhere(s)
         => loaded = 0 /\ loaded' = 0]_routingVars
=============================================================================
