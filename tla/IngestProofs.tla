---------------------------- MODULE IngestProofs ----------------------------
(***************************************************************************)
(* Theorems of TenantRouting and of Ingest for every set of loops, sources *)
(* (devices), tenants and possible answers.                                *)
(***************************************************************************)
EXTENDS Ingest, SequenceTheorems, SumProofs, TLAPS

-----------------------------------------------------------------------------
(***************************************************************************)
(* The routing cache: module TenantRouting.                                *)
(***************************************************************************)

RoutingInv == RoutingTypeOK /\ ReadsAhead

LEMMA AppendGrows ==
  ASSUME NEW S, NEW q \in Seq(S), NEW x \in S
  PROVE  /\ Append(q, x) \in Seq(S)
         /\ Len(Append(q, x)) = Len(q) + 1
         /\ \A i \in 1..Len(q) : Append(q, x)[i] = q[i]
<1>1. Append(q, x) \in Seq(S) /\ Len(Append(q, x)) = Len(q) + 1
  BY AppendProperties
<1>2. \A i \in 1..Len(q) : Append(q, x)[i] = q[i]
  BY AppendProperties
<1>. QED  BY <1>1, <1>2

LEMMA TenantInType ==
  ASSUME RoutingTypeOK, NEW v \in 0..Current, NEW s \in Source
  PROVE  TenantIn(v, s) \in Tenant \cup {Default, NoMapping}
<1>1. CASE v = 0
  BY <1>1 DEF TenantIn
<1>2. CASE v # 0
  <2>1. v \in 1..Len(tables)
    BY <1>2 DEF Current, RoutingTypeOK
  <2>2. tables[v] \in Table
    BY <2>1, ElementOfSeq DEF RoutingTypeOK
  <2>3. tables[v][s] \in Tenant \cup {NoMapping}
    BY <2>2 DEF Table
  <2>. QED  BY <2>3 DEF TenantIn
<1>. QED  BY <1>1, <1>2

LEMMA RoutingInitInv == RoutingAssumption /\ RoutingInit => RoutingInv
<1>. SUFFICES ASSUME RoutingAssumption, RoutingInit PROVE RoutingInv
  OBVIOUS
<1>1. PICK t \in Table : tables = <<t>>
  BY DEF RoutingInit
<1>2. tables \in Seq(Table) /\ Len(tables) = 1
  BY <1>1
<1>3. RoutingTypeOK
  BY <1>2 DEF RoutingAssumption, RoutingInit, RoutingTypeOK, Current
<1>4. ReadsAhead
  BY <1>2 DEF RoutingInit, ReadsAhead, Current
<1>. QED  BY <1>3, <1>4 DEF RoutingInv

LEMMA RoutingStepInv ==
  ASSUME RoutingAssumption, RoutingInv, [RoutingNext]_routingVars
  PROVE  RoutingInv'
<1>. USE RoutingAssumption
<1>t. RoutingTypeOK /\ ReadsAhead /\ Current \in Nat
  BY LenProperties DEF RoutingInv, RoutingTypeOK, Current
<1>1. ASSUME NEW l \in Loop, NEW s \in Source, Serve(l, s)
      PROVE  RoutingInv'
  <2>1. TenantIn(loaded, s) \in Tenant \cup {Default, NoMapping}
    BY <1>t, TenantInType DEF RoutingTypeOK
  <2>2. RoutingTypeOK'
    BY <1>1, <1>t, <2>1 DEF RoutingTypeOK, Serve, Return, Current
  <2>3. ReadsAhead'
    BY <1>1, <1>t DEF RoutingTypeOK, ReadsAhead, Serve, Return, Current
  <2>. QED  BY <2>2, <2>3 DEF RoutingInv
<1>2. ASSUME NEW l \in Loop, NEW s \in Source, StartRefresh(l, s)
      PROVE  RoutingInv'
  <2>1. RoutingTypeOK'
    BY <1>2, <1>t DEF RoutingTypeOK, StartRefresh, Current
  <2>2. ReadsAhead'
    BY <1>2, <1>t DEF RoutingTypeOK, ReadsAhead, StartRefresh, Current
  <2>. QED  BY <2>1, <2>2 DEF RoutingInv
<1>3. ASSUME NEW l \in Loop, Read(l)
      PROVE  RoutingInv'
  <2>1. RoutingTypeOK'
    BY <1>3, <1>t DEF RoutingTypeOK, Read, Current
  <2>2. ReadsAhead'
    BY <1>3, <1>t DEF RoutingTypeOK, ReadsAhead, Read, Current
  <2>. QED  BY <2>1, <2>2 DEF RoutingInv
<1>4. ASSUME NEW l \in Loop, Apply(l)
      PROVE  RoutingInv'
  <2>1. fetched[l] \in 1..Current /\ asked[l] \in Source
    BY <1>4, <1>t DEF RoutingTypeOK, ReadsAhead, Apply
  <2>2. TenantIn(fetched[l], asked[l]) \in Tenant \cup {Default, NoMapping}
    BY <1>t, <2>1, TenantInType
  <2>3. RoutingTypeOK'
    BY <1>4, <1>t, <2>1, <2>2 DEF RoutingAssumption, RoutingTypeOK, Apply, Return, Current
  <2>4. ReadsAhead'
    BY <1>4, <1>t, <2>1 DEF RoutingTypeOK, ReadsAhead, Apply, Return, Current
  <2>. QED  BY <2>3, <2>4 DEF RoutingInv
<1>5. ASSUME NEW l \in Loop, RefreshFails(l)
      PROVE  RoutingInv'
  <2>1. TenantIn(loaded, asked[l]) \in Tenant \cup {Default, NoMapping}
    BY <1>t, TenantInType DEF RoutingTypeOK
  <2>2. RoutingTypeOK'
    BY <1>5, <1>t, <2>1 DEF RoutingTypeOK, RefreshFails, Return, Current
  <2>3. ReadsAhead'
    BY <1>5, <1>t DEF RoutingTypeOK, ReadsAhead, RefreshFails, Return, Current
  <2>. QED  BY <2>2, <2>3 DEF RoutingInv
<1>6. ASSUME NEW s \in Source, NEW t \in Tenant, MapSource(s, t)
      PROVE  RoutingInv'
  <2>1. tables[Current] \in Table
    BY <1>t, ElementOfSeq DEF RoutingTypeOK, Current
  <2>2. [tables[Current] EXCEPT ![s] = t] \in Table
    BY <2>1 DEF Table
  <2>3. tables' \in Seq(Table) /\ Current' = Current + 1
    BY <1>6, <1>t, <2>2, AppendGrows DEF MapSource, RoutingTypeOK, Current
  <2>4. RoutingTypeOK'
    <3>. HIDE DEF Current
    <3>. QED  BY <1>6, <1>t, <2>3 DEF RoutingTypeOK, MapSource, loopVars
  <2>5. ReadsAhead'
    <3>. HIDE DEF Current
    <3>. QED  BY <1>6, <1>t, <2>3 DEF RoutingTypeOK, ReadsAhead, MapSource, loopVars
  <2>. QED  BY <2>4, <2>5 DEF RoutingInv
<1>7. ASSUME AgeTick
      PROVE  RoutingInv'
  <2>1. RoutingTypeOK'
    BY <1>7, <1>t DEF RoutingAssumption, RoutingTypeOK, AgeTick, loopVars, Current
  <2>2. ReadsAhead'
    BY <1>7, <1>t DEF ReadsAhead, AgeTick, loopVars, Current
  <2>. QED  BY <2>1, <2>2 DEF RoutingInv
<1>8. CASE UNCHANGED routingVars
  BY <1>8, <1>t DEF RoutingInv, RoutingTypeOK, ReadsAhead, routingVars, loopVars, Current
<1>. QED  BY <1>1, <1>2, <1>3, <1>4, <1>5, <1>6, <1>7, <1>8 DEF RoutingNext

(***************************************************************************)
(* The types, and that a refresh nobody overtook has read at least what is *)
(* cached.                                                                 *)
(***************************************************************************)
THEOREM RoutingInvariant == RoutingSpec => [](RoutingTypeOK /\ ReadsAhead)
<1>1. RoutingInit => RoutingInv
  BY RoutingInitInv, RoutingAssumption
<1>2. RoutingInv /\ [RoutingNext]_routingVars => RoutingInv'
  BY RoutingStepInv, RoutingAssumption
<1>3. RoutingInv => RoutingTypeOK /\ ReadsAhead
  BY DEF RoutingInv
<1>. QED  BY <1>1, <1>2, <1>3, PTL DEF RoutingSpec

-----------------------------------------------------------------------------
LEMMA RegressStep ==
  ASSUME RoutingInv, [RoutingNext]_routingVars, loaded' < loaded
  PROVE  \E l \in overtaken : pc[l] = "closing" /\ loaded' = fetched[l]
<1>t. RoutingTypeOK /\ ReadsAhead /\ Current \in Nat /\ loaded \in Nat
  BY LenProperties DEF RoutingInv, RoutingTypeOK, Current
<1>1. loaded' # loaded
  BY <1>t
<1>2. PICK l \in Loop : Apply(l)
  BY <1>1 DEF RoutingNext, Serve, StartRefresh, Read, RefreshFails, MapSource, AgeTick,
              routingVars, loopVars
<1>3. pc[l] = "closing" /\ loaded' = fetched[l] /\ fetched[l] \in 1..Current
  BY <1>2, <1>t DEF Apply, ReadsAhead
<1>4. ~(loaded <= fetched[l])
  BY <1>3, <1>t
<1>5. l \in overtaken
  BY <1>3, <1>4, <1>t DEF ReadsAhead
<1>. QED  BY <1>3, <1>5

(***************************************************************************)
(* The cache goes back to an older mapping only by an overtaken refresh.   *)
(***************************************************************************)
THEOREM RegressHolds == RoutingSpec => RegressOnlyByOverlap
<1>1. RoutingInv /\ [RoutingNext]_routingVars =>
        (loaded' < loaded =>
           \E l \in overtaken : pc[l] = "closing" /\ loaded' = fetched[l])
  BY RegressStep
<1>2. RoutingSpec => []RoutingInv
  BY RoutingInvariant DEF RoutingInv
<1>. QED  BY <1>1, <1>2, PTL DEF RoutingSpec, RegressOnlyByOverlap

-----------------------------------------------------------------------------
LEMMA LoadedNotDefault ==
  ASSUME NEW v \in 1..Current, NEW s \in Source, Elsewhere(s), Current \in Nat
  PROVE  TenantIn(v, s) # Default
  BY DEF Elsewhere, TenantIn

LEMMA AnswerStep ==
  ASSUME RoutingInv, [RoutingNext]_routingVars,
         NEW s \in Source, answer'[s] # answer[s], answer'[s] = Default, Elsewhere(s)
  PROVE  loaded = 0 /\ loaded' = 0
<1>t. RoutingTypeOK /\ ReadsAhead /\ Current \in Nat /\ loaded \in 0..Current
  BY LenProperties DEF RoutingInv, RoutingTypeOK, Current
<1>1. PICK l \in Loop : (\E q \in Source : Serve(l, q)) \/ Apply(l) \/ RefreshFails(l)
  BY DEF RoutingNext, StartRefresh, Read, MapSource, AgeTick, routingVars, loopVars
<1>2. CASE Apply(l)
  <2>1. asked[l] \in Source /\ fetched[l] \in 1..Current
    BY <1>2, <1>t DEF Apply, ReadsAhead, RoutingTypeOK
  <2>2. asked[l] = s /\ answer'[s] = TenantIn(fetched[l], s)
    BY <1>2, <1>t, <2>1 DEF Apply, Return, RoutingTypeOK
  <2>. QED  BY <2>1, <2>2, <1>t, LoadedNotDefault
<1>3. ASSUME NEW q \in Source, Serve(l, q)
      PROVE  loaded = 0 /\ loaded' = 0
  <2>1. q = s /\ answer'[s] = TenantIn(loaded, s) /\ loaded' = loaded
    BY <1>3, <1>t DEF Serve, Return, RoutingTypeOK
  <2>2. loaded \notin 1..Current
    BY <2>1, <1>t, LoadedNotDefault
  <2>. QED  BY <2>1, <2>2, <1>t
<1>4. CASE RefreshFails(l)
  <2>1. asked[l] \in Source
    BY <1>t DEF RoutingTypeOK
  <2>2. asked[l] = s /\ answer'[s] = TenantIn(loaded, s) /\ loaded' = loaded
    BY <1>4, <1>t, <2>1 DEF RefreshFails, Return, RoutingTypeOK
  <2>3. loaded \notin 1..Current
    BY <2>2, <1>t, LoadedNotDefault
  <2>. QED  BY <2>2, <2>3, <1>t
<1>. QED  BY <1>1, <1>2, <1>3, <1>4

(***************************************************************************)
(* Only a process that has loaded no mapping gives records of a mapped     *)
(* source to the default tenant.                                           *)
(***************************************************************************)
THEOREM MappedHolds == RoutingSpec => MappedStaysMapped
<1>1. RoutingInv /\ [RoutingNext]_routingVars =>
        (\A s \in Source :
           answer'[s] # answer[s] /\ answer'[s] = Default /\ Elsewhere(s)
             => loaded = 0 /\ loaded' = 0)
  BY AnswerStep
<1>2. RoutingSpec => []RoutingInv
  BY RoutingInvariant DEF RoutingInv
<1>. QED  BY <1>1, <1>2, PTL DEF RoutingSpec, MappedStaysMapped

-----------------------------------------------------------------------------
(***************************************************************************)
(* The ingest loops: module Ingest.                                        *)
(***************************************************************************)

(***************************************************************************)
(* The loops use the cache as TenantRouting says: each step of a cycle is  *)
(* one of tenant_for, or leaves the cache alone.                           *)
(***************************************************************************)
LEMMA IngestStepRefines ==
  ASSUME RoutingAssumption, [IngestNext]_ingestVars
  PROVE  [RoutingNext]_routingVars
<1>1. ASSUME NEW l \in Loop, CycleStep(l) \/ LookUpFails(l) \/ CommitFails(l)
      PROVE  [RoutingNext]_routingVars
  <2>1. CASE Poll(l)
    BY <2>1 DEF Poll
  <2>2. CASE LookUp(l)
    <3>1. PICK s \in Asking(l) : Serve(l, s) \/ StartRefresh(l, s)
      BY <2>2 DEF LookUp
    <3>2. s \in Source
      BY <3>1 DEF Serve, StartRefresh, RoutingAssumption
    <3>. QED  BY <3>1, <3>2 DEF RoutingNext
  <2>3. CASE FetchTable(l)
    BY <2>3 DEF FetchTable, RoutingNext
  <2>4. CASE Install(l)
    BY <2>4 DEF Install, RoutingNext
  <2>5. CASE Commit(l)
    BY <2>5 DEF Commit
  <2>6. CASE LookUpFails(l)
    BY <2>6 DEF LookUpFails, RoutingNext
  <2>7. CASE CommitFails(l)
    BY <2>7 DEF CommitFails
  <2>. QED  BY <1>1, <2>1, <2>2, <2>3, <2>4, <2>5, <2>6, <2>7 DEF CycleStep
<1>2. CASE EditMapping
  BY <1>2 DEF EditMapping, RoutingNext
<1>3. CASE TimePasses
  BY <1>3 DEF TimePasses, RoutingNext
<1>4. CASE UNCHANGED ingestVars
  BY <1>4 DEF ingestVars
<1>. QED  BY <1>1, <1>2, <1>3, <1>4 DEF IngestNext

THEOREM IngestRefinesRouting == IngestSpec => RoutingSpec
<1>1. IngestInit => RoutingInit
  BY DEF IngestInit
<1>2. [IngestNext]_ingestVars => [RoutingNext]_routingVars
  BY IngestStepRefines, RoutingAssumption
<1>. QED  BY <1>1, <1>2, PTL DEF IngestSpec, RoutingSpec

\* What the refresh guarantees, it guarantees under both loops.
THEOREM IngestRegress == IngestSpec => RegressOnlyByOverlap
  BY IngestRefinesRouting, RegressHolds, PTL

THEOREM IngestMapped == IngestSpec => MappedStaysMapped
  BY IngestRefinesRouting, MappedHolds, PTL

-----------------------------------------------------------------------------
(***************************************************************************)
(* Every tenant looked up in this cycle comes from a table that the cache  *)
(* has held since the cycle began.                                         *)
(***************************************************************************)
Witnessed ==
  /\ phase \in [Loop -> {"asleep", "routing"}]
  /\ held \in [Loop -> SUBSET (0..Current)]
  /\ DOMAIN resolved = Loop
  /\ \A l \in Loop : pc[l] # "idle" => phase[l] = "routing"
  /\ \A l \in Loop : phase[l] = "asleep" => resolved[l] = {}
  /\ \A l \in Loop : \A x \in resolved[l] :
       x[2] \in Source /\ \E v \in held[l] : TenantIn(v, x[2]) = x[3]

IngestInv == RoutingInv /\ Witnessed

LEMMA TypeFacts ==
  ASSUME RoutingInv
  PROVE  RoutingTypeOK /\ Current \in Nat /\ loaded \in 0..Current
BY LenProperties DEF RoutingInv, RoutingTypeOK, Current

\* An answer of tenant_for that comes from the table now in the cache.
LEMMA ResolveWitnessed ==
  ASSUME RoutingInv, Witnessed, NEW l \in Loop, NEW s \in Source,
         phase[l] = "routing", Resolve(l, s), UNCHANGED tables,
         pc' = [pc EXCEPT ![l] = "idle"], loaded' \in 0..Current,
         answer'[s] = TenantIn(loaded', s)
  PROVE  Witnessed'
<1>1. Current' = Current /\ \A v, q : TenantIn(v, q)' = TenantIn(v, q)
  BY DEF Current, TenantIn
<1>2. phase' = phase /\ held' \in [Loop -> SUBSET (0..Current')] /\ DOMAIN resolved' = Loop
  BY <1>1 DEF Resolve, Witnessed
<1>3. \A m \in Loop : pc'[m] # "idle" => phase'[m] = "routing"
  BY <1>2, TypeFacts DEF Witnessed, RoutingTypeOK
<1>5. \A m \in Loop : phase'[m] = "asleep" => resolved'[m] = {}
  BY DEF Resolve, Witnessed
<1>4. ASSUME NEW m \in Loop, NEW x \in resolved'[m]
      PROVE  x[2] \in Source /\ \E v \in held'[m] : TenantIn(v, x[2])' = x[3]
  <2>1. CASE x \in resolved[m]
    <3>1. PICK v \in held[m] : TenantIn(v, x[2]) = x[3]
      BY <2>1 DEF Witnessed
    <3>2. phase[m] = "routing"
      BY <2>1 DEF Witnessed
    <3>. QED  BY <1>1, <2>1, <3>1, <3>2 DEF Witnessed, Resolve
  <2>2. CASE x \notin resolved[m]
    <3>1. m = l /\ x = <<AskingKind(l), s, answer'[s]>>
      BY <2>2 DEF Resolve, Witnessed
    <3>2. loaded' \in held'[l]
      BY DEF Resolve
    <3>. QED  BY <1>1, <3>1, <3>2
  <2>. QED  BY <2>1, <2>2
<1>. QED  BY <1>2, <1>3, <1>4, <1>5 DEF Witnessed

\* The cycle of l ends: it has no more tenants to account for.
LEMMA EndWitnessed ==
  ASSUME Witnessed, RoutingTypeOK, NEW l \in Loop, NEW how, NEW rows, End(l, how, rows),
         pc[l] = "idle", UNCHANGED <<tables, pc>>
  PROVE  Witnessed'
<1>1. Current' = Current /\ \A v, q : TenantIn(v, q)' = TenantIn(v, q)
  BY DEF Current, TenantIn
<1>. QED  BY <1>1 DEF End, Witnessed, RoutingTypeOK

\* Steps that leave the cycles alone and at most add a table.
LEMMA SteadyWitnessed ==
  ASSUME RoutingInv, Witnessed, UNCHANGED cycleVars,
         \A l \in Loop : pc'[l] # "idle" => phase[l] = "routing",
         Current' \in Nat, Current <= Current',
         \A v \in 0..Current : \A s \in Source : TenantIn(v, s)' = TenantIn(v, s)
  PROVE  Witnessed'
<1>1. held' \in [Loop -> SUBSET (0..Current')]
  BY TypeFacts DEF Witnessed, cycleVars
<1>2. ASSUME NEW l \in Loop, NEW x \in resolved'[l]
      PROVE  x[2] \in Source /\ \E v \in held'[l] : TenantIn(v, x[2])' = x[3]
  <2>1. x[2] \in Source /\ \E v \in held[l] : TenantIn(v, x[2]) = x[3]
    BY <1>2 DEF Witnessed, cycleVars
  <2>2. held'[l] = held[l] /\ held[l] \subseteq 0..Current
    BY DEF Witnessed, cycleVars
  <2>. QED  BY <2>1, <2>2
<1>. QED  BY <1>1, <1>2 DEF Witnessed, cycleVars

LEMMA WitnessedStep ==
  ASSUME RoutingAssumption, IngestInv, [IngestNext]_ingestVars
  PROVE  Witnessed'
<1>t. RoutingTypeOK /\ Current \in Nat /\ loaded \in 0..Current /\ RoutingInv /\ Witnessed
  BY TypeFacts DEF IngestInv
<1>f. ASSUME UNCHANGED tables
      PROVE  Current' = Current /\ \A v, s : TenantIn(v, s)' = TenantIn(v, s)
  BY <1>f DEF Current, TenantIn
<1>1. ASSUME NEW l \in Loop, CycleStep(l) \/ LookUpFails(l) \/ CommitFails(l)
      PROVE  Witnessed'
  <2>1. CASE Poll(l)
    <3>1. phase[l] = "asleep" /\ pc[l] = "idle" /\ UNCHANGED <<tables, pc, loaded>>
      BY <2>1, <1>t DEF Poll, routingVars, loopVars, Witnessed
    <3>2. CASE \E how, rows : End(l, how, rows)
      BY <3>1, <3>2, <1>t, EndWitnessed
    <3>3. CASE /\ phase' = [phase EXCEPT ![l] = "routing"]
               /\ held' = [held EXCEPT ![l] = {loaded}]
               /\ UNCHANGED resolved
      <4>1. resolved'[l] = {}
        BY <3>1, <3>3 DEF Witnessed, IngestInv
      <4>2. \A m \in Loop : m # l => held'[m] = held[m] /\ phase'[m] = phase[m]
        BY <3>3, <1>t DEF Witnessed
      <4>3. phase' \in [Loop -> {"asleep", "routing"}]
            /\ held' \in [Loop -> SUBSET (0..Current')] /\ phase'[l] = "routing"
        BY <3>1, <3>3, <1>t, <1>f DEF Witnessed
      <4>. QED  BY <3>1, <3>3, <4>1, <4>2, <4>3, <1>t, <1>f DEF Witnessed
    <3>. QED  BY <2>1, <3>2, <3>3 DEF Poll
  <2>2. CASE LookUp(l)
    <3>1. PICK s \in Asking(l) : \/ Serve(l, s) /\ Resolve(l, s)
                                 \/ StartRefresh(l, s) /\ UNCHANGED cycleVars
      BY <2>2 DEF LookUp
    <3>2. s \in Source /\ phase[l] = "routing"
      BY <3>1 DEF Serve, StartRefresh, RoutingAssumption, Asking
    <3>3. CASE Serve(l, s) /\ Resolve(l, s)
      <4>1. answer'[s] = TenantIn(loaded', s) /\ loaded' = loaded
        BY <3>2, <3>3, <1>t DEF Serve, Return, RoutingTypeOK
      <4>. QED  BY <3>2, <3>3, <4>1, <1>t, ResolveWitnessed DEF Serve, Return
    <3>4. CASE StartRefresh(l, s) /\ UNCHANGED cycleVars
      <4>1. \A m \in Loop : pc'[m] # "idle" => phase[m] = "routing"
        BY <3>2, <3>4, <1>t DEF StartRefresh, RoutingTypeOK, Witnessed
      <4>2. UNCHANGED tables
        BY <3>4 DEF StartRefresh
      <4>. QED  BY <3>4, <4>1, <4>2, <1>t, <1>f, SteadyWitnessed
    <3>. QED  BY <3>1, <3>3, <3>4
  <2>3. CASE FetchTable(l)
    <3>1. \A m \in Loop : pc'[m] # "idle" => phase[m] = "routing"
      BY <2>3, <1>t DEF FetchTable, Read, RoutingTypeOK, Witnessed
    <3>2. UNCHANGED <<tables, cycleVars>>
      BY <2>3 DEF FetchTable, Read
    <3>. QED  BY <3>1, <3>2, <1>t, <1>f, SteadyWitnessed
  <2>4. CASE Install(l)
    <3>1. phase[l] = "routing" /\ asked[l] \in Source /\ fetched[l] \in 0..Current
      BY <2>4, <1>t DEF Install, Apply, Witnessed, RoutingTypeOK
    <3>2. answer'[asked[l]] = TenantIn(loaded', asked[l]) /\ loaded' = fetched[l]
      BY <2>4, <3>1, <1>t DEF Install, Apply, Return, RoutingTypeOK
    <3>. QED  BY <2>4, <3>1, <3>2, <1>t, ResolveWitnessed DEF Install, Apply, Return
  <2>5. CASE Commit(l)
    <3>1. pc[l] = "idle" /\ UNCHANGED <<tables, pc>> /\ \E how, rows : End(l, how, rows)
      BY <2>5 DEF Commit, routingVars, loopVars
    <3>. QED  BY <3>1, <1>t, EndWitnessed
  <2>6. CASE LookUpFails(l)
    <3>1. phase[l] = "routing" /\ asked[l] \in Source
      BY <2>6, <1>t DEF LookUpFails, RefreshFails, Witnessed, RoutingTypeOK
    <3>2. answer'[asked[l]] = TenantIn(loaded', asked[l]) /\ loaded' = loaded
      BY <2>6, <3>1, <1>t DEF LookUpFails, RefreshFails, Return, RoutingTypeOK
    <3>. QED  BY <2>6, <3>1, <3>2, <1>t, ResolveWitnessed
              DEF LookUpFails, RefreshFails, Return
  <2>7. CASE CommitFails(l)
    <3>1. pc[l] = "idle" /\ UNCHANGED <<tables, pc>> /\ \E how, rows : End(l, how, rows)
      BY <2>7 DEF CommitFails, routingVars, loopVars
    <3>. QED  BY <3>1, <1>t, EndWitnessed
  <2>. QED  BY <1>1, <2>1, <2>2, <2>3, <2>4, <2>5, <2>6, <2>7 DEF CycleStep
<1>2. CASE EditMapping
  <2>1. PICK s \in Source, t \in Tenant : MapSource(s, t)
    BY <1>2 DEF EditMapping
  <2>2. tables \in Seq(Table) /\ tables[Current] \in Table
    BY <1>t, ElementOfSeq DEF RoutingTypeOK, Current
  <2>3. [tables[Current] EXCEPT ![s] = t] \in Table
    BY <2>2 DEF Table
  <2>4. Current' = Current + 1 /\ \A v \in 1..Current : tables'[v] = tables[v]
    BY <2>1, <2>2, <2>3, AppendGrows DEF MapSource, Current
  <2>5. \A v \in 0..Current : \A q \in Source : TenantIn(v, q)' = TenantIn(v, q)
    BY <2>4, <1>t DEF TenantIn
  <2>6. \A m \in Loop : pc'[m] # "idle" => phase[m] = "routing"
    BY <2>1, <1>t DEF MapSource, loopVars, Witnessed
  <2>7. Current' \in Nat /\ Current <= Current'
    BY <2>4, <1>t
  <2>. QED  BY <1>2, <2>5, <2>6, <2>7, <1>t, SteadyWitnessed DEF EditMapping
<1>3. CASE TimePasses
  <2>1. UNCHANGED <<tables, pc, cycleVars>>
    BY <1>3 DEF TimePasses, AgeTick, loopVars
  <2>. QED  BY <2>1, <1>t, <1>f, SteadyWitnessed DEF Witnessed
<1>4. CASE UNCHANGED ingestVars
  <2>1. UNCHANGED <<tables, pc, cycleVars>>
    BY <1>4 DEF ingestVars, routingVars, loopVars
  <2>. QED  BY <2>1, <1>t, <1>f, SteadyWitnessed DEF Witnessed
<1>. QED  BY <1>1, <1>2, <1>3, <1>4 DEF IngestNext

THEOREM IngestInvariant == IngestSpec => []IngestInv
<1>1. IngestInit => IngestInv
  <2>. SUFFICES ASSUME IngestInit PROVE IngestInv
    OBVIOUS
  <2>1. RoutingInv
    BY RoutingInitInv, RoutingAssumption DEF IngestInit
  <2>2. Witnessed
    BY <2>1, TypeFacts DEF IngestInit, RoutingInit, Witnessed
  <2>. QED  BY <2>1, <2>2 DEF IngestInv
<1>2. IngestInv /\ [IngestNext]_ingestVars => IngestInv'
  BY WitnessedStep, RoutingStepInv, IngestStepRefines, RoutingAssumption DEF IngestInv
<1>. QED  BY <1>1, <1>2, PTL DEF IngestSpec

(***************************************************************************)
(* Whatever the refreshes of the two loops do to each other, the tenants   *)
(* of one cycle come from tables the cache held during it.                 *)
(***************************************************************************)
THEOREM SplitHolds == IngestSpec => []SplitOnlyByRefresh
<1>1. IngestInv => SplitOnlyByRefresh
  BY DEF IngestInv, Witnessed, SplitOnlyByRefresh
<1>. QED  BY <1>1, IngestInvariant, PTL

-----------------------------------------------------------------------------
(***************************************************************************)
(* What a cycle has polled and looked up so far.                           *)
(***************************************************************************)
CycleTypes ==
  /\ DOMAIN polled = Loop /\ DOMAIN stored = Loop /\ lost \in 0..MaxFailures
  /\ outcome \in [Loop -> {"none", "stored", "raised", "failed"}]
  /\ \A l \in Loop :
       /\ asked[l] \in SourcesOf[l]
       /\ phase[l] = "routing" => /\ polled[l] \in Answers[l] /\ ~Raises(l, polled[l])
                                  /\ outcome[l] = "none" /\ stored[l] = {}
       /\ \A x \in resolved[l] : x = <<x[1], x[2], x[3]>> /\ x[2] \in SourcesOf[l]
       /\ \A x \in stored[l] : x.row.device \in SourcesOf[l]

(***************************************************************************)
(* No device is looked up twice for one kind of record: the one a refresh  *)
(* is under way for is still to be answered when the refresh ends.         *)
(***************************************************************************)
LookedUpOnce ==
  \A l \in Loop :
    /\ pc[l] # "idle" => asked[l] \in Asking(l)
    /\ \A x, y \in resolved[l] : x[1] = y[1] /\ x[2] = y[2] => x = y

\* What Asking is made of: it does not change under the others' steps.
LookedUpIn(res, kind) == {x[2] : x \in {y \in res : y[1] = kind}}
ToAsk(l, a, res, kind) ==
  {r.device : r \in Batches[l][a][kind]} \ LookedUpIn(res, kind)
KindAt(l, a, res) ==
  Kinds(l)[Min({i \in DOMAIN Kinds(l) : ToAsk(l, a, res, Kinds(l)[i]) # {}})]
AskingFor(l, ph, a, res) ==
  IF ph # "routing" \/ {i \in DOMAIN Kinds(l) : ToAsk(l, a, res, Kinds(l)[i]) # {}} = {}
  THEN {} ELSE ToAsk(l, a, res, KindAt(l, a, res))

LEMMA AskingIs ==
  ASSUME NEW l \in Loop
  PROVE  /\ Asking(l) = AskingFor(l, phase[l], polled[l], resolved[l])
         /\ Asking(l)' = AskingFor(l, phase'[l], polled'[l], resolved'[l])
         /\ AskingKind(l) = KindAt(l, polled[l], resolved[l])
BY DEF Asking, AskingKind, AskingFor, KindAt, ToAsk, LookedUpIn, Devices, RowsOf, LookedUp

LEMMA AskingSame ==
  ASSUME NEW l \in Loop, phase'[l] = phase[l], polled'[l] = polled[l],
         resolved'[l] = resolved[l]
  PROVE  Asking(l)' = Asking(l)
BY AskingIs

LEMMA LeastIn ==
  ASSUME NEW T, T \subseteq Nat, T # {}
  PROVE  Min(T) \in T
BY LeastNumber DEF Min

LEMMA KindsOf ==
  ASSUME NEW l \in Loop
  PROVE  /\ l = SFlow => Kinds(l) = <<"flow", "counter">> /\ DOMAIN Kinds(l) = 1..2
         /\ l # SFlow => Kinds(l) = <<"interface", "bgp", "queue">> /\ DOMAIN Kinds(l) = 1..3
         /\ DOMAIN Kinds(l) \subseteq Nat
BY DEF Kinds

\* A device is asked for while it has not been looked up for the kind at hand.
LEMMA AskingIsNew ==
  ASSUME NEW l \in Loop, NEW s \in Asking(l)
  PROVE  phase[l] = "routing" /\ s \notin LookedUp(l, AskingKind(l))
BY DEF Asking, AskingKind

\* When there is nobody left to ask for, every device of every kind has a tenant.
LEMMA NothingLeft ==
  ASSUME NEW l \in Loop, phase[l] = "routing", Asking(l) = {}, NEW i \in DOMAIN Kinds(l)
  PROVE  Devices(l, Kinds(l)[i]) \subseteq LookedUp(l, Kinds(l)[i])
<1>. DEFINE left == {j \in DOMAIN Kinds(l) :
                       Devices(l, Kinds(l)[j]) \ LookedUp(l, Kinds(l)[j]) # {}}
<1>1. left \subseteq Nat
  BY KindsOf
<1>2. left # {} => Min(left) \in left
  BY <1>1, LeastIn
<1>3. left # {} => Asking(l) = Devices(l, Kinds(l)[Min(left)]) \ LookedUp(l, Kinds(l)[Min(left)])
  BY DEF Asking
<1>4. left = {}
  BY <1>2, <1>3
<1>. QED  BY <1>4

\* tenant_for has answered l, which asked for s.
LEMMA ResolveCycle ==
  ASSUME RoutingInv, Witnessed, CycleTypes, LookedUpOnce, NEW l \in Loop, NEW s \in Asking(l),
         s \in SourcesOf[l], Resolve(l, s), pc' = [pc EXCEPT ![l] = "idle"],
         asked' = asked \/ asked' = [asked EXCEPT ![l] = s]
  PROVE  CycleTypes' /\ LookedUpOnce'
<1>. DEFINE new == <<AskingKind(l), s, answer'[s]>>
<1>t. pc \in [Loop -> {"idle", "reading", "closing"}] /\ asked \in [Loop -> Source]
      /\ DOMAIN resolved = Loop /\ UNCHANGED <<phase, polled, stored, outcome, lost>>
  BY DEF RoutingInv, RoutingTypeOK, Witnessed, Resolve
<1>1. resolved'[l] = resolved[l] \cup {new}
      /\ \A m \in Loop : m # l => resolved'[m] = resolved[m] /\ pc'[m] = pc[m]
                                  /\ asked'[m] = asked[m]
  BY <1>t DEF Resolve
<1>2. CycleTypes'
  <2>1. \A m \in Loop : asked'[m] \in SourcesOf[m]
    BY <1>1, <1>t DEF CycleTypes
  <2>2. \A m \in Loop : \A x \in resolved'[m] :
          x = <<x[1], x[2], x[3]>> /\ x[2] \in SourcesOf[m]
    BY <1>1 DEF CycleTypes
  <2>. QED  BY <2>1, <2>2, <1>t DEF CycleTypes
<1>3. ASSUME NEW m \in Loop, pc'[m] # "idle"
      PROVE  asked'[m] \in Asking(m)'
  <2>1. m # l
    BY <1>3, <1>t
  <2>2. Asking(m)' = Asking(m)
    BY <2>1, <1>1, <1>t, AskingSame
  <2>. QED  BY <1>3, <2>1, <2>2, <1>1 DEF LookedUpOnce
<1>4. \A x \in resolved[l] : ~(x[1] = AskingKind(l) /\ x[2] = s)
  BY AskingIsNew DEF LookedUp
<1>5. ASSUME NEW m \in Loop, NEW x \in resolved'[m], NEW y \in resolved'[m],
             x[1] = y[1], x[2] = y[2]
      PROVE  x = y
  <2>1. CASE x \in resolved[m] /\ y \in resolved[m]
    BY <1>5, <2>1 DEF LookedUpOnce
  <2>2. CASE x \notin resolved[m] \/ y \notin resolved[m]
    <3>1. m = l /\ (x = new \/ y = new)
      BY <2>2, <1>1
    <3>. QED  BY <3>1, <1>1, <1>4, <1>5
  <2>. QED  BY <2>1, <2>2
<1>. QED  BY <1>2, <1>3, <1>5 DEF LookedUpOnce

\* Steps after which l's cycle stands as it did, or has ended with rows of its devices.
LEMMA EndCycle ==
  ASSUME RoutingInv, Witnessed, CycleTypes, LookedUpOnce, NEW l \in Loop, NEW how, NEW rows,
         End(l, how, rows), how \in {"stored", "raised", "failed"}, pc[l] = "idle",
         \A x \in rows : x.row.device \in SourcesOf[l], UNCHANGED <<pc, asked>>,
         DOMAIN polled' = Loop, \A m \in Loop : m # l => polled'[m] = polled[m],
         lost' \in 0..MaxFailures
  PROVE  CycleTypes' /\ LookedUpOnce'
<1>t. phase \in [Loop -> {"asleep", "routing"}] /\ DOMAIN resolved = Loop
  BY DEF Witnessed
<1>1. /\ resolved'[l] = {} /\ stored'[l] = rows /\ phase'[l] = "asleep" /\ DOMAIN stored' = Loop
      /\ \A m \in Loop : m # l => /\ resolved'[m] = resolved[m] /\ stored'[m] = stored[m]
                                  /\ phase'[m] = phase[m] /\ outcome'[m] = outcome[m]
      /\ outcome' \in [Loop -> {"none", "stored", "raised", "failed"}]
  BY <1>t DEF End, CycleTypes
<1>2. CycleTypes'
  BY <1>1 DEF CycleTypes
<1>3. ASSUME NEW m \in Loop, pc'[m] # "idle"
      PROVE  asked'[m] \in Asking(m)'
  <2>1. m # l
    BY <1>3
  <2>2. Asking(m)' = Asking(m)
    BY <2>1, <1>1, AskingSame
  <2>. QED  BY <1>3, <2>2 DEF LookedUpOnce
<1>4. \A m \in Loop : \A x, y \in resolved'[m] : x[1] = y[1] /\ x[2] = y[2] => x = y
  BY <1>1 DEF LookedUpOnce
<1>. QED  BY <1>2, <1>3, <1>4 DEF LookedUpOnce

LEMMA SteadyCycle ==
  ASSUME CycleTypes, LookedUpOnce, UNCHANGED cycleVars,
         \A m \in Loop : asked'[m] \in SourcesOf[m],
         \A m \in Loop : pc'[m] # "idle" => asked'[m] \in Asking(m)
  PROVE  CycleTypes' /\ LookedUpOnce'
<1>1. CycleTypes'
  BY DEF CycleTypes, cycleVars
<1>2. \A m \in Loop : pc'[m] # "idle" => asked'[m] \in Asking(m)'
  BY AskingSame DEF cycleVars
<1>. QED  BY <1>1, <1>2 DEF LookedUpOnce, cycleVars

\* Every row is of a device the loop looked up.
LEMMA RowsMine ==
  ASSUME CycleTypes, NEW l \in Loop
  PROVE  \A x \in Rows(l) : x.row.device \in SourcesOf[l]
BY DEF CycleTypes, Rows

CycleInv == IngestInv /\ CycleTypes /\ LookedUpOnce

LEMMA CycleInvInit ==
  ASSUME IngestInit, IngestInv
  PROVE  CycleTypes /\ LookedUpOnce
<1>1. CycleTypes
  BY RoutingAssumption DEF IngestInit, RoutingInit, CycleTypes
<1>2. LookedUpOnce
  BY DEF IngestInit, RoutingInit, LookedUpOnce
<1>. QED  BY <1>1, <1>2

LEMMA CycleInvStep ==
  ASSUME CycleInv, [IngestNext]_ingestVars
  PROVE  CycleTypes' /\ LookedUpOnce'
<1>. USE RoutingAssumption
<1>i. RoutingInv /\ Witnessed /\ CycleTypes /\ LookedUpOnce
  BY DEF CycleInv, IngestInv
<1>t. /\ pc \in [Loop -> {"idle", "reading", "closing"}] /\ asked \in [Loop -> Source]
      /\ phase \in [Loop -> {"asleep", "routing"}] /\ failures \in Nat
      /\ DOMAIN resolved = Loop
  BY <1>i DEF RoutingInv, RoutingTypeOK, Witnessed
<1>s. ASSUME UNCHANGED <<pc, asked, cycleVars>>
      PROVE  CycleTypes' /\ LookedUpOnce'
  BY <1>s, <1>i, SteadyCycle DEF CycleTypes, LookedUpOnce
<1>1. ASSUME NEW l \in Loop, Poll(l)
      PROVE  CycleTypes' /\ LookedUpOnce'
  <2>1. PICK a \in Answers[l] :
          /\ polled' = [polled EXCEPT ![l] = a]
          /\ IF Raises(l, a)
             THEN End(l, "raised", {})
             ELSE /\ phase' = [phase EXCEPT ![l] = "routing"]
                  /\ held' = [held EXCEPT ![l] = {loaded}]
                  /\ stored' = [stored EXCEPT ![l] = {}]
                  /\ outcome' = [outcome EXCEPT ![l] = "none"]
                  /\ UNCHANGED resolved
    BY <1>1 DEF Poll
  <2>2. /\ phase[l] = "asleep" /\ pc[l] = "idle" /\ UNCHANGED <<pc, asked, lost>>
        /\ lost \in 0..MaxFailures
    BY <1>1, <1>i DEF Poll, routingVars, loopVars, Witnessed, CycleTypes
  <2>3. /\ DOMAIN polled' = Loop /\ polled'[l] = a
        /\ \A m \in Loop : m # l => polled'[m] = polled[m]
    BY <2>1, <1>i DEF CycleTypes
  <2>4. CASE Raises(l, a)
    <3>1. End(l, "raised", {})
      BY <2>1, <2>4
    <3>. QED  BY <3>1, <2>2, <2>3, <1>i, EndCycle
  <2>5. CASE ~Raises(l, a)
    <3>1. /\ phase'[l] = "routing" /\ resolved'[l] = {} /\ stored'[l] = {} /\ outcome'[l] = "none"
          /\ UNCHANGED resolved /\ DOMAIN stored' = Loop
          /\ \A m \in Loop : m # l => /\ stored'[m] = stored[m] /\ phase'[m] = phase[m]
                                      /\ outcome'[m] = outcome[m]
          /\ outcome' \in [Loop -> {"none", "stored", "raised", "failed"}]
      BY <2>1, <2>2, <2>5, <1>i, <1>t DEF CycleTypes, Witnessed
    <3>2. CycleTypes'
      BY <2>2, <2>3, <2>5, <3>1, <1>i DEF CycleTypes
    <3>3. ASSUME NEW m \in Loop, pc'[m] # "idle"
          PROVE  asked'[m] \in Asking(m)'
      <4>1. m # l
        BY <3>3, <2>2
      <4>2. Asking(m)' = Asking(m)
        BY <4>1, <3>1, <2>3, AskingSame
      <4>. QED  BY <3>3, <4>2, <2>2, <1>i DEF LookedUpOnce
    <3>. QED  BY <3>1, <3>2, <3>3, <1>i DEF LookedUpOnce
  <2>. QED  BY <2>4, <2>5
<1>2. ASSUME NEW l \in Loop, LookUp(l)
      PROVE  CycleTypes' /\ LookedUpOnce'
  <2>1. PICK s \in Asking(l) : \/ Serve(l, s) /\ Resolve(l, s)
                               \/ StartRefresh(l, s) /\ UNCHANGED cycleVars
    BY <1>2 DEF LookUp
  <2>2. CASE Serve(l, s) /\ Resolve(l, s)
    <3>1. /\ s \in SourcesOf[l] /\ pc' = [pc EXCEPT ![l] = "idle"]
          /\ asked' = [asked EXCEPT ![l] = s]
      BY <2>2 DEF Serve, Return
    <3>. QED  BY <2>2, <3>1, <1>i, ResolveCycle
  <2>3. CASE StartRefresh(l, s) /\ UNCHANGED cycleVars
    <3>1. \A m \in Loop : asked'[m] \in SourcesOf[m]
      BY <2>3, <1>i, <1>t DEF StartRefresh, CycleTypes
    <3>2. \A m \in Loop : pc'[m] # "idle" => asked'[m] \in Asking(m)
      BY <2>3, <1>i, <1>t DEF StartRefresh, LookedUpOnce
    <3>. QED  BY <2>3, <3>1, <3>2, <1>i, SteadyCycle
  <2>. QED  BY <2>1, <2>2, <2>3
<1>3. ASSUME NEW l \in Loop, FetchTable(l)
      PROVE  CycleTypes' /\ LookedUpOnce'
  <2>1. /\ UNCHANGED <<asked, cycleVars>> /\ pc[l] # "idle"
        /\ \A m \in Loop : m # l => pc'[m] = pc[m]
    BY <1>3, <1>t DEF FetchTable, Read
  <2>. QED  BY <2>1, <1>i, SteadyCycle DEF CycleTypes, LookedUpOnce
<1>4. ASSUME NEW l \in Loop, Install(l)
      PROVE  CycleTypes' /\ LookedUpOnce'
  <2>1. asked[l] \in Asking(l) /\ asked[l] \in SourcesOf[l]
    BY <1>4, <1>i DEF Install, Apply, LookedUpOnce, CycleTypes
  <2>2. Resolve(l, asked[l]) /\ pc' = [pc EXCEPT ![l] = "idle"] /\ asked' = asked
    BY <1>4 DEF Install, Apply, Return
  <2>. QED  BY <2>1, <2>2, <1>i, ResolveCycle
<1>5. ASSUME NEW l \in Loop, LookUpFails(l)
      PROVE  CycleTypes' /\ LookedUpOnce'
  <2>1. asked[l] \in Asking(l) /\ asked[l] \in SourcesOf[l]
    BY <1>5, <1>i DEF LookUpFails, RefreshFails, LookedUpOnce, CycleTypes
  <2>2. Resolve(l, asked[l]) /\ pc' = [pc EXCEPT ![l] = "idle"] /\ asked' = asked
    BY <1>5 DEF LookUpFails, RefreshFails, Return
  <2>. QED  BY <2>1, <2>2, <1>i, ResolveCycle
<1>6. ASSUME NEW l \in Loop, Commit(l)
      PROVE  CycleTypes' /\ LookedUpOnce'
  <2>1. /\ pc[l] = "idle" /\ UNCHANGED <<pc, asked, polled, lost>>
        /\ End(l, "stored", Rows(l)) \/ End(l, "failed", {})
    BY <1>6 DEF Commit, routingVars, loopVars
  <2>2. DOMAIN polled' = Loop /\ lost' \in 0..MaxFailures
    BY <2>1, <1>i DEF CycleTypes
  <2>. QED  BY <2>1, <2>2, <1>i, EndCycle, RowsMine
<1>7. ASSUME NEW l \in Loop, CommitFails(l)
      PROVE  CycleTypes' /\ LookedUpOnce'
  <2>1. /\ pc[l] = "idle" /\ UNCHANGED <<pc, asked, polled>> /\ End(l, "failed", {})
        /\ failures + lost < MaxFailures /\ lost' = lost + 1
    BY <1>7 DEF CommitFails, routingVars, loopVars
  <2>2. DOMAIN polled' = Loop /\ lost' \in 0..MaxFailures
    BY <2>1, <1>i, <1>t DEF CycleTypes
  <2>. QED  BY <2>1, <2>2, <1>i, EndCycle
<1>8. CASE EditMapping \/ TimePasses \/ UNCHANGED ingestVars
  <2>1. UNCHANGED <<pc, asked, cycleVars>>
    BY <1>8 DEF EditMapping, TimePasses, MapSource, AgeTick, ingestVars, routingVars, loopVars
  <2>. QED  BY <2>1, <1>s
<1>. QED  BY <1>1, <1>2, <1>3, <1>4, <1>5, <1>6, <1>7, <1>8 DEF IngestNext, CycleStep

THEOREM CycleInvariant == IngestSpec => []CycleInv
<1>1. IngestInit /\ IngestInv => CycleInv
  BY CycleInvInit DEF CycleInv
<1>2. CycleInv /\ IngestInv' /\ [IngestNext]_ingestVars => CycleInv'
  BY CycleInvStep DEF CycleInv
<1>. QED  BY <1>1, <1>2, IngestInvariant, PTL DEF IngestSpec

(***************************************************************************)
(* The types: a loop looks up, and stores rows of, its own devices only,   *)
(* and every tenant is one that is mapped or the default.                  *)
(***************************************************************************)
THEOREM IngestTypeHolds == IngestSpec => []IngestTypeOK
<1>1. ASSUME CycleInv
      PROVE  IngestTypeOK
  <2>t. RoutingTypeOK /\ Witnessed /\ CycleTypes
    BY <1>1 DEF CycleInv, IngestInv, RoutingInv
  <2>1. ASSUME NEW l \in Loop, NEW x \in resolved[l]
        PROVE  x[3] \in Tenant \cup {Default}
    <3>1. x[2] \in Source /\ \E v \in held[l] : TenantIn(v, x[2]) = x[3]
      BY <2>t DEF Witnessed
    <3>2. PICK v \in 0..Current : TenantIn(v, x[2]) = x[3]
      BY <3>1, <2>t DEF Witnessed
    <3>3. TenantIn(v, x[2]) \in Tenant \cup {Default, NoMapping}
      BY <2>t, <3>1, TenantInType
    <3>4. TenantIn(v, x[2]) = Default \/ TenantIn(v, x[2]) # NoMapping
      BY DEF TenantIn
    <3>. QED  BY <3>2, <3>3, <3>4
  <2>2. /\ phase \in [Loop -> {"asleep", "routing"}]
        /\ \A l \in Loop : held[l] \subseteq 0..Current
        /\ \A l \in Loop : pc[l] # "idle" => phase[l] = "routing"
    BY <2>t DEF Witnessed
  <2>. QED  BY <2>1, <2>2, <2>t DEF IngestTypeOK, CycleTypes
<1>. QED  BY <1>1, CycleInvariant, PTL

-----------------------------------------------------------------------------
(***************************************************************************)
(* What a cycle stores of the queues.                                      *)
(***************************************************************************)
LEMMA MaxIn ==
  ASSUME NEW n \in Nat, NEW T, T \subseteq 1..n, T # {}
  PROVE  Max(T) \in T /\ \A y \in T : y <= Max(T)
<1>. DEFINE Left == {n - x : x \in T}
<1>0. \A x \in T : n - x \in Nat
  <2>1. \A x \in T : x \in Nat /\ x <= n
    OBVIOUS
  <2>. QED  BY <2>1
<1>1. Left \subseteq Nat /\ Left # {}
  BY <1>0
<1>2. PICK m \in Left : \A y \in Left : m <= y
  BY <1>1, LeastNumber
<1>3. PICK x \in T : m = n - x
  BY <1>2
<1>4. \A y \in T : n - y \in Left
  OBVIOUS
<1>5. \A y \in T : n - x <= n - y
  BY <1>2, <1>3, <1>4
<1>6. \A y \in T : x \in 1..n /\ y \in 1..n
  BY <1>3
<1>7. \A y \in T : y <= x
  BY <1>5, <1>6
<1>. QED  BY <1>3, <1>7 DEF Max

\* Update k of a list is dropped, or a later one takes its place.
Dropped(us, k) ==
  \/ us[k].item = None \/ us[k].val \notin Int
  \/ us[k].leaf \notin Columns["queue"]
  \/ \E j \in k + 1..Len(us) :
       /\ us[j].leaf = us[k].leaf /\ us[j].item # None
       /\ us[j].item[1] = us[k].item[1]
       /\ QueueId[us[j].item[2]] = QueueId[us[k].item[2]]
Shows(r, d, us, k) ==
  /\ r.device = d
  /\ r.key = <<us[k].item[1], QueueId[us[k].item[2]]>>
  /\ r.number[us[k].leaf] = us[k].val

\* The last number sent for a counter of a queue is in the row of the queue.
LEMMA QueueRow ==
  ASSUME NEW d, NEW a, NEW us, a.status = "ok", a.rows = us, us \in Seq(Range(us)),
         NEW k \in DOMAIN us, ~Dropped(us, k)
  PROVE  \E r \in ParsePath(d, "queue", a) : Shows(r, d, us, k)
<1>. DEFINE n == us[k].leaf
            key == <<us[k].item[1], QueueId[us[k].item[2]]>>
            At == {j \in DOMAIN us : us[j].item # None /\ KeyOf("queue", us[j].item) = key}
            Same == {j \in At : us[j].leaf = n}
            leaves == Leaves("queue", us, key)
            r == Row(d, "queue", key, leaves)
<1>1. DOMAIN us = 1..Len(us) /\ Len(us) \in Nat
  BY LenProperties
<1>2. key = KeyOf("queue", us[k].item)
  BY DEF KeyOf
<1>3. k \in Same /\ Same \subseteq 1..Len(us)
  BY <1>1, <1>2 DEF Dropped
<1>4. Max(Same) \in Same /\ k <= Max(Same)
  BY <1>1, <1>3, MaxIn
<1>5. PICK j \in Same : j = Max(Same)
  BY <1>4
<1>6. /\ us[j].leaf = us[k].leaf /\ us[j].item # None
      /\ us[j].item[1] = us[k].item[1] /\ QueueId[us[j].item[2]] = QueueId[us[k].item[2]]
  BY <1>5 DEF KeyOf
<1>7. j \in 1..Len(us) /\ k \in 1..Len(us) /\ k <= j
  BY <1>1, <1>3, <1>4, <1>5
<1>8. j \notin k + 1..Len(us)
  BY <1>6 DEF Dropped
<1>9. j = k
  BY <1>7, <1>8, <1>1
<1>10. n \in DOMAIN leaves /\ leaves[n] = us[k].val
  <2>1. leaves = [m \in {us[i].leaf : i \in At} |-> us[Max({i \in At : us[i].leaf = m})].val]
    BY DEF Leaves
  <2>2. n \in {us[i].leaf : i \in At}
    BY <1>3
  <2>3. leaves[n] = us[Max(Same)].val
    BY <2>1, <2>2
  <2>. QED  BY <2>1, <2>2, <2>3, <1>5, <1>9
<1>11. n \in Columns["queue"] \ DOMAIN Statuses
  BY DEF Columns, Statuses, Path, Dropped
<1>12. r.number[n] = us[k].val
  <2>. HIDE DEF leaves, n
  <2>1. r.number = [m \in Columns["queue"] \ DOMAIN Statuses |-> Number(m, leaves, 0)]
    BY DEF Row
  <2>2. Number(n, leaves, 0) = us[k].val
    BY <1>10 DEF Number, Dropped
  <2>. QED  BY <2>1, <2>2, <1>11
<1>13. r \in ParsePath(d, "queue", a)
  <2>1. key \in {KeyOf("queue", us[i].item) : i \in {m \in DOMAIN us : us[m].item # None}}
    BY <1>2
  <2>2. Complete("queue", leaves)
    BY DEF Complete
  <2>. HIDE DEF key
  <2>. QED  BY <2>1, <2>2 DEF ParsePath
<1>14. r.device = d /\ r.key = key
  BY DEF Row
<1>. QED  BY <1>12, <1>13, <1>14 DEF Shows

LEMMA QueuesOf ==
  ASSUME NEW a \in Answers[Gnmi], polled[Gnmi] = a
  PROVE  RowsOf(Gnmi, "queue") = UNION {ParsePath(d, "queue", a[d]["queue"]) : d \in DOMAIN a}
<1>1. Gnmi \in Loop /\ Gnmi # SFlow
  BY IngestAssumption
<1>2. ~Raises(Gnmi, a)
  BY <1>1 DEF Raises
<1>3. Batches[Gnmi][a] = Batch(Gnmi, a)
  BY <1>1, <1>2 DEF Batches
<1>4. "queue" \in {Kinds(Gnmi)[i] : i \in DOMAIN Kinds(Gnmi)}
  <2>1. Kinds(Gnmi)[3] = "queue" /\ 3 \in DOMAIN Kinds(Gnmi)
    BY <1>1, KindsOf
  <2>. QED  BY <2>1
<1>5. Batch(Gnmi, a)["queue"] = GetPath("queue", a)
  BY <1>4 DEF Batch
<1>. QED  BY <1>3, <1>5 DEF RowsOf, GetPath

\* Every row of a finished cycle is stored under the tenant of its device.
LEMMA RowsAll ==
  ASSUME NEW l \in Loop, phase[l] = "routing", Asking(l) = {}, CycleTypes,
         NEW i \in DOMAIN Kinds(l), NEW r \in RowsOf(l, Kinds(l)[i])
  PROVE  \E y \in resolved[l] :
           /\ y[1] = Kinds(l)[i] /\ y[2] = r.device
           /\ [row |-> r, kind |-> Kinds(l)[i], tenant |-> y[3]] \in Rows(l)
<1>1. r.device \in LookedUp(l, Kinds(l)[i])
  BY NothingLeft DEF Devices
<1>2. PICK y \in resolved[l] : y[1] = Kinds(l)[i] /\ y[2] = r.device
  BY <1>1 DEF LookedUp
<1>3. r \in {q \in RowsOf(l, y[1]) : q.device = y[2]}
  BY <1>2
<1>. DEFINE of(x) == {[row |-> q, kind |-> x[1], tenant |-> x[3]] :
                        q \in {p \in RowsOf(l, x[1]) : p.device = x[2]}}
<1>4. [row |-> r, kind |-> Kinds(l)[i], tenant |-> y[3]] \in of(y)
  BY <1>2, <1>3
<1>5. Rows(l) = UNION {of(x) : x \in resolved[l]}
  BY DEF Rows
<1>. HIDE DEF of
<1>. QED  BY <1>2, <1>4, <1>5

QueuesIn(a, rows) ==
  \A d \in DOMAIN a : a[d]["queue"].status = "ok" =>
    \A k \in DOMAIN a[d]["queue"].rows :
      \/ Dropped(a[d]["queue"].rows, k)
      \/ \E x \in rows : x.kind = "queue" /\ Shows(x.row, d, a[d]["queue"].rows, k)

LEMMA QueuesKeptIs ==
  /\ QueuesKept <=> (outcome[Gnmi] = "stored" => QueuesIn(polled[Gnmi], stored[Gnmi]))
  /\ QueuesKept' <=> (outcome'[Gnmi] = "stored" => QueuesIn(polled'[Gnmi], stored'[Gnmi]))
BY DEF QueuesKept, QueuesIn, Dropped, Shows

LEMMA CommitQueues ==
  ASSUME CycleTypes, phase[Gnmi] = "routing", Asking(Gnmi) = {}
  PROVE  QueuesIn(polled[Gnmi], Rows(Gnmi))
<1>g. Gnmi \in Loop /\ Gnmi # SFlow
  BY IngestAssumption
<1>. DEFINE a == polled[Gnmi]
<1>a. a \in Answers[Gnmi]
  BY <1>g DEF CycleTypes
<1>. SUFFICES ASSUME NEW d \in DOMAIN a, a[d]["queue"].status = "ok",
                     NEW k \in DOMAIN a[d]["queue"].rows, ~Dropped(a[d]["queue"].rows, k)
              PROVE  \E x \in Rows(Gnmi) :
                       x.kind = "queue" /\ Shows(x.row, d, a[d]["queue"].rows, k)
  BY DEF QueuesIn
<1>1. a[d]["queue"].rows \in Seq(Range(a[d]["queue"].rows))
  BY <1>a, AnswersAssumption
<1>2. PICK q : q = a[d]["queue"]
  OBVIOUS
<1>3. PICK r \in ParsePath(d, "queue", q) : Shows(r, d, q.rows, k)
  BY <1>1, <1>2, QueueRow
<1>4. r \in RowsOf(Gnmi, "queue")
  BY <1>a, <1>2, <1>3, QueuesOf
<1>5. Kinds(Gnmi) = <<"interface", "bgp", "queue">> /\ DOMAIN Kinds(Gnmi) = 1..3
  BY <1>g, KindsOf
<1>6. 3 \in DOMAIN Kinds(Gnmi)
  BY <1>5
<1>7. Kinds(Gnmi)[3] = "queue"
  BY <1>5
<1>8. PICK y \in resolved[Gnmi] :
        [row |-> r, kind |-> "queue", tenant |-> y[3]] \in Rows(Gnmi)
  BY <1>4, <1>6, <1>7, <1>g, RowsAll
<1>. QED  BY <1>2, <1>3, <1>8

\* What a cycle has stored stays what it was until the next one, and was the
\* rows of everything it had polled when it committed.
LEMMA StoredStep ==
  ASSUME CycleTypes, Witnessed, [IngestNext]_ingestVars, NEW l \in Loop, outcome'[l] = "stored"
  PROVE  /\ polled'[l] = polled[l]
         /\ \/ outcome[l] = "stored" /\ stored'[l] = stored[l]
            \/ phase[l] = "routing" /\ Asking(l) = {} /\ stored'[l] = Rows(l)
<1>t. /\ DOMAIN polled = Loop /\ DOMAIN stored = Loop /\ DOMAIN outcome = Loop
      /\ phase \in [Loop -> {"asleep", "routing"}]
  BY DEF CycleTypes, Witnessed
<1>1. ASSUME NEW m \in Loop, NEW how, NEW rows, End(m, how, rows)
      PROVE  /\ m # l => outcome'[l] = outcome[l] /\ stored'[l] = stored[l]
             /\ m = l => outcome'[l] = how /\ stored'[l] = rows
  BY <1>1, <1>t DEF End
<1>2. ASSUME NEW m \in Loop, Poll(m)
      PROVE  /\ polled'[l] = polled[l]
             /\ outcome[l] = "stored" /\ stored'[l] = stored[l]
  <2>1. PICK a \in Answers[m] :
          /\ polled' = [polled EXCEPT ![m] = a]
          /\ \/ End(m, "raised", {})
             \/ /\ stored' = [stored EXCEPT ![m] = {}]
                /\ outcome' = [outcome EXCEPT ![m] = "none"]
    BY <1>2 DEF Poll
  <2>2. m # l
    BY <2>1, <1>1, <1>t
  <2>. QED  BY <2>1, <2>2, <1>1, <1>t
<1>3. ASSUME NEW m \in Loop, LookUp(m) \/ FetchTable(m) \/ Install(m) \/ LookUpFails(m)
      PROVE  /\ polled'[l] = polled[l]
             /\ outcome[l] = "stored" /\ stored'[l] = stored[l]
  BY <1>3 DEF LookUp, FetchTable, Install, LookUpFails, Resolve, cycleVars
<1>4. ASSUME NEW m \in Loop, Commit(m)
      PROVE  /\ polled'[l] = polled[l]
             /\ \/ outcome[l] = "stored" /\ stored'[l] = stored[l]
                \/ phase[l] = "routing" /\ Asking(l) = {} /\ stored'[l] = Rows(l)
  <2>1. /\ polled' = polled /\ phase[m] = "routing" /\ Asking(m) = {}
        /\ End(m, "stored", Rows(m)) \/ End(m, "failed", {})
    BY <1>4 DEF Commit
  <2>2. CASE End(m, "stored", Rows(m))
    BY <2>1, <2>2, <1>1
  <2>3. CASE End(m, "failed", {})
    BY <2>1, <2>3, <1>1
  <2>. QED  BY <2>1, <2>2, <2>3
<1>5. ASSUME NEW m \in Loop, CommitFails(m)
      PROVE  /\ polled'[l] = polled[l]
             /\ outcome[l] = "stored" /\ stored'[l] = stored[l]
  <2>1. polled' = polled /\ End(m, "failed", {})
    BY <1>5 DEF CommitFails
  <2>. QED  BY <2>1, <1>1
<1>6. CASE EditMapping \/ TimePasses \/ UNCHANGED ingestVars
  BY <1>6 DEF EditMapping, TimePasses, ingestVars, cycleVars
<1>. QED  BY <1>2, <1>3, <1>4, <1>5, <1>6 DEF IngestNext, CycleStep

(***************************************************************************)
(* A gNMI target that does not answer, or answers with what no column is   *)
(* for, costs the others nothing: what is stored has the last number sent  *)
(* for each counter of each queue.                                         *)
(***************************************************************************)
THEOREM QueuesHold == IngestSpec => []QueuesKept
<1>1. IngestInit => QueuesKept
  BY IngestAssumption DEF IngestInit, QueuesKept
<1>2. ASSUME QueuesKept, CycleInv, [IngestNext]_ingestVars
      PROVE  QueuesKept'
  <2>1. CycleTypes /\ Witnessed /\ Gnmi \in Loop
    BY <1>2, IngestAssumption DEF CycleInv, IngestInv
  <2>2. SUFFICES ASSUME outcome'[Gnmi] = "stored"
                 PROVE  QueuesIn(polled'[Gnmi], stored'[Gnmi])
    BY QueuesKeptIs
  <2>3. polled'[Gnmi] = polled[Gnmi]
    BY <1>2, <2>1, <2>2, StoredStep
  <2>4. CASE outcome[Gnmi] = "stored" /\ stored'[Gnmi] = stored[Gnmi]
    BY <1>2, <2>3, <2>4, QueuesKeptIs
  <2>5. CASE phase[Gnmi] = "routing" /\ Asking(Gnmi) = {} /\ stored'[Gnmi] = Rows(Gnmi)
    BY <2>1, <2>3, <2>5, CommitQueues
  <2>. QED  BY <1>2, <2>1, <2>2, <2>4, <2>5, StoredStep
<1>. QED  BY <1>1, <1>2, CycleInvariant, PTL DEF IngestSpec

-----------------------------------------------------------------------------
(***************************************************************************)
(* What a cycle stores of the flows.                                       *)
(***************************************************************************)
Sample(a, d) == {i \in TopFlows(a) : a.rows[i].device = d}
FlowsStored(rows, d) == {x \in rows : x.kind = "flow" /\ x.row.device = d}
Volumes(a, S) == [i \in S |-> a.rows[i].bytes * a.rows[i].rate]

LEMMA FlowsOf ==
  ASSUME NEW a \in Answers[SFlow], polled[SFlow] = a, ~Raises(SFlow, a)
  PROVE  RowsOf(SFlow, "flow") = FlowRows(a.flows)
<1>1. SFlow \in Loop
  BY IngestAssumption
<1>2. Batches[SFlow][a] = Batch(SFlow, a)
  BY <1>1 DEF Batches
<1>3. "flow" \in {Kinds(SFlow)[i] : i \in DOMAIN Kinds(SFlow)}
  <2>1. Kinds(SFlow)[1] = "flow" /\ 1 \in DOMAIN Kinds(SFlow)
    BY <1>1, KindsOf
  <2>. QED  BY <2>1
<1>4. Batch(SFlow, a)["flow"] = FlowRows(a.flows)
  BY <1>3 DEF Batch
<1>. QED  BY <1>2, <1>4 DEF RowsOf

\* The row of a key has the volume of its samples.
LEMMA RowVolume ==
  ASSUME NEW a, NEW d, NEW k, IsFiniteSet(TopFlows(a))
  PROVE  /\ FlowRow(a, d, k).device = d /\ FlowRow(a, d, k).key = k
         /\ FlowRow(a, d, k).bytes
              = SumFunctionOnSet(Volumes(a, Sample(a, d)), Bucket(a, d, k))
<1>1. Bucket(a, d, k) \subseteq Sample(a, d) /\ IsFiniteSet(Bucket(a, d, k))
  BY FS_Subset DEF Bucket, Sample
<1>. DEFINE f == Volumes(a, Bucket(a, d, k))
            e == Volumes(a, Sample(a, d))
<1>2. FlowRow(a, d, k).bytes = SumFunctionOnSet(f, Bucket(a, d, k))
  BY DEF FlowRow, SumFunction, Volumes
<1>3. \A i \in Bucket(a, d, k) : f[i] = e[i]
  BY <1>1 DEF Volumes
<1>4. SumFunctionOnSet(f, Bucket(a, d, k)) = SumFunctionOnSet(e, Bucket(a, d, k))
  <2>. HIDE DEF f, e
  <2>. QED  BY <1>1, <1>3, SumSame
<1>. QED  BY <1>2, <1>4 DEF FlowRow

LEMMA CommitFlows ==
  ASSUME CycleTypes, LookedUpOnce, phase[SFlow] = "routing", Asking(SFlow) = {}, NEW d
  PROVE  LET a == polled[SFlow].flows IN
         SumFunction([x \in FlowsStored(Rows(SFlow), d) |-> x.row.bytes])
           = SumFunctionOnSet(Volumes(a, Sample(a, d)), Sample(a, d))
<1>g. SFlow \in Loop
  BY IngestAssumption
<1>a. polled[SFlow] \in Answers[SFlow] /\ ~Raises(SFlow, polled[SFlow])
  BY <1>g DEF CycleTypes
<1>. DEFINE a == polled[SFlow].flows
            S == Sample(a, d)
            X == FlowsStored(Rows(SFlow), d)
            f == Volumes(a, S)
            e == [x \in X |-> x.row.bytes]
            g == [i \in S |-> CHOOSE x \in X : x.row = FlowRow(a, d, a.rows[i].key)]
<1>1. IsFiniteSet(TopFlows(a)) /\ IsFiniteSet(S) /\ \A i \in S : f[i] \in Int
  <2>1. a.rows \in Seq(Range(a.rows))
    BY <1>a, AnswersAssumption
  <2>2. DOMAIN a.rows = 1..Len(a.rows) /\ Len(a.rows) \in Nat
    BY <2>1, LenProperties
  <2>3. IsFiniteSet(DOMAIN a.rows)
    BY <2>2, FS_Interval
  <2>4. TopFlows(a) \subseteq DOMAIN a.rows /\ S \subseteq TopFlows(a)
    BY DEF TopFlows, Sample
  <2>5. \A i \in S : a.rows[i].bytes \in Int /\ a.rows[i].rate \in Int
    BY <1>a, AnswersAssumption DEF TopFlows, Sample
  <2>6. IsFiniteSet(TopFlows(a)) /\ IsFiniteSet(S)
    BY <2>3, <2>4, FS_Subset
  <2>. QED  BY <2>5, <2>6 DEF Volumes
<1>2. RowsOf(SFlow, "flow") = FlowRows(a)
  BY <1>a, FlowsOf
<1>3. ASSUME NEW x \in X
      PROVE  /\ \E i \in S : x.row = FlowRow(a, d, a.rows[i].key)
             /\ \E z \in resolved[SFlow] : z[1] = "flow" /\ z[2] = d
                  /\ x = [row |-> x.row, kind |-> "flow", tenant |-> z[3]]
  <2>1. PICK z \in resolved[SFlow] : \E r \in RowsOf(SFlow, z[1]) :
          r.device = z[2] /\ x = [row |-> r, kind |-> z[1], tenant |-> z[3]]
    BY DEF FlowsStored, Rows
  <2>2. z[1] = "flow" /\ z[2] = d /\ x.row \in FlowRows(a) /\ x.row.device = d
        /\ x = [row |-> x.row, kind |-> "flow", tenant |-> z[3]]
    BY <2>1, <1>2 DEF FlowsStored
  <2>3. PICK i \in TopFlows(a) : x.row = FlowRow(a, a.rows[i].device, a.rows[i].key)
    BY <2>2 DEF FlowRows
  <2>4. a.rows[i].device = d
    BY <2>2, <2>3, <1>1, RowVolume
  <2>. QED  BY <2>2, <2>3, <2>4 DEF Sample
<1>4. ASSUME NEW x \in X, NEW y \in X, x.row = y.row
      PROVE  x = y
  BY <1>3, <1>4, <1>g DEF LookedUpOnce
<1>5. ASSUME NEW i \in S
      PROVE  \E x \in X : x.row = FlowRow(a, d, a.rows[i].key)
  <2>. DEFINE r == FlowRow(a, d, a.rows[i].key)
  <2>1. r \in RowsOf(SFlow, "flow") /\ r.device = d
    <3>1. r.device = d
      BY <1>1, RowVolume
    <3>2. i \in TopFlows(a) /\ a.rows[i].device = d
      BY DEF Sample
    <3>. QED  BY <1>2, <3>1, <3>2 DEF FlowRows
  <2>2. 1 \in DOMAIN Kinds(SFlow) /\ Kinds(SFlow)[1] = "flow"
    BY <1>g, KindsOf
  <2>. HIDE DEF r
  <2>3. PICK y \in resolved[SFlow] :
          [row |-> r, kind |-> "flow", tenant |-> y[3]] \in Rows(SFlow)
    BY <1>g, <2>1, <2>2, RowsAll
  <2>4. [row |-> r, kind |-> "flow", tenant |-> y[3]] \in X
    BY <2>1, <2>3 DEF FlowsStored
  <2>. QED  BY <2>4 DEF r
<1>6. g \in [S -> X] /\ \A i \in S : g[i].row = FlowRow(a, d, a.rows[i].key)
  BY <1>5
<1>7. ASSUME NEW x \in X
      PROVE  \E P \in SUBSET S :
               (\A i \in S : i \in P <=> g[i] = x) /\ e[x] = SumFunctionOnSet(f, P)
  <2>1. PICK j \in S : x.row = FlowRow(a, d, a.rows[j].key)
    BY <1>3
  <2>2. e[x] = SumFunctionOnSet(f, Bucket(a, d, a.rows[j].key))
    BY <2>1, <1>1, RowVolume
  <2>3. ASSUME NEW i \in S
        PROVE  g[i] = x <=> a.rows[i].key = a.rows[j].key
    <3>1. g[i] = x => a.rows[i].key = a.rows[j].key
      BY <2>1, <1>1, <1>6, RowVolume
    <3>2. a.rows[i].key = a.rows[j].key => g[i] = x
      BY <2>1, <1>4, <1>6
    <3>. QED  BY <3>1, <3>2
  <2>4. /\ Bucket(a, d, a.rows[j].key) \in SUBSET S
        /\ \A i \in S : i \in Bucket(a, d, a.rows[j].key) <=> a.rows[i].key = a.rows[j].key
    BY DEF Bucket, Sample
  <2>. QED  BY <2>2, <2>3, <2>4
<1>8. IsFiniteSet(X)
  <2>1. \A x \in X : \E i \in S : g[i] = x
    BY <1>3, <1>4, <1>6
  <2>2. g \in Surjection(S, X)
    BY <1>6, <2>1 DEF Surjection
  <2>. HIDE DEF X, g, S
  <2>. QED  BY <1>1, <2>2, FS_Surjection
<1>9. SumFunctionOnSet(e, X) = SumFunctionOnSet(f, S)
  <2>. HIDE DEF a, S, X, f, e, g
  <2>. QED  BY <1>1, <1>6, <1>7, <1>8, SumInGroups
<1>. QED  BY <1>9 DEF SumFunction

VolumesIn(p, rows) ==
  \A d \in SourcesOf[SFlow] :
    SumFunction([x \in FlowsStored(rows, d) |-> x.row.bytes])
      = IF p.flows.status = "down" THEN 0
        ELSE SumFunction([i \in {j \in DOMAIN p.flows.rows :
                                   p.flows.rows[j].wellFormed /\ p.flows.rows[j].device = d} |->
                            p.flows.rows[i].bytes * p.flows.rows[i].rate])

LEMMA VolumeIs ==
  /\ VolumeConserved <=> (outcome[SFlow] = "stored" => VolumesIn(polled[SFlow], stored[SFlow]))
  /\ VolumeConserved' <=> (outcome'[SFlow] = "stored" => VolumesIn(polled'[SFlow], stored'[SFlow]))
BY DEF VolumeConserved, VolumesIn, FlowsStored

LEMMA CommitVolumes ==
  ASSUME CycleTypes, LookedUpOnce, phase[SFlow] = "routing", Asking(SFlow) = {}
  PROVE  VolumesIn(polled[SFlow], Rows(SFlow))
<1>. DEFINE a == polled[SFlow].flows
            Sent(d) == {j \in DOMAIN a.rows : a.rows[j].wellFormed /\ a.rows[j].device = d}
<1>. SUFFICES ASSUME NEW d \in SourcesOf[SFlow]
              PROVE  SumFunction([x \in FlowsStored(Rows(SFlow), d) |-> x.row.bytes])
                       = IF a.status = "down" THEN 0
                         ELSE SumFunction([i \in Sent(d) |-> a.rows[i].bytes * a.rows[i].rate])
  BY DEF VolumesIn
<1>1. SumFunction([x \in FlowsStored(Rows(SFlow), d) |-> x.row.bytes])
        = SumFunctionOnSet(Volumes(a, Sample(a, d)), Sample(a, d))
  BY CommitFlows
<1>2. CASE a.status = "down"
  <2>1. Sample(a, d) = {}
    BY <1>2 DEF Sample, TopFlows
  <2>2. SumFunctionOnSet(Volumes(a, Sample(a, d)), {}) = 0
    BY FS_EmptySet, SumRecursion
  <2>. QED  BY <1>1, <1>2, <2>1, <2>2
<1>3. CASE a.status # "down"
  <2>1. Sample(a, d) = Sent(d)
    BY <1>3 DEF Sample, TopFlows
  <2>2. SumFunction([i \in Sent(d) |-> a.rows[i].bytes * a.rows[i].rate])
          = SumFunctionOnSet(Volumes(a, Sent(d)), Sent(d))
    BY DEF SumFunction, Volumes
  <2>. QED  BY <1>1, <1>3, <2>1, <2>2
<1>. QED  BY <1>2, <1>3

(***************************************************************************)
(* Nothing polled from sFlow-RT is counted twice or left out: the volume   *)
(* stored of a device is that of its well-formed samples, each scaled by   *)
(* its own rate, for every answer and however the lookups went.            *)
(***************************************************************************)
THEOREM VolumeHolds == IngestSpec => []VolumeConserved
<1>1. IngestInit => VolumeConserved
  BY IngestAssumption DEF IngestInit, VolumeConserved
<1>2. ASSUME VolumeConserved, CycleInv, [IngestNext]_ingestVars
      PROVE  VolumeConserved'
  <2>1. CycleTypes /\ Witnessed /\ LookedUpOnce /\ SFlow \in Loop
    BY <1>2, IngestAssumption DEF CycleInv, IngestInv
  <2>2. SUFFICES ASSUME outcome'[SFlow] = "stored"
                 PROVE  VolumesIn(polled'[SFlow], stored'[SFlow])
    BY VolumeIs
  <2>3. polled'[SFlow] = polled[SFlow]
    BY <1>2, <2>1, <2>2, StoredStep
  <2>4. CASE outcome[SFlow] = "stored" /\ stored'[SFlow] = stored[SFlow]
    BY <1>2, <2>3, <2>4, VolumeIs
  <2>5. CASE phase[SFlow] = "routing" /\ Asking(SFlow) = {} /\ stored'[SFlow] = Rows(SFlow)
    BY <2>1, <2>3, <2>5, CommitVolumes
  <2>. QED  BY <1>2, <2>1, <2>2, <2>4, <2>5, StoredStep
<1>. QED  BY <1>1, <1>2, CycleInvariant, PTL DEF IngestSpec
=============================================================================
