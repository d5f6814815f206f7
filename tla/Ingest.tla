------------------------------- MODULE Ingest -------------------------------
(***************************************************************************)
(* The two ingestion loops of one process: ingestion_loop                  *)
(* (services/ingest.py) and gnmi_ingestion_loop (services/gnmi_ingest.py), *)
(* tasks of one event loop that share the tenant cache of TenantRouting.   *)
(*                                                                         *)
(* A cycle polls, looks up the tenant of every distinct device once per    *)
(* kind of record, in any order, and writes the rows of all kinds in one   *)
(* transaction.  Any exception ends the cycle and loses what it polled.    *)
(* Polling touches nothing that is shared: it is one step.                 *)
(***************************************************************************)
EXTENDS TenantRouting, Collectors

CONSTANTS
  SFlow, Gnmi,   \* the two loops
  Answers        \* what the remote ends of each loop may answer to one poll

ASSUME IngestAssumption == Loop = {SFlow, Gnmi} /\ SFlow # Gnmi

\* An answer is a list; int() has made numbers of what a well-formed sample says.
ASSUME AnswersAssumption ==
  /\ \A a \in Answers[SFlow] :
       /\ a.flows.rows \in Seq(Range(a.flows.rows))
       /\ \A i \in DOMAIN a.flows.rows : a.flows.rows[i].wellFormed =>
            a.flows.rows[i].bytes \in Int /\ a.flows.rows[i].rate \in Int
  /\ \A a \in Answers[Gnmi] : \A d \in DOMAIN a :
       a[d]["queue"].rows \in Seq(Range(a[d]["queue"].rows))

VARIABLES
  phase,     \* where each loop is in its cycle
  polled,    \* what its last poll was answered
  resolved,  \* tenant_for_agent, of the kinds of the cycle: <<kind, device, tenant>>
  stored,    \* the rows its last cycle committed, until the next one begins
  outcome,   \* how that cycle ended
  held,      \* the tables the cache has held during the cycle (history variable)
  lost       \* cycles the database has refused

cycleVars == <<phase, polled, resolved, stored, outcome, held, lost>>
ingestVars == <<routingVars, cycleVars>>

\* The kinds of record of a cycle, in the order they are normalized.
Kinds(l) == IF l = SFlow THEN <<"flow", "counter">> ELSE <<"interface", "bgp", "queue">>

\* What the collectors and normalizers make of an answer, tenants apart.
Batch(l, a) ==
  [kind \in {Kinds(l)[i] : i \in DOMAIN Kinds(l)} |->
     CASE kind = "flow" -> FlowRows(a.flows)
       [] kind = "counter" -> CounterRows(InterfaceCounters(a.counters))
       [] OTHER -> GetPath(kind, a)]
\* The gNMI getters catch per target and path: only sFlow-RT's answers raise.
Raises(l, a) == l = SFlow /\ (FlowsRaise(a.flows) \/ CountersRaise(a.counters))
Batches == [l \in Loop |-> [a \in {b \in Answers[l] : ~Raises(l, b)} |-> Batch(l, a)]]

RowsOf(l, kind) == Batches[l][polled[l]][kind]
Devices(l, kind) == {r.device : r \in RowsOf(l, kind)}
LookedUp(l, kind) == {x[2] : x \in {y \in resolved[l] : y[1] = kind}}

\* The devices of the first kind that still has some to look up.
Asking(l) ==
  LET left == {i \in DOMAIN Kinds(l) :
                 Devices(l, Kinds(l)[i]) \ LookedUp(l, Kinds(l)[i]) # {}} IN
  IF phase[l] # "routing" \/ left = {} THEN {}
  ELSE Devices(l, Kinds(l)[Min(left)]) \ LookedUp(l, Kinds(l)[Min(left)])
AskingKind(l) ==
  Kinds(l)[Min({i \in DOMAIN Kinds(l) :
                  Devices(l, Kinds(l)[i]) \ LookedUp(l, Kinds(l)[i]) # {}})]

IngestTypeOK ==
  /\ RoutingTypeOK
  /\ phase \in [Loop -> {"asleep", "routing"}]
  /\ \A l \in Loop : phase[l] = "routing" => polled[l] \in Answers[l]
  /\ \A l \in Loop : \A x \in resolved[l] :
       x[2] \in SourcesOf[l] /\ x[3] \in Tenant \cup {Default}
  /\ \A l \in Loop : \A x \in stored[l] : x.row.device \in SourcesOf[l]
  /\ outcome \in [Loop -> {"none", "stored", "raised", "failed"}]
  /\ \A l \in Loop : held[l] \subseteq 0..Current
  /\ lost \in 0..MaxFailures
  /\ \A l \in Loop : pc[l] # "idle" => phase[l] = "routing"

IngestInit ==
  /\ RoutingInit
  /\ phase = [l \in Loop |-> "asleep"]
  /\ polled = [l \in Loop |-> None]
  /\ resolved = [l \in Loop |-> {}]
  /\ stored = [l \in Loop |-> {}]
  /\ outcome = [l \in Loop |-> "none"]
  /\ held = [l \in Loop |-> {}]
  /\ lost = 0

\* Faulty variant of End: the tenants are kept for the next cycle.
EndKeeps(l, how, rows) ==
  /\ phase' = [phase EXCEPT ![l] = "asleep"]
  /\ outcome' = [outcome EXCEPT ![l] = how]
  /\ stored' = [stored EXCEPT ![l] = rows]
  /\ held' = [held EXCEPT ![l] = {}]
  /\ UNCHANGED resolved

\* The cycle of l ends: rows are committed, or nothing is.
End(l, how, rows) ==
  /\ phase' = [phase EXCEPT ![l] = "asleep"]
  /\ outcome' = [outcome EXCEPT ![l] = how]
  /\ stored' = [stored EXCEPT ![l] = rows]
  /\ held' = [held EXCEPT ![l] = {}]
  /\ resolved' = [resolved EXCEPT ![l] = {}]

Poll(l) ==
  /\ phase[l] = "asleep"
  /\ \E a \in Answers[l] :
       /\ polled' = [polled EXCEPT ![l] = a]
       /\ IF Raises(l, a)
          THEN End(l, "raised", {})
          ELSE /\ phase' = [phase EXCEPT ![l] = "routing"]
               /\ held' = [held EXCEPT ![l] = {loaded}]
               /\ stored' = [stored EXCEPT ![l] = {}]
               /\ outcome' = [outcome EXCEPT ![l] = "none"]
               /\ UNCHANGED resolved
  /\ UNCHANGED <<routingVars, lost>>

\* tenant_for has returned the tenant of s to l.
Resolve(l, s) ==
  /\ resolved' = [resolved EXCEPT ![l] = @ \cup {<<AskingKind(l), s, answer'[s]>>}]
  /\ held' = [m \in Loop |-> IF phase[m] = "routing" THEN held[m] \cup {loaded'} ELSE {}]
  /\ UNCHANGED <<phase, polled, stored, outcome, lost>>

LookUp(l) ==
  \E s \in Asking(l) : \/ Serve(l, s) /\ Resolve(l, s)
                       \/ StartRefresh(l, s) /\ UNCHANGED cycleVars
FetchTable(l) == Read(l) /\ UNCHANGED cycleVars
Install(l) == Apply(l) /\ Resolve(l, asked[l])

\* Faulty variant of LookUpFails: it answers with the default tenant.
LookUpFailsDefault(l) ==
  /\ pc[l] # "idle" /\ failures + lost < MaxFailures
  /\ failures' = failures + 1
  /\ pc' = [pc EXCEPT ![l] = "idle"]
  /\ answer' = [answer EXCEPT ![asked[l]] = Default]
  /\ fetched' = [fetched EXCEPT ![l] = 0]
  /\ overtaken' = overtaken \ {l}
  /\ UNCHANGED <<tables, loaded, age, asked>>
  /\ Resolve(l, asked[l])

LookUpFails(l) == failures + lost < MaxFailures /\ RefreshFails(l) /\ Resolve(l, asked[l])

Rows(l) ==
  UNION {{[row |-> r, kind |-> x[1], tenant |-> x[3]] :
            r \in {q \in RowsOf(l, x[1]) : q.device = x[2]}} : x \in resolved[l]}
Fits(x) == CASE x.kind = "flow" -> FlowFits(x.row)
             [] x.kind = "counter" -> CounterFits(x.row)
             [] OTHER -> DeviceFits(x.row)

\* The one INSERT transaction: a value that does not fit its column fails all of it.
Commit(l) ==
  /\ phase[l] = "routing" /\ pc[l] = "idle" /\ Asking(l) = {}
  /\ IF \A x \in Rows(l) : Fits(x) THEN End(l, "stored", Rows(l)) ELSE End(l, "failed", {})
  /\ UNCHANGED <<routingVars, polled, lost>>

\* The database is not there.
CommitFails(l) ==
  /\ phase[l] = "routing" /\ pc[l] = "idle" /\ Asking(l) = {}
  /\ Rows(l) # {} /\ failures + lost < MaxFailures
  /\ lost' = lost + 1
  /\ End(l, "failed", {})
  /\ UNCHANGED <<routingVars, polled>>

EditMapping == (\E s \in Source, t \in Tenant : MapSource(s, t)) /\ UNCHANGED cycleVars
TimePasses == AgeTick /\ UNCHANGED cycleVars

CycleStep(l) == Poll(l) \/ LookUp(l) \/ FetchTable(l) \/ Install(l) \/ Commit(l)
IngestNext ==
  \/ \E l \in Loop : CycleStep(l) \/ LookUpFails(l) \/ CommitFails(l)
  \/ EditMapping \/ TimePasses

(***************************************************************************)
(* Both loops run for ever and sleep a bounded time; the remote ends and   *)
(* the database are called with timeouts.                                  *)
(***************************************************************************)
IngestFairness == WF_ingestVars(TimePasses) /\ \A l \in Loop : WF_ingestVars(CycleStep(l))

IngestSpec == IngestInit /\ [][IngestNext]_ingestVars
FairIngestSpec == IngestSpec /\ IngestFairness

-----------------------------------------------------------------------------
(***************************************************************************)
(* "Every raw byte/packet count from sFlow-RT is multiplied by             *)
(* sampling_rate before persistence": the volume stored for a device is    *)
(* that of its well-formed samples, each scaled by its own rate, however   *)
(* they were grouped and whichever tenant they went to.                    *)
(***************************************************************************)
VolumeConserved ==
  outcome[SFlow] = "stored" =>
    LET samples == polled[SFlow].flows
        Stored(d) == {x \in stored[SFlow] : x.kind = "flow" /\ x.row.device = d}
        Sent(d) == {i \in DOMAIN samples.rows :
                      samples.rows[i].wellFormed /\ samples.rows[i].device = d} IN
    \A d \in SourcesOf[SFlow] :
      SumFunction([x \in Stored(d) |-> x.row.bytes])
      = IF samples.status = "down" THEN 0
        ELSE SumFunction([i \in Sent(d) |-> samples.rows[i].bytes * samples.rows[i].rate])

(***************************************************************************)
(* A gNMI target that does not answer costs only its own rows: a cycle     *)
(* that is stored has, of every path of every target that answered, the    *)
(* last number sent for each counter of each queue, or that of a queue     *)
(* whose name has become the same id.  A leaf no column is for is dropped. *)
(***************************************************************************)
QueuesKept ==
  outcome[Gnmi] = "stored" =>
    \A d \in DOMAIN polled[Gnmi] :
      LET a == polled[Gnmi][d]["queue"] IN
      a.status = "ok" =>
        \A k \in DOMAIN a.rows :
          \/ a.rows[k].item = None \/ a.rows[k].val \notin Int
          \/ a.rows[k].leaf \notin Columns["queue"]
          \/ \E j \in k + 1..Len(a.rows) :
               /\ a.rows[j].leaf = a.rows[k].leaf /\ a.rows[j].item # None
               /\ a.rows[j].item[1] = a.rows[k].item[1]
               /\ QueueId[a.rows[j].item[2]] = QueueId[a.rows[k].item[2]]
          \/ \E x \in stored[Gnmi] :
               /\ x.kind = "queue" /\ x.row.device = d
               /\ x.row.key = <<a.rows[k].item[1], QueueId[a.rows[k].item[2]]>>
               /\ x.row.number[a.rows[k].leaf] = a.rows[k].val

(***************************************************************************)
(* Within a cycle a device is looked up once per kind of record, and the   *)
(* cache may be replaced in between, by the other loop's refresh too.  Its *)
(* rows go to two tenants only if the cache held, during that very cycle,  *)
(* two tables that differ on it: nothing of an earlier cycle survives.     *)
(***************************************************************************)
SplitOnlyByRefresh ==
  \A l \in Loop : \A x, y \in resolved[l] :
    x[2] = y[2] /\ x[3] # y[3] =>
      \E v, w \in held[l] : TenantIn(v, x[2]) = x[3] /\ TenantIn(w, x[2]) = y[3]

(***************************************************************************)
(* However cycles, refreshes and failures interleave, once the operator is *)
(* done the rows of every cycle go to the tenants as mapped.               *)
(***************************************************************************)
EventuallyRouted ==
  <>[](\A l \in Loop : \A x \in stored[l] : x.tenant = TenantIn(Current, x.row.device))

(***************************************************************************)
(* What the gNMI client says: "a single bad target / path never aborts the *)
(* whole ingestion cycle".  A cycle is lost only to the database.          *)
(***************************************************************************)
BadTargetContained == lost = 0 => outcome[Gnmi] # "failed"
=============================================================================
