# FlowMind: specifications and proofs

FlowMind is a network-telemetry service: a FastAPI *telemetry API* with a
PostgreSQL database, background loops that ingest sFlow and gNMI data and look
for anomalies, and an *MCP server* that offers the API to language-model clients
as ten tools. This directory holds TLA+ models of the parts of it that keep
state across steps, the TLC instances that check them, and TLAPS proofs of the
properties that matter most. Paths below are relative to the repository; `api/`
stands for `apps/telemetry-api/` and `mcp/` for `apps/mcp-server/`.

`PROJECT.json` maps every definition to the lines it models and lists the runs,
the mutants (one faulty variant of the code per property, kept in the module as
"Faulty variant of ..."), the findings, the hazards and the theorems.

## 1. Inventory

| Component | State it keeps | Operations | Talks to | What is hard about it |
|---|---|---|---|---|
| MCP tool gate (`mcp/middleware/audit.py`, `ratelimit.py`, `client.py`) | `_call_history` per process; pending audit tasks | a wrapped tool call: consume quota, rate limit, body, audit | tool-audit endpoints (HTTP, 15 s timeout) | lost and late answers, cancellation, process exit, fire-and-forget tasks, refusal dicts of several shapes |
| Tool quota and audit (`api/services/tool_audit.py`, `routers/tool_audit.py`) | `tenant_quotas` per UTC day, `tool_call_audit` | consume, set quota, record | MCP gate, tenant_admin | concurrent consumers, limits changed in between, day rollover |
| Authentication (`api/middleware/auth.py`, `api/auth/`) | `api_keys` (read), `audit_log` | look up, check expiry, `require_role`, record access | every endpoint | the row is used after it was read; failing handlers skip the access log |
| API key lifecycle (`api/services/api_key_rotation.py`, `routers/admin.py`, `scripts/seed.py`) | `api_keys` | mint, rotate, revoke, create-key | authentication | rotation reads, then writes, without a lock |
| Anomaly lifecycle (`api/services/anomaly_dedup.py`, `routers/admin.py`, `anomalies_query.py`) | `anomaly_events` | record (upsert), acknowledge, resolve, recent | detectors, freshness scan, operators | overlapping sessions, captured clocks, repeated requests |
| Detectors and baselines (`api/services/anomalies.py`, `baselines.py`) | `baseline_snapshots`; write `anomaly_events` | threshold, spike, RDMA checks every 30 s; recompute every 5 min | measurement tables, event table | one commit for all tenants; rows committed during a pass, between a clock and its query; samples of unlimited age; several snapshots per key |
| Source freshness (`api/services/source_freshness*.py`) | `source_freshness`; one scan's session | heartbeat, scan | ingest loops, anomaly lifecycle | snapshot scan beside heartbeats stamped first and landing later, commits in the middle of a scan |
| Tenant routing (`api/services/tenant_routing.py`) | in-process mapping cache | lookup, refresh | both ingest loops, `seed.py map-source` | overlapping refreshes, failures, a clock with an arbitrary zero |
| sFlow and gNMI ingest (`api/services/ingest.py`, `gnmi_ingest.py`, `api/collectors/`) | none between cycles; write the five minute tables | poll, parse, normalize, look up tenants, commit | remote ends, routing, partitions, (freshness) | a failing cycle loses all it polled; one lookup per kind of record; hashed queue ids; column widths |
| Partition maintenance (`api/services/partition_maintenance.py`, migration 0007) | monthly partitions | upgrade, downgrade, ensure, drop | ingest | month rollover while every tick of the worker raises and rolls back, late rows, stops of the API |
| Secret storage (`api/services/crypto.py`) | `encrypted_secrets` | store, read, rewrap all | none yet | processes on two master keys during a turnover |
| Row-level security (`api/services/rls_session.py`, `api/db/`, migrations 0008, 0009) | session variables of a transaction | bind, bypass | every session | what a commit forgets |
| RDMA and fabric assessment (`api/services/rdma.py`, `fabric.py`) | none | classify the same measurements on request | MCP tools | limits and windows that differ from the detectors' |
| Telemetry queries, narrative | none | read-only | MCP tools | |
| Process lifecycle (`api/main.py`) | six background tasks | start, stop | every loop | what a stop rolls back |
| Logging, metrics, schema, tool registration | none of their own | | | |

What makes each stateful component correct, and where it is stated:

* **Tool gate**: the limiter never exceeds its budget in any window
  (`WindowBound`); a forbidden tool does not run after the API refused it
  (`ForbiddenRunsOnlyUnanswered`); an audit record tells how its call ended, and
  a call that ended in the wrapper has one (`AuditTruthful`); no call waits for
  ever (`CallsReturn`).
* **Quota**: no more calls pass in a day than the limit in force
  (`GrantsWithinLimit`).
* **Keys**: a revoked key stays revoked (`RevocationSticks`), rotation moves
  no rights (`ChainKeepsScope`), tenants do not touch each other's keys
  (`OnlyOwnAdmins`).
* **Anomalies**: one open event per condition, no report lost or doubled, the
  worst severity kept, closed events left alone; together, the table implements
  the abstract incident log (`ImplementsIncidents`).
* **Freshness**: only a heartbeat that landed after a scan's snapshot makes its
  alarms and marks wrong (`AlarmsExplained`, `WrongStatusExplained`), the next
  scan repairs them (`ScanRepairs`, `StatusRepaired`), a silent mark has its event
  (`SilentMarkHasEvent`), and silence is noticed (`SilenceNoticed`).
* **Routing and ingest**: the cache goes back only through overlapping
  refreshes (`RegressOnlyByOverlap`); the loops use it as specified
  (`RoutingSpec`); a device has two tenants within a cycle only if the cache was
  replaced during it (`SplitOnlyByRefresh`); what is stored is what was sampled
  (`VolumeConserved`, `QueuesKept`); records end up where the operator mapped
  them (`EventuallyRouted`).
* **Detectors**: an incident is reported before it leaves the lookback
  (`BurstReported`), from the tenant's own measurements (`OwnEvidence`).
* **Assessments**: they do not contradict the detectors (`RdmaAgrees`,
  `LoneLoadIsImbalance`).
* **Partitions**: polled rows find their partition - which they do, the worker
  being what it is, exactly until the second month after the migration's
  (`RowsLandUntilHorizon`, finding 5); what is stored stays (`RowsKept`).
* **Secrets**: no turnover loses one (`Recoverable`), the version names the key
  (`LabelTrue`), and `rewrap_all` can always do its work (`RewrapSucceeds`).

## 2. Modules

```
RateLimit --+                  Incidents  (abstract)
            +--> ToolCall        ^      ^  INSTANCE / open or not
ToolQuota --+                    |      |
                       AnomalyEvents  SourceFreshness

TenantRouting --+              Detection --> Assessments
                +--> Ingest
Collectors -----+              Partitions     Secrets     ApiKeys

MC<M> EXTENDS <M> for TLC (MCDetection: Assessments)

SumProofs (sums over finite sets)
   +--> AnomalyEventsProofs, IngestProofs, AssessmentsProofs
ToolCallProofs (RateLimit, ToolQuota, ToolCall)   IngestProofs (TenantRouting, Ingest)
CredentialProofs (ApiKeys, Secrets)               AssessmentsProofs (Detection, Assessments)
SourceFreshnessProofs   PartitionsProofs   AnomalyEventsProofs
```

**RateLimit** (`mcp/middleware/ratelimit.py`). A bucket is a key of
`_call_history` in one process. `Admit` and `Refuse` are the two ends of the
wrapper, including the pruning both do. `log` is a history variable: every
entry ever appended, pruned or not, so that `WindowBound` is about what
happened and not about what the code remembers. Two appends at the same instant
are two list elements, so entries carry the call they were appended for.

**ToolQuota** (`consume_quota`, `set_quota`). One tenant's rows of the current
day. `Bumped` is the row the upsert returns; a denied call is counted like any
other; a new day finds no row, hence no limit.

**ToolCall** composes the two with `audit_tool` and the consume and record
endpoints. `Invoke` sends the consume request; `ServeConsume` is the endpoint,
which runs to its end whether or not the client still waits; `Continue` and
`ConsumeFails` are the two ways the wait ends, and both run `Proceed`, which is
everything the wrapper does up to the first await of the body (one asyncio
step). `FireAudit` creates the record task, `RunAuditTask` posts it or fails.
`Cancel` is a cancellation at any await: in the body it reaches the `finally`
block, whose use of the unbound `result` raises before the task is created.
`Exit` is the end of a process with its calls and unsent records. `posted` are
the records that reached the API; no row of `tool_call_audit` ever comes of one,
since its INSERT raises (section 5), so nothing is said of rows.

**Incidents** is the abstract promise of the anomaly table: per condition at
most one open incident, which counts reports, keeps the worst severity, is
acknowledged once and closed by an operator.

**AnomalyEvents** is the table. `Begin` reads the clock and builds the
statement of `record_anomaly`, `Upsert` is the statement and its commit
(serialized by the partial unique index), `Fail` its failure.
`DetectorInsert` is what a pass of `anomalies.py` writes: a row without a
fingerprint. `Acknowledge`, `Resolve` are the operator's endpoints. The
refinement reads the one open row of a fingerprint as the incident.

**SourceFreshness**. `Ingest` is the end of an ingest tick: one that reports goes on
to `record_heartbeat`, which stamps its row with its clock and waits; `Land` is the
commit of the upsert, `HeartbeatFails` its failure. `ingested` is the last tick that
succeeded, its heartbeat included, so a source whose first heartbeat failed has not
delivered yet. `ScanBegin` takes the clock of the scan, `ScanRead` the snapshot: a
heartbeat stamped before either may land after both. `ScanRow` handles one row of
the snapshot, `ScanFinish` commits, `ScanFails` loses what was not flushed. A silent row's event is recorded by `record_anomaly`, whose commit
takes the pending status changes along. The event table is seen through the
interface of `Incidents`: open or not. The constant `Reporting` says which
sources' ingest calls `record_heartbeat`: see finding 2.

**TenantRouting**. `Serve` answers from a young cache; `StartRefresh`, `Read`,
`Apply` are the refresh with its two awaits, `RefreshFails` its failure;
`MapSource` is the operator. The cache holds a table exactly as it was read, so
it is represented by the number of that table. `overtaken` and `answer` are
history variables. It is the abstract side of `Ingest`.

**Collectors** is pure: what an answer of sFlow-RT or of a gNMI target becomes.
`TopFlows` and `InterfaceCounters` differ in what they do with a malformed item
(skip it, raise); `ParsePath` groups leaves by `KeyOf`, the last update of a
leaf staying, and `Row` has the statuses and numbers as normalized. A `FlowRow`
is the sum of the samples in its `Bucket`, each scaled by its own rate.
`FlowFits`, `CounterFits`, `DeviceFits` are the column widths that a value from
outside can exceed.

**Ingest** composes the two: a cycle of a loop is `Poll` (all requests and the
parsing: nothing shared is touched), one `LookUp` per distinct device and kind of
record, in any order within a kind, with the steps of a refresh (`FetchTable`,
`Install`, `LookUpFails`) interleaved with the other loop, and `Commit`, one
transaction that a value too wide or a database failure (`CommitFails`) refuses
as a whole. The exception handler is `End`. `held` is a history variable: the
tables the cache has held during the cycle.

**Detection**. `Store` is an ingest commit, up to `Late` minutes after the
minute its row is of. `BeginPass`, the steps of each tenant, `CommitPass` or
`PassRaises` are `run_anomaly_detection`. Every clock and every awaited SELECT of a
tenant is a step: `SelectUtils`, then the clock of the breaches and, with no await
between, that of the spikes (`ReadClock`), `SelectFlows`, `SelectBaselines`,
`ReadClockAgain` for the queues and `SelectQueues`. Collectors commit between them
and no query has an upper end (`Since`), so an event may count rows younger than
its `ts`, and `OwnEvidence` says by how much; `ReadFlows` and `WriteSnapshots` the
two sessions of `compute_baselines`. The detectors are operators over the rows:
a baseline is kept as count, sum and sum of squares, so the z-score test
(`Deviates`) needs no roots and no fractions. Which of several snapshots the
code's dict keeps is a choice (`SpikeOutcomes`).

**Assessments** adds what `rdma.py` and `fabric.py` tell on request about the
same rows, as operators, to compare with the detectors' events.

**Partitions**. A table is the set of months it has partitions for and the set
of days it has rows of. `Upgrade` and `Downgrade` are migration 0007. A tick of the
worker is `TickEnsures`, its first statement, whose DDL locks the first table, and
`TickRaises`: the second statement cannot run (finding 5), so every tick
rolls back there or earlier, the other tables and the retention are never reached,
and no commit is modelled. `Poll` and `Commit` are an ingest cycle that stamps rows
first and writes them later; `Start` and `Stop` the API. `migrated` is a history
variable: the month of the last upgrade.

**Secrets**. A ciphertext is the key it was made with and the plaintext.
`BeginStore` and `Store` are `store_secret` before and after its await;
`Rewrap` is the one statement of `rewrap_all`. `Turn` and `Redeploy` are the
operator who follows `crypto.py:9-11`: processes keep the environment they were
started with, so during a turnover both keys are in use.

**ApiKeys**. A request looks its key up (`Lookup`), has its expiry checked
against a clock read later (`Admit`, `Reject`) and then acts on the row it
read. `RotateRead` and `RotateWrite` are the statements of `rotate_key`; the
two writes are one commit. A key's rights (role, allowlist, rate) are one value,
its name is the number of further rotations its column has room for.

Integers are unbounded where the program's are (Python, `BIGINT`); the one width
that matters, that of `INTEGER` columns filled from devices, is `IntMax`.

## 3. Runs

All passing runs switch the deadlock check off: the clocks and the counters of
faults are bounded, so an instance stops when the bounds are used up.

| Run | Instance | Checks | Shows |
|---|---|---|---|
| `tool_call` | 2 invocations, 2 processes, 2 tools (one forbidden), budget 1 per window of 2 ticks, clock to 2, call limit 1, one rollover; 610,808 states | `ToolTypeOK`, `WindowBound`, `ForbiddenRunsOnlyUnanswered`, `AuditTruthful`, `GrantsWithinLimit`, `CallsReturn` | the gate keeps its promises with lost and late answers, cancellation, exit, edits and rollover |
| `over_limit_runs` | the same | `OverLimitNeverRuns` (violated) | finding 1 |
| `anomaly_events` | 2 fingerprints and 1 detector condition, 2 severities, 2 recorders, 2 rows, 2 reports each | `EventsTypeOK`, `OneOpenPerCondition`, `OccurrencesConserved`, `ClosedRowsFrozen`, `ImplementsIncidents` | the table implements the incident log |
| `source_freshness` | 2 reporting sources, stale from 1 tick, silent from 2, clock to 2, 2 failing scans, any number of failing heartbeats; 130,239 states | `FreshTypeOK`, `AlarmsExplained`, `WrongStatusExplained`, `ScanRepairs`, `SilentMarkHasEvent`, `StatusRepaired`, `SilenceNoticed` | the scanner does what its documentation says, given heartbeats, but for those that land after its snapshot |
| `silence_unnoticed` | no source reports, as the loops are | `SilenceNoticed` (violated) | finding 2 |
| `ingest` | both loops, 1 sFlow agent, 2 gNMI targets (one down), 1 edit, 1 failure of a refresh or commit, TTL of 1 tick; 165,378 states | `IngestTypeOK`, `VolumeConserved`, `QueuesKept`, `SplitOnlyByRefresh`, `RegressOnlyByOverlap`, `EventuallyRouted`, `RoutingSpec` | what is polled is stored once, to the right tenant, and the loops implement the cache |
| `bad_target_contained` | the same with a peer whose AS number does not fit | `BadTargetContained` (violated) | finding 3 |
| `api_keys` | 3 keys, 2 requests, 2 tenants, an admin and another scope, lifetimes 1 and none, grace 1, one rotation of room | `KeysTypeOK`, `ChainKeepsScope`, `RevocationSticks`, `OnlyOwnAdmins` | rotation, revocation and authentication may overlap freely |
| `detection` | 2 tenants with queues of one name, 2 links, 8 possible measurements, 2 rows, lookback 3 minutes, hours of 3 minutes, tool windows of 2 and 4, clock to 3, 1 snapshot, passes that may raise in minute 1; 771,028 states | `DetectionTypeOK`, `BurstReported`, `OwnEvidence`, `RdmaAgrees`, `LoneLoadIsImbalance` | no incident is missed or made up, and the two classifications agree |
| `steady_is_no_spike` | one link, 3 rows, baselines from 3 minutes | `SteadyIsNoSpike` (violated) | finding 4 |
| `partitions` | 3 tables, 5 months of 1 and 2 days, 2 months forward, rows up to a day late, 2 stops; 513,285 states | `PartTypeOK`, `RowsLandUntilHorizon`, `RowsKept` | how far the partitions reach (finding 5), and that no step deletes what is stored |
| `secrets` | 2 secrets, 2 processes, 2 plaintexts, 3 key versions, 4 stores; 10,395 states | `LabelTrue`, `Recoverable`, `RewrapSucceeds` | two turnovers in a row lose nothing, and no mix of rows stops `rewrap_all` |

Why these bounds are enough to be worth something:

* *tool_call*: a budget or limit of one makes the second call the interesting
  one; the three site assignments put the two calls in one bucket, in two
  processes, and next to a forbidden tool. The clock passes one window edge. The
  proofs remove the bound on calls, processes, budget, window and limits.
* *anomaly_events*: two rows allow a resolved and a reopened event of one
  fingerprint, or two events side by side; two recorders are enough for every
  pairwise overlap, and each step of the code concerns one recorder and one row.
* *source_freshness*: two sources are needed for one row's commit to carry
  another's status; two failures let a scan fail before and after that commit.
  A source is silent after two ticks, so within the clock a heartbeat may be
  stamped at any time, land at any later one, and its source be silent meanwhile.
* *ingest*: two loops are what the program has, and one edit gives a late
  refresh an older table to install. The sFlow answer has two samples of one
  key with different rates, one malformed and one of rate 0; the gNMI answer has
  queues of one id, an update that names no queue, a value that is no number and
  an interface without a status. The proofs remove the bounds on edits, devices
  and answers.
* *api_keys*: three keys hold an admin key, a key and its successor; two
  requests make every overlap of two statements. The room of one makes the
  failing rotation happen; the column really has room for about six.
* *detection*: every detector fires from one row or from two, which may come
  from two minutes or two places; the clock runs to the minute a row of the first leaves
  the lookback, and the hour changes there too. `BurstReported` rests on `DetectionAssumption`: rows
  come at most `Late` after their minute and passes at most `MaxLag` apart, and
  the two together are shorter than the lookback, as 30 s polls and passes are
  than 5 minutes; the proof needs nothing else of them. Averages are rounded to whole percents instead of hundredths.
* *partitions*: a migration makes four months, from the one before it on; with
  five the rollover past the last of them happens, to be met by cycles on either
  side of it, by rows stamped before it and committed after, and by a second
  migration that moves the end. The proof removes these bounds.
* *secrets*: two processes put one on each key; a third version starts a
  turnover after another. The proof removes all these bounds.

Symmetry is used for interchangeable row ids, recorders, requests and tenants,
and only in runs without liveness properties.

### Fairness

* `ToolFairness`: a wait for the consume answer ends, because the HTTP client
  gives up after 15 s (`mcp/client.py:21`), and so does the body, one request
  through the same client. Nothing is assumed of the API: `ServeConsume` may
  never happen. Nor of the audit tasks, whose outcome no call waits for.
* `FreshFairness`: the loop starts a scan every 30 s whatever became of the last
  one (`source_freshness_loop.py:12-22`), and a scan goes on to its end. Failing
  scans are bounded by `MaxFailures`: with unboundedly many the code can stop
  short of the same row for ever, since rows are taken in no fixed order and
  one error ends the scan. Ingest, operators and the clock are not fair.
* `IngestFairness`: time passes, and each loop goes on with its cycle and
  starts another (`ingest.py:136-184`, `gnmi_ingest.py:133-187`); refreshes and
  commits fail finitely often (`MaxFailures`). What the remote ends answer and
  which device is looked up first is not fair, nor is the operator.
`PartitionsSpec`, `SecretsSpec`, `DetectionSpec`, `EventsSpec` and `KeysSpec` have no
fairness: their properties are safety properties. In particular nothing in the
repository calls `rewrap_all`, so that a turnover ends is not claimed.

### Findings

The first four are runs that TLC ends with a counterexample; the quotations are in
`PROJECT.json`.

1. *A tenant over its limit is not stopped.* The endpoint's 429 arrives as
   `{"detail": {...}}`, which has no `allowed`, and the wrapper's default is to
   run (`mcp/middleware/audit.py:142`).
2. *No loop records a heartbeat*, so a source that falls silent is never noticed.
3. *One gNMI peer can stop the ingest of every device.* A four-byte AS number
   does not fit the `INTEGER` column `peer_as`, and the cycle is one transaction.
4. *Steady traffic is a spike*: the sum of five minutes is compared with the mean
   and deviation of single minutes.
5. *The partition worker never commits.* `:older::interval`
   (`partition_maintenance.py:59`) makes the second statement of every tick raise:
   `text()` does not bind a parameter that `::` follows. So no month after
   the migration's horizon gets a partition and ingest stops there, and retention is
   never applied. This one is not a counterexample but the exact bound that
   `RowsLandUntilHorizon` states and the run and the proof confirm.

## 4. Proofs

Every safety property that a passing run checks, invariant or action property,
is also a theorem: of `ToolSpec`, `EventsSpec`, `FreshSpec`, `KeysSpec`,
`IngestSpec`, `DetectionSpec`, `PartitionsSpec` and `SecretsSpec`, for every value
of the constants that satisfies the named assumptions. So are both refinements.
The assumptions say what kind of value a constant is, that null values differ from rows, what the columns of the measurement tables hold
(`SamplesAssumption`), that an answer is a list with numbers in its well-formed
samples (`AnswersAssumption`), that months follow each other
(`PartitionsAssumption`), and the timing `BurstReported` needs
(`DetectionAssumption`); TLC evaluates them in the runs. The bounds of section 3
are constants too, so the theorems hold for every value of them.

A property is seldom inductive as it stands; what is added, and why:

* **ToolCallProofs**. `RateInvariant`: after a step nothing would tie the pruned
  history to the calls that really started. `RemembersWindow` says it: every
  logged entry of the last window is still remembered. `Admit` then adds to a
  window that holds fewer than the budget; any window that contains the new
  entry starts later than `now - Window`, so it is covered by what is
  remembered. `QuotaHolds`: with `GrantsCounted` (every grant was counted in the
  row), a grant that passes the check is within the limit.
  `ToolImplementsRateLimit`: every step of the tool calls is a step of the
  limiter or leaves it alone, so `ToolWindowBound` follows from
  `RateLimitHolds`; `ToolGrantsWithinLimit` does the same with the quota.
  `ForbiddenHolds` rests on: a reply to a forbidden call is a 403, and a running
  call's decision allowed it. `AuditHolds` rests on: pending and posted records
  belong to calls that finished with that status, and finished calls do not change.
  `ToolTypeHolds` is type correctness.
* **AnomalyEventsProofs**. `EventsInvariant` (types, one open row per
  fingerprint), then `EventsTypeHolds`, `OneOpenHolds`, `SeverityHolds`,
  `ClosedHolds`, and `EventsImplementIncidents`: every step maps to `Report`,
  `Ack`, `Close` of one incident or a stutter; that there is one open row makes
  the mapping's `CHOOSE` say which. `OccurrencesHold`: an upsert adds one row of
  count one (`SumAdd`) or one to the count of one row (`SumChange`), and one to
  what was reported.
* **SourceFreshnessProofs**. `FreshInvariant`: the properties speak of what a scan
  does with rows it read some steps ago. `SnapshotCurrent` ties what was read to
  the row: it is still that, or a heartbeat landed after it was read, whenever that
  heartbeat was stamped; `ChangesCurrent` says the same of the status changes not yet
  flushed, and that none of them is "silent" (a silent mark is flushed with its event).
  From them `AlarmsHold`, `WrongStatusHolds`, `SilentMarkHolds`, and
  `FreshTypeHolds`. `SeenRight` says of a row no heartbeat has touched since that
  the snapshot equals it until the scan looks at it, and that afterwards the next
  flush leaves it as `classify` says; hence `ScanRepairsHolds`.
* **IngestProofs**. `RoutingInvariant`: with `ReadsAhead`, a refresh that was not
  overtaken has read at least what is cached; from it `RegressHolds` and
  `MappedHolds`. `IngestRefinesRouting`: every step of a cycle is a step of
  `tenant_for` or leaves the cache alone, so `IngestRegress` and `IngestMapped`
  follow. `SplitHolds`: `SplitOnlyByRefresh` speaks of pairs; `Witnessed` says it
  of one lookup (its tenant comes from a table in `held`, and what the cache
  holds now is in `held`), and two witnesses make the pair. `CycleInvariant`:
  `LookedUpOnce` (no device is looked up twice for one kind of record) is what
  keeps a row from being stored under two tenants. With it `VolumeHolds`: the
  rows a poll stores are its samples taken in groups, one per key, so their
  volumes add up to the volume of the samples (`SumInGroups`); and `QueuesHold`:
  of the updates that go to one row the last is the one `Max` picks.
  `IngestTypeHolds` is type correctness.
* **PartitionsProofs**. `PartInvariant`: a commit happens long after the migration
  that made its partition. `PartitionsOfMigration` says that the partitions are still
  exactly those, since no tick commits; `SinceMigration` that whatever a cycle
  holds was polled since, so its month is not before the first of them; and
  `RowsPlaced` that stored rows lie in them. `MonthOfFacts` and `MonthOfMonotone`
  are the calendar: months are counted in the order they begin. `HorizonHolds` and
  `RowsKeptHolds` follow.
* **AssessmentsProofs**. `DetectionInvariant` is type correctness and the clock:
  the last pass began no longer than `MaxLag` ago, the clock of a detector was read
  since, and what the detector has read is of its tenant and its window (`ReadOK`). `BurstInvariant`:
  `BurstReported` is about rows that have left the lookback, when it is too late
  to find them. `SettledInTime` is about the others: a burst that is not yet
  settled was stored after the last pass began, so it is still in the lookback;
  `FoundInPass`: a pass that began late enough to see it has found it once it is
  done with its tenant. The commit turns the second into the first.
  `EvidenceInvariant`: the evidence of an event holds when it is found and only
  grows (rows and snapshots are never taken away, and a sum of natural numbers
  grows with its set); `OwnEvidenceHolds` follows. What a query counts
  is no younger than `ts + MaxLag`, because the loop is not behind by more. A baseline adds the volumes of
  an hour up by the minute and leaves none out (`BaselineIs`, by `SumInGroups`).
  `RdmaAgreesHolds`: a window at least as long as the detector's contains it, so
  the sums of the tool are at least as large. `LoneLoadHolds`: in a group whose mean reaches
  `MinMean`, of one loaded member among n - 1 idle ones the sum, the maximum and the root of the sum of
  squares are all its load, and 200 n u / 2u is at least 200.
* **CredentialProofs**. `KeysInvariant`: `JobCurrent` (what a rotation read of
  tenant, scope and name still holds) makes `ChainKeepsScope` inductive; lemma
  `StepKeys` shows that no step touches those columns. Then `KeysTypeHolds`,
  `ChainHolds`, `RevocationHolds` and `OwnAdminsHold`. `SecretsInvariant`:
  `TwoKeys` (processes are at most one version behind, a call holds the key of
  its process, a settled deployment has one key) makes `LabelTrue` and
  `Recoverable` inductive together; then `LabelHolds`, `RecoverableHolds` and
  `RewrapHolds`: a row behind the master version is, by its true label, under
  the key before it.
* **SumProofs**. The models add up with `SumFunction` of the community modules,
  a fold over a set. The library's induction theorems cannot be used (they take
  an operator), so the lemmas use induction stated with sets: a set of subsets
  of S that contains a subset whenever it contains all smaller ones contains
  every subset (`SubsetInduction`, from the well-ordering of cardinalities). From
  it: the order of taking elements does not matter (`SumTake`), hence `SumAdd`,
  `SumChange`, `SumGrows`, `SumUnion`, `SumZero` and `SumInGroups`.

Only model-checked: the liveness properties (`CallsReturn`, `StatusRepaired`,
`SilenceNoticed`, `EventuallyRouted`), because liveness under fairness and `ENABLED`
are out of the prover's reach. Of `StatusRepaired` the safety half is proved,
`ScanRepairs`: what is left to TLC there is that a scan comes to its end again. The
four violated properties are refuted on their instances, which is all a
counterexample needs.

## 5. What is not modelled

* Tool bodies, telemetry queries, the recent-anomalies query, narrative: one
  request or one read-only query each; an `ok` or an `error` is all the gate
  sees.
* `drop_partitions_older_than`: the statement that would call it always raises
  (finding 5).
* Byte quotas in `ToolCall`: the wrapper always reports `response_bytes = 0`
  (`mcp/middleware/audit.py`), so the byte limit never trips; `ToolQuota` models
  it. Listings of quotas and audits are read-only.
* `metadata` of events, `last_used_at`, the access log, durations, logging and
  metrics: nothing in the code reads them back.
* Columns that go the way of a modelled one: packets (as bytes), the outgoing
  direction of an interface (as the incoming one), further leaves of a gNMI path.
* Several tenants in the quota, event and freshness models: their rows are keyed
  by tenant and no operation crosses it, so one tenant's condition or tool
  stands for `(tenant, condition)`. `ApiKeys`, `TenantRouting`, `Ingest` and
  `Detection` have tenants.
* The 7-day window of the baselines, longer than any instance.
* Row-level security as a filter: the deployment's database user is the
  PostgreSQL superuser (`docker-compose.yml`), who is exempt from it.
* Migrations other than 0007, which only create tables and columns.

Observations made while reading and modelling, which no run is about:

* *Tool gate*. A refused call returns before the `try` whose `finally` creates
  the audit record (`audit.py:142-146`), though "every invocation" is to leave
  one (`audit.py:3-9`) and `models.py:524` lists the statuses `quota_exceeded` and
  `forbidden`, which nobody writes. Nor is any record stored: the `:args::jsonb`
  of the INSERT (`tool_audit.py:132`) is not bound by `text()`, so it raises, and the
  MCP server only logs the failure of its post. `AuditTruthful` is therefore about
  the records the wrapper fires, and takes no side on refused calls. An empty
  allowlist means "any tool". Limits of `tenant_quotas` end with the UTC day.
* *Events*. The detectors build rows without a fingerprint and insert them in
  every pass (`anomalies.py:318`), so a lasting condition has one more open row
  every 30 s. The recent-anomalies query filters on the first time of a row
  (`anomalies_query.py:26`): an event that goes on drops out of it.
* *Routing*. "Never loaded" is encoded as 0.0 on the monotonic clock
  (`tenant_routing.py:36`): while that clock is below the TTL the empty cache
  counts as fresh.
* *Keys*. Rotating a key about to end sets its end to now + grace and gives the
  early end to its successor (`api_key_rotation.py:111,121`).
* *Ingest*. One malformed item among the interface counters raises out of the
  client, since only `HTTPError` is caught (`sflow_rt_client.py:101`), and loses
  the cycle's flows too; the stored `sampling_rate` is that of the last sample;
  counters are taken for those of the window, not differences
  (`ingest.py:100-101` says so). Leaves of one name in different containers
  overwrite each other, and so do queues whose names have one id:
  `abs(hash(name)) % 1024` also changes with the process (`gnmi_client.py:304`).
* *Detectors*. An event may count rows younger than its `ts`, because each detector
  reads its clock before its query and the query has no upper end; the breach
  detector reads its clock after its query. The latest utilization sample of a link has no age limit; two
  rows of one minute give two events of one pass; snapshots are never pruned,
  and which of them is compared with is arbitrary.
* *Assessments*. The docstring of `rdma.py:16-20` calls ECN marking high and any
  pause medium; `_assess` gives medium and low. A storm is `>= 1000` frames to the
  detector and `> 1000` to the tool. Inferred ECMP groups hold links that were
  up at any time of the hour, under each speed they had. Asked for a window
  shorter than the detector's 5 minutes (the API takes 1 to 60), the tool may call
  low what the detector has just reported; `RdmaAgrees` is about longer ones. A
  group flagged by its coefficient of variation alone is of low severity. A group is
  not judged while its mean is below 5 % (`fabric.py:204`): in a group of more than
  twelve one link at the 60 % the breach detector reports is "low", and in a group
  of more than twenty one link at 100 % is.
* *Partitions*. The upgrade copies only rows since the start of the previous
  month, though its comment (`0007_data_scale.py:190-192`) puts older ones into
  that month; the downgrade copies back the data its docstring calls lost, and
  its new `BIGSERIAL` starts at 1 again. Were the worker's statement
  repaired, the previous month that `ensure_monthly_partitions` always keeps could
  be dropped right after by a retention of 30 days. The f-string with a backslash
  in 0007 (line 348) is a syntax error before Python 3.12, and 0008 starts with a
  stray `w`.
* *Secrets*. Between the deployment of a process and the rewrap its reads of old
  rows fail.
* *Sessions*. The tenant binding of a session (`SET LOCAL`) ends with its first
  commit.

## 6. Plan

Done, in this order: the tool gate, the quota, the anomaly lifecycle, freshness,
routing and the key lifecycle; then ingest on top of routing, the detectors with
their baselines and the assessments, partitions, and secrets.

Proved since: every safety property of the runs, with the sums over sets. Split since,
await by await, as the code runs: a heartbeat's stamp and its landing, the clocks
and queries of the detectors, and the worker's ticks as they really end.

What would come next: `Detection` composed with `AnomalyEvents`, so that the
incident log is driven by measurements; and the sessions of the API, if row-level
security is ever enforced on a user it applies to.
