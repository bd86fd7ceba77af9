# A verification project for the AI Data Control Plane

The control plane decides which dataset version production serves. An upload
becomes an event, the event a pipeline execution, the execution a version with
its own vector collection, and, if the version passes its quality gates, the
production alias is switched to it. This directory models the parts in which
that can go wrong in ways a unit test hardly reaches, checks them with TLC on
small instances and proves the most important facts with TLAPS for all of them.

## The system

| component | source | state it keeps | operations |
| --- | --- | --- | --- |
| Gateway ingest | `services/gateway/app/routers/ingest.py` | none (raw object, event) | upload, webhook |
| Event bus | `controlplane/events.py` | Redis: idempotency locks, stream, consumer group, markers, dead-letter stream | publish, claim, mark, ack, dead_letter |
| Event relay | `controlplane/relay.py`, `flows/_system/event-relay.yaml` | the batch of one tick | drain_once |
| Pipeline runner | `controlplane/runner.py`, `flows/ingestion/dataset-pipeline.yaml` | staged file, artifacts, version row | ingest, validate, enrich, embed, gate, promote |
| Validation, enrichment, embedding, gates | `controlplane/validation`, `enrichment`, `embeddings`, `quality` | none | pure functions of a batch |
| Promotion engine | `controlplane/promotion/engine.py` | none of its own | stage, decide, rollback, cleanup |
| Vector store | `controlplane/stores/vector_store.py` | Qdrant: collections, aliases | create, upsert, drop, set_alias, search |
| Metadata registry | `controlplane/stores/registry.py`, `sql/init.sql` | Postgres: versions, quality reports, promotion ledger, quarantine | register, update status, record, history |
| Object store | `controlplane/stores/object_store.py` | MinIO buckets | put, get |
| Demo engine | `controlplane/demo.py`, `routers/demo.py` | in-memory vector store and registry, one lock | pipeline run, search, rollback, reset |
| Read side, console, governance and rebuild flows, plugin, monitoring | see `PROJECT.json` | none | read, or start one of the above |

The parts share no memory. The gateway calls Redis, MinIO and Kestra's webhook;
Kestra starts one container per pipeline stage and per relay tick; every
container and every gateway thread talks to the four stores with one request at
a time, and no request holds a lock across two. Nothing stops two executions of
the same dataset from running at once: the relay may start what the gateway
started, the nightly rebuild runs beside uploads, and a rollback comes from a
flow or from a gateway thread at any moment.

What is hard, and where: interleaved promotions and rollbacks over one alias
(`engine.py`), crashes between two stores (`engine.py`, `events.py`), the
hand-over between gateway and relay (`ingest.py`, `relay.py`), redelivery bound
to a consumer name (`relay.py`), retries of stages that overwrite their own
input (`runner.py`). `PROJECT.json` lists each hazard at its line with the
property that covers it, or why none does yet.

What makes each part correct:

* promotion: production serves only gated versions of its own dataset, from a
  collection that exists; ledger and status explain what is served; rollbacks
  walk back; cleanup keeps what a rollback needs;
* bus and relay: no accepted upload disappears, no body becomes two events within
  one idempotency window, reruns are bounded, a marked event is not rerun, every
  event is settled;
* pipeline: production is given valid rows of the raw object, one per key; retries
  lose no key and repeat no state; the reports speak of the rows that were
  staged; rejected rows end in quarantine; a changed schema is not promoted; the
  daily audit can tell what failed; every execution ends;
* demo engine: the ledger tells what serves, through rollbacks and resets; the
  versions promoted between two resets share a schema; production lags only
  behind what a rollback took out; the version just replaced stays in reach; a
  search names the collection it read.

## The modules

| module | what it is |
| --- | --- |
| `BlueGreen` | abstract promotion: what is served, stored, under promotion and on record |
| `PromotionEngine` | the engine over the vector store and the registry; implements `BlueGreen` when the jobs of a dataset run one at a time |
| `PromotionEngine_proofs` | its theorems for any number of jobs at once |
| `PromotionEngine_serial_proofs` | its theorems for one job per dataset at a time, the refinement of `BlueGreen` among them |
| `MC_PromotionEngine` | its instances for TLC |
| `EventDelivery` | abstract bus: what is accepted, handed out, started, dead-lettered and settled |
| `EventRelay` | gateway ingest, event bus and relay; implements `EventDelivery` |
| `EventRelay_proofs` | its type invariant, and lemmas on stream order and ticks |
| `EventRelay_safety_proofs` | its safety theorems |
| `EventRelay_refinement_proofs` | the refinement of `EventDelivery`, and when its two counterexamples cannot happen |
| `MC_EventRelay` | its instances for TLC |
| `DatasetRelease` | abstract pipeline: a raw object, its refused rows on record, and the decision on it |
| `DatasetPipeline` | executions of the dataset pipeline: every stage of the runner, its retries, the gates; implements `DatasetRelease` unless a validation is interrupted |
| `MC_DatasetPipeline` | its instances for TLC |
| `DatasetPipeline_proofs` | its theorems about stores, reports and statuses |
| `DatasetPipeline_refinement_proofs` | when it implements `DatasetRelease`, what holds of its decisions always, where rows vanish, what the drift gate sees |
| `DemoEngine` | the console's in-memory control plane: runs, searches, rollbacks and resets of several threads |
| `DemoEngine_proofs` | its theorems |
| `MC_DemoEngine` | its instance for TLC |

### PromotionEngine

`alias`, `coll`, `status` and `ledger` are the shared stores: Qdrant's aliases and
collections, the status column and the promotions table. `job[j]` holds the
local variables of one running promote stage or rollback. Every request to a
store is one action, in the order of the code:

* promote: `StartPromote` (cmd_promote reads the verdict), `CreateCollection`,
  `Upsert` (stage), `ReadAlias`, `ProbeAlias`, `SwitchAlias` (set_alias is a look
  and then a post), `RecordPromotion`, `UpdateStatus`, `ExpireCollections` (the
  listing of the cleanup), one `DropCollection` per expired collection. A version
  that failed its gates goes `ReadAlias`, `RecordPromotion`, `UpdateStatus`.
* rollback: `StartRollback`, `ReadAlias`, `ListCollections`, `ChooseTarget` or
  `RollbackFailed`, then the same switch, record and status.
* `Crash` ends a job anywhere: a container killed by its timeout, an exception.
  The flow does not retry promote or rollback, so nothing resumes a job; a manual
  re-run is a new job of the same version.

Versions are numbers in the order of their collection names (their ids begin
with the time they were minted). `Listed` gives the collections the prefix
`{dataset}__` matches, which is where the names matter. The verdict is the
constant `Passing`. Qdrant's side is modelled from how the client uses it: an
alias request is atomic and is refused for a missing collection; dropping a
collection some alias points at leaves the alias dangling or takes it along (both
are allowed). A drop request is assumed to be carried out when it is answered;
the client ignores its status.

### EventRelay

`locks`, `stream`, the consumer group (`cursor`, `pending`, `owner`, `deliveries`),
`marked` and `dlq` are Redis; `runs` counts the executions Kestra started;
`gateway` is the handler in progress and `relay[r]` a relay's tick. Every Redis
command and every trigger is one action. The handlers call Redis and Kestra
synchronously on the gateway's one event loop (the Dockerfile pins one worker),
so one handler runs at a time; relays run beside it and beside each other. A
trigger is `started`, `refused` or `lost` (started, but the answer not seen).
`Daemons` are the relays that keep their consumer name (`--loop`, or one host);
the scheduled flow runs each tick in a new container, whose host name, and so
whose consumer, is new: when its tick ends nobody reads its pending entries
again (`NoConsumer`).

`ExpireLock` and `ExpireMarker` are Redis dropping a key whose TTL has run out; a
TTL may run out at any moment, which includes every length the settings can
have. `expiries` counts the idempotency windows a key has had. A content is a
body sent for a dataset, and `KeyOf` gives the idempotency key it is published
under: the hash of the body alone, so one key for the same body sent for two
datasets.

`EventDelivery` is what remains of this for a producer: a log of accepted uploads,
events handed out in log order and again until they are settled, a start paid
for by each time an event is handed out (and one by its upload), dead letters
only past the limit, and nothing that is settled handed out or started again but
by the upload still publishing it. There are no locks, markers, consumers,
cursors or pending lists in it: locks and markers may expire, relays may crash
and claim from each other, and the bus still does no more than this. The stream
is the log, the events behind the cursor and no longer pending the settled ones,
and the event a handler is about to trigger the open one.

### DatasetPipeline

`staged`, `quarantine` and `reports` are the object store, `versions`, `checks` and
`promoted` the registry, `collection` what the promote stage stores in Qdrant;
`exec[x]` is the task an execution is in, with the attempt, the version and what
the task has read. A stage is its requests in the code's order: it reads the
staged file, computes, and writes the staged file, the quarantine, the version
row and its report; `Emit` is Kestra taking its output and starting the next
task. `Fault` ends a task before any of its requests, or after the last one and
before Kestra has the output (the timeout, a lost container, a store that does
not answer): the task starts over from what it left, or, after `MaxAttempts` (3
in the flow; 1 for gate, promote and profile, which have no retry), the
execution fails. A second attempt at ingest mints a second version, as
`cmd_ingest` does. A container that is timed out is assumed to be gone: two
attempts of one task do not overlap. `ProfileRead` and `ProfileWrite` run beside
enrich, and `Join` waits for both.

Rows are numbers in file order, and what the code computes from a row is given
by constants: whether it is a JSON object, whether the contract accepts it,
whether its required field is populated, whether it has text, its key and its
fields. On top of them `Fingerprint`, `Drifted`, `Deduplicated` and `Passes` are
the code's functions of a batch; the thresholds are percentages. The fingerprint
looks at the first `SampleSize` rows (200 in the code): a row that is no JSON
object raises there, and behind them it is one more row the contract refuses. The
rounding of the reported pass rate to four digits and the text processing are
left out. Promote is one step here,
since `PromotionEngine` takes it apart; rollbacks are in `PromotionEngine` only.
`Stuck` is the query of the daily audit: versions in an intermediate status (its
two hours without a change stand for "once the execution has ended").

`DatasetRelease` says what the documents promise, with no stages, attempts, files or
reports. An execution has a raw object and is open until it is released, refused
or failed. `Offer` is the first valid row of each key; `Fit` are the thresholds on
it and `Clean` the pass rate over the raw rows, and an execution is released if
both hold and refused if not: all gates must pass. Before either, the rows the
contract refuses are set aside (`SetAside`), as no failed row is silently dropped.
The mapping reads the decision off the statuses of the execution's versions, so
a promote task that dies after its status update has decided, what is set aside
off the quarantine table, and what is served off `promoted` and the collections.
The pipeline does not keep this promise (`pipeline_under_rate`); it does if no
validation is interrupted after its write of the valid rows, which is a theorem,
and what it keeps under any fault is `DecisionsFollowContents`.

### DemoEngine

`versions` and `ledger` are the in-memory registry, `alias` and `collections` the
vector store, `lock` the engine's lock and `call[t]` what a request thread keeps
in local variables. A run takes the lock in `Ingest` and gives it back in
`Promote` or `Reject`, one action per stage between; its batch is a schema and
whether it passes every gate but drift. `Promote` is stage, decide and the
cleanup. A search holds the lock for two reads, the alias (`SearchAlias`) and the
scan that resolves the alias anew (`SearchScan`), and `Answer` is the response,
built after the lock is released. `Rollback` and `Reset` do all they do under the
lock and are one action each; a rollback without a candidate is a 409 and no
step.

Three things differ from the engine over the real stores and are why it has a
module of its own: `run_pipeline` keeps the fingerprint of the version, so the
drift gate works here; `reset` replaces both stores at once under a lock it does
not replace; and ids minted within one second sort by a random suffix, so
`Expired` may choose any of the candidates, not the oldest (console runs of one
second are usual, since nothing is waited for). Versions are numbered in the
order they are registered, which is the registry's. `Row` keeps `rolled_back` as
the code does: on the version a rollback leaves, for good, also when a later
rollback serves it again.

## The runs

| run | bounds | shows |
| --- | --- | --- |
| `engine_concurrent` | 2 jobs, 3 versions, one of them failing its gates, retention 2, history 2, ledger 3 | type invariant, `GatedServing`, `StatusJustified`, `RollbacksFollowPromotions` under every interleaving and crash |
| `engine_serial` | 1 job, 4 versions, retention 2, history 2, ledger 3 | `ProdServes`, `RollbackStepsBack`, `RetentionHonoured`, `InstantRollback`, and the refinement of `BlueGreen` |
| `engine_dead_alias` | 2 jobs, 4 versions, retention 3 (the code's) | violation of `ProdServes`: concurrent jobs leave a dead alias |
| `engine_nested_names` | 1 job, datasets `docs` and `docs__2024` | violation of `ProdServes`: cleanup across datasets |
| `relay_side_by_side` | gateway, a daemon and the scheduled relay, 1 body uploaded twice, 1 redelivery, 1 crash, locks and markers that expire | `NoSilentLoss`, `OneEventPerWindow`, `RunsBounded`, `DeadLettersExhausted`, `MarkerStopsReruns`, the refinement of `EventDelivery`, and `SettledOrAbandoned` (liveness) |
| `relay_double_run` | no crash, Kestra always starts | violation of `NoDoubleRun` |
| `relay_stranded` | scheduled relay only, no crash | violation of `EventsSettle` |
| `relay_lost_upload` | 1 body for 2 datasets, 1 crash | violation of `DuplicatesAreQueued` |
| `pipeline_retries` | 1 execution, 6 raw objects of 6 kinds of rows, a sample of 2 rows, 3 attempts | `ServedRowsAreSound`, `NoKeyLost`, `ReportsAgree`, `AuditFindsFailures`, `DecisionsFollowContents`, `StatusAdvances`, and `ExecutionsEnd` (liveness) |
| `pipeline_under_rate` | 1 execution, 2 attempts, a raw object of which half the rows are valid, the code's thresholds | violation of `ImplementsRelease` |
| `pipeline_drift` | 2 executions, 1 attempt, two raw objects of different fields | violation of `DriftBlocksPromotion` |
| `demo_console` | 2 threads, 2 datasets, 2 schemas, 4 runs, retention 3 (the code's), history 3, ledger 7 | `LedgerTellsServing`, `OneSchemaPromoted`, `AheadWereRolledBack`, `RollbackReady`, `AnswersAgree`, `RollbackGoesOlder` |

Why the bounds are enough. Three versions and a ledger of three rows hold a
promotion chain, a rollback or a re-promotion, and a cleanup that has to
drop something (retention 2 with three collections; the code's 3 with four in
`engine_dead_alias`). A job that crashes before its insert leaves no row, so the
ledger's bound cuts off no mix of crashed jobs, and `engine_serial` has a fourth
version because only a third old collection can exceed its retention of 2. With a
fourth row beside it the run is too long to repeat; the theorems have any number. Two jobs are enough for one to act on what the other made
stale. `MaxLedger` stops jobs from starting, never a job in progress, so every
started job can run to its end; a quiescent system is its only deadlock, which is
why the engine's configurations switch the deadlock check off. Two events and a
batch of two let a tick carry one event past another; they may be of one body,
the second uploaded after the first one's lock expired, and `MaxDeliveries` of
one or two is passed by redelivery. `relay_side_by_side` has one body because
bodies meet only in a batch and at the lock, and there two events of one body do;
the runs with a violation have two contents. The relay's configurations keep
the deadlock check on: a relay can always tick.

In `demo_console`, four promotions of a dataset make the cleanup of retention 3
choose among collections, and the history of three lose a version that is
stored, and with the rows left for rollbacks a version taken out by a rollback
comes back after another promotion (promote three, roll back, promote the
fourth, roll back). Two threads are all it needs to have
one inside the lock and one waiting for it. `MaxRuns` and `MaxLedger` stop runs and
rollbacks from starting; a search or a reset is always possible, so the deadlock
check stays on. Threads and schemas are interchangeable and no liveness is
checked, so their permutations are a sound symmetry.

One execution is enough for `pipeline_retries`: executions write under their own
version ids, and the one thing they read of each other, the schema hash of the
last promoted version, is a column no stage writes (what `pipeline_drift`
shows). The raw objects hold a duplicate key, a row the contract rejects, a row
without text, a row that is no object inside the sample and one behind it, an
additional field, and no row at all; with the thresholds of the configuration
some are promoted, some rejected by `min_records`, the pass rate or the coverage,
and one fails in validation
(uniqueness cannot fail behind de-duplication, which `GateIsFit` proves, and completeness
not behind a contract that requires the field, as here). Pass rate and coverage
thresholds are lower than the code's, so that a batch of four can lose a row and
still pass. Executions end, so the deadlock check is off.

Fairness. `FairSpec` asks that each relay that can take a step takes one: the
flow is scheduled every minute, or the daemon loops and catches its exceptions.
Under it every event is settled or `Abandoned`, left to a consumer that never
returns; that the second case exists is what `relay_stranded` shows.
Nothing is assumed of Kestra, which may refuse for ever, nor of uploads, expiry
and crashes; crashes are bounded in number (`MaxCrashes`), since a relay that dies in
every tick settles nothing. In the pipeline, `FairSpec` asks that a task that can
take its next step takes it: every task has a timeout, after which Kestra takes
over; faults are not fair, and the bound on attempts is the flow's. The
refinement and the safety properties assume no fairness.

## Where the code and its documents disagree

Seven runs end in a violation, of a property that states what a document or a
comment of the repository says; two more disagreements are theorems. They are
behaviours of the code as it is, not of an environment that breaks its promises:
most need only two jobs at once, one refusal, or one lost task.

| what the repository says | what the code does | shown by |
| --- | --- | --- |
| the prod alias "never points at nothing" (`engine.py` 123-124) | two jobs at once drop what serves | `engine_dead_alias` |
| the same | the cleanup of `docs` drops what `docs__2024` serves | `engine_nested_names` |
| the relay skips what the gateway marked, "no double-run" (`README.md` 280) | a tick between the gateway's trigger and its mark starts the event again | `relay_double_run` |
| "un-ACKed events are redelivered" (`events.py` 26) | not those of a tick's container that is gone | `relay_stranded` |
| "identical file already ingested" (`ingest.py` 147) | also when nothing was queued for that dataset | `relay_lost_upload` |
| all gates must pass, the pass rate is over the raw rows, failed rows are "never silently dropped" (`docs/architecture.md` 74, 82, 42) | a retried validate counts and quarantines what the first attempt left, and the version is promoted | `pipeline_under_rate` |
| a changed schema fails its gate (`docs/architecture.md` 84) | the gate has nothing to compare with | `pipeline_drift` |
| "one bad row doesn't kill the batch" (`docs/architecture.md` 124); failed records are quarantined "instead of failing entirely" (`validator.py` 3-4) | a row that is no JSON object, among the first 200, fails every attempt, and nothing is quarantined | theorem `OneBadRowKillsTheBatch` |
| `RETAIN_VERSIONS` *old* collections are kept (`engine.py` 25, `docs/architecture.md` 107-108) | the promoted one is counted among them, so one old one fewer stays: two with the default of 3 | theorem `OldOnesAreOneFewer` |

`RetentionHonoured`, which the runs check, asks for the half of the last line that
holds: no more than `RETAIN_VERSIONS` old collections stay. The theorem has the
other half exactly.

One more is in the model and not a run of its own: a promote job that dies
between the alias switch and the ledger insert leaves a version serving that no
ledger row mentions, and nothing repairs it (the promote task has no retry).

## The proofs

`PromotionEngine_proofs` proves, from the assumptions named in `PromotionEngine`
alone (any finite or infinite sets of jobs and versions, any bounds):

* `TypeCorrect`: `Spec => [](TypeOK /\ JobsOnTrack)`. The type invariant alone is
  not inductive: a step that writes `job[j].ver` into the ledger needs to know
  that a job at that step has a version, that the version belongs to the job's
  dataset, and so on. `JobsOnTrack` says so for each step a job can be at.
* `OnlyGatedVersionsServe`: `[]GatedServing`. The strengthening says that every
  promotion row is of a passed version, that a job about to switch or record a
  promotion has a passed version, and that a rollback's chosen target comes from
  a promotion row; so a rollback can only return to something that passed.
* `StatusesAreJustified` and `RollbacksReturnToPromoted`, from one invariant about
  the ledger: a job past its insert has its row there, a rollback past its choice
  has a promotion row of its target, and rows are never removed (`RowsKept`).

`PromotionEngine_serial_proofs` proves what holds only while no two jobs work on one
dataset at a time (`OneJobPerDataset`, the limit the flow does not set) and
listings hold a dataset's own versions (`OwnListings`). Without either half
`ProdServes` is false, as `engine_dead_alias` and `engine_nested_names` show, so the
hypotheses are part of each statement. They ask no more than that: jobs of
different datasets interleave freely, and datasets, versions, retention, history
limit and crashes are arbitrary; a single slot for jobs, as in `engine_serial`, is a
special case (`OneSlot`). That jobs of other datasets change nothing a job relies
on is `LeavesAlone`: not its alias, its collections or its history. One invariant, on
top of the three above, carries the theorems:

* `ActsOnNow`: a job that runs alone acts on what it has read. The version it read
  behind the alias is still there when it switches, and a chosen rollback target
  is still older than that version, as the ledger did not change in between
  (`SameHistory`). This is `RollbacksWalkBack`.
* `KeepsPrevious`: the version a job replaces stays stored to the job's end, the
  names its cleanup drops are neither that version nor the serving one, and the
  ledger's last row is the job's own promotion. The last row is in every history
  and newer than every other version's (`LastIsNewest`), so the replaced version is
  a candidate: `RollbackIsAvailable`.
* `AliasesLive` and `PromotionsLast` are `ProductionServes`; a dropped collection is
  none that an alias points at, by `KeepsPrevious`.
* `EngineImplementsBlueGreen`: the job's version is under promotion from the verdict
  to its status and on record from its row. Each action is a step of `BlueGreen` or
  a stutter; a cleanup that drops and then finishes is one `Retire`, a crash is an
  `End`. `ReadersAreServed` carries `BlueGreen`'s promise over to the engine.
* `RetentionIsHonoured` and `OldOnesAreOneFewer` count: a cleanup that still has names
  to drop leaves exactly `RETAIN_VERSIONS` collections when it has dropped them
  (`RoomKept`), because the names it keeps are the newest candidates and the two it
  spares by name, which are there (`BothKept`), and each drop takes one off both
  sides. One of them is the promoted one, so `RETAIN_VERSIONS - 1` old ones stay,
  one fewer than documented; a cleanup with nothing to drop leaves no more. A
  retention of at least 2 is needed: under 1 the serving and the previous
  collection are two already. The code's is 3.

`EventRelay_proofs` and `EventRelay_safety_proofs` prove every safety property of
`EventRelay`, for any relays (daemons or not), contents and keys, outcomes of a
trigger, batch size, delivery limit, uploads, crashes and expiry; the assumptions
are those named in the module.

* `TypeCorrect`: `[]TypeOK`. It is strengthened by `GatewayOnTrack` (while a
  handler is about to append, the stream is still shorter than the uploads) and
  `TickOnTrack` (a tick holds delivered events only, a relay past its reads has a
  batch, and nothing unchecked). Two lemmas carry it: the oldest event of a set
  is in it (from the well-foundedness of `<` on `Nat`), and a read of new events
  returns exactly the stretch of the stream the cursor moves over.
* `OneEventInEachWindow`: `[]OneEventPerWindow`. Inductive once the handler that
  took the lock and has not appended yet is counted: the events of a key and the
  one `Coming` together do not exceed its `Windows`, the expired ones and the open
  one. Taking the lock opens a window and announces an event, expiry moves the
  open window to the expired ones, an append turns the coming event into one.
* `NothingLostInSilence`: `[]NoSilentLoss`. Inductive with what has to be true one
  step before an acknowledgement: a marked event was started, a gateway or a
  relay about to mark has started its event, a relay about to acknowledge has
  started it or dead-lettered it. That executions and dead letters are never
  taken back (`EffectsGrow`) keeps the other relays' justifications valid.
* `OnlyExhaustedDeadLettered`: `[]DeadLettersExhausted`. A read of new events sets
  a delivery count back to 1, so the proof needs that dead letters are behind the
  cursor.
* `RerunsAreBounded`: `[]RunsBounded`. Deliveries are counted when an event is
  read, executions when it is triggered. `BoundInv` therefore says of each event
  a relay has before it and has not triggered (`Untried`) that this relay owns
  it and that one of its deliveries is unspent; ownership makes that relay the
  only one, so two relays never spend the same delivery.
* `MarkedIsFinal`: the action property `MarkerStopsReruns`, from the type invariant.

`EventRelay_refinement_proofs` adds three theorems, for the same parameters:

* `RelayImplementsDelivery`: the refinement of `EventDelivery`. Its steps need what
  each relay has in its hands: `HeldInv` says that these events are pending and its
  own, and that the cursor passed none without delivering it. With ownership
  exclusive, a trigger is a start of an event that is still outstanding, and by
  `BoundInv` it is paid for; by the invariant behind `NoSilentLoss` an
  acknowledgement settles only what was started or dead-lettered. Locks, markers,
  claims and reads of an empty backlog are stutters.
* `DuplicatesQueuedIf`: the counterexample to `DuplicatesAreQueued` has two causes and
  there is no third. If no body is sent for two datasets, and no handler dies between
  its lock and its XADD, every upload answered "duplicate" has its event on the stream
  (`LockInv`: a lock has its event on the stream or in its handler's hands).
* `DaemonsStrandNothing`: if every relay keeps its consumer name, no event is ever
  `Abandoned`. It is the other side of `relay_stranded`; with `SettledOrAbandoned`,
  which TLC checks, it says that daemons settle everything.

`DemoEngine_proofs` proves every property of `DemoEngine`, for any threads,
datasets, schemas, retention, history limit and numbers of runs and rollbacks.
One invariant carries all seven theorems, since the parts need each other:

* `TypeInv` adds `OnTrack` (only the lock's holder is inside a run or a search, and
  a run works on the newest version, which no ledger row mentions yet) and
  `RowsInv` (a version is promoted at most once, under an id minted before, and
  has the status "promoted" only if a row says so) to the types.
* `RowsAgree` relates the ledger to production. `ServingInv`: what serves is stored
  and in the history, or nothing was ever promoted. It is what makes
  `RollbackGoesOlder` true although the history is cut: a rollback compares with
  the serving version only if it finds it there. `PreviousKept`: after a
  promotion the replaced version is stored, since the cleanup keeps it by name;
  with it the previous version is a candidate (`RollbackReady`).
  `AheadWereRolledBack` and `LedgerTellsServing` are inductive beside these.
* `FirstsKept` and `SameSchema` carry `OneSchemaPromoted`. The drift query looks
  for a version whose status is "promoted", and rollbacks change statuses; but a
  rollback marks the version it leaves and always goes to an older one, so the
  first version promoted is never left and keeps its status. The query therefore
  finds some version, any of them has the common schema, and a run that did not
  drift has it too (`SameSchema`), from validation to its promotion, because the
  lock keeps every other step out.
* `AnswerInv`: between its two reads, a search has named what still serves.

That a bounded, non-empty set of numbers has a greatest element (`GreatestOf`: the
newest promoted version, the newest candidate) follows from the
well-foundedness of `<`; the library's finite-set induction is not used.

`DatasetPipeline_proofs` proves every safety property of `DatasetPipeline`, for any
executions, rows, raw objects, contracts, thresholds and numbers of attempts. One
invariant carries its seven theorems:

* `Documented` says what a version's status promises of its files: the valid rows
  are staged from "validated" on, one of each key from "enriched" on, the profile
  and the embedding report are of them from "gated" on, and a decided version has
  the verdict its status tells. While a retried stage rewrites a file the status is
  one step old, so `Documented` allows both contents there: an enrich task that is
  started over reads its own output, and de-duplicating twice changes nothing
  (`KeptOnce`).
* A track for each stage says, step by step, what a task has read and already
  written. A fault sets a task back to its first step from any of them; what the
  track asks there has to hold after any number of attempts. `ProfileTrack` holds the
  profile task beside enrich, which may write after its execution has failed.
* `LeftBehind`: an attempt at ingest mints a version of its own, so the earlier
  ones never get past "ingested". It gives `AuditIsRight`.
* `ValidateTrack` lets a task past its first step only if the sampled rows are all
  objects. With it `OneBadRowKillsTheBatch` follows: no version of such a raw object
  is ever validated, and none of its rows gets to the quarantine.
* `Served`: a version in production keeps its status and its collection, since no
  later task writes to it (`PromotedRests`).

`KeysAreKept` rests on `FirstRow` (a set of rows has a first one, from the
well-foundedness of `<`). `ServedIsSound` assumes a positive embedding coverage
threshold: under a threshold of zero a version whose rows have no text is promoted
with an empty collection. The default is not zero.

`DatasetPipeline_refinement_proofs` adds four, from `RelInv`, which is the invariant
above and `SightTrack` for each execution: what validate has before it is the raw
object or the rows it accepted, its report is the rate over exactly those, the
report stays as it is once the stage is over, the verdict is what the gate says of
the kept rows and that report, and nothing has drifted.

* `DecisionsAreRight`: `[]DecisionsFollowContents`. Its lemmas on data say that
  validation and enrichment together compute `Offer` (`OfferIsKept`), that rows of
  distinct keys number as many as their keys, so the uniqueness gate refuses
  nothing the other gates let through (`GateIsFit`), and that a report which counts
  as many rows as the raw object has was taken over all of it (`RateIs`). A version
  is settled once decided (`Settled`), since nothing writes to it later.
* `ReleaseUnlessInterrupted`: if no validation is interrupted after it wrote the
  valid rows over bad ones (`ValidateUnbroken`), every step is a step of
  `DatasetRelease` or a stutter, whatever else fails. `InSight` carries the
  hypothesis: what validation works on, and later what it reported, is every row
  of the raw object. The counterexample of `pipeline_under_rate` is thus the only
  kind there is.
* `RowsVanishOnlyThere`: where rejected rows vanish (`NoRowVanishes` is in this module;
  it is one of the two halves of that counterexample). If no validation is
  interrupted between its write of the valid rows and its insert into the
  quarantine table, no rejected row vanishes, whatever else fails (`VanishTrack`: a
  row not yet in the table is still staged, or in the hands of validation).
* `DriftIsNeverSeen`: no gate ever reads a report of drift. `DriftBlocksPromotion` is
  not violated by a race or a retry; the check behind it cannot fail.

Only model-checked: the liveness properties `SettledOrAbandoned`, `EventsSettle` and
`ExecutionsEnd`, which are out of the proof system's reach, and that the properties
of the violation runs fail, which is what the runs show. Every other property of
a passing run is a theorem. No module has a RECURSIVE operator, and no theorem
needs an induction over data that the library's theorems about finite sets do not
already give.

## Not modelled

The console page, HTTP wiring and key check, monitoring, the unused Kestra plugin
and pure text processing (parsing, sanitising, normalisation, feature hashing,
the checks of one field) have no state to interleave.

The gateway's read side only reads. Its search makes the two reads the demo
engine makes under a lock, without one; what each of the reads may see is what
`ProdServes` and `GatedServing` say of the alias, and no document relates the two.
The nightly rebuild picks the raw object written last and starts a pipeline
execution; the governance audit counts rows. Both are covered as far as they
meet modelled state: a rebuild is one more execution or job, and the audit's list
of stuck versions is `Stuck`. No document says which data should serve when a
rebuild or an older upload finishes last, so there is no property to state; the
hazards record it.

A version whose collection the retention dropped can be promoted again by hand.
If that job dies between two upsert batches, a later rollback finds the version in
the ledger and in the listings and serves a partly written collection. The model
has the behaviour (`Upsert`, `Crash`, `ChooseTarget`), `BlueGreen` counts a collection
as stored from its creation on, and no document promises more.

## Plan

1. Done: `BlueGreen`, `PromotionEngine` and its first proofs; `EventRelay`, with
   expiry and shared bodies, and the proofs of its safety properties;
   `DatasetPipeline` and `DemoEngine` with the proofs of all their safety
   properties.
2. Done: the theorems of the engine with one job per dataset, its retention and its
   refinement of `BlueGreen` among them; `EventDelivery` and `DatasetRelease` with
   the refinements to them.
3. Left: a manual re-run of a promotion beside rollbacks in `DatasetPipeline`, and
   an abstract specification of the demo engine's console.
