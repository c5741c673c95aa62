# Serenity Alpha Lab: formal specifications

TLA+ models of `src/serenity_alpha_lab` with the TLC runs that check them and
the TLAPS proofs about them.  Source paths below are relative to
`src/src/serenity_alpha_lab/`, documents to `src/docs/`.

## 1. The system

Serenity Alpha Lab is an evidence-first research and quant platform.  Requests
become persistent tasks and runs; workers execute them in stages; market data
come in through providers, pass a quality gate and are published; factors are
computed and screens run over them; a backtest engine trades what they propose
and books it in a ledger; agents turn the results into reports whose claims
must cite evidence; reports go out through an outbox.

What can go wrong is of two kinds.  Between the parts it is coordination:
leases that lapse, retries of what was already done, files written by two
processes, states overwritten after they were final.  Inside the quantitative
parts it is what a unit test with one example does not reach: sequences of
fills, settlements and corporate actions, data restated after they were used,
rules of two modules that have to agree, and looking into the future.

| Component | State it keeps | Operations | Hard behaviour | What makes it correct |
|---|---|---|---|---|
| Persistent task backend (`repositories/persistent_task_backend.py`) | a row per task, an event log | submit, dispatch, request_cancel, acquire_next, heartbeat, complete, fail, requeue, redispatch | lapsed leases, crash between commit and dispatch | completions come from the owner the row names (`_require_leased_row` compares no attempt; the model shows that the owner's attempt is the current one), the port's lifecycle, queued tasks settle |
| Reconciler and event stream (`services/task_event_stream.py`) | none of its own | reconcile | races with workers | recovers every orphan |
| In-memory task backend (`application/task_backend.py`) | snapshots, events | submit, complete, fail, request_cancel | no guard on terminal states | what its callers do keeps the lifecycle |
| Notification outbox (`repositories/notification_outbox.py`) | a row per notification | enqueue, lease_pending, mark_sent, mark_failed | crash of a sender, retries | attempts bound deliveries, sent was delivered, all conclude |
| Agent stage store (`repositories/agent_stage_store.py`) | checkpoints, model call receipts | register, start, record, complete, fail, cancel, resume_plan | resume after a crash on an old plan | order, no receipted call paid again, a cancellation stops what it finds |
| Artifact store, catalog, publication (`repositories/local_artifact_store.py`, `datasets/catalog.py`, `datasets/publication.py`) | blobs, manifests, versions, latest alias, quarantine | put, publish, promote, quarantine | crash between renames, clean-up of files of others | latest passed the gate, versions are backed, a report loses its blob only to a writer of the same content that fails |
| Data sync (`services/data_sync.py`, `domain/trading_calendar.py`) | lock file, checkpoint | plan, start, record, complete | crash with the lock held, backfills | no result lost, version follows the last day |
| Formal backtest runs (`application/backtest_run.py`, `backtest_resource_control.py`, its API) and run lifecycle (`domain/run_lifecycle.py`) | run records, executions, tasks, stages | create, observe, cancel, finalize | late snapshots, reuse of records, failing checkpoint | tasks follow executions, only earned and sound runs are final, a record beside a cancelled execution is one whose checkpoint failed |
| Orders, execution, costs (`quant/backtest/orders.py`, `execution.py`, `costs.py`) | order snapshots | create, accept, fill, cancel, expire, execute | T+1, price limits, suspension, thin volume | fills obey the market's rules |
| Ledger and corporate actions (`quant/backtest/ledger.py`, `corporate_actions.py`) | an event stream; cash, claims, debts, lots | post, settle, dividends, splits, rights, delisting, replay | any order of postings, redelivery | books balance, replay reproduces |
| Rebalance and risk (`quant/backtest/rebalance.py`, `risk.py`) | none | plan, evaluate | rounding, caps, cash committed twice | plans are covered by cash and holdings |
| Spec, audit, artifacts, metrics, goldens (`quant/backtest/`) | none | validate, audit, report | evidence that looked ahead, edges of the statistics | final runs saw no future data, the report is about the run |
| Market data (`datasets/*.py`) | datasets by key | ingest, merge, adjust, query as of a time, register schemas | restatements, late records, delisting | adjustment modes agree, past answers stand |
| Provider policy (`integrations/data/provider_policy.py`) | none | select with fallback and cross check | failed, stale, poor or contradicted batches | selection is earned |
| Signal evaluation (`quant/signal_evaluation.py`) | none | evaluate, decide, summarise | stop and target on one bar, short windows | completed evaluations stand, engines agree |
| Factors (`quant/factors/`) | cache partitions; definitions, index, retirements, audit log | compile, plan, recompute, process, evaluate; draft, publish, retire | look-back across restatements; two publishers, crash between files | what is stale is recomputed (but for changes told by a day before the planned ones), records are backed, an index entry settles, groups are balanced |
| Screening (`quant/screening/`) | snapshots | universe, filter, rank, compare, reproduce | point in time, ties, missing values | every result accounted for, screens reproduce |
| Evidence, citations, trust, rendering (`evidence/`) | bundles, reports | adapt, cite, validate, repair, render | several validators that must agree | reports hold |
| Evidence store and prompt registry (`repositories/evidence_store.py`, `evidence/prompt_registry.py`) | records, bodies, revisions; schemas, prompts | put, revise, query; publish, bind | two writers, crash between files, publication during a run | what is known later changes nothing |
| Agents and their evaluation (`application/*_agent.py`, `evidence_bundle_builder.py`, `agent_evaluation.py`) | none | build, prepare, validate, score | outputs a model chooses freely | decisions respect risk |
| Model routing (`application/model_routing.py`) | spending, rates, receipts | plan, answer | concurrent plans, lost answers, cached answers | spending bounded, answers fit their bundle |

Interactions.  A client submits to the task backend, which dispatches a
reference through the broker after its commit; workers lease from the database
and the reconciler repairs both directions.  Agent runs keep their stages in
the stage store, read bundles from the evidence store and send requests the
router has planned.  Datasets keep their quality reports in the artifact store
and their versions in the catalog.  The engine plans orders from screens, meets
the bars of the day with them and books fills in the ledger; its outputs are
what a formal backtest run is finalized from.

## 2. Modules

| Module | Models |
|---|---|
| `TaskLifecycle` | the abstract lifecycle of a task, as the `TaskBackend` port lets an observer see it |
| `PersistentTaskBackend` | task rows, events, clients, workers, broker and reconciler; implements `TaskLifecycle` |
| `NotificationOutbox` | outbox rows, publishers, senders and the provider |
| `AgentStageStore` | stage checkpoints and model call receipts of one run, its workers and its user |
| `TradingCalendar` | trading days, lookback windows and the last day of a set of days |
| `DataSync` | planning, lock file, checkpoint file and runs of one dataset scope; extends `TradingCalendar` |
| `DatasetPublication` | publishers over the directories of the catalog and of the artifact store |
| `FormalBacktest` | the facade of formal backtest runs over supervisor, orchestrator and in-memory task backend |
| `BacktestEvidence` | what a run is finalized from: spec, audit, bundle and lifecycle; extends `FormalBacktest` |
| `AShareExecution` | the order state machine, the market's rules and the costs, as operators |
| `PortfolioLedger` | events, lots, postings and replay; extends `AShareExecution` |
| `RebalancePlan` | weights, plans and the risk policy; extends `PortfolioLedger` |
| `BacktestEngine` | the days of a backtest over all three; implements `Accounts` |
| `Accounts` | what the ledger promises about money, with no lots, orders or prices in it |
| `MarketData` | instrument master, raw bars, actions, adjustment factors, fundamentals |
| `DataQuality` | the quality rules, the gate and dataset schemas; extends `MarketData` |
| `ProviderPolicy` | which provider's batch is taken; extends `DataQuality` |
| `SignalEvaluation` | what became of a piece of advice; extends `MarketData` |
| `MarketStore` | the datasets as they come in, over the four modules above |
| `FactorFormulas` | the factor language, cache partitions and what a change makes stale |
| `CrossSections` | processing of a day's values and evaluation of a factor; extends `FactorFormulas` |
| `Screening` | universe, pipeline, snapshot, reproducibility; extends `CrossSections` and `TradingCalendar` |
| `FactorScreening` | data, cache, restatements and screens, over the three modules above |
| `FactorRepository` | clients over the files of the definition repository |
| `Evidence` | evidence, citations, claims, reports, trust and renderings |
| `ResearchAgents` | bundles and the four agents' checks; extends `Evidence` |
| `AgentEvaluation` | golden cases, scores and their comparison; extends `ResearchAgents` |
| `ModelRouting` | the prompt registry and the choice of a model |
| `Research` | a research run over a store that changes; extends `AgentEvaluation`, instantiates `ModelRouting` |
| `PersistentTaskBackendProofs`, `NotificationOutboxProofs`, `AgentStageStoreProofs`, `BacktestEngineProofs` | the proofs about the module of that name |
| `FormalBacktestProofs` | the proofs about `FormalBacktest` and `BacktestEvidence` |
| `PublicationProofs` | the proofs about `DatasetPublication`, `FactorRepository` and `FactorScreening` |
| `MarketDataProofs` | the proofs about `DataSync` and `MarketStore` |
| `ResearchProofs` | the proofs about `Research` |
| `MC...` | model values, symmetry and small parameters for TLC, where a cfg cannot say them |

Pure parts of the program (rules, validators, formulas) are operators named
like the functions they translate; the parts that keep state are actions.

### Task backend (`PersistentTaskBackend`)

`row` is the table of tasks, `last` and `starts` summarise the event log,
`broker` is the set of undelivered wake-ups, `call` says between which two
transactions of `submit`/`request_cancel` a client is, `held` is the lease a
worker believes it has, `recon` the place in the reconciler's loop.  A database
transaction is one action: `Submit`, `Acquire`, `Complete`, and so on.  A call
that makes several transactions is several actions, so others run in between;
that is how a dispatch that raises meets a task that is already finished.  In
`TaskLifecycle` only the call that submits a task may fail it whatever it has
done by then, once, and before that call returns (`submitting`); so the
refinement says that nothing else, and nothing later, overwrites how a task
ended.

A worker of the model works on one lease at a time (`held`), as a loop that
acquires, executes and completes does.  The code would let several such loops
share one `worker_id`; then the owner would not tell them apart, and the
properties about leases are not claimed for them.

Time appears only in the comparison the code makes: a lease is `live` until
`Lapse` makes it `lapsed`.  Nothing in `_require_leased_row` looks at it, so a
worker may still complete under a lapsed lease until the reconciler requeues
the task; the model keeps that.  A SELECT and the UPDATE after it are one step;
the interleavings that READ COMMITTED would allow between them are listed as a
hazard and not modelled.

### Notification outbox (`NotificationOutbox`)

`row` holds status, owner, lease and attempt; `due` is the order of the rows
whose `next_attempt_at_utc` has passed; `held` what a sender leased and what
the provider answered; `delivered` counts provider deliveries per attempt.
`SenderCrash` forgets what a sender held and leaves its rows in `sending`, from where
a lapsed lease is leased again, with the attempt counted.

### Agent stages (`AgentStageStore`)

`stage` and `receipts` are the two tables, `calls` how often a model was paid
for a stage, `work` what each worker is doing.  `resume_plan` reads the stages
and then the receipts, in two connections: two steps, and the plan may be old
when the worker acts on it.  A model call sits between `start_stage` and the
receipt; a crash in between pays without a receipt, which is why
`NoDuplicateCharge` is about receipted calls.  `request_cancel` may come at any
time.  It marks the rows it finds pending or running; when it finds none it
answers 0 and leaves no trace, and stages registered later run.  `reached`
remembers whether some call found one, and `CancelStopsWhatItFinds` says what
holds then.

### Data sync (`DataSync`) and publication (`DatasetPublication`)

`checkpoint` and `lock` are files, `run` the runs of several processes.  A run
plans first and locks later; every trading day is a read of the checkpoint
followed by a write.  A crash leaves the lock file, which nothing in the code
removes: the scope stays locked, so no liveness is claimed.

For publication the state is what is on disk: blobs, manifests, versions, the
latest alias, quarantine, and temporary files by writer.  Every rename is an
action, as is every check that precedes one.  A call that raises (`Raises`)
removes its own temporary files and the blob it placed, and then `CleanUp`
empties both `tmp` directories, those of other writers included.  The blob a
failing writer takes back may be one that another manifest has come to rely on:
`unlinked` remembers the contents this happened to.  Their reports cannot be
read any more, and they are the exception that `VersionsAreBacked` and
`ManifestsKeepTheirBlobs` name.

### Formal backtest (`FormalBacktest`, `BacktestEvidence`)

Four in-process repositories that one call of the facade changes one after the
other: `task`, `execution` (the supervisor's record of each run id), `api` (its
copy in the API's record) and `final` (the records of finished runs).  A call
of the facade is a step: `Create`, `Cancel`, and one `Observe...` action per
way `observe()` treats a snapshot.  Snapshots come in any order, late,
repeatedly, and from an earlier process of the same run id.  `CheckpointFails`
is the call that raises after the final record was saved.  A child that
succeeded but is refused by a guard stays `running` until it is cancelled or
times out, and submitting a run id again under another key leaves the earlier
task queued, as in the code.  `unpublished` remembers the requests whose record
was saved by a call that raised: such a record may stand beside an execution
that is cancelled or times out afterwards, and `RecordsAreEarned` lets no other
stand there.

`FormalBacktest` takes the verdict on a request as given.  `BacktestEvidence`
computes it (`VerdictOf`): the spec must be valid, the audit's rules are
applied to samples and cost scenarios, the bundle must hold every kind of
output once, and `BuildLifecycle` walks through the stages of the Run, where a
stage name that comes twice ends the finalization half-way.

### Backtest engine (`BacktestEngine`)

`orders` maps ids to snapshots, `ledger` is the record `PortfolioLedger` builds
from its events, `plan` the last rebalance plan with the risk decision, `curve`
the equity at each close.  The repository drives these parts in one place, the
golden runner, in a fixed order; the model lets placing, planning, accepting,
trading, settling and posting happen in any order within a day, as a caller
may.  An execution is booked in the same step (`Trade`), under the next event
id, for shares counted as available just before, as the golden runner does it.
`execute` and `record_execution` would take an old count of available shares,
or a second event id for one fill, from another caller; the model has none.  Money is in cents and
shares are whole; `\div` stands where the code rounds a `Decimal`.  Where the code
loops over lots, orders or events, the model has a recursive function over the
positions of the sequence (`ReduceLots`, `AdjustedLots`, `ApprovedBuys`,
`Replay`), which TLC evaluates and the proofs can take apart.

`Accounts` has five variables and five kinds of entry.  `ImplementsAccounts` is
the refinement: `bookCost` is the sum of the costs of the open lots and
`earned` what executions and actions report as profit, so that a cost that
leaves a lot without being counted, or a posting that misses a side, shows.

### Market data (`MarketStore`)

`raw`, `published`, `actions`, `adjusted` and `fundamentals` are the datasets,
functions from primary keys to records, `registry` the schemas, `now` the time
rows are ingested at.  `SyncBars` is a selection of the provider policy whose
batch is validated and merged.  Adjustment factors are fractions.  Signals are
operators over `raw`: their properties compare what is said before and after a
step.

### Factors and screening (`FactorScreening`, `FactorRepository`)

`data` are the inputs, `cache` the partitions computed, `pending` the changes
told since, `release` the version of what the cache holds, `runs` the screens
that were run.  A restatement is told by day or by dataset; `Recompute` plans
from what is pending and computes exactly the planned partitions, so that a
partition that was stale and not selected stays stale and is seen.  `told`
remembers what was told by its day only since the dataset had its last new
version, which is what the exception of `StaleIsSelected` is about.  A formula
is the sequence of its nodes as the compiler interns them, operands before what
they are operands of; lookbacks and values are recursive functions over the
places of the nodes.

`FactorRepository` has one action per file operation: clients save drafts,
publish and retire; `client` says where in its call each is and what it has
read.  A call that finds something it refuses ends there.  A client that dies
after its index entry or retirement record and before its audit event loses the
event for good, since a retry finds everything written and logs nothing; `lost`
remembers those events.

### Research (`Research`)

`records`, `bodies` and `revisions` are the files of the evidence store;
`writer` says which file a writer writes next; `stage` how far each of the four
roles is (bundle, binding, plan, answer, checked output), `registry`, `spent`,
`calls` and `receipts` what the router looks at, `rendered` the report.  What a
model answers is any element of `Answers(role)`, and the agents' checks decide
whether it is taken.  The order of the roles is imposed by their inputs: the
decision takes the three other results.

## 3. Runs

`task_backend`, `outbox`, `outbox_expired` and `agent_stages` check the
component's module itself, whose constants are plain sets and numbers:
`PersistentTaskBackend.cfg`, `NotificationOutbox.cfg`,
`NotificationOutbox_expired.cfg`, `AgentStageStore.cfg`.  Every other run is
the module `MC<module>`, which defines the richer values, with the cfg of the
same name.

| Run | Instance | Shows |
|---|---|---|
| `task_backend` | 2 tasks, 2 workers, 2 clients, 1 fault | success only under the current lease (`SucceedsUnderCurrentLease`), the lifecycle of the port is implemented, with a late dispatch failure as the only thing that overwrites an end (`ImplementsLifecycle`), queued tasks settle (`Settles`) |
| `outbox` | 2 messages, 2 senders, 3 attempts, batches of 1 | attempts bound deliveries (`AttemptsBoundDeliveries`), `sent` was delivered (`SentWasDelivered`), every message concludes (`Concludes`) |
| `outbox_expired` (violated) | 2 attempts | a lapsed lease of the last attempt is leased by nobody (`ExpiredIsLeasedAgain`) |
| `agent_stages` | 2 stages, 2 workers, 1 retry, 1 crash | order of stages (`StagesRunInOrder`), receipts never paid twice (`NoDuplicateCharge`), a cancellation that finds an open stage stops the run (`CancelStopsWhatItFinds`), every stage ends (`Concludes`) |
| `data_sync` | 3 runs, 4 days of which one is closed, 1 crash | no result lost (`ResultsAreKept`), version follows the last day (`VersionIsOfLastDay`) |
| `publication` | 2 publishers, 3 requests (2 pass the gate, two share their content), 2 faults | what a version names is in place (`VersionsAreBacked`); a manifest loses its blob only to a writer that takes back what it placed, never to a crash (`ManifestsKeepTheirBlobs`) |
| `formal_backtest` | 5 requests over 2 run ids and 3 keys, 3 events per task, 1 failing checkpoint | the task says what the execution says (`TaskFollowsExecution`), records are earned, and beside an execution without success stands only one whose checkpoint failed (`RecordsAreEarned`), final runs saw no future data and are recorded stage by stage (`FinalRunsAreSound`) |
| `backtest_engine` | 2 instruments, 2 orders, 3 days, 5 corporate actions, 6 ledger events | positions match fills (`PositionsMatchFills`), replay with redelivery reproduces the ledger (`ReplayReproduces`), the money side implements `Accounts` (`ImplementsAccounts`), T+1 (`SharesAreHeldOvernight`), plans are covered together (`PlansAreCovered`), metrics are about the run (`MetricsAreTrue`) |
| `market_data` | 2 instruments, 3 providers, 4 days, 4 schema versions, restated bars, actions and fundamentals | both adjustment modes give the same returns (`ModesAgree`), factors move on ex-dates only (`FactorsMoveOnExDates`), an answer about the past moves only with a record that was available then (`PastAnswersStand`), bars come from the first sound provider (`SelectionIsEarned`), completed evaluations stand (`SignalsStand`) |
| `factor_repository` | 2 clients, 2 contents of one semantic version, 1 crash | what index, retirements and audit log name is there (`RecordsAreBacked`); the log lacks only the events of clients that died before logging (`AuditIsComplete`); an index entry stands once no publisher that found none is under way (`SettledIndexStands`) |
| `factor_screening` | 3 factors (one ranked), 4 instruments, 4 trading days around a closed one, 2 restatements (one before the planned days), 2 screens | what is stale is selected, with the exception below (`StaleIsSelected`), every instrument has one result (`EveryResultIsAccounted`), pinned screens reproduce (`ScreensReproduce`), evaluations are balanced (`EvaluationsAreBalanced`) |
| `research` | 4 roles, 2 writers, 9 pieces of evidence (two sources with one text), 1 crash, 1 lost answer | decisions respect risk (`DecisionsRespectRisk`), cached answers fit (`AnswersFitTheirBundle`), the budget is exceeded by at most the stages planned side by side (`SpendIsBounded`), no gate of a report is laxer than another (`ReportsHold`), later evidence changes nothing (`FutureEvidenceIsInert`) |

Bounds.  Two of each kind of actor are what it takes for a race between an
actor that holds something old and one that has moved on; every coordination
hazard here is of that form.  Three outbox attempts give a first, a middle and
a last one.  Four days with a closed one give a gap, a hole to fill and a last
day.  Three requests let two share a content while the third depends on one of
them.  The five backtest requests are a good one, one with an undated sample,
one that foresaw its data, one with a partial bundle and one whose layers share
a stage name; two run ids and three keys make them collide in each.
`MaxEvents`, `MaxFaults`, `MaxCrashes`, `MaxLost` and `MaxMinutes` bound what
would otherwise go on for ever and are named in the guards they bound.

The market of `backtest_engine` has a suspended day, a bar at its upper limit
and a day with too little volume, so that every blocking rule meets an order.
Three days give a day to buy, one on which shares may be sold, and one to
settle; six ledger events are enough for a purchase, a split, a sale and its
settlement.  `market_data` has a batch for each reason to be rejected and one
for each way the cross check may go.  In `factor_screening` one formula looks
back over a composition of delays, one over a rolling window, one is a rank
of a composition of delays; the third day is closed, inside of their windows; instruments lie in two industries and in none, one has
a short history, one becomes ST, one is suspended.  In `research` the store
holds evidence that passes, blocks, is invalid, is too late, is somebody else's
or does not fit in the bundle.

Where an operator is a pure function with no state of its own, `MCResearch`
checks it by assumptions over small inputs: what the adapter cites the
validator accepts, cleaned bodies hold no instruction, registrations are legal.
One of them records a limit: a performance metric that has no formula of its
own (`starting_equity`) is cited under the version of the metric set, which the
validator refuses (`quant_adapter.py:240`, `citation_validator.py:296`).

Deadlock.  `task_backend`, `publication`, `backtest_engine` and
`factor_repository` check for it: something can always still happen.  The
other components really stop: every message ended, every stage ended, every
run over, every task at its bound of events, every restatement told.

Fairness.  Task backend: weak fairness of workers, of a client that is inside
a call, of time (a lease lapses) and of the reconciler's loop, all of which are
loops of the deployment.  Crashes, lapses of a lease at work and lost messages
are never fair; they are bounded instead.  Outbox: weak fairness of a sender's
polls, calls and marks and of time.  Agent stages: weak fairness of each
worker's loop.  The other runs claim no liveness: a crashed sync keeps its lock
file, a caller need not publish, observe, trade, recompute or answer.

Disagreement with the documents.  `outbox_expired` checks a sentence of
`docs/research-report-delivery-ui-outbox.md`, quoted in `PROJECT.json`:
expired rows in `sending` are leased again.  Five more sentences do not hold of
every behaviour of the models; there the property says what does hold, and names
the exception:

- `docs/factor-definition-version-model.md:50`: a published semantic version
  never points to another spec.  Two publishers that both read an empty index
  (`definitions.py:664`) both write it, and the second moves it; the loser's
  version stays on disk, and its publication in the log.  `SettledIndexStands`
  bounds this: it ends with the publishers that had found no entry.
- `docs/factor-dag-cache.md:74`: a historical change recomputes every partition
  whose look-back holds its day.  A partition's start is clamped to the first
  planned day (`engine.py:636`), so a bar before it, restated and told by its
  day, selects nothing, and values that looked back to it stay as they were
  until the dataset has a new version.  `StaleIsSelected` allows exactly these.
- `docs/artifact-store-domain-model.md:33`: a failing `put_bytes` removes the
  blob it published so as to leave no content behind without a record.  Another
  `put_bytes` of the same content may have found that blob and published its
  manifest in between; its report is then named and not readable
  (`local_artifact_store.py:88`).
- `docs/agent-stage-persistence.md:83`: `request_cancel()` marks pending and
  running stages.  That is so; a reader may take it for a cancellation of the
  run, which it is only if it finds such a stage.
- `docs/backtest-resource-control.md:24`: an execution that timed out, was
  cancelled or failed has created no succeeded record.  `observe` saves the
  record before the checkpoint; if that cannot be published, the execution goes
  on and may end otherwise.

## 4. Proofs

Every theorem holds for all values of the constants, from the `ASSUME` of each
module.  The conditions of the coordinating components are that numbers are
natural and that `NoTask`, `NoWorker`, `NoRun` and `None` are outside of the
sets they complement; those of the others are said below.  TLC evaluates all
of them in the runs.

### Coordination

- `PersistentTaskBackendProofs`: types, log and row, lease columns, unique
  leases, refinement of `TaskLifecycle` (a task is failed by its dispatch only from the
  one call that submits it, which `Busy` makes unique), `EndedTasksStayEnded`,
  `SucceedsUnderCurrentLease`.  Uniqueness is not inductive alone: it needs
  that a held lease has an attempt its row went through, and the current one
  while the row names its holder (`LeasesComeFromRows`), and that clients and
  the reconciler only act on submitted tasks (`Busy`, `Fresh`).
- `NotificationOutboxProofs`: types, bounded deliveries, `sent` was delivered,
  dead letters, lease columns, ended rows, exclusive live leases.  The
  strengthening `HeldIsCounted` says that a sender's attempt is one its row has
  counted, and was delivered exactly when the provider said so.
- `AgentStageStoreProofs`: types, order of stages, receipts paid once and kept,
  outputs with receipts, cancellation (a stage that is cancelled stays so, and
  no stage that follows can be started), final ends.  What a worker listed may be
  old, but the store only moves on from it (`ListIsOld`), so the stage it acts
  on still has all earlier stages done (`ActsInOrder`).
- `MarketDataProofs`, part one (`DataSync`): types, the lock excludes, no
  result lost, version follows the last day, only owners unlock.  The
  strengthening `ReadIsFresh` says that between the read and the write of a day
  the checkpoint is still what the run read, which is what the lock is for;
  `LastIsLatest` ties `last` to the maximum of the completed days.
- `PublicationProofs`, part one (`DatasetPublication`): types, gate, lineage,
  returns, blobs of manifests, no leftovers, latest on return.  `Progress`
  says what is on disk at each phase of a publisher, `FilesAreOwned` that a
  temporary file belongs to a writer in the phase that made it, `BlobsAreThere`
  that the blob a writer counts on is there unless a failing writer of the same
  content has taken it back (`unlinked`).  The gate (`GateHolds`) is proved and
  no run's property.
- `PublicationProofs`, part two (`FactorRepository`): `RecordsAreBacked`,
  `AuditIsComplete` and `SettledIndexStands`.  Neither the index nor the audit log says who wrote the
  version an entry names, so `RepositoryInv` adds what each client knows: from
  the moment a client has written a version, or has read one it retires, until
  it writes about it, the version is there (`ClientsAreBacked`).  It stays true
  because no operation takes a version away.
  That an entry settles needs `WritersFoundNone`: who is about to write the
  index has read it empty, and nobody reads it empty once it is written.
- `FormalBacktestProofs`: types, tasks follow executions, ended tasks keep
  their status, only earned records, no record without success.  `complete` and
  `fail` look at no status, so that ended tasks stay ended rests on the API's
  copy being current (`ApiIsCurrent`), on the task of a run being the one its
  execution was accepted for (`RunsAreAccepted`, `KeysAreUnique`), and, for the
  records, on `NoEarlyRecord`: a key whose run did not succeed has none.

### Evidence of a backtest (`FormalBacktestProofs`, part two)

`FinalRunsAreAlwaysSound` joins `RecordsAreEarned` with what a verdict is
computed from.  That the Run of an accepted request has every stage once is a
loop over the layers' stage names, which ends at the first one that comes
twice; the proof climbs along the loop (`IsFollowed`) and counts stages and
completions.  `EvidenceIsTyped` says what the dataclasses of the code do: days
and returns are numbers, stages are a sequence, scenarios are finitely many.

### Market data (`MarketDataProofs`, part two)

- `SelectionsAreEarned`, for any policy and answers.  `AnswersAreBatches` says
  what the adapter does to a batch, giving every row its provider's name.
- `PastAnswersAlwaysStand`.  A merge replaces a record by its primary key, so
  an answer may move in two ways: a record came in that was available then, or
  one that had answered was replaced under its own key.  The theorem says there
  is no third.  `RowsAreFundamentals` says that dates are numbers.
- `ModesAlwaysAgree` and `FactorsAlwaysMoveOnExDates`.  However often the
  adjusted bars were built and merged, they are those of one build
  (`AdjustedOK`), because a build covers the keys of every earlier one.  In a
  build a factor is a product over event days: `FactorPass` follows the
  recursion day by day, and for two bars the events before both or after both
  cancel (`EventsCancel`), which leaves those in between once in each mode.
  What passed the gate has no gap (`PassedHasNoGap`), so the next bar is the
  next day and a move needs an event of that very day.  Sums and products over
  a finite set are built from their recursion (`FoldExists`) and followed by a
  well-founded induction over its subsets (`FoldIsTyped`).  `RulesAssumption`
  and `ListsAreActions` say that limits are numbers and actions have the fields
  `CorporateAction` checks.
- `SignalsAlwaysStand`.  The bars of a key stay under it and are one a day, so
  the bars after the advice are ranked by their days (`RanksAreTaken`); when no
  new bar is among the first ones, the ranks of the old and the new bars are
  the same and so is the window (`WindowStands`).  On any advice and known
  closes `EvaluateSingle` and `EvaluateDecision` correspond
  (`EnginesAlwaysAgree`), a completed evaluation has one of three outcomes, and
  what is counted by advice adds up to what is counted at all
  (`GroupsAddUp`).  `SignalsAreDated` says that dates and prices are numbers and
  windows positive, which the code checks.

### The backtest engine (`BacktestEngineProofs`)

For any market, orders, targets, corporate actions, costs and policies:
`PositionsMatchFills`, `ReplayReproduces`, `PlansAreCovered`,
`SharesAreHeldOvernight`, `MetricsAreTrue`, and `ImplementsAccounts`, from which and two lemmas
about `Accounts` follow `BooksAlwaysBalance` (nothing is created or lost) and
`NothingBecomesNegative`.

The library's induction theorems take a predicate as an argument, which no
installed prover can instantiate.  Induction over the positions of a sequence is
done by hand instead: `Climb` says that a *set* which holds 0, and k with k - 1,
holds all of 0..n (its proof takes the least position that is missing), and
`RecursionExists` builds the function a recursive definition chooses.  On these
two rest

1. the sums (`PartialSumsAdd`, `SumOfAppend`, `SumOfChange`, `SumOfSums`);
2. what the lot operators keep: `ReduceKeeps` (a sale takes as many shares as
   are asked for, or all, and every cent of cost is either still in a lot or
   counted as removed), `AdjustKeeps` (a split gives what it promises however
   the shares of the lots are rounded, since the last lot takes the rest);
3. `BuysAreCovered`: the buys approved one after the other never exceed the cash that
   is settled and not owed, less the buffer;
4. one lemma per kind of event on what it does to money (`Entry`) and shares
   (`Moves`).

The inductive invariant `EngineInv` is `LedgerOK` (types, no claim or debt
below zero), `Numbered` (events carry their positions as ids), `OrdersOK`
(an open order still wants shares) and `Positions` (shares held are fills and
what was given).  The parts need each other: what a split gives is computed
from the position, which is a sum over the lots; a fill adds to its order what
it adds to the lots, and how much it may add is what the order still wants.

Replay needs more, for it applies events to ledgers it builds on the way.
`IsReplayed` says that the events so far rebuild the ledger; as ids are the
positions, an event that comes a second time is skipped, alone or with the
whole stream.

T+1 is a rule about *which* lots a sale takes, while the code only counts the
shares that may be sold and takes lots first in, first out.  That the two agree
rests on `LotsInOrder`: lots lie in the order of their days, whatever fills,
splits and deliveries do to them.  Then a sale of no more than the older shares
meets them first (`OldSharesAreFirst`) and is used up before a lot of today
(`SaleLeavesToday`).

The report (`MetricsAlwaysTrue`) is about a curve of any length.  The code finds
the drawdown in one pass that remembers a peak and a worst fall; by `Climb`
along that pass (`IsPass`) the fall it ends with is the worst between any two
points, and the stretch it names the longest below a peak.  That trades, actions and
holdings explain the final equity takes two invariants: cash with claims and
debts is the initial cash and the sum of what executions and actions brought
(`Traded`), and the last point of a finished curve is the equity of the ledger
(`CurveOK`); with the costs that `BooksAlwaysBalance` accounts for, the
difference is what the report lists.

`EngineConstants` says what the constructors of the code check: snapshots are
valid, weights lie between 0 and 1, ratios of corporate actions are positive,
there are finitely many orders and instruments.

Two definitions were corrected on the way.  The cases of `RuleStatus` overlapped,
of which TLC takes the first while a proof may rely on none; and `Candidate`
had left out that a planned sell is cut to the shares held
(`rebalance.py:476`), without which `PlansAreCovered` cannot be proved.

### Research (`ResearchProofs`)

- `DecisionsAlwaysRespectRisk`: `GateInv` says that the decision still holds
  the gate the finished risk stage had when it was called.
- `AnswersAlwaysFit`: `AnswersInv` adds that receipts are filed under the
  evidence they answered and that what a plan took from them fits its bundle.
- `SpendIsAlwaysBounded`: `SpendInv` adds that a stage which is called was
  planned within the budget that was left then, and bounds by the costliest
  estimate what the stages beside it may still owe (`CommitmentsAreBounded`).
- `FutureEvidenceStaysInert` is an action property: what a stage is shown does
  not move with records of a later time.
- `ReportsAlwaysHold`: what is shown as verified is traceable, renderings explain
  themselves, and the graders hold nothing against the outputs or the report.
  `FinishedInv` adds that records and bundles are finite, that what a finished
  stage says is supported by its bundle and that the decision comes last.  Then
  a draft is an image of the outputs, and being made of them (`IsMade`), having
  an issue for every claim that is not as answered (`IsStanding`) and explaining
  them all (`IsFaithful`) survive each validation and repair, whatever a repair
  does to a report.

`RoutesArePriced`, `BudgetsAreNatural` and `StoreIsFinite` say what the planner
and the store are constructed from: finitely many routes with one id each, a
price for each, no negative amounts, finitely many records.

### Factors and screening (`PublicationProofs`, part three)

For any formulas, windows, data, restatements and screens:

- `StalePartitionsAreSelected`: what a restatement makes stale is in the next
  plan.  What a node is worth on a day depends only on its inputs on the days it
  looks back to (`SameValues`, by induction over the nodes), and the range that
  is recomputed starts early enough for them (`StartIsEarly`), with
  one exception that the proof shows to be the only one (`TooEarly`): the
  restatement is of a day before the first planned one, was told by its day, and
  the formula looks back to it.  `RestatedConstants` says that restatements are
  of the dataset of their input.
- `PinnedScreensReproduce`: a screen repeated on the release it names gives the
  same result, since the cache changes only together with the release
  (`PinnedRuns`).
- `ResultsAreAccounted`: every instrument that is proposed or in the universe has
  passed or has a reason to have failed, and who passed is listed and trading on
  the day of the screen, whatever listings, suspensions and batches there are.
- `EvaluationsAlwaysBalance`: a cross-section is sorted into places one to a
  value (`PlacesAreTaken`), a group is an interval of places
  (`QuantileGroupsAre`), so groups of a day differ by one at most
  (`GroupsAreEven`), ascend with the values, and the returns of the groups add
  up to those of the pairs in whatever order they are summed
  (`SumInAnyOrder`, `PartialSumsAdd`).  `NumbersInv` says that data and cached
  values are integers; for this theorem only, `EvaluatedConstants` restricts
  formulas to the operators whose result is a whole number (`Computed`).

`ScreeningConstants` and `PlanningConstants` say what constructors check:
screens are valid, planned days are sorted trading days, inputs of published
formulas are there.

### Only model-checked

- Liveness: `Settles` and the two `Concludes`, and anything about ENABLED.

Every safety invariant, action property and refinement of the passing runs is
stated by a theorem.

## 5. Not modelled

- Agent tool security, access control and input fetch security decide each
  call by its arguments, over texts, addresses and tables; a model would
  restate the tables.
- Configuration, CLI, error wording, tracing, identifiers, DDL of migrations
  and the web client keep no protocol.  Adapters for DSA, Qlib and AlphaSift map
  fields onto the ports above; the bronze store is one call of the artifact
  store.
- Floating-point statistics: the values of annualised ratios, correlations and
  t-statistics.  The model has when they exist and the integers they are made
  of.
- Interleaved statements under READ COMMITTED in the database repositories;
  explicit version ids in the catalog; the screening API's run records
  (`application/quant_screening_api.py`); adjusted bars built from a part of
  the published bars, which no code here does.

- Parts of operators.  `LatestAsOf` leaves out the refusal of queries that ask
  for what the source cannot tell (`fundamentals.py:375`) and rows that state
  their own temporal confidence; `Processed` has the missing-value policies, the
  median winsorization and the neutralization, not the z-score, the quantile
  winsorization, the market value nor constants to fill with
  (`post_processing.py:484`, `:517`, `:562`); the language of a formula is taken
  for the only one there is (`dsl.py:177`).
- Calls that are one step.  `Prepare` reads the bundle, resolves the prompt and
  plans the call.  Each of the three reads one store: what another writer, stage
  or publisher does between them it could have done before or after, except that
  a plan may be older than the call that follows, which `Answer` keeps.
- Callers the code does not have: two executors under one `worker_id`, a ledger
  given a second event id for one fill, an execution told an old count of
  available shares, two writers of one evidence id (in the module, not in the
  checked instance).

What could follow: the screening API over the task backend, with a crash
between submission and record; the repositories under READ COMMITTED.
