# Verification of the AI market data service

TLA+ models of the parts of this repository whose correctness depends on the order in
which several actors write one SQLite database, the TLC runs that check them, and TLAPS
proofs about them. Paths below are relative to `src/`.

## 1. Inventory

One FastAPI process (normally one; during a restart or a second deployment two) works on
one SQLite file. Every repository method that writes opens `BEGIN IMMEDIATE` or executes a
single statement, so **one transaction is one atomic step**; everything between two
transactions may interleave with any other actor, and a process may die there.

| Component (`app/services/` unless said otherwise) | State | Operations | Interacts with | Hard behaviour | What makes it correct |
| --- | --- | --- | --- | --- | --- |
| Job queue, `ai_research_job_repository.py` | `ai_research_jobs`, `ai_research_job_attempts` | `enqueue`, `recover_abandoned`, `acquire_next`, `heartbeat`, `complete`, `checkpoint`, `retry_or_fail` | worker threads, producers, runs | leases that lapse under a live thread, `retry_or_fail` reads and writes in two transactions, all threads of a process share `worker_id` | closed stays closed; ledger agrees with job; one active job per scope; every job closes |
| Worker, `ai_research_worker.py` | threads of a `gather` round, heartbeat threads | `run`, `stop`, `process_once`, `_heartbeat_loop` | queue, runtime, coordinator | barrier, exceptions that escape end `run()`, heartbeat thread may die | a job is only orphaned by a dead process or an exception that ends `run()` |
| Coordinator, `parallel_research_coordinator.py` | `research_parent_runs`, `research_parent_children` | `create_parent`, `reconcile_parent`, `claim_materialization`, `finish_materialization` | queue, runs, worker tail | creation in many transactions, siblings that end together | one materialiser, final only when complete |
| Runs and runtime, `research_runtime_repository.py`, `agentic_research_runtime.py`, `research_source_gateway.py` | `research_runs`, `research_run_steps`, invocations, sources, claims, evidence | `ensure_run`, `begin_step`, `complete_step`, `record_backend_invocation`, `acquire`, `verify_claims`, `persist_claims`, `checkpoint_run`, `finish_run` | queue transactions write the same row; the model; the web | writes are not fenced by ownership; a crash between any two of a dozen transactions; pages that change | run agrees with job in the end; an answer is paid for once; completed steps are not repeated; claims are backed by what was fetched |
| Migration and reconciliation, `app/infrastructure/persistence/migrations.py` | all tables | `_reconcile_research_run_lifecycle` on every `migrate_database` | runs, jobs | runs concurrently with the worker, relabels failed jobs | closes stranded runs, opens none; relabels a failure once |
| Sync service, `market_context_sync_service.py` | snapshot sections, refresh work, deliveries, consumer state | `request_refresh`, `claim_next`, `complete_refresh_work`, `backoff_refresh_work`, `record_delivery_attempt`, `acknowledge` | refresh worker, outbox, consumers | attach/residual merging, retries, dead letters, out-of-order acknowledgements | requested sections are refreshed; consumer state never goes back |
| Refresh worker, `market_context_sync_refresh_worker.py` | one lease | loop of claim, refresh, save, complete | sync service, snapshots | save and complete are separate transactions | generation covered before completion |
| Outbox, `market_context_outbox_service.py` | delivery rows | dispatch, retry, supersede | sync service, HTTP consumer | lost or late answers, attempt limit | newest target wins, bounded retries |
| Snapshots, `market_context_snapshot_repository.py` | `market_context_snapshots` and revisions | `save`, `save_next` | sync sections, lifecycle | concurrent publishers | revisions strictly increase |
| Datum lifecycle, `event_driven_lifecycle_service.py`, `lifecycle_due_resolver.py` | `datum_lifecycle_items` with leases, the tick's checkpoint | `claim_due`, `upsert`, `transition`, `transition_finalized`, `scan_due_items`, `catch_up_event_calendar` | providers, snapshots, job queue | leases nobody renews, rows written back from a copy, every snapshot projected back onto the rows | given up only late; no row stuck; every released occurrence gets an outcome |
| Forced generation, `force_generation_lease_service.py`, `force_generation_staging_service.py`, `diagnostics_service.py` | a thread and a file lock, a private copy of the database | acquire, copy, seed the copy, `generation_plan`, publish | live database, schedule seeds | publication over rows changed meanwhile, the copy has the lease of a live seed | no lost update; the calendar converges |
| Research scheduler, `research_scheduler_service.py` | seed lease and checkpoints in `provider_state`, coverage ledger | `scan_due_items`, catch-up tick, `_seed_canonical_schedule_gaps`, `_rematerialize_schedule_discovery`, `evaluate` | providers, lifecycle, coverage, snapshots, queue | two seeds after a lapsed lease, dates proven before their rows are stored, lost publications | one live seed; proofs are backed; what providers list is published |
| Provider cache and transport, `parametric_cache.py`, `app/providers/deterministic.py`, `provider_cache_repository.py` | cache entries, circuit, window of the rate limiter and its lock | `resolve`, `request`, `acquire` | providers; coroutines and threads with loops of their own | one `asyncio.Lock` and one list under several loops and OS threads, sleeps that end early, a slow call that overwrites a quick one's entry | limit per window, and after a collision again; nothing older than its grace; every call ends |
| Facts, `market_fact_repository.py`, `temporal_validation_service.py`, `provider_force_actual_reconciliation_service.py` | `economic_events_history`, `market_facts` | `upsert_economic_event`, `audit_economic_events`, `apply_official_event_actual`, `apply_event_research_field`, `prepare`, `persist_actual_reconciliation_in_transaction` | refreshes, workers, forces, snapshots | everybody writes what it read before | a released event keeps its actual, a quarantine holds, what is official is backed by a fact |
| Calendar windows, news, policies, builders, contracts, domain data | their tables | sequential merges and pure functions | snapshots | boundaries of intervals and clocks | agreement with a reference definition |
| API, bootstrap, config, logging, health, diagnostics | none of their own | routing, construction, reports | all | `run()` is started once, unsupervised | - |

`PROJECT.json` lists every component with its status and every hazard at its line.

## 2. Plan

Ordered by how much of the service's own logic depends on interleavings.

1. `ResearchJobs`, `ResearchJobsProofs` - the job queue and its worker. **Done.**
2. `ParentResearch` - composes the queue with runs, children and parents. **Done**,
   invariants proved.
3. `RefreshWork` - the refresh work of the sync service and its worker, as the
   implementation of an abstract set of owed sections. **Done**, invariants and refinement
   proved.
4. `SyncDelivery` - deliveries and acknowledgements, refining a monotone belief about each
   consumer (`ConsumerInventory`). **Done**, refinement proved.
5. `DatumLifecycle`, `CalendarCatchup` - the rows of scheduled occurrences, the scans that
   resolve them and the tick of the calendar's catch-up. **Done**, invariants proved.
6. `ScheduleDiscovery`, `ForcedGeneration` - the seed lease, the coverage ledger, the
   publication of discovered occurrences, and a forced refresh next to them. **Done**,
   invariants proved.
7. `EventFacts` - the writers of a released event and its facts. **Done**, all but the finding
   proved.
8. `ProviderTransport` - cache entry, breaker and limiter of a provider. **Done**, invariants
   proved.
9. `ResearchInvocation` - one research run: the call of the model, the pages, the claims and
   the steps that carry an interrupted attempt over to the next. **Done**, invariants proved.
10. Publishers of single snapshot sections, with the revisions of their components.
11. `evaluate` of the research scheduler with its budgets and triggers; `fetch_safe`.
12. Pure decision functions (market sessions, calendar coverage, retry classification,
    temporal validity) as operators checked against reference definitions over bounded inputs.

Every safety property that a run checks has a theorem (section 6), but the one that finding 1
refutes. What is worth proving next: that `BeginPersist` and `Persist` of
`ParentResearch` are the abstraction of the steps of `ResearchInvocation` (the two modules describe
one runtime at two levels, and agree so far by reading only).

## 3. Modules

### ResearchJobs

`job` holds the rows of `ai_research_jobs`, `tries` the status of each attempt row,
`slot` where every worker thread is inside `process_once` together with the job, attempt
and `retry_or_fail` snapshot it holds, `stopped` the incarnations whose `run()` ended. A
*slot* is one of the `research_parallelism` threads; an *incarnation* is a process with
its own `worker_id`.

| Action | Code |
| --- | --- |
| `Enqueue` | `AIResearchJobRepository.enqueue` |
| `StartWorker`, `NewRound`, `Stop` | `AIResearchWorker.run`, `stop` |
| `RecoverFirst`, `AcquireNext` | the two transactions of `acquire_next` |
| `Heartbeat` | `_heartbeat_loop` with `heartbeat` |
| `BeginJob` | from the commit of `acquire_next` to the `try` block: context, workspace, heartbeat thread |
| `Complete`, `Checkpoint`, `RetryOrFail`, `Raise` | how the `try` block of `process_once` ends |
| `RetryWrite`, `FailWrite` | the writing half of `retry_or_fail` |
| `Handle`, `HandlerRetryOrFail` | the `except` block |
| `EndJob` | return from `process_once` after a job was closed |
| `ProcessRaises`, `TailRaises` (`Escape`) | an exception that nobody catches, before the `try` block, in the `except` block or in its tail: it ends `run()` |
| `RepairProjections` | `_repair_event_projection_failure`, part of every `migrate_database` |
| `RetryDue`, `LeaseExpires`, `Crash` | the clock and the process |

**Exceptions.** Between the commit of `acquire_next` and the `try` block the code reads the job back, emits
telemetry, makes a directory and starts a thread (worker lines 135-257): what raises there, or in
`acquire_next` itself, leaves the thread `raised`, with the job RUNNING if it had one, and ends `run()`. What
raises inside the `try` block is handled (`handling`); what raises in the handler (559, 618, 649, 651), also while
the job is still owned, ends `run()` likewise. `checkpoint` and `retry_or_fail` read the job back after their
commit, so they may raise although they have taken effect (`Return`). The worker's second look at the settings,
lines 150-247, refuses nothing: `acquire_next` has asked with the same settings.

**Repair.** A migration relabels a FAILED job as SUCCEEDED or PARTIAL when its claims were persisted and read
back and its error is the one about a missing `event_key`; the attempt row keeps the failure. `Misprojected` are
the jobs with that error. The present build words the error differently (worker 783), so such rows come from
earlier builds; the repair is run against every database all the same.

Abstractions: time is reduced to whether a lease is live and a retry due; a lease may lapse
at any moment because the heartbeat thread dies on its first SQLite error. Settings
(agent enablement, execution authorisation) are the constant `Allowed` per incarnation,
capability reports the constant `Capable`. Priorities are the order of the job numbers. A
request is enqueued once; idempotency keys and requeue of terminal generations are other
requests of the same `Scope`. `CANCELLED`, which no code path assigns, is left out, and so is
`source_audit_status`.

### ParentResearch

Extends `ResearchJobs` with `run` (status of `research_runs`), `steps` (PERSIST and
READ_BACK completed), `child` and `parent` rows, `creator` (where `create_parent` is) and
`tail` (where a thread is inside the runtime or after the job closed). Every transaction of
the queue is conjoined with what it writes to the linked run (`ActiveRunsFollow`,
`RunsFollow`, `RetriedRunFollows`); the runtime (`OpenRun` ... `CheckpointRun`), the
coordinator (`CreateParent` ... `LinkChild`, `ReconcileParent`, `ClaimMaterialization`,
`Materialise`) and the startup reconciliation (`ReconcileRuns`) are actions of their own. `ReconcileRuns` is one
migration: it repairs misprojected jobs whose run has PERSIST and READ_BACK completed, and sets every run
that disagrees with its job.

Abstractions: one parent; the counts that `_verified_child_status` compares are taken to be
consistent, as `persist_claims` writes them in one transaction; six planning and search
steps are one `BeginStep`; the read of the parent that follows the commit of
`reconcile_parent` belongs to it.

### RefreshWork, OwedRefresh

The refresh work of one symbol. `snapshots` records for every revision the row it was saved
for, `work` is `market_context_sync_refresh_work`, `waiter` is
`market_context_sync_waiters`, `client` the manifest a call of `request_refresh` has read
before its transaction, `runner` where `run_once` of each process is, and `disturbed` counts
what goes wrong.

| Action | Code |
| --- | --- |
| `ReadManifest`, `Submit` | `request_refresh` before and inside its transaction: attach (`Join`) or insert (`Queue`) |
| `Claim` | `claim_next_refresh_work`, with the reclaim of expired and due rows |
| `Refreshed`, `Save`, `Complete`, `Fail` | the body of `run_once`: preflight and transaction of `save_next`, `complete_refresh_work`, the `except` block |
| `Heartbeat`, `HeartbeatFails` | `_LeaseHeartbeat` |
| `RefreshFails`, `Crash`, `LeaseExpires`, `BackoffDue` | runtime errors, the process, the clock |
| `OtherPublish` | `save_next` of other publishers |

`OwedRefresh` is what the endpoint promises: an accepted request is owed until it is answered
with the revision of a snapshot, once. `ImplementsOwed` maps `owed` to the requests whose row
is not COMPLETED and `answer` to `target_snapshot_revision` of that row.

Abstractions: a refresh publishes a whole snapshot, so the check for missing sections always
holds; a lease is live or expired, a retry due or not; payload validation and request
fingerprints are left out; what a manifest shows available is the environment's choice.

### SyncDelivery, ConsumerInventory

`revision`, `target`, `notified`, `acks` and `state` are the producer's tables; `inbox`,
`copy` and `sync` are a consumer that follows
`docs/ai-trader-market-context-sync-handoff.md`, which is not part of this repository and is
mapped as external; `ever` is a history variable. Contents are revisions: `Changed[r]` are
the sections whose material changed with snapshot `r`, and a section's revision counts those.
`Withheld[r]` are the sections that are quarantined, degraded, partial, stale or unavailable in snapshot `r`
and therefore no part of a plan (`market_context_sync_service.py:1338`); news are DEGRADED when some of their
records are (3076-3086).

| Action | Code |
| --- | --- |
| `Publish` | `save_next` with sections and outbox event |
| `RecordAttempt` | `record_delivery_attempt`, called by a notifier outside the source |
| `Ack` (`AcceptAck`) | `acknowledge`; the consumer sends it at any time after its commit |
| `Plan`, `Fetch`, `FetchFull` | `plan`, `sections` with `_news_delivery_for_consumer` (`NewsBase`), `full` |
| `Receive`, `Save`, `LoseCopy` | the consumer |

`ConsumerInventory` says what the producer may believe: for each section a revision the
consumer has committed at some time, never older than what it believed before.

Abstractions: one outbox event per snapshot; checksums and clocks are right, so the
rejections for them are left out; the retry counters and the `last_delivery_created` and
`last_delivery_notified` columns, which no decision reads, are left out; news is the only
section that is delivered as a delta.

### DatumLifecycle, CalendarCatchup

`row` is `datum_lifecycle_items` for scheduled occurrences, `scan` is where each owner is
inside `scan_due_items` with the copies it claimed, `snapshot` the actuals of the latest
components, `feed` and `phase` the provider and the clock; `tick` and `checkpoint` are the
catch-up. `DatumLifecycle` defines the rows and the scans, `CalendarCatchup` composes one
scanner that runs inside the tick with those that run beside it, and states the
specification.

| Action | Code |
| --- | --- |
| `Claim` | `claim_due` |
| `Resolve` (`ResolveCommitted`, `ResolveActual`, `ResolveNothing`, `ResolveFails`) | `LifecycleDueResolver.resolve` of one claimed item, in the loop of `scan_due_items` |
| `WriteBack` | the `upsert` after a miss or a temporary failure |
| `EndOfItems`, `Project`, `Flush`, `Save` | the coalesced results: comparison with the consumer's context, rows alone, or `save_next` with `project_snapshot` |
| `Finish` | AI jobs, then `transition` and `transition_finalized` of the residuals |
| `TickStart`, `TickScan`, `TickStep`, `TickEnd` | `catch_up_event_calendar` up to its checkpoint |
| `OtherRead`, `OtherSave` | the pipelines that read the components and publish them later |
| `Release`, `Deadline`, `FallDue`, `LeaseExpires`, `Publish` | clock and provider |
| `Crash`, `Abort`, `CatchupFails` | the process, and an exception of a scan |

Abstractions: a time is null, ahead, or passed, with those that passed during the running tick
told apart (`new`), because the tick's own clock stands still; the policy that admits an
official actual has admitted it; AI jobs that a scan enqueues are the queue's business
(`ResearchJobs`), so QUEUED is an outcome here; other entity types, which have their own
schedules, share the code of `claim_due` and `upsert` and are left out.

### ScheduleDiscovery, ForcedGeneration

`history`, `coverage`, `calendar`, `lifecycle` and `lease` are the tables, `seed` where each
process is inside `_seed_canonical_schedule_gaps` with what it found, `source` what the
providers list, `preflight` the publishers whose revision is still free. `ForcedGeneration`
adds `lock` and `force`: a request with `refresh=force`, its private copy and its plan.

| Action | Code |
| --- | --- |
| `SeedStart`, `SeedLook`, `SeedClose` | `_acquire_schedule_seed_lease`, `missing_dates`, `_complete_schedule_seed_lease` |
| `AskTarget`, `AskedAll`, `RecordUnavailable` | the loop over coverage targets and its failures |
| `WriteEvent`, `RecordDay` | `upsert_economic_event` one by one, then `record_day` one by one |
| `Rematerialize`, `SeedPreflight`, `SeedSave` | `_rematerialize_schedule_discovery`, the two halves of `save_next` |
| `ForceStart`, `ForceTimesOut`, `ForceSeed` | the lease, the copy, the wait for a live seed's lease in the copy, the seed of the copy |
| `ForcePlan`, `ForcePreflight`, `ForceSave` | `generation_plan`, the fixed point, the transaction of the snapshot with the plan's rows |
| `Revise`, `Withdraw`, `TimePasses`, `BackoffEnds`, `LeaseLapses` | providers and clock |
| `SeedFails`, `SeedDies`, `ForceFails`, `OtherRead`, `OtherSave` | exceptions, death, other publishers |

Abstractions: an occurrence is its edition, 0 for unknown; a date is due or not; the seed of the
copy, which nobody else sees, is one step, with time passing for the rows of the copy as for those
it was copied from; the bundle of a force carries the calendar only. Without a date that is due
`_seed_canonical_schedule_gaps` runs without the lease, at the same instant, asks nobody and returns
before it would publish (`research_scheduler_service.py:1487-1498`): no step. Quarantined rows
(1963-1967) count as not found and their date as not proven, which `WriteEvent` and `RecordDay`
leave open for every occurrence and date.

### EventFacts

One release: `row` in `economic_events_history`, `fact` the facts of official answers, of
forces and of research, and what every actor holds between reading and writing (`pass`, `job`,
`force`).

| Action | Code |
| --- | --- |
| `Fetch`, `Load`, `Upsert` | a provider's listing, or `load_from_history` with the enrichment of secondary calendars, and `upsert_economic_event` |
| `ReadRecords`, `Audit` | the materializer's records and `audit_economic_events` |
| `Answer`, `ApplyActual` | a RELEASE_ACTUAL answer and `apply_official_event_actual` |
| `ApplyField`, `ReadBack`, `StoreFact` | `apply_event_research_field`, the row read back, the research fact |
| `MarkUnavailable` | `mark_event_actual_unavailable` |
| `Prepare`, `Reconcile`, `Abandon` | the reconciliation of a force and `persist_actual_reconciliation_in_transaction` |

Every payload brings a release time of its own, a date without a time being `None`, and an upsert takes it
(`time_utc=excluded.time_utc`, `release_at=excluded.release_at`); the status is computed from it and the clock,
`now`, which moves over the times there are.

Abstractions: forecast, consensus and previous values, which follow the same `COALESCE` as the
actual, are left out; verdicts of the temporal and source policies are the environment's choice; a
payload that is marked as quarantined itself does not reach the upsert. `SameKey` says whether the
occurrence id under which a force files its fact is the canonical key of the row; both occur.

### ProviderTransport

`entry` is one entry of `ParametricProviderCache`, `breaker`, `stamps` and `lock` are the
client's circuit, the list and the `asyncio.Lock` of its limiter, `call` is where every caller is, with what it has
read. Time is counted in ticks of the wall clock that stamps requests. `sent`, `early` and `overlap` are
history: the requests of the last window, those that a `pop(0)` made room for, and when two callers
were last at work on the list at once.

| Action | Code |
| --- | --- |
| `Begin` | `resolve` up to the loader: a hit, or a call with the stale value it may fall back to |
| `Check`, `Resets`, `Counts`, `Failed` | the circuit: `check`, its recovery, `failed` as a read and a write |
| `Asks`, `Joins`, `Resume`, `Takes`, `Releases` | `asyncio.Lock`: the look at it, the queue of waiters, a waiter woken, the flag set, `release` |
| `Reads`, `Stores`, `Decides`, `Wakes`, `Adds` | `acquire` under the lock: the comprehension, the list replaced, full or not, the end of the sleep, the stamp |
| `Succeeds`, `RetryLater`, `GivesUp`, `Refused`, `Escapes` | the answers `request` and the adapter tell apart, and what `resolve` stores; exceptions that nobody classifies |
| `LoopCloses` | `asyncio.run` of a thread returns |

A coroutine of the server runs on until it awaits (`Turn`). A thread (`enrich_market_context_sync`) is
interleaved with everybody between any two of these steps: two callers can find the lock free, be inside `acquire`
together, and store lists that lack each other's stamps; who releases a lock that is already free gets
`RuntimeError`. `asyncio.Lock` is external: it binds to the loop of its first waiter, another loop's waiter gets
`RuntimeError`, and a release from another loop does not wake the waiter. A sleep may end at any time, because it is
measured by the loop's monotonic clock and the stamps by the wall clock, so the branch of the code that pops
the oldest stamp is taken.

Abstractions: the wall clock does not step back; `Decides` looks at the list once; the two fields of the circuit
change together; the pause before a retry has any length.

### ResearchInvocation

One run, as `_run_single_invocation` executes it (the default, production path). `step` is
`research_run_steps` with the output of EXTRACT in `extracted`, `calls`
`research_backend_invocations`, `sources` `research_sources` (of a row: the content fetched, or
that it was rejected), `claims` what is accepted of `research_claims` with its evidence. `job` and
`owner` are what the queue knows, `thread` is where each worker thread is with what it holds in
memory, `page` what the web answers at the moment. A claim says one of `Contents` about a page and
matches a content that is the same; a hash is the content it is the hash of.

| Action | Code |
| --- | --- |
| `Acquire` | `process_once`: `acquire_next` gives a thread the job |
| `BeginCall` | `begin_step` of PLAN and of SEARCH |
| `Reuse`, `Call` | the latest invocation, used again or begun: `begin_backend_invocation` |
| `Answered`, `CompleteCall` | `record_backend_invocation`, then PLAN and SEARCH completed one by one |
| `BackendFails`, `FailPlan`, `FailSearch` | the backend raises: `abort_backend_invocation`, `fail_step` of those this thread began |
| `AnswerUnusable` | an answer that cannot be normalised, or whose tool events exceed a budget or loop |
| `BeginOpen`, `Look`, `Fetch`, `CompleteOpen` | OPEN_SOURCE: `acquire` of one request after the other, a known one or a fetch that `persist_research_source` stores |
| `BeginExtract`, `Verify`, `CompleteExtract` | EXTRACT: `verify_claims` with `match_evidence`, or the stored output |
| `BeginPersist`, `ReadSources`, `Persist`, `PersistFails` | PERSIST: `persist_claims` before and inside its transaction, and its failure |
| `BeginReadBack`, `ReadBack`, `Return` | READ_BACK, and what the worker does with the result |
| `Checkpoint`, `TimesOut` | the four looks at the deadline |
| `Stops`, `Lapse`, `Change` | death or an exception anywhere, a lease that lapses under a thread that goes on, the web |

Abstractions: CROSS_CHECK and VALIDATE, whose outputs no later phase reads, are left out. A
completed job is `SUCCEEDED` whatever the status of the result is, NO_DATA included; the status of the run
is the business of `ParentResearch`, attempts and back-off that of `ResearchJobs`. Budgets and loop
guard occur as the errors they raise. A URL has one row: aliases by redirect or canonical link are
left out, and so are `verification_status`, the counters, and the tiers, freshness and numbers of
confirmations a policy may ask for on top. `verify_claims` is one step though it looks every
source up on its own. A claim of a second thread keeps the evidence of the first when both matched
the same fetch, and is a claim of its own otherwise, since its payload names the time of the fetch:
`Persist` allows either. A deadline may meet an attempt at any look, also one that has stored nothing new:
before OPEN_SOURCE and PERSIST the code continues all the same (`Checkpoint`). `Leaves` fences by thread; what the
shared `worker_id` does to that is in `ResearchJobs`.

## 4. Runs

| Run | Question | Result |
| --- | --- | --- |
| `ResearchJobs` | two incarnations, one thread each, two jobs of one scope, one disabled in the second incarnation, `max_attempts` 2, cap 3: ledger, attempt limit, fences, finality up to the repair of one job, one active job at a time, and does every accepted job close? | holds |
| `ParentResearch` | two children, two threads with one `worker_id`: one materialiser, stored once, no failed child behind SUCCEEDED, a job is orphaned only by a dead process or an exception that ends `run()` | holds |
| `ParentResearchRetry` | one child handed over between two incarnations: do runs of closed jobs close for good? | holds |
| `RefreshWork` | three requests that overlap, two processes, one disturbance: coverage of attached requests, single flight, fenced results, refinement of `OwedRefresh` | holds |
| `RefreshWorkLiveness` | is every accepted request answered, with two disturbances? | holds |
| `SyncDelivery` | four snapshots, two of them with degraded news, attempts and ACKs in any order, a lost copy; a consumer that plans with the news or without: bookkeeping, final and earned ACKs, deltas that apply to the copy that is current in the news, refinement of `ConsumerInventory` | holds |
| `CalendarCatchup` | a scheduled scan beside the catch-up on one occurrence with a revision, a gap and temporary failures, two disturbances: given up late, never left PARTIAL, and every released occurrence gets an outcome or has lost its event | holds |
| `ForcedGeneration` | two processes that seed, a force, one disturbance: one live seed, no date proven before its occurrences, everything listed is published in the end | holds |
| `EventFacts` | two refreshers, two workers, a force and audits, payloads with two release times or none: a released event keeps its actual and is open again only by another time, a quarantine holds, what is official is backed by a fact | holds |
| `EventOverwrite` | does an official actual stand against discordant candidates, as documented? | violated, finding 1 |
| `ProviderTransport` | two coroutines and a thread on one entry and one limiter: the limit up to sleeps that end early, in every window without a collision, nothing older than its grace | holds |
| `ResearchInvocation` | two threads on one run about two pages, one disturbance, deadlines at any time: claims are backed, the result is exact, the answer is asked for once, completed steps stay, the research ends | holds |

Further instances, beside the runs `PROJECT.json` lists, are kept for a closer look:

| Instance | Question | Result |
| --- | --- | --- |
| `ResearchJobsLoop` | two jobs of their own scopes, and failures of the loop guard: types, ledger, attempt limit, fences, finality | holds |
| `ResearchJobsAttempts` | is the current attempt terminal after a transient failure? | violated, finding 2 |
| `ParentResearchRuns` | types; does the run carry the status of its closed job? | violated, finding 3 |
| `ParentResearchFinal` | has a final parent counted all its children? | violated, finding 4 |
| `RefreshWorkMaterial` | does material work that arrives during a refresh get a newer snapshot? | violated, finding 5 |
| `SyncDeliveryDegraded` | does every news delta apply for a consumer that always asks for everything? | violated, finding 6 |
| `CalendarTemporary` | does every released occurrence get an outcome, with a temporary provider failure? | violated, finding 7 |
| `CalendarCompleted` | does COMPLETED say that the retries that were ahead are done? | violated, finding 8 |
| `CalendarBatch` | two rows in batches of one: given up late, never left PARTIAL | holds |
| `DiscoveryRemoval` | is an occurrence marked as removed only after its provider was asked? | violated, finding 9 |
| `ForcedHistory` | does a force leave newer rows alone? | violated, finding 10 |
| `ProviderKnownGood` | does last-known-good data outlive failures? | violated, finding 11 |
| `ProviderOneLoop` | coroutines only: does every call end? | holds |
| `ProviderTwoLoops` | a coroutine and a thread: does every call end? | violated, finding 12 |
| `ResearchInterrupted` | as `ResearchInvocation`, with types: one thread, any answer about two pages, two disturbances | holds |
| `ResearchOverlap` | has evidence the hash of the content its claim was matched with, when two threads overlap? | violated, finding 13 |

**Bounds.** Two jobs and two threads suffice for every conflict these tables allow: they are between
two holders of one job, or two jobs of one scope or parent. `AttemptCap` bounds the attempts; in the
last attempt the environment leaves the thread alone (`Disturbable`, the guards of `LeaseExpires`
and `Checkpoint`), so that runs end. `MaxAttempts` 2 with cap 3 includes an ordinary retry,
exhaustion, and a continuation beyond it. In the parent runs `MaxAttempts` is 1 with two jobs and 2
with one: children interact only through the parent, retries only through their own run. In
`RefreshWork` every request adds at most one row, and `Disturbances` bounds failures, crashes,
lapses of attended leases and foreign snapshots together; how many rows and snapshots there can be
follows from the two (`Frugal`, a part of `TypeOK`), and no other bound blocks an action. Two
requests for the same section and one for more, in every order, reach each branch of attaching,
splitting off and queueing; a result that a generation refuses needs no disturbance. In
`SyncDelivery` two of four snapshots are delivered, so that an ACK can be late, current or ahead,
and the news change in one snapshot that withholds them and in one that does not;
`MaxDeliveryAttempts` is 2 instead of 8 and `AttemptBound` one more, so that a dead letter can still
be attempted. In `CalendarCatchup` one occurrence suffices: rows meet only in the batches of a scan,
in snapshots, which treat each alike, and in the counts of the tick, for which `CalendarBatch` and
`CalendarCompleted` have two; two actuals are the first and a revision. In `ForcedGeneration` one
cell with one occurrence has every order of recording and proving, two processes every order of
leases, and `DiscoveryRemoval` and `ForcedHistory` use two dates. In `EventFacts` two values tell a
discordant actual from the official one, two refreshers and two workers are a reader and a writer of
each kind in between, two times are a release and its postponement, and six rounds allow each of
them a turn and one a second. `ProviderTransport` has a limit of one in a window of two ticks and
three callers, so that one waits while another sleeps with the lock and a third gets past it;
`MaxCalls` bounds calls and retries together; failures open the circuit at two and it recovers after
one. In `ResearchInvocation` two pages tell a claim that matches from one that does not and let a
deadline fall between two fetches; two threads are a holder of the job and one that lost it;
`Disturbances` bounds crashes, errors, lost leases and changes of a page together, deadlines need
none. Deadlock is not checked where the bounds let the environment run out of steps and a stopped
worker is a legal end.

**Fairness.** `WF` of every thread's next step (an execution ends by its watchdog, at most 600 s),
of starting a worker and of a new round (the `run()` loop), of due times, and of the lapse of a
lease only when no thread attends to the job (then nobody renews it). Heartbeats, crashes, errors
and producers have none. In `RefreshWork` the claim and every step of a run are fair (`app/main.py`
starts the job every interval, and a run ends by its timeouts), as are due retries and the lapse of
a lease that nobody renews. In `ParentFairSpec` only `ReconcileRuns` is fair: `migrate_database`
runs at every start and whenever a repository is constructed for a request or a scheduler tick. In
`CalendarCatchup` the loops that tick and scan are fair, as are their steps, which end by the
providers' timeouts, the clock, and the lapse of a lease nobody attends to; a row that is due again
and again is claimed in the end (`SF`), because claims are ordered by impact and due time and a tick
claims far more than falls due meanwhile. Providers may never publish. In `ForcedGeneration` the
loop that seeds, the steps of a seed and of a force, and the clock are fair; no force has to come.
In `ProviderTransport` requests and sleeps end, and the server's loop runs its ready coroutines;
that a thread's loop wakes for the lock is not assumed, since nothing wakes it. In
`ResearchInvocation` workers poll for the job and a thread goes on, as the watchdog bounds a call
and timeouts bound a fetch; crashes and errors have no fairness, nor have deadlines, but
`Productive` assumes that from some time on a deadline meets no attempt that has stored nothing new.
The code does not enforce that; its windows (minutes) and the time that skipping completed steps
takes (milliseconds) make it so. `EveryJobCloses` excepts the case that `run()` ended everywhere:
nothing restarts it (`app/main.py` creates the task once).

## 5. Findings

`PROJECT.json` quotes the text that the first one contradicts. The others are what the further
instances show.

1. `EventOverwrite`: a refresh that loaded the event before its official actual came writes the
   actual of an aggregator over it (`upsert_economic_event` takes any new value); the row keeps its
   official source and surprise. `README.md:134` of the repository says that discordant candidates
   never overwrite an official actual. `SurpriseIsOfficial` states what holds.
2. `ResearchJobsAttempts`: `retry_or_fail` decides on an unlocked read and is fenced by a
   `worker_id` that the threads of a process share; a thread that lost its job reschedules
   the attempt of its sibling, whose attempt row stays RUNNING.
3. `ParentResearchRuns`: recording MATERIALIZE and COMPLETE reopens the run of a closed job;
   a sibling that reconciles then counts the child as FAILED and the parent as PARTIAL.
4. `ParentResearchFinal`: a parent is finalised over the children linked so far.
5. `RefreshWorkMaterial`: a material request attaches to a running row with the same reason and
   sections, although that refresh may have read its inputs, or even saved, before the trigger
   (`docs/market-context-sync-contract.md:338`).
6. `SyncDeliveryDegraded`: `news_record_delta` promises "a lossless record delta". The base of the
   delta is the snapshot of the last ACK, even when that ACK was for other sections or when the news
   of that snapshot were not offered. The consumer takes everything of snapshot 1; the news of 2 are
   degraded, so no plan fetches them; it takes the other section of 3, whose news are degraded
   still, and acknowledges 3; the news of 4 are available, and the delta starts from those of 3,
   without the records of 2. The inventory that `acknowledge` maintains has the right revision and
   is not consulted. `DeltaIsLossless` says whom the delta serves: a consumer whose copy has the
   news of the snapshot it was last synchronised with.
7. `CalendarTemporary`: after a temporary provider failure `_temporary_failure` writes a payload
   back that is only its reason, with `event_at` NULL; the occurrence is no longer resolvable and, with no
   deadline, retried for ever (`docs/forensics-snapshot83-contract-closure-20260724.md:101`
   promises the next window). A later snapshot restores it; `ReachesOutcomeOrLost` states what
   holds without one.
8. `CalendarCompleted`: a snapshot saved inside the tick projects rows in BACKOFF back to READY
   with a retry after the tick's clock; neither count of the tick sees them and the checkpoint says
   COMPLETED (`docs/three-week-event-calendar-contract.md:114-119`).
9. `DiscoveryRemoval`: occurrences of any proven date that this seed did not find are marked,
   also on dates it did not ask about (`docs/three-week-event-calendar-contract.md:246`).
10. `ForcedHistory`: `generation_plan` compares the copy with the live tables of now, so a row that
    was written after the copy differs and is put back; the docstring at
    `force_generation_staging_service.py:47-53` and
    `docs/forensics-pr27-live-final-blockers-20260727.md:587` speak of the force's own changes.
    `Discovery` holds all the same: dates are looked at again.
11. `ProviderKnownGood`: a terminal failure stores an empty negative entry over one that is within
    its grace (`docs/architecture.md:31`).
12. `ProviderTwoLoops`: the limiter's lock is shared by loops; a thread that waits while a coroutine
    sleeps with it is never woken, and from then on coroutines that would have to wait fail.
13. `ResearchOverlap`: `persist_claims` looks the content hash of a source up when it stores the
    evidence (`research_runtime_repository.py:1185`), and `persist_research_source` overwrites a row
    (`research_runtime_repository.py:693`). When a page changes and a thread that lost the job
    fetches it once more, its successor stores the hash of a content its claim was never matched
    with (`docs/persistent-ai-and-temporal-architecture.md:30`). `ClaimIsBacked` states what holds;
    with one thread at a time `ResultIsExact` includes the hash.

Smaller disagreements between documents and code, and observations, are modelled as the code does and
have no instance of their own:

- Recovery schedules an exhausted continuation again, although
  `docs/persistent-ai-and-temporal-architecture.md:20` says exhausted jobs become FAILED;
  `ExhaustedOnlyContinues` states what holds instead.
- Saving a snapshot and completing its work row are two transactions (`run_once`), although
  `docs/market-context-sync-contract.md:336` puts them in one, so a row can publish twice.
  The same gap shows without any failure: generations are numbered ahead of revisions, so with
  two processes a row may publish a revision below its generation and is refused when the
  snapshot is already committed. `QueuedServedByNewer` and `EveryRequestServed` hold all the same.
- `acknowledge` accepts dead letters, none of whose attempts need have been recorded as
  NOTIFIED, although `docs/market-context-sync-contract.md:424` asks for a notified target;
  `AckIsEarned` states what holds instead.
- A force that copies the lease of a live seed waits for it in its copy, where it never changes, and
  always times out (`ForceTimesOut`).
- A research fact stored after a concurrent quarantine is ACTIVE; `audit_economic_events` hides the row
  and not its facts; the fact of a force, filed under the occurrence id, may escape the quarantine by
  canonical key. `QuarantineHolds` is about the row, which readers of events use.
- A reconciliation that found nothing sets the status column of a row that was released meanwhile back to
  AWAITING_ACTUAL, and ACTUAL_UNAVAILABLE sticks though an actual arrives: readers compute the
  status again (`Shown`).
- The limit of requests is not kept strictly (`LimitIsKept` of `ProviderTransport`, which TLC refutes): a thread and
  a coroutine inside `acquire` at once lose each other's stamps, and a sleep that ends early sends one more.
- A released event is not released for good (`ReleasedStaysReleased` of `EventFacts`, which TLC refutes): a
  refresh with a stale, later time or with a date only makes readers compute PRE_RELEASE until its time has passed.
- An exception after the commit of `acquire_next`, or in the `except` block of `process_once`, ends
  `run()` and leaves its job RUNNING with a live lease while the process stays up; only another
  incarnation takes it up.
- The circuit is checked before the wait for the limiter, so requests that waited go out to a provider whose
  circuit has opened meanwhile.

## 6. Proofs

`ResearchJobsProofs` proves, for any jobs, incarnations, threads and bounds that satisfy the
named assumptions of `ResearchJobs`:

- `TypeInvariance`, `TypeCorrect`: `Spec => []TypeOK`. `TypeOK` alone is not inductive: a
  step of a busy thread reads `job[slot[s].job]` and the attempt it was handed, so the
  invariant `TypeInv` adds that a busy thread holds a job in an attempt numbered from 1, and
  that a thread about to write a failure knows which one. There is one lemma per group of
  actions and one for each row constructor.
- `TerminalIsFinalThm`: finality of closed jobs, from the lemma `StatusFlow`, which says of
  every step that it changes the status of active jobs only, or relabels a failure that the migration may repair.
- `OneActivePerScopeThm`: one active job per scope. The invariant is inductive once it is
  known that only `Enqueue` makes an inactive job active, which is `StatusFlow` again.
- `OrphanedOnlyByExitThm`: a RUNNING row that no thread works on is one that a dead process left, or
  the thread whose exception ended `run()`, for any number of threads with one `worker_id`. From
  here on the proofs do not look at actions: `StepShape` says once what a step may do to the rows
  and to each thread (`Shaped`: a thread stays, parks, moves, takes a job, closes it, or is left by
  an exception; a row may be relabelled), and each invariant is shown to survive every shape.
- `FencedThm`, and from it `LedgerAgreesThm`, `ExhaustedOnlyContinuesThm`, `ClosedByLatestThm`. The
  invariant `Fenced` has one part per job (`RowOK`: the latest attempt is open exactly while the job
  is RUNNING), one per thread (`ThreadOK`: its attempt is never ahead of the job's, and is the open
  one only if the lease is its own) and one for pairs (`Apart`: no attempt is handed out twice).
  These four are about behaviours in which siblings stay apart, `Spec /\ []SiblingsApart =>
  []Fenced`: no two threads of an incarnation are busy with one job. Any number of threads may share
  a `worker_id`, as with the default `research_parallelism` of 4 (`src/app/core/config.py:447`); to
  bring two of them together in one job it takes a lease that ran out under a live thread and a
  sibling that picks the job up. Then the four do fail, since the late thread passes for the owner
  (finding 2), so the condition cannot be dropped. `FencedAlone`: with one thread per incarnation,
  as in the runs, it holds by itself and nothing is assumed.
- `AttemptsLedThm`: what is left of the fences without that condition. For any number of threads that share a
  `worker_id`, a RUNNING job still has its latest attempt open and no later one begun, no attempt is handed to
  two threads, and none is ahead of its job (`AttemptsLed`, inductive with the types). What is lost is the other
  direction of `LedgerAgrees`: TLC finds a late thread that closes the job with an older attempt, and the latest
  one then stays RUNNING after its job, or beside a newer one.

Its second half is about `ParentResearch`, with the same assumptions and finitely many jobs
(`ManifestAssumption`: the parent counts them):

- `ParentFollowsQueue`: `ParentSpec => Spec`. Every step of the composition is a step of the queue
  or leaves it alone: a tail that raises is `TailRaises`, a migration that repairs is
  `RepairProjections`. So what is proved about the queue holds of the whole:
  `ParentOrphanedOnlyByExit`, `ParentTerminalIsFinal`, `ParentAttemptsLed`, and `ParentFenced`
  (again while siblings stay apart).
- `ParentInvariance`, `ParentTypeCorrect`: the tables of runs, children and the parent have their types.
  They copy statuses out of the queue's rows, so the invariant needs that a thread is in a stage of the
  runtime exactly while the queue counts it as working (`TailsMatch`), and that what threads,
  child rows and the creator name has been enqueued (`Grounded`).
- `OneMaterialiserThm`, inductive with the types; `StoredOnceThm`; `SucceededIsEarnedThm`. For the last, a
  reconciliation that says SUCCEEDED with every topic counted has counted a subset of the jobs
  as large as their set, so all of them, and a finished job stays as it is.

`RefreshWorkProofs` proves, for any finite set of requests, any runners (infinitely many too) and any number of
disturbances, from `RequestAssumption`, `RunnerAssumption` and `BoundAssumption`:

- `TypeOKThm`. `TypeOK` says more than types: overlapping requests and failures do not multiply rows and
  snapshots (`Frugal`). Rows are bounded because each is awaited by a request of its own (`Awaited`); snapshots
  by an account that a step never overdraws (`Account`): a snapshot is paid for by the row it completes, by a
  disturbance, or by the lead a refused generation takes.
- `WaiterCoveredThm`: what a request asked for is among the sections of the row it waits for, with the
  lists of rows it was merged with.
- `QueuedServedByNewerThm`: who was attached before a row ran gets a snapshot newer than the one it
  had been shown. The strengthening is `SavedNewer`, about the owner between its snapshot and its completion, and
  `ClientsKnown`.
- `OwnedInputsFrozenThm`: the owner of a row works on the sections and reasons the row has.
- `ImplementsOwedThm`: the refinement of `OwedRefresh`, with `Answered` (a row is completed exactly when it
  has a result) to map every completion to the abstract answer.

`SyncDeliveryProofs` proves, for any consumers, sections, snapshots, triggers and limits that
satisfy the named assumptions of `SyncDelivery`:

- `DeliveryTypeCorrect`: `Spec => []TypeOK`, including that a target that waits for a retry has
  attempts left. Revisions stay in bounds because `SectionRevision` counts a subset of the
  snapshots (`SectionRevisionType`).
- `DeliveryRefinesInventory`: `Spec => ImplementsInventory`. The invariant is `Beliefs`: what
  the consumer holds, and what the producer believes, is bounded by what was ever committed.
  It is needed because the producer reads only its own tables: that an ACK teaches it nothing
  wrong (`AckAcknowledges`) rests on the consumer having committed the delivery before. `Save`
  maps to `Persist`, `Ack` to `Acknowledge`, and every other step to a stutter.
- `AcknowledgedIsFinalThm`, from the row lemmas of the two actions that write targets.
- `AckIsEarnedThm`. `AckIsEarned` is not inductive; `Grounds` adds that NOTIFIED rows have a
  recorded attempt and dead letters no attempts left.
- `PendingAgreesThm`: the stored count of pending deliveries agrees with the target rows.
- `DeltaIsLosslessThm`: a delta never starts after the news of a consumer whose copy has those of
  the snapshot it was synchronised with, for any profiles and any degraded sections. The
  strengthening is `NewsFollowed`: no ACK is ahead of the snapshot of the copy, so no delta starts
  after it, through lost copies and plans under way. Without the condition it is false (finding 6).
- `AckBindingThm`: the base of deltas is the newest delivery that was acknowledged, and the inventory has
  the sections of that one.

These proofs assume of the consumer what the handoff document demands: it acknowledges after
its commit (`Persisted`).

`CalendarCatchupProofs`, for any occurrences, scanners and batch sizes:

- `TypeCorrect`, with the agreement of status, owner and lease of every row.
- `GivenUpLate`: `Spec => []GivesUpLate`. A scan writes NO_DATA from the set `spent` it filled some
  transactions earlier, and `WriteBack` from the copy it claimed; the strengthening `SpentLate` says
  that what is spent is past its deadline, which never returns.
- `PartialFinished`: the strengthening (`ScanOK`, `Finisher`) follows a partial result from `Deliver` to
  the `Finish` of its scan: the row is PARTIAL only from the write of the result on, no other scan claims it,
  and the scan that wrote it has it among its residuals.

`ForcedGenerationProofs`, for any targets, dates, occurrences, processes and requests:

- `TypeCorrect`; `FlightIsSingle`, whose invariant is `SingleFlight` itself with the types.
- `ProofIsBacked`. The strengthening says that a seed past its occurrences has recorded what it found
  (`SeedWrote`), that the same holds of a force's private copy (`CopyBacked`), and that the plan of a
  force leaves out nothing its proofs need, since what is recorded never becomes unrecorded (`Grows`).

`EventFactsProofs`, for any values, refreshers, workers and any number of rounds:

- `TypeInvariance`, `EventTypeCorrect`: an actor holds what it read of a row that existed (`Held`).
- `SurpriseIsOfficialThm`; `ReleasedReopensByTimeOnlyThm` and `QuarantineHoldsThm` as properties of
  steps, from `Grows`: a row, once there, stays, a released row keeps an actual, and the two marks
  that hide it are never taken away.

`ResearchInvocationProofs`, for any threads, pages, contents, answers and number of disturbances:

- `TypeCorrect`. `TypeOK` is split in what is stored (`Stores`) and what a thread holds (`Threaded`), with
  one lemma for the steps that move one thread (`Advances`) and one per kind of write.
- `ClaimsBacked`. What a thread or the output of EXTRACT holds as verified was matched with a row of
  `research_sources`, and every row was fetched (`Backed`, `Drafts`); that rows are overwritten does no harm,
  because what was fetched stays fetched. No hypothesis on threads is needed.
- `ResultsExact`: a job that succeeded has stored the claims of its latest answer that the fetched pages
  bear out, no more and no fewer. The invariant `Exact` follows the answer through the phases: what a completed
  step says of the tables (`Ordered`) and what a thread holds in each phase (`Precise`). It too holds
  while no thread lost the lease and went on.
- `CompletedStepsStay`, `AnswersKept`. Nothing fences the writers of steps, so both hold only while no thread
  lost the lease and went on. The invariant (`Alone`) says that until then a busy thread has the lease, that what
  it was told to execute is not completed, that PLAN is begun before SEARCH, that the call it is in is the last
  one, and that a completed SEARCH has an answer in the last call (`Good`, `Searched`).

`ProviderTransportProofs`, for any callers, event loops, limit, window, attempts, times to live and grace:

- `TransportTypeCorrect`.
- `RateHoldsThm`. The list of the limiter is not the list of requests sent: a caller holds a list it
  has read, `acquire` forgets stamps, drops one by `pop(0)` after a sleep that ended early, and
  loses those of another thread. The invariant (`LimiterInv`) speaks of every later moment at which
  the window after a collision has closed (`Clear`): filtered at that moment, the requests sent are
  as many as the stamps and the sleeps that ended early (`Books`), and a caller at work on the list
  has what its step needs of that (`Working`). So the limiter recovers within one window, whatever
  was lost.
- `OneLoopKeepsTheLimit`: without threads there is no collision (`Exclusive`: one caller from taking the lock to
  releasing it, and a woken waiter is the first in the queue), so the limit holds of every window.
- `ServedIsRecentThm`. An entry's validity counts from before the request that fetched it, so it ends no later than
  its age allows (`AgesOK`), whoever overwrites it. Needs `Grace` positive (the code takes at least 60 s).
- The filter is a loop, `Since`, and what the two proofs need of it (`SinceAppend`, `SinceSince`, `SinceShorter`,
  `SinceCounts`) is proved by induction. The library's induction theorems take an operator, which the
  provers cannot instantiate; `NumbersFrom0` and `SequencesFromEmpty` take a set instead, and follow from
  `NatLessThanWellFounded` and `WFMin`. That the recursion has a solution at all is `KeptExists`.

The type invariants of `ResearchJobs`, `ParentResearch`, `ForcedGeneration`, `EventFacts`, `ResearchInvocation` and
`ProviderTransport` are proved rather than listed in runs.

Only model-checked: liveness (`EveryJobCloses`, `ClosedJobsCloseRuns`, `EveryRequestServed`,
`ReachesOutcomeOrLost`, `Discovery`, `ResearchEnds`, and in a further instance `EveryCallEnds`), which is
outside the prover's reach. Liveness rests on fairness and on steps being enabled, and neither can be reasoned
about here.

## 7. Not modelled

Items 10 to 12 of the plan, for lack of a model yet: publishers of single sections, the ladder of
`evaluate`, the file cache of `fetch_safe`, and the pure decision functions; and the path of the runtime
that asks the model once per step, which is off by default (`ParentResearch` has what it writes to the run).
Of what is modelled, `PROJECT.json` names per component the operations that are left out.

I/O and parsing (providers, HTTP, subprocesses), document assembly, configuration and reports are
left out for good: they keep no shared state whose order matters. Storage retention deletes by age what nothing
decides on any more. News and value candidates are merged in one transaction each from what a caller passes.
