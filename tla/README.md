# GaiaOS: TLA+ verification

This directory models the parts of GaiaOS whose correctness depends on order,
concurrency, failures, limits or on two pieces of code agreeing with each other. TLC
checks the models on small instances; TLAPS proves the central properties for every
value of the constants.

## The system

GaiaOS answers natural-language questions about environmental hazards. A request
creates an *investigation* row in Postgres and an RQ job in Redis. A worker runs a
LangGraph graph: a supervisor picks domains, a fan-out coordinator runs the domain
agents in parallel under timeouts, an optional simulation and a synthesis agent
combine their evidence, a critic flags conflicts and may send the graph round a
bounded replanning loop, and a final node stores the answer and publishes a `done`
event that the API streams by SSE. Every external tool call goes through a
Redis-backed circuit breaker, every request through a gateway with authentication
providers and a Redis token bucket. Scheduled jobs ingest data, evaluate alert rules
and SLOs, mine patterns, calibrate models, watch the queue and take backups. The
schema evolves by Alembic migrations, and a Python SDK, mostly generated, wraps the
HTTP API.

| Part | State | What makes it hard |
|---|---|---|
| Resilience (`resilience/`) | circuit and cache in Redis, stale copies in workers | read-modify-write by replicas, outages, cancellation |
| Rate limiter (`gateway/`) | bucket in Redis, script hash | clock read before an await, lost replies, rounding, expiry |
| Investigation (`app/`, `workers/`, `orchestrator/graph/`) | row, RQ job, graph state, checkpoint, stream | retries, crashes, timeouts, partial success |
| Fan-out (`fan_out_coordinator.py`, `collaboration_bus.py`) | results per domain, broadcasts | timeouts, failing siblings, index alignment |
| Alerting (`alerting/`, `alert_evaluation_job.py`) | rules, incidents, counts | crashes between commits, lost deliveries |
| Backups and scheduler (`ops/backup/`, `workers/scheduler.py`) | records, files, downloads, registered jobs | partial failures, overlapping jobs, restarts |
| Accounts and keys (`auth/`, `auth.py`, `api_keys.py`) | users, tokens, keys | races between check and use, row locks |
| Data jobs (`workers/jobs/`, `ingestion/`, `simulation_engine/`) | cursors, versions, parameter files, manifests, samples | overlapping runs, deaths between two writes, caches |
| Schema (`data/migrations/`, `db/models/`) | the database's catalogue and its version row | 22 scripts up and down, concurrent operators, hand-kept models |
| API and SDK (`app/api/`, `gateway/`, `sdk/python/`) | requests under way, keys, investigations | two descriptions of one interface, revocation under way |

`PROJECT.json` lists every component with its sources and, for those left out, the
reason.

## Modules

| Module | Models | State and actions |
|---|---|---|
| `CircuitState`, `CircuitBreaker` | `circuit_breaker.py`, `degraded_mode.py`, `retry_policy.py` | `circuit` is the Redis hash, `call[w]` a worker's `resilient_call` with its stale copy; one action per await |
| `CircuitMachine` | the state machine in the header of `circuit_breaker.py` | abstract specification that `CircuitBreaker` implements |
| `RateLimiter` | `rate_limiter_redis.py` | `bucket` is the Redis hash, `req` the requests in flight; the Lua script is one action |
| `TaskGraph` | nodes and edges of `builder.py`, events | `g` is the graph state, `row` the table row, `stream` one SSE client |
| `Investigation` | API, RQ job, checkpointer, failure handling; extends `TaskGraph` | adds `api`, `job`, `worker`, `ckpt` and the outages |
| `InvestigationStatus` | the status a client may see | abstract specification that `Investigation` implements |
| `FanOut` | coordinator and bus | stage and result per domain |
| `Alerting` | evaluation job, repository, notifier, admin API | rules, incidents, and the steps of each run of the job |
| `Scheduler` | `scheduler.py` and the worker's call | registrations per job |
| `Backup` | backups, retention, drills; extends `Scheduler` | `rec` and `store` are records and files, `run` and `drill` the jobs |
| `Accounts` | every endpoint of accounts and keys, the auth providers, `create_admin.py` | tables of users, tokens and keys; `req[r]` a request between its read and its write, or waiting for a row lock |
| `AccountLifecycle` | what accounts, reset links and keys go through | abstract specification that `Accounts` implements |
| `Ingestion` | ingestion jobs, adapters and clients of the ingested sources | cursor, rows, remembered answer, the jobs' steps |
| `PatternMining` | mining job and version repository | findings, and the open transaction of each run |
| `Calibration` | calibration job, report, parameter loader | the two files, the cache, the threads that load |
| `DatasetExport` | export job | files written and uploaded, in order |
| `ScalingTelemetry` | scaling policy and telemetry job | samples; the verdict as a walk over them |
| `DataJobs` | composes the five above | a behaviour is about one of them: they share no state |
| `Ddl` | Alembic's operations on PostgreSQL (external) | operators on a database record |
| `Migrations` | `data/migrations/versions` | every `upgrade()` and `downgrade()` as a list of operations |
| `OrmModels` | `db/models` | what each model believes of its table |
| `SchemaEvolution` | `env.py`, Alembic's runs, rows written meanwhile | `db`, `version`, `run[o]` of each operator |
| `JsonValue`, `ApiSchemas` | pydantic models | schemas as functions from field to JSON |
| `ApiServer` | gateway, authentication, one action per route | `call[c]` holds the request and then its answer |
| `SdkModels`, `SdkClient` | generated models; generated calls, `client.py` and `exceptions.py` | what a call sends and what it makes of an answer |
| `ApiClient` | composes the SDK with `ApiServer` | builds, sends, receives; revocation, expiry, outages |
| `Filtering` | `WHERE` clauses and list comprehensions (external) | the part of a sequence that is in a set |
| `*Proofs`, `FilteringTheorems` | | theorems and their lemmas |
| `MC*` | | sets, sequences and records that a `.cfg` cannot write |

Definitions called *slips* (for instance `MarkSuccess_any`) are plausible mistakes in
the code. No specification uses them; each shows that a property would notice.

Data is abstracted to what the properties tell apart: an answer is the number of
evidence rounds it rests on, a database's contents are a version, a metric is in
breach, not in breach or absent, times are ages, an upstream event is a station and a
date, a JSON text is a UUID, a timestamp or any other text. Language models, tools and
agents may return anything their callers handle.

## Runs

A run may cover several surroundings: which workers, faults, operations or sources a
behaviour has is chosen in `Init` (`setting`, `faults`, `ops`, `scenario`, `part`) and
never changes. A property that needs calm surroundings says so by name (`Alone`,
`Calm`, `Undisturbed`, `Ordinary`).

| Run | Checks | Shows |
|---|---|---|
| `guards` | `OpenIsEarned`, `NeverOverdrawn`, `Recovers`, `ImplementsDocumentedMachine`, `RetryAfterHonoured` | the circuit leaves closed only with a full failure count and closes for good once source and Redis stay up; one worker follows the documented machine; no caller draws more than an exact bucket holds plus the age of its own clock readings, and waiting for Retry-After suffices |
| `investigation` | `AnswerIsHonest`, `Settles`, `StatusIsTerminal`, `ListenerHearsDone` | under all faults, stored answers are complete and honest about conflicts; when only nodes fail and checkpoints expire, accepted investigations settle, once, and a listener is told |
| `fan_out` | `Aligned`, `SiblingsKeepEvidence`, `Terminates` | results stay aligned with domains, a failing agent costs only its own evidence, and the fan-out ends |
| `alerting` | `OneOpenIncident`, `NotifiedOnce`, `FlappingSuppressed`, `Reconciled`, `Announced`, `DuplicatesHeal` | no more open incidents of a name than runs that overlap; one run at a time, none is notified twice, wherever a run dies; undisturbed, incidents are exactly what is firing, notifications wait for `consecutive_cycles`, and lasting breaches are announced; what overlapping runs have doubled is resolved once the metrics are clear |
| `backup` | `Restorable`, `DrillSound`, `RowOutlivesFile`, `PurgeKeepsOne` | recorded backups can be restored, a passed drill found in its scratch database what is described of the dump, retention loses neither a file nor the last good backup |
| `accounts` | `SpentLinksStaySpent`, `ClosedIsClosed`, `NothingIsUndone`, `Answered` | a link is worth one reset, what arrives after a key was revoked or an account closed is not served, nothing is undone by a racing handler, and the row locks leave nobody waiting |
| `data_jobs` | `CursorCovers`, `StoredOnce`, `LoneRunRepairs`, `CacheCoherent`, `ParametersOnRecord`, `ManifestSound`, `VerdictIsRight` | nothing is left behind the cursor or stored twice, one active version per pattern after a lone run, parameters are on record and cached coherently, a manifest leads to its files, the scaling verdict is what "sustained" means |
| `schema` | `RevisionIsSchema`, `RefusedOnlyByRace`, `HeadServesModels`, `PlaceIsHonest` | wherever Alembic was run to, raced or killed, the schema is the one its revision stands for; no script raises by itself or on the rows that are there; the newest schema fits the models; hazard events keep their names and get no invented points |
| `api` | `SdkMatchesServer`, `ErrorsAreTyped`, `CreatorCanRead` | over every route, both sides agree on parameters and shapes; errors arrive as documented exceptions; who was told of an investigation can read it |
| `investigation_crash` (violation) | `CrashIsResumed` | a checkpoint cannot be read back: the attempt after a crash raises, with a retry left, instead of resuming |
| `investigation_timeout` (violation) | `NeverStuck` | job timeouts leave the row in "planning" |
| `scheduled_backup` (violation) | `BackupsHappen` | the scheduled backup raises `TypeError`, always |

Each module has one type invariant. Those of `CircuitBreaker`, `RateLimiter`,
`Accounts` and `Backup` are theorems, and the invariants below contain most of the
others; the others hold on the instances above and can be
checked by adding `TypeOK` to the configuration.

### Bounds

*Guards.* Two workers and two requests: every interaction is between two. A threshold
of 3 separates first, between and last; three tokens of three ticks and a second of
two make rounding visible. `MaxLag = 2`: a script may run two ticks after its clock was
read, so that two requests swap places; the client's `socket_timeout` (`cache/client.py:53`)
bounds the wait, and the theorem holds for every bound.

*Investigation.* Two retries: a first, a middle and a last attempt; all six faults
together, or none but failing nodes and expiring checkpoints.

*Fan-out.* Three domains, the middle one unknown to the registry, so that a shift by
one would show.

*Alerting.* A rule notified at its second violation, one at its first, and an SLO;
`MaxIncidents = 6` bounds incidents, `MaxRetries = 3` is the code's. One run of the job at
a time with each group of faults, and two that overlap without.

*Backup.* `MaxBackups = 3` lets two overlapping runs purge a third backup; `MaxJobs = 3`
bounds backups and drills together: two drills of one backup and three backups both
occur, two drills beside two backups do not (the theorems have no such bound). Faults
come one kind at a time (`psql` with `write`) and may repeat. Of three `Versions` of the
database two are described alike (`Alike = 2`), since row counts and samples do not tell
all contents apart; an emptied scratch database is told apart. Runs and drills are
symmetric, and only safety is checked. The scheduler and an operator start jobs in
different behaviours, because what the scheduler starts touches nothing the jobs use.

*Accounts.* One account, two requests in flight, three reset links, one key, three
groups of endpoints that share rows. The theorems cover any number.

*Data jobs.* Two overlapping runs or threads each; three dates of two stations and a
page of two events, so that a page may be full; events appear late and papers are
revised (`MaxCopies = 1` bounds versions stored beside one another); every source with the
faults it handles; three exports, so that one can die before and one after a whole one; four
clock ticks, gaps of two, durations of two and three.

*Schema.* All 22 revisions. Two operators: one goes up, down by one or down to the
base, the other up. One row of `hazard_events`, with a place the geocoder knows or does
not; the earlier database has rows of `users`, `investigations` and `eval_benchmark_runs`,
and more of the last are written meanwhile (`WrittenTables`). Of rows only the columns that
a later unique index or foreign key validates are followed (`KeyColumns`).

*API.* Two callers, an ordinary account and an administrator, every operation with
every kind of argument, investigations of one's own, another's, nobody's and none.

### Fairness

Weak fairness of a worker's or handler's own steps (`Step`, `JobStep`, `ApiStep`,
`Handler`, `BackupStep`, `DrillStep`, `SchedulerStep`): a process that is not killed
goes on, and RQ gives a queued job to a worker. Weak fairness of the clock in
`CircuitBreaker`, of `asyncio.wait_for`'s timeout in `FanOut` and of PostgreSQL's
deadlock detection in `Accounts`. Nothing is assumed of sources, agents, Redis,
Postgres or clients. Where deadlock checking is off, a bounded number of jobs, requests
or exports comes to its end.

## Proofs

| Module | Theorem | For every | Says |
|---|---|---|---|
| `GuardsProofs` | `BreakerSafety` | set of workers, threshold, attempts | `TypeOK`, `OpenIsEarned`, `ProbeFailureReopens` |
| | `BreakerImplementsMachine` | threshold, timeout, attempts | `ImplementsDocumentedMachine` |
| | `RateLimiterSafety` | set of requests, capacity, rate, length of a second, `MaxLag` | `LimiterTypeOK`, `NeverOverdrawn` |
| | `RetryAfterIsHonoured` | as above | `RetryAfterHonoured` |
| `InvestigationProofs` | `InvestigationSafety` | retry budget, faults, execution mode, replan setting | `AnswerIsHonest`, `ReplanCap`, `NoPrematureFailure`, `DoneHasAnswer` |
| | `InvestigationImplementsStatus` | retry budget, execution mode | `StatusIsTerminal` |
| | `FanOutSafety`, `SiblingsKeepTheirEvidence` | list of domains, registry, behaviour of runners that return outputs or raise | `Aligned`, `SiblingsKeepEvidence`, and the coordinator never raises |
| `AccountsProofs` | `ResetSafety` | accounts, links, requests | `TypeOK`, `SpentLinksStaySpent` |
| | `ClosedStaysClosed` | as above | `ClosedIsClosed` |
| | `AccountsImplementLifecycle` | as above | `NothingIsUndone` |
| `BackupProofs` | `BackupSafety`, `DrillsAreSound` | runs, drills, backups, faults, descriptions | `TypeOK`, `Restorable`, `DrillSound` |
| | `RowsOutliveFiles` | as above | `RowOutlivesFile` |
| | `PurgesKeepOne` | as above | `PurgeKeepsOne` |
| `AlertingProofs` | `OneIncidentPerName` | rules, SLOs, edits, faults, overlapping runs | `OneOpenIncident` |
| | `NoDuplicateNotification` | as above, one run at a time, without changes of `consecutive_cycles` | `NotifiedOnce` |
| | `IncidentsFollowEvaluations`, `FlappingIsSuppressed` | rules and SLOs; one undisturbed run at a time, no more names than a page of `list_incidents` holds | `Reconciled`, `FlappingSuppressed` |
| `IngestionProofs` | `RowsAreStoredOnce` | source, workers, stations, dates, page size, faults | `StoredOnce` |
| | `NothingIsPassedOver` | as above, in `Ordinary` surroundings; runs for GDELT do not overlap | `CursorCovers` |
| `DataJobsProofs` | `StoredManifestsAreSound` | number of exports, deaths | `ManifestSound` |
| | `ParametersAreCoherent`, `VersionsStayOnRecord` | threads, versions, deaths | `CacheCoherent`, `ParametersOnRecord` |
| | `ALoneRunRepairs` | miners, patterns, runs, faults | `LoneRunRepairs` |
| | `VerdictsAreRight` | history of samples, window, threshold, duration, gap | `VerdictIsRight` |

`FilteringTheorems` holds the lemmas about sequences that several of these rest on.

*Breaker.* A stale copy of the circuit can be written back at any time, so the claim
about the shared circuit must also hold of each worker's copy (`CallInv`). For the
refinement, `AloneInv` says that the copy of a worker on its own is not stale.

*Rate limiter.* `Covered` compares the bucket with an ideal one that never expires: its
level is at least what the script would grant, and an expired key means it is full,
since age and time to live together last long enough to refill it. A script that runs on
an old reading sets `last_updated` back by as much as the reading is old, and later ones
count that time again; so the exact bucket is credited with the age of each reading a token
was granted on, and nothing more is needed for any staleness. For Retry-After, `Promised` says that the part of the wait that is still to come, added to the tokens and
the age of the bucket, makes a token, and a reading that is stale by some ticks costs the
caller as many of its own wait.

*Investigation.* `GraphInv` ties the graph's state to the node it is at, `ApiInv` says
nothing runs before it is queued, and `PublishInv` that `done` follows the stored
answer. For the refinement, `StatusInv` says what the row holds at every place the
worker can be at: a retry never starts over an outcome. `FanInv`, of the fan-out, says
that what `gather` returned is in the order of the domains and that a stored refinement
replaces the result of its own agent. A runner that returns no `AgentOutput` breaks it
(see Disagreements), hence the hypothesis that none does.

*Accounts.* `LocksOK` is about the row locks: no link is held by two resets and none
that is held is spent, so a reset at its commit cannot have been overtaken; `ReqsOK` says
what a handler knows at each of its steps. `LateInv` follows a request that arrived with a
void credential: revocation and closure are for good (`ForGood`), so whichever row is read
next refuses it, although the key's row is not read again. The refinement then follows because a handler
writes back only the columns it assigned.

*Backups.* The invariant has a part per owner: `RunInv` (a run's own record and file are
nobody else's until it has recorded success), `CleanInv` (a clean-up works on expired
records only, and removes the file before the row), `RecInv`, `DrillInv` and `SchedInv`.
`SoundInv`, on top of it, follows a description from the run that took it through the record
to the drill that compares it, and says of each that it is the dump's unless the database was
written in between.

*Alerting.* No index keeps two open incidents of a name apart, so the argument is about
what a run knows between reading and writing. However many runs overlap, a run that found
no incident knows that it has none of its own (`NotMine`), whatever others have opened since;
hence two open incidents of a name are of different runs (`ByApart`). The other theorems take
one run at a time: `JobOK` says that an incident it did not
find is still absent and that one it found is still open with the count it read, because
it is the only run. `Fresh` says that an incident about to be notified has just reached
`consecutive_cycles`, so that none is notified twice. For the last two theorems
`StreakOK` compares incidents with evaluations at each step: names that the run has yet
to work off lag one behind, names that stopped firing are on the page that is to be
resolved. Each hypothesis is needed: without it TLC finds the counterexamples under
Disagreements.

*Ingestion.* That everything the cursor has passed has a row is not inductive, as a run
moves the cursor by its own records while others insert theirs. `CursorInv` says that the
rows are closed downwards in time, that the cursor and every run's copy of it is the date
of a row, and that the records a run carries leave out only events with a row. A page
leaves out an event only for newer ones when the source sorts, and only what fits is
outstanding (`Backlog`), so what is left out has its row (`PageCovers`). arXiv sorts by last
update while the cursor follows publication, so its backlog counts every paper updated since
one without a row. `OnceInv` says that the papers a lone run carries are newer than any
stored, so that a revised one is not stored again.

*Export, calibration, mining.* `ExportInv`: a running export has no manifest in storage
yet, and what it has copied is complete. `CalInv`: the time of the file in use grows with
every change that a reader may store, and a version in use has its numbered file. The
latter is why the job writes that file first. `MineInv`: a run that found the table to
itself still has it, and holds all the active rows of the patterns it is done with.

*Scaling.* `Knows` says what the walk over the samples knows after n of them, and
`WalkIsRight` that its verdict is the definition of a sustained breach, for samples in the
order of their time, which `ScalingInv` maintains and filtering by a window preserves.

*Induction over data.* Library theorems that take an operator as a parameter cannot be
instantiated by the installed provers. `SetInduction` says the same of the set of numbers
for which a claim holds, which a proof can name; `Recursion` says that a function defined
by recursion on the length of a sequence satisfies its equations. Both follow from the
well-foundedness of the order of the naturals. To make use of them `Where` and the walk of
`ScalingTelemetry` are recursive functions, and what a filter keeps is given as a set.

The assumptions are the named `ASSUME`s of the component modules, which TLC evaluates
in every run. TLC also finds the strengthened invariants to hold on all states of the
runs' instances: `AlertInv`, `ByApart` and `NotMine` on those of `alerting`, `LateInv` of
`accounts`, `SoundInv` of `backup`, `Covered` of `guards`, and `OnceInv` and `CursorInv` of
`data_jobs`.

Only model-checked: the liveness properties (`Recovers`, `Settles`, `ListenerHearsDone`,
`Terminates`, `Announced`, `DuplicatesHeal`, `Answered`), because fairness and `ENABLED` are out of the
prover's reach; and the schema and API properties, which are about 22 concrete migrations
and about the concrete routes and models: TLC evaluates them in full, and a proof would
only repeat that evaluation.

## Disagreements

Three are runs of their own (the violations above). The others follow from the code.
Those marked † are also TLC counterexamples, with the constants given.

- **Breaker.** Two workers that fail together count one failure, so the circuit opens
  late, and stale writes leave the documented machine (`circuit_breaker.py:118`, `:134`
  against `:3`). Half-open admits every caller (`:104`), the docstring (`:95`) speaks of
  a "single probe attempt". Errors other than `HTTPError` leave `resilient_call`
  (`degraded_mode.py:156`), which "always returns, never raises" (`:121`).
- **Rate limiter.** The clock is read before the awaits (`rate_limiter_redis.py:192`), so
  requests that overtake one another draw more than burst and refill, by up to the age of
  their readings; `NeverOverdrawn` says by no more. A full burst and the refill together exceed a per-window
  quota (`:176`; `settings.py:564`).
- **Investigation.** An outage after finalize's commit turns "complete" into "failed"
  (`investigation_job.py:139` against `repository.py:303`). The "replanning" event ends
  the stream (`cache/client.py:141` against `docs/phase3/replan_loop.md:66`).
- **Fan-out.** A runner that returns no `AgentOutput` shifts the results† (`Returns` with
  `"alien"`, `Aligned`; `fan_out_coordinator.py:167`). A refined run that timed out
  replaces the first result (`:160`; `Roadmap_Phase5.md:261`).
- **Alerting.** Overlapping runs open an incident twice and notify twice
  (`alert_evaluation_job.py:117` against `docs/phase8/scaling_alerting.md:52`, "zero duplicate
  notifications"); every run then raises in `get_open_incident_by_rule_name` until the breach
  is over. A webhook whose answers are lost gets up to three copies (`webhook.py:74`). A crash before the resolution leaves incidents
  and counts stale, and one while seeding leaves rules unseeded (`:53`). A lost
  notification is never sent again (`:124`). A failed commit of the count of an SLO's
  incident is swallowed and the run goes on (`repository.py:700`). Changing
  `consecutive_cycles` of an open incident silences or doubles it† (a setting with `"retune"`, `NotifiedOnce`). Open
  incidents beyond the page limit stay open† (`ListLimit = 1`, `Reconciled`; `:163`). An
  SLO without data resolves its incident (`:165` against `slo.py:50`), and an SLO target
  of 1.0 leaves no error budget and never alerts (`slo.py`, `allowed_error_rate <= 0`).
  A suppressed spike is announced as resolved (`:173` against
  `docs/phase8/scaling_alerting.md:13`).
- **Backups.** A scheduled drill gets "restore_drill" as its `backup_id` and always fails
  (`scheduler.py:116`), and `run_calibration_job` takes no argument either (`:171`). The
  description of a backup is not of the dump's snapshot, so a write in between fails the
  drill of an intact backup (`postgres_backup.py:114`). A drill passes on data that differs
  from the dump in what is not described: rows beyond the count and the first hundred, tables
  not listed, indexes (`provider.py:125`; the listed `metric_events` does not exist), also when
  another drill's download tears the file after the checksum (`restore_drill.py:152`). A run that could not record itself
  still purges old backups and leaves a file without a record (`:108`). A connection lost
  while the database is described leaves a description any restore matches
  (`provider.py:182`). A timeout while the scratch database is created or dropped leaves
  it (`restore_drill.py:284`). A scheduler that cannot read the registered jobs registers
  them again (`scheduler.py:23`).
- **Accounts.** Of two registrations of one address, the one that comes second at the
  unique index is answered 500 (`auth.py:112`), where `docs/phase3/authentication.md:47`
  says "Returns `409 Conflict` if email already exists." A key revoked, or an account closed,
  between the reads of a request that is under way still serves that request.
- **Data jobs.** A station that fails is passed over while the shared cursor moves on
  (`era5_atmospheric.py:88`, `noaa_historical.py:78`), where `docs/Roadmap_Phase3.md:633`
  asks for "no data loss on a transient failure". That "late-arriving upstream events
  are not missed" (`docs/phase3/hazard_ingestion.md:44`) holds of those that come in the order of their
  dates; one older than the cursor is missed. So is a paper when more new and revised ones
  than a page come between two runs. Overlapping literature runs store a
  paper, or a revised version of it, twice: its table has no constraint. Overlapping runs for GDELT, which pages in no
  order, can move the cursor past an article that has no row† (`<<"gdelt", {"overlap"}>>`,
  `MaxDate = 4`, `PageSize = 3`, `CursorCovers`): a run that started from an old cursor is
  given a page of old and new articles that leaves out one in between
  (`ingestion_jobs.py:118`). An export's checksum covers the uncompressed lines; two exports at once share one manifest, and no schedule starts the job. A Redis
  failure is recorded as a queue of depth 0, and the 90-day window looks at samples that
  are kept for 30 days.
- **Schema.** Downgrading 0011 leaves `hazard_events.region` nullable, which 0008 declares
  NOT NULL, and drops coordinates that came with an event; downgrading 0012 drops the
  columns that recognise an ingested event, so ingesting again doubles it (0001:23 calls
  the history "auditable and reversible"). The index on `pattern_findings.is_active` is
  the model's only. A row of `eval_benchmark_runs` with an `investigation_id`, which no code
  writes, would make an upgrade after a downgrade past 0006 raise when the foreign key is
  validated (0006:59). `backup_records.size_bytes` is a 32-bit column (`backup_record.py:49`).
  `AlertRule.incidents` deletes what the foreign key would set to NULL.
- **API and SDK.** The SDK's `login` and `create_api_key` give the generated request
  models arguments they do not have and raise `TypeError`. A 403 from `get` or `get_trace` has a body
  that fails in the parser (`KeyError`), where the SDK's README says "All SDK exceptions
  inherit from `GaiaSDKError`."; so have the readiness probe's 503 and the 422 of the
  metrics endpoints. Errors below the client, those of httpx and of the event stream,
  come as they are. What the gateway's providers raise (401, 429) leaves the middleware
  as a 500 (`docs/Roadmap_Phase3.md:247`). An unusable API key makes a caller anonymous
  where that is allowed, and an investigation created so is refused (403) to every
  authenticated caller but an administrator. `list_api_keys` returns revoked keys too.
  The 401 for inactive or unverified users (`auth/dependencies.py:46`) refuses nobody in
  `ApiServer`: the providers admit active users only, and none has a token or a key before
  being verified. `upsert_alert_rule` ignores the body's `slo_name`. The generated function for the event
  stream reads it as JSON. `max_retries` does not reach the generated calls.
  `datetime.fromisoformat` reads a trailing "Z" only from Python 3.11 on; the package
  admits 3.10.

## Not modelled

- *Domain agents, supervisor, synthesis, critic and causal chain, simulation engine*:
  texts, scores and floating-point numbers; their control is in `TaskGraph` and `FanOut`,
  which take every outcome they can have. The same holds of the SLO burn rate and of
  fitting and scoring in the calibration.
- *Explainability trace, metrics, evaluation harness, anonymisation, Redis snapshot
  verification*: functions of stored data, without state or concurrency of their own.
- *Tool clients and MCP servers*: each is one call through `resilient_call` and the
  parsing of its answer; those of the ingested sources are in `Ingestion`.
- *Registry and plugins, settings, logging, application start*: run once, in one thread.
- *Command line, admin UI, deployment, smoke endpoint*: clients, configuration and a CI
  probe that enqueues an ordinary investigation.
- Within modelled parts: `aput_writes` and `alist` of the checkpointer (nothing reads what
  they write), overlapping calibration runs and overlapping exports, Alembic's offline
  mode, column lengths and plain column types, the SDK's own retries and the parsing of
  single stream events.
