# Verification of lol_ai_coach

TLA+ models of the backend of lol_ai_coach (`backend/app`), the TLC
configurations that check them on small instances, and TLAPS proofs of their
main safety properties. Paths below are relative to `backend/app`.

## 1. The system

A player uploads a League of Legends replay (`.rofl`); the backend queues a job;
a Celery worker analyses it and stores the result; the client polls.

| Component | State | Operations | Talks to |
|---|---|---|---|
| Analysis API `api/analysis.py`, `core/database.py` | one database transaction per request, committed after the handler returns and before the response leaves | `get_upload_url`, `start_analysis`, `start_fallback_analysis`; read-only `get_history`, `get_status`, `get_result` | PostgreSQL, S3 (presigned URL), the broker (`run_analysis.delay`), Redis (progress key) |
| Worker `workers/analysis_worker.py`, `core/celery_config.py` | the executing task, its retry count, its clock | `run_analysis` and its helpers; `collect_benchmark` (stub) | Redis (duplicate key, progress key), PostgreSQL, S3, the broker (retries) |
| Analysis record `models/analysis.py` | a row per job: status, metadata, result columns | written by the two above | |
| Accounts and sessions `api/auth.py`, `core/auth.py`, `models/user.py` | a row per account: e-mail, one refresh token, its expiry; a cookie per browser | register, login, refresh, logout, me | PostgreSQL, browsers |
| Analysis pipeline `analysis/game_context.py` | `GameContext`, shared by the engines | `run_analysis_pipeline`: four stages, engines of a stage concurrent | engines |
| Analysis engines `analysis/*_engine.py`, `fight_simulator.py`, `utils.py` | none (wave, game-state and player-model engines fold over time) | one `run` each | `GameContext` |
| Replay parser `parser/` | none between calls | `parse_with_fallback`: local file, metadata with Riot timeline, Riot timeline alone, empty result | Riot API |
| Start-up, health, settings, migrations, `celery_app.py` | none | wiring | |

`benchmark/`, `coaching/`, `layer/`, the chat and benchmark APIs, `desktop/`,
`frontend/` and `infra/` exist only as `SPEC.md` texts and have no code to model.

What is hard here:

* **Concurrency.** Several API processes and several worker processes share a row,
  two Redis keys and an S3 object, and nothing but a `SET NX` key and PostgreSQL
  row locks orders them.
* **Delivery.** `acks_late` makes delivery at-least-once: restarts and lost
  connections redeliver a message whose first execution got anywhere, or is still
  running.
* **Interruption.** A soft time limit can raise between any two statements, a hard
  one kills the process; every statement on a remote service can fail before or
  after it took effect.
* **Shared context.** The engines of a stage run in threads over one object; two
  of them test, again and again, fields that others assign meanwhile.
* **Falling back.** Each attempt of the parser begins from nothing and the kind of
  its result decides whether the next one runs.
* **Numbers.** The engines compare times, distances and quotients with thresholds,
  look things up in two ways, and share windows whose ends belong to two of them.
* **Transactions.** `get_db_session` commits after the handler, so what a handler
  read may be old when it writes, and what it queued may run before it commits.

Correctness, per component: a job is worked on by one process at a time, its
result is stored before completion is announced and before its replay is
deleted, its status settles once, and it settles at all (worker and API); an
e-mail has one account, and a session that the database considers live can be
used (accounts); a stage sees all results of the stages before it, and an engine
that fails leaves the others' results intact (pipeline); the quality reported
matches the data that was really decoded (parser); what several functions
compute from the same data agrees, treats both teams alike and is monotone where
it should be (engines); a list read while it grows skips nothing (history).

## 2. Modules

| Module | Contents |
|---|---|
| `AnalysisJob` | API handlers, broker, worker, Redis, S3 and the row: one action per statement that touches shared state |
| `AnalysisContract` | what the job service promises, without queue, lock, retry or time |
| `AnalysisJobProperties` | safety, the inductive invariant, the refinement mapping, liveness, and what the documents promise |
| `AnalysisJob_proofs` | TLAPS proofs about `AnalysisJob` |
| `MCAnalysisJob` | TLC instances (`Job*.cfg`) |
| `AuthSession` | the handlers of `api/auth.py` as transactions, the browsers' cookies, the properties and the refinement mapping |
| `SessionContract` | what the accounts promise, without browsers, handlers, transactions or faults |
| `AuthSession_proofs` | TLAPS proofs about `AuthSession` |
| `MCAuthSession` | TLC instances (`Auth*.cfg`) |
| `ReplayParser` | the attempts of `parse_with_fallback`, with their properties |
| `Pipeline` | the stages of `run_analysis_pipeline`, the engines as concurrent processes over `GameContext`, with their properties |
| `PipelineContract` | what the pipeline promises about a context, without stages and threads |
| `ReplayAnalysis` | parser and pipeline composed: a `ParseResult` becomes the context of the pipeline; the refinement mapping to the contract |
| `ReplayAnalysis_proofs`, `GameStates_proofs` | TLAPS proofs about `ReplayAnalysis` |
| `Lookups` | nearest entries and samples of a timeline (`utils.py`, and `min(...)` in the engines) |
| `Waves` | minions, wave states, crash times, and the rating of recalls |
| `Fights` | the fight simulator and `CombatEngine` |
| `Assessments` | compositions, phases, scaling, macro decisions, intents |
| `Warnings` | predictive warnings, mistakes and the player's model |
| `Vision` | `VisionEngine` |
| `Validation` | `DataValidator` and the decompression of chunks |
| `EngineCalls` | one action per function of the engines, called with any input of the constants |
| `EngineProperties` | what the answers have to satisfy |
| `Extremes_proofs`, `EngineProperties_proofs` | TLAPS proofs about the functions |
| `History`, `History_proofs` | the paged list of analyses, and its proof |
| `AnalysisSystem` | `ReplayAnalysis`, `EngineCalls` and `History` side by side |
| `AnalysisSystem_proofs` | their theorems, for the whole |
| `MCReplayAnalysis` | TLC instances of `AnalysisSystem` (`ReplayAnalysis.cfg`, `ParserPartialEmpty.cfg`) |

Definitions named `Name_Variant` are not part of a model: each is the definition
`Name` with a plausible mistake in it, kept to see that a property notices it
(`PROJECT.json`, "mutants").

### AnalysisJob

State and code: `status`, `results`, `metadata` are the columns of
`analysis_records` (the layer and script columns are written together, so one
flag stands for them); `submitted` and `progress` the Redis keys with their TTL;
`s3` and `urls` the objects and the presigned URLs that are still valid; `queue`
the copies of each message in the broker; `apc`, `aid`, `arow` the request
handlers (the last says whether the open transaction has really written its
row); `pc`, `job`, `step`, `clock`, `warned`, `held` the pool processes.

Each statement of `run_analysis` on shared state is an action of the same order:
`AcquireLock` (145), `MarkProcessing` (151), `PublishProgress` (152, 162, 171,
182-186, 203), `Download` (161), `SaveResult` (189), `DeleteSource` (197),
`Notify` (204), `HandleException` (215-218), `MarkFailed` (212, 219), `Ack`.
`step` is the index into `ProgressSteps`, and `AfterPublish` the statement after
each publish, so the seven publishes in a row are one action. On the API side
`StartAnalysis`, `FlushMetadata`, `Delay` and `Commit` split `start_analysis` at
its awaits; `get_upload_url` touches nothing but the database and is one step.

Environment: `FaultKinds` names what may go wrong and `MaxFaults` how often.
"lock", "publish", "db", "s3", "broker": an error of Redis at the `SET`, of Redis
at a publish, of PostgreSQL, of S3, of the broker, before or after it took effect
where the client cannot tell; "lost": the pool process dies; "crash": the worker
is restarted and the message redelivered; "connection": the broker connection is
lost and the message redelivered while the execution continues; "slow": time
passes during a request or an execution (without it the time limits are not
reached); "backlog": time passes while a message waits.

Time: a tick is an interval in which an execution may go from its start to its
soft limit. `SoftLimit`, `HardLimit` and `LockTTL` keep the order of the code's
300 s, 360 s and 3600 s; `LockOutlivesExecution` states the part that matters.

Redelivery, late acknowledgement, "acks on failure or timeout" and prefetch 1 are
Celery's documented defaults with the settings of `core/celery_config.py`; row
locks and READ COMMITTED are PostgreSQL's. These parts are marked external.

### AuthSession

A handler reads its row (`RegisterCheck`, `Login`, `Refresh`, `Logout`),
`RegisterInsert` is the flush that meets the unique index, and `Commit` writes
what the handler changed, by primary key, without looking again. Tokens and
accounts are named after the request that created them (they are random UUIDs in
the code). A browser attaches the cookie it has when it sends and stores the one
it receives; `ReceiveResponse` is where a handler that raised has lost its
`delete_cookie`. Passwords are always right (a wrong one is answered like an
unknown account), and a clock is a flag `expired` that an `Expire` step sets.

`SessionContract` is what a client may rely on: an address has one account and
keeps it, an account has at most one token that a refresh succeeds with, and a
token that was ended or replaced is never accepted again. A token counts as
accepted while it is in the row, has not expired and the account is active
(`Accepted`); `Decided` are the tokens whose request has been decided, so that a
commit that was rolled back, or found its account deactivated, is a step that only
withholds a token. The contract does not ask for a valid token where it issues
the next one: two overlapping refreshes of one browser may both succeed, and the
second commit replaces the token of the first. Without rotation in `WriteRow` a
refresh that overlaps the expiry would revive the old token; without the unique
index two accounts would get one address.

### ReplayParser, Pipeline, ReplayAnalysis

`ReplayParser` has an action per attempt of `parse_with_fallback`: `ParseFile`
(58-72), `MergeTimeline` (75-87), `TimelineOnly` (90-98), `GiveUp` (101-107). Of a
replay it keeps whether its metadata can be read, its chunk count and its size,
which is what decides; of a `ParseResult` its quality, whether it holds the Riot
timeline and the replay's metadata, and the number of chunk headers.

In `Pipeline` a step is the end of an engine (`Finish`, `FinishMacro`,
`FinishIntent`), or one round of the two loops that read a field another engine
of the stage assigns: `RateRecall` reads `wave_timeline`, `SampleGame` reads
`composition`. `field` says what each engine has left in the context: nothing
yet, the default its `except` clause returns, or a result. `NextStage` is the end
of `_run_parallel`'s `with` block. `recalls` and `states` are the lists the two
loops build; `judged` tells whether `IntentEngine` had game states to compare
intents with. Other engines read nothing that changes while they run, so one step
each is enough.

`ReplayAnalysis` composes them. The worker does not call the parser or the
pipeline yet, so it starts them itself, and because the parser returns no
snapshots yet it also starts the pipeline alone, on a context with or without
them.

`PipelineContract` is what a caller may rely on, whatever runs in which thread: the
input stays as it was given, each engine leaves one value, after the engines it
may rely on, and the pipeline returns when all have. `ReplayAnalysis` maps its
`moment` to the stage, its `input` to the context's, and its `value` to `field`;
`Needs` is the order in which `run_analysis_pipeline` calls the stages. A round of
a loop and the end of a stage are stutters of it. Without `NextStage`'s guard an
engine would leave its value before one it needs; without the `except` of an
engine the pipeline would return with a value missing.

### The functions of the engines

In `Pipeline` an engine is a process whose result is a name; what it computes is
in the modules of functions, which no scheduling changes. `EngineCalls` has an
action per function: a behaviour chooses one input of one call, then the engine
answers. The inputs are the constants of the module, so that TLC enumerates those
at the thresholds and the proofs speak of all. `Answer` is the `run` of an engine.

Data is kept to what the code compares. Quotients are fractions (`[num, den]`) or
cross-multiplied, so a comparison that the code makes in floating point is exact
here; where it drops digits on purpose (`int(...)` in `utils.py:193`) the
rounding is modelled (`RoundedDown`). A champion is its archetype, a minion wave
the number of plain and of strong minions and its average position in twentieths
of the map, a fighter its health, its damage per second before armor and its
guard, and the time of a macro decision counts half minutes. Lists keep the order
of the code's dictionaries wherever "the first" decides (`TeamArchetype`,
`Patterns`, `FocusTasks`, `Actual`).

### History

`GetHistory` is one page of `GET /history`: `LIMIT` and `OFFSET` over the newest
first. The client is not in the repository; it is taken to advance its offset by
the rows it received (the server caps the limit at 100 without saying so) until a
page is empty. `NewAnalysis` inserts a row between two pages.

### AnalysisSystem

The three parts share no state: the functions have none, and the history reads
rows. Each behaviour is of one of them, the others staying idle, which is also
what the proofs about the whole use.

### What the models made visible and no run reports

Some of these places differ from a comment beside them:

* The Baron buff never ends. The comment of `game_state_engine.py:116-118` says
  that the flag is true only within three minutes of the kill and calls that an
  approximation; below it there is no code, so `baron_active` stays true for the
  rest of the game unless the other team kills Baron. `BaronShownWhileItLasts`
  therefore speaks of the three minutes only, and the theorem `BaronNeverExpires`
  states the missing expiry for games of any length. No other code reads the flag.
* `game_state_engine.py:22` describes COMEBACK as a large deficit "하지만 회복 중"
  (but recovering). The code tests the deficit only: a team that is losing ever
  more is in COMEBACK too, and BEHIND is the smaller deficit (`LeadsNeverHurt`).
* `intent_engine.py:27` counts an enemy "2000 유닛 이내" (within 2000 units), the
  code one who is nearer than 2000; the kill window of `PredictiveEngine` includes
  2000. `DangerIsTakenForAttack` exempts that distance.

Of the others no document says otherwise:

* An event exactly on a full minute is counted in both windows
  (`EveryKillCounted` says exactly when).
* A killer whose team is unknown counts as the enemy's.
* `wave_timeline` and `fight_verdicts` are not read by the stages that
  `game_context.py:137` and `:140` say depend on them.
* The score of a phase adds gold divided by 500, kills times 100 and towers times
  200: one kill weighs 50000 gold, so a lead in gold matters only when kills and towers
  balance.
* Macro decisions never recommend the dragon (its score is below the tower's before
  25:00 and below Baron's from 20:00), and blame a player for objectives that either side took.
* The advantage in the middle of the game is always even: it would need an
  archetype that is strong early and late.
* A kill window counts as a HIGH warning, so it is filed as a mistake of position
  (`game_context.py:243-250`), also when the enemy with little health is dead.
* A gank warning that is HIGH or worse is read as the player's own attempt to kill
  (`DangerIsTakenForAttack`).
* `VisionEngine` looks for BARON and HERALD in a list of events that says
  BARON_NASHOR and RIFTHERALD, so only the dragon is ever the next objective.
* The player's model is updated from an empty one each time, so frequencies do not
  accumulate over games yet.
* After 30 minutes recalls are rated by the last wave sample (`SamplesAreNear`).
* `VisionEngine`, `DataValidator` and `update_model` are called by nothing in the
  pipeline.

## 3. Runs

| Run | Instance | What it shows |
|---|---|---|
| `JobFaults` | 1 upload, 1 fallback job, 2 requests, 2 processes, 2 retries, 2 faults of any kind but "lock", "slow", "backlog" | `TypeOK`; 100 % in Redis implies a stored result; the replay outlives the save; a row past pending has its metadata unless a request was answered 500; complete and failed are final |
| `JobTimeouts` | 1 upload, 1 request, 2 processes, "lock", "connection", "slow", "backlog", 1 fault | mutual exclusion; every step implements `AnalysisContract` |
| `JobLiveness` | 1 upload, 2 requests, 2 processes, "publish", "connection", 1 fault, fair | the queue drains; a submitted upload completes |
| `AuthSessions` | 1 e-mail, 2 browsers, 5 requests, 1 fault of any kind | `TypeOK`; every step implements `SessionContract`; no token is exchanged twice; a live session is held by a browser |
| `ReplayAnalysis` | chunk counts 0 to 3, 10000 and 10001, sizes around one and two headers, timelines of 2 events at times 0 to 3, a minute of 2 units, snapshots of 3.5 minutes, 1 engine that raises, fair; inputs of the engines' functions at their thresholds; 5 analyses, pages of 2 | `TypeOK`; a fall back loses nothing that could be had; every step implements `PipelineContract`; intents see the game states; a concurrent result stays in sight; kills are counted, Baron is shown while its buff lasts; the analysis ends; the functions of the engines agree (below); a list read to its end skips nothing |

The properties of the functions, most of them a relation between two answers:

| Property | Hazard |
|---|---|
| `LookupsAgree`, `SamplesAreNear` | two ways to look up, ties, samples that end |
| `ValidMeansCovered`, `FightsAreSeenBefore` | the gap the validator accepts against the lookback of fights |
| `WavesAreMirrored`, `OpponentsAgree`, `WastefulIffWaveLost` | everything is computed from the blue side; crash times without minions; a recall against the crash |
| `FightsAreDecided`, `WindowsHaveVerdicts` | a guessed duration that cuts the fight; two fights in a millisecond |
| `ScalingMatchesPhases`, `LeadsNeverHurt` | two copies of a list; thresholds of both signs tested in turn |
| `RecommendedIsNotBlamed` | objectives have two names |
| `OwnKillsAreSeen`, `OneBaronWindowPerPeriod` | shared ends of windows; periods against scans |
| `DangerIsTakenForAttack`, `MistakesMoveFrequencies` | warnings that become mistakes, and their frequencies |
| `OwnWardsOnlyHelp` | the wards of the two teams |
| `AutoDecodes` | detection by magic bytes |
| `PagingSkipsNothing` | rows move while pages are read |

Violations, each a statement of the documents that the code does not keep:

| Run | Statement | What happens |
|---|---|---|
| `JobRetryLost` | `core/celery_config.py:36` "30초 후 재시도" | the retry finds the duplicate key that the first attempt set and ends as `already_submitted`; the row stays processing. A redelivery after a restart (`celery_config.py:31`) ends the same way |
| `JobTimeoutAfterSave` | `models/analysis.py:13-15`, complete has no successor | a soft limit after the save marks the saved job failed |
| `JobQueuedBeforeCommit` | `api/analysis.py:201`, metadata stored, then queued | the commit fails, the task runs without metadata |
| `JobFallbackStuck` | `api/analysis.py:336-337`, analysed from the match id | the worker downloads the empty S3 key, fails, and the retry is dropped |
| `AuthRegisterRace` | `api/auth.py:116`, 409 for an existing e-mail | the flush of the second of two concurrent registrations raises: 500 |
| `AuthCookieKept` | `api/auth.py:211`, the cookie is deleted | the deletion is written to a response that the raise replaces |
| `ParserPartialEmpty` | `parser/resilience.py:9` and `parser/SPEC.md:48`, PARTIAL is metadata and the Riot timeline | a replay with a chunk header but no decoded event is PARTIAL and returned; the Riot API, although available, is not asked |

**Bounds.** Two processes and two requests are the fewest that give a duplicate
and an overlap, and no rule of the code distinguishes a third. Two retries are the
code's own. Every fault can hit every statement; two faults are the longest chain
the code can react to differently (the failure of an attempt and the failure of
its handling), three retries being exhausted by two errors of Redis at most.
One job suffices for each kind because jobs share only the processes; the
fallback job is there as a second user of them. In `AuthSession` five requests
are a registration, a login, two refreshes and a login elsewhere. `JobTimeouts`
starts with one request because redelivery is what doubles the execution there.
The counters `clock` and `submitted` are bounded by the code's own limits.
In `ReplayAnalysis` times 0 to 3 with a minute of 2 units give events before, on
and after a minute boundary, and without snapshots on the last one and beyond it.
Snapshots end at 7, in the middle of a minute: the samples go on to 8, past the
three minutes of a Baron at 0 or 1, exactly to the end of those at 2, and not to the end of
those at 3. Two events are the fewest that meet in
one window, in two, or on the boundary between them; one engine that raises is
enough because no engine reacts to the failure of two. The chunk counts lie on
both sides of the limit and of what the sizes hold.

The inputs of the functions lie on both sides of every threshold, and on it:
leads of 1499, 1500, 2999 and 3000 and a kill that outweighs any gold; waves of
0, 1, 3 and 6 minions with and without cannons at both thirds of the map, one of
which is killed within a recall; distances of 1019, 1700, 2000 and 2720, the
limits of the three warnings; up to three mistakes of a game (`MaxMade`), the
fewest that raise a frequency more than once beside another type; objectives half a minute before and after a kill at
every limit of the clock. Half minutes 26 to 61 reach from before the herald leaves to
Baron's third period. Two events or two kills are the fewest that hide each
other, three champions the fewest with a majority, eight instants hold every
order of a time, two neighbours and the midpoint between them. Five rows in pages
of one and two move across a page boundary more than once.

**Symmetry** is used in safety runs only, on requests, processes and browsers.

**Fairness** (`FairSpec`): handlers resume when their statement can run (the event
loop does that) and a pool process that is alive goes on executing and fetching.
Clients, faults and time are not fair; so an upload may never be started, and
`UploadCompletes` starts from a submitted job. It excludes faults that lose the
job by design (`JobRetryLost`) and time ("slow", "backlog"), under which a job
may rightly fail.

In `ReplayAnalysis` the fairness is that of one call: it returns only after its
statements, the HTTP client has a timeout of 10 s (`resilience.py:121`), and the
executor runs every engine it was given, with one thread for each.

`CHECK_DEADLOCK FALSE` appears for `AuthSession`, where the requests of an
instance are used up, and for `ReplayAnalysis`, where the call returns.

## 4. Proofs

For every number of jobs, requests, processes, retries and faults, from
`ConstantsAssumption` and `LockOutlivesExecution` alone:

* `TypeCorrect` - `TypeOK`. It needs `ControlInv`: the statement a process is at
  determines the range of its `step` and that it has a message.
* `Exclusion` - `MutualExclusion`. Inductive with `LockInv`: while a process works
  on a job, what the key has lost of its TTL is at most what the execution has
  spent of its time limit. `Tick` is the step that needs it; `RunnerStep` shows
  that every other step leaves keys and executions alone or is `AcquireLock`.
* `DoneSignal`, `SourceKept` - from `ResultInv`: a process past its download works
  on a row that exists (through `SourceInv`: replays and URLs belong to rows), so
  its save takes effect, and a process past its save has a stored result.
* `MetadataPresent` - `ProcessingHasMetadata`, from `MetadataInv`: a message or an
  execution exists only if the metadata is stored, a request was answered 500, or
  a commit is under way that locks the row or will create it.
* `Refinement` - `Spec => ImplementsContract`: the initial states and every step
  map to the contract, with the invariants above. From the contract's steps alone
  (`ContractKeepsData`) follow `CompletedHasResult`, on which `get_result` relies
  when it answers 200 for a complete row without looking at its columns, and
  `NothingIsLost`: once a replay is uploaded, its job has the replay or the result,
  for ever.
* `StoredStaysSettled` - `StoredIsSettled`: a job whose result is stored never goes
  back to pending or processing, if time does not run out under a job ("slow",
  "backlog"). It allows errors of Redis at the `SET` and any other fault, and is what
  remains of `SettledIsFinal` with them: the row may be marked failed. Inductive as
  `StoredInv`: while anybody is about to touch such a job its key is there, so
  nobody comes to `MarkProcessing`. No run lists it, since the runs that allow
  "lock" let time pass as well.
* `SettledFinal` - `SettledIsFinal`, under `Undisturbed`. `FinalInv` says that while
  anybody executes, delivers or submits a settled job, its duplicate key is there;
  per process (`AttemptInv`), that whoever works on a job holds its key on the first
  attempt, that a retry finds the key, and that a row settles under a process only
  by its own save. So nobody gets as far as a write of the status. Each part of
  `Undisturbed` is needed: "slow" lets a time limit strike after the save
  (`JobTimeoutAfterSave`), "backlog" lets a message outlive the key, "lock" lets
  errors of Redis use up the retries and mark the row failed without the key, and
  with no retries an error after the save would do the same at once; a soft limit
  of zero would strike immediately. The code has 300 s and two retries.

In `AuthSession_proofs`, for any browsers, requests, accounts and faults:

* `SessionTypeCorrect`; `OneAccountPerEmail` - `UniqueEmail` - from `InsertInv` (an
  uncommitted INSERT holds its e-mail alone).
* `SessionRefinement` - `Spec => ImplementsSessionContract`, for any number of requests
  a browser has under way. Besides `InsertInv` it needs that what refers to an
  account refers to one that exists (`AccountsExist`) and that an account appears
  with the commit of the registration that made it (`AccountsAreNew`). A handler's
  commit is the interesting step (`CommitKeepsContract`); before it only a token
  may be decided (`TableKept`). From the contract alone follow
  `TokensIdentifyAccounts`, that the `SELECT` by token finds at most one valid row,
  and `EndedTokensStayEnded`, the docstring's promise that a replaced token is void.
* `TokensExchangedOnce` - `ExchangedOnce`, for finitely many requests and
  `Tabs = 1`: a browser waits for its answer before it sends again. Inductive with
  `ExchangeInv`: a token stored in a row was written by a commit, a cookie was
  received in an answer, nobody else exchanges the token of a refresh between its
  SELECT and its commit, and a token that has been exchanged is in no row.
* `SessionIsHeld` - `SessionHeld`, for one e-mail besides: `SessionInv` adds which
  request wrote the newest token and that its browser holds it or is about to.
  Both conditions are needed: with overlapping requests of a browser the last
  commit wins, and a browser has one cookie for all accounts.

In `ReplayAnalysis_proofs`, for all chunk counts, sizes, timelines, minutes and
numbers of failures, from `ParserConstants` and `PipelineConstants`:

* `TypeCorrectness` - `TypeOK`; `WindowFinite` makes the counters numbers.
* `NothingThrownAway` - `SourcesExhausted`, from `ParserInv`: how many requests
  have failed when an attempt begins.
* `PipelineRefinement` - `Spec => ImplementsPipelineContract`. `ContractNext` maps
  each kind of step (`KindsOfStep`: rounds, ends of engines, changes of stage): the
  end of an engine is `Leave`, the end of stage 4 is `Return`, `FromParseResult` is
  `Provide`, the rest stutters. It needs `StageInv`: a stage begins when the engines
  before it have ended, and an engine has ended exactly when it has left its
  value; `NeedsAreThere` is what follows for an engine that runs.
* `IntentsSeeTheGame` - `IntentsAreJudged`, from `JudgeInv`: the timeline of the
  game is empty only for a game without duration; `StageInv` orders the two.
* `ReadsStay` - `ReadsAreMonotone`, from `ReadInv`: what a round has seen is in the
  context now, and a field is assigned once.
* `PipelineIsComplete`, `ValuesAreFinal` - from `PipelineContract` alone
  (`ContractKeepsValues`): when the pipeline returns every engine has left a value,
  and a value that was left stays as it is.

In `GameStates_proofs`, under the same assumptions, `KillsAreCounted` -
`EveryKillCounted` - and `BaronAlwaysShown` - `BaronShownWhileItLasts`. Inductive
with `SampledInv`, which adds that the events are sorted and that a sample has the
flag of the last Baron before it, however old (`BaronFollowsLastKill`, stronger than the
property because a round of the loop starts from the flag of the one before): the
windows of two samples overlap in one instant only (`WindowFollows`), which is why
kills may be counted twice and the last Baron is still the last. `BaronNeverExpires`
follows from the same invariant and is what the code does against its comment: three
minutes after the kill the flag is still set.

In `History_proofs`, `PagingComplete` - `PagingSkipsNothing` - for any limits and
numbers of analyses: what the client has received contains the rows from the
newest at its beginning down to its offset (`Received`), since an insertion only
repeats rows (`PageIsInterval`).

In `EngineProperties_proofs`, from `EngineConstants` alone, which says of which
kind the inputs are and not how many: `CallsAreAnswered` says that a call has no
answer or the one its function returns, and a lemma about the functions leads
from there to each property of the table above (`LookupsAlwaysAgree`,
`SamplesAlwaysNear`, `ValidAlwaysCovered`, `FightsAlwaysSeenBefore`,
`WavesAlwaysMirrored`, `OpponentsAlwaysAgree`, `WastefulAlwaysIffLost`,
`WindowsAlwaysHaveVerdicts`, `ScalingAlwaysMatches`, `LeadsAlwaysHelp`,
`RecommendedNeverBlamed`, `DangerAlwaysTakenForAttack`, `OwnKillsAlwaysSeen`,
`OwnWardsAlwaysHelp`, `AutoAlwaysDecodes`, `BaronAlwaysOnce`, `FightsAlwaysDecided`,
`MistakesAlwaysMove`). The lookups rest on `Extremes_proofs`, which shows that a set of numbers
has its least and greatest element, and `SnapshotIsNearest`, that the binary search
finds a nearest key. `BaronCount` counts the periods by a bijection with the scans
that announce them. The fights rest on `DuelArithmetic`: the simulator cuts the
fight at the time both healths together would last, and `b * (m + e) - m * t`, what
is left to the enemy, has the sign that a race between the two would give, in
either case of the cut; `VerdictsFall` says that the verdict is monotone in the
health left, and `MinionsHurt` that a minion changes nothing else.

`MistakesAlwaysMove` is about repeated steps of a moving average. `Remaining` is a
recursive function, and the provers know no induction over data; `SetInduction`
replaces it by the least element of a set of numbers (those up to which a suitable
function exists, in `ShrinkingExists`). From its steps (`RemainingSteps`) follow its
range, that it falls and that it keeps the order of what it starts from
(`RemainingFalls`, `RemainingKeepsOrder`), and so a frequency moves as it should
(`FrequencyMoves`, `FrequencyKeepsOrder`). `FirstTaskIsMostFrequent` finds the first
task with `RankExists`: some element of a finite set of numbers has as many before
it as one asks for. Frequencies are whole units (`One` of them make 1, and a step
rounds down). How many mistakes a game has is not limited: for any `MaxMade` there
is a `One` that `EngineConstants` accepts, `10 ^ (2 * MaxMade)` for example. What it asks for is
that a unit be small enough for what a frequency lacks of 1 not to be rounded to
nothing before the last mistake (`MistakesCount`). In the code the unit is that of
the floats, whose moving average stops after 333 mistakes of one type in a game;
a game of 30 minutes is scanned 60 times and has at most 120 warnings that
count. Beyond what the floats tell apart a frequency would no longer rise, and the
first task might be tied with another; the model has no such end.

`AnalysisSystem_proofs` carries all of this to `SystemSpec`, which the run
`ReplayAnalysis` checks: a part of the system is idle for ever or behaves as it
does alone (`SystemParts`).

Only model-checked: liveness (`QueueDrains`, `UploadCompletes`,
`AnalysisCompletes`), which together with `ENABLED` is out of the prover's reach.
Every safety property of a run that passes is proved.

## 5. Not modelled

Reading one status or result; request validation; hashing, JWT encoding and
access-token expiry (the abilities they give are `access`); the Pub/Sub messages
of `_publish_progress` (they leave no state); the temporary file of the worker; the
timings of retries (a retry is simply a later message); the stub
`collect_benchmark` and the beat schedule; descriptions, win conditions and other
texts of the engines; power spikes (a filter by item number); the gap of the
player's model to a benchmark (one weighted mean); towers and dragons, which are
counted like kills; the bytes of a replay; rounding of floating-point numbers
where the code does not ask for it; rows of one `created_at`, whose order in the
list the database may choose anew for each page; timelines longer than the
validator's samples of 100 and 10 snapshots.

A statement of the code's documentation that the models contradict but that no
run shows: the docstring of `refresh` (`api/auth.py:191`) promises that a replaced
token logs the account out by force; the code only refuses it and clears the cookie
(`TokensExchangedOnce` is what remains true).

## 6. Plan

Done: the job service with its contract, accounts, the parser, the pipeline, the
functions of all engines, the validator, the history, and the proofs above.
Left, when the code gets there: `Validation` composed with `ReplayParser` once the
parser calls the validator, the player's model over several games once it is stored,
and the pipeline started by the worker once it is called from there.
