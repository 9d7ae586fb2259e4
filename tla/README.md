# SonicForge in TLA+

SonicForge is a local audio service (speech synthesis and recognition, sound
effects, music, meetings, live conversation) that runs alone or as an add-on of a
Host, ControlDeck. The Host lends it the GPU through a Resource Broker, keeps a Job
record of its own for what was started from there, and runs language models for it.
This directory holds TLA+ modules for the parts whose correctness depends on the
order of events, the TLC configurations that check them and the proofs TLAPS checks.
`PROJECT.json` maps every definition to the lines it stands for.

The backend is one process with one asyncio event loop. So the modules share one
idea of atomicity: **a step is the code a task executes between two suspensions**.
`Task.cancel()` posts a cancellation; it is thrown into the `await` the task is
suspended at, and the task does nothing before that.

## 1. Inventory

| Component | Source (`src/backend/sonicforge/`) | State | Operations | What makes it correct |
|---|---|---|---|---|
| Durable jobs | `jobs.py`, `job_extensions.py`, `db.py` | rows (`state`, `cancel_requested`), `tasks`, `hosted`, `process_lock`, lease ids of each `HostedExecution` | create, cancel, wait, shutdown, `_run` and its exits, watcher, lease heartbeat | every job ends once and says how; no work without a lease; leases come back; one heavy worker at a time |
| Prompt rewriting | `prompting.py` | none | one Host call before a job or a stage | its failure never costs the job |
| Application | `app.py`, `local_api.py` | setup tasks, the lifespan | start-up recovery, shutdown order, setup jobs, generation batches, step-aside | nothing of a dead process looks alive; shutdown leaves nothing behind |
| Warm workers | `workers.py` | `_warm`, `_warm_used_at`, `_warm_busy`, `_hold_all_warm` | `execute`, `keep_engines_warm`, sweep, step-aside, retire | one loaded engine, never cut while it works, never forgotten |
| Pipelines | `pipeline_runtime.py`, `prompt_pipeline_runtime.py`, `pipeline_schema.py`, `pipeline_api.py` | row, current value, the lease of the stage | compile, run stages, deliver | leases are local to a stage; Host AI and a lease are never held together; typed stages fit |
| Live resources | `live_session_resources.py`, `persistent_workers.py` | leases, AI hold, heartbeats, workers of a v2 session | start, execute, close | what a session took it gives back, whatever failed on the way; an answer without an id goes to its request |
| Live host session, worker pool | `live_host_session.py`, `live_workers.py` | leases, hold, Host Job; loaded workers, requests under way | admit, evict, execute, close | no loaded worker without its lease; an answer goes to its request; a closed session holds nothing |
| Live runtime | `live_api.py`, `live_runtime.py`, `live_streaming_extensions.py`, chunkers | the socket's turn, two bounded queues text -> synthesis -> delivery | record, turn, stream, fall back, leave | the answer is spoken in order and once; no task waits for ever; nothing is spoken after the end |
| Meetings, live v2 | `meeting_api.py`, `live_v2.py` | segment queues, processor task, rows of segments | record, cut, commit, finish, release | no segment lost or doubled; finishing and releasing end |
| Edge protocol, spools | `edge_protocol.py`, `spool.py`, `uploads.py` | 32-bit sequence numbers, bounded buffers | observe, put, append | wrap-around, late and doubled frames |
| Setup | `setup.py`, `bootstrap.py` | component rows, runtime, backup and staging directories | apply, build, swap, cancel | an interrupted installation is never taken for a whole one |
| Host client | `host/*.py` | none of its own | resource, lease, job, AI and device calls | which answers are errors, which are swallowed |
| Event bus | `events.py` | subscriber queues | publish, subscribe | a slow subscriber stops nobody |
| Catalogues, assets, delivery | `tts_models.py`, `tts_samples.py`, `voice_catalog.py`, `models_catalog.py`, `asset_download.py`, `audio_delivery.py`, `delivery_api.py` | files and rows | list, download, derive | mostly queries |
| Legacy import | `legacy_data.py` | two SQLite files | one migration | all or nothing |
| Audio processing | `audio*.py`, `vocal_language.py` | none | ffmpeg command lines | data |
| Configuration, access | `config.py`, `access.py`, `capabilities.py`, `schemas.py`, ... | none | checks | data |
| Worker packs | `src/worker_packs/` | the model of an engine | one request, one result | the line protocol |
| Frontend, scripts | `src/frontend/`, `src/scripts/` | | | not part of the service |

How they interact: HTTP handlers create rows and tasks (`JobManager.create`,
`PipelineRuntime.create`) and cancel them; a job's task asks the Broker for a lease,
queues for `process_lock`, calls `execute()`, which starts a worker process or takes
a warm one, and reports to the row, the event bus and the Host. Beside it run a
watcher (did the Host's user cancel?), a heartbeat (renew the lease), the idle
sweeper and the Host's step-aside requests. They share `tasks`, the lease ids, the
pool of warm workers and the row, and meet only at suspensions.

Live sockets and meetings share none of this with jobs but the Broker: each socket
has a Host session and a pool of loaded workers of its own, which its turn or its
segment processor uses from one task at a time, while lease renewals and the hold's
heartbeat run beside it and worker processes answer or die when they like. A live
turn is itself a registered task with a row, so `JobManager.cancel` reaches it.

What is hard: cancellation, which can arrive at any `await`, the clean-up's own
included; Host calls that fail or are cut off between being sent and being
answered; choices made before an `await` and used after it; processes that outlive
the task that started them; a crash between the row and everything else; answers
that arrive after the request was given up; bounded queues whose other end is gone.

## 2. Modules

| Module | Models |
|---|---|
| `JobContract` | what a durable job promises: accepted, started at most once, ended once, final |
| `JobLifecycle` | `JobManager`, the preprocessing wrapper, start-up and shutdown, beside a Host and a Broker |
| `JobLifecycleProofs` | the proofs about it |
| `MCJobLifecycle` | its TLC instances |
| `WarmWorkers` | `execute()`, the warm pool, batches, sweeper, step-aside, shutdown |
| `WarmWorkersProofs` | the proofs about it |
| `MCWarmWorkers` | its TLC instances |
| `Pipeline` | `compile_pipeline`, submission, `PipelineRuntime` with its prompt-aware subclass, the Host's language model and Broker |
| `PipelineProofs` | the proofs about it |
| `MCPipeline` | its TLC instance: the requests |
| `LivePool` | what one live or meeting socket owns: `LiveHostSession` and `LiveWorkerPool` |
| `LivePoolProofs` | what every operation of it keeps true |
| `LiveTurn` | a push-to-talk socket and its turns, streaming and fallback, over one `LivePool` |
| `LiveTurnProofs` | the proofs about it |
| `Meeting` | a recorded meeting: socket, queue, processor, minutes, over one `LivePool` |
| `LiveV2` | a `sonic-live/2` socket: resources, persistent workers, segments, release |
| `MeetingProofs` | the proofs about both |
| `EdgeFrames` | sequence numbers and their tracker |
| `Localization` | the lines of a localization batch |
| `StreamBatchProofs` | the proofs about both |
| `Setup`, `SetupProofs` | provisioning of runtimes: build, swap, cancellation, restarts; the proof |
| `MCLive` | TLC instance of the six modules above that are specifications |

### JobLifecycle

`pc[j]` names the `await` the task of job `j` is suspended at:

| `pc` | suspended in |
|---|---|
| `new` | the task is created and has not run |
| `prep` | `normalize_sfx_prompt` / the rewriting before `_run` |
| `first` | the report of `running` (`jobs.py:972`) and `_resolve_voice` |
| `requesting`, `waiting`, `activating` | `_acquire_resource`: `request_resource`, the polling round, `lease_action(activate)` |
| `locking` | `async with process_lock` |
| `executing`, `dropping`, `aborting` | `execute()`: the worker runs; it failed and is being stopped; it was cancelled and is being stopped |
| `post` | `_apply_loop` (ffmpeg) and the storing of the asset |
| `committing` | `commit_file` into a project of the Host |
| `succeeding` | the report of the success |
| `ending` | the report of a failure or cancellation in a handler |
| `joining`, `releasing` | the `finally` block: `gather` of the helpers, `_release_resource` |
| `done`, `gone` | the task is over, through the `finally` block or past it |

`db` is the committed row, `host` the Host's record, `broker` the Broker's record of
the job's one request, `handle` what the `HostedExecution` knows of it (nothing, a
request id, a lease id). `posted` holds the cancellations that are posted and not
delivered. `watching` and `renewing` say whether the two helper tasks run, `calling`
whether a `cancel()` is suspended in `cancel_resource`. `lock` is the holder of
`process_lock`, `workers` the jobs with a live worker process. `wait()` changes
nothing and is the reader that `JobNamesItsEnd` is about.

Kinds of jobs are constants: `Hosted` (from the Host), `Owners` (their Host record
ends with them), `Gpu`, `Exclusive` (asks for the whole device), `Prompted`,
`Voiced` (its voice may not resolve), `Exporting`, and for the environment
`HostCancels`, `Faulty` (Host calls of these jobs may fail at any time),
`Cancelable`. `MaxCancels` and `MaxStops` bound `cancel()` calls and process deaths.

Abstractions: a Host call is one suspension and may have taken effect when it is cut
off; the first and last reports always suspend, though `ProgressGate` may drop one
(more interleavings, never fewer); progress in the middle is no state; a hosted job
has a Host client; a localization batch is the single phase `executing`; the Broker
answers a job it does not share with only when the device is free.

### WarmWorkers

`execute()` runs under `process_lock`, so there is one request under way (`run`),
which remembers key, process and whether it keeps its worker. `warm`, `stamp` and
`busy` are `_warm`, `_warm_used_at` (none, fresh, or older than `WARM_IDLE_SEC`) and
`_warm_busy`; `open` is the batches whose number is `_hold_all_warm`. `retire[r]` is
the activation of `_retire` in a task `r` (sweeper, step-aside requests, ending
batches, lifespan): the keys left, the keys chosen, the process it awaits. A process
in `told` had its stdin closed, one in `struck` was sent a signal. `Exit` lets a
process end at any time, by itself too.

Abstractions: a batch is any client of `keep_engines_warm`; the order in which
`_retire` visits its keys is arbitrary (a superset of the dictionary's); process
names are reused once nothing refers to them.

### Pipeline

A pipeline is a job whose task runs typed stages, so `db`, `posted`, `calling`,
`watching`, `renewing`, `handle` and `lock` mean what they mean in `JobLifecycle`.
New are `request` (what was submitted), `at` (the stage, counted from `start_at`),
`value` (the kind of the current `PipelineValue`), `verdict` (what a `finally` block
is left with: it goes on, or an exception is under way; `misfit` is a refusal for the
shape of the request), `broker[p][i]` (the Broker's record of the request of stage
`i`) and `ai` (the Host's language model on behalf of the pipeline).

| `pc` | suspended in |
|---|---|
| `new`, `first` | not started; the report of `running` (`pipeline_runtime.py:521`) |
| `source` | `read_grant` |
| `consulting`, `asking`, `freeing` | capabilities and progress; `ai_complete`; `ai_release` of the `finally` block |
| `excusing`, `recanting` | `normalize_sfx_prompt` reports that it does without: no model was asked; one was, and is released next |
| `requesting`, `waiting`, `activating` | `_acquire_resource` |
| `locking`, `executing`, `stopping` | `process_lock`; `execute()` or `process_audio()`; its worker is being stopped |
| `yielding` | the `finally` block of a worker stage: heartbeat, `_release_resource` |
| `committing`, `succeeding`, `ending` | `commit_file`; the last report |
| `unwinding`, `releasing` | the last `finally` block |
| `done`, `gone` | as in `JobLifecycle` |

Whether a pipeline comes from the Host is part of its request (`by`). A step that
leaves a stage runs on to the next suspension: through the rest of the loop, the next
stage's checks (`BeginStage`), or the delivery (`Deliver`).

Abstractions: stage ids are positions; `asset`, `http` and `package` delivery are
one mode (`stored`: all of it synchronous, and it may fail on the disk); which stages
need a GPU is a constant (`route` and the installed runtimes decide it); the Host's
language model fits beside shared leases and not beside an exclusive one; a request
that compiled compiles again in `_run`, from the row it was stored in. A process
death and a shutdown do to a pipeline what `JobLifecycle` shows, and the life of
worker processes is that of `WarmWorkers`; neither is repeated here.

### LivePool

The state a socket owns. `leases`, `hold`, `pooled` are `_leases`, `hold_id` and
`_workers`; `broker[k]` and `holds` are the Host's side of them; `proc[k]` is the
worker process of key `k` with the requests it was sent (`todo`) and the lines it has
printed and nobody has read. `op` is the one pool or hold operation under way:

| `op.step` | suspended in |
|---|---|
| `asking`, `polling`, `activating` | `acquire_worker_lease`: `request_resource`, the polling round, the activation |
| `room` | a refused admission stops the loaded peer first (`live_workers.py:143`) |
| `clearing`, `evicting` | `_evict` of a dead worker before its restart; `evict()` |
| `admitting`, `spawning` | about to ask again; `create_subprocess_exec` |
| `reading` | `execute()` reads the worker's lines |
| `holding`, `dropping` | `ensure_llm_hold`; `release_llm_hold`: a cancellation may cut it before or after the Host was told |
| `returned` | the caller has not looked at the result yet |
| `stranded` | not an operation: a `close()` that was cut off (below) |

`faults` counts what went wrong and `misled` says that a Host call failed or that the
Host took something away: from then on the session cannot know what the Host keeps.
`Abandon` is a cancellation thrown into `op` and what the `except` and `finally`
blocks leave behind. `LiveTurn`, `Meeting` and `LiveV2` extend the module, call its
operations in their own actions and let `Background` and `Operation` interleave.

`stranded`: when the socket's coroutine is cancelled while the handler of a close
message closes the pool (`live_api.py:639`), the `finally` block calls `close()`
again, which returns at once because `_closed` is set; workers not yet evicted stay,
and the Host session releases their leases. `WorkerUnderLease` and `GivesBack` except
this state by name. `Lapses` is the renewal of a lease that ends at its first Host error
(`live_host_session.py:246`): nothing stops the worker or tells the pool, and the lease
runs out under it, although the acceptance plan asks for a renewed lease under every
persistent worker (`docs/CODEX_LOCAL_ACCEPTANCE.md:258`). `WorkerUnderLease` says so by
`lapsed`.

### LiveTurn

`handler` is what the socket awaits, `main` what the turn's task awaits; `Route` is
the order of stages in each of the four courses of a turn (`plan`): `stream` (answer
streamed and spoken while it is written), `whole` (Host that does not stream),
`staged` (transcribe, ask, synthesise) and `translate`. `writer`, `voice` and
`speaker` are the three tasks of the `TaskGroup` in `live_streaming_extensions.py`,
`textQ` and `audioQ` its bounded queues; `main = "again"` is the fallback that speaks
the collected chunks after the language model was released. A chunk of text is its
number, and audio is the chunk it was made for, the request that was written for it
and the request that was answered: `SpeaksItsText` compares them. The first
`_stream_ai_to_tts` of `live_runtime.py` is replaced when
`live_streaming_extensions` is imported and never runs.

### Meeting

`meeting` is what `meeting_ws` awaits, `clerk` what its processor awaits. `backlog` is
the queue, `pending` the unfinished items `join()` waits for, `files` the spool files
of segments, `segments` the rows. `Flush` is `flush_chunk`, `Enter` the row of a
segment with its clean-up and `task_done`. The processor can die where no handler
catches it: its working directory lies outside the `try` (`ClerkDies`,
`meeting_api.py:255`), and so does the row of a failed segment that cannot be written
either (`EntryLost`, `meeting_api.py:352`). Then `join()` waits for ever if an item was
not done or is still queued, and else the processor's exception ends the meeting
(`JoinBroken`).

### LiveV2

`v2` is what the socket's coroutine or its release awaits, `scribe` the state of
`meeting_task`, `work` what `process_segment` awaits. The resources are `LivePool`'s
variables; admission answers are its actions. Persistent workers know no request ids:
`ReadLine` takes whatever line comes, and the ids in the model exist only to be
compared by `V2Whole`. `after` is what follows a commit, `shaken` that the release was
cancelled once and shielded it off.

### EdgeFrames, Localization, Setup

`EdgeFrames` numbers frames modulo `2 * Half` and counts them without a modulus beside
it; `next` is the tracker's `_next`. Frames arrive in any order, twice or not at all;
what is further than half the width away is taken for lost (`InReach`), since no
receiver could place it.

`Localization`: `entries` holds per line and locale what `qa.locales`, `input_hashes`
and `outputs` say; a job's `mode` picks the items (`Wanted`), each is read, changed and
committed without an await between, and the batch is judged by all its lines at the
end. The hash of an item is the number of the settings it was rendered from. A job
takes any of the locales, and a line without a text in one of them (`Texts`) has no
item there.

`Setup`: `setup[s]` is a setup's row, what its task awaits and the components left;
`active`, `backup` and `staged` are the directories, a runtime being the fingerprint it
was built for. `Built` and `Swapped` are the two renames of the swap: only the end of
the process or a failing rename comes between (`torn`). Setups run side by side, as
nothing in the code keeps two of them from one component. A setup whose command was
being stopped when a second cancellation came is `adrift` (`CommandLeft`): it is over,
its command may not be, and its staging directory may stay; `SetupTellsTruth` says
nothing of that directory then.

### MCLive

The six specifications share no state but that of `LivePool`, of which every socket
has one of its own, so one behaviour runs one of them (`scene`) while the others rest
in their initial states. That makes one run of six questions and changes nothing about
any of them.

## 3. Runs

| Run | Instance | Shows |
|---|---|---|
| `job_safety` | a hosted GPU job (prompted, exporting), a local job (exporting), a local job with a doubtful voice; 2 cancels each, 1 crash or shutdown; 1.0 M states | leases cover the work (`WorkUnderLease`), come back (`DoneHoldsNothing`), local jobs name their end, an accepted cancel is never a success, rows refine `JobContract` |
| `job_faults` | a GPU job of a failing Host, a CPU job of a good one | lock, rows and tasks stay consistent under every Host error; an ended row is never rewritten; the Host learns the end |
| `job_live` | two GPU jobs (one exclusive) and a local one; one of them is cancelled, up to twice, so that the second cancellation may strike the clean-up of the first; 66 k states, fair | every job ends; an accepted local cancel takes effect; every lease comes back, by release or by expiry |
| `warm_pool` | a speech engine and one only batches keep, three processes, one batch, one step-aside request | the pool hands out no worker that is on its way out; no speech worker is lost, doubled or left behind; busy marks are exact |
| `pipeline_stages` | one pipeline of a Host that answers (AI then music into a project; recognition then a rewritten effect), one of a Host that fails or hangs, or local (recognition then AI; processing; requests refused at once or at run time); one cancellation each; 0.3 M states, fair | no lease and language model at once, leases are local to a stage, what was cut off is released at the end, the model is given back, the lock is held exactly by work, what compiled fits when it runs, a pipeline of a Host that answers ends if the process lock is not kept from it |
| `live_sessions` | six scenes (`MCLive`): a live socket of two turns and four courses, a meeting of two segments with translation and minutes, a v2 socket of two segments in three presets, six frames over numbers modulo four, a batch of two lines in two locales (one line lacks a text) under two jobs, two setups of two components with one restart; 0.76 M states, fair | no worker without its lease and nothing kept by a closed session, in turns, meetings and v2 sockets; answers, segments and audio are whole, in order and matched to their requests; nothing is spoken after the end; a turn ends unless someone outside keeps it waiting for ever; a release ends past a stuck processor; gaps are exact; batches and components say what is true |
| `job_unnamed_end` | one hosted CPU job | violation: an end that the job does not name |
| `job_two_workers` | two local jobs | violation: two workers at once |
| `job_loop_cancel` | two local jobs | violation: a cancellation recorded as a failure |
| `warm_cut` | two kept engines, a step-aside request | violation: a running request is cut |
| `warm_orphan` | the same | violation: a kept worker nothing retires |
| `meeting_leak` | a v2 meeting, one fault | violation: a processor that died leaves leases and workers behind |

Bounds. Two jobs are enough for everything that is about one job and a competitor
(lock, device); the third in `job_safety` is of another kind, and in `job_live` it
competes for the lock without a lease. Two cancels let one strike the clean-up of the
other; in `job_live` the job that is cancelled is any of two, but one in each behaviour
(`MCJobLifecycle!OneCanceled`), since `job_safety` has cancellations of several jobs
side by side. One stop is enough: start-up settles everything, and no later step depends on
how often it happened. In `WarmPool` a key can have a worker in the pool, one on its
way out and one being started: three processes. Two keys let one retirement await one
worker while the other is used.

`pipeline_stages` has two pipelines because everything shared (device, model, lock)
needs one holder and one that waits; each request has at most two active stages,
because a stage hands nothing but a value to the next, and `Exclusive` is music as in
`_resource_estimate`. One request compiles to nothing because its third stage cannot
be fed, others because of `start_at`. One cancellation strikes every suspension; the
loss of the release it can cause at `freeing` is stated in `ModelGivenBack`, and
`EndsWithoutLease` is about tasks that ran their last `finally` block to its end.

`live_sessions`: two faults, because the hard cases are a failure on the way out of
another one (a worker that dies while its peer is refused, a cancellation during a
release). Two lines and two locales, with one line that exists in one of them only,
give jobs on part of the locales and an item that is missing. Queues of one make every
`put` wait once; chunks, segments, commits and turns are two, so that there is an
earlier one an answer could wrongly belong to and a later one that could come too early. Both workers need the GPU, which is the case
that evicts peers; a worker without a lease (`Acquire` for a key outside `Gpu`) is not
in the run and is covered by the proofs, which hold for every `Gpu`. `Execute` on a
closed pool does not occur, as every caller stops its tasks before it closes. Six
frames over four numbers go round the numbering more than once, and `Half = 2` is the
least width at which ahead and behind differ. Two setups, each of one component or
both, meet at every suspension; a restart may bring a newer version, so that a runtime
that is in place is not the one that is wanted.

Every property of a passing run has a mutant, a plausible defect of the code under
which TLC finds it violated (`PROJECT.json`, "mutants"; each is defined just before
the definition it replaces).

Fairness. What the code itself sees to is that the event loop runs every task that
can run, and that whoever is cancelled is struck at the `await` it is suspended at.
How long an `await` on somebody else lasts, it mostly leaves open:
`ControlDeckClient._raw` passes `timeout=None` to httpx (`host/client.py:598`), which
switches the client's own ten seconds off; so does the stream (`client.py:426`); only
`ai_release` (130 s) and the creation of a residency hold (190 s) have a limit. Reads
from a worker have none (`workers.py:536`, `live_workers.py:234`), nor has `join()` of a
meeting's queue. So every liveness property rests on an assumption about the outside
or says what it takes from it:

* `EveryJobEnds`, `CancelTakesEffect`, `LeaseComesBack` (`JobLifecycle!Fairness`) assume
  a Host that answers its calls, a Broker that decides (requests carry `max_wait_sec`)
  and workers that end. Nothing in the code limits these waits: with a Host or a worker
  that hangs, the job waits with it. `job_live` has no failing Host (`Faulty = {}`).
* `EveryPipelineEnds` assumes this of the pipelines outside `Faulty` only. A pipeline in
  `Faulty` may hang wherever the wait has no limit (`Unlimited`, `Hangs`), with the
  process lock too. Therefore the property is conditional: if no such pipeline keeps
  the lock for ever (`[]<>(lock \notin Faulty)`), the others end. It excepts one that was
  cancelled in its first report, the case of `job_unnamed_end`.
* `TurnEnds` assumes nothing of Host, worker or client. `Outside` says when a turn
  waits for one of them, and `LiveFairness` covers the service's own steps only. The
  property: if the turn is not from some moment on kept waiting outside, it ends; it is
  never stuck at a queue, in its group, or after a cancellation.
* `ReleaseEnds` assumes that the Host answers the calls of the release (`V2Fairness` is
  fairness of `Cleanup`), and nothing of the worker: the release waits five seconds for
  its processor and then cancels it. It begins when the end mark is in the queue; the
  `put` before it (`live_v2.py:641`) has no limit, and with a full queue and a processor
  stuck in a request it waits as long as that does.

Creating, cancelling, crashing and Host errors are never fair: nobody has to do them.
An unrenewed lease expires, an abandoned worker exits and the Host drops a model
nobody uses: properties of the Host and of processes, weakly fair. No run with a
liveness property has symmetry or a state constraint; `OneCanceled` limits which unfair
steps are taken, and nothing that has to happen.

### Findings

* `job_unnamed_end`: the first report (`jobs.py:972`) and `_resolve_voice`
  (`jobs.py:979`) run before the `try` block. A cancellation or an error there ends
  the task with a row that says `running`; `wait()` then polls for ever, until the next start.
* `job_two_workers`: a cancellation while `execute()` awaits the exit of a failed
  worker gives up the wait (`workers.py:572`, `579`), and `process_lock` with it; the
  next worker starts beside it, and the `SIGKILL` of the first is never sent.
* `job_loop_cancel`: `_run_bounded` (`jobs.py:630`) turns a cancellation into
  `WorkerError`, so the job is recorded as failed, not canceled.
* `warm_cut`: `_retire` works through keys that were idle when it was called, but
  awaits up to seconds between them.
* `meeting_leak`: `_release` puts the end mark and awaits the processor
  (`live_v2.py:643`); when the processor died of an error of its own, that error leaves
  `_release` before `resources.close()`: leases, hold and worker processes of the
  session stay, and the Host Job stays open.
* `warm_orphan`: a request that does not keep its worker drops the pool's entry of
  the one that was kept for the same engine (`workers.py:564`).

## 4. Proofs

For every set of jobs of every kind and every bound, `JobLifecycleProofs` shows

* `Invariance`: `IInv == TypeOK /\ RowsMatchTasks /\ TasksReachable /\ SlotHeldByWork`
  is inductive. None of its parts is inductive alone. That `host` keeps its type needs
  the row of a task in its last report to be terminal (`RowsMatchTasks`); that a row
  settled while queued has a cancellation behind it needs its task to be registered
  (`TasksReachable`), and so does start-up, which must not meet a live task. From it
  `TypeCorrect`, `SlotCorrect`, `RowsCorrect`, `ReachableCorrect`.
* `EndedStays` (`EndedFinal`) and `ContractImplemented` (`JobContract` as a
  refinement), from one lemma, `RowChanges`, on what a step can do to a row.
* `LeaseInvariance`: `LeaseDiscipline` on top of `IInv`, relating suspension,
  `handle`, `broker` and heartbeat; from it `WorkUnderLeaseHolds` and
  `DoneHoldsNothingHolds`. It is restricted to jobs of a Host that does not fail: a
  heartbeat that met an error lets the lease expire under the worker.
* `LocalInvariance`: `LocalRuns` on top of `IInv`, on where the cancellation of a local
  job is: posted as long as its task can still be struck, or thrown into a worker that
  is being stopped, and no longer there once the task is over; one that is struck
  before it starts had its row settled by `cancel()`. From it `LocalNamesItsEndHolds`
  and `CancelNeverSucceedsHolds`.
* `HostInvariance`: `HostFollows` on top of `IInv`, on when the Host's record of a CPU
  job is still open: until its last report, during which no cancellation can be
  posted, because `cancel()` refuses a row that has ended. From it `HostAgreesHolds`.

Assumed: `ConstantsAssumption` (which kinds include which), nothing else.

For every set of keys, processes, batches and requests, `WarmWorkersProofs` shows
`PoolInvariance`: `IInv == TypeOK /\ Core /\ DrainOrder`. `Core` says of every process
where it is: the request under way is in a shape its suspension allows (`RunShape`);
pool and processes agree on the engine (`EnginesMatch`); one that is awaited by a
retirement is in no pool (`RetiredUnpooled`) and one in the pool was neither told nor
struck (`PoolStays`); a served worker that is kept is the pool's (`ServedKept`); one
that is being stopped was struck (`StoppingStruck`); a speech worker is in the pool,
served or on its way out (`SpeechKept`); a busy key is the served one. `DrainOrder`
says how far the shutdown is. From it follow all six properties of `warm_pool`:
`PoolTypeCorrect`, `PoolAlwaysServes`, `SpeechAlwaysAccounted`,
`OneSpeechWorkerHolds`, `BusyIsServedHolds`, `NothingLeftBehindHolds`. Assumed:
`WarmAssumption`. The proofs hold in spite of the two findings (`RunningNotCut`,
`KeptStaysSwept`): a worker that is cut or orphaned still breaks none of the six.

`PipelineProofs` is about any pipelines, requests and kinds of stages. A step of a
pipeline's task runs on through helpers that nest (a stage is left, the rest of the
loop runs, the next stage is checked and entered, or the value is delivered), so the
lemmas say what is left of a row after each helper (`Lands`, `Onward`, `Leaves`), and
a step is one of them. Two invariants:

* `IInv`: `TypeOK`, `LockIsForWork` and `CompiledFits` are inductive only together with
  `Shaped`: the request that runs was accepted, so the stage `at` exists, and what
  enters it, given that every stage gives what its kind gives, is what it takes
  (`Entering`; the lemma `Compiled` reads that off the checks of `compile_pipeline`);
  and a refusal for the shape of the request is never what the `finally` block of a
  stage is left with. From it `PipelineTypeCorrect`, `LockCorrect`, `CompiledFitsHolds`.
* `LeaseInv`, on top of it, ties `pc`, `handle`, the Broker's record of each stage,
  the heartbeat and the Host's language model together. From it `HoldsOneHolds` (for
  pipelines whose Host answers: one that fails may keep what it was told to give
  back), `LeaseOfStageHolds`, `EndsWithoutLeaseHolds`, `ModelGivenBackHolds`.

Assumed: `PipelineAssumption`.

`StreamBatchProofs` shows `GapsAccounted` for every width and any number of frames.
The invariant (`TrackInv`) says that `next` is the number of the frame after the newest one that was
let through (or that none was), and that gaps and frames add up to the distance between
the first and the newest. The rest is arithmetic modulo the width: two numbers within
one width that agree modulo it are equal (`OneRemainder`, `WrapsOnce`), so a frame
ahead within reach shows its true gap (`AheadIsGap`) and one behind is told to be old
(`BehindIsOld`). Assumed: `EdgeAssumption`, that `Half` is positive.

It also shows `BatchTellsTruth` for all lines, locales and settings. Two parts of
`LocInv` strengthen it: `MidJob` (while a job is under way the batch says
rendering, and the settings are those of a request) and `PendingDone` (in mode pending, whatever is picked and no
longer left has succeeded, unless the tally says otherwise). Assumed:
`LocalizationAssumption`.

`LivePoolProofs` has one lemma per operation of the pool, each of the form *if `PoolInv`
holds, it holds after the operation*, and `PoolInvSuffices`, which gives
`WorkerUnderLease` and `GivesBack`. `PoolInv` is

* `LeasesAgree`: `leases` and the Broker agree, but for the key being activated;
* `AliveLeased`, `AlivePooled`: a living worker has its lease, and is in the pool or is
  the one `op` is stopping. Without the second, a spawn that fails could take the
  lease from under a worker that still lives;
* `AdmissionShape`: a key that is being admitted has no lease and no worker. Without it
  an answer of the Broker could overwrite a lease in use;
* `HoldCounted`: what the session believes of the hold is what the Host has, until a
  Host call went wrong;
* `Correlated`: an operation that ends well has the answer to its own request;
* `ClosedIsEmpty`: after `CloseSession` nothing is left that a background task could
  bring back.

`MeetingProofs` puts them together for `Meeting`: that the session is closed only after
the pool is empty and the processor stopped (`ClosesLast`) makes `PoolInv` an invariant
of the composition, whence `MeetingUnderLease` and `MeetingGivesBack`; `WholeInv` adds
where each segment is (`Placed`: recorded, held by the processor or in the queue, in
that order and each once) and what the course of the meeting implies (`Course`), whence
`MeetingWholeHolds`. Assumed: `PoolAssumption`, `MeetingAssumption`.

`LiveTurnProofs` is about push-to-talk turns of any plan and length, with queues of any
capacity. `LivePoolHolds` shows `WorkerUnderLease` and `GivesBack`: one caller at a
time uses the pool (`OneCaller`: the turn's task or the synthesis of its group, while
the socket waits for the turn and the turn for its group), so the lemmas of
`LivePoolProofs` apply to every step until a cancelled `close()` strands the pool;
`Stranded` is the invariant of what goes on after that. `SpeaksItsTextHolds` and
`ReplyWholeHolds` rest on where each chunk is: what the client heard, what waits in
`audioQ`, what synthesis holds, what was kept for the fallback and what waits in
`textQ` are consecutive numbers up to that of the last chunk written (`AudioInOrder`,
`TextInOrder`), as long as no task of the group failed with a chunk in its hands
(`Intact`); and each stage of a turn knows how much of that is over (`SaidSoFar`).
`QuietAfterEndHolds` is an action property of the same invariant. Assumed:
`PoolAssumption`, `TurnAssumption`.

For `LiveV2`, `MeetingProofs` shows `V2WholeHolds`. Persistent workers know no request
ids, so that an answer is the right one is a matter of what can be unread: `Wire` says
that, as long as anybody asks (`Asking`: the socket's own coroutine before its
release, or the processor while it lives), the only worker with anything unread is the
one that is being read, and what it printed is what is left of the answer to that
request (`Shapes`). This fails once nobody asks: an operation that ended in an error
may leave lines behind, and the session is over before they could be read
(`AskingEnds`). `Reader` says whose an operation is, `V2Course` which suspensions of
socket, release, processor and segment go together, `V2Placed` that the segments of a
meeting are in its transcript, in the processor's hands or queued, numbered in this
order, with the end mark last and only during the release, and `Spelt` how much of the
segment under way was spoken. Assumed: `PoolAssumption`, `V2Assumption`.

This proof corrected the model: `StopScribe`, reached by a second cancellation while the
release awaits the processor, called a processor that had already died `cut`, and
`V2Whole` asks for complete minutes of those. It takes three faults, one more than the
run has; the action now leaves a processor that is over as it is, as the `wait` on a
finished task does.

`SetupProofs` shows `SetupTellsTruth` for any components, setups and restarts. The
property is not inductive: the first rename of a swap discards the backup an available
component may rest on. `Backed` adds that a component without a runtime in place is
not called available while any setup is about to replace it (each announces it as
installing first); `PassedInPlace` that what a setup was asked for is left to do, in
place or being swapped; `StagedOwned` that a staging directory is that of the
component its setup works on; `OneSwap` that the two renames of one setup are not
mixed with another's. Assumed: `SetupAssumption`.

Model-checked only: the liveness properties `EveryJobEnds`, `CancelTakesEffect`,
`LeaseComesBack`, `EveryPipelineEnds`, `TurnEnds` and `ReleaseEnds` (liveness under
fairness is out of reach of TLAPS), and, for `LiveV2` alone, `WorkerUnderLease` and
`GivesBack`, which are proved for turns and meetings. Every other property of a passing
run is a theorem.

## 5. Not modelled, and why

* `ProgressGate` (`jobs.py`): which reports it drops is over-approximated (any may
  suspend); its arithmetic on floating point numbers is planned.
* v2 sockets without a Host identity: they take no lease, hold or Host Job, so what is
  left of `LiveV2` is its processor without resources.
* Credentials and the credential heartbeat of a session's Host Job: they decide no
  branch but errors, and errors are modelled at every call.
* `BoundedAudioQueue` has no caller. The spools (`spool.py`, `uploads.py`) are files
  that one task appends to and reads back.
* The chunkers and voice activity detection: where text and speech are cut is data.
* Setup: `pip`, model downloads and licence checks are external commands; plan and
  status are queries. What a command that was left running (`adrift`) still writes into
  its staging directory is not followed. Two things the model does but no property speaks of: a setup
  whose progress call fails or is cancelled leaves its component saying `installing`
  (`setup.py:701`), and one cancelled before its task ran keeps a row `queued` until
  the next start (`app.py:356`).
* `events.py`: a publisher never suspends, and nothing but a browser reads it.
* Legacy import: one transaction over two SQLite files at start-up, before anything
  else runs.
* Catalogues, downloads, configuration, access checks, request schemas, listing
  endpoints: one synchronous function or one file each, without a state that a later
  call depends on.
* Signal handling, ffmpeg command lines, inference in the worker packs: data.
* The Host, its Broker and its language model: external. They appear as the answers
  the code in `src/` provides for, nothing more.
* The frontend and the release scripts.

## 6. Plan

What is done: the modules of section 2, their runs, and the proofs of section 4. Left,
in this order:

1. `WorkerUnderLease` and `GivesBack` for `LiveV2`, whose start and end take and give
   back leases and workers by steps of their own.
2. Proofs of refinement beyond `JobContract`: a pipeline's row as a durable job.
3. `ProgressGate` over exact binary fractions; downloads; legacy import.
