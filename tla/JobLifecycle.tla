---------------------------- MODULE JobLifecycle ----------------------------
(***************************************************************************)
(* Durable jobs of SonicForge: JobManager (jobs.py), the preprocessing     *)
(* wrapper around it (job_extensions.py) and the start-up recovery and     *)
(* shutdown of app.py.                                                     *)
(*                                                                         *)
(* Everything runs on one asyncio event loop, so a step of this model is   *)
(* the code a task executes between two suspensions.  pc[j] names the      *)
(* await at which the task of job j is suspended.  Task.cancel() only      *)
(* posts a cancellation (the set "posted"); it is thrown into the await    *)
(* the task is suspended at, so a posted task can do nothing else first.   *)
(*                                                                         *)
(* Outside the process: the Host's job record (host), the requests of its  *)
(* user to cancel (hostCancel) and the Resource Broker (broker).           *)
(***************************************************************************)
EXTENDS Naturals, FiniteSets

CONSTANTS
  Jobs,         \* the jobs that may be created
  Hosted,       \* jobs created with a HostedExecution
  Owners,       \* hosted jobs with owns_terminal = True
  Gpu,          \* hosted jobs for which _gpu_required answers True
  Exclusive,    \* GPU jobs that ask for the whole device (music)
  Prompted,     \* hosted audio.* jobs whose prompt is rewritten through the Host
  Voiced,       \* jobs whose logical voice may be gone when they start
  Exporting,    \* jobs with a project_output_grant
  HostCancels,  \* hosted jobs the Host's user may ask to cancel
  Faulty,       \* hosted jobs whose calls to the Host may raise HostApiError
  Cancelable,   \* bound: jobs cancel() is called for
  MaxCancels,   \* bound: cancel() calls per job
  MaxStops,     \* bound: crashes and shutdowns of the process
  None          \* no job

ASSUME ConstantsAssumption ==
  /\ Hosted \subseteq Jobs /\ Voiced \subseteq Jobs /\ Exporting \subseteq Jobs
  /\ Owners \subseteq Hosted /\ Gpu \subseteq Hosted /\ Exclusive \subseteq Gpu
  /\ Prompted \subseteq Hosted /\ HostCancels \subseteq Hosted /\ Faulty \subseteq Hosted
  /\ Cancelable \subseteq Jobs
  /\ MaxCancels \in Nat /\ MaxStops \in Nat
  /\ None \notin Jobs

VARIABLES
  proc,        \* the SonicForge process: up, closing (shutdown) or down
  stops,       \* crashes and shutdowns so far
  db,          \* Job.state
  wanted,      \* Job.cancel_requested
  cancels,     \* cancel() calls so far
  pc,          \* where the task of a job is suspended
  posted,      \* tasks with a cancellation posted and not delivered
  calling,     \* jobs whose cancel() is suspended in cancel_resource
  tracked,     \* keys of self.tasks (and, for hosted jobs, self.hosted)
  watching,    \* jobs whose Host-cancellation watcher runs
  renewing,    \* jobs whose lease heartbeat runs
  handle,      \* what HostedExecution knows: none, request or lease
  lock,        \* holder of process_lock
  workers,     \* jobs whose worker process is alive
  broker,      \* the Broker's record of the job's request
  host,        \* status of the Host's job record
  hostCancel   \* jobs whose cancellation the Host's user asked for

dbVars   == <<db, wanted, cancels>>
taskVars == <<pc, posted, calling, tracked, watching, renewing>>
gpuVars  == <<handle, broker>>
runVars  == <<lock, workers>>
hostVars == <<host, hostCancel>>
procVars == <<proc, stops>>
vars     == <<procVars, dbVars, taskVars, gpuVars, runVars, hostVars>>

Terminal   == {"succeeded", "failed", "canceled"}
Waiting    == {"requesting", "waiting", "activating"}
Working    == {"executing", "dropping", "aborting"}
Guarded    == Waiting \cup Working \cup {"locking", "post", "committing", "succeeding"}
Unwinding  == {"ending", "joining", "releasing"}
Live       == {"new", "prep", "first"} \cup Guarded \cup Unwinding
Labels     == Live \cup {"none", "gone", "done"}

TypeOK ==
  /\ proc \in {"up", "closing", "down"}
  /\ stops \in 0..MaxStops
  /\ db \in [Jobs -> {"absent", "queued", "running"} \cup Terminal]
  /\ wanted \subseteq Jobs
  /\ cancels \in [Jobs -> 0..MaxCancels]
  /\ pc \in [Jobs -> Labels]
  /\ posted \subseteq Jobs /\ calling \subseteq Jobs /\ tracked \subseteq Jobs
  /\ watching \subseteq Jobs /\ renewing \subseteq Jobs
  /\ handle \in [Jobs -> {"none", "request", "lease"}]
  /\ lock \in Jobs \cup {None}
  /\ workers \subseteq Jobs
  /\ broker \in [Jobs -> {"none", "pending", "granted", "active", "closed"}]
  /\ host \in [Jobs -> {"open"} \cup Terminal]
  /\ hostCancel \subseteq Hosted

Init ==
  /\ proc = "up" /\ stops = 0
  /\ db = [j \in Jobs |-> "absent"] /\ wanted = {} /\ cancels = [j \in Jobs |-> 0]
  /\ pc = [j \in Jobs |-> "none"]
  /\ posted = {} /\ calling = {} /\ tracked = {} /\ watching = {} /\ renewing = {}
  /\ handle = [j \in Jobs |-> "none"] /\ broker = [j \in Jobs |-> "none"]
  /\ lock = None /\ workers = {}
  /\ host = [j \in Jobs |-> "open"] /\ hostCancel = {}

-----------------------------------------------------------------------------
(* Pieces of a task's step.                                                *)

Goto(j, label) == pc' = [pc EXCEPT ![j] = label]

\* The task of j resumes from the await "label" with that await's result.
At(j, label) == pc[j] = label /\ j \notin posted

\* The cancellation posted to the task of j is thrown into the await "label".
Struck(j, label) == pc[j] = label /\ j \in posted /\ posted' = posted \ {j}

\* _set(state=s): the row is committed, then the Host is told.  Without a
\* HostedExecution nothing suspends, and the finally block runs to its end.
Settle(j, s, label) ==
  /\ db' = [db EXCEPT ![j] = s]
  /\ IF j \in Hosted
       THEN Goto(j, label) /\ UNCHANGED tracked
       ELSE Goto(j, "done") /\ tracked' = tracked \ {j}
  /\ UNCHANGED <<wanted, cancels>>

End(j, s)  == Settle(j, s, "ending")
Succeed(j) == Settle(j, "succeeded", "succeeding")

\* Mutant of Told: "canceled" is missing from the table of statuses.
ToldWithoutCanceled(j) ==
  host' = [host EXCEPT ![j] =
             IF j \in Owners /\ @ = "open" /\ db[j] # "canceled" THEN db[j] ELSE @]

\* The Host's record after the terminal report of j reached it: a job that
\* only hangs below another one sends no status, a closed record answers 409.
Told(j) ==
  host' = [host EXCEPT ![j] = IF j \in Owners /\ @ = "open" THEN db[j] ELSE @]

\* Entering "async with process_lock": no suspension when the lock is free,
\* then the worker is started; else the task queues.
EnterLock(j) ==
  \/ /\ lock = None
     /\ lock' = j /\ workers' = workers \cup {j}
     /\ Goto(j, "executing")
  \/ /\ lock # None
     /\ Goto(j, "locking")
     /\ UNCHANGED runVars

\* Mutant of Unwind: an early return past the finally block.
UnwindSkipped(j) == Goto(j, "done") /\ UNCHANGED <<watching, renewing>>

\* The finally block: both helper tasks are cancelled and gathered.
Unwind(j) ==
  /\ Goto(j, "joining")
  /\ watching' = watching \ {j} /\ renewing' = renewing \ {j}

-----------------------------------------------------------------------------
(* The job's task, one action per resumption.                              *)

\* Mutant of Create: the row is inserted with a state of its own.
CreateNew(j) ==
  /\ proc = "up" /\ db[j] = "absent"
  /\ db' = [db EXCEPT ![j] = "created"]
  /\ Goto(j, "new") /\ tracked' = tracked \cup {j}
  /\ UNCHANGED <<procVars, wanted, cancels, posted, calling, watching, renewing,
                 gpuVars, runVars, hostVars>>

\* create(): the row is queued, the execution and the task are registered.
Create(j) ==
  /\ proc = "up" /\ db[j] = "absent"
  /\ db' = [db EXCEPT ![j] = "queued"]
  /\ Goto(j, "new") /\ tracked' = tracked \cup {j}
  /\ UNCHANGED <<procVars, wanted, cancels, posted, calling, watching, renewing,
                 gpuVars, runVars, hostVars>>

\* run_with_preprocessing of a job whose prompt is rewritten first.
StartPrompted(j) ==
  /\ At(j, "new") /\ j \in Prompted
  /\ Goto(j, "prep")
  /\ UNCHANGED <<procVars, dbVars, posted, calling, tracked, watching, renewing,
                 gpuVars, runVars, hostVars>>

\* A Host error in the rewriting is absorbed, but not one in its progress report.
PromptFails(j) ==
  /\ At(j, "prep") /\ j \in Faulty
  /\ Goto(j, "gone")
  /\ UNCHANGED <<procVars, dbVars, posted, calling, tracked, watching, renewing,
                 gpuVars, runVars, hostVars>>

\* _run of a hosted job up to the report of "running".
StartHosted(j) ==
  /\ \/ At(j, "new") /\ j \in Hosted \ Prompted
     \/ At(j, "prep")
  /\ db' = [db EXCEPT ![j] = "running"] /\ Goto(j, "first")
  /\ UNCHANGED <<procVars, wanted, cancels, posted, calling, tracked, watching,
                 renewing, gpuVars, runVars, hostVars>>

\* _run of a local job: no suspension before the process lock.  A voice that
\* does not resolve raises before the try block.
StartLocal(j) ==
  /\ At(j, "new") /\ j \notin Hosted
  /\ db' = [db EXCEPT ![j] = "running"]
  /\ \/ EnterLock(j)
     \/ j \in Voiced /\ Goto(j, "gone") /\ UNCHANGED runVars
  /\ UNCHANGED <<procVars, wanted, cancels, posted, calling, tracked, watching,
                 renewing, gpuVars, hostVars>>

\* The report of "running", or the voice, failed: both outside the try block.
FirstFails(j) ==
  /\ At(j, "first")
  /\ j \in Faulty \/ j \in Voiced
  /\ Goto(j, "gone")
  /\ UNCHANGED <<procVars, dbVars, posted, calling, tracked, watching, renewing,
                 gpuVars, runVars, hostVars>>

\* The try block starts: the watcher is created, then _acquire_resource.
EnterTry(j) ==
  /\ At(j, "first")
  /\ watching' = watching \cup {j}
  /\ \/ /\ j \in Gpu
        /\ Goto(j, "requesting")
        /\ UNCHANGED <<dbVars, tracked, runVars>>
     \/ j \in Gpu /\ End(j, "failed") /\ UNCHANGED runVars   \* capability missing
     \/ j \notin Gpu /\ EnterLock(j) /\ UNCHANGED <<dbVars, tracked>>
  /\ UNCHANGED <<procVars, posted, calling, renewing, gpuVars, hostVars>>

\* The loop body of _acquire_resource on the Broker's answer.
Answered(j) ==
  /\ \/ /\ broker[j] = "granted"
        /\ handle' = [handle EXCEPT ![j] = "lease"] /\ Goto(j, "activating")
        /\ UNCHANGED <<dbVars, tracked>>
     \/ /\ broker[j] = "closed"
        /\ handle' = [handle EXCEPT ![j] = "request"] /\ End(j, "failed")
     \/ /\ broker[j] = "pending"
        /\ handle' = [handle EXCEPT ![j] = "request"] /\ Goto(j, "waiting")
        /\ UNCHANGED <<dbVars, tracked>>
  /\ UNCHANGED <<procVars, posted, calling, watching, renewing, broker, runVars, hostVars>>

RequestAnswered(j) == At(j, "requesting") /\ Answered(j)

\* One round of waiting: the report, the pause and resource_status.
StatusAnswered(j)  == At(j, "waiting") /\ Answered(j)

\* A Host error anywhere in the try block that leaves the lock free.
TryFails(j) ==
  /\ \E label \in Waiting \cup {"committing", "succeeding"} : At(j, label)
  /\ j \in Faulty
  /\ End(j, "failed")
  /\ IF pc[j] = "succeeding" THEN Told(j) \/ UNCHANGED host ELSE UNCHANGED host
  /\ IF pc[j] = "activating" /\ broker[j] = "granted"
       THEN broker' \in {broker, [broker EXCEPT ![j] = "active"]}
       ELSE UNCHANGED broker
  /\ UNCHANGED <<procVars, posted, calling, watching, renewing, handle, runVars, hostCancel>>

\* Mutant of Activated: no heartbeat task is started.
ActivatedWithoutHeartbeat(j) ==
  /\ At(j, "activating") /\ broker[j] = "granted"
  /\ broker' = [broker EXCEPT ![j] = "active"]
  /\ EnterLock(j)
  /\ UNCHANGED <<procVars, dbVars, posted, calling, tracked, watching, renewing,
                 handle, hostVars>>

\* lease_action(activate) answered; the lease may have been taken back meanwhile.
Activated(j) ==
  /\ At(j, "activating")
  /\ \/ /\ broker[j] = "granted"
        /\ broker' = [broker EXCEPT ![j] = "active"]
        /\ renewing' = renewing \cup {j}
        /\ EnterLock(j)
        /\ UNCHANGED <<dbVars, tracked>>
     \/ /\ broker[j] # "granted"
        /\ End(j, "failed")
        /\ UNCHANGED <<broker, renewing, runVars>>
  /\ UNCHANGED <<procVars, posted, calling, watching, handle, hostVars>>

\* The process lock passes to a job that queued for it.
LockAcquired(j) ==
  /\ At(j, "locking") /\ lock = None
  /\ EnterLock(j)
  /\ UNCHANGED <<procVars, dbVars, posted, calling, tracked, watching, renewing,
                 gpuVars, hostVars>>

\* execute() returned: without an output file the job is over, with one the
\* loop is applied and the asset stored.
WorkerDone(j) ==
  /\ At(j, "executing")
  /\ lock' = None /\ workers' = workers \ {j}
  /\ \/ Goto(j, "post") /\ UNCHANGED <<dbVars, tracked>>
     \/ Succeed(j)
  /\ UNCHANGED <<procVars, posted, calling, watching, renewing, gpuVars, hostVars>>

\* execute() failed (or a progress report did) and stops its worker.
WorkerFails(j) ==
  /\ At(j, "executing")
  /\ Goto(j, "dropping")
  /\ UNCHANGED <<procVars, dbVars, posted, calling, tracked, watching, renewing,
                 gpuVars, runVars, hostVars>>

\* Mutant of WorkerStopped: the error path keeps the process lock.
WorkerStoppedKeepsLock(j) ==
  /\ At(j, "dropping") /\ End(j, "failed")
  /\ workers' = workers \ {j}
  /\ UNCHANGED <<procVars, posted, calling, watching, renewing, gpuVars, lock, hostVars>>

\* _terminate saw the worker exit.
WorkerStopped(j) ==
  /\ \/ At(j, "dropping") /\ End(j, "failed")
     \/ At(j, "aborting") /\ End(j, "canceled")
  /\ lock' = None /\ workers' = workers \ {j}
  /\ UNCHANGED <<procVars, posted, calling, watching, renewing, gpuVars, hostVars>>

\* _apply_loop and _persist_audio_result, then the project output if asked for.
PostDone(j) ==
  /\ At(j, "post")
  /\ \/ j \in Exporting \cap Hosted /\ Goto(j, "committing") /\ UNCHANGED <<dbVars, tracked>>
     \/ j \in Exporting \ Hosted /\ End(j, "failed")
     \/ j \notin Exporting /\ Succeed(j)
     \/ End(j, "failed")                                     \* the loop failed
  /\ UNCHANGED <<procVars, posted, calling, watching, renewing, gpuVars, runVars, hostVars>>

Committed(j) ==
  /\ At(j, "committing")
  /\ Succeed(j)
  /\ UNCHANGED <<procVars, posted, calling, watching, renewing, gpuVars, runVars, hostVars>>

\* The terminal report returned: the finally block starts.
Reported(j) ==
  /\ At(j, "succeeding") \/ At(j, "ending")
  /\ \/ Told(j)
     \/ j \in Faulty /\ pc[j] = "ending" /\ UNCHANGED host
  /\ Unwind(j)
  /\ UNCHANGED <<procVars, dbVars, posted, calling, tracked, gpuVars, runVars, hostCancel>>

\* Mutant of Joined: only a lease is released, a pending request is left.
JoinedLeaseOnly(j) ==
  /\ At(j, "joining")
  /\ IF handle[j] # "lease"
       THEN Goto(j, "done") /\ tracked' = tracked \ {j}
       ELSE Goto(j, "releasing") /\ UNCHANGED tracked
  /\ UNCHANGED <<procVars, dbVars, posted, calling, watching, renewing, gpuVars, runVars, hostVars>>

\* Mutant of Joined: the task is dropped from self.tasks before the release.
JoinedForgotten(j) ==
  /\ At(j, "joining")
  /\ Goto(j, IF handle[j] = "none" THEN "done" ELSE "releasing")
  /\ tracked' = tracked \ {j}
  /\ UNCHANGED <<procVars, dbVars, posted, calling, watching, renewing, gpuVars, runVars, hostVars>>

\* The helpers are gone: _release_resource starts, if there is what to release.
Joined(j) ==
  /\ At(j, "joining")
  /\ IF handle[j] = "none"
       THEN Goto(j, "done") /\ tracked' = tracked \ {j}
       ELSE Goto(j, "releasing") /\ UNCHANGED tracked
  /\ UNCHANGED <<procVars, dbVars, posted, calling, watching, renewing, gpuVars, runVars, hostVars>>

\* What the Broker makes of a release (of a lease) or a cancellation (of a request).
Freed(j, what) ==
  IF what = "lease" \/ broker[j] \in {"pending", "granted"}
    THEN [broker EXCEPT ![j] = "closed"]
    ELSE broker

\* Errors of the release are swallowed; the lease is forgotten either way.
Released(j) ==
  /\ At(j, "releasing")
  /\ \/ broker' = Freed(j, handle[j])
     \/ j \in Faulty /\ UNCHANGED broker
  /\ handle' = [handle EXCEPT ![j] = "request"]
  /\ Goto(j, "done") /\ tracked' = tracked \ {j}
  /\ UNCHANGED <<procVars, dbVars, posted, calling, watching, renewing, runVars, hostVars>>

-----------------------------------------------------------------------------
(* A posted cancellation is thrown into the task.                          *)

\* Before the try block nothing catches it: no row is written, nothing is
\* popped.  In the finally block it abandons what is left of the block.
StruckUnguarded(j) ==
  /\ \E label \in {"new", "prep", "first", "joining", "releasing"} : Struck(j, label)
  /\ Goto(j, "gone")
  /\ \/ UNCHANGED broker
     \/ pc[j] = "releasing" /\ broker' = Freed(j, handle[j])
  /\ UNCHANGED <<procVars, dbVars, calling, tracked, watching, renewing, handle,
                 runVars, hostVars>>

\* In the try block, outside execute(): the handler records "canceled".  The
\* call that was cut off may or may not have reached the Host.  While ffmpeg
\* builds the loop, _run_bounded turns the cancellation into a WorkerError.
StruckGuarded(j) ==
  /\ \E label \in Guarded \ Working : Struck(j, label)
  /\ End(j, "canceled") \/ (pc[j] = "post" /\ End(j, "failed"))
  /\ IF pc[j] = "succeeding" THEN Told(j) \/ UNCHANGED host ELSE UNCHANGED host
  /\ \/ UNCHANGED broker
     \/ /\ pc[j] = "activating" /\ broker[j] = "granted"
        /\ broker' = [broker EXCEPT ![j] = "active"]
  /\ UNCHANGED <<procVars, calling, watching, renewing, handle, runVars, hostCancel>>

\* Mutant of StruckExecuting: execute() swallows the cancellation.
StruckExecutingSwallowed(j) ==
  /\ Struck(j, "executing")
  /\ Goto(j, "post") /\ lock' = None /\ workers' = workers \ {j}
  /\ UNCHANGED <<procVars, dbVars, calling, tracked, watching, renewing, gpuVars, hostVars>>

\* In execute(): the worker is sent SIGTERM and awaited.
StruckExecuting(j) ==
  /\ Struck(j, "executing")
  /\ Goto(j, "aborting")
  /\ UNCHANGED <<procVars, dbVars, calling, tracked, watching, renewing, gpuVars,
                 runVars, hostVars>>

\* Mutant of StruckStopping: release() is not in a finally.
StruckStoppingKeepsLock(j) ==
  /\ Struck(j, "dropping") \/ Struck(j, "aborting")
  /\ End(j, "canceled")
  /\ UNCHANGED <<procVars, calling, watching, renewing, gpuVars, runVars, hostVars>>

\* While execute() awaits the exit of its worker: the wait is given up, the
\* lock is released and the worker is left to exit by itself.
StruckStopping(j) ==
  /\ Struck(j, "dropping") \/ Struck(j, "aborting")
  /\ lock' = None
  /\ End(j, "canceled")
  /\ UNCHANGED <<procVars, calling, watching, renewing, gpuVars, workers, hostVars>>

\* Mutant of StruckEnding: the handlers are covered by the try block as well.
StruckEndingCaught(j) ==
  /\ Struck(j, "ending")
  /\ End(j, "canceled")
  /\ UNCHANGED <<procVars, calling, watching, renewing, gpuVars, runVars, hostVars>>

\* During the terminal report of a handler: straight on to the finally block.
StruckEnding(j) ==
  /\ Struck(j, "ending")
  /\ Told(j) \/ UNCHANGED host
  /\ Unwind(j)
  /\ UNCHANGED <<procVars, dbVars, calling, tracked, gpuVars, runVars, hostCancel>>

TaskStep(j) ==
  \/ StartPrompted(j) \/ PromptFails(j) \/ StartHosted(j) \/ StartLocal(j)
  \/ FirstFails(j) \/ EnterTry(j)
  \/ RequestAnswered(j) \/ StatusAnswered(j) \/ Activated(j) \/ TryFails(j)
  \/ LockAcquired(j) \/ WorkerDone(j) \/ WorkerFails(j) \/ WorkerStopped(j)
  \/ PostDone(j) \/ Committed(j) \/ Reported(j) \/ Joined(j) \/ Released(j)
  \/ StruckUnguarded(j) \/ StruckGuarded(j) \/ StruckExecuting(j)
  \/ StruckStopping(j) \/ StruckEnding(j)

-----------------------------------------------------------------------------
(* cancel() and the two helper tasks.                                      *)

\* Task.cancel() of the registered task; nothing happens to a finished one.
Post(j) == posted' = IF j \in tracked /\ pc[j] \in Live THEN posted \cup {j} ELSE posted

\* The head of cancel(), common to both branches.
CancelCalled(j) ==
  /\ proc = "up" /\ j \in Cancelable \ calling
  /\ cancels[j] < MaxCancels
  /\ cancels' = [cancels EXCEPT ![j] = @ + 1]
  /\ wanted' = wanted \cup {j}

\* Mutant of CancelQueued: the row is settled, the task goes on.
CancelQueuedRowOnly(j) ==
  /\ CancelCalled(j) /\ db[j] = "queued"
  /\ db' = [db EXCEPT ![j] = "canceled"]
  /\ UNCHANGED <<procVars, taskVars, gpuVars, runVars, hostVars>>

\* A queued job is settled by cancel() itself.
CancelQueued(j) ==
  /\ CancelCalled(j) /\ db[j] = "queued"
  /\ db' = [db EXCEPT ![j] = "canceled"]
  /\ Post(j)
  /\ UNCHANGED <<procVars, pc, calling, tracked, watching, renewing, gpuVars, runVars, hostVars>>

\* A running one that still waits at the Broker: the request is withdrawn
\* first, over the network; the task is cancelled only when that returned.
CancelWaiting(j) ==
  /\ CancelCalled(j) /\ db[j] = "running"
  /\ j \in tracked /\ handle[j] = "request"
  /\ calling' = calling \cup {j}
  /\ UNCHANGED <<procVars, db, pc, posted, tracked, watching, renewing, gpuVars, runVars, hostVars>>

\* Mutant of CancelRunning: only hosted jobs are cancelled.
CancelRunningHosted(j) ==
  /\ CancelCalled(j) /\ db[j] = "running"
  /\ IF j \in Hosted THEN Post(j) ELSE UNCHANGED posted
  /\ UNCHANGED <<procVars, db, pc, calling, tracked, watching, renewing, gpuVars, runVars, hostVars>>

\* Any other running job: its task is cancelled at once.
CancelRunning(j) ==
  /\ CancelCalled(j) /\ db[j] = "running"
  /\ ~(j \in tracked /\ handle[j] = "request")
  /\ Post(j)
  /\ UNCHANGED <<procVars, db, pc, calling, tracked, watching, renewing, gpuVars, runVars, hostVars>>

\* cancel_resource returned, whatever its answer: the task is cancelled.
CancelResumes(j) ==
  /\ j \in calling
  /\ calling' = calling \ {j}
  /\ \/ broker' = Freed(j, "request")
     \/ j \in Faulty /\ UNCHANGED broker
  /\ Post(j)
  /\ UNCHANGED <<procVars, dbVars, pc, tracked, watching, renewing, handle, runVars, hostVars>>

\* The watcher reads the Host's control record and cancels the task.
WatchCancels(j) ==
  /\ j \in watching /\ j \in hostCancel
  /\ watching' = watching \ {j}
  /\ Post(j)
  /\ UNCHANGED <<procVars, dbVars, pc, calling, tracked, renewing, gpuVars, runVars, hostVars>>

\* The watcher gives up on 401, 403 and 409, the heartbeat on any error.
HelperFails(j) ==
  /\ j \in Faulty
  /\ \/ j \in watching /\ watching' = watching \ {j} /\ UNCHANGED renewing
     \/ j \in renewing /\ renewing' = renewing \ {j} /\ UNCHANGED watching
  /\ UNCHANGED <<procVars, dbVars, pc, posted, calling, tracked, gpuVars, runVars, hostVars>>

-----------------------------------------------------------------------------
(* The process: crash, graceful shutdown, start-up.                        *)

\* What dies with the process.  Worker processes are sessions of their own.
MemoryLost ==
  /\ proc' = "down"
  /\ pc' = [j \in Jobs |-> IF pc[j] \in {"none", "done"} THEN pc[j] ELSE "gone"]
  /\ posted' = {} /\ calling' = {} /\ tracked' = {} /\ watching' = {} /\ renewing' = {}
  /\ handle' = [j \in Jobs |-> "none"]
  /\ lock' = None

Crash ==
  /\ proc \in {"up", "closing"} /\ stops < MaxStops
  /\ stops' = stops + 1
  /\ MemoryLost
  /\ UNCHANGED <<dbVars, workers, broker, hostVars>>

\* shutdown() cancels every registered task ...
BeginShutdown ==
  /\ proc = "up" /\ stops < MaxStops
  /\ proc' = "closing" /\ stops' = stops + 1
  /\ posted' = posted \cup {j \in tracked : pc[j] \in Live}
  /\ UNCHANGED <<dbVars, pc, calling, tracked, watching, renewing, gpuVars, runVars, hostVars>>

\* ... and awaits them.
EndShutdown ==
  /\ proc = "closing"
  /\ \A j \in tracked : pc[j] \notin Live
  /\ MemoryLost
  /\ UNCHANGED <<stops, dbVars, workers, broker, hostVars>>

\* Mutant of Startup: only running rows are settled.
StartupRunningOnly ==
  /\ proc = "down"
  /\ proc' = "up"
  /\ db' = [j \in Jobs |-> IF db[j] = "running" THEN "failed" ELSE db[j]]
  /\ UNCHANGED <<stops, wanted, cancels, taskVars, gpuVars, runVars, hostVars>>

\* lifespan: what a previous process left queued or running has failed.
Startup ==
  /\ proc = "down"
  /\ proc' = "up"
  /\ db' = [j \in Jobs |-> IF db[j] \in {"queued", "running"} THEN "failed" ELSE db[j]]
  /\ UNCHANGED <<stops, wanted, cancels, taskVars, gpuVars, runVars, hostVars>>

-----------------------------------------------------------------------------
(* The environment: the Host's user, the Resource Broker, the system.      *)

HostUserCancels(j) ==
  /\ j \in HostCancels \ hostCancel /\ db[j] # "absent" /\ host[j] = "open"
  /\ hostCancel' = hostCancel \cup {j}
  /\ UNCHANGED <<procVars, dbVars, taskVars, gpuVars, runVars, host>>

\* request_resource reached the Broker; its answer is still under way.
BrokerReceives(j) ==
  /\ pc[j] = "requesting" /\ broker[j] = "none"
  /\ broker' = [broker EXCEPT ![j] = "pending"]
  /\ UNCHANGED <<procVars, dbVars, taskVars, handle, runVars, hostVars>>

\* An exclusive job shares the GPU with no other lease; the rest live together.
BrokerGrants(j) ==
  /\ broker[j] = "pending"
  /\ \A k \in Jobs :
       broker[k] \in {"granted", "active"} => j \notin Exclusive /\ k \notin Exclusive
  /\ broker' = [broker EXCEPT ![j] = "granted"]
  /\ UNCHANGED <<procVars, dbVars, taskVars, handle, runVars, hostVars>>

BrokerRejects(j) ==
  /\ broker[j] = "pending"
  /\ broker' = [broker EXCEPT ![j] = "closed"]
  /\ UNCHANGED <<procVars, dbVars, taskVars, handle, runVars, hostVars>>

\* A lease nobody activates or renews expires.
BrokerExpires(j) ==
  /\ broker[j] \in {"granted", "active"} /\ j \notin renewing
  /\ broker' = [broker EXCEPT ![j] = "closed"]
  /\ UNCHANGED <<procVars, dbVars, taskVars, handle, runVars, hostVars>>

\* A worker nobody waits for any more exits.
OrphanExits(j) ==
  /\ j \in workers /\ pc[j] \notin Working
  /\ workers' = workers \ {j}
  /\ UNCHANGED <<procVars, dbVars, taskVars, gpuVars, lock, hostVars>>

-----------------------------------------------------------------------------

Next ==
  \/ \E j \in Jobs :
       \/ Create(j) \/ TaskStep(j)
       \/ CancelQueued(j) \/ CancelWaiting(j) \/ CancelRunning(j) \/ CancelResumes(j)
       \/ WatchCancels(j) \/ HelperFails(j)
       \/ HostUserCancels(j) \/ BrokerReceives(j) \/ BrokerGrants(j)
       \/ BrokerRejects(j) \/ BrokerExpires(j) \/ OrphanExits(j)
  \/ Crash \/ BeginShutdown \/ EndShutdown \/ Startup

Spec == Init /\ [][Next]_vars

(***************************************************************************)
(* Fairness.  The event loop runs every task that can run, and the Broker  *)
(* lets leases expire that are not renewed.  The rest is assumed of what   *)
(* is outside, for nothing in the code limits it: that a call of the Host  *)
(* ends (client.py, _raw: timeout=None), that a worker ends (workers.py,   *)
(* readline) and that the Broker grants or ends a request within its       *)
(* max_wait_sec.  Nobody has to create, cancel or stop anything.           *)
(***************************************************************************)
Fairness ==
  /\ \A j \in Jobs :
       /\ WF_vars(TaskStep(j)) /\ WF_vars(CancelResumes(j)) /\ WF_vars(WatchCancels(j))
       /\ WF_vars(BrokerReceives(j)) /\ WF_vars(BrokerGrants(j) \/ BrokerRejects(j))
       /\ WF_vars(BrokerExpires(j)) /\ WF_vars(OrphanExits(j))
  /\ WF_vars(EndShutdown) /\ WF_vars(Startup)

FairSpec == Spec /\ Fairness

-----------------------------------------------------------------------------
(* Safety.                                                                 *)

\* process_lock serializes the heavy workers (jobs.py:127): no two worker
\* processes are alive at once, through failures and cancellations.
WorkersSerialized == \A j, k \in workers : j = k

\* The lock is held exactly by the task that runs or stops a worker; every
\* way out of execute() gives it back, and a job waiting for the GPU never
\* has it (resource waiting does not consume unrelated execution slots).
SlotHeldByWork == \A j \in Jobs : lock = j <=> pc[j] \in Working

\* Where a task is suspended tells what its row says.  A row settled by
\* cancel() before its task started belongs to a task that is bound to be
\* cancelled, so that no job runs behind a terminal row.
RowsMatchTasks ==
  \A j \in Jobs :
    /\ pc[j] = "none" <=> db[j] = "absent"
    /\ pc[j] \in {"new", "prep"} =>
         db[j] = "queued" \/ (db[j] = "canceled" /\ j \in posted)
    /\ pc[j] \in {"first"} \cup (Guarded \ {"succeeding"}) => db[j] = "running"
    /\ pc[j] = "succeeding" => db[j] = "succeeded"
    /\ pc[j] = "ending" => db[j] \in {"failed", "canceled"}
    /\ pc[j] \in {"joining", "releasing", "done"} => db[j] \in Terminal

\* Every task that is not over can be reached by cancel() and shutdown(), a
\* local one never waits for the Host, and none outlives the process.
TasksReachable ==
  \A j \in Jobs :
    /\ pc[j] \in Live => j \in tracked /\ proc # "down"
    /\ pc[j] \in Live /\ j \notin Hosted =>
         pc[j] \in {"new", "locking", "post"} \cup Working

\* A hosted GPU job runs or stops a worker only while its lease is active at
\* the Broker: activated before the worker starts, released after the task
\* has let go of it.  (A heartbeat that met one error lets the lease expire.)
WorkUnderLease ==
  \A j \in Gpu \ Faulty : pc[j] \in Working => broker[j] = "active"

\* A task that ran its finally block to the end left nothing at the Broker,
\* neither the lease nor a request that was never granted.
DoneHoldsNothing ==
  \A j \in Gpu \ Faulty :
    pc[j] = "done" /\ handle[j] # "none" => broker[j] = "closed"

\* A job's end is recorded by the job (jobs.py:211): no task is over while
\* its row still says queued or running.
JobNamesItsEnd ==
  \A j \in Jobs : proc = "up" /\ pc[j] \in {"gone", "done"} => db[j] \in Terminal

\* The jobs for which that is so: local ones whose voice resolves.  It takes
\* in cancellations at every await, and start-up after a crash.
LocalNamesItsEnd ==
  \A j \in Jobs \ (Hosted \cup Voiced) :
    proc = "up" /\ pc[j] \in {"gone", "done"} => db[j] \in Terminal

\* Once cancel() was accepted a local job does not succeed.
CancelNeverSucceeds == \A j \in wanted \ Hosted : db[j] # "succeeded"

\* Every accepted cancellation of a local job is recorded as one: the requests
\* converge to the durable state "canceled" (docs/implementation-status.md:791).
WithdrawnIsCanceled ==
  \A j \in wanted \ Hosted : stops = 0 /\ pc[j] = "done" => db[j] = "canceled"

\* When the task of a CPU job that owns its Host record is done, the Host
\* shows the state the row has, whatever was cancelled in SonicForge.
HostAgrees ==
  \A j \in Owners \ (Gpu \cup Faulty \cup HostCancels) :
    stops = 0 /\ pc[j] = "done" => host[j] = db[j]

\* A failure or a cancellation is never rewritten: not by a task that was
\* cancelled while queued, not by a second error, not by start-up.
EndedFinal ==
  [][\A j \in Jobs : db[j] \in {"failed", "canceled"} => db'[j] = db[j]]_vars

\* The rows of local jobs behave as the contract of a durable job says; a
\* hosted job may lose its success to the report of it.
Contract == INSTANCE JobContract WITH
  Jobs <- Jobs \ Hosted, state <- [j \in Jobs \ Hosted |-> db[j]]
ContractHolds == Contract!Spec

(* Liveness, under FairSpec.                                               *)

\* Every created job comes to an end, whoever holds the GPU or the lock: a
\* local one always, a hosted one unless somebody cancels it or the Host fails.
EveryJobEnds ==
  \A j \in Jobs \ (Faulty \cup Voiced) :
    db[j] # "absent" ~> db[j] \in Terminal \/ j \in Hosted \cap (wanted \cup hostCancel)

\* A cancellation of a local job that was accepted takes effect.
CancelTakesEffect ==
  \A j \in Jobs \ Hosted : j \in wanted ~> db[j] \in {"canceled", "failed"}

\* The Broker gets back what it granted, by release or by expiry.
LeaseComesBack ==
  \A j \in Gpu : broker[j] \in {"granted", "active"} ~> broker[j] = "closed"
=============================================================================
