------------------------------ MODULE Pipeline ------------------------------
(***************************************************************************)
(* Durable pipelines: compile_pipeline (pipeline_schema.py), submission    *)
(* (pipeline_api.py), PipelineRuntime and its prompt-aware subclass.  A    *)
(* pipeline is a job of JobManager whose task runs typed stages one after  *)
(* the other; each stage asks for a lease of its own, and Host AI does its *)
(* own admission, so that a pipeline must never hold both.                 *)
(*                                                                         *)
(* Steps and cancellations are those of JobLifecycle: pc[p] names the await*)
(* the task is suspended at, a posted cancellation is thrown into it.      *)
(***************************************************************************)
EXTENDS Naturals, Sequences, FiniteSets

CONSTANTS
  Pipelines,   \* the pipelines that may be submitted
  Offers,      \* the requests each may be submitted with
  Gpu,         \* kinds of stages that are routed to the GPU
  Exclusive,   \* those of them that ask for the whole device
  Japanese,    \* pipelines whose prompts for sound effects are rewritten
  Faulty,      \* pipelines whose calls to the Host may fail or never be answered
  MaxStages,   \* bound: stages of a request
  MaxCancels,  \* bound: cancellations of a pipeline, by either user
  None         \* no pipeline

Kinds  == {"ai", "asr", "tts", "sfx", "music", "process"}
Inputs == {"text", "file", "grant", "stream"}
Modes  == {"text", "stored", "project", "websocket"}

Requests ==
  [by : {"host", "local"}, input : Inputs, stages : UNION {[1..n -> Kinds] : n \in 1..MaxStages},
   from : 1..MaxStages, to : 1..MaxStages, mode : Modes]

ASSUME PipelineAssumption ==
  /\ Faulty \subseteq Pipelines /\ Japanese \subseteq Pipelines
  /\ Gpu \subseteq Kinds \ {"ai", "process"} /\ Exclusive \subseteq Gpu
  /\ \A p \in Pipelines : Offers[p] \subseteq Requests
  /\ MaxStages \in Nat /\ MaxCancels \in Nat
  /\ None \notin Pipelines

VARIABLES
  request,   \* Job.request of a submitted pipeline
  db,        \* Job.state
  pc,        \* where its task is suspended
  posted,    \* tasks with a cancellation posted and not delivered
  calling,   \* the stage whose request a suspended cancel() withdraws, or 0
  cancels,   \* cancellations so far
  watching,  \* pipelines whose Host-cancellation watcher runs
  at,        \* the stage it is in
  value,     \* the kind of the current PipelineValue
  verdict,   \* what a finally block is left with: ok, failed, canceled, misfit
  lock,      \* holder of process_lock
  handle,    \* the ids in HostedExecution: none, request or lease
  renewing,  \* pipelines whose lease heartbeat runs
  broker,    \* the Broker's record of each stage's request
  ai         \* Host AI on behalf of the pipeline: none, asked, loaded

dataVars   == <<request, at, value, verdict>>
cancelVars == <<posted, calling, cancels, watching>>
leaseVars  == <<handle, renewing, broker>>
vars == <<dataVars, cancelVars, leaseVars, db, pc, lock, ai>>

-----------------------------------------------------------------------------
(* compile_pipeline.                                                       *)

Takes(kind) == IF kind \in {"asr", "process"} THEN "audio" ELSE "text"
Gives(kind) == IF kind \in {"asr", "ai"} THEN "text" ELSE "audio"
InputGives(r) == IF r.input = "text" THEN "text" ELSE "audio"

\* The stages from start_at to stop_after.
Active(r) == SubSeq(r.stages, r.from, r.to)

\* Mutant of Compiles: the input is matched with the first stage of the request.
CompilesFromTop(r) ==
  /\ r.to <= Len(r.stages) /\ r.from <= r.to
  /\ Takes(r.stages[1]) = InputGives(r)
  /\ \A i \in r.from..(r.to - 1) : Gives(r.stages[i]) = Takes(r.stages[i + 1])
  /\ r.mode = "text" => Gives(r.stages[r.to]) = "text"
  /\ r.mode \in {"stored", "project"} => Gives(r.stages[r.to]) = "audio"

\* Every stage gets what it takes, the delivery what it delivers.
Compiles(r) ==
  /\ r.to <= Len(r.stages) /\ r.from <= r.to
  /\ Takes(r.stages[r.from]) = InputGives(r)
  /\ \A i \in r.from..(r.to - 1) : Gives(r.stages[i]) = Takes(r.stages[i + 1])
  /\ r.mode = "text" => Gives(r.stages[r.to]) = "text"
  /\ r.mode \in {"stored", "project"} => Gives(r.stages[r.to]) = "audio"

\* What submit() refuses without a Host.
NeedsHost(r) ==
  \/ \E i \in r.from..r.to : r.stages[i] = "ai"
  \/ r.input = "grant" \/ r.mode = "project"

-----------------------------------------------------------------------------

Waiting == {"requesting", "waiting", "activating"}
Asking  == {"consulting", "asking", "excusing", "recanting", "freeing"}
Working == {"executing", "stopping"}
Live    == {"new", "first", "source", "locking", "yielding", "committing", "succeeding",
            "ending", "unwinding", "releasing"} \cup Waiting \cup Asking \cup Working
Final   == {"succeeded", "failed", "canceled"}
Open    == {"pending", "granted", "active"}
Verdicts == {"ok", "failed", "canceled", "misfit"}

Stage(p)  == Active(request[p])[at[p]]
Hosted(p) == request[p].by = "host"

TypeOK ==
  /\ \A p \in Pipelines : pc[p] # "none" =>
       request[p] \in Offers[p] /\ at[p] \in 0..Len(Active(request[p]))
  /\ db \in [Pipelines -> {"absent", "queued", "running"} \cup Final]
  /\ pc \in [Pipelines -> Live \cup {"none", "gone", "done"}]
  /\ posted \subseteq Pipelines /\ watching \subseteq Pipelines
  /\ calling \in [Pipelines -> 0..MaxStages]
  /\ cancels \in [Pipelines -> 0..MaxCancels]
  /\ at \in [Pipelines -> 0..MaxStages]
  /\ value \in [Pipelines -> {"none", "text", "audio"}]
  /\ verdict \in [Pipelines -> Verdicts]
  /\ lock \in Pipelines \cup {None}
  /\ handle \in [Pipelines -> {"none", "request", "lease"}]
  /\ renewing \subseteq Pipelines
  /\ broker \in [Pipelines -> [1..MaxStages -> {"none", "closed"} \cup Open]]
  /\ ai \in [Pipelines -> {"none", "asked", "loaded"}]

Init ==
  /\ request = [p \in Pipelines |-> None]
  /\ db = [p \in Pipelines |-> "absent"] /\ pc = [p \in Pipelines |-> "none"]
  /\ posted = {} /\ watching = {}
  /\ calling = [p \in Pipelines |-> 0] /\ cancels = [p \in Pipelines |-> 0]
  /\ at = [p \in Pipelines |-> 0] /\ value = [p \in Pipelines |-> "none"]
  /\ verdict = [p \in Pipelines |-> "ok"]
  /\ lock = None
  /\ handle = [p \in Pipelines |-> "none"] /\ renewing = {}
  /\ broker = [p \in Pipelines |-> [i \in 1..MaxStages |-> "none"]]
  /\ ai = [p \in Pipelines |-> "none"]

-----------------------------------------------------------------------------
(* Pieces of a task's step.  What goes on gives the process lock back if   *)
(* the step began with it.                                                 *)

At(p, label)     == pc[p] = label /\ p \notin posted
Struck(p, label) == pc[p] = label /\ p \in posted /\ posted' = posted \ {p}

Goto(p, label) ==
  /\ pc' = [pc EXCEPT ![p] = label]
  /\ lock' = IF lock = p THEN None ELSE lock

\* On to an await in the try block, where the row says running.
Runs(p, label) == Goto(p, label) /\ db' = [db EXCEPT ![p] = "running"]

\* _set() of a terminal state: the row, then the report to the Host, without
\* which nothing is left to wait for.
Settle(p, s, label) ==
  /\ db' = [db EXCEPT ![p] = s]
  /\ Goto(p, IF Hosted(p) THEN label ELSE "done")

Verdict(p, v)  == verdict' = [verdict EXCEPT ![p] = v]
End(p, s)      == Settle(p, s, "ending") /\ Verdict(p, s)
Misfit(p)      == Settle(p, "failed", "ending") /\ Verdict(p, "misfit")
Succeed(p)     == Settle(p, "succeeded", "succeeding") /\ Verdict(p, "ok")

\* Mutant of EnterLock: the worker is started without it.
EnterLockBarging(p) ==
  pc' = [pc EXCEPT ![p] = "executing"] /\ lock' = p /\ db' = [db EXCEPT ![p] = "running"]

\* "async with process_lock": at once when nobody holds or awaits it.
EnterLock(p) ==
  IF lock \in {None, p} /\ \A q \in Pipelines : pc[q] # "locking"
    THEN /\ pc' = [pc EXCEPT ![p] = "executing"] /\ lock' = p
         /\ db' = [db EXCEPT ![p] = "running"]
    ELSE Runs(p, "locking")

\* _acquire_resource up to its first call, or straight to the lock.
Admit(p, kind) ==
  IF kind \in Gpu
    THEN IF Hosted(p)
           THEN (Runs(p, "requesting") /\ UNCHANGED verdict) \/ End(p, "failed")
           ELSE End(p, "failed")
    ELSE EnterLock(p) /\ UNCHANGED verdict

\* Up to the first await of a stage: what it was given must be what it takes.
BeginStage(p, kind, v) ==
  IF v # Takes(kind) \/ (kind = "ai" /\ ~Hosted(p))
    THEN Misfit(p)
    ELSE IF kind = "ai" \/ (kind = "sfx" /\ p \in Japanese /\ Hosted(p))
           THEN Runs(p, "consulting") /\ UNCHANGED verdict
           ELSE Admit(p, kind) \/ (kind = "tts" /\ End(p, "failed"))

\* _deliver: everything but a commit to the Host's project is synchronous.
Deliver(p, v) ==
  LET mode == request[p].mode IN
    IF mode = "websocket" \/ v # (IF mode = "text" THEN "text" ELSE "audio")
      THEN Misfit(p)
      ELSE IF mode = "project"
             THEN Runs(p, "committing") /\ UNCHANGED verdict
             ELSE Succeed(p) \/ (mode = "stored" /\ End(p, "failed"))

\* Mutant of Proceed: one stage too many is counted.
ProceedCounting(p, i, v) ==
  /\ value' = [value EXCEPT ![p] = v] /\ at' = [at EXCEPT ![p] = i]
  /\ IF i > Len(Active(request[p]))
       THEN Deliver(p, v)
       ELSE BeginStage(p, Active(request[p])[i], v)
  /\ UNCHANGED request

\* The loop over the stages, with the value of the previous one.
Proceed(p, i, v) ==
  /\ value' = [value EXCEPT ![p] = v]
  /\ IF i > Len(Active(request[p]))
       THEN Deliver(p, v) /\ UNCHANGED at
       ELSE at' = [at EXCEPT ![p] = i] /\ BeginStage(p, Active(request[p])[i], v)
  /\ UNCHANGED request

\* After the finally block of a stage.
Continue(p, v) ==
  IF v = "ok"
    THEN Proceed(p, at[p] + 1, Gives(Stage(p)))
    ELSE End(p, v) /\ UNCHANGED <<request, at, value>>

\* The finally block of a worker stage: with a lease it ends the heartbeat and
\* suspends; without one it has nothing to wait for.
Yield(p, v) ==
  IF Stage(p) \in Gpu
    THEN /\ Runs(p, "yielding") /\ Verdict(p, v) /\ renewing' = renewing \ {p}
         /\ UNCHANGED <<request, at, value>>
    ELSE Continue(p, v) /\ UNCHANGED renewing

\* _source_value
Source(p) ==
  LET input == request[p].input IN
    IF input = "grant" THEN Runs(p, "source") /\ UNCHANGED dataVars
    ELSE IF input = "stream" THEN Misfit(p) /\ UNCHANGED <<request, at, value>>
    ELSE \/ Proceed(p, 1, InputGives(request[p]))
         \/ input = "file" /\ End(p, "failed") /\ UNCHANGED <<request, at, value>>

-----------------------------------------------------------------------------
(* The pipeline's task, one action per resumption.                         *)

Submit(p) ==
  /\ db[p] = "absent"
  /\ \E r \in Offers[p] :
       /\ Compiles(r) /\ (NeedsHost(r) => r.by = "host")
       /\ request' = [request EXCEPT ![p] = r]
  /\ db' = [db EXCEPT ![p] = "queued"] /\ pc' = [pc EXCEPT ![p] = "new"]
  /\ UNCHANGED <<at, value, verdict, cancelVars, leaseVars, lock, ai>>

\* _run: the report of "running"; without a Host nothing suspends before the source.
Start(p) ==
  /\ At(p, "new")
  /\ IF Hosted(p) THEN Runs(p, "first") /\ UNCHANGED dataVars ELSE Source(p)
  /\ UNCHANGED <<cancelVars, leaseVars, ai>>

\* That report failed, outside the try block.
FirstFails(p) ==
  /\ At(p, "first") /\ p \in Faulty
  /\ Goto(p, "gone")
  /\ UNCHANGED <<dataVars, cancelVars, leaseVars, db, ai>>

\* The try block: the watcher is created, the source resolved.
FirstReported(p) ==
  /\ At(p, "first") /\ Source(p)
  /\ watching' = watching \cup {p}
  /\ UNCHANGED <<posted, calling, cancels, leaseVars, ai>>

Sourced(p) ==
  /\ At(p, "source") /\ Proceed(p, 1, "audio")
  /\ UNCHANGED <<cancelVars, leaseVars, ai>>

\* The capabilities are there and the progress is told: the Host's model is asked.
Consulted(p) ==
  /\ At(p, "consulting")
  /\ Runs(p, "asking") /\ ai' = [ai EXCEPT ![p] = "asked"]
  /\ UNCHANGED <<dataVars, cancelVars, leaseVars>>

\* Text generation is unavailable, or the Host failed: an AI stage fails, the
\* rewriting of a prompt does without.
ConsultFails(p) ==
  /\ At(p, "consulting")
  /\ IF Stage(p) = "ai"
       THEN End(p, "failed")
       ELSE Runs(p, "excusing") /\ UNCHANGED verdict
  /\ UNCHANGED <<request, at, value, cancelVars, leaseVars, ai>>

\* ai_complete answered, with text or without.
AiAnswered(p) ==
  /\ At(p, "asking") /\ ai[p] = "loaded"
  /\ \/ Runs(p, "freeing") /\ Verdict(p, "ok")
     \/ IF Stage(p) = "ai"
          THEN Runs(p, "freeing") /\ Verdict(p, "failed")
          ELSE Runs(p, "recanting") /\ Verdict(p, "ok")
  /\ UNCHANGED <<request, at, value, cancelVars, leaseVars, ai>>

\* It failed: the Host refused, or the wait for its admission ran out.
AiFails(p) ==
  /\ At(p, "asking")
  /\ IF Stage(p) = "ai"
       THEN Runs(p, "freeing") /\ Verdict(p, "failed")
       ELSE Runs(p, "recanting") /\ Verdict(p, "ok")
  /\ UNCHANGED <<request, at, value, cancelVars, leaseVars, ai>>

\* The rewriting reports that it does without: no model was asked ...
Excused(p) ==
  /\ At(p, "excusing")
  /\ Admit(p, Stage(p)) \/ (p \in Faulty /\ End(p, "failed"))
  /\ UNCHANGED <<request, at, value, cancelVars, leaseVars, ai>>

\* ... or the one that was asked is released.
Recanted(p) ==
  /\ At(p, "recanting")
  /\ Runs(p, "freeing")
  /\ UNCHANGED verdict \/ (p \in Faulty /\ Verdict(p, "failed"))
  /\ UNCHANGED <<request, at, value, cancelVars, leaseVars, ai>>

\* ai_release, of the finally block.  Its refusals are swallowed, other errors
\* end an AI stage, whatever it was about to do.
AiFreed(p) ==
  /\ At(p, "freeing")
  /\ \/ ai' = [ai EXCEPT ![p] = "none"]
     \/ p \in Faulty /\ UNCHANGED ai
  /\ \/ IF verdict[p] = "ok" /\ Stage(p) = "sfx"
          THEN Admit(p, "sfx") /\ UNCHANGED <<request, at, value>>
          ELSE Continue(p, verdict[p])
     \/ /\ p \in Faulty /\ Stage(p) = "ai"
        /\ End(p, "failed") /\ UNCHANGED <<request, at, value>>
  /\ UNCHANGED <<cancelVars, leaseVars>>

Became(p, state) == broker' = [broker EXCEPT ![p][at[p]] = state]

\* Mutant of LeaseAnswered: a request that is refused is polled on.
LeaseAnsweredPatient(p) ==
  /\ At(p, "requesting") \/ At(p, "waiting")
  /\ handle' = [handle EXCEPT ![p] = IF broker[p][at[p]] = "granted" THEN "lease" ELSE "request"]
  /\ Runs(p, IF broker[p][at[p]] = "granted" THEN "activating" ELSE "waiting")
  /\ broker[p][at[p]] # "none"
  /\ UNCHANGED <<dataVars, cancelVars, renewing, broker, ai>>

\* _acquire_resource on the Broker's answer, to the request or to a poll.
LeaseAnswered(p) ==
  /\ At(p, "requesting") \/ At(p, "waiting")
  /\ \/ /\ broker[p][at[p]] = "granted"
        /\ handle' = [handle EXCEPT ![p] = "lease"] /\ Runs(p, "activating") /\ UNCHANGED verdict
     \/ /\ broker[p][at[p]] = "closed"
        /\ handle' = [handle EXCEPT ![p] = "request"] /\ End(p, "failed")
     \/ /\ broker[p][at[p]] = "pending"
        /\ handle' = [handle EXCEPT ![p] = "request"] /\ Runs(p, "waiting") /\ UNCHANGED verdict
  /\ UNCHANGED <<request, at, value, cancelVars, renewing, broker, ai>>

Activated(p) ==
  /\ At(p, "activating")
  /\ \/ /\ broker[p][at[p]] = "granted"
        /\ Became(p, "active") /\ renewing' = renewing \cup {p}
        /\ EnterLock(p) /\ UNCHANGED verdict
     \/ /\ broker[p][at[p]] # "granted"
        /\ End(p, "failed") /\ UNCHANGED <<broker, renewing>>
  /\ UNCHANGED <<request, at, value, cancelVars, handle, ai>>

\* A Host error where the lock is free and no finally block is left but the
\* last; the call may have reached the Host.
CallFails(p) ==
  /\ \E label \in Waiting \cup {"source", "committing", "succeeding"} : At(p, label)
  /\ p \in Faulty
  /\ End(p, "failed")
  /\ \/ UNCHANGED broker
     \/ pc[p] = "activating" /\ broker[p][at[p]] = "granted" /\ Became(p, "active")
  /\ UNCHANGED <<request, at, value, cancelVars, handle, renewing, ai>>

LockAcquired(p) ==
  /\ At(p, "locking") /\ lock = None
  /\ pc' = [pc EXCEPT ![p] = "executing"] /\ lock' = p
  /\ UNCHANGED <<dataVars, cancelVars, leaseVars, db, ai>>

\* execute() or process_audio() returned; without text or audio the stage fails.
WorkerDone(p) ==
  /\ At(p, "executing")
  /\ Yield(p, "ok") \/ Yield(p, "failed")
  /\ UNCHANGED <<cancelVars, handle, broker, ai>>

\* It failed and stops its worker.
WorkerFails(p) ==
  /\ At(p, "executing")
  /\ pc' = [pc EXCEPT ![p] = "stopping"] /\ Verdict(p, "failed")
  /\ UNCHANGED <<request, at, value, cancelVars, leaseVars, db, lock, ai>>

WorkerStopped(p) ==
  /\ At(p, "stopping") /\ Yield(p, verdict[p])
  /\ UNCHANGED <<cancelVars, handle, broker, ai>>

\* What the Broker makes of the release of a lease or the withdrawal of a request.
Freed(p) ==
  IF handle[p] = "lease" \/ (handle[p] = "request" /\ broker[p][at[p]] \in Open \ {"active"})
    THEN Became(p, "closed")
    ELSE UNCHANGED broker

\* Mutant of Yielded: the lease is kept for the next stage, heartbeat and all.
YieldedKeepsLease(p) ==
  /\ At(p, "yielding")
  /\ Continue(p, verdict[p])
  /\ renewing' = renewing \cup {p}
  /\ UNCHANGED <<cancelVars, handle, broker, ai>>

\* Heartbeat gone, lease released (errors are swallowed), ids cleared: on.
Yielded(p) ==
  /\ At(p, "yielding")
  /\ Freed(p) \/ (p \in Faulty /\ UNCHANGED broker)
  /\ handle' = [handle EXCEPT ![p] = "none"]
  /\ Continue(p, verdict[p])
  /\ UNCHANGED <<cancelVars, renewing, ai>>

Committed(p) ==
  /\ At(p, "committing") /\ Succeed(p)
  /\ UNCHANGED <<request, at, value, cancelVars, leaseVars, ai>>

\* The terminal report returned, or that of a handler failed.
Reported(p) ==
  /\ At(p, "succeeding") \/ At(p, "ending")
  /\ Goto(p, "unwinding") /\ watching' = watching \ {p}
  /\ UNCHANGED <<dataVars, posted, calling, cancels, leaseVars, db, ai>>

\* Mutant of Unwound: the last finally block trusts the stages to have released.
UnwoundTrusting(p) ==
  /\ At(p, "unwinding")
  /\ Goto(p, "done")
  /\ UNCHANGED <<dataVars, cancelVars, leaseVars, db, ai>>

\* The last finally block: the watcher is gone; ids that are still there are
\* those of a stage that was cut off.
Unwound(p) ==
  /\ At(p, "unwinding")
  /\ Goto(p, IF handle[p] = "none" THEN "done" ELSE "releasing")
  /\ UNCHANGED <<dataVars, cancelVars, leaseVars, db, ai>>

Released(p) ==
  /\ At(p, "releasing")
  /\ Freed(p) \/ (p \in Faulty /\ UNCHANGED broker)
  /\ handle' = [handle EXCEPT ![p] = "request"]
  /\ Goto(p, "done")
  /\ UNCHANGED <<dataVars, cancelVars, renewing, db, ai>>

-----------------------------------------------------------------------------
(* A posted cancellation is thrown into the task.                          *)

\* Outside the try block, or in the last finally block: the task is over.
StruckOutside(p) ==
  /\ \E label \in {"new", "first", "unwinding", "releasing"} : Struck(p, label)
  /\ Goto(p, "gone")
  /\ UNCHANGED broker \/ (pc[p] = "releasing" /\ Freed(p))
  /\ UNCHANGED <<dataVars, calling, cancels, watching, handle, renewing, db, ai>>

\* Where only the handler of _run is left to run; a call that was cut off may
\* have reached the Host.
StruckPlain(p) ==
  /\ \E label \in Waiting \cup {"source", "consulting", "excusing", "freeing",
                                "yielding", "committing", "succeeding"} : Struck(p, label)
  /\ End(p, "canceled")
  /\ \/ UNCHANGED broker
     \/ pc[p] = "activating" /\ broker[p][at[p]] = "granted" /\ Became(p, "active")
     \/ pc[p] = "yielding" /\ Freed(p)
  /\ UNCHANGED ai \/ (pc[p] = "freeing" /\ ai' = [ai EXCEPT ![p] = "none"])
  /\ UNCHANGED <<request, at, value, calling, cancels, watching, handle, renewing>>

\* Mutant of StruckAsking: the handler of _run is reached at once.
StruckAskingLost(p) ==
  /\ Struck(p, "asking") \/ Struck(p, "recanting")
  /\ End(p, "canceled")
  /\ UNCHANGED <<request, at, value, calling, cancels, watching, leaseVars, ai>>

\* While the Host's model is asked: its release comes first.
StruckAsking(p) ==
  /\ Struck(p, "asking") \/ Struck(p, "recanting")
  /\ Runs(p, "freeing") /\ Verdict(p, "canceled")
  /\ UNCHANGED <<request, at, value, calling, cancels, watching, leaseVars, ai>>

\* In the queue for the lock, or while the worker is stopped, which is given up.
StruckStage(p) ==
  /\ Struck(p, "locking") \/ Struck(p, "stopping")
  /\ Yield(p, "canceled")
  /\ UNCHANGED <<calling, cancels, watching, handle, broker, ai>>

\* While the worker runs: it is stopped first.
StruckExecuting(p) ==
  /\ Struck(p, "executing")
  /\ pc' = [pc EXCEPT ![p] = "stopping"] /\ Verdict(p, "canceled")
  /\ UNCHANGED <<request, at, value, calling, cancels, watching, leaseVars, db, lock, ai>>

StruckEnding(p) ==
  /\ Struck(p, "ending")
  /\ Goto(p, "unwinding") /\ watching' = watching \ {p}
  /\ UNCHANGED <<dataVars, calling, cancels, leaseVars, db, ai>>

TaskStep(p) ==
  \/ Start(p) \/ FirstFails(p) \/ FirstReported(p) \/ Sourced(p)
  \/ Consulted(p) \/ ConsultFails(p) \/ AiAnswered(p) \/ AiFails(p) \/ Excused(p) \/ Recanted(p)
  \/ AiFreed(p)
  \/ LeaseAnswered(p) \/ Activated(p) \/ CallFails(p)
  \/ LockAcquired(p) \/ WorkerDone(p) \/ WorkerFails(p) \/ WorkerStopped(p) \/ Yielded(p)
  \/ Committed(p) \/ Reported(p) \/ Unwound(p) \/ Released(p)
  \/ StruckOutside(p) \/ StruckPlain(p) \/ StruckAsking(p) \/ StruckStage(p)
  \/ StruckExecuting(p) \/ StruckEnding(p)

-----------------------------------------------------------------------------
(* Cancellation (jobs.py), as in JobLifecycle.                             *)

Post(p) == posted' = IF pc[p] \in Live THEN posted \cup {p} ELSE posted

Counted(p) == cancels[p] < MaxCancels /\ cancels' = [cancels EXCEPT ![p] = @ + 1]

CancelQueued(p) ==
  /\ db[p] = "queued" /\ Counted(p) /\ Post(p)
  /\ db' = [db EXCEPT ![p] = "canceled"]
  /\ UNCHANGED <<dataVars, calling, watching, leaseVars, pc, lock, ai>>

\* One that waits at the Broker has that request withdrawn first.
CancelWaiting(p) ==
  /\ db[p] = "running" /\ handle[p] = "request" /\ calling[p] = 0 /\ Counted(p)
  /\ calling' = [calling EXCEPT ![p] = at[p]]
  /\ UNCHANGED <<dataVars, posted, watching, leaseVars, db, pc, lock, ai>>

CancelResumes(p) ==
  /\ calling[p] # 0
  /\ calling' = [calling EXCEPT ![p] = 0] /\ Post(p)
  /\ \/ broker' = [broker EXCEPT ![p][calling[p]] =
                     IF @ \in Open \ {"active"} THEN "closed" ELSE @]
     \/ p \in Faulty /\ UNCHANGED broker
  /\ UNCHANGED <<dataVars, cancels, watching, handle, renewing, db, pc, lock, ai>>

CancelRunning(p) ==
  /\ db[p] = "running" /\ handle[p] # "request" /\ Counted(p) /\ Post(p)
  /\ UNCHANGED <<dataVars, calling, watching, leaseVars, db, pc, lock, ai>>

\* The Host's user, by way of the watcher, which ends with it.
WatchCancels(p) ==
  /\ p \in watching /\ Counted(p) /\ Post(p)
  /\ watching' = watching \ {p}
  /\ UNCHANGED <<dataVars, calling, leaseVars, db, pc, lock, ai>>

-----------------------------------------------------------------------------
(* The Host: its language model and its Broker.  A language model fits     *)
(* beside shared leases, not beside an exclusive one.                      *)

Granted(p, i) == broker[p][i] \in {"granted", "active"}
KindOf(p, i)  == Active(request[p])[i]
Whole(p, i)   == Granted(p, i) /\ KindOf(p, i) \in Exclusive
Leases        == {x \in Pipelines \X (1..MaxStages) : Granted(x[1], x[2])}

HostAdmits(p) ==
  /\ ai[p] = "asked"
  /\ \A x \in Leases : ~Whole(x[1], x[2])
  /\ ai' = [ai EXCEPT ![p] = "loaded"]
  /\ UNCHANGED <<dataVars, cancelVars, leaseVars, db, pc, lock>>

\* The Host drops what nobody waits for when it needs the room.
HostEvicts(p) ==
  /\ ai[p] # "none" /\ pc[p] \notin Asking
  /\ ai' = [ai EXCEPT ![p] = "none"]
  /\ UNCHANGED <<dataVars, cancelVars, leaseVars, db, pc, lock>>

BrokerReceives(p) ==
  /\ pc[p] = "requesting" /\ broker[p][at[p]] = "none"
  /\ Became(p, "pending")
  /\ UNCHANGED <<dataVars, cancelVars, handle, renewing, db, pc, lock, ai>>

BrokerGrants(p) ==
  /\ at[p] > 0 /\ broker[p][at[p]] = "pending"
  /\ \A x \in Leases : ~Whole(x[1], x[2]) /\ Stage(p) \notin Exclusive
  /\ Stage(p) \in Exclusive => \A q \in Pipelines : ai[q] # "loaded"
  /\ Became(p, "granted")
  /\ UNCHANGED <<dataVars, cancelVars, handle, renewing, db, pc, lock, ai>>

BrokerRejects(p) ==
  /\ at[p] > 0 /\ broker[p][at[p]] = "pending"
  /\ Became(p, "closed")
  /\ UNCHANGED <<dataVars, cancelVars, handle, renewing, db, pc, lock, ai>>

\* A lease that is not renewed expires.
BrokerExpires(p) ==
  /\ \E i \in 1..MaxStages :
       /\ Granted(p, i) /\ ~(i = at[p] /\ p \in renewing)
       /\ broker' = [broker EXCEPT ![p][i] = "closed"]
  /\ UNCHANGED <<dataVars, cancelVars, handle, renewing, db, pc, lock, ai>>

\* A heartbeat gives up on its first error.
HeartbeatFails(p) ==
  /\ p \in renewing \cap Faulty
  /\ renewing' = renewing \ {p}
  /\ UNCHANGED <<dataVars, cancelVars, handle, broker, db, pc, lock, ai>>

Next ==
  \E p \in Pipelines :
    \/ Submit(p) \/ TaskStep(p)
    \/ CancelQueued(p) \/ CancelWaiting(p) \/ CancelResumes(p) \/ CancelRunning(p)
    \/ WatchCancels(p)
    \/ HostAdmits(p) \/ HostEvicts(p) \/ BrokerReceives(p) \/ BrokerGrants(p)
    \/ BrokerRejects(p) \/ BrokerExpires(p) \/ HeartbeatFails(p)

Spec == Init /\ [][Next]_vars

\* Calls of the Host (but for ai_release) and reads from a worker have no limit.
\* Where a task awaits one, that of a pipeline in Faulty may hang, until it is cancelled.
Unlimited == Waiting \cup {"first", "source", "consulting", "asking", "excusing", "recanting",
                           "executing", "yielding", "committing", "succeeding", "ending",
                           "releasing"}
Hangs(p) == p \in Faulty /\ pc[p] \in Unlimited /\ p \notin posted

\* The event loop runs what can run and an unrenewed lease expires.  That the
\* Broker decides, that an unused model is dropped and that the Host and the
\* workers of the pipelines outside Faulty answer are assumptions: nothing in the
\* code limits the wait for them.
Fairness ==
  \A p \in Pipelines :
    /\ WF_vars(TaskStep(p) /\ ~Hangs(p))
    /\ p \notin Faulty => WF_vars(CancelResumes(p))
    /\ WF_vars(HostAdmits(p)) /\ WF_vars(HostEvicts(p))
    /\ WF_vars(BrokerReceives(p)) /\ WF_vars(BrokerGrants(p) \/ BrokerRejects(p))
    /\ WF_vars(BrokerExpires(p))

FairSpec == Spec /\ Fairness

-----------------------------------------------------------------------------

\* A pipeline never holds, or asks for, a lease and the Host's model at the
\* same time (docs/16, section 5: the Host's admission would wait for the lease).
HoldsOneAtATime ==
  \A p \in Pipelines \ Faulty :
    ai[p] # "none" => \A i \in 1..MaxStages : broker[p][i] \notin Open

\* Leases are local to a stage: what is open at the Broker belongs to the stage
\* the pipeline is in, and its worker runs only while that is active.
LeaseIsOfTheStage ==
  \A p \in Pipelines \ Faulty :
    /\ \A i \in 1..MaxStages : broker[p][i] \in Open => i = at[p]
    /\ pc[p] \in Working /\ Stage(p) \in Gpu =>
         broker[p][at[p]] = "active" /\ p \in renewing

\* Whatever it was cut off at, a pipeline whose last finally block ran holds no
\* lease; nor a request, unless it never learned of it.
EndsWithoutLease ==
  \A p \in Pipelines \ Faulty : pc[p] = "done" =>
    /\ \A i \in 1..MaxStages : broker[p][i] # "active"
    /\ handle[p] # "none" => broker[p][at[p]] = "closed"

\* The Host's model is given back on every way out of the calls that use it,
\* answered, failed or cancelled; only a cancellation that strikes the release
\* itself loses it.
ModelGivenBack ==
  [][\A p \in Pipelines \ Faulty :
       pc[p] \in Asking /\ pc'[p] \notin Asking /\ ai'[p] # "none" =>
         pc[p] = "freeing" /\ p \in posted]_vars

\* Heavy work of pipelines is serialized, and every exit frees the lock.
LockIsForWork == \A p \in Pipelines : lock = p <=> pc[p] \in Working

\* A request that compiled is not refused for its shape while it runs, but for
\* the streams that belong to live sessions.
CompiledFits ==
  \A p \in Pipelines :
    verdict[p] = "misfit" => request[p].input = "stream" \/ request[p].mode = "websocket"

\* A pipeline whose Host and workers answer ends, whatever another's Host fails at or
\* never answers, unless that one hangs for ever with the process lock: no lease,
\* model or place in a queue that another leaves behind holds it up.  A hosted one
\* may be cut off in its first report.
EveryPipelineEnds ==
  []<>(lock \notin Faulty) =>
    \A p \in Pipelines \ Faulty :
      db[p] # "absent" ~> db[p] \in Final \/ (pc[p] = "gone" /\ cancels[p] > 0)
=============================================================================
