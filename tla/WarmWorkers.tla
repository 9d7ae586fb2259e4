---------------------------- MODULE WarmWorkers ----------------------------
(***************************************************************************)
(* The warm pool of workers.py: execute(), the batches that hold engines   *)
(* (keep_engines_warm), the idle sweeper, the Host's step-aside requests   *)
(* and the shutdown of app.py.                                             *)
(*                                                                         *)
(* All of them are tasks of one event loop.  execute() runs under the      *)
(* process lock of jobs.py, so there is one running request ("run"); the   *)
(* retiring tasks interleave with it at every await.  A kept worker serves *)
(* until its stdin is closed (it then ends the request it has) or until it *)
(* is sent a signal.                                                       *)
(***************************************************************************)
EXTENDS Naturals, FiniteSets

CONSTANTS
  Keys,       \* warm keys: one per engine
  Speech,     \* keys whose engine is always kept (_WARM_ENGINES)
  Sparing,    \* keys kept when a small VRAM budget was lent
  Batchable,  \* keys kept while a batch holds the engines
  Procs,      \* bound: worker processes alive or referred to at once
  Sweeper,    \* the idle sweeper
  Requests,   \* step-aside requests of the Host
  Batches,    \* batches
  Main,       \* the lifespan task, which shuts down
  None        \* no process, no key

Retirers == {Sweeper, Main} \cup Requests \cup Batches

ASSUME WarmAssumption ==
  /\ Speech \subseteq Keys /\ Sparing \subseteq Keys /\ Batchable \subseteq Keys
  /\ Requests \cap Batches = {}
  /\ Sweeper \notin {Main} \cup Requests \cup Batches /\ Main \notin Requests \cup Batches
  /\ None \notin Procs \cup Keys

VARIABLES
  phase,    \* the service: up, draining, retiring, down
  warm,     \* _warm: the worker kept for a key
  stamp,    \* _warm_used_at: none, fresh, or stale after WARM_IDLE_SEC
  busy,     \* _warm_busy
  open,     \* batches inside keep_engines_warm; _hold_all_warm is their number
  run,      \* execute(): where it is suspended, its key, its worker, keep or not
  retire,   \* _retire() of each task: keys to do, keys chosen, worker awaited
  alive,    \* worker processes alive
  told,     \* those _retire() closed the stdin of
  struck,   \* those that were sent a signal
  engine    \* the key each process was started for

vars == <<phase, warm, stamp, busy, open, run, retire, alive, told, struck, engine>>
poolVars == <<warm, stamp, busy>>
procVars == <<alive, told, struck, engine>>

NoRun == [pc |-> "idle", key |-> None, proc |-> None, keep |-> FALSE]
Done  == [todo |-> {}, chosen |-> {}, proc |-> None]

TypeOK ==
  /\ phase \in {"up", "draining", "retiring", "down"}
  /\ warm \in [Keys -> Procs \cup {None}]
  /\ stamp \in [Keys -> {"none", "fresh", "stale"}]
  /\ busy \subseteq Keys /\ open \subseteq Batches
  /\ run \in [pc : {"idle", "spawning", "serving", "draining", "stopping"},
              key : Keys \cup {None}, proc : Procs \cup {None}, keep : BOOLEAN]
  /\ retire \in [Retirers -> [todo : SUBSET Keys, chosen : SUBSET Keys,
                              proc : Procs \cup {None}]]
  /\ alive \subseteq Procs /\ told \subseteq alive /\ struck \subseteq alive
  /\ engine \in [Procs -> Keys \cup {None}]

Init ==
  /\ phase = "up"
  /\ warm = [k \in Keys |-> None] /\ stamp = [k \in Keys |-> "none"]
  /\ busy = {} /\ open = {} /\ run = NoRun
  /\ retire = [r \in Retirers |-> Done]
  /\ alive = {} /\ told = {} /\ struck = {}
  /\ engine = [p \in Procs |-> None]

-----------------------------------------------------------------------------
(* execute()                                                               *)

\* Whether the worker of this request is kept for the next one.
Keep(k, small) ==
  \/ k \in Speech
  \/ open # {} /\ k \in Batchable
  \/ small /\ k \in Sparing

\* Nothing in the service refers to the process any more.
Unused(p) ==
  /\ p \notin alive /\ p # run.proc
  /\ \A k \in Keys : warm[k] # p
  /\ \A r \in Retirers : retire[r].proc # p

\* A kept worker is taken: its clock starts, the sweeper must leave it alone.
Take(k, p) ==
  /\ run' = [pc |-> "serving", key |-> k, proc |-> p, keep |-> TRUE]
  /\ stamp' = [stamp EXCEPT ![k] = "fresh"] /\ busy' = busy \cup {k}

\* Mutant of BeginRequest: the pool is not looked at.
BeginAfresh(k, small) ==
  /\ phase = "up" /\ run.pc = "idle"
  /\ run' = [pc |-> "spawning", key |-> k, proc |-> None, keep |-> Keep(k, small)]
  /\ UNCHANGED <<phase, poolVars, open, retire, procVars>>

\* Up to the first suspension: the request itself when a kept worker is
\* alive, else the start of a process.  A kept one that died is dropped.
BeginRequest(k, small) ==
  /\ phase = "up" /\ run.pc = "idle"
  /\ LET keep == Keep(k, small) IN
       \/ /\ keep /\ warm[k] \in alive
          /\ Take(k, warm[k])
          /\ UNCHANGED warm
       \/ /\ ~(keep /\ warm[k] \in alive)
          /\ run' = [pc |-> "spawning", key |-> k, proc |-> None, keep |-> keep]
          /\ warm' = IF keep THEN [warm EXCEPT ![k] = None] ELSE warm
          /\ UNCHANGED <<stamp, busy>>
  /\ UNCHANGED <<phase, open, retire, procVars>>

\* create_subprocess_exec returned.
Spawned(p) ==
  /\ run.pc = "spawning" /\ Unused(p)
  /\ alive' = alive \cup {p} /\ engine' = [engine EXCEPT ![p] = run.key]
  /\ IF run.keep
       THEN warm' = [warm EXCEPT ![run.key] = p] /\ Take(run.key, p)
       ELSE run' = [run EXCEPT !.pc = "serving", !.proc = p] /\ UNCHANGED poolVars
  /\ UNCHANGED <<phase, open, retire, told, struck>>

\* It failed or was cancelled: no process, nothing was marked.
SpawnFails ==
  /\ run.pc = "spawning"
  /\ run' = NoRun
  /\ UNCHANGED <<phase, poolVars, open, retire, procVars>>

\* The finally clause of a request: its worker is idle again, its clock starts
\* if it is still in the pool.
Leave(pool) ==
  /\ run' = NoRun
  /\ IF run.keep
       THEN /\ busy' = busy \ {run.key}
            /\ stamp' = IF pool[run.key] # None
                          THEN [stamp EXCEPT ![run.key] = "fresh"] ELSE stamp
       ELSE UNCHANGED <<stamp, busy>>

\* What every way out but a kept result does first: forget the pool's entry,
\* whichever process it is.
Forgotten == [warm EXCEPT ![run.key] = None]

\* A kept worker answered: one request, one result.
Answered ==
  /\ run.pc = "serving" /\ run.keep /\ run.proc \in alive
  /\ Leave(warm)
  /\ UNCHANGED <<phase, warm, open, retire, procVars>>

\* End of the worker's output: a worker that is not kept ends with its answer,
\* a kept one only when it dies.  Its exit is awaited.
EndOfOutput ==
  /\ run.pc = "serving" /\ (~run.keep \/ run.proc \notin alive)
  /\ warm' = Forgotten
  /\ run' = [run EXCEPT !.pc = "draining"]
  /\ UNCHANGED <<phase, stamp, busy, open, retire, procVars>>

Drained ==
  /\ run.pc = "draining" /\ run.proc \notin alive
  /\ Leave(warm)
  /\ UNCHANGED <<phase, warm, open, retire, procVars>>

\* Mutant of Abort: the failed worker stays in the pool and is not stopped.
AbortUnstopped ==
  /\ run.pc \in {"serving", "draining"}
  /\ warm' = Forgotten
  /\ Leave(Forgotten)
  /\ UNCHANGED <<phase, open, retire, procVars>>

\* An error event, a protocol error, a failed progress report or a
\* cancellation: the worker is sent SIGTERM (and SIGKILL after 3 s).
Abort ==
  /\ run.pc \in {"serving", "draining"}
  /\ warm' = Forgotten
  /\ run' = [run EXCEPT !.pc = "stopping"]
  /\ struck' = struck \cup ({run.proc} \cap alive)
  /\ UNCHANGED <<phase, stamp, busy, open, retire, alive, told, engine>>

\* Mutant of Stopped: the finally clause forgets the busy mark.
StoppedStillBusy ==
  /\ run.pc = "stopping"
  /\ run' = NoRun
  /\ UNCHANGED <<phase, poolVars, open, retire, procVars>>

\* The worker is gone, or a cancellation gave up waiting for it.
Stopped ==
  /\ run.pc = "stopping"
  /\ Leave(warm)
  /\ UNCHANGED <<phase, warm, open, retire, procVars>>

-----------------------------------------------------------------------------
(* _retire() and its callers.                                              *)

\* The keys of "todo" that are passed over: no worker, or one that is gone.
Vacant(todo) == {k \in todo : warm[k] \notin alive}

\* Mutant of Advance: stdin is closed first, the key popped after the wait.
AdvancePopLate(r, todo, chosen) ==
  \/ \E k \in todo \ Vacant(todo) :
       /\ retire' = [retire EXCEPT ![r] =
            [todo |-> todo \ {k}, chosen |-> chosen, proc |-> warm[k]]]
       /\ told' = told \cup {warm[k]}
       /\ UNCHANGED <<warm, stamp>>
  \/ /\ todo = Vacant(todo)
     /\ retire' = [retire EXCEPT ![r] = Done]
     /\ UNCHANGED <<warm, stamp, told>>

\* Go on with the keys left: the next worker is popped and its stdin closed.
\* Keys without one are passed over.  At the end the callers that look at the
\* clock forget the stamps of the keys they chose.
Advance(r, todo, chosen) ==
  \/ \E k \in todo \ Vacant(todo), skipped \in SUBSET Vacant(todo) :
       /\ warm' = [x \in Keys |-> IF x \in skipped \cup {k} THEN None ELSE warm[x]]
       /\ retire' = [retire EXCEPT ![r] =
            [todo |-> todo \ (skipped \cup {k}), chosen |-> chosen, proc |-> warm[k]]]
       /\ told' = told \cup {warm[k]}
       /\ UNCHANGED stamp
  \/ /\ todo = Vacant(todo)
     /\ warm' = [x \in Keys |-> IF x \in todo THEN None ELSE warm[x]]
     /\ retire' = [retire EXCEPT ![r] = Done]
     /\ stamp' = [x \in Keys |-> IF x \in chosen THEN "none" ELSE stamp[x]]
     /\ UNCHANGED told

Idle(r) == retire[r] = Done

\* retire_idle_workers: nothing while a batch holds, nothing that is busy.
Sweep ==
  /\ phase = "up" /\ Idle(Sweeper) /\ open = {}
  /\ LET stale == {k \in Keys \ busy : warm[k] # None /\ stamp[k] = "stale"} IN
       stale # {} /\ Advance(Sweeper, stale, stale)
  /\ UNCHANGED <<phase, busy, open, run, alive, struck, engine>>

\* release_idle_now, for the Host: the same without the clock.
StepAside(r) ==
  /\ phase = "up" /\ r \in Requests /\ Idle(r) /\ open = {}
  /\ LET idle == {k \in Keys \ busy : warm[k] # None} IN
       idle # {} /\ Advance(r, idle, idle)
  /\ UNCHANGED <<phase, busy, open, run, alive, struck, engine>>

BatchBegins(b) ==
  /\ phase = "up" /\ b \in Batches \ open /\ Idle(b)
  /\ open' = open \cup {b}
  /\ UNCHANGED <<phase, poolVars, run, retire, procVars>>

\* Leaving keep_engines_warm: the last batch retires what only batches keep,
\* busy or not (retire_transient_workers).
BatchEnds(b) ==
  /\ b \in open
  /\ open' = open \ {b}
  /\ IF open = {b}
       THEN Advance(b, {k \in Keys \ (Speech \cup Sparing) : warm[k] # None}, {})
       ELSE UNCHANGED <<warm, stamp, retire, told>>
  /\ UNCHANGED <<phase, busy, run, alive, struck, engine>>

\* The worker a task awaits has exited: on to its next key.
RetireNext(r) ==
  /\ retire[r].proc # None /\ retire[r].proc \notin alive
  /\ Advance(r, retire[r].todo, retire[r].chosen)
  /\ UNCHANGED <<phase, busy, open, run, alive, struck, engine>>

\* Mutant of RetireKills: the exit of the worker is not looked at.
RetireKillsUnchecked(r) ==
  /\ retire[r].proc # None
  /\ struck' = struck \cup {retire[r].proc}
  /\ UNCHANGED <<phase, poolVars, open, run, retire, alive, told, engine>>

\* It has not within 5 s: SIGTERM.
RetireKills(r) ==
  /\ retire[r].proc \in alive \ struck
  /\ struck' = struck \cup {retire[r].proc}
  /\ UNCHANGED <<phase, poolVars, open, run, retire, alive, told, engine>>

-----------------------------------------------------------------------------
(* Shutdown, in the order of lifespan(); requests of the HTTP server are   *)
(* over by then.                                                           *)

\* stop_idle_sweeper cancels the sweeper, in the middle of a retirement too.
StopSweeper ==
  /\ phase = "up" /\ open = {} /\ \A r \in Requests \cup Batches : Idle(r)
  /\ phase' = "draining"
  /\ retire' = [retire EXCEPT ![Sweeper] = Done]
  /\ UNCHANGED <<poolVars, open, run, procVars>>

\* Mutant of RetireAll: only what the sweep would take is retired.
RetireAllIdle ==
  /\ phase = "draining" /\ run.pc = "idle"
  /\ phase' = "retiring"
  /\ Advance(Main, {k \in Keys : warm[k] # None /\ stamp[k] = "stale"}, {})
  /\ UNCHANGED <<busy, open, run, alive, struck, engine>>

\* jobs.shutdown has ended the requests; retire_warm_workers.
RetireAll ==
  /\ phase = "draining" /\ run.pc = "idle"
  /\ phase' = "retiring"
  /\ Advance(Main, {k \in Keys : warm[k] # None}, {})
  /\ UNCHANGED <<busy, open, run, alive, struck, engine>>

ShutDown ==
  /\ phase = "retiring" /\ Idle(Main)
  /\ phase' = "down"
  /\ UNCHANGED <<poolVars, open, run, retire, procVars>>

-----------------------------------------------------------------------------
(* The processes and the clock.                                            *)

\* A worker exits: told to, struck, at the end of its only request, or by
\* itself (a crash).
Exit(p) ==
  /\ p \in alive
  /\ alive' = alive \ {p} /\ told' = told \ {p} /\ struck' = struck \ {p}
  /\ UNCHANGED <<phase, poolVars, open, run, retire, engine>>

\* WARM_IDLE_SEC passed since the key was used.
Elapse(k) ==
  /\ phase = "up" /\ stamp[k] = "fresh"
  /\ stamp' = [stamp EXCEPT ![k] = "stale"]
  /\ UNCHANGED <<phase, warm, busy, open, run, retire, procVars>>

Next ==
  \/ \E k \in Keys, small \in BOOLEAN : BeginRequest(k, small)
  \/ \E p \in Procs : Spawned(p) \/ Exit(p)
  \/ SpawnFails \/ Answered \/ EndOfOutput \/ Drained \/ Abort \/ Stopped
  \/ Sweep
  \/ \E r \in Requests : StepAside(r)
  \/ \E b \in Batches : BatchBegins(b) \/ BatchEnds(b)
  \/ \E r \in Retirers : RetireNext(r) \/ RetireKills(r)
  \/ StopSweeper \/ RetireAll \/ ShutDown
  \/ \E k \in Keys : Elapse(k)

Spec == Init /\ [][Next]_vars

-----------------------------------------------------------------------------

Leaving == told \cup struck
Pooled  == {p \in Procs : \E k \in Keys : warm[k] = p}

\* What is in the pool can be given a request: a worker leaves the pool before
\* its stdin is closed or a signal is sent, on every path.
PoolServes == Pooled \cap Leaving = {}

\* A speech worker that is alive is in the pool, in use, or on its way out;
\* none is lost between the tasks that start, use and retire workers.
SpeechAccounted ==
  \A p \in alive : engine[p] \in Speech => p \in Pooled \cup {run.proc} \cup Leaving

\* One worker per speech engine (workers.py:259): a second is started only
\* when the first is on its way out.
OneSpeechWorker ==
  \A p, q \in alive \ Leaving : engine[p] = engine[q] /\ engine[p] \in Speech => p = q

\* A key is marked busy exactly while a kept request runs, so that the sweeper
\* neither cuts the request it sees nor spares an idle worker for ever.
BusyIsServed ==
  busy = IF run.keep /\ run.pc # "spawning" THEN {run.key} ELSE {}

\* After the shutdown no speech worker is left that was not told to go
\* (app.py:201: a process left behind keeps its model loaded).
NothingLeftBehind ==
  phase = "down" => \A p \in alive : engine[p] \in Speech => p \in Leaving

\* Retiring never cuts what is running (workers.py:400): a worker that serves a
\* request is sent no signal.
RunningNotCut == run.pc = "serving" => run.proc \notin struck

\* What is kept and no longer used is retired by the sweep (workers.py:423), so
\* it stays where the sweep looks: in the pool, with a stamp.
KeptStaysSwept ==
  \A p \in alive \ Leaving :
    p = run.proc \/ \E k \in Keys : warm[k] = p /\ stamp[k] # "none"
=============================================================================
