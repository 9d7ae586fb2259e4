------------------------- MODULE WarmWorkersProofs -------------------------
(***************************************************************************)
(* Proofs about WarmWorkers, for every set of engines, batches, step-aside *)
(* requests and processes.  What has to be added to the properties to make *)
(* them inductive: which engine a process belongs to (EnginesMatch: that   *)
(* the pool is injective follows from it), what the request knows of its   *)
(* worker (RunShape, ServedKept, StoppingStruck), that a retiring task     *)
(* awaits a process the pool has given up (RetiredUnpooled), and what the  *)
(* shutdown has dealt with already (DrainOrder).                           *)
(***************************************************************************)
EXTENDS WarmWorkers, TLAPS

\* What is known of the request where it is suspended; speech workers are kept.
RunShape ==
  /\ run.pc = "idle" => run = NoRun
  /\ run.pc # "idle" => run.key \in Keys
  /\ run.pc = "spawning" => run.proc = None
  /\ run.pc \in {"serving", "draining", "stopping"} => run.proc \in Procs
  /\ run.key \in Speech => run.keep

\* A worker in the pool, or serving, belongs to the key it is filed under.
EnginesMatch ==
  /\ \A k \in Keys : warm[k] # None => engine[warm[k]] = k
  /\ run.proc # None => engine[run.proc] = run.key

\* A process _retire() awaits has been taken out of the pool.
RetiredUnpooled ==
  \A r \in Retirers : retire[r].proc # None => \A k \in Keys : warm[k] # retire[r].proc

\* PoolServes, by keys.
PoolStays == \A k \in Keys : warm[k] \notin Leaving

\* The entry of a kept request is its worker, until somebody retires that.
ServedKept ==
  run.keep =>
    /\ run.pc = "spawning" => warm[run.key] = None
    /\ run.proc # None => warm[run.key] \in {run.proc, None}
    /\ run.proc \in alive /\ warm[run.key] = None => run.proc \in Leaving

\* execute() awaits a process after it has sent the signal.
StoppingStruck == run.pc = "stopping" /\ run.proc \in alive => run.proc \in struck

\* SpeechAccounted, by the key a process was started for.
SpeechKept ==
  \A p \in alive : engine[p] \in Speech =>
    warm[engine[p]] = p \/ p = run.proc \/ p \in Leaving

\* When the lifespan retires the pool no request runs, and its list is complete.
DrainOrder ==
  /\ phase \in {"retiring", "down"} => run.pc = "idle"
  /\ phase = "retiring" => \A k \in Keys : warm[k] \in alive => k \in retire[Main].todo
  /\ phase = "down" => \A k \in Keys : warm[k] \notin alive

\* All of it but the types and the order of the shutdown.
Core ==
  /\ RunShape /\ EnginesMatch /\ RetiredUnpooled /\ PoolStays
  /\ ServedKept /\ StoppingStruck /\ SpeechKept /\ BusyIsServed

\* The inductive invariant.
IInv == TypeOK /\ Core /\ DrainOrder

-----------------------------------------------------------------------------

\* What one stretch of _retire() does, between two of its suspensions: entries
\* disappear from the pool, those of live workers only when their stdin is
\* closed, and of the keys to do none is left out.
Retirement(r, todo) ==
  /\ warm' \in [Keys -> Procs \cup {None}]
  /\ stamp' \in [Keys -> {"none", "fresh", "stale"}]
  /\ retire' \in [Retirers -> [todo : SUBSET Keys, chosen : SUBSET Keys,
                               proc : Procs \cup {None}]]
  /\ told \subseteq told' /\ told' \subseteq alive
  /\ \A k \in Keys : warm'[k] # warm[k] => warm'[k] = None /\ warm[k] \notin alive \ told'
  /\ \A k \in Keys : warm'[k] \notin told' \ told
  /\ \A q \in Retirers : q # r => retire'[q] = retire[q]
  /\ \A k \in Keys : retire'[r].proc # None => warm'[k] # retire'[r].proc
  /\ \A k \in todo : warm'[k] \in alive => k \in retire'[r].todo

\* Advance, whatever keys it is given, is such a stretch.
LEMMA AdvanceRetires ==
  ASSUME TypeOK, EnginesMatch, NEW r \in Retirers,
         NEW todo \in SUBSET Keys, NEW chosen \in SUBSET Keys, Advance(r, todo, chosen)
  PROVE  Retirement(r, todo)
<1> USE WarmAssumption DEF TypeOK, EnginesMatch, Vacant
<1>1. CASE \E k \in todo \ Vacant(todo), skipped \in SUBSET Vacant(todo) :
             /\ warm' = [x \in Keys |-> IF x \in skipped \cup {k} THEN None ELSE warm[x]]
             /\ retire' = [retire EXCEPT ![r] =
                  [todo |-> todo \ (skipped \cup {k}), chosen |-> chosen, proc |-> warm[k]]]
             /\ told' = told \cup {warm[k]}
             /\ UNCHANGED stamp
  <2> PICK k \in todo \ Vacant(todo), skipped \in SUBSET Vacant(todo) :
             /\ warm' = [x \in Keys |-> IF x \in skipped \cup {k} THEN None ELSE warm[x]]
             /\ retire' = [retire EXCEPT ![r] =
                  [todo |-> todo \ (skipped \cup {k}), chosen |-> chosen, proc |-> warm[k]]]
             /\ told' = told \cup {warm[k]}
             /\ UNCHANGED stamp
    BY <1>1
  <2>1. k \in Keys /\ warm[k] \in alive /\ warm[k] # None
    OBVIOUS
  <2>2. \A x \in skipped : x \in Keys /\ warm[x] \notin alive
    OBVIOUS
  <2>3. \A x \in Keys : warm[x] = warm[k] => x = k
    BY <2>1
  <2>4. retire'[r] = [todo |-> todo \ (skipped \cup {k}), chosen |-> chosen, proc |-> warm[k]]
    OBVIOUS
  <2> QED
    BY <2>1, <2>2, <2>3, <2>4 DEF Retirement
<1>2. CASE /\ todo = Vacant(todo)
           /\ warm' = [x \in Keys |-> IF x \in todo THEN None ELSE warm[x]]
           /\ retire' = [retire EXCEPT ![r] = Done]
           /\ stamp' = [x \in Keys |-> IF x \in chosen THEN "none" ELSE stamp[x]]
           /\ UNCHANGED told
  <2>1. \A x \in todo : x \in Keys /\ warm[x] \notin alive
    BY <1>2
  <2>2. retire'[r] = Done
    BY <1>2
  <2> QED
    BY <1>2, <2>1, <2>2 DEF Retirement, Done
<1> QED
  BY <1>1, <1>2 DEF Advance

\* Such a stretch keeps everything but the order of the shutdown.
LEMMA RetirementKeeps ==
  ASSUME TypeOK, Core, NEW r \in Retirers, NEW todo \in SUBSET Keys, Retirement(r, todo),
         UNCHANGED <<busy, run, alive, struck, engine>>
  PROVE  Core'
<1> USE WarmAssumption DEF Core, TypeOK, Retirement
<1>1. RunShape' /\ BusyIsServed' /\ StoppingStruck'
  BY DEF RunShape, BusyIsServed, StoppingStruck, NoRun
<1>2. EnginesMatch'
  BY DEF EnginesMatch
<1>3. RetiredUnpooled'
  BY DEF RetiredUnpooled
<1>4. PoolStays'
  BY DEF PoolStays, Leaving
<1>5. ServedKept'
  BY DEF ServedKept, RunShape, NoRun, Leaving
<1>6. SpeechKept'
  BY DEF SpeechKept, Leaving
<1> QED
  BY <1>1, <1>2, <1>3, <1>4, <1>5, <1>6
-----------------------------------------------------------------------------
(* The steps of execute() and of the processes.                            *)

\* A process that starts is new to everybody; a kept one enters the pool.
LEMMA SpawnedKeeps ==
  ASSUME TypeOK, Core, NEW p \in Procs, Spawned(p)
  PROVE  Core'
<1> USE WarmAssumption DEF Core, TypeOK, RunShape, Leaving, Spawned, Unused
<1> DEFINE key == run.key
<1>1. /\ run.pc = "spawning" /\ key \in Keys /\ p # None /\ p \notin alive
      /\ \A k \in Keys : warm[k] # p
      /\ engine' = [engine EXCEPT ![p] = key] /\ alive' = alive \cup {p}
      /\ UNCHANGED <<retire, told, struck>>
  OBVIOUS
<1>2. CASE run.keep
  <2>1. /\ run' = [pc |-> "serving", key |-> key, proc |-> p, keep |-> TRUE]
        /\ warm' = [warm EXCEPT ![key] = p] /\ busy' = busy \cup {key}
    BY <1>2 DEF Take
  <2>2. /\ run'.pc = "serving" /\ run'.key = key /\ run'.proc = p /\ run'.keep
        /\ warm'[key] = p /\ engine'[p] = key
    BY <1>1, <2>1
  <2>3. RunShape' /\ StoppingStruck'
    BY <1>1, <2>2 DEF StoppingStruck
  <2>4. EnginesMatch'
    BY <1>1, <2>1, <2>2 DEF EnginesMatch
  <2>5. RetiredUnpooled' /\ PoolStays'
    BY <1>1, <2>1, <2>2 DEF RetiredUnpooled, PoolStays
  <2>6. ServedKept'
    BY <1>1, <2>2 DEF ServedKept
  <2>7. SpeechKept'
    BY <1>1, <2>1, <2>2 DEF SpeechKept, EnginesMatch, ServedKept
  <2>8. BusyIsServed'
    BY <1>1, <2>1, <2>2 DEF BusyIsServed
  <2> QED
    BY <2>3, <2>4, <2>5, <2>6, <2>7, <2>8
<1>3. CASE ~run.keep
  <2>1. run' = [run EXCEPT !.pc = "serving", !.proc = p] /\ UNCHANGED <<warm, busy>>
    BY <1>3 DEF poolVars
  <2>2. run'.pc = "serving" /\ run'.key = key /\ run'.proc = p /\ ~run'.keep /\ engine'[p] = key
    BY <1>1, <1>3, <2>1
  <2>3. RunShape' /\ StoppingStruck' /\ ServedKept'
    BY <1>1, <1>3, <2>2 DEF StoppingStruck, ServedKept
  <2>4. EnginesMatch'
    BY <1>1, <2>1, <2>2 DEF EnginesMatch
  <2>5. RetiredUnpooled' /\ PoolStays'
    BY <1>1, <2>1 DEF RetiredUnpooled, PoolStays
  <2>6. SpeechKept'
    BY <1>1, <2>1, <2>2 DEF SpeechKept
  <2>7. BusyIsServed'
    BY <1>1, <1>3, <2>1, <2>2 DEF BusyIsServed
  <2> QED
    BY <2>3, <2>4, <2>5, <2>6, <2>7
<1> QED
  BY <1>2, <1>3

\* A request begins: the worker it takes is the one of its key.
LEMMA BeginRequestKeeps ==
  ASSUME TypeOK, Core, NEW k \in Keys, NEW small \in BOOLEAN, BeginRequest(k, small)
  PROVE  Core'
<1> USE WarmAssumption
    DEF Core, TypeOK, RunShape, NoRun, poolVars, procVars, Leaving, BeginRequest, Take, Keep
<1>1. RunShape'
  OBVIOUS
<1>2. EnginesMatch'
  BY DEF EnginesMatch
<1>3. RetiredUnpooled'
  BY DEF RetiredUnpooled
<1>4. PoolStays'
  BY DEF PoolStays
<1>5. ServedKept'
  BY DEF ServedKept
<1>6. StoppingStruck'
  BY DEF StoppingStruck
<1>7. SpeechKept'
  BY DEF SpeechKept
<1>8. BusyIsServed'
  BY DEF BusyIsServed
<1> QED
  BY <1>1, <1>2, <1>3, <1>4, <1>5, <1>6, <1>7, <1>8

\* A process that could not be started was nowhere.
LEMMA SpawnFailsKeeps ==
  ASSUME TypeOK, Core, SpawnFails
  PROVE  Core'
<1> USE WarmAssumption
    DEF Core, TypeOK, RunShape, NoRun, poolVars, procVars, Leaving, SpawnFails
<1>1. RunShape'
  OBVIOUS
<1>2. EnginesMatch'
  BY DEF EnginesMatch
<1>3. RetiredUnpooled'
  BY DEF RetiredUnpooled
<1>4. PoolStays'
  BY DEF PoolStays
<1>5. ServedKept'
  BY DEF ServedKept
<1>6. StoppingStruck'
  BY DEF StoppingStruck
<1>7. SpeechKept'
  BY DEF SpeechKept
<1>8. BusyIsServed'
  BY DEF BusyIsServed
<1> QED
  BY <1>1, <1>2, <1>3, <1>4, <1>5, <1>6, <1>7, <1>8

\* An answer leaves the worker in the pool, unless somebody retired it meanwhile.
LEMMA AnsweredKeeps ==
  ASSUME TypeOK, Core, Answered
  PROVE  Core'
<1> USE WarmAssumption
    DEF Core, TypeOK, RunShape, NoRun, poolVars, procVars, Leaving, Answered, Leave
<1>1. RunShape'
  OBVIOUS
<1>2. EnginesMatch'
  BY DEF EnginesMatch
<1>3. RetiredUnpooled'
  BY DEF RetiredUnpooled
<1>4. PoolStays'
  BY DEF PoolStays
<1>5. ServedKept'
  BY DEF ServedKept
<1>6. StoppingStruck'
  BY DEF StoppingStruck
<1>7. SpeechKept'
  BY DEF SpeechKept, ServedKept, EnginesMatch
<1>8. BusyIsServed'
  BY DEF BusyIsServed
<1> QED
  BY <1>1, <1>2, <1>3, <1>4, <1>5, <1>6, <1>7, <1>8

\* At the end of the output the entry forgotten is that of the worker served by.
LEMMA EndOfOutputKeeps ==
  ASSUME TypeOK, Core, EndOfOutput
  PROVE  Core'
<1> USE WarmAssumption
    DEF Core, TypeOK, RunShape, NoRun, poolVars, procVars, Leaving, EndOfOutput, Forgotten
<1>1. RunShape'
  OBVIOUS
<1>2. EnginesMatch'
  BY DEF EnginesMatch
<1>3. RetiredUnpooled'
  BY DEF RetiredUnpooled
<1>4. PoolStays'
  BY DEF PoolStays
<1>5. ServedKept'
  BY DEF ServedKept
<1>6. StoppingStruck'
  BY DEF StoppingStruck
<1>7. SpeechKept'
  BY DEF SpeechKept, ServedKept, EnginesMatch
<1>8. BusyIsServed'
  BY DEF BusyIsServed
<1> QED
  BY <1>1, <1>2, <1>3, <1>4, <1>5, <1>6, <1>7, <1>8

\* The worker drained is gone.
LEMMA DrainedKeeps ==
  ASSUME TypeOK, Core, Drained
  PROVE  Core'
<1> USE WarmAssumption
    DEF Core, TypeOK, RunShape, NoRun, poolVars, procVars, Leaving, Drained, Leave
<1>1. RunShape'
  OBVIOUS
<1>2. EnginesMatch'
  BY DEF EnginesMatch
<1>3. RetiredUnpooled'
  BY DEF RetiredUnpooled
<1>4. PoolStays'
  BY DEF PoolStays
<1>5. ServedKept'
  BY DEF ServedKept
<1>6. StoppingStruck'
  BY DEF StoppingStruck
<1>7. SpeechKept'
  BY DEF SpeechKept
<1>8. BusyIsServed'
  BY DEF BusyIsServed
<1> QED
  BY <1>1, <1>2, <1>3, <1>4, <1>5, <1>6, <1>7, <1>8

\* The worker that is sent a signal is no longer in the pool.
LEMMA AbortKeeps ==
  ASSUME TypeOK, Core, Abort
  PROVE  Core'
<1> USE WarmAssumption
    DEF Core, TypeOK, RunShape, NoRun, poolVars, procVars, Leaving, Abort, Forgotten
<1>1. RunShape'
  OBVIOUS
<1>2. EnginesMatch'
  BY DEF EnginesMatch
<1>3. RetiredUnpooled'
  BY DEF RetiredUnpooled
<1>4. PoolStays'
  BY DEF PoolStays, EnginesMatch
<1>5. ServedKept'
  BY DEF ServedKept
<1>6. StoppingStruck'
  BY DEF StoppingStruck
<1>7. SpeechKept'
  BY DEF SpeechKept, ServedKept, EnginesMatch
<1>8. BusyIsServed'
  BY DEF BusyIsServed
<1> QED
  BY <1>1, <1>2, <1>3, <1>4, <1>5, <1>6, <1>7, <1>8

\* Whoever gives up waiting has sent the signal.
LEMMA StoppedKeeps ==
  ASSUME TypeOK, Core, Stopped
  PROVE  Core'
<1> USE WarmAssumption
    DEF Core, TypeOK, RunShape, NoRun, poolVars, procVars, Leaving, Stopped, Leave
<1>1. RunShape'
  OBVIOUS
<1>2. EnginesMatch'
  BY DEF EnginesMatch
<1>3. RetiredUnpooled'
  BY DEF RetiredUnpooled
<1>4. PoolStays'
  BY DEF PoolStays
<1>5. ServedKept'
  BY DEF ServedKept
<1>6. StoppingStruck'
  BY DEF StoppingStruck
<1>7. SpeechKept'
  BY DEF SpeechKept, StoppingStruck
<1>8. BusyIsServed'
  BY DEF BusyIsServed
<1> QED
  BY <1>1, <1>2, <1>3, <1>4, <1>5, <1>6, <1>7, <1>8

\* A process may end at any time.
LEMMA ExitKeeps ==
  ASSUME TypeOK, Core, NEW p \in Procs, Exit(p)
  PROVE  Core'
<1> USE WarmAssumption
    DEF Core, TypeOK, RunShape, NoRun, poolVars, procVars, Leaving, Exit
<1>1. RunShape'
  OBVIOUS
<1>2. EnginesMatch'
  BY DEF EnginesMatch
<1>3. RetiredUnpooled'
  BY DEF RetiredUnpooled
<1>4. PoolStays'
  BY DEF PoolStays
<1>5. ServedKept'
  BY DEF ServedKept
<1>6. StoppingStruck'
  BY DEF StoppingStruck
<1>7. SpeechKept'
  BY DEF SpeechKept
<1>8. BusyIsServed'
  BY DEF BusyIsServed
<1> QED
  BY <1>1, <1>2, <1>3, <1>4, <1>5, <1>6, <1>7, <1>8

\* A retiring task signals a process the pool has given up.
LEMMA RetireKillsKeeps ==
  ASSUME TypeOK, Core, NEW r \in Retirers, RetireKills(r)
  PROVE  Core'
<1> USE WarmAssumption
    DEF Core, TypeOK, RunShape, NoRun, poolVars, procVars, Leaving, RetireKills
<1>1. RunShape'
  OBVIOUS
<1>2. EnginesMatch'
  BY DEF EnginesMatch
<1>3. RetiredUnpooled'
  BY DEF RetiredUnpooled
<1>4. PoolStays'
  BY DEF PoolStays, RetiredUnpooled
<1>5. ServedKept'
  BY DEF ServedKept
<1>6. StoppingStruck'
  BY DEF StoppingStruck
<1>7. SpeechKept'
  BY DEF SpeechKept
<1>8. BusyIsServed'
  BY DEF BusyIsServed
<1> QED
  BY <1>1, <1>2, <1>3, <1>4, <1>5, <1>6, <1>7, <1>8
-----------------------------------------------------------------------------
(* The steps of the retiring tasks, and the whole invariant.               *)

\* Which stretch each of them is.
LEMMA RetiringSteps ==
  ASSUME TypeOK, EnginesMatch
  PROVE  /\ Sweep => \E todo \in SUBSET Keys : Retirement(Sweeper, todo)
         /\ \A r \in Requests : StepAside(r) => \E todo \in SUBSET Keys : Retirement(r, todo)
         /\ \A b \in Batches : BatchEnds(b) =>
              \/ \E todo \in SUBSET Keys : Retirement(b, todo)
              \/ UNCHANGED <<warm, stamp, retire, told>>
         /\ \A r \in Retirers : RetireNext(r) => Retirement(r, retire[r].todo)
         /\ RetireAll => Retirement(Main, {k \in Keys : warm[k] # None})
<1> USE WarmAssumption DEF Retirers
<1>1. Sweep => \E todo \in SUBSET Keys : Retirement(Sweeper, todo)
  <2> SUFFICES ASSUME Sweep PROVE \E todo \in SUBSET Keys : Retirement(Sweeper, todo)
    OBVIOUS
  <2> DEFINE stale == {k \in Keys \ busy : warm[k] # None /\ stamp[k] = "stale"}
  <2>1. Advance(Sweeper, stale, stale) /\ stale \in SUBSET Keys
    BY DEF Sweep
  <2> QED
    BY <2>1, AdvanceRetires
<1>2. ASSUME NEW r \in Requests, StepAside(r)
      PROVE  \E todo \in SUBSET Keys : Retirement(r, todo)
  <2> DEFINE idle == {k \in Keys \ busy : warm[k] # None}
  <2>1. Advance(r, idle, idle) /\ idle \in SUBSET Keys
    BY <1>2 DEF StepAside
  <2> QED
    BY <2>1, AdvanceRetires
<1>3. ASSUME NEW b \in Batches, BatchEnds(b)
      PROVE  \/ \E todo \in SUBSET Keys : Retirement(b, todo)
             \/ UNCHANGED <<warm, stamp, retire, told>>
  <2> DEFINE transient == {k \in Keys \ (Speech \cup Sparing) : warm[k] # None}
  <2>1. \/ Advance(b, transient, {})
        \/ UNCHANGED <<warm, stamp, retire, told>>
    BY <1>3 DEF BatchEnds
  <2>2. transient \in SUBSET Keys /\ {} \in SUBSET Keys
    OBVIOUS
  <2> QED
    BY <2>1, <2>2, AdvanceRetires
<1>4. ASSUME NEW r \in Retirers, RetireNext(r) PROVE Retirement(r, retire[r].todo)
  <2>1. retire[r].todo \in SUBSET Keys /\ retire[r].chosen \in SUBSET Keys
    BY DEF TypeOK
  <2> QED
    BY <1>4, <2>1, AdvanceRetires DEF RetireNext
<1>5. ASSUME RetireAll PROVE Retirement(Main, {k \in Keys : warm[k] # None})
  <2> DEFINE all == {k \in Keys : warm[k] # None}
  <2>1. Advance(Main, all, {}) /\ all \in SUBSET Keys /\ {} \in SUBSET Keys
    BY <1>5 DEF RetireAll
  <2> QED
    BY <2>1, AdvanceRetires
<1> QED
  BY <1>1, <1>2, <1>3, <1>4, <1>5

\* Every step keeps the core of the invariant.
LEMMA CoreStep == IInv /\ [Next]_vars => Core'
<1> SUFFICES ASSUME IInv, [Next]_vars PROVE Core'
  OBVIOUS
<1> USE DEF IInv
<1>1. TypeOK /\ EnginesMatch
  BY DEF Core
<1>2. ASSUME NEW r \in Retirers, NEW todo \in SUBSET Keys, Retirement(r, todo),
             UNCHANGED <<busy, run, alive, struck, engine>>
      PROVE  Core'
  BY <1>2, RetirementKeeps
<1>3. ASSUME UNCHANGED <<warm, busy, run, retire, alive, told, struck, engine>>
      PROVE  Core'
  BY <1>3 DEF Core, RunShape, EnginesMatch, RetiredUnpooled, PoolStays, ServedKept,
              StoppingStruck, SpeechKept, BusyIsServed, Leaving
<1>4. ASSUME NEW k \in Keys, NEW small \in BOOLEAN, BeginRequest(k, small) PROVE Core'
  BY <1>4, BeginRequestKeeps
<1>5. ASSUME NEW p \in Procs, Spawned(p) \/ Exit(p) PROVE Core'
  BY <1>5, SpawnedKeeps, ExitKeeps
<1>6. ASSUME SpawnFails \/ Answered \/ EndOfOutput \/ Drained \/ Abort \/ Stopped PROVE Core'
  BY <1>6, SpawnFailsKeeps, AnsweredKeeps, EndOfOutputKeeps, DrainedKeeps, AbortKeeps,
     StoppedKeeps
<1>7. CASE Sweep
  BY <1>1, <1>2, <1>7, RetiringSteps DEF Sweep, Retirers
<1>8. ASSUME NEW r \in Requests, StepAside(r) PROVE Core'
  BY <1>1, <1>2, <1>8, RetiringSteps DEF StepAside, Retirers
<1>9. ASSUME NEW b \in Batches, BatchBegins(b) PROVE Core'
  BY <1>3, <1>9 DEF BatchBegins, poolVars, procVars
<1>10. ASSUME NEW b \in Batches, BatchEnds(b) PROVE Core'
  BY <1>1, <1>2, <1>3, <1>10, RetiringSteps DEF BatchEnds, Retirers
<1>11. ASSUME NEW r \in Retirers, RetireNext(r) PROVE Core'
  <2>1. retire[r].todo \in SUBSET Keys
    BY DEF TypeOK
  <2> QED
    BY <1>1, <1>2, <1>11, <2>1, RetiringSteps DEF RetireNext
<1>12. ASSUME NEW r \in Retirers, RetireKills(r) PROVE Core'
  BY <1>12, RetireKillsKeeps
<1>13. CASE StopSweeper
  BY <1>13 DEF Core, StopSweeper, Done, poolVars, procVars, TypeOK, RunShape, EnginesMatch,
     RetiredUnpooled, PoolStays, ServedKept, StoppingStruck, SpeechKept, BusyIsServed, Leaving
<1>14. CASE RetireAll
  <2>1. {k \in Keys : warm[k] # None} \in SUBSET Keys
    OBVIOUS
  <2> QED
    BY <1>1, <1>2, <1>14, <2>1, RetiringSteps DEF RetireAll, Retirers
<1>15. CASE ShutDown
  BY <1>3, <1>15 DEF ShutDown, poolVars, procVars
<1>16. ASSUME NEW k \in Keys, Elapse(k) PROVE Core'
  BY <1>3, <1>16 DEF Elapse, procVars
<1>17. CASE UNCHANGED vars
  BY <1>3, <1>17 DEF vars
<1> QED
  BY <1>4, <1>5, <1>6, <1>7, <1>8, <1>9, <1>10, <1>11, <1>12, <1>13, <1>14, <1>15, <1>16,
     <1>17 DEF Next

\* Every step keeps the types.
LEMMA TypeStep == IInv /\ [Next]_vars => TypeOK'
<1> SUFFICES ASSUME IInv, [Next]_vars PROVE TypeOK'
  OBVIOUS
<1> USE WarmAssumption DEF IInv
<1>1. TypeOK /\ EnginesMatch /\ RunShape
  BY DEF Core
<1>2. ASSUME NEW r \in Retirers, NEW todo \in SUBSET Keys, Retirement(r, todo),
             phase' \in {"up", "draining", "retiring", "down"}, open' \subseteq Batches,
             UNCHANGED <<busy, run, alive, struck, engine>>
      PROVE  TypeOK'
  BY <1>2 DEF Retirement, TypeOK
<1> USE DEF TypeOK, poolVars, procVars
<1>4. ASSUME NEW k \in Keys, NEW small \in BOOLEAN, BeginRequest(k, small) PROVE TypeOK'
  <2>1. Keep(k, small) \in BOOLEAN
    BY DEF Keep
  <2>2. CASE Keep(k, small) /\ warm[k] \in alive /\ Take(k, warm[k]) /\ UNCHANGED warm
    BY <1>4, <2>2 DEF BeginRequest, Take
  <2>3. CASE /\ run' = [pc |-> "spawning", key |-> k, proc |-> None, keep |-> Keep(k, small)]
             /\ warm' = IF Keep(k, small) THEN [warm EXCEPT ![k] = None] ELSE warm
             /\ UNCHANGED <<stamp, busy>>
    BY <1>4, <2>1, <2>3 DEF BeginRequest
  <2> QED
    BY <1>4, <2>2, <2>3 DEF BeginRequest
<1>5. ASSUME NEW p \in Procs, Spawned(p) PROVE TypeOK'
  <2>1. run.key \in Keys /\ p \notin alive
    BY <1>1, <1>5 DEF Spawned, RunShape, Unused
  <2>2. /\ alive' = alive \cup {p} /\ engine' = [engine EXCEPT ![p] = run.key]
        /\ UNCHANGED <<phase, open, retire, told, struck>>
    BY <1>5 DEF Spawned
  <2>3. CASE run.keep
    <3>1. /\ warm' = [warm EXCEPT ![run.key] = p] /\ busy' = busy \cup {run.key}
          /\ stamp' = [stamp EXCEPT ![run.key] = "fresh"]
          /\ run' = [pc |-> "serving", key |-> run.key, proc |-> p, keep |-> TRUE]
      BY <1>5, <2>3 DEF Spawned, Take
    <3> QED
      BY <2>1, <2>2, <3>1
  <2>4. CASE ~run.keep
    <3>1. run' = [run EXCEPT !.pc = "serving", !.proc = p] /\ UNCHANGED <<warm, stamp, busy>>
      BY <1>5, <2>4 DEF Spawned
    <3> QED
      BY <2>1, <2>2, <3>1
  <2> QED
    BY <2>3, <2>4
<1>6. ASSUME NEW p \in Procs, Exit(p) PROVE TypeOK'
  BY <1>6 DEF Exit
<1>7. CASE SpawnFails
  BY <1>7 DEF SpawnFails, NoRun
<1>8. CASE Answered
  BY <1>8 DEF Answered, Leave, NoRun
<1>9. CASE EndOfOutput
  BY <1>9 DEF EndOfOutput, Forgotten
<1>10. CASE Drained
  BY <1>10 DEF Drained, Leave, NoRun
<1>11. CASE Abort
  BY <1>11 DEF Abort, Forgotten
<1>12. CASE Stopped
  BY <1>12 DEF Stopped, Leave, NoRun
<1>13. CASE Sweep
  BY <1>1, <1>2, <1>13, RetiringSteps DEF Sweep, Retirers
<1>14. ASSUME NEW r \in Requests, StepAside(r) PROVE TypeOK'
  BY <1>1, <1>2, <1>14, RetiringSteps DEF StepAside, Retirers
<1>15. ASSUME NEW b \in Batches, BatchBegins(b) PROVE TypeOK'
  BY <1>15 DEF BatchBegins
<1>16. ASSUME NEW b \in Batches, BatchEnds(b) PROVE TypeOK'
  <2>1. CASE UNCHANGED <<warm, stamp, retire, told>>
    BY <1>16, <2>1 DEF BatchEnds
  <2>2. CASE \E todo \in SUBSET Keys : Retirement(b, todo)
    BY <1>2, <1>16, <2>2 DEF BatchEnds, Retirers
  <2> QED
    BY <1>1, <1>16, <2>1, <2>2, RetiringSteps
<1>17. ASSUME NEW r \in Retirers, RetireNext(r) PROVE TypeOK'
  <2>1. retire[r].todo \in SUBSET Keys
    OBVIOUS
  <2> QED
    BY <1>1, <1>2, <1>17, <2>1, RetiringSteps DEF RetireNext
<1>18. ASSUME NEW r \in Retirers, RetireKills(r) PROVE TypeOK'
  BY <1>18 DEF RetireKills
<1>19. CASE StopSweeper
  BY <1>19 DEF StopSweeper, Done
<1>20. CASE RetireAll
  <2>1. {k \in Keys : warm[k] # None} \in SUBSET Keys
    OBVIOUS
  <2> QED
    BY <1>1, <1>2, <1>20, <2>1, RetiringSteps DEF RetireAll, Retirers
<1>21. CASE ShutDown
  BY <1>21 DEF ShutDown
<1>22. ASSUME NEW k \in Keys, Elapse(k) PROVE TypeOK'
  BY <1>22 DEF Elapse
<1>23. CASE UNCHANGED vars
  BY <1>23 DEF vars
<1> QED
  BY <1>4, <1>5, <1>6, <1>7, <1>8, <1>9, <1>10, <1>11, <1>12, <1>13, <1>14, <1>15, <1>16,
     <1>17, <1>18, <1>19, <1>20, <1>21, <1>22, <1>23 DEF Next

\* Once the jobs are over nothing enters the pool, and what was in it is on the
\* list of the lifespan until it has been told to go.
LEMMA DrainStep == IInv /\ [Next]_vars => DrainOrder'
<1> SUFFICES ASSUME IInv, [Next]_vars PROVE DrainOrder'
  OBVIOUS
<1> USE WarmAssumption DEF IInv, DrainOrder
<1>1. TypeOK /\ EnginesMatch /\ RunShape
  BY DEF Core
<1>2. ASSUME UNCHANGED <<phase, run, retire>>,
             \A k \in Keys : warm'[k] \in alive' => warm[k] \in alive
      PROVE  DrainOrder'
  BY <1>2
<1>3. ASSUME NEW r \in Retirers, NEW todo \in SUBSET Keys, Retirement(r, todo),
             phase' = "up"
      PROVE  DrainOrder'
  BY <1>3
<1>4. ASSUME phase \in {"up", "draining"}, phase' = phase PROVE DrainOrder'
  BY <1>4
<1>5. ASSUME NEW k \in Keys, NEW small \in BOOLEAN, BeginRequest(k, small) PROVE DrainOrder'
  BY <1>4, <1>5 DEF BeginRequest
<1>6. ASSUME NEW p \in Procs, Spawned(p) PROVE DrainOrder'
  BY <1>4, <1>6 DEF Spawned, TypeOK
<1>7. ASSUME NEW p \in Procs, Exit(p) PROVE DrainOrder'
  BY <1>2, <1>7 DEF Exit, poolVars
<1>8. ASSUME SpawnFails \/ Answered \/ EndOfOutput \/ Drained \/ Abort \/ Stopped
      PROVE  DrainOrder'
  BY <1>4, <1>8 DEF SpawnFails, Answered, EndOfOutput, Drained, Abort, Stopped, TypeOK
<1>9. ASSUME Sweep \/ \E r \in Requests : StepAside(r) PROVE DrainOrder'
  BY <1>4, <1>9 DEF Sweep, StepAside
<1>10. ASSUME NEW b \in Batches, BatchBegins(b) PROVE DrainOrder'
  BY <1>4, <1>10 DEF BatchBegins
<1>11. ASSUME NEW b \in Batches, BatchEnds(b) PROVE DrainOrder'
  <2>1. CASE UNCHANGED <<warm, stamp, retire, told>>
    BY <1>2, <1>11, <2>1 DEF BatchEnds
  <2>2. ASSUME NEW todo \in SUBSET Keys, Retirement(b, todo) PROVE DrainOrder'
    <3>1. \A k \in Keys : warm'[k] \in alive => warm[k] \in alive
      BY <1>1, <2>2 DEF Retirement, TypeOK
    <3>2. retire'[Main] = retire[Main]
      BY <2>2 DEF Retirement, Retirers
    <3> QED
      BY <1>11, <3>1, <3>2 DEF BatchEnds
  <2> QED
    BY <1>1, <1>11, <2>1, <2>2, RetiringSteps
<1>12. ASSUME NEW r \in Retirers, RetireNext(r) PROVE DrainOrder'
  <2>1. Retirement(r, retire[r].todo) /\ UNCHANGED <<phase, run, alive>>
    BY <1>1, <1>12, RetiringSteps DEF RetireNext
  <2>2. \A k \in Keys : warm'[k] \in alive => warm[k] \in alive
    BY <1>1, <2>1 DEF Retirement, TypeOK
  <2>3. CASE r = Main
    BY <2>1, <2>2, <2>3 DEF Retirement
  <2>4. CASE r # Main
    BY <2>1, <2>2, <2>4 DEF Retirement, Retirers
  <2> QED
    BY <2>3, <2>4
<1>13. ASSUME NEW r \in Retirers, RetireKills(r) PROVE DrainOrder'
  BY <1>2, <1>13 DEF RetireKills, poolVars
<1>14. CASE StopSweeper
  BY <1>14 DEF StopSweeper
<1>15. CASE RetireAll
  <2>1. Retirement(Main, {k \in Keys : warm[k] # None}) /\ UNCHANGED <<run, alive>>
    BY <1>1, <1>15, RetiringSteps DEF RetireAll
  <2>2. phase' = "retiring" /\ run.pc = "idle"
    BY <1>15 DEF RetireAll
  <2>3. \A k \in Keys : warm'[k] \in alive => warm[k] # None
    BY <1>1, <2>1 DEF Retirement, TypeOK
  <2> QED
    BY <2>1, <2>2, <2>3 DEF Retirement
<1>16. CASE ShutDown
  BY <1>1, <1>16 DEF ShutDown, Idle, Done, poolVars, procVars
<1>17. ASSUME NEW k \in Keys, Elapse(k) PROVE DrainOrder'
  BY <1>2, <1>17 DEF Elapse
<1>18. CASE UNCHANGED vars
  BY <1>2, <1>18 DEF vars
<1> QED
  BY <1>5, <1>6, <1>7, <1>8, <1>9, <1>10, <1>11, <1>12, <1>13, <1>14, <1>15, <1>16, <1>17,
     <1>18 DEF Next

\* The initial state satisfies the invariant.
LEMMA InitIInv == Init => IInv
  BY WarmAssumption
  DEF Init, IInv, Core, TypeOK, RunShape, EnginesMatch, RetiredUnpooled, PoolStays, ServedKept,
      StoppingStruck, SpeechKept, BusyIsServed, DrainOrder, NoRun, Done, Leaving

\* The inductive invariant holds in every reachable state: the pool, the
\* request, the retiring tasks and the shutdown agree about every worker.
THEOREM PoolInvariance == Spec => []IInv
<1>1. IInv /\ [Next]_vars => IInv'
  BY TypeStep, CoreStep, DrainStep DEF IInv
<1> QED
  BY InitIInv, <1>1, PTL DEF Spec

\* Type correctness.
THEOREM PoolTypeCorrect == Spec => []TypeOK
<1>1. IInv => TypeOK
  BY DEF IInv
<1> QED
  BY PoolInvariance, <1>1, PTL

\* A worker leaves the pool before its stdin is closed or a signal is sent.
THEOREM PoolAlwaysServes == Spec => []PoolServes
<1>1. IInv => PoolServes
  BY DEF IInv, Core, PoolStays, PoolServes, Pooled
<1> QED
  BY PoolInvariance, <1>1, PTL

\* No speech worker is lost between the tasks that start, use and retire it.
THEOREM SpeechAlwaysAccounted == Spec => []SpeechAccounted
<1>1. IInv => SpeechAccounted
  BY WarmAssumption DEF IInv, Core, TypeOK, SpeechKept, SpeechAccounted, Pooled
<1> QED
  BY PoolInvariance, <1>1, PTL

\* One worker per speech engine: both of two would be the pool's or the
\* request's, and those are the same.
THEOREM OneSpeechWorkerHolds == Spec => []OneSpeechWorker
<1>1. IInv => OneSpeechWorker
  <2> SUFFICES ASSUME IInv, NEW p \in alive \ Leaving, NEW q \in alive \ Leaving,
                      engine[p] = engine[q], engine[p] \in Speech
               PROVE  p = q
    BY DEF OneSpeechWorker
  <2>1. TypeOK /\ RunShape /\ EnginesMatch /\ ServedKept /\ SpeechKept
    BY DEF IInv, Core
  <2>2. /\ warm[engine[p]] = p \/ p = run.proc
        /\ warm[engine[p]] = q \/ q = run.proc
    BY <2>1 DEF SpeechKept
  <2>3. ASSUME NEW s \in alive \ Leaving, s = run.proc, engine[s] \in Speech
        PROVE  warm[engine[s]] = s
    BY <2>1, <2>3, WarmAssumption DEF TypeOK, RunShape, EnginesMatch, ServedKept
  <2> QED
    BY <2>2, <2>3
<1> QED
  BY PoolInvariance, <1>1, PTL

\* Busy marks are exact.
THEOREM BusyIsServedHolds == Spec => []BusyIsServed
<1>1. IInv => BusyIsServed
  BY DEF IInv, Core
<1> QED
  BY PoolInvariance, <1>1, PTL

\* The shutdown leaves no speech worker that was not told to go.
THEOREM NothingLeftBehindHolds == Spec => []NothingLeftBehind
<1>1. IInv => NothingLeftBehind
  BY WarmAssumption
  DEF IInv, Core, TypeOK, DrainOrder, RunShape, NoRun, SpeechKept, NothingLeftBehind
<1> QED
  BY PoolInvariance, <1>1, PTL
=============================================================================
