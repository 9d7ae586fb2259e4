------------------------- MODULE JobLifecycleProofs -------------------------
(***************************************************************************)
(* Proofs about JobLifecycle, for every set of jobs of every kind and for  *)
(* every bound.  IInv is inductive: the type invariant alone is not, since *)
(* what the Host is told is the row of a task suspended in its last        *)
(* report, and that a row there is terminal is RowsMatchTasks; that in     *)
(* turn rests on TasksReachable (a job settled while queued is cancelled   *)
(* because its task is registered, and start-up finds no live task).       *)
(*                                                                         *)
(* On top of IInv: LeaseDiscipline ties suspension, handle, Broker and     *)
(* heartbeat of a job on the GPU together; LocalRuns says where a local    *)
(* job's cancellation is; HostFollows says when the Host's record of a CPU *)
(* job is still open.                                                      *)
(***************************************************************************)
EXTENDS JobLifecycle, TLAPS

IInv == TypeOK /\ RowsMatchTasks /\ TasksReachable /\ SlotHeldByWork

\* The initial state satisfies the invariant.
LEMMA InitIInv == Init => IInv
  BY ConstantsAssumption
  DEF Init, IInv, TypeOK, RowsMatchTasks, TasksReachable, SlotHeldByWork, Terminal,
      Waiting, Working, Guarded, Unwinding, Live, Labels

\* Every step keeps the types.
LEMMA TypeStep == IInv /\ [Next]_vars => TypeOK'
<1> SUFFICES ASSUME IInv, [Next]_vars PROVE TypeOK'
  OBVIOUS
<1> USE ConstantsAssumption
<1> USE DEF IInv, TypeOK, RowsMatchTasks, Goto, Terminal, Waiting, Working, Guarded, Unwinding,
        Live, Labels, procVars, dbVars, taskVars, gpuVars, runVars, hostVars
  <1>1. ASSUME NEW j \in Jobs, Create(j) PROVE TypeOK'
    BY <1>1 DEF Create, At
  <1>2. ASSUME NEW j \in Jobs, StartPrompted(j) PROVE TypeOK'
    BY <1>2 DEF StartPrompted, At
  <1>3. ASSUME NEW j \in Jobs, PromptFails(j) PROVE TypeOK'
    BY <1>3 DEF PromptFails, At
  <1>4. ASSUME NEW j \in Jobs, StartHosted(j) PROVE TypeOK'
    BY <1>4 DEF StartHosted, At
  <1>5. ASSUME NEW j \in Jobs, StartLocal(j) PROVE TypeOK'
    BY <1>5 DEF StartLocal, At, EnterLock
  <1>6. ASSUME NEW j \in Jobs, FirstFails(j) PROVE TypeOK'
    BY <1>6 DEF FirstFails, At
  <1>7. ASSUME NEW j \in Jobs, EnterTry(j) PROVE TypeOK'
    BY <1>7 DEF EnterTry, At, End, Settle, EnterLock
  <1>8. ASSUME NEW j \in Jobs, RequestAnswered(j) PROVE TypeOK'
    BY <1>8 DEF RequestAnswered, Answered, At, End, Settle
  <1>9. ASSUME NEW j \in Jobs, StatusAnswered(j) PROVE TypeOK'
    BY <1>9 DEF StatusAnswered, Answered, At, End, Settle
  <1>10. ASSUME NEW j \in Jobs, Activated(j) PROVE TypeOK'
    BY <1>10 DEF Activated, At, End, Settle, EnterLock
  <1>11. ASSUME NEW j \in Jobs, TryFails(j) PROVE TypeOK'
    BY <1>11 DEF TryFails, At, End, Settle, Told
  <1>12. ASSUME NEW j \in Jobs, LockAcquired(j) PROVE TypeOK'
    BY <1>12 DEF LockAcquired, At, EnterLock
  <1>13. ASSUME NEW j \in Jobs, WorkerDone(j) PROVE TypeOK'
    BY <1>13 DEF WorkerDone, At, Succeed, Settle
  <1>14. ASSUME NEW j \in Jobs, WorkerFails(j) PROVE TypeOK'
    BY <1>14 DEF WorkerFails, At
  <1>15. ASSUME NEW j \in Jobs, WorkerStopped(j) PROVE TypeOK'
    BY <1>15 DEF WorkerStopped, At, End, Settle
  <1>16. ASSUME NEW j \in Jobs, PostDone(j) PROVE TypeOK'
    BY <1>16 DEF PostDone, At, End, Succeed, Settle
  <1>17. ASSUME NEW j \in Jobs, Committed(j) PROVE TypeOK'
    BY <1>17 DEF Committed, At, Succeed, Settle
  <1>18. ASSUME NEW j \in Jobs, Reported(j) PROVE TypeOK'
    BY <1>18 DEF Reported, At, Told, Unwind
  <1>19. ASSUME NEW j \in Jobs, Joined(j) PROVE TypeOK'
    BY <1>19 DEF Joined, At
  <1>20. ASSUME NEW j \in Jobs, Released(j) PROVE TypeOK'
    BY <1>20 DEF Released, At, Freed
  <1>21. ASSUME NEW j \in Jobs, StruckUnguarded(j) PROVE TypeOK'
    BY <1>21 DEF StruckUnguarded, Struck, Freed
  <1>22. ASSUME NEW j \in Jobs, StruckGuarded(j) PROVE TypeOK'
    BY <1>22 DEF StruckGuarded, Struck, End, Settle, Told
  <1>23. ASSUME NEW j \in Jobs, StruckExecuting(j) PROVE TypeOK'
    BY <1>23 DEF StruckExecuting, Struck
  <1>24. ASSUME NEW j \in Jobs, StruckStopping(j) PROVE TypeOK'
    BY <1>24 DEF StruckStopping, Struck, End, Settle
  <1>25. ASSUME NEW j \in Jobs, StruckEnding(j) PROVE TypeOK'
    BY <1>25 DEF StruckEnding, Struck, Told, Unwind
  <1>26. ASSUME NEW j \in Jobs, CancelQueued(j) PROVE TypeOK'
    BY <1>26 DEF CancelQueued, CancelCalled, Post
  <1>27. ASSUME NEW j \in Jobs, CancelWaiting(j) PROVE TypeOK'
    BY <1>27 DEF CancelWaiting, CancelCalled
  <1>28. ASSUME NEW j \in Jobs, CancelRunning(j) PROVE TypeOK'
    BY <1>28 DEF CancelRunning, CancelCalled, Post
  <1>29. ASSUME NEW j \in Jobs, CancelResumes(j) PROVE TypeOK'
    BY <1>29 DEF CancelResumes, Post, Freed
  <1>30. ASSUME NEW j \in Jobs, WatchCancels(j) PROVE TypeOK'
    BY <1>30 DEF WatchCancels, Post
  <1>31. ASSUME NEW j \in Jobs, HelperFails(j) PROVE TypeOK'
    BY <1>31 DEF HelperFails
  <1>32. ASSUME NEW j \in Jobs, HostUserCancels(j) PROVE TypeOK'
    BY <1>32 DEF HostUserCancels
  <1>33. ASSUME NEW j \in Jobs, BrokerReceives(j) PROVE TypeOK'
    BY <1>33 DEF BrokerReceives
  <1>34. ASSUME NEW j \in Jobs, BrokerGrants(j) PROVE TypeOK'
    BY <1>34 DEF BrokerGrants
  <1>35. ASSUME NEW j \in Jobs, BrokerRejects(j) PROVE TypeOK'
    BY <1>35 DEF BrokerRejects
  <1>36. ASSUME NEW j \in Jobs, BrokerExpires(j) PROVE TypeOK'
    BY <1>36 DEF BrokerExpires
  <1>37. ASSUME NEW j \in Jobs, OrphanExits(j) PROVE TypeOK'
    BY <1>37 DEF OrphanExits
  <1>38. CASE Crash
    BY <1>38 DEF Crash, MemoryLost
  <1>39. CASE BeginShutdown
    BY <1>39 DEF BeginShutdown
  <1>40. CASE EndShutdown
    BY <1>40 DEF EndShutdown, MemoryLost
  <1>41. CASE Startup
    BY <1>41 DEF Startup
  <1>42. CASE UNCHANGED vars
    BY <1>42 DEF vars
  <1> QED
    BY <1>1, <1>2, <1>3, <1>4, <1>5, <1>6, <1>7, <1>8, <1>9, <1>10, <1>11, <1>12, <1>13, <1>14,
       <1>15, <1>16, <1>17, <1>18, <1>19, <1>20, <1>21, <1>22, <1>23, <1>24, <1>25, <1>26, <1>27,
       <1>28, <1>29, <1>30, <1>31, <1>32, <1>33, <1>34, <1>35, <1>36, <1>37, <1>38, <1>39, <1>40,
       <1>41, <1>42 DEF Next, TaskStep

\* Every step keeps rows and tasks together.
LEMMA RowsStep == IInv /\ [Next]_vars => RowsMatchTasks'
<1> SUFFICES ASSUME IInv, [Next]_vars PROVE RowsMatchTasks'
  OBVIOUS
<1> USE ConstantsAssumption
<1> USE DEF IInv, RowsMatchTasks, TypeOK, Goto, Terminal, Waiting, Working, Guarded, Unwinding,
        Live, Labels, procVars, dbVars, taskVars, gpuVars, runVars, hostVars
  <1>1. ASSUME NEW j \in Jobs, Create(j) PROVE RowsMatchTasks'
    BY <1>1 DEF Create, At
  <1>2. ASSUME NEW j \in Jobs, StartPrompted(j) PROVE RowsMatchTasks'
    BY <1>2 DEF StartPrompted, At
  <1>3. ASSUME NEW j \in Jobs, PromptFails(j) PROVE RowsMatchTasks'
    BY <1>3 DEF PromptFails, At
  <1>4. ASSUME NEW j \in Jobs, StartHosted(j) PROVE RowsMatchTasks'
    BY <1>4 DEF StartHosted, At
  <1>5. ASSUME NEW j \in Jobs, StartLocal(j) PROVE RowsMatchTasks'
    BY <1>5 DEF StartLocal, At, EnterLock
  <1>6. ASSUME NEW j \in Jobs, FirstFails(j) PROVE RowsMatchTasks'
    BY <1>6 DEF FirstFails, At
  <1>7. ASSUME NEW j \in Jobs, EnterTry(j) PROVE RowsMatchTasks'
    BY <1>7 DEF EnterTry, At, End, Settle, EnterLock
  <1>8. ASSUME NEW j \in Jobs, RequestAnswered(j) PROVE RowsMatchTasks'
    BY <1>8 DEF RequestAnswered, Answered, At, End, Settle
  <1>9. ASSUME NEW j \in Jobs, StatusAnswered(j) PROVE RowsMatchTasks'
    BY <1>9 DEF StatusAnswered, Answered, At, End, Settle
  <1>10. ASSUME NEW j \in Jobs, Activated(j) PROVE RowsMatchTasks'
    BY <1>10 DEF Activated, At, End, Settle, EnterLock
  <1>11. ASSUME NEW j \in Jobs, TryFails(j) PROVE RowsMatchTasks'
    BY <1>11 DEF TryFails, At, End, Settle, Told
  <1>12. ASSUME NEW j \in Jobs, LockAcquired(j) PROVE RowsMatchTasks'
    BY <1>12 DEF LockAcquired, At, EnterLock
  <1>13. ASSUME NEW j \in Jobs, WorkerDone(j) PROVE RowsMatchTasks'
    BY <1>13 DEF WorkerDone, At, Succeed, Settle
  <1>14. ASSUME NEW j \in Jobs, WorkerFails(j) PROVE RowsMatchTasks'
    BY <1>14 DEF WorkerFails, At
  <1>15. ASSUME NEW j \in Jobs, WorkerStopped(j) PROVE RowsMatchTasks'
    BY <1>15 DEF WorkerStopped, At, End, Settle
  <1>16. ASSUME NEW j \in Jobs, PostDone(j) PROVE RowsMatchTasks'
    BY <1>16 DEF PostDone, At, End, Succeed, Settle
  <1>17. ASSUME NEW j \in Jobs, Committed(j) PROVE RowsMatchTasks'
    BY <1>17 DEF Committed, At, Succeed, Settle
  <1>18. ASSUME NEW j \in Jobs, Reported(j) PROVE RowsMatchTasks'
    BY <1>18 DEF Reported, At, Told, Unwind
  <1>19. ASSUME NEW j \in Jobs, Joined(j) PROVE RowsMatchTasks'
    BY <1>19 DEF Joined, At
  <1>20. ASSUME NEW j \in Jobs, Released(j) PROVE RowsMatchTasks'
    BY <1>20 DEF Released, At, Freed
  <1>21. ASSUME NEW j \in Jobs, StruckUnguarded(j) PROVE RowsMatchTasks'
    BY <1>21 DEF StruckUnguarded, Struck, Freed
  <1>22. ASSUME NEW j \in Jobs, StruckGuarded(j) PROVE RowsMatchTasks'
    BY <1>22 DEF StruckGuarded, Struck, End, Settle, Told
  <1>23. ASSUME NEW j \in Jobs, StruckExecuting(j) PROVE RowsMatchTasks'
    BY <1>23 DEF StruckExecuting, Struck
  <1>24. ASSUME NEW j \in Jobs, StruckStopping(j) PROVE RowsMatchTasks'
    BY <1>24 DEF StruckStopping, Struck, End, Settle
  <1>25. ASSUME NEW j \in Jobs, StruckEnding(j) PROVE RowsMatchTasks'
    BY <1>25 DEF StruckEnding, Struck, Told, Unwind
  <1>26. ASSUME NEW j \in Jobs, CancelQueued(j) PROVE RowsMatchTasks'
    BY <1>26 DEF CancelQueued, CancelCalled, Post, TasksReachable
  <1>27. ASSUME NEW j \in Jobs, CancelWaiting(j) PROVE RowsMatchTasks'
    BY <1>27 DEF CancelWaiting, CancelCalled
  <1>28. ASSUME NEW j \in Jobs, CancelRunning(j) PROVE RowsMatchTasks'
    BY <1>28 DEF CancelRunning, CancelCalled, Post
  <1>29. ASSUME NEW j \in Jobs, CancelResumes(j) PROVE RowsMatchTasks'
    BY <1>29 DEF CancelResumes, Post, Freed
  <1>30. ASSUME NEW j \in Jobs, WatchCancels(j) PROVE RowsMatchTasks'
    BY <1>30 DEF WatchCancels, Post
  <1>31. ASSUME NEW j \in Jobs, HelperFails(j) PROVE RowsMatchTasks'
    BY <1>31 DEF HelperFails
  <1>32. ASSUME NEW j \in Jobs, HostUserCancels(j) PROVE RowsMatchTasks'
    BY <1>32 DEF HostUserCancels
  <1>33. ASSUME NEW j \in Jobs, BrokerReceives(j) PROVE RowsMatchTasks'
    BY <1>33 DEF BrokerReceives
  <1>34. ASSUME NEW j \in Jobs, BrokerGrants(j) PROVE RowsMatchTasks'
    BY <1>34 DEF BrokerGrants
  <1>35. ASSUME NEW j \in Jobs, BrokerRejects(j) PROVE RowsMatchTasks'
    BY <1>35 DEF BrokerRejects
  <1>36. ASSUME NEW j \in Jobs, BrokerExpires(j) PROVE RowsMatchTasks'
    BY <1>36 DEF BrokerExpires
  <1>37. ASSUME NEW j \in Jobs, OrphanExits(j) PROVE RowsMatchTasks'
    BY <1>37 DEF OrphanExits
  <1>38. CASE Crash
    BY <1>38 DEF Crash, MemoryLost
  <1>39. CASE BeginShutdown
    BY <1>39 DEF BeginShutdown
  <1>40. CASE EndShutdown
    BY <1>40 DEF EndShutdown, MemoryLost
  <1>41. CASE Startup
    BY <1>41 DEF Startup, TasksReachable
  <1>42. CASE UNCHANGED vars
    BY <1>42 DEF vars
  <1> QED
    BY <1>1, <1>2, <1>3, <1>4, <1>5, <1>6, <1>7, <1>8, <1>9, <1>10, <1>11, <1>12, <1>13, <1>14,
       <1>15, <1>16, <1>17, <1>18, <1>19, <1>20, <1>21, <1>22, <1>23, <1>24, <1>25, <1>26, <1>27,
       <1>28, <1>29, <1>30, <1>31, <1>32, <1>33, <1>34, <1>35, <1>36, <1>37, <1>38, <1>39, <1>40,
       <1>41, <1>42 DEF Next, TaskStep

\* Every live task stays registered, and dies with the process.
LEMMA ReachableStep == IInv /\ [Next]_vars => TasksReachable'
<1> SUFFICES ASSUME IInv, [Next]_vars PROVE TasksReachable'
  OBVIOUS
<1> USE ConstantsAssumption
<1> USE DEF IInv, TasksReachable, TypeOK, Goto, Terminal, Waiting, Working, Guarded, Unwinding,
        Live, Labels, procVars, dbVars, taskVars, gpuVars, runVars, hostVars
  <1>1. ASSUME NEW j \in Jobs, Create(j) PROVE TasksReachable'
    BY <1>1 DEF Create, At
  <1>2. ASSUME NEW j \in Jobs, StartPrompted(j) PROVE TasksReachable'
    BY <1>2 DEF StartPrompted, At
  <1>3. ASSUME NEW j \in Jobs, PromptFails(j) PROVE TasksReachable'
    BY <1>3 DEF PromptFails, At
  <1>4. ASSUME NEW j \in Jobs, StartHosted(j) PROVE TasksReachable'
    BY <1>4 DEF StartHosted, At
  <1>5. ASSUME NEW j \in Jobs, StartLocal(j) PROVE TasksReachable'
    BY <1>5 DEF StartLocal, At, EnterLock
  <1>6. ASSUME NEW j \in Jobs, FirstFails(j) PROVE TasksReachable'
    BY <1>6 DEF FirstFails, At
  <1>7. ASSUME NEW j \in Jobs, EnterTry(j) PROVE TasksReachable'
    BY <1>7 DEF EnterTry, At, End, Settle, EnterLock
  <1>8. ASSUME NEW j \in Jobs, RequestAnswered(j) PROVE TasksReachable'
    BY <1>8 DEF RequestAnswered, Answered, At, End, Settle
  <1>9. ASSUME NEW j \in Jobs, StatusAnswered(j) PROVE TasksReachable'
    BY <1>9 DEF StatusAnswered, Answered, At, End, Settle
  <1>10. ASSUME NEW j \in Jobs, Activated(j) PROVE TasksReachable'
    BY <1>10 DEF Activated, At, End, Settle, EnterLock
  <1>11. ASSUME NEW j \in Jobs, TryFails(j) PROVE TasksReachable'
    BY <1>11 DEF TryFails, At, End, Settle, Told
  <1>12. ASSUME NEW j \in Jobs, LockAcquired(j) PROVE TasksReachable'
    BY <1>12 DEF LockAcquired, At, EnterLock
  <1>13. ASSUME NEW j \in Jobs, WorkerDone(j) PROVE TasksReachable'
    BY <1>13 DEF WorkerDone, At, Succeed, Settle
  <1>14. ASSUME NEW j \in Jobs, WorkerFails(j) PROVE TasksReachable'
    BY <1>14 DEF WorkerFails, At
  <1>15. ASSUME NEW j \in Jobs, WorkerStopped(j) PROVE TasksReachable'
    BY <1>15 DEF WorkerStopped, At, End, Settle
  <1>16. ASSUME NEW j \in Jobs, PostDone(j) PROVE TasksReachable'
    BY <1>16 DEF PostDone, At, End, Succeed, Settle
  <1>17. ASSUME NEW j \in Jobs, Committed(j) PROVE TasksReachable'
    BY <1>17 DEF Committed, At, Succeed, Settle
  <1>18. ASSUME NEW j \in Jobs, Reported(j) PROVE TasksReachable'
    BY <1>18 DEF Reported, At, Told, Unwind
  <1>19. ASSUME NEW j \in Jobs, Joined(j) PROVE TasksReachable'
    BY <1>19 DEF Joined, At
  <1>20. ASSUME NEW j \in Jobs, Released(j) PROVE TasksReachable'
    BY <1>20 DEF Released, At, Freed
  <1>21. ASSUME NEW j \in Jobs, StruckUnguarded(j) PROVE TasksReachable'
    BY <1>21 DEF StruckUnguarded, Struck, Freed
  <1>22. ASSUME NEW j \in Jobs, StruckGuarded(j) PROVE TasksReachable'
    BY <1>22 DEF StruckGuarded, Struck, End, Settle, Told
  <1>23. ASSUME NEW j \in Jobs, StruckExecuting(j) PROVE TasksReachable'
    BY <1>23 DEF StruckExecuting, Struck
  <1>24. ASSUME NEW j \in Jobs, StruckStopping(j) PROVE TasksReachable'
    BY <1>24 DEF StruckStopping, Struck, End, Settle
  <1>25. ASSUME NEW j \in Jobs, StruckEnding(j) PROVE TasksReachable'
    BY <1>25 DEF StruckEnding, Struck, Told, Unwind
  <1>26. ASSUME NEW j \in Jobs, CancelQueued(j) PROVE TasksReachable'
    BY <1>26 DEF CancelQueued, CancelCalled, Post
  <1>27. ASSUME NEW j \in Jobs, CancelWaiting(j) PROVE TasksReachable'
    BY <1>27 DEF CancelWaiting, CancelCalled
  <1>28. ASSUME NEW j \in Jobs, CancelRunning(j) PROVE TasksReachable'
    BY <1>28 DEF CancelRunning, CancelCalled, Post
  <1>29. ASSUME NEW j \in Jobs, CancelResumes(j) PROVE TasksReachable'
    BY <1>29 DEF CancelResumes, Post, Freed
  <1>30. ASSUME NEW j \in Jobs, WatchCancels(j) PROVE TasksReachable'
    BY <1>30 DEF WatchCancels, Post
  <1>31. ASSUME NEW j \in Jobs, HelperFails(j) PROVE TasksReachable'
    BY <1>31 DEF HelperFails
  <1>32. ASSUME NEW j \in Jobs, HostUserCancels(j) PROVE TasksReachable'
    BY <1>32 DEF HostUserCancels
  <1>33. ASSUME NEW j \in Jobs, BrokerReceives(j) PROVE TasksReachable'
    BY <1>33 DEF BrokerReceives
  <1>34. ASSUME NEW j \in Jobs, BrokerGrants(j) PROVE TasksReachable'
    BY <1>34 DEF BrokerGrants
  <1>35. ASSUME NEW j \in Jobs, BrokerRejects(j) PROVE TasksReachable'
    BY <1>35 DEF BrokerRejects
  <1>36. ASSUME NEW j \in Jobs, BrokerExpires(j) PROVE TasksReachable'
    BY <1>36 DEF BrokerExpires
  <1>37. ASSUME NEW j \in Jobs, OrphanExits(j) PROVE TasksReachable'
    BY <1>37 DEF OrphanExits
  <1>38. CASE Crash
    BY <1>38 DEF Crash, MemoryLost
  <1>39. CASE BeginShutdown
    BY <1>39 DEF BeginShutdown
  <1>40. CASE EndShutdown
    BY <1>40 DEF EndShutdown, MemoryLost
  <1>41. CASE Startup
    BY <1>41 DEF Startup
  <1>42. CASE UNCHANGED vars
    BY <1>42 DEF vars
  <1> QED
    BY <1>1, <1>2, <1>3, <1>4, <1>5, <1>6, <1>7, <1>8, <1>9, <1>10, <1>11, <1>12, <1>13, <1>14,
       <1>15, <1>16, <1>17, <1>18, <1>19, <1>20, <1>21, <1>22, <1>23, <1>24, <1>25, <1>26, <1>27,
       <1>28, <1>29, <1>30, <1>31, <1>32, <1>33, <1>34, <1>35, <1>36, <1>37, <1>38, <1>39, <1>40,
       <1>41, <1>42 DEF Next, TaskStep

\* Every way into and out of execute() keeps the process lock.
LEMMA SlotStep == IInv /\ [Next]_vars => SlotHeldByWork'
<1> SUFFICES ASSUME IInv, [Next]_vars PROVE SlotHeldByWork'
  OBVIOUS
<1> USE ConstantsAssumption
<1> USE DEF IInv, SlotHeldByWork, TypeOK, Goto, Terminal, Waiting, Working, Guarded, Unwinding,
        Live, Labels, procVars, dbVars, taskVars, gpuVars, runVars, hostVars
  <1>1. ASSUME NEW j \in Jobs, Create(j) PROVE SlotHeldByWork'
    BY <1>1 DEF Create, At, RowsMatchTasks
  <1>2. ASSUME NEW j \in Jobs, StartPrompted(j) PROVE SlotHeldByWork'
    BY <1>2 DEF StartPrompted, At
  <1>3. ASSUME NEW j \in Jobs, PromptFails(j) PROVE SlotHeldByWork'
    BY <1>3 DEF PromptFails, At
  <1>4. ASSUME NEW j \in Jobs, StartHosted(j) PROVE SlotHeldByWork'
    BY <1>4 DEF StartHosted, At
  <1>5. ASSUME NEW j \in Jobs, StartLocal(j) PROVE SlotHeldByWork'
    BY <1>5 DEF StartLocal, At, EnterLock
  <1>6. ASSUME NEW j \in Jobs, FirstFails(j) PROVE SlotHeldByWork'
    BY <1>6 DEF FirstFails, At
  <1>7. ASSUME NEW j \in Jobs, EnterTry(j) PROVE SlotHeldByWork'
    BY <1>7 DEF EnterTry, At, End, Settle, EnterLock
  <1>8. ASSUME NEW j \in Jobs, RequestAnswered(j) PROVE SlotHeldByWork'
    BY <1>8 DEF RequestAnswered, Answered, At, End, Settle
  <1>9. ASSUME NEW j \in Jobs, StatusAnswered(j) PROVE SlotHeldByWork'
    BY <1>9 DEF StatusAnswered, Answered, At, End, Settle
  <1>10. ASSUME NEW j \in Jobs, Activated(j) PROVE SlotHeldByWork'
    BY <1>10 DEF Activated, At, End, Settle, EnterLock
  <1>11. ASSUME NEW j \in Jobs, TryFails(j) PROVE SlotHeldByWork'
    BY <1>11 DEF TryFails, At, End, Settle, Told
  <1>12. ASSUME NEW j \in Jobs, LockAcquired(j) PROVE SlotHeldByWork'
    BY <1>12 DEF LockAcquired, At, EnterLock
  <1>13. ASSUME NEW j \in Jobs, WorkerDone(j) PROVE SlotHeldByWork'
    BY <1>13 DEF WorkerDone, At, Succeed, Settle
  <1>14. ASSUME NEW j \in Jobs, WorkerFails(j) PROVE SlotHeldByWork'
    BY <1>14 DEF WorkerFails, At
  <1>15. ASSUME NEW j \in Jobs, WorkerStopped(j) PROVE SlotHeldByWork'
    BY <1>15 DEF WorkerStopped, At, End, Settle
  <1>16. ASSUME NEW j \in Jobs, PostDone(j) PROVE SlotHeldByWork'
    BY <1>16 DEF PostDone, At, End, Succeed, Settle
  <1>17. ASSUME NEW j \in Jobs, Committed(j) PROVE SlotHeldByWork'
    BY <1>17 DEF Committed, At, Succeed, Settle
  <1>18. ASSUME NEW j \in Jobs, Reported(j) PROVE SlotHeldByWork'
    BY <1>18 DEF Reported, At, Told, Unwind
  <1>19. ASSUME NEW j \in Jobs, Joined(j) PROVE SlotHeldByWork'
    BY <1>19 DEF Joined, At
  <1>20. ASSUME NEW j \in Jobs, Released(j) PROVE SlotHeldByWork'
    BY <1>20 DEF Released, At, Freed
  <1>21. ASSUME NEW j \in Jobs, StruckUnguarded(j) PROVE SlotHeldByWork'
    BY <1>21 DEF StruckUnguarded, Struck, Freed
  <1>22. ASSUME NEW j \in Jobs, StruckGuarded(j) PROVE SlotHeldByWork'
    BY <1>22 DEF StruckGuarded, Struck, End, Settle, Told
  <1>23. ASSUME NEW j \in Jobs, StruckExecuting(j) PROVE SlotHeldByWork'
    BY <1>23 DEF StruckExecuting, Struck
  <1>24. ASSUME NEW j \in Jobs, StruckStopping(j) PROVE SlotHeldByWork'
    BY <1>24 DEF StruckStopping, Struck, End, Settle
  <1>25. ASSUME NEW j \in Jobs, StruckEnding(j) PROVE SlotHeldByWork'
    BY <1>25 DEF StruckEnding, Struck, Told, Unwind
  <1>26. ASSUME NEW j \in Jobs, CancelQueued(j) PROVE SlotHeldByWork'
    BY <1>26 DEF CancelQueued, CancelCalled, Post
  <1>27. ASSUME NEW j \in Jobs, CancelWaiting(j) PROVE SlotHeldByWork'
    BY <1>27 DEF CancelWaiting, CancelCalled
  <1>28. ASSUME NEW j \in Jobs, CancelRunning(j) PROVE SlotHeldByWork'
    BY <1>28 DEF CancelRunning, CancelCalled, Post
  <1>29. ASSUME NEW j \in Jobs, CancelResumes(j) PROVE SlotHeldByWork'
    BY <1>29 DEF CancelResumes, Post, Freed
  <1>30. ASSUME NEW j \in Jobs, WatchCancels(j) PROVE SlotHeldByWork'
    BY <1>30 DEF WatchCancels, Post
  <1>31. ASSUME NEW j \in Jobs, HelperFails(j) PROVE SlotHeldByWork'
    BY <1>31 DEF HelperFails
  <1>32. ASSUME NEW j \in Jobs, HostUserCancels(j) PROVE SlotHeldByWork'
    BY <1>32 DEF HostUserCancels
  <1>33. ASSUME NEW j \in Jobs, BrokerReceives(j) PROVE SlotHeldByWork'
    BY <1>33 DEF BrokerReceives
  <1>34. ASSUME NEW j \in Jobs, BrokerGrants(j) PROVE SlotHeldByWork'
    BY <1>34 DEF BrokerGrants
  <1>35. ASSUME NEW j \in Jobs, BrokerRejects(j) PROVE SlotHeldByWork'
    BY <1>35 DEF BrokerRejects
  <1>36. ASSUME NEW j \in Jobs, BrokerExpires(j) PROVE SlotHeldByWork'
    BY <1>36 DEF BrokerExpires
  <1>37. ASSUME NEW j \in Jobs, OrphanExits(j) PROVE SlotHeldByWork'
    BY <1>37 DEF OrphanExits
  <1>38. CASE Crash
    BY <1>38 DEF Crash, MemoryLost
  <1>39. CASE BeginShutdown
    BY <1>39 DEF BeginShutdown
  <1>40. CASE EndShutdown
    BY <1>40 DEF EndShutdown, MemoryLost
  <1>41. CASE Startup
    BY <1>41 DEF Startup
  <1>42. CASE UNCHANGED vars
    BY <1>42 DEF vars
  <1> QED
    BY <1>1, <1>2, <1>3, <1>4, <1>5, <1>6, <1>7, <1>8, <1>9, <1>10, <1>11, <1>12, <1>13, <1>14,
       <1>15, <1>16, <1>17, <1>18, <1>19, <1>20, <1>21, <1>22, <1>23, <1>24, <1>25, <1>26, <1>27,
       <1>28, <1>29, <1>30, <1>31, <1>32, <1>33, <1>34, <1>35, <1>36, <1>37, <1>38, <1>39, <1>40,
       <1>41, <1>42 DEF Next, TaskStep

\* The inductive invariant of the specification.
THEOREM Invariance == Spec => []IInv
<1>1. IInv /\ [Next]_vars => IInv'
  BY TypeStep, RowsStep, ReachableStep, SlotStep DEF IInv
<1> QED
  BY InitIInv, <1>1, PTL DEF Spec

\* Type correctness.
THEOREM TypeCorrect == Spec => []TypeOK
<1>1. IInv => TypeOK
  BY DEF IInv
<1> QED
  BY Invariance, <1>1, PTL

\* The process lock is held exactly by the task that runs or stops a worker.
THEOREM SlotCorrect == Spec => []SlotHeldByWork
<1>1. IInv => SlotHeldByWork
  BY DEF IInv
<1> QED
  BY Invariance, <1>1, PTL

\* No task runs behind a row that says something else.
THEOREM RowsCorrect == Spec => []RowsMatchTasks
<1>1. IInv => RowsMatchTasks
  BY DEF IInv
<1> QED
  BY Invariance, <1>1, PTL

\* cancel() and shutdown() reach every task that is not over.
THEOREM ReachableCorrect == Spec => []TasksReachable
<1>1. IInv => TasksReachable
  BY DEF IInv
<1> QED
  BY Invariance, <1>1, PTL

-----------------------------------------------------------------------------
(* How rows move.                                                          *)

\* The only way back from a terminal row: a hosted job whose success could
\* not be reported.
Allowed(j, s) ==
  \/ db[j] = "absent" /\ s = "queued"
  \/ db[j] = "queued" /\ s \in {"running", "canceled"}
  \/ db[j] = "running" /\ s \in Terminal
  \/ j \in Hosted /\ db[j] = "succeeded" /\ s \in {"failed", "canceled"}

RowMove == \E j \in Jobs : \E s \in {"queued", "running"} \cup Terminal :
             Allowed(j, s) /\ db' = [db EXCEPT ![j] = s]

RowRecovery ==
  db' = [j \in Jobs |-> IF db[j] \in {"queued", "running"} THEN "failed" ELSE db[j]]

RowChange == UNCHANGED db \/ RowMove \/ RowRecovery

\* Every step leaves the rows alone, moves one of them or is a recovery.
LEMMA RowChanges == IInv /\ [Next]_vars => RowChange
<1> SUFFICES ASSUME IInv, [Next]_vars PROVE RowChange
  OBVIOUS
<1> USE ConstantsAssumption
<1> USE DEF IInv, TypeOK, RowsMatchTasks, TasksReachable, RowChange, RowMove, RowRecovery,
Allowed, Goto, Terminal, Waiting,
        Working, Guarded, Unwinding, Live, Labels, dbVars
  <1>1. ASSUME NEW j \in Jobs, Create(j) PROVE RowChange
    BY <1>1 DEF Create, At
  <1>2. ASSUME NEW j \in Jobs, StartPrompted(j) PROVE RowChange
    BY <1>2 DEF StartPrompted, At
  <1>3. ASSUME NEW j \in Jobs, PromptFails(j) PROVE RowChange
    BY <1>3 DEF PromptFails, At
  <1>4. ASSUME NEW j \in Jobs, StartHosted(j) PROVE RowChange
    BY <1>4 DEF StartHosted, At
  <1>5. ASSUME NEW j \in Jobs, StartLocal(j) PROVE RowChange
    BY <1>5 DEF StartLocal, At, EnterLock
  <1>6. ASSUME NEW j \in Jobs, FirstFails(j) PROVE RowChange
    BY <1>6 DEF FirstFails, At
  <1>7. ASSUME NEW j \in Jobs, EnterTry(j) PROVE RowChange
    BY <1>7 DEF EnterTry, At, End, Settle, EnterLock
  <1>8. ASSUME NEW j \in Jobs, RequestAnswered(j) PROVE RowChange
    BY <1>8 DEF RequestAnswered, Answered, At, End, Settle
  <1>9. ASSUME NEW j \in Jobs, StatusAnswered(j) PROVE RowChange
    BY <1>9 DEF StatusAnswered, Answered, At, End, Settle
  <1>10. ASSUME NEW j \in Jobs, Activated(j) PROVE RowChange
    BY <1>10 DEF Activated, At, End, Settle, EnterLock
  <1>11. ASSUME NEW j \in Jobs, TryFails(j) PROVE RowChange
    BY <1>11 DEF TryFails, At, End, Settle, Told
  <1>12. ASSUME NEW j \in Jobs, LockAcquired(j) PROVE RowChange
    BY <1>12 DEF LockAcquired, At, EnterLock
  <1>13. ASSUME NEW j \in Jobs, WorkerDone(j) PROVE RowChange
    BY <1>13 DEF WorkerDone, At, Succeed, Settle
  <1>14. ASSUME NEW j \in Jobs, WorkerFails(j) PROVE RowChange
    BY <1>14 DEF WorkerFails, At
  <1>15. ASSUME NEW j \in Jobs, WorkerStopped(j) PROVE RowChange
    BY <1>15 DEF WorkerStopped, At, End, Settle
  <1>16. ASSUME NEW j \in Jobs, PostDone(j) PROVE RowChange
    BY <1>16 DEF PostDone, At, End, Succeed, Settle
  <1>17. ASSUME NEW j \in Jobs, Committed(j) PROVE RowChange
    BY <1>17 DEF Committed, At, Succeed, Settle
  <1>18. ASSUME NEW j \in Jobs, Reported(j) PROVE RowChange
    BY <1>18 DEF Reported, At, Told, Unwind
  <1>19. ASSUME NEW j \in Jobs, Joined(j) PROVE RowChange
    BY <1>19 DEF Joined, At
  <1>20. ASSUME NEW j \in Jobs, Released(j) PROVE RowChange
    BY <1>20 DEF Released, At, Freed
  <1>21. ASSUME NEW j \in Jobs, StruckUnguarded(j) PROVE RowChange
    BY <1>21 DEF StruckUnguarded, Struck, Freed
  <1>22. ASSUME NEW j \in Jobs, StruckGuarded(j) PROVE RowChange
    BY <1>22 DEF StruckGuarded, Struck, End, Settle, Told
  <1>23. ASSUME NEW j \in Jobs, StruckExecuting(j) PROVE RowChange
    BY <1>23 DEF StruckExecuting, Struck
  <1>24. ASSUME NEW j \in Jobs, StruckStopping(j) PROVE RowChange
    BY <1>24 DEF StruckStopping, Struck, End, Settle
  <1>25. ASSUME NEW j \in Jobs, StruckEnding(j) PROVE RowChange
    BY <1>25 DEF StruckEnding, Struck, Told, Unwind
  <1>26. ASSUME NEW j \in Jobs, CancelQueued(j) PROVE RowChange
    BY <1>26 DEF CancelQueued, CancelCalled, Post
  <1>27. ASSUME NEW j \in Jobs, CancelWaiting(j) PROVE RowChange
    BY <1>27 DEF CancelWaiting, CancelCalled
  <1>28. ASSUME NEW j \in Jobs, CancelRunning(j) PROVE RowChange
    BY <1>28 DEF CancelRunning, CancelCalled, Post
  <1>29. ASSUME NEW j \in Jobs, CancelResumes(j) PROVE RowChange
    BY <1>29 DEF CancelResumes, Post, Freed
  <1>30. ASSUME NEW j \in Jobs, WatchCancels(j) PROVE RowChange
    BY <1>30 DEF WatchCancels, Post
  <1>31. ASSUME NEW j \in Jobs, HelperFails(j) PROVE RowChange
    BY <1>31 DEF HelperFails
  <1>32. ASSUME NEW j \in Jobs, HostUserCancels(j) PROVE RowChange
    BY <1>32 DEF HostUserCancels
  <1>33. ASSUME NEW j \in Jobs, BrokerReceives(j) PROVE RowChange
    BY <1>33 DEF BrokerReceives
  <1>34. ASSUME NEW j \in Jobs, BrokerGrants(j) PROVE RowChange
    BY <1>34 DEF BrokerGrants
  <1>35. ASSUME NEW j \in Jobs, BrokerRejects(j) PROVE RowChange
    BY <1>35 DEF BrokerRejects
  <1>36. ASSUME NEW j \in Jobs, BrokerExpires(j) PROVE RowChange
    BY <1>36 DEF BrokerExpires
  <1>37. ASSUME NEW j \in Jobs, OrphanExits(j) PROVE RowChange
    BY <1>37 DEF OrphanExits
  <1>38. CASE Crash
    BY <1>38 DEF Crash, MemoryLost
  <1>39. CASE BeginShutdown
    BY <1>39 DEF BeginShutdown
  <1>40. CASE EndShutdown
    BY <1>40 DEF EndShutdown, MemoryLost
  <1>41. CASE Startup
    BY <1>41 DEF Startup
  <1>42. CASE UNCHANGED vars
    BY <1>42 DEF vars
  <1> QED
    BY <1>1, <1>2, <1>3, <1>4, <1>5, <1>6, <1>7, <1>8, <1>9, <1>10, <1>11, <1>12, <1>13, <1>14,
       <1>15, <1>16, <1>17, <1>18, <1>19, <1>20, <1>21, <1>22, <1>23, <1>24, <1>25, <1>26, <1>27,
       <1>28, <1>29, <1>30, <1>31, <1>32, <1>33, <1>34, <1>35, <1>36, <1>37, <1>38, <1>39, <1>40,
       <1>41, <1>42 DEF Next, TaskStep

\* A failure or a cancellation is never rewritten.
THEOREM EndedStays == Spec => EndedFinal
<1>1. IInv /\ [Next]_vars =>
        [\A j \in Jobs : db[j] \in {"failed", "canceled"} => db'[j] = db[j]]_vars
  BY RowChanges DEF RowChange, RowMove, RowRecovery, Allowed, Terminal, IInv, TypeOK
<1> QED
  BY Invariance, <1>1, PTL DEF Spec, EndedFinal

\* The rows of local jobs implement the contract of a durable job.
THEOREM ContractImplemented == Spec => ContractHolds
<1> DEFINE Rows == [j \in Jobs \ Hosted |-> db[j]]
<1>1. Init => Contract!Init
  BY DEF Init, Contract!Init
<1>2. IInv /\ [Next]_vars => [Contract!Next]_Rows
  <2> SUFFICES ASSUME IInv, [Next]_vars PROVE [Contract!Next]_Rows
    OBVIOUS
  <2>1. CASE UNCHANGED db
    BY <2>1
  <2>2. CASE RowMove
    <3>1. PICK j \in Jobs, s \in {"queued", "running"} \cup Terminal :
            Allowed(j, s) /\ db' = [db EXCEPT ![j] = s]
      BY <2>2 DEF RowMove
    <3>2. CASE j \in Hosted
      <4>1. \A k \in Jobs \ Hosted : db'[k] = db[k]
        BY <3>1, <3>2 DEF IInv, TypeOK
      <4> QED
        BY <4>1
    <3>3. CASE j \notin Hosted
      <4>1. Rows' = [Rows EXCEPT ![j] = s] /\ Rows[j] = db[j]
        BY <3>1, <3>3 DEF IInv, TypeOK
      <4>2. Contract!Accept(j) \/ Contract!Start(j) \/ Contract!Withdraw(j) \/ Contract!Finish(j)
        BY <3>1, <3>3, <4>1
        DEF Allowed, Terminal, Contract!Accept, Contract!Start, Contract!Withdraw,
            Contract!Finish, Contract!Becomes, Contract!Final
      <4> QED
        BY <3>3, <4>2 DEF Contract!Next
    <3> QED
      BY <3>2, <3>3
  <2>3. CASE RowRecovery
    <3> DEFINE lost == {j \in Jobs \ Hosted : Rows[j] \in {"queued", "running"}}
    <3>1. Rows' = [j \in Jobs \ Hosted |-> IF j \in lost THEN "failed" ELSE Rows[j]]
      BY <2>3 DEF RowRecovery, IInv, TypeOK
    <3>2. Contract!Abandon
      BY <3>1 DEF Contract!Abandon
    <3> QED
      BY <3>2 DEF Contract!Next
  <2> QED
    BY <2>1, <2>2, <2>3, RowChanges DEF RowChange
<1> QED
  BY Invariance, <1>1, <1>2, PTL DEF Spec, ContractHolds, Contract!Spec
-----------------------------------------------------------------------------
(* The lease around the work of a GPU job.                                 *)

\* What the task, its execution record and the Broker know of a lease, while
\* the Host does not fail: from the activation to the finally block the
\* heartbeat keeps it active; without a lease nothing is active.
LeaseDiscipline ==
  \A j \in Gpu \ Faulty :
    /\ pc[j] \in Guarded \ Waiting =>
         broker[j] = "active" /\ handle[j] = "lease" /\ j \in renewing
    /\ pc[j] = "waiting" => handle[j] = "request"
    /\ pc[j] = "activating" => handle[j] = "lease"
    /\ pc[j] \in {"none", "new", "prep", "first", "requesting"} => handle[j] = "none"
    /\ pc[j] \in {"none", "new", "prep", "first"} => broker[j] = "none"
    /\ pc[j] = "releasing" => handle[j] # "none"
    /\ pc[j] \in Live /\ broker[j] = "active" => handle[j] = "lease"
    /\ handle[j] = "request" => broker[j] # "none"
    /\ pc[j] = "done" /\ handle[j] # "none" => broker[j] = "closed"

\* Every step keeps it: the actions that touch the record or the Broker.
LEMMA LeaseStep == IInv /\ LeaseDiscipline /\ [Next]_vars => LeaseDiscipline'
<1> SUFFICES ASSUME IInv, LeaseDiscipline, [Next]_vars PROVE LeaseDiscipline'
  OBVIOUS
<1> USE ConstantsAssumption
<1> USE DEF IInv, TypeOK, RowsMatchTasks, TasksReachable, LeaseDiscipline, Goto, Terminal,
        Waiting, Working, Guarded, Unwinding, Live, Labels, procVars, dbVars, taskVars,
        gpuVars, runVars, hostVars
  <1>1. ASSUME NEW j \in Jobs, Create(j) PROVE LeaseDiscipline'
    BY <1>1 DEF Create, At
  <1>2. ASSUME NEW j \in Jobs, StartPrompted(j) PROVE LeaseDiscipline'
    BY <1>2 DEF StartPrompted, At
  <1>3. ASSUME NEW j \in Jobs, PromptFails(j) PROVE LeaseDiscipline'
    BY <1>3 DEF PromptFails, At
  <1>4. ASSUME NEW j \in Jobs, StartHosted(j) PROVE LeaseDiscipline'
    BY <1>4 DEF StartHosted, At
  <1>5. ASSUME NEW j \in Jobs, StartLocal(j) PROVE LeaseDiscipline'
    BY <1>5 DEF StartLocal, At, EnterLock
  <1>6. ASSUME NEW j \in Jobs, FirstFails(j) PROVE LeaseDiscipline'
    BY <1>6 DEF FirstFails, At
  <1>7. ASSUME NEW j \in Jobs, EnterTry(j) PROVE LeaseDiscipline'
    BY <1>7 DEF EnterTry, At, End, Settle, EnterLock
  <1>8. ASSUME NEW j \in Jobs, RequestAnswered(j) PROVE LeaseDiscipline'
    BY <1>8 DEF RequestAnswered, Answered, At, End, Settle
  <1>9. ASSUME NEW j \in Jobs, StatusAnswered(j) PROVE LeaseDiscipline'
    BY <1>9 DEF StatusAnswered, Answered, At, End, Settle
  <1>10. ASSUME NEW j \in Jobs, Activated(j) PROVE LeaseDiscipline'
    BY <1>10 DEF Activated, At, End, Settle, EnterLock
  <1>11. ASSUME NEW j \in Jobs, TryFails(j) PROVE LeaseDiscipline'
    BY <1>11 DEF TryFails, At, End, Settle, Told
  <1>12. ASSUME NEW j \in Jobs, LockAcquired(j) PROVE LeaseDiscipline'
    BY <1>12 DEF LockAcquired, At, EnterLock
  <1>13. ASSUME NEW j \in Jobs, WorkerDone(j) PROVE LeaseDiscipline'
    BY <1>13 DEF WorkerDone, At, Succeed, Settle
  <1>14. ASSUME NEW j \in Jobs, WorkerFails(j) PROVE LeaseDiscipline'
    BY <1>14 DEF WorkerFails, At
  <1>15. ASSUME NEW j \in Jobs, WorkerStopped(j) PROVE LeaseDiscipline'
    BY <1>15 DEF WorkerStopped, At, End, Settle
  <1>16. ASSUME NEW j \in Jobs, PostDone(j) PROVE LeaseDiscipline'
    BY <1>16 DEF PostDone, At, End, Succeed, Settle
  <1>17. ASSUME NEW j \in Jobs, Committed(j) PROVE LeaseDiscipline'
    BY <1>17 DEF Committed, At, Succeed, Settle
  <1>18. ASSUME NEW j \in Jobs, Reported(j) PROVE LeaseDiscipline'
    BY <1>18 DEF Reported, At, Told, Unwind
  <1>19. ASSUME NEW j \in Jobs, Joined(j) PROVE LeaseDiscipline'
    BY <1>19 DEF Joined, At
  <1>20. ASSUME NEW j \in Jobs, Released(j) PROVE LeaseDiscipline'
    BY <1>20 DEF Released, At, Freed
  <1>21. ASSUME NEW j \in Jobs, StruckUnguarded(j) PROVE LeaseDiscipline'
    BY <1>21 DEF StruckUnguarded, Struck, Freed
  <1>22. ASSUME NEW j \in Jobs, StruckGuarded(j) PROVE LeaseDiscipline'
    BY <1>22 DEF StruckGuarded, Struck, End, Settle, Told
  <1>23. ASSUME NEW j \in Jobs, StruckExecuting(j) PROVE LeaseDiscipline'
    BY <1>23 DEF StruckExecuting, Struck
  <1>24. ASSUME NEW j \in Jobs, StruckStopping(j) PROVE LeaseDiscipline'
    BY <1>24 DEF StruckStopping, Struck, End, Settle
  <1>25. ASSUME NEW j \in Jobs, StruckEnding(j) PROVE LeaseDiscipline'
    BY <1>25 DEF StruckEnding, Struck, Told, Unwind
  <1>26. ASSUME NEW j \in Jobs, CancelQueued(j) PROVE LeaseDiscipline'
    BY <1>26 DEF CancelQueued, CancelCalled, Post
  <1>27. ASSUME NEW j \in Jobs, CancelWaiting(j) PROVE LeaseDiscipline'
    BY <1>27 DEF CancelWaiting, CancelCalled
  <1>28. ASSUME NEW j \in Jobs, CancelRunning(j) PROVE LeaseDiscipline'
    BY <1>28 DEF CancelRunning, CancelCalled, Post
  <1>29. ASSUME NEW j \in Jobs, CancelResumes(j) PROVE LeaseDiscipline'
    BY <1>29 DEF CancelResumes, Post, Freed
  <1>30. ASSUME NEW j \in Jobs, WatchCancels(j) PROVE LeaseDiscipline'
    BY <1>30 DEF WatchCancels, Post
  <1>31. ASSUME NEW j \in Jobs, HelperFails(j) PROVE LeaseDiscipline'
    BY <1>31 DEF HelperFails
  <1>32. ASSUME NEW j \in Jobs, HostUserCancels(j) PROVE LeaseDiscipline'
    BY <1>32 DEF HostUserCancels
  <1>33. ASSUME NEW j \in Jobs, BrokerReceives(j) PROVE LeaseDiscipline'
    BY <1>33 DEF BrokerReceives
  <1>34. ASSUME NEW j \in Jobs, BrokerGrants(j) PROVE LeaseDiscipline'
    BY <1>34 DEF BrokerGrants
  <1>35. ASSUME NEW j \in Jobs, BrokerRejects(j) PROVE LeaseDiscipline'
    BY <1>35 DEF BrokerRejects
  <1>36. ASSUME NEW j \in Jobs, BrokerExpires(j) PROVE LeaseDiscipline'
    BY <1>36 DEF BrokerExpires
  <1>37. ASSUME NEW j \in Jobs, OrphanExits(j) PROVE LeaseDiscipline'
    BY <1>37 DEF OrphanExits
  <1>38. CASE Crash
    BY <1>38 DEF Crash, MemoryLost
  <1>39. CASE BeginShutdown
    BY <1>39 DEF BeginShutdown
  <1>40. CASE EndShutdown
    BY <1>40 DEF EndShutdown, MemoryLost
  <1>41. CASE Startup
    BY <1>41 DEF Startup
  <1>42. CASE UNCHANGED vars
    BY <1>42 DEF vars
  <1> QED
    BY <1>1, <1>2, <1>3, <1>4, <1>5, <1>6, <1>7, <1>8, <1>9, <1>10, <1>11, <1>12, <1>13, <1>14,
       <1>15, <1>16, <1>17, <1>18, <1>19, <1>20, <1>21, <1>22, <1>23, <1>24, <1>25, <1>26, <1>27,
       <1>28, <1>29, <1>30, <1>31, <1>32, <1>33, <1>34, <1>35, <1>36, <1>37, <1>38, <1>39, <1>40,
       <1>41, <1>42 DEF Next, TaskStep

\* The record of a job's lease and the Broker's agree at every suspension.
THEOREM LeaseInvariance == Spec => [](IInv /\ LeaseDiscipline)
<1>1. Init => LeaseDiscipline
  BY ConstantsAssumption DEF Init, LeaseDiscipline, Guarded, Waiting, Working, Live, Unwinding
<1> QED
  BY Invariance, <1>1, LeaseStep, PTL DEF Spec

\* A GPU job runs and stops its worker only under an active lease.
THEOREM WorkUnderLeaseHolds == Spec => []WorkUnderLease
<1>1. LeaseDiscipline => WorkUnderLease
  BY DEF LeaseDiscipline, WorkUnderLease, Guarded, Waiting, Working
<1> QED
  BY LeaseInvariance, <1>1, PTL

\* A task that ran its finally block to the end left nothing at the Broker.
THEOREM DoneHoldsNothingHolds == Spec => []DoneHoldsNothing
<1>1. LeaseDiscipline => DoneHoldsNothing
  BY DEF LeaseDiscipline, DoneHoldsNothing
<1> QED
  BY LeaseInvariance, <1>1, PTL

-----------------------------------------------------------------------------
(* The end of a local job.                                                 *)

\* What holds of a local job.  Nothing but cancel() and shutdown() cancels it,
\* and cancel() has it struck at once: from then on it is bound to be stopped.
\* While the process is up, one that is struck before it starts was settled by
\* cancel().
LocalRuns ==
  \A j \in Jobs \ Hosted :
    /\ j \notin watching /\ j \notin calling /\ handle[j] = "none"
    /\ j \in posted => pc[j] \in Live
    /\ j \in wanted => db[j] \notin {"absent", "succeeded"}
    /\ j \in wanted /\ pc[j] \in Live => j \in posted \/ pc[j] = "aborting"
    /\ proc = "up" /\ j \in posted /\ pc[j] = "new" => db[j] = "canceled"
    /\ proc = "up" /\ pc[j] = "gone" /\ j \notin Voiced => db[j] \in Terminal

\* Every step keeps it.
LEMMA LocalStep == IInv /\ LocalRuns /\ [Next]_vars => LocalRuns'
<1> SUFFICES ASSUME IInv, LocalRuns, [Next]_vars PROVE LocalRuns'
  OBVIOUS
<1> USE ConstantsAssumption
<1> USE DEF IInv, TypeOK, RowsMatchTasks, TasksReachable, LocalRuns, Goto, Terminal,
        Waiting, Working, Guarded, Unwinding, Live, Labels, procVars, dbVars, taskVars,
        gpuVars, runVars, hostVars
  <1>1. ASSUME NEW j \in Jobs, Create(j) PROVE LocalRuns'
    BY <1>1 DEF Create, At
  <1>2. ASSUME NEW j \in Jobs, StartPrompted(j) PROVE LocalRuns'
    BY <1>2 DEF StartPrompted, At
  <1>3. ASSUME NEW j \in Jobs, PromptFails(j) PROVE LocalRuns'
    BY <1>3 DEF PromptFails, At
  <1>4. ASSUME NEW j \in Jobs, StartHosted(j) PROVE LocalRuns'
    BY <1>4 DEF StartHosted, At
  <1>5. ASSUME NEW j \in Jobs, StartLocal(j) PROVE LocalRuns'
    BY <1>5 DEF StartLocal, At, EnterLock
  <1>6. ASSUME NEW j \in Jobs, FirstFails(j) PROVE LocalRuns'
    BY <1>6 DEF FirstFails, At
  <1>7. ASSUME NEW j \in Jobs, EnterTry(j) PROVE LocalRuns'
    BY <1>7 DEF EnterTry, At, End, Settle, EnterLock
  <1>8. ASSUME NEW j \in Jobs, RequestAnswered(j) PROVE LocalRuns'
    BY <1>8 DEF RequestAnswered, Answered, At, End, Settle
  <1>9. ASSUME NEW j \in Jobs, StatusAnswered(j) PROVE LocalRuns'
    BY <1>9 DEF StatusAnswered, Answered, At, End, Settle
  <1>10. ASSUME NEW j \in Jobs, Activated(j) PROVE LocalRuns'
    BY <1>10 DEF Activated, At, End, Settle, EnterLock
  <1>11. ASSUME NEW j \in Jobs, TryFails(j) PROVE LocalRuns'
    BY <1>11 DEF TryFails, At, End, Settle, Told
  <1>12. ASSUME NEW j \in Jobs, LockAcquired(j) PROVE LocalRuns'
    BY <1>12 DEF LockAcquired, At, EnterLock
  <1>13. ASSUME NEW j \in Jobs, WorkerDone(j) PROVE LocalRuns'
    BY <1>13 DEF WorkerDone, At, Succeed, Settle
  <1>14. ASSUME NEW j \in Jobs, WorkerFails(j) PROVE LocalRuns'
    BY <1>14 DEF WorkerFails, At
  <1>15. ASSUME NEW j \in Jobs, WorkerStopped(j) PROVE LocalRuns'
    BY <1>15 DEF WorkerStopped, At, End, Settle
  <1>16. ASSUME NEW j \in Jobs, PostDone(j) PROVE LocalRuns'
    BY <1>16 DEF PostDone, At, End, Succeed, Settle
  <1>17. ASSUME NEW j \in Jobs, Committed(j) PROVE LocalRuns'
    BY <1>17 DEF Committed, At, Succeed, Settle
  <1>18. ASSUME NEW j \in Jobs, Reported(j) PROVE LocalRuns'
    BY <1>18 DEF Reported, At, Told, Unwind
  <1>19. ASSUME NEW j \in Jobs, Joined(j) PROVE LocalRuns'
    BY <1>19 DEF Joined, At
  <1>20. ASSUME NEW j \in Jobs, Released(j) PROVE LocalRuns'
    BY <1>20 DEF Released, At, Freed
  <1>21. ASSUME NEW j \in Jobs, StruckUnguarded(j) PROVE LocalRuns'
    BY <1>21 DEF StruckUnguarded, Struck, Freed
  <1>22. ASSUME NEW j \in Jobs, StruckGuarded(j) PROVE LocalRuns'
    BY <1>22 DEF StruckGuarded, Struck, End, Settle, Told
  <1>23. ASSUME NEW j \in Jobs, StruckExecuting(j) PROVE LocalRuns'
    BY <1>23 DEF StruckExecuting, Struck
  <1>24. ASSUME NEW j \in Jobs, StruckStopping(j) PROVE LocalRuns'
    BY <1>24 DEF StruckStopping, Struck, End, Settle
  <1>25. ASSUME NEW j \in Jobs, StruckEnding(j) PROVE LocalRuns'
    BY <1>25 DEF StruckEnding, Struck, Told, Unwind
  <1>26. ASSUME NEW j \in Jobs, CancelQueued(j) PROVE LocalRuns'
    BY <1>26 DEF CancelQueued, CancelCalled, Post
  <1>27. ASSUME NEW j \in Jobs, CancelWaiting(j) PROVE LocalRuns'
    BY <1>27 DEF CancelWaiting, CancelCalled
  <1>28. ASSUME NEW j \in Jobs, CancelRunning(j) PROVE LocalRuns'
    BY <1>28 DEF CancelRunning, CancelCalled, Post
  <1>29. ASSUME NEW j \in Jobs, CancelResumes(j) PROVE LocalRuns'
    BY <1>29 DEF CancelResumes, Post, Freed
  <1>30. ASSUME NEW j \in Jobs, WatchCancels(j) PROVE LocalRuns'
    BY <1>30 DEF WatchCancels, Post
  <1>31. ASSUME NEW j \in Jobs, HelperFails(j) PROVE LocalRuns'
    BY <1>31 DEF HelperFails
  <1>32. ASSUME NEW j \in Jobs, HostUserCancels(j) PROVE LocalRuns'
    BY <1>32 DEF HostUserCancels
  <1>33. ASSUME NEW j \in Jobs, BrokerReceives(j) PROVE LocalRuns'
    BY <1>33 DEF BrokerReceives
  <1>34. ASSUME NEW j \in Jobs, BrokerGrants(j) PROVE LocalRuns'
    BY <1>34 DEF BrokerGrants
  <1>35. ASSUME NEW j \in Jobs, BrokerRejects(j) PROVE LocalRuns'
    BY <1>35 DEF BrokerRejects
  <1>36. ASSUME NEW j \in Jobs, BrokerExpires(j) PROVE LocalRuns'
    BY <1>36 DEF BrokerExpires
  <1>37. ASSUME NEW j \in Jobs, OrphanExits(j) PROVE LocalRuns'
    BY <1>37 DEF OrphanExits
  <1>38. CASE Crash
    BY <1>38 DEF Crash, MemoryLost
  <1>39. CASE BeginShutdown
    BY <1>39 DEF BeginShutdown
  <1>40. CASE EndShutdown
    BY <1>40 DEF EndShutdown, MemoryLost
  <1>41. CASE Startup
    BY <1>41 DEF Startup
  <1>42. CASE UNCHANGED vars
    BY <1>42 DEF vars
  <1> QED
    BY <1>1, <1>2, <1>3, <1>4, <1>5, <1>6, <1>7, <1>8, <1>9, <1>10, <1>11, <1>12, <1>13, <1>14,
       <1>15, <1>16, <1>17, <1>18, <1>19, <1>20, <1>21, <1>22, <1>23, <1>24, <1>25, <1>26, <1>27,
       <1>28, <1>29, <1>30, <1>31, <1>32, <1>33, <1>34, <1>35, <1>36, <1>37, <1>38, <1>39, <1>40,
       <1>41, <1>42 DEF Next, TaskStep


\* A local job is struck once its cancellation was accepted.
THEOREM LocalInvariance == Spec => [](IInv /\ LocalRuns)
<1>1. Init => LocalRuns
  BY DEF Init, LocalRuns
<1> QED
  BY Invariance, <1>1, LocalStep, PTL DEF Spec

\* A local job whose voice resolves names its end.
THEOREM LocalNamesItsEndHolds == Spec => []LocalNamesItsEnd
<1>1. IInv /\ LocalRuns => LocalNamesItsEnd
  BY DEF IInv, RowsMatchTasks, LocalRuns, LocalNamesItsEnd
<1> QED
  BY LocalInvariance, <1>1, PTL

\* No local job succeeds after cancel() was accepted.
THEOREM CancelNeverSucceedsHolds == Spec => []CancelNeverSucceeds
<1>1. IInv /\ LocalRuns => CancelNeverSucceeds
  BY DEF IInv, TypeOK, LocalRuns, CancelNeverSucceeds
<1> QED
  BY LocalInvariance, <1>1, PTL

-----------------------------------------------------------------------------
(* The Host's record of a CPU job.                                         *)

\* What holds, until the process stops, of a job whose record only cancel()
\* can cut short: it is struck while its row says queued or running, never
\* during its terminal report, so that the report is what closes the record.
HostFollows ==
  \A j \in Owners \ (Gpu \cup Faulty \cup HostCancels) :
    /\ stops = 0 => proc = "up"
    /\ j \notin hostCancel /\ j \notin calling /\ handle[j] = "none"
    /\ pc[j] \notin Waiting \cup {"releasing"}
    /\ stops = 0 /\ j \in posted =>
         pc[j] \notin {"none", "succeeding", "gone", "done"} \cup Unwinding
    /\ stops = 0 /\ pc[j] \notin {"joining", "gone", "done"} => host[j] = "open"
    /\ stops = 0 /\ pc[j] \in {"joining", "done"} => host[j] = db[j]

\* Every step keeps it.
LEMMA HostStep == IInv /\ HostFollows /\ [Next]_vars => HostFollows'
<1> SUFFICES ASSUME IInv, HostFollows, [Next]_vars PROVE HostFollows'
  OBVIOUS
<1> USE ConstantsAssumption
<1> USE DEF IInv, TypeOK, RowsMatchTasks, TasksReachable, HostFollows, Goto, Terminal,
        Waiting, Working, Guarded, Unwinding, Live, Labels, procVars, dbVars, taskVars,
        gpuVars, runVars, hostVars
  <1>1. ASSUME NEW j \in Jobs, Create(j) PROVE HostFollows'
    BY <1>1 DEF Create, At
  <1>2. ASSUME NEW j \in Jobs, StartPrompted(j) PROVE HostFollows'
    BY <1>2 DEF StartPrompted, At
  <1>3. ASSUME NEW j \in Jobs, PromptFails(j) PROVE HostFollows'
    BY <1>3 DEF PromptFails, At
  <1>4. ASSUME NEW j \in Jobs, StartHosted(j) PROVE HostFollows'
    BY <1>4 DEF StartHosted, At
  <1>5. ASSUME NEW j \in Jobs, StartLocal(j) PROVE HostFollows'
    BY <1>5 DEF StartLocal, At, EnterLock
  <1>6. ASSUME NEW j \in Jobs, FirstFails(j) PROVE HostFollows'
    BY <1>6 DEF FirstFails, At
  <1>7. ASSUME NEW j \in Jobs, EnterTry(j) PROVE HostFollows'
    BY <1>7 DEF EnterTry, At, End, Settle, EnterLock
  <1>8. ASSUME NEW j \in Jobs, RequestAnswered(j) PROVE HostFollows'
    BY <1>8 DEF RequestAnswered, Answered, At, End, Settle
  <1>9. ASSUME NEW j \in Jobs, StatusAnswered(j) PROVE HostFollows'
    BY <1>9 DEF StatusAnswered, Answered, At, End, Settle
  <1>10. ASSUME NEW j \in Jobs, Activated(j) PROVE HostFollows'
    BY <1>10 DEF Activated, At, End, Settle, EnterLock
  <1>11. ASSUME NEW j \in Jobs, TryFails(j) PROVE HostFollows'
    BY <1>11 DEF TryFails, At, End, Settle, Told
  <1>12. ASSUME NEW j \in Jobs, LockAcquired(j) PROVE HostFollows'
    BY <1>12 DEF LockAcquired, At, EnterLock
  <1>13. ASSUME NEW j \in Jobs, WorkerDone(j) PROVE HostFollows'
    BY <1>13 DEF WorkerDone, At, Succeed, Settle
  <1>14. ASSUME NEW j \in Jobs, WorkerFails(j) PROVE HostFollows'
    BY <1>14 DEF WorkerFails, At
  <1>15. ASSUME NEW j \in Jobs, WorkerStopped(j) PROVE HostFollows'
    BY <1>15 DEF WorkerStopped, At, End, Settle
  <1>16. ASSUME NEW j \in Jobs, PostDone(j) PROVE HostFollows'
    BY <1>16 DEF PostDone, At, End, Succeed, Settle
  <1>17. ASSUME NEW j \in Jobs, Committed(j) PROVE HostFollows'
    BY <1>17 DEF Committed, At, Succeed, Settle
  <1>18. ASSUME NEW j \in Jobs, Reported(j) PROVE HostFollows'
    BY <1>18 DEF Reported, At, Told, Unwind
  <1>19. ASSUME NEW j \in Jobs, Joined(j) PROVE HostFollows'
    BY <1>19 DEF Joined, At
  <1>20. ASSUME NEW j \in Jobs, Released(j) PROVE HostFollows'
    BY <1>20 DEF Released, At, Freed
  <1>21. ASSUME NEW j \in Jobs, StruckUnguarded(j) PROVE HostFollows'
    BY <1>21 DEF StruckUnguarded, Struck, Freed
  <1>22. ASSUME NEW j \in Jobs, StruckGuarded(j) PROVE HostFollows'
    BY <1>22 DEF StruckGuarded, Struck, End, Settle, Told
  <1>23. ASSUME NEW j \in Jobs, StruckExecuting(j) PROVE HostFollows'
    BY <1>23 DEF StruckExecuting, Struck
  <1>24. ASSUME NEW j \in Jobs, StruckStopping(j) PROVE HostFollows'
    BY <1>24 DEF StruckStopping, Struck, End, Settle
  <1>25. ASSUME NEW j \in Jobs, StruckEnding(j) PROVE HostFollows'
    BY <1>25 DEF StruckEnding, Struck, Told, Unwind
  <1>26. ASSUME NEW j \in Jobs, CancelQueued(j) PROVE HostFollows'
    BY <1>26 DEF CancelQueued, CancelCalled, Post
  <1>27. ASSUME NEW j \in Jobs, CancelWaiting(j) PROVE HostFollows'
    BY <1>27 DEF CancelWaiting, CancelCalled
  <1>28. ASSUME NEW j \in Jobs, CancelRunning(j) PROVE HostFollows'
    BY <1>28 DEF CancelRunning, CancelCalled, Post
  <1>29. ASSUME NEW j \in Jobs, CancelResumes(j) PROVE HostFollows'
    BY <1>29 DEF CancelResumes, Post, Freed
  <1>30. ASSUME NEW j \in Jobs, WatchCancels(j) PROVE HostFollows'
    BY <1>30 DEF WatchCancels, Post
  <1>31. ASSUME NEW j \in Jobs, HelperFails(j) PROVE HostFollows'
    BY <1>31 DEF HelperFails
  <1>32. ASSUME NEW j \in Jobs, HostUserCancels(j) PROVE HostFollows'
    BY <1>32 DEF HostUserCancels
  <1>33. ASSUME NEW j \in Jobs, BrokerReceives(j) PROVE HostFollows'
    BY <1>33 DEF BrokerReceives
  <1>34. ASSUME NEW j \in Jobs, BrokerGrants(j) PROVE HostFollows'
    BY <1>34 DEF BrokerGrants
  <1>35. ASSUME NEW j \in Jobs, BrokerRejects(j) PROVE HostFollows'
    BY <1>35 DEF BrokerRejects
  <1>36. ASSUME NEW j \in Jobs, BrokerExpires(j) PROVE HostFollows'
    BY <1>36 DEF BrokerExpires
  <1>37. ASSUME NEW j \in Jobs, OrphanExits(j) PROVE HostFollows'
    BY <1>37 DEF OrphanExits
  <1>38. CASE Crash
    BY <1>38 DEF Crash, MemoryLost
  <1>39. CASE BeginShutdown
    BY <1>39 DEF BeginShutdown
  <1>40. CASE EndShutdown
    BY <1>40 DEF EndShutdown, MemoryLost
  <1>41. CASE Startup
    BY <1>41 DEF Startup
  <1>42. CASE UNCHANGED vars
    BY <1>42 DEF vars
  <1> QED
    BY <1>1, <1>2, <1>3, <1>4, <1>5, <1>6, <1>7, <1>8, <1>9, <1>10, <1>11, <1>12, <1>13, <1>14,
       <1>15, <1>16, <1>17, <1>18, <1>19, <1>20, <1>21, <1>22, <1>23, <1>24, <1>25, <1>26, <1>27,
       <1>28, <1>29, <1>30, <1>31, <1>32, <1>33, <1>34, <1>35, <1>36, <1>37, <1>38, <1>39, <1>40,
       <1>41, <1>42 DEF Next, TaskStep


\* The record of a CPU job is open up to its one report.
THEOREM HostInvariance == Spec => [](IInv /\ HostFollows)
<1>1. Init => HostFollows
  BY ConstantsAssumption DEF Init, HostFollows, Waiting, Unwinding
<1> QED
  BY Invariance, <1>1, HostStep, PTL DEF Spec

\* When the task is done, the Host shows the state of the row.
THEOREM HostAgreesHolds == Spec => []HostAgrees
<1>1. HostFollows => HostAgrees
  BY DEF HostFollows, HostAgrees
<1> QED
  BY HostInvariance, <1>1, PTL
=============================================================================
