--------------------------- MODULE LivePoolProofs ---------------------------
(***************************************************************************)
(* What every operation of a session's pool keeps true, for all choices of *)
(* the keys that need the GPU: PoolInv, from which WorkerUnderLease and    *)
(* GivesBack follow. The callers' proofs cite one lemma per operation.     *)
(* Neither property is inductive: that a worker which is stopped when its  *)
(* start fails was not running needs to know where each living worker is   *)
(* (AlivePooled), and that an answer of the Broker is about no lease in use *)
(* needs the shape of an admission (AdmissionShape).                       *)
(***************************************************************************)
EXTENDS LivePool, TLAPS

USE PoolAssumption

Steps == {"none", "asking", "polling", "activating", "room", "clearing", "evicting",
          "admitting", "spawning", "reading", "holding", "dropping", "returned"}

Results == {"none", "ok", "error", "rejected"}
Kinds   == {"progress", "result", "error", "noise"}

Operations == [step : Steps, key : Keys, fast : BOOLEAN, again : BOOLEAN, id : Nat,
               result : Results, answer : Nat]
Lines      == [id : Nat, kind : Kinds]
Processes  == [alive : BOOLEAN, todo : Seq(Nat), lines : Seq(Lines)]

PoolTyped ==
  /\ misled \in BOOLEAN /\ leases \subseteq Gpu /\ pooled \subseteq Keys
  /\ broker \in [Keys -> Requested \cup {"none", "lapsed"}]
  /\ proc \in [Keys -> Processes]
  /\ op \in Operations
  /\ asked \in Nat /\ holds \in Nat /\ hold \in BOOLEAN
  /\ poolOpen \in BOOLEAN /\ open \in BOOLEAN

\* A worker that was taken out of the pool and is being stopped.
Leaving(k) ==
  \/ op.step \in {"evicting", "clearing"} /\ op.key = k
  \/ op.step = "room" /\ op.key # k

\* The Broker knows of every lease of the session, and the session of every lease
\* but one that is being activated.
LeasesAgree ==
  /\ \A k \in leases : broker[k] = "active" \/ (misled /\ broker[k] = "lapsed")
  /\ \A k \in Keys : broker[k] \in {"granted", "active"} =>
       k \in leases \/ (op.step = "activating" /\ op.key = k)

AliveLeased == \A k \in Gpu : proc[k].alive => k \in leases

AlivePooled == \A k \in Keys : proc[k].alive => k \in pooled \/ Leaving(k)

\* Admission is for a key without a worker, and without a lease until it is over.
AdmissionShape ==
  /\ op.step \in {"asking", "polling", "activating"} => op.key \in Gpu \ leases
  /\ op.step = "spawning" /\ op.key \in Gpu => op.key \in leases
  /\ op.step \in {"asking", "polling", "activating", "room", "clearing", "admitting", "spawning"}
       => op.key \notin pooled

\* Without a fault the session holds the language model as often as it says.
HoldCounted ==
  /\ ~misled => holds = (IF hold THEN 1 ELSE 0)
  /\ ~misled /\ op.step = "holding" => ~hold
  /\ beat = "recreating" => misled

\* An operation that ends well has the answer to its own request.
Correlated ==
  /\ op.result = "ok" => op.step = "returned" /\ op.answer = op.id
  /\ op.step \in Steps \ {"reading", "returned"} => op.id = 0 /\ op.answer = 0

\* A closed session does nothing any more.
ClosedIsEmpty ==
  ~open =>
    /\ ~poolOpen /\ op = NoOp /\ pooled = {} /\ leases = {} /\ beat = "off" /\ ~hold
    /\ ~misled => hostJob # "open"

PoolInv ==
  /\ PoolTyped /\ LeasesAgree /\ AliveLeased /\ AlivePooled /\ AdmissionShape /\ HoldCounted
  /\ Correlated /\ ClosedIsEmpty

\* What PoolInv says of the properties of the runs.
LEMMA PoolInvSuffices == PoolInv => WorkerUnderLease /\ GivesBack
<1> SUFFICES ASSUME PoolInv PROVE WorkerUnderLease /\ GivesBack OBVIOUS
<1>1. WorkerUnderLease BY DEF PoolInv, LeasesAgree, AliveLeased, WorkerUnderLease
<1>2. GivesBack
  <2> SUFFICES ASSUME ~open PROVE GivesBack BY DEF GivesBack
  <2>1. /\ op.step = "none" /\ pooled = {} /\ leases = {} /\ ~hold
        /\ ~misled => hostJob # "open"
    BY DEF PoolInv, ClosedIsEmpty, NoOp
  <2>2. \A k \in Keys : broker[k] \notin {"granted", "active"} BY <2>1 DEF PoolInv, LeasesAgree
  <2>3. \A k \in Keys : ~proc[k].alive BY <2>1 DEF PoolInv, AlivePooled, Leaving
  <2>4. ~misled => holds = 0 BY <2>1 DEF PoolInv, HoldCounted
  <2> QED BY <2>1, <2>2, <2>3, <2>4 DEF GivesBack
<1> QED BY <1>1, <1>2

\* A session that has not begun.
LEMMA PoolInitInv == PoolInit => PoolInv
<1> SUFFICES ASSUME PoolInit PROVE PoolInv OBVIOUS
<1>1. PoolTyped
  <2>1. NoProc \in Processes BY DEF NoProc, Processes
  <2>2. NoOp \in Operations BY DEF NoOp, Operations, Steps, Keys, Results
  <2> QED BY <2>1, <2>2 DEF PoolInit, PoolTyped, Requested
<1>2. LeasesAgree /\ AliveLeased /\ AlivePooled
  BY DEF PoolInit, LeasesAgree, AliveLeased, AlivePooled, NoProc
<1>3. AdmissionShape /\ HoldCounted /\ Correlated /\ ClosedIsEmpty
  BY DEF PoolInit, AdmissionShape, HoldCounted, Correlated, ClosedIsEmpty, NoOp
<1> QED BY <1>1, <1>2, <1>3 DEF PoolInv


\* The fields of an operation that ends.
LEMMA ReturnFields ==
  ASSUME op \in Operations, NEW r \in Results, Return(r)
  PROVE  /\ op' \in Operations /\ op'.step = "returned" /\ op'.result = r
         /\ op'.key = op.key /\ op'.id = op.id /\ op'.answer = op.answer
  BY DEF Return, Operations, Steps

\* The fields of an operation that goes on.
LEMMA MoveFields ==
  ASSUME op \in Operations, NEW s \in Steps, op' = [op EXCEPT !.step = s]
  PROVE  /\ op' \in Operations /\ op'.step = s /\ op'.result = op.result
         /\ op'.key = op.key /\ op'.id = op.id /\ op'.answer = op.answer
  BY DEF Operations

\* The Broker grants a request.
LEMMA GrantedKeeps == ASSUME PoolInv, Granted PROVE PoolInv'
<1>1. op \in Operations /\ op.key \in Keys BY DEF PoolInv, PoolTyped, Operations
<1>2. /\ op' \in Operations /\ op'.step = "activating" /\ op'.result = op.result
      /\ op'.key = op.key /\ op'.id = op.id /\ op'.answer = op.answer
  BY <1>1, MoveFields DEF Granted, Steps
<1>3. PoolTyped'
  BY <1>1, <1>2 DEF PoolInv, PoolTyped, Requested, AdmissionShape, Granted, hostVars,
       holdVars, workVars, Well
<1>4. LeasesAgree' /\ AliveLeased' /\ AlivePooled' /\ AdmissionShape'
  BY <1>1, <1>2 DEF PoolInv, PoolTyped, LeasesAgree, AliveLeased, AlivePooled, AdmissionShape,
       Leaving, Granted, hostVars, holdVars, workVars, Well
<1>5. HoldCounted' /\ Correlated' /\ ClosedIsEmpty'
  BY <1>1, <1>2 DEF PoolInv, PoolTyped, NoOp, HoldCounted, Correlated, ClosedIsEmpty, Steps,
       Granted, hostVars, holdVars, workVars, Well
<1> QED BY <1>3, <1>4, <1>5 DEF PoolInv

\* The Broker queues it.
LEMMA QueuedKeeps == ASSUME PoolInv, Queued PROVE PoolInv'
<1>1. op \in Operations /\ op.key \in Keys BY DEF PoolInv, PoolTyped, Operations
<1>2. /\ op' \in Operations /\ op'.step = "polling" /\ op'.result = op.result
      /\ op'.key = op.key /\ op'.id = op.id /\ op'.answer = op.answer
  BY <1>1, MoveFields DEF Queued, Steps
<1>3. PoolTyped'
  BY <1>1, <1>2 DEF PoolInv, PoolTyped, Requested, AdmissionShape, Queued, hostVars, holdVars,
       workVars, Well
<1>4. LeasesAgree' /\ AliveLeased' /\ AlivePooled' /\ AdmissionShape'
  BY <1>1, <1>2 DEF PoolInv, PoolTyped, LeasesAgree, AliveLeased, AlivePooled, AdmissionShape,
       Leaving, Queued, hostVars, holdVars, workVars, Well
<1>5. HoldCounted' /\ Correlated' /\ ClosedIsEmpty'
  BY <1>1, <1>2 DEF PoolInv, PoolTyped, NoOp, HoldCounted, Correlated, ClosedIsEmpty, Steps,
       Queued, hostVars, holdVars, workVars, Well
<1> QED BY <1>3, <1>4, <1>5 DEF PoolInv

\* Admission fails: the key has no worker yet.
LEMMA AdmissionLostKeeps == ASSUME PoolInv, AdmissionLost PROVE PoolInv'
<1>1. op \in Operations /\ op.key \in Keys BY DEF PoolInv, PoolTyped, Operations
<1>2. /\ op' \in Operations /\ op'.step = "returned" /\ op'.result = "error"
      /\ op'.key = op.key /\ op'.id = op.id /\ op'.answer = op.answer
  BY <1>1, ReturnFields DEF AdmissionLost, Results
<1>3. PoolTyped'
  BY <1>1, <1>2 DEF PoolInv, PoolTyped, Requested, AdmissionShape, AdmissionLost, hostVars,
       holdVars, workVars, Forget, HostFault
<1>4. LeasesAgree' /\ AliveLeased' /\ AlivePooled' /\ AdmissionShape'
  BY <1>1, <1>2 DEF PoolInv, PoolTyped, LeasesAgree, AliveLeased, AlivePooled, AdmissionShape,
       Leaving, AdmissionLost, hostVars, holdVars, workVars, Forget, HostFault
<1>5. HoldCounted' /\ Correlated' /\ ClosedIsEmpty'
  BY <1>1, <1>2 DEF PoolInv, PoolTyped, NoOp, HoldCounted, Correlated, ClosedIsEmpty, Steps,
       AdmissionLost, hostVars, holdVars, workVars, Forget, HostFault
<1> QED BY <1>3, <1>4, <1>5 DEF PoolInv

\* The lease is activated: from here on the session knows of it.
LEMMA ActivatedKeeps == ASSUME PoolInv, Activated PROVE PoolInv'
<1>1. op \in Operations /\ op.key \in Keys BY DEF PoolInv, PoolTyped, Operations
<1>2. /\ op' \in Operations /\ op'.step = "spawning" /\ op'.result = op.result
      /\ op'.key = op.key /\ op'.id = op.id /\ op'.answer = op.answer
  BY <1>1, MoveFields DEF Activated, Steps
<1>3. PoolTyped'
  BY <1>1, <1>2 DEF PoolInv, PoolTyped, Requested, AdmissionShape, Activated, hostVars,
       holdVars, workVars, Well
<1>4. LeasesAgree' /\ AliveLeased' /\ AlivePooled' /\ AdmissionShape'
  BY <1>1, <1>2 DEF PoolInv, PoolTyped, LeasesAgree, AliveLeased, AlivePooled, AdmissionShape,
       Leaving, Activated, hostVars, holdVars, workVars, Well
<1>5. HoldCounted' /\ Correlated' /\ ClosedIsEmpty'
  BY <1>1, <1>2 DEF PoolInv, PoolTyped, NoOp, HoldCounted, Correlated, ClosedIsEmpty, Steps,
       Activated, hostVars, holdVars, workVars, Well
<1> QED BY <1>3, <1>4, <1>5 DEF PoolInv

\* A worker that does not start gives its lease back: it does not live.
LEMMA SpawnFailedKeeps == ASSUME PoolInv, SpawnFailed PROVE PoolInv'
<1>1. op \in Operations /\ op.key \in Keys BY DEF PoolInv, PoolTyped, Operations
<1>2. /\ op' \in Operations /\ op'.step = "returned" /\ op'.result = "error"
      /\ op'.key = op.key /\ op'.id = op.id /\ op'.answer = op.answer
  BY <1>1, ReturnFields DEF SpawnFailed, Results
<1>3. PoolTyped'
  BY <1>1, <1>2 DEF PoolInv, PoolTyped, Requested, AdmissionShape, SpawnFailed, hostVars,
       holdVars, workVars
<1>4. LeasesAgree' /\ AliveLeased' /\ AlivePooled' /\ AdmissionShape'
  BY <1>1, <1>2 DEF PoolInv, PoolTyped, LeasesAgree, AliveLeased, AlivePooled, AdmissionShape,
       Leaving, SpawnFailed, hostVars, holdVars, workVars
<1>5. HoldCounted' /\ Correlated' /\ ClosedIsEmpty'
  BY <1>1, <1>2 DEF PoolInv, PoolTyped, NoOp, HoldCounted, Correlated, ClosedIsEmpty, Steps,
       SpawnFailed, hostVars, holdVars, workVars
<1> QED BY <1>3, <1>4, <1>5 DEF PoolInv

\* The language model is held.
LEMMA HoldCreatedKeeps == ASSUME PoolInv, HoldCreated PROVE PoolInv'
<1>1. op \in Operations /\ op.key \in Keys BY DEF PoolInv, PoolTyped, Operations
<1>2. /\ op' \in Operations /\ op'.step = "returned" /\ op'.result = "ok"
      /\ op'.key = op.key /\ op'.id = op.id /\ op'.answer = op.answer
  BY <1>1, ReturnFields DEF HoldCreated, Results
<1>3. PoolTyped'
  BY <1>1, <1>2 DEF PoolInv, PoolTyped, Requested, AdmissionShape, HoldCreated, hostVars,
       holdVars, workVars, Created, Well
<1>4. LeasesAgree' /\ AliveLeased' /\ AlivePooled' /\ AdmissionShape'
  BY <1>1, <1>2 DEF PoolInv, PoolTyped, LeasesAgree, AliveLeased, AlivePooled, AdmissionShape,
       Leaving, HoldCreated, hostVars, holdVars, workVars, Created, Well
<1>5. HoldCounted' /\ Correlated' /\ ClosedIsEmpty'
  BY <1>1, <1>2 DEF PoolInv, PoolTyped, NoOp, HoldCounted, Correlated, ClosedIsEmpty, Steps,
       HoldCreated, hostVars, holdVars, workVars, Created, Well
<1> QED BY <1>3, <1>4, <1>5 DEF PoolInv

\* It is not.
LEMMA HoldRefusedKeeps == ASSUME PoolInv, HoldRefused PROVE PoolInv'
<1>1. op \in Operations /\ op.key \in Keys BY DEF PoolInv, PoolTyped, Operations
<1>2. /\ op' \in Operations /\ op'.step = "returned" /\ op'.result \in {"ok", "error"}
      /\ op'.key = op.key /\ op'.id = op.id /\ op'.answer = op.answer
  BY <1>1, ReturnFields DEF HoldRefused, Results
<1>3. PoolTyped'
  BY <1>1, <1>2 DEF PoolInv, PoolTyped, Requested, AdmissionShape, HoldRefused, hostVars,
       holdVars, workVars, HostFault
<1>4. LeasesAgree' /\ AliveLeased' /\ AlivePooled' /\ AdmissionShape'
  BY <1>1, <1>2 DEF PoolInv, PoolTyped, LeasesAgree, AliveLeased, AlivePooled, AdmissionShape,
       Leaving, HoldRefused, hostVars, holdVars, workVars, HostFault
<1>5. HoldCounted' /\ Correlated' /\ ClosedIsEmpty'
  BY <1>1, <1>2 DEF PoolInv, PoolTyped, NoOp, HoldCounted, Correlated, ClosedIsEmpty, Steps,
       HoldRefused, hostVars, holdVars, workVars, HostFault
<1> QED BY <1>3, <1>4, <1>5 DEF PoolInv

\* The heartbeat of the hold ends. It may have taken another hold, but only after
\* the Host lost the first one.
LEMMA BeatFields ==
  ASSUME PoolInv, BeatEnds
  PROVE  beat' = "off" /\ holds' \in Nat /\ (~misled => holds' = holds)
<1>1. beat = "recreating" => misled BY DEF PoolInv, HoldCounted
<1>2. holds \in Nat BY DEF PoolInv, PoolTyped
<1> QED BY <1>1, <1>2 DEF BeatEnds

\* The hold is given back: unless a call failed the Host has none left.
LEMMA DropFields ==
  ASSUME PoolInv, DropHold
  PROVE  /\ beat' = "off" /\ hold' = FALSE
         /\ misled' \in BOOLEAN /\ (misled => misled')
         /\ holds' \in Nat /\ (~misled' => holds' = 0)
<1>1. /\ holds \in Nat /\ misled \in BOOLEAN /\ hold \in BOOLEAN
      /\ ~misled => holds = (IF hold THEN 1 ELSE 0)
  BY DEF PoolInv, PoolTyped, HoldCounted
<1>2. CASE hold /\ holds > 0
  <2>1. /\ beat' = "off" /\ hold' = FALSE
        /\ \/ holds' = holds - 1 /\ misled' = misled
           \/ holds' = holds /\ misled' = TRUE
    BY <1>2, Zenon DEF DropHold, Well, HostFault
  <2>2. CASE holds' = holds - 1 /\ misled' = misled
    <3>1. holds' \in Nat /\ (~misled' => holds' = 0) BY <1>1, <1>2, <2>2
    <3> QED BY <1>1, <2>1, <2>2, <3>1
  <2> QED BY <1>1, <2>1, <2>2
<1>3. CASE ~(hold /\ holds > 0)
  <2>1. BeatEnds /\ hold' = FALSE /\ misled' = misled BY <1>3 DEF DropHold, Well
  <2>2. holds' \in Nat /\ (~misled => holds' = holds) /\ beat' = "off" BY <2>1, BeatFields
  <2> QED BY <1>1, <1>3, <2>1, <2>2
<1> QED BY <1>2, <1>3

\* The hold was given back while the session goes on.
LEMMA HoldDroppedKeeps == ASSUME PoolInv, HoldDropped PROVE PoolInv'
<1>1. op \in Operations /\ op.key \in Keys BY DEF PoolInv, PoolTyped, Operations
<1>2. /\ op' \in Operations /\ op'.step = "returned" /\ op'.result = "ok"
      /\ op'.key = op.key /\ op'.id = op.id /\ op'.answer = op.answer
      /\ op.step = "dropping" /\ UNCHANGED <<hostVars, workVars>>
  BY <1>1, ReturnFields DEF HoldDropped, Results
<1>3. /\ beat' = "off" /\ hold' = FALSE
      /\ misled' \in BOOLEAN /\ (misled => misled')
      /\ holds' \in Nat /\ (~misled' => holds' = 0)
  BY DropFields DEF HoldDropped
<1>4. PoolTyped' BY <1>2, <1>3 DEF PoolInv, PoolTyped, hostVars, workVars
<1>5. LeasesAgree' /\ AliveLeased' /\ AlivePooled' /\ AdmissionShape'
  BY <1>2, <1>3 DEF PoolInv, LeasesAgree, AliveLeased, AlivePooled, AdmissionShape, Leaving,
       hostVars, workVars
<1>6. HoldCounted' /\ Correlated' /\ ClosedIsEmpty'
  BY <1>2, <1>3 DEF PoolInv, HoldCounted, Correlated, ClosedIsEmpty, NoOp, Steps, hostVars,
       workVars
<1> QED BY <1>4, <1>5, <1>6 DEF PoolInv

\* The ends of a sequence that is not empty.
LEMMA HeadTail ==
  ASSUME NEW S, NEW q \in Seq(S), q # <<>>
  PROVE  Head(q) \in S /\ Tail(q) \in Seq(S)
  BY SMT

\* A line is taken.
LEMMA LineTaken ==
  ASSUME proc \in [Keys -> Processes], NEW k \in Keys, proc[k].lines # <<>>
  PROVE  /\ Head(proc[k].lines) \in Lines
         /\ proc' = [proc EXCEPT ![k].lines = Tail(@)] =>
              proc' \in [Keys -> Processes] /\ \A j \in Keys : proc'[j].alive = proc[j].alive
<1>1. proc[k] \in Processes /\ proc[k].lines \in Seq(Lines) BY DEF Processes
<1>2. Head(proc[k].lines) \in Lines /\ Tail(proc[k].lines) \in Seq(Lines) BY <1>1, HeadTail
<1> QED BY <1>1, <1>2 DEF Processes

\* The caller's callback raises between two lines.
LEMMA ReportFailedKeeps == ASSUME PoolInv, ReportFailed PROVE PoolInv'
<1>1. op \in Operations /\ op.key \in Keys BY DEF PoolInv, PoolTyped, Operations
<1>2. /\ op' \in Operations /\ op'.step = "returned" /\ op'.result = "error"
      /\ op'.key = op.key /\ op'.id = op.id /\ op'.answer = op.answer
      /\ proc' \in [Keys -> Processes] /\ \A j \in Keys : proc'[j].alive = proc[j].alive
  <2>1. proc' = [proc EXCEPT ![op.key].lines = Tail(@)] /\ proc[op.key].lines # <<>>
    BY DEF ReportFailed
  <2> QED BY <1>1, <2>1, ReturnFields, LineTaken DEF ReportFailed, Results, PoolInv, PoolTyped
<1>3. PoolTyped'
  BY <1>1, <1>2 DEF PoolInv, PoolTyped, Requested, AdmissionShape, ReportFailed, hostVars,
       holdVars, workVars, HostFault
<1>4. LeasesAgree' /\ AliveLeased' /\ AlivePooled' /\ AdmissionShape'
  BY <1>1, <1>2 DEF PoolInv, PoolTyped, LeasesAgree, AliveLeased, AlivePooled, AdmissionShape,
       Leaving, ReportFailed, hostVars, holdVars, workVars, HostFault
<1>5. HoldCounted' /\ Correlated' /\ ClosedIsEmpty'
  BY <1>1, <1>2 DEF PoolInv, PoolTyped, NoOp, HoldCounted, Correlated, ClosedIsEmpty, Steps,
       ReportFailed, hostVars, holdVars, workVars, HostFault
<1> QED BY <1>3, <1>4, <1>5 DEF PoolInv

\* A line of the answer.
LEMMA ReadKeeps == ASSUME PoolInv, Read PROVE PoolInv'
<1>1. op \in Operations /\ op.key \in Keys BY DEF PoolInv, PoolTyped, Operations
<1>2. /\ proc' \in [Keys -> Processes] /\ \A j \in Keys : proc'[j].alive = proc[j].alive
      /\ op' \in Operations /\ op'.step \in {"reading", "returned"} /\ op'.key = op.key
      /\ op'.result = "ok" => op'.step = "returned" /\ op'.answer = op'.id
  <2> DEFINE Goal == /\ op' \in Operations /\ op'.step \in {"reading", "returned"} /\ op'.key = op.key
                     /\ op'.result = "ok" => op'.step = "returned" /\ op'.answer = op'.id
  <2>1. proc' = [proc EXCEPT ![op.key].lines = Tail(@)] /\ proc[op.key].lines # <<>> BY DEF Read
  <2>2. /\ proc' \in [Keys -> Processes] /\ \A j \in Keys : proc'[j].alive = proc[j].alive
        /\ NextLine.id \in Nat /\ NextLine.kind \in Kinds
    BY <1>1, <2>1, LineTaken DEF PoolInv, PoolTyped, NextLine, Lines
  <2>3. ASSUME op' = op PROVE Goal BY <1>1, <2>3 DEF Read, PoolInv, Correlated
  <2>4. ASSUME op' = [op EXCEPT !.step = "returned", !.result = "error"] PROVE Goal
    BY <1>1, <2>4 DEF Operations, Steps, Results
  <2>5. ASSUME Own, op' = [op EXCEPT !.step = "returned", !.result = "ok", !.answer = NextLine.id]
        PROVE  Goal
    <3> DEFINE n == NextLine.id
    <3>1. n \in Nat /\ n = op.id /\ op' = [op EXCEPT !.step = "returned", !.result = "ok", !.answer = n]
      BY <2>2, <2>5 DEF Own
    <3> HIDE DEF n
    <3> QED BY <1>1, <3>1 DEF Operations, Steps, Results
  <2>6. Goal
    <3> HIDE DEF Goal
    <3> QED BY <2>2, <2>3, <2>4, <2>5 DEF Read, Own, Kinds
  <2> QED BY <2>2, <2>6
<1>3. op.step = "reading" /\ UNCHANGED <<misled, hostVars, holdVars, pooled, poolOpen, open>>
  BY DEF Read, Well
<1>4. PoolTyped'
  BY <1>1, <1>2 DEF PoolInv, PoolTyped, Requested, AdmissionShape, Read, hostVars, holdVars,
       workVars, Well
<1>5. LeasesAgree' /\ AliveLeased' /\ AlivePooled' /\ AdmissionShape'
  BY <1>1, <1>2 DEF PoolInv, PoolTyped, LeasesAgree, AliveLeased, AlivePooled, AdmissionShape,
       Leaving, Read, hostVars, holdVars, workVars, Well
<1>6. HoldCounted' /\ Correlated' /\ ClosedIsEmpty'
  BY <1>1, <1>2, <1>3 DEF PoolInv, NoOp, HoldCounted, Correlated, ClosedIsEmpty, hostVars,
       holdVars
<1> QED BY <1>4, <1>5, <1>6 DEF PoolInv

\* A process is gone and its lease is released.
LEMMA GoneFields ==
  ASSUME PoolInv, NEW k \in Keys, Gone(k), op.step # "activating" \/ op.key # k
  PROVE  /\ proc' \in [Keys -> Processes]
         /\ \A j \in Keys : proc'[j].alive => j # k /\ proc[j].alive
         /\ leases' = leases \ {k} /\ hostJob' = hostJob
         /\ misled' \in BOOLEAN /\ (misled => misled')
         /\ broker' \in [Keys -> Requested \cup {"none", "lapsed"}]
         /\ broker'[k] \notin {"granted", "active"}
         /\ \A j \in Keys \ {k} : broker'[j] = broker[j]
<1>1. NoProc \in Processes /\ ~NoProc.alive BY DEF NoProc, Processes
<1>2. proc' = [proc EXCEPT ![k] = NoProc] BY DEF Gone
<1>3. /\ proc' \in [Keys -> Processes]
      /\ \A j \in Keys : proc'[j].alive => j # k /\ proc[j].alive
  BY <1>1, <1>2 DEF PoolInv, PoolTyped
<1>4. ReleaseLease(k) BY DEF Gone
<1>5. misled' \in BOOLEAN /\ (misled => misled')
  BY <1>4 DEF ReleaseLease, Well, HostFault, PoolInv, PoolTyped
<1>6. /\ broker' \in [Keys -> Requested \cup {"none", "lapsed"}]
      /\ broker'[k] \notin {"granted", "active"}
      /\ \A j \in Keys \ {k} : broker'[j] = broker[j]
  BY <1>4 DEF ReleaseLease, PoolInv, PoolTyped, LeasesAgree, Requested
<1> QED BY <1>3, <1>4, <1>5, <1>6 DEF ReleaseLease

\* The worker is gone, then its lease.
LEMMA EvictedKeeps == ASSUME PoolInv, Evicted PROVE PoolInv'
<1>1. op \in Operations /\ op.key \in Keys BY DEF PoolInv, PoolTyped, Operations
<1>2. Gone(op.key) /\ (op.step # "activating" \/ op.key # op.key) BY DEF Evicted
<1>3. /\ proc' \in [Keys -> Processes]
      /\ \A j \in Keys : proc'[j].alive => j # op.key /\ proc[j].alive
      /\ leases' = leases \ {op.key} /\ hostJob' = hostJob
      /\ misled' \in BOOLEAN /\ (misled => misled')
      /\ broker' \in [Keys -> Requested \cup {"none", "lapsed"}]
      /\ broker'[op.key] \notin {"granted", "active"}
      /\ \A j \in Keys \ {op.key} : broker'[j] = broker[j]
  BY <1>1, <1>2, GoneFields
<1>4. /\ op' \in Operations /\ op'.step = "returned" /\ op'.result = "ok"
      /\ op'.key = op.key /\ op'.id = op.id /\ op'.answer = op.answer
  BY <1>1, ReturnFields DEF Evicted, Results
<1>5. PoolTyped' BY <1>3, <1>4 DEF PoolInv, PoolTyped, Evicted, holdVars
<1>6. LeasesAgree' /\ AliveLeased' /\ AlivePooled' /\ AdmissionShape'
  BY <1>1, <1>3, <1>4 DEF PoolInv, PoolTyped, LeasesAgree, AliveLeased, AlivePooled,
       AdmissionShape, Leaving, Evicted, holdVars
<1>7. HoldCounted' /\ Correlated' /\ ClosedIsEmpty'
  BY <1>1, <1>3, <1>4 DEF PoolInv, PoolTyped, NoOp, HoldCounted, Correlated, ClosedIsEmpty,
       Steps, Evicted, holdVars
<1> QED BY <1>5, <1>6, <1>7 DEF PoolInv

\* A dead worker is cleared before a new one is asked for.
LEMMA ClearedKeeps == ASSUME PoolInv, Cleared PROVE PoolInv'
<1>1. op \in Operations /\ op.key \in Keys BY DEF PoolInv, PoolTyped, Operations
<1>2. Gone(op.key) /\ (op.step # "activating" \/ op.key # op.key) BY DEF Cleared
<1>3. /\ proc' \in [Keys -> Processes]
      /\ \A j \in Keys : proc'[j].alive => j # op.key /\ proc[j].alive
      /\ leases' = leases \ {op.key} /\ hostJob' = hostJob
      /\ misled' \in BOOLEAN /\ (misled => misled')
      /\ broker' \in [Keys -> Requested \cup {"none", "lapsed"}]
      /\ broker'[op.key] \notin {"granted", "active"}
      /\ \A j \in Keys \ {op.key} : broker'[j] = broker[j]
  BY <1>1, <1>2, GoneFields
<1>4. /\ op' \in Operations /\ op'.step = "admitting" /\ op'.result = op.result
      /\ op'.key = op.key /\ op'.id = op.id /\ op'.answer = op.answer
  BY <1>1, MoveFields DEF Cleared, Steps
<1>5. PoolTyped' BY <1>3, <1>4 DEF PoolInv, PoolTyped, Cleared, holdVars
<1>6. LeasesAgree' /\ AliveLeased' /\ AlivePooled' /\ AdmissionShape'
  BY <1>1, <1>3, <1>4 DEF PoolInv, PoolTyped, LeasesAgree, AliveLeased, AlivePooled,
       AdmissionShape, Leaving, Cleared, holdVars
<1>7. HoldCounted' /\ Correlated' /\ ClosedIsEmpty'
  BY <1>1, <1>3, <1>4 DEF PoolInv, PoolTyped, NoOp, HoldCounted, Correlated, ClosedIsEmpty,
       Steps, Cleared, holdVars
<1> QED BY <1>5, <1>6, <1>7 DEF PoolInv

\* A worker that ended in the middle of a request.
LEMMA EndOfOutputKeeps == ASSUME PoolInv, EndOfOutput PROVE PoolInv'
<1>1. op \in Operations /\ op.key \in Keys BY DEF PoolInv, PoolTyped, Operations
<1>2. Gone(op.key) /\ (op.step # "activating" \/ op.key # op.key) BY DEF EndOfOutput
<1>3. /\ proc' \in [Keys -> Processes]
      /\ \A j \in Keys : proc'[j].alive => j # op.key /\ proc[j].alive
      /\ leases' = leases \ {op.key} /\ hostJob' = hostJob
      /\ misled' \in BOOLEAN /\ (misled => misled')
      /\ broker' \in [Keys -> Requested \cup {"none", "lapsed"}]
      /\ broker'[op.key] \notin {"granted", "active"}
      /\ \A j \in Keys \ {op.key} : broker'[j] = broker[j]
  BY <1>1, <1>2, GoneFields
<1>4. /\ op' \in Operations /\ op'.step = "returned" /\ op'.result = "error"
      /\ op'.key = op.key /\ op'.id = op.id /\ op'.answer = op.answer
  BY <1>1, ReturnFields DEF EndOfOutput, Results
<1>5. PoolTyped' BY <1>3, <1>4 DEF PoolInv, PoolTyped, EndOfOutput, holdVars
<1>6. LeasesAgree' /\ AliveLeased' /\ AlivePooled' /\ AdmissionShape'
  BY <1>1, <1>3, <1>4 DEF PoolInv, PoolTyped, LeasesAgree, AliveLeased, AlivePooled,
       AdmissionShape, Leaving, EndOfOutput, holdVars
<1>7. HoldCounted' /\ Correlated' /\ ClosedIsEmpty'
  BY <1>1, <1>3, <1>4 DEF PoolInv, PoolTyped, NoOp, HoldCounted, Correlated, ClosedIsEmpty,
       Steps, EndOfOutput, holdVars
<1> QED BY <1>5, <1>6, <1>7 DEF PoolInv

\* The peer is gone, then its lease: nothing else lives.
LEMMA RoomMadeKeeps == ASSUME PoolInv, RoomMade PROVE PoolInv'
<1>1. op \in Operations /\ op.key \in Keys BY DEF PoolInv, PoolTyped, Operations
<1>2. PICK p \in Keys \ {op.key} : Gone(p) BY DEF RoomMade
<1>3. op.step = "room" /\ op' = [op EXCEPT !.step = "admitting", !.again = TRUE, !.fast = FALSE]
      /\ UNCHANGED <<holdVars, pooled, asked, poolOpen, open>>
  BY DEF RoomMade
<1>4. /\ proc' \in [Keys -> Processes]
      /\ \A j \in Keys : proc'[j].alive => j # p /\ proc[j].alive
      /\ leases' = leases \ {p} /\ hostJob' = hostJob
      /\ misled' \in BOOLEAN /\ (misled => misled')
      /\ broker' \in [Keys -> Requested \cup {"none", "lapsed"}]
      /\ broker'[p] \notin {"granted", "active"}
      /\ \A j \in Keys \ {p} : broker'[j] = broker[j]
  BY <1>2, <1>3, GoneFields
<1>5. /\ op' \in Operations /\ op'.step = "admitting" /\ op'.result = op.result
      /\ op'.key = op.key /\ op'.id = op.id /\ op'.answer = op.answer
  BY <1>1, <1>3 DEF Operations, Steps
<1>6. PoolTyped' BY <1>3, <1>4, <1>5 DEF PoolInv, PoolTyped, holdVars
<1>7. \A j \in Keys : ~proc'[j].alive
  BY <1>1, <1>2, <1>3, <1>4 DEF PoolInv, AlivePooled, AdmissionShape, Leaving, Keys
<1>8. LeasesAgree' /\ AliveLeased' /\ AlivePooled' /\ AdmissionShape'
  BY <1>1, <1>3, <1>4, <1>5, <1>7 DEF PoolInv, PoolTyped, LeasesAgree, AliveLeased,
       AlivePooled, AdmissionShape
<1>9. HoldCounted' /\ Correlated' /\ ClosedIsEmpty'
  BY <1>1, <1>3, <1>4, <1>5 DEF PoolInv, PoolTyped, NoOp, HoldCounted, Correlated,
       ClosedIsEmpty, Steps, holdVars
<1> QED BY <1>6, <1>8, <1>9 DEF PoolInv

\* No room: a peer leaves the pool, or the operation ends.
LEMMA RejectedKeeps == ASSUME PoolInv, Rejected PROVE PoolInv'
<1>1. op \in Operations /\ op.key \in Keys BY DEF PoolInv, PoolTyped, Operations
<1>2. /\ op' \in Operations
      /\ \/ op'.step = "returned" /\ op'.result = "rejected" /\ pooled' = pooled
         \/ op'.step = "room" /\ op'.result = op.result /\ pooled' = pooled \ Peers
      /\ op'.key = op.key /\ op'.id = op.id /\ op'.answer = op.answer
  <2>1. CASE Return("rejected") /\ pooled' = pooled BY <1>1, <2>1, ReturnFields DEF Results
  <2>2. CASE op' = [op EXCEPT !.step = "room"] /\ pooled' = pooled \ Peers
    BY <1>1, <2>2, MoveFields DEF Steps
  <2> QED BY <2>1, <2>2 DEF Rejected
<1>3. /\ op.step \in {"asking", "polling"} /\ broker' = [broker EXCEPT ![op.key] = "none"]
      /\ UNCHANGED <<misled, hostJob, leases, holdVars, proc, asked, poolOpen, open>>
  BY DEF Rejected, Well
<1>4. PoolTyped' BY <1>1, <1>2, <1>3 DEF PoolInv, PoolTyped, Requested, Peers, holdVars
<1>5. LeasesAgree' /\ AliveLeased' /\ AlivePooled' /\ AdmissionShape'
  BY <1>1, <1>2, <1>3 DEF PoolInv, PoolTyped, LeasesAgree, AliveLeased, AlivePooled,
       AdmissionShape, Leaving, Peers, Keys
<1>6. HoldCounted' /\ Correlated' /\ ClosedIsEmpty'
  BY <1>1, <1>2, <1>3 DEF PoolInv, PoolTyped, NoOp, HoldCounted, Correlated, ClosedIsEmpty,
       Steps, holdVars
<1> QED BY <1>4, <1>5, <1>6 DEF PoolInv

\* A worker starts, under the lease of its key.
LEMMA SpawnedKeeps == ASSUME PoolInv, Spawned PROVE PoolInv'
<1>1. op \in Operations /\ op.key \in Keys BY DEF PoolInv, PoolTyped, Operations
<1>2. /\ op' \in Operations /\ op'.step = "reading" /\ op'.result = op.result
      /\ op'.key = op.key /\ op'.answer = op.answer
  <2> DEFINE n == asked + 1
  <2>1. n \in Nat /\ op' = [op EXCEPT !.step = "reading", !.id = n]
    BY DEF Spawned, PoolInv, PoolTyped
  <2> HIDE DEF n
  <2> QED BY <1>1, <2>1 DEF Operations, Steps
<1>3. /\ proc' \in [Keys -> Processes]
      /\ \A j \in Keys : proc'[j].alive => j = op.key \/ proc[j].alive
  <2>1. [alive |-> TRUE, todo |-> <<asked + 1>>, lines |-> <<>>] \in Processes
    BY DEF Processes, PoolInv, PoolTyped
  <2> QED BY <1>1, <2>1 DEF Spawned, PoolInv, PoolTyped
<1>4. /\ op.step = "spawning" /\ pooled' = pooled \cup {op.key} /\ asked' = asked + 1
      /\ UNCHANGED <<misled, hostVars, holdVars, poolOpen, open>>
  BY DEF Spawned, Well
<1>5. PoolTyped' BY <1>1, <1>2, <1>3, <1>4 DEF PoolInv, PoolTyped, hostVars, holdVars
<1>6. LeasesAgree' /\ AliveLeased' /\ AlivePooled' /\ AdmissionShape'
  BY <1>1, <1>2, <1>3, <1>4 DEF PoolInv, PoolTyped, LeasesAgree, AliveLeased, AlivePooled,
       AdmissionShape, Leaving, hostVars
<1>7. HoldCounted' /\ Correlated' /\ ClosedIsEmpty'
  BY <1>1, <1>2, <1>4 DEF PoolInv, PoolTyped, NoOp, HoldCounted, Correlated, ClosedIsEmpty,
       Steps, hostVars, holdVars
<1> QED BY <1>5, <1>6, <1>7 DEF PoolInv

\* What asking for admission does: it changes only the operation and the Broker's
\* record of a key that has no lease.
LEMMA AdmitFields ==
  ASSUME PoolInv, NEW q \in Operations, Admit(q)
  PROVE  /\ op' \in Operations /\ op'.key = q.key /\ op'.id = q.id /\ op'.answer = q.answer
         /\ op'.result = q.result
         /\ \/ /\ op'.step = "spawning" /\ broker' = broker
               /\ q.key \in leases \/ q.key \notin Gpu
            \/ /\ op'.step = "asking" /\ q.key \in Gpu \ leases
               /\ broker' = [broker EXCEPT ![q.key] = "queued"]
<1> DEFINE f == q.fast \/ pooled # {}
           t == [q EXCEPT !.fast = f]
<1>1. t \in Operations /\ t.key = q.key /\ t.id = q.id /\ t.answer = q.answer /\ t.result = q.result
  <2>1. f \in BOOLEAN BY DEF Operations
  <2> HIDE DEF f
  <2> QED BY <2>1 DEF Operations
<1>2. Acquire(t) BY DEF Admit
<1> HIDE DEF t
<1>3. q.key \in Keys BY DEF Operations
<1>4. CASE t.key \in leases \/ t.key \notin Gpu
  BY <1>1, <1>2, <1>4 DEF Acquire, Operations, Steps
<1>5. CASE ~(t.key \in leases \/ t.key \notin Gpu)
  BY <1>1, <1>2, <1>3, <1>5 DEF Acquire, Operations, Steps
<1> QED BY <1>4, <1>5

\* Admission is asked for afresh.
LEMMA AdmittingKeeps == ASSUME PoolInv, Admitting PROVE PoolInv'
<1>1. op \in Operations /\ op.key \in Keys BY DEF PoolInv, PoolTyped, Operations
<1>2. /\ op' \in Operations /\ op'.key = op.key /\ op'.id = op.id /\ op'.answer = op.answer
      /\ op'.result = op.result
      /\ \/ /\ op'.step = "spawning" /\ broker' = broker
            /\ op.key \in leases \/ op.key \notin Gpu
         \/ /\ op'.step = "asking" /\ op.key \in Gpu \ leases
            /\ broker' = [broker EXCEPT ![op.key] = "queued"]
  BY <1>1, AdmitFields DEF Admitting
<1>3. op.step = "admitting" /\ UNCHANGED <<misled, hostJob, leases, holdVars, workVars>>
  BY DEF Admitting
<1>4. PoolTyped' BY <1>1, <1>2, <1>3 DEF PoolInv, PoolTyped, Requested, holdVars, workVars
<1>5. LeasesAgree' /\ AliveLeased' /\ AlivePooled' /\ AdmissionShape'
  BY <1>1, <1>2, <1>3 DEF PoolInv, PoolTyped, LeasesAgree, AliveLeased, AlivePooled,
       AdmissionShape, Leaving, workVars
<1>6. HoldCounted' /\ Correlated' /\ ClosedIsEmpty'
  BY <1>1, <1>2, <1>3 DEF PoolInv, PoolTyped, NoOp, HoldCounted, Correlated, ClosedIsEmpty,
       Steps, holdVars, workVars
<1> QED BY <1>4, <1>5, <1>6 DEF PoolInv

-----------------------------------------------------------------------------

\* A step of a worker process, or a fault the session does not see.
LEMMA ProcessKeeps ==
  ASSUME PoolInv, proc' \in [Keys -> Processes],
         \A j \in Keys : proc'[j].alive => proc[j].alive,
         misled' \in BOOLEAN, misled => misled',
         UNCHANGED <<hostVars, holdVars, pooled, asked, poolOpen, open, op>>
  PROVE  PoolInv'
  BY DEF PoolInv, PoolTyped, LeasesAgree, AliveLeased, AlivePooled, AdmissionShape, HoldCounted,
         Correlated, ClosedIsEmpty, Leaving, hostVars, holdVars

\* A worker writes lines.
LEMMA EmitKeeps ==
  ASSUME PoolInv, NEW k \in Keys, NEW ls \in Seq(Lines), Emit(k, ls),
         misled' \in BOOLEAN, misled => misled'
  PROVE  PoolInv'
<1>1. proc[k] \in Processes /\ proc[k].todo \in Seq(Nat) /\ proc[k].lines \in Seq(Lines)
      /\ proc[k].todo # <<>>
  BY DEF PoolInv, PoolTyped, Processes, Emit
<1> DEFINE rest == Tail(proc[k].todo)
           all  == proc[k].lines \o ls
<1>2. rest \in Seq(Nat) /\ all \in Seq(Lines) BY <1>1, HeadTail
<1>3. proc' = [proc EXCEPT ![k] = [proc[k] EXCEPT !.lines = all, !.todo = rest]]
  BY <1>1 DEF Emit, Processes, PoolInv, PoolTyped
<1> HIDE DEF rest, all
<1>4. [proc[k] EXCEPT !.lines = all, !.todo = rest] \in Processes
      /\ [proc[k] EXCEPT !.lines = all, !.todo = rest].alive = proc[k].alive
  BY <1>1, <1>2 DEF Processes
<1>5. proc' \in [Keys -> Processes] /\ \A j \in Keys : proc'[j].alive => proc[j].alive
  BY <1>3, <1>4 DEF PoolInv, PoolTyped
<1> QED BY <1>5, ProcessKeeps DEF Emit

\* What a worker writes answers the request it is at.
LEMMA LineTyped ==
  ASSUME PoolInv, NEW k \in Keys, proc[k].todo # <<>>, NEW kind \in Kinds
  PROVE  Line(k, kind) \in Lines
<1>1. proc[k].todo \in Seq(Nat) BY DEF PoolInv, PoolTyped, Processes
<1>2. Head(proc[k].todo) \in Nat BY <1>1, HeadTail
<1> QED BY <1>2 DEF Line, Lines

\* The steps no caller takes.
LEMMA BackgroundKeeps == ASSUME PoolInv, Background PROVE PoolInv'
<1>1. ASSUME NEW k \in Keys, Answers(k) \/ Refuses(k) \/ Babbles(k) PROVE PoolInv'
  <2>1. proc[k].todo # <<>> BY <1>1 DEF Answers, Refuses, Babbles, Emit
  <2>2. misled' \in BOOLEAN /\ misled' = misled
    BY <1>1 DEF Answers, Refuses, Babbles, Well, Fault, PoolInv, PoolTyped
  <2>3. \A kind \in Kinds : Line(k, kind) \in Lines BY <2>1, LineTyped
  <2>4. PICK ls \in Seq(Lines) : Emit(k, ls)
    <3>1. CASE Answers(k)
      <4>1. <<Line(k, "progress"), Line(k, "result")>> \in Seq(Lines) BY <2>3 DEF Kinds
      <4> QED BY <3>1, <4>1 DEF Answers
    <3>2. CASE Refuses(k)
      <4>1. <<Line(k, "error")>> \in Seq(Lines) BY <2>3 DEF Kinds
      <4> QED BY <3>2, <4>1 DEF Refuses
    <3>3. CASE Babbles(k)
      <4>1. <<Line(k, "noise"), Line(k, "result")>> \in Seq(Lines) BY <2>3 DEF Kinds
      <4> QED BY <3>3, <4>1 DEF Babbles
    <3> QED BY <1>1, <3>1, <3>2, <3>3
  <2> QED BY <2>2, <2>4, EmitKeeps
<1>2. ASSUME NEW k \in Keys, Dies(k) PROVE PoolInv'
  <2>4. proc[k] \in Processes /\ <<>> \in Seq(Nat) BY DEF PoolInv, PoolTyped
  <2>1. [proc[k] EXCEPT !.alive = FALSE, !.todo = <<>>] \in Processes
        /\ ~[proc[k] EXCEPT !.alive = FALSE, !.todo = <<>>].alive
    <3> DEFINE e == <<>>
    <3>1. e \in Seq(Nat) BY <2>4
    <3> HIDE DEF e
    <3>2. [proc[k] EXCEPT !.alive = FALSE, !.todo = e] \in Processes
          /\ ~[proc[k] EXCEPT !.alive = FALSE, !.todo = e].alive
      BY <2>4, <3>1 DEF Processes
    <3> QED BY <3>2 DEF e
  <2>2. proc' = [proc EXCEPT ![k] = [proc[k] EXCEPT !.alive = FALSE, !.todo = <<>>]]
        /\ misled' = misled
    BY <1>2 DEF Dies, Fault, PoolInv, PoolTyped, Processes
  <2>3. proc' \in [Keys -> Processes] /\ \A j \in Keys : proc'[j].alive => proc[j].alive
    BY <2>1, <2>2 DEF PoolInv, PoolTyped
  <2> QED BY <1>2, <2>2, <2>3, ProcessKeeps DEF Dies, PoolInv, PoolTyped
<1>3. ASSUME NEW k \in Keys, Lapses(k) PROVE PoolInv'
  BY <1>3 DEF Lapses, HostFault, PoolInv, PoolTyped, LeasesAgree, AliveLeased, AlivePooled,
         AdmissionShape, HoldCounted, Correlated, ClosedIsEmpty, Leaving, Requested, holdVars, workVars
<1>4. CASE HoldLost \/ HoldRecreated
  <2>4. holds \in Nat /\ hold \in BOOLEAN /\ misled \in BOOLEAN BY DEF PoolInv, PoolTyped
  <2>5. holds' \in Nat BY <1>4, <2>4, SMT DEF HoldLost, HoldRecreated, Created
  <2>6. hold' \in BOOLEAN BY <1>4, <2>4, Zenon DEF HoldLost, HoldRecreated, Created
  <2>7. misled' \in BOOLEAN BY <1>4, <2>4, Zenon DEF HoldLost, HoldRecreated, HostFault, Well
  <2>1. PoolTyped'
    BY <1>4, <2>5, <2>6, <2>7 DEF HoldLost, HoldRecreated, Created, HostFault, Well, PoolInv,
         PoolTyped, hostVars, workVars
  <2>2. LeasesAgree' /\ AliveLeased' /\ AlivePooled' /\ AdmissionShape' /\ Correlated'
    BY <1>4 DEF HoldLost, HoldRecreated, HostFault, Well, PoolInv, LeasesAgree, AliveLeased,
           AlivePooled, AdmissionShape, Correlated, Leaving, hostVars, workVars
  <2>3. HoldCounted' /\ ClosedIsEmpty'
    BY <1>4 DEF HoldLost, HoldRecreated, Created, HostFault, Well, PoolInv, PoolTyped,
         HoldCounted,
           ClosedIsEmpty, hostVars, workVars
  <2> QED BY <2>1, <2>2, <2>3 DEF PoolInv
<1> QED BY <1>1, <1>2, <1>3, <1>4 DEF Background

\* The steps of an operation.
LEMMA OperationKeeps == ASSUME PoolInv, Operation PROVE PoolInv'
  BY EvictedKeeps, ClearedKeeps, AdmittingKeeps, GrantedKeeps, QueuedKeeps, RejectedKeeps,
     RoomMadeKeeps, AdmissionLostKeeps, ActivatedKeeps, SpawnedKeeps, SpawnFailedKeeps, ReadKeeps,
     ReportFailedKeeps, EndOfOutputKeeps, HoldCreatedKeeps, HoldRefusedKeeps,
     HoldDroppedKeeps DEF Operation

\* A failure that is no operation's.
LEMMA FaultKeeps ==
  ASSUME PoolInv, misled' \in {misled, TRUE}, UNCHANGED <<hostVars, holdVars, workVars, op>>
  PROVE  PoolInv'
<1>1. misled' \in BOOLEAN /\ (misled => misled') BY DEF PoolInv, PoolTyped
<1>2. proc' \in [Keys -> Processes] /\ \A j \in Keys : proc'[j].alive => proc[j].alive
  BY DEF PoolInv, PoolTyped, workVars
<1> QED BY <1>1, <1>2, ProcessKeeps DEF workVars

\* A step that leaves the pool alone.
LEMMA StillKeeps == ASSUME PoolInv, UNCHANGED poolVars PROVE PoolInv'
  BY FaultKeeps DEF poolVars

-----------------------------------------------------------------------------

\* The calls of the owner: they are made while no other is under way.
LEMMA StartSessionKeeps == ASSUME PoolInv, open, StartSession PROVE PoolInv'
  BY DEF StartSession, PoolInv, PoolTyped, LeasesAgree, AliveLeased, AlivePooled,
       AdmissionShape,
         HoldCounted, Correlated, ClosedIsEmpty, Leaving, holdVars, workVars

\* An operation that begins while none is under way and changes nothing else yet.
LEMMA BeginKeeps ==
  ASSUME PoolInv, op = NoOp, open, NEW o \in Operations, op' = o,
         o.id = 0, o.answer = 0, o.result \in {"none", "ok", "error"}, o.result = "ok" => o.step = "returned",
         o.step \in {"holding", "returned"}, o.step = "holding" => ~hold,
         UNCHANGED <<misled, hostVars, holdVars, workVars>>
  PROVE  PoolInv'
<1>1. op.step = "none" BY DEF NoOp
<1>2. op'.step = o.step /\ op'.key = o.key /\ op' \in Operations OBVIOUS
<1>3. PoolTyped' BY DEF PoolInv, PoolTyped, hostVars, holdVars, workVars
<1>4. LeasesAgree' /\ AliveLeased' /\ AlivePooled' /\ AdmissionShape'
  BY <1>1, <1>2 DEF PoolInv, LeasesAgree, AliveLeased, AlivePooled, AdmissionShape, Leaving,
                    hostVars, workVars
<1>5. HoldCounted' /\ Correlated' /\ ClosedIsEmpty'
  BY DEF PoolInv, HoldCounted, Correlated, ClosedIsEmpty, hostVars, holdVars, workVars
<1> QED BY <1>3, <1>4, <1>5 DEF PoolInv

\* The owner asks for the hold, unless there is one.
LEMMA EnsureHoldKeeps == ASSUME PoolInv, open, EnsureHold PROVE PoolInv'
<1>1. CASE WantsHold /\ ~hold
  <2> DEFINE t == [NoOp EXCEPT !.step = "holding"]
  <2>1. /\ t \in Operations /\ t.step = "holding" /\ t.id = 0 /\ t.answer = 0 /\ t.result = "none"
        /\ op' = t
    BY <1>1 DEF EnsureHold, NoOp, Operations, Steps, Results, Keys
  <2> HIDE DEF t
  <2> QED BY <1>1, <2>1, BeginKeeps DEF EnsureHold
<1>2. CASE ~(WantsHold /\ ~hold)
  <2> DEFINE t == [NoOp EXCEPT !.step = "returned", !.result = "ok"]
  <2>1. /\ t \in Operations /\ t.step = "returned" /\ t.id = 0 /\ t.answer = 0 /\ t.result = "ok"
        /\ op' = t
    BY <1>2 DEF EnsureHold, NoOp, Operations, Steps, Results, Keys
  <2> HIDE DEF t
  <2> QED BY <2>1, BeginKeeps DEF EnsureHold
<1> QED BY <1>1, <1>2

\* The owner begins to give the hold back.
LEMMA ReleaseHoldKeeps == ASSUME PoolInv, open, ReleaseHold PROVE PoolInv'
<1>1. /\ op.step = "none" /\ op' \in Operations /\ op'.step = "dropping" /\ op'.result = "none"
      /\ op'.id = 0 /\ op'.answer = 0
  BY DEF ReleaseHold, NoOp, Operations, Steps, Results, Keys
<1>2. /\ beat' = "off" /\ holds' \in Nat /\ (~misled => holds' = holds)
      /\ UNCHANGED <<misled, hold, hostVars, workVars>>
  BY BeatFields DEF ReleaseHold
<1>3. PoolTyped' BY <1>1, <1>2 DEF PoolInv, PoolTyped, hostVars, workVars
<1>4. LeasesAgree' /\ AliveLeased' /\ AlivePooled' /\ AdmissionShape'
  BY <1>1, <1>2 DEF PoolInv, LeasesAgree, AliveLeased, AlivePooled, AdmissionShape, Leaving,
                    hostVars, workVars
<1>5. HoldCounted' /\ Correlated' /\ ClosedIsEmpty'
  BY <1>1, <1>2 DEF PoolInv, HoldCounted, Correlated, ClosedIsEmpty, hostVars, workVars
<1> QED BY <1>3, <1>4, <1>5 DEF PoolInv

\* A worker is taken out of the pool and stopped.
LEMMA EvictKeeps == ASSUME PoolInv, open, NEW k \in Keys, Evict(k) PROVE PoolInv'
<1>1. op.step = "none" BY DEF Evict, NoOp
<1>2. /\ op' \in Operations /\ op'.step = "evicting" /\ op'.key = k /\ op'.id = 0 /\ op'.answer = 0
      /\ op'.result = "none"
  BY DEF Evict, NoOp, Operations, Steps, Results, Keys
<1>3. PoolTyped' BY <1>2 DEF Evict, PoolInv, PoolTyped, hostVars, holdVars
<1>4. LeasesAgree' /\ AliveLeased' /\ AlivePooled' /\ AdmissionShape'
  BY <1>1, <1>2 DEF Evict, PoolInv, PoolTyped, LeasesAgree, AliveLeased, AlivePooled,
                    AdmissionShape, Leaving, hostVars
<1>5. HoldCounted' /\ Correlated' /\ ClosedIsEmpty'
  BY <1>1, <1>2 DEF Evict, PoolInv, HoldCounted, Correlated, ClosedIsEmpty, hostVars, holdVars
<1> QED BY <1>3, <1>4, <1>5 DEF PoolInv

\* A request: refused by a closed pool, written to a loaded worker, or it begins by
\* clearing a worker that is dead or of another engine, or by asking for admission.
LEMMA ExecuteKeeps ==
  ASSUME PoolInv, open, NEW k \in Keys, NEW fast \in BOOLEAN, Execute(k, fast)
  PROVE  PoolInv'
<1> DEFINE t == [NoOp EXCEPT !.key = k, !.fast = fast]
<1>1. /\ t \in Operations /\ t.step = "none" /\ t.key = k /\ t.id = 0 /\ t.answer = 0
      /\ t.result = "none" /\ op.step = "none" /\ op = NoOp
  BY DEF Execute, NoOp, Operations, Steps, Results, Keys
<1>2. /\ UNCHANGED <<misled, hostJob, leases, holdVars, poolOpen, open>>
      /\ \/ /\ op' = [t EXCEPT !.step = "returned", !.result = "error"]
            /\ UNCHANGED <<broker, pooled, proc, asked>>
         \/ /\ k \in pooled /\ proc[k].alive /\ Write(k, t) /\ UNCHANGED <<broker, pooled>>
         \/ /\ asked' = asked + 1
            /\ \/ op' = [t EXCEPT !.step = "reading", !.id = asked + 1]
               \/ op' = [t EXCEPT !.step = "returned", !.id = asked + 1, !.result = "error"]
            /\ UNCHANGED <<broker, pooled, proc>>
         \/ /\ k \in pooled
            /\ op' = [t EXCEPT !.step = "clearing"] /\ pooled' = pooled \ {k}
            /\ UNCHANGED <<broker, proc, asked>>
         \/ /\ k \notin pooled /\ Admit(t) /\ UNCHANGED <<pooled, proc, asked>>
  BY DEF Execute
<1> DEFINE n == asked + 1
<1>3. n \in Nat BY DEF PoolInv, PoolTyped
<1>4. /\ op' \in Operations /\ op'.key = k /\ op'.answer = 0 /\ op'.result \in {"none", "error"}
      /\ proc' \in [Keys -> Processes] /\ \A j \in Keys : proc'[j].alive = proc[j].alive
      /\ asked' \in Nat
      /\ \/ op'.step \in {"returned", "reading"} /\ UNCHANGED <<broker, pooled>>
         \/ op'.step = "clearing" /\ op'.id = 0 /\ pooled' = pooled \ {k} /\ UNCHANGED broker
         \/ /\ op'.step = "spawning" /\ op'.id = 0 /\ k \notin pooled /\ UNCHANGED <<broker, pooled>>
            /\ k \in leases \/ k \notin Gpu
         \/ /\ op'.step = "asking" /\ op'.id = 0 /\ k \notin pooled /\ pooled' = pooled
            /\ k \in Gpu \ leases /\ broker' = [broker EXCEPT ![k] = "queued"]
  <2> HIDE DEF t, n
  <2>6. proc \in [Keys -> Processes] /\ asked \in Nat BY DEF PoolInv, PoolTyped
  <2>1. CASE op' = [t EXCEPT !.step = "returned", !.result = "error"] /\ UNCHANGED <<broker, pooled, proc, asked>>
    BY <1>1, <2>1, <2>6 DEF Operations, Steps, Results
  <2>2. CASE Write(k, t) /\ UNCHANGED <<broker, pooled>>
    <3>1. /\ asked' = n /\ op' = [t EXCEPT !.step = "reading", !.id = n]
          /\ proc' = [proc EXCEPT ![k].todo = Append(@, n)]
      BY <2>2 DEF Write, n
    <3>2. proc[k] \in Processes BY <2>6
    <3> DEFINE td == Append(proc[k].todo, n)
    <3>3. td \in Seq(Nat) BY <1>3, <3>2 DEF Processes
    <3>4. proc' = [proc EXCEPT ![k] = [proc[k] EXCEPT !.todo = td]] BY <3>1
    <3> HIDE DEF td
    <3>5. [proc[k] EXCEPT !.todo = td] \in Processes /\ [proc[k] EXCEPT !.todo = td].alive = proc[k].alive
      BY <3>2, <3>3 DEF Processes
    <3>6. proc' \in [Keys -> Processes] /\ \A j \in Keys : proc'[j].alive = proc[j].alive
      BY <2>6, <3>4, <3>5
    <3>7. op' \in Operations /\ op'.key = k /\ op'.answer = 0 /\ op'.result = "none" /\ op'.step = "reading"
      BY <1>1, <1>3, <3>1 DEF Operations, Steps
    <3> QED BY <1>3, <2>2, <3>1, <3>6, <3>7
  <2>3. CASE /\ asked' = asked + 1
             /\ \/ op' = [t EXCEPT !.step = "reading", !.id = asked + 1]
                \/ op' = [t EXCEPT !.step = "returned", !.id = asked + 1, !.result = "error"]
             /\ UNCHANGED <<broker, pooled, proc>>
    <3>1. /\ asked' = n
          /\ \/ op' = [t EXCEPT !.step = "reading", !.id = n]
             \/ op' = [t EXCEPT !.step = "returned", !.id = n, !.result = "error"]
      BY <2>3 DEF n
    <3>2. CASE op' = [t EXCEPT !.step = "reading", !.id = n]
      BY <1>1, <1>3, <2>3, <2>6, <3>1, <3>2 DEF Operations, Steps
    <3>3. CASE op' = [t EXCEPT !.step = "returned", !.id = n, !.result = "error"]
      BY <1>1, <1>3, <2>3, <2>6, <3>1, <3>3 DEF Operations, Steps, Results
    <3> QED BY <3>1, <3>2, <3>3
  <2>4. CASE op' = [t EXCEPT !.step = "clearing"] /\ pooled' = pooled \ {k} /\ UNCHANGED <<broker, proc, asked>>
    BY <1>1, <2>4, <2>6 DEF Operations, Steps
  <2>5. CASE k \notin pooled /\ Admit(t) /\ UNCHANGED <<pooled, proc, asked>>
    BY <1>1, <2>5, <2>6, AdmitFields
  <2> QED BY <1>2, <2>1, <2>2, <2>3, <2>4, <2>5
<1> HIDE DEF t, n
<1>5. PoolTyped' BY <1>2, <1>4 DEF PoolInv, PoolTyped, Requested, holdVars
<1>6. LeasesAgree' /\ AliveLeased' /\ AlivePooled' /\ AdmissionShape'
  BY <1>1, <1>2, <1>4 DEF PoolInv, PoolTyped, LeasesAgree, AliveLeased, AlivePooled,
       AdmissionShape, Leaving
<1>7. HoldCounted' /\ Correlated' /\ ClosedIsEmpty'
  BY <1>1, <1>2, <1>4 DEF PoolInv, HoldCounted, Correlated, ClosedIsEmpty, Steps, holdVars
<1> QED BY <1>5, <1>6, <1>7 DEF PoolInv

-----------------------------------------------------------------------------

\* The result of an operation is taken.
LEMMA TakeKeeps ==
  ASSUME PoolInv, op.step \in {"none", "returned"}, op' = NoOp, misled' \in {misled, TRUE},
         UNCHANGED <<hostVars, holdVars, workVars>>
  PROVE  PoolInv'
<1>1. NoOp \in Operations /\ NoOp.step = "none" /\ NoOp.id = 0 /\ NoOp.answer = 0 /\ NoOp.result = "none"
  BY DEF NoOp, Operations, Steps, Results, Keys
<1>2. misled' \in BOOLEAN /\ (misled => misled') BY DEF PoolInv, PoolTyped
<1>3. PoolTyped' BY <1>1, <1>2 DEF PoolInv, PoolTyped, hostVars, holdVars, workVars
<1>4. LeasesAgree'
  BY <1>1, <1>2 DEF PoolInv, LeasesAgree, hostVars, workVars
<1>5. AliveLeased' /\ AlivePooled' /\ AdmissionShape'
  BY <1>1 DEF PoolInv, AliveLeased, AlivePooled, AdmissionShape, Leaving, hostVars, workVars
<1>6. HoldCounted' /\ Correlated' /\ ClosedIsEmpty'
  BY <1>1, <1>2 DEF PoolInv, HoldCounted, Correlated, ClosedIsEmpty, hostVars, holdVars, workVars
<1> QED BY <1>3, <1>4, <1>5, <1>6 DEF PoolInv

\* A cancellation ends an operation at any of its suspensions.
LEMMA AbandonKeeps == ASSUME PoolInv, Abandon PROVE PoolInv'
<1>1. /\ NoOp \in Operations /\ NoOp.step = "none" /\ NoOp.id = 0 /\ NoOp.answer = 0
      /\ NoOp.result = "none" /\ op' = NoOp /\ op.key \in Keys
  BY DEF NoOp, Operations, Steps, Results, Keys, Abandon, PoolInv, PoolTyped
<1>2. CASE op.step \in {"asking", "polling", "activating", "spawning"}
  <2>1. /\ leases' = leases \ {op.key} /\ broker' = [broker EXCEPT ![op.key] = "none"]
        /\ UNCHANGED <<misled, hostJob, holdVars, workVars>>
    BY <1>2 DEF Abandon, Forget, Well, PoolInv, AdmissionShape
  <2>2. ~proc[op.key].alive BY <1>1, <1>2 DEF PoolInv, AlivePooled, AdmissionShape, Leaving
  <2>3. PoolTyped' BY <1>1, <2>1 DEF PoolInv, PoolTyped, Requested, holdVars, workVars
  <2>4. LeasesAgree' /\ AliveLeased' /\ AlivePooled' /\ AdmissionShape'
    BY <1>1, <1>2, <2>1, <2>2 DEF PoolInv, PoolTyped, LeasesAgree, AliveLeased, AlivePooled,
                                  AdmissionShape, Leaving, workVars
  <2>5. HoldCounted' /\ Correlated' /\ ClosedIsEmpty'
    BY <1>1, <1>2, <2>1 DEF PoolInv, HoldCounted, Correlated, ClosedIsEmpty, NoOp, holdVars,
         workVars
  <2> QED BY <2>3, <2>4, <2>5 DEF PoolInv
<1>3. CASE op.step \in {"clearing", "evicting", "room"}
  <2>1. PICK k \in Keys : /\ k \in (IF op.step = "room" THEN Keys \ {op.key} ELSE {op.key})
                          /\ proc' = [proc EXCEPT ![k] = NoProc] /\ leases' = leases \ {k}
                          /\ broker' = [broker EXCEPT ![k] = "none"]
                          /\ UNCHANGED <<misled, hostJob, holdVars, pooled, asked, poolOpen, open>>
    BY <1>1, <1>3 DEF Abandon, Well
  <2>2. NoProc \in Processes /\ ~NoProc.alive BY DEF NoProc, Processes
  <2>3. /\ proc' \in [Keys -> Processes] /\ ~proc'[k].alive
        /\ \A j \in Keys \ {k} : proc'[j] = proc[j]
    BY <2>1, <2>2 DEF PoolInv, PoolTyped
  <2>4. \A j \in Keys \ {k} : proc[j].alive => j \in pooled
    BY <1>1, <1>3, <2>1 DEF PoolInv, AlivePooled, Leaving, Keys
  <2>5. PoolTyped' BY <1>1, <2>1, <2>3 DEF PoolInv, PoolTyped, Requested, holdVars
  <2>6. LeasesAgree' /\ AliveLeased' /\ AlivePooled' /\ AdmissionShape'
    BY <1>1, <1>3, <2>1, <2>3, <2>4 DEF PoolInv, PoolTyped, LeasesAgree, AliveLeased,
         AlivePooled,
                                        AdmissionShape
  <2>7. HoldCounted' /\ Correlated' /\ ClosedIsEmpty'
    BY <1>1, <1>3, <2>1 DEF PoolInv, HoldCounted, Correlated, ClosedIsEmpty, NoOp, holdVars
  <2> QED BY <2>5, <2>6, <2>7 DEF PoolInv
<1>4. CASE op.step = "reading"
  <2>1. UNCHANGED <<misled, hostVars, holdVars, workVars>> BY <1>4 DEF Abandon, Well
  <2>2. PoolTyped' BY <1>1, <2>1 DEF PoolInv, PoolTyped, hostVars, holdVars, workVars
  <2>3. LeasesAgree' /\ AliveLeased' /\ AlivePooled' /\ AdmissionShape'
    BY <1>1, <1>4, <2>1 DEF PoolInv, LeasesAgree, AliveLeased, AlivePooled, AdmissionShape,
         Leaving,
                            hostVars, workVars
  <2>4. HoldCounted' /\ Correlated' /\ ClosedIsEmpty'
    BY <1>1, <1>4, <2>1 DEF PoolInv, HoldCounted, Correlated, ClosedIsEmpty, hostVars,
         holdVars, workVars
  <2> QED BY <2>2, <2>3, <2>4 DEF PoolInv
<1>5. CASE op.step = "holding"
  <2>1. holds' \in {holds, holds + 1} /\ misled' = TRUE /\ UNCHANGED <<hostVars, hold, beat, workVars>>
    BY <1>5 DEF Abandon
  <2>2. holds' \in Nat BY <2>1 DEF PoolInv, PoolTyped
  <2>3. PoolTyped' BY <1>1, <2>1, <2>2 DEF PoolInv, PoolTyped, hostVars, workVars
  <2>4. LeasesAgree' /\ AliveLeased' /\ AlivePooled' /\ AdmissionShape'
    BY <1>1, <1>5, <2>1 DEF PoolInv, LeasesAgree, AliveLeased, AlivePooled, AdmissionShape,
         Leaving,
                            hostVars, workVars
  <2>5. HoldCounted' /\ Correlated' /\ ClosedIsEmpty'
    BY <1>1, <1>5, <2>1 DEF PoolInv, HoldCounted, Correlated, ClosedIsEmpty, NoOp, hostVars,
         workVars
  <2> QED BY <2>3, <2>4, <2>5 DEF PoolInv
<1>6. CASE op.step = "dropping"
  <2>1. /\ UNCHANGED <<hostVars, beat, workVars>> /\ misled' \in {misled, TRUE}
        /\ \/ UNCHANGED <<misled, hold, holds>>
           \/ /\ hold' = FALSE /\ misled' = TRUE
              /\ holds' \in {holds} \cup (IF hold /\ holds > 0 THEN {holds - 1} ELSE {})
    BY <1>6 DEF Abandon, Well, holdVars
  <2>2. holds' \in Nat /\ hold' \in BOOLEAN /\ misled' \in BOOLEAN
        /\ (misled => misled') /\ (~misled' => holds' = holds /\ hold' = hold)
    <3>1. holds \in Nat /\ hold \in BOOLEAN /\ misled \in BOOLEAN BY DEF PoolInv, PoolTyped
    <3>2. CASE UNCHANGED <<misled, hold, holds>> BY <3>1, <3>2
    <3>3. CASE /\ hold' = FALSE /\ misled' = TRUE
               /\ holds' \in {holds} \cup (IF hold /\ holds > 0 THEN {holds - 1} ELSE {})
      <4>1. holds' \in Nat BY <3>1, <3>3
      <4> QED BY <3>1, <3>3, <4>1
    <3> QED BY <2>1, <3>2, <3>3
  <2>3. PoolTyped' BY <1>1, <2>1, <2>2 DEF PoolInv, PoolTyped, hostVars, workVars
  <2>4. LeasesAgree' /\ AliveLeased' /\ AlivePooled' /\ AdmissionShape'
    BY <1>1, <1>6, <2>1, <2>2 DEF PoolInv, LeasesAgree, AliveLeased, AlivePooled, AdmissionShape,
         Leaving, hostVars, workVars
  <2>5. HoldCounted' /\ Correlated' /\ ClosedIsEmpty'
    BY <1>1, <1>6, <2>1, <2>2 DEF PoolInv, HoldCounted, Correlated, ClosedIsEmpty, NoOp, hostVars,
         workVars
  <2> QED BY <2>3, <2>4, <2>5 DEF PoolInv
<1> QED BY <1>2, <1>3, <1>4, <1>5, <1>6 DEF Abandon

\* close() of the pool: no call is admitted after it.
LEMMA ShutPoolKeeps ==
  ASSUME PoolInv, ShutPool, UNCHANGED <<misled, hostVars, holdVars, op>>
  PROVE  PoolInv'
  BY DEF ShutPool, PoolInv, PoolTyped, LeasesAgree, AliveLeased, AlivePooled, AdmissionShape,
         HoldCounted, Correlated, ClosedIsEmpty, Leaving, hostVars, holdVars

\* Each eviction of close().
LEMMA CloseOneKeeps == ASSUME PoolInv, open, NEW k \in Keys, CloseOne(k) PROVE PoolInv'
<1>1. op = NoOp /\ op.step = "none" /\ Gone(k) /\ op' = op /\ pooled' = pooled \ {k}
      /\ UNCHANGED <<holdVars, asked, poolOpen, open>>
  BY DEF CloseOne, NoOp
<1>2. /\ proc' \in [Keys -> Processes]
      /\ \A j \in Keys : proc'[j].alive => j # k /\ proc[j].alive
      /\ leases' = leases \ {k} /\ hostJob' = hostJob
      /\ misled' \in BOOLEAN /\ (misled => misled')
      /\ broker' \in [Keys -> Requested \cup {"none", "lapsed"}]
      /\ broker'[k] \notin {"granted", "active"}
      /\ \A j \in Keys \ {k} : broker'[j] = broker[j]
  BY <1>1, GoneFields
<1>3. PoolTyped' BY <1>1, <1>2 DEF PoolInv, PoolTyped, holdVars
<1>4. LeasesAgree' /\ AliveLeased' /\ AlivePooled' /\ AdmissionShape'
  BY <1>1, <1>2 DEF PoolInv, PoolTyped, LeasesAgree, AliveLeased, AlivePooled, AdmissionShape,
       Leaving
<1>5. HoldCounted' /\ Correlated' /\ ClosedIsEmpty'
  BY <1>1, <1>2 DEF PoolInv, HoldCounted, Correlated, ClosedIsEmpty, holdVars
<1> QED BY <1>3, <1>4, <1>5 DEF PoolInv

\* close() of the session, after that of the pool.
LEMMA CloseSessionKeeps ==
  ASSUME PoolInv, NEW failed, CloseSession(failed), op = NoOp, ~poolOpen, pooled = {}
  PROVE  PoolInv'
<1>1. op.step = "none" /\ op' = op BY DEF NoOp, CloseSession
<1>2. /\ leases' = {} /\ broker' = [k \in Keys |-> IF k \in leases THEN "none" ELSE broker[k]]
      /\ open' = FALSE /\ UNCHANGED <<pooled, proc, poolOpen, asked>>
  BY DEF CloseSession
<1>3. /\ beat' = "off" /\ hold' = FALSE
      /\ misled' \in BOOLEAN /\ (misled => misled')
  BY DropFields DEF CloseSession
<1>4. holds' \in Nat /\ (~misled' => holds' = 0) BY DropFields DEF CloseSession
<1>5. ~misled' => hostJob' # "open" BY DEF CloseSession
<1>6. \A k \in Keys : ~proc[k].alive BY <1>1 DEF PoolInv, AlivePooled, Leaving
<1>7. \A k \in Keys : broker[k] \in {"granted", "active"} => k \in leases
  BY <1>1 DEF PoolInv, LeasesAgree
<1>8. PoolTyped' BY <1>1, <1>2, <1>3, <1>4 DEF PoolInv, PoolTyped, Requested
<1>9. LeasesAgree' /\ AliveLeased' /\ AlivePooled' /\ AdmissionShape'
  BY <1>1, <1>2, <1>6, <1>7 DEF LeasesAgree, AliveLeased, AlivePooled, AdmissionShape, Keys
<1>10. HoldCounted' /\ Correlated' /\ ClosedIsEmpty'
  BY <1>1, <1>2, <1>3, <1>4, <1>5 DEF PoolInv, HoldCounted, Correlated, ClosedIsEmpty
<1> QED BY <1>8, <1>9, <1>10 DEF PoolInv

=============================================================================
