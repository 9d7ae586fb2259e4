--------------------------- MODULE PipelineProofs ---------------------------
(***************************************************************************)
(* Proofs about Pipeline, for every set of pipelines, every offer of       *)
(* requests, every choice of the kinds that need the device, and every     *)
(* bound.                                                                  *)
(*                                                                         *)
(* A step writes the row of one pipeline, so the invariants are about one  *)
(* row each.  A step of a task runs on through helpers that nest: Lands,   *)
(* Onward and Leaves say what is left of a row when Admit, Proceed and     *)
(* Yield are through.  IInv is inductive: TypeOK needs that what runs was  *)
(* compiled (the stage exists) and that a refusal for its shape is never   *)
(* handed to a finally block; LeaseInv, for pipelines whose Host answers,  *)
(* relates the suspension, the handle, the Broker and the Host's model.    *)
(***************************************************************************)
EXTENDS Pipeline, SequenceTheorems, TLAPS

InStage == Asking \cup Waiting \cup Working \cup {"locking", "yielding"}
Leaving == {"ending", "unwinding", "releasing", "done", "gone"}
Early   == {"new", "first", "source"}

\* What stage i is given when every stage before it succeeded.
Entering(r, i) == IF i = 1 THEN InputGives(r) ELSE Gives(Active(r)[i - 1])

\* What submit() let through.
Accepted(r) == r \in Requests /\ Compiles(r) /\ (NeedsHost(r) => r.by = "host")

\* The stages that run are those of the request, each a kind of stage.
LEMMA ActiveStages ==
  ASSUME NEW r \in Requests, Compiles(r)
  PROVE  /\ Len(Active(r)) \in 1..MaxStages
         /\ Len(Active(r)) = r.to - r.from + 1
         /\ \A i \in 1..Len(Active(r)) :
              Active(r)[i] \in Kinds /\ Active(r)[i] = r.stages[r.from + i - 1]
<1>1. PICK n \in 1..MaxStages : r.stages \in [1..n -> Kinds]
  BY DEF Requests
<1>2. r.from \in Nat /\ r.to \in Nat /\ r.from >= 1 /\ n \in Nat /\ MaxStages \in Nat
  BY PipelineAssumption DEF Requests
<1>3. r.stages \in Seq(Kinds) /\ Len(r.stages) = n
  BY <1>1, <1>2
<1>4. r.to <= n /\ r.from <= r.to
  BY <1>3 DEF Compiles
<1>5. \A i \in r.from..r.to : r.stages[i] \in Kinds
  BY <1>1, <1>2, <1>4
<1>6. /\ Len(Active(r)) = r.to - r.from + 1
      /\ \A i \in 1..(r.to - r.from + 1) : Active(r)[i] = r.stages[r.from + i - 1]
  BY <1>2, <1>4, <1>5, SubSeqProperties DEF Active
<1>7. ASSUME NEW i \in 1..Len(Active(r))
      PROVE  Active(r)[i] \in Kinds /\ Active(r)[i] = r.stages[r.from + i - 1]
  <2>1. r.from + i - 1 \in 1..n
    BY <1>6, <1>2, <1>4
  <2>2. QED
    BY <2>1, <1>1, <1>6
<1>8. QED
  BY <1>2, <1>4, <1>6, <1>7

\* compile_pipeline's checks, for the stages that run: each takes what enters it,
\* what the last one gives fits the delivery, and an AI stage has a Host.
LEMMA Compiled ==
  ASSUME NEW r, Accepted(r)
  PROVE  /\ \A i \in 1..Len(Active(r)) :
              /\ Entering(r, i) = Takes(Active(r)[i])
              /\ Active(r)[i] = "ai" => r.by = "host"
         /\ r.mode = "text" => Entering(r, Len(Active(r)) + 1) = "text"
         /\ r.mode \in {"stored", "project"} => Entering(r, Len(Active(r)) + 1) = "audio"
<1>1. r \in Requests /\ Compiles(r)
  BY DEF Accepted
<1>2. /\ Len(Active(r)) \in 1..MaxStages /\ Len(Active(r)) = r.to - r.from + 1
      /\ r.from \in Nat /\ r.to \in Nat
  BY <1>1, ActiveStages DEF Requests
<1>3. \A i \in 1..Len(Active(r)) : Active(r)[i] = r.stages[r.from + i - 1]
  BY <1>1, ActiveStages
<1>4. ASSUME NEW i \in 1..Len(Active(r))
      PROVE  Entering(r, i) = Takes(Active(r)[i]) /\ (Active(r)[i] = "ai" => r.by = "host")
  <2>1. ASSUME i = 1 PROVE Entering(r, i) = Takes(Active(r)[i])
    <3>1. r.from + i - 1 = r.from
      BY <2>1, <1>2
    <3>2. Active(r)[i] = r.stages[r.from]
      BY <3>1, <1>3
    <3>3. QED
      BY <2>1, <3>2, <1>1 DEF Compiles, Entering
  <2>2. ASSUME i # 1 PROVE Entering(r, i) = Takes(Active(r)[i])
    <3> DEFINE k == r.from + i - 2
    <3>1. k \in r.from..(r.to - 1) /\ k + 1 = r.from + i - 1 /\ i - 1 \in 1..Len(Active(r))
          /\ r.from + (i - 1) - 1 = k
      BY <2>2, <1>2, PipelineAssumption
    <3>2. Gives(r.stages[k]) = Takes(r.stages[k + 1])
      BY <3>1, <1>1 DEF Compiles
    <3>3. Active(r)[i] = r.stages[k + 1] /\ Active(r)[i - 1] = r.stages[k]
      BY <3>1, <1>3
    <3>4. QED
      BY <2>2, <3>2, <3>3 DEF Entering
  <2>3. r.from + i - 1 \in r.from..r.to
    BY <1>2, PipelineAssumption
  <2>4. Active(r)[i] = "ai" => r.by = "host"
    BY <2>3, <1>3 DEF Accepted, NeedsHost
  <2>5. QED
    BY <2>1, <2>2, <2>4
<1>5. Entering(r, Len(Active(r)) + 1) = Gives(r.stages[r.to])
  <2> DEFINE n == Len(Active(r))
  <2>1. n \in 1..n /\ n + 1 # 1 /\ (n + 1) - 1 = n /\ r.from + n - 1 = r.to
    BY <1>2, PipelineAssumption
  <2>2. Active(r)[n] = r.stages[r.to]
    BY <2>1, <1>3
  <2>3. QED
    BY <2>1, <2>2 DEF Entering
<1>6. QED
  BY <1>1, <1>4, <1>5 DEF Compiles

-----------------------------------------------------------------------------

\* A stream, or a delivery to a socket, is refused while the pipeline runs.
LiveOnly(r) == r.input = "stream" \/ r.mode = "websocket"

Shape(p) ==
  /\ db[p] = "absent" => pc[p] = "none"
  /\ pc[p] # "none" => Accepted(request[p])
  /\ pc[p] \in {"none"} \cup Early => at[p] = 0
  /\ pc[p] \in InStage => at[p] # 0
  /\ pc[p] = "source" => request[p].input = "grant"
  /\ verdict[p] = "misfit" => pc[p] \in Leaving /\ LiveOnly(request[p])

Shaped == \A p \in Pipelines : Shape(p)

IInv ==
  /\ TypeOK /\ LockIsForWork /\ Shaped
  /\ request \in [Pipelines -> Requests \cup {None}]

\* What a task's step leaves behind when it ran on to the next suspension, or to
\* its end, in a stage of that kind if it is in a stage.
Lands(p, kind) ==
  /\ pc' = [pc EXCEPT ![p] = pc'[p]] /\ db' = [db EXCEPT ![p] = db'[p]]
  /\ verdict' = [verdict EXCEPT ![p] = verdict'[p]]
  /\ lock' \in Pipelines \cup {None} /\ \A q \in Pipelines \ {p} : lock' = q <=> lock = q
  /\ lock' = p <=> pc'[p] = "executing"
  /\ db'[p] \in {"running"} \cup Final /\ verdict'[p] \in Verdicts
  /\ pc'[p] \in {"ending", "done", "succeeding", "committing", "consulting", "requesting",
                 "locking", "executing"}
  /\ pc'[p] = "requesting" => kind \in Gpu /\ Hosted(p)
  /\ pc'[p] \in {"locking", "executing"} => kind \notin Gpu
  /\ verdict'[p] = "misfit" => pc'[p] \in {"ending", "done"} /\ LiveOnly(request[p])

\* A step that ends the pipeline: failed or cancelled.
LEMMA EndLands ==
  ASSUME IInv, NEW p \in Pipelines, NEW s \in {"failed", "canceled"}, NEW kind, End(p, s)
  PROVE  Lands(p, kind) /\ pc'[p] \in {"ending", "done"}
BY PipelineAssumption
DEF IInv, TypeOK, End, Settle, Goto, Verdict, Lands, Final, Verdicts, Live

\* One that refuses it for its shape, which only a live request meets.
LEMMA MisfitLands ==
  ASSUME IInv, NEW p \in Pipelines, NEW kind, Misfit(p), LiveOnly(request[p])
  PROVE  Lands(p, kind) /\ pc'[p] \in {"ending", "done"}
BY PipelineAssumption
DEF IInv, TypeOK, Misfit, Settle, Goto, Verdict, Lands, Final, Verdicts, Live

\* One that ends it with its result delivered.
LEMMA SucceedLands ==
  ASSUME IInv, NEW p \in Pipelines, NEW kind, Succeed(p)
  PROVE  Lands(p, kind) /\ pc'[p] \in {"succeeding", "done"}
BY PipelineAssumption
DEF IInv, TypeOK, Succeed, Settle, Goto, Verdict, Lands, Final, Verdicts, Live

\* One that goes on to an await with the lock free.
LEMMA RunsLands ==
  ASSUME IInv, NEW p \in Pipelines, NEW kind, verdict[p] # "misfit", UNCHANGED verdict,
         NEW l \in {"committing", "consulting", "requesting", "locking"}, Runs(p, l),
         l = "requesting" => kind \in Gpu /\ Hosted(p), l = "locking" => kind \notin Gpu
  PROVE  Lands(p, kind) /\ pc'[p] = l
BY PipelineAssumption
DEF IInv, TypeOK, Runs, Goto, Lands, Final, Verdicts, Live

\* Whatever way a stage is admitted.
LEMMA AdmitLands ==
  ASSUME IInv, NEW p \in Pipelines, NEW kind, verdict[p] # "misfit", Admit(p, kind)
  PROVE  Lands(p, kind) /\ pc'[p] \in {"ending", "done", "requesting", "locking", "executing"}
<1>1. CASE End(p, "failed")
  BY <1>1, EndLands
<1>2. CASE Runs(p, "requesting") /\ UNCHANGED verdict /\ kind \in Gpu /\ Hosted(p)
  BY <1>2, RunsLands
<1>3. CASE EnterLock(p) /\ UNCHANGED verdict /\ kind \notin Gpu
  <2>1. CASE Runs(p, "locking")
    BY <1>3, <2>1, RunsLands
  <2>2. CASE ~Runs(p, "locking")
    BY <1>3, <2>2, PipelineAssumption DEF IInv, TypeOK, EnterLock, Lands, Final, Verdicts, Live
  <2>3. QED
    BY <2>1, <2>2
<1>4. QED
  BY <1>1, <1>2, <1>3 DEF Admit

\* Whatever way a stage begins that is given what it takes.
LEMMA BeginStageLands ==
  ASSUME IInv, NEW p \in Pipelines, NEW kind, NEW v, verdict[p] # "misfit",
         v = Takes(kind), kind = "ai" => Hosted(p), BeginStage(p, kind, v)
  PROVE  Lands(p, kind) /\ pc'[p] \in {"ending", "done"} \cup InStage
<1>1. CASE Runs(p, "consulting") /\ UNCHANGED verdict
  BY <1>1, RunsLands DEF InStage, Asking
<1>2. CASE Admit(p, kind)
  BY <1>2, AdmitLands DEF InStage, Waiting, Working
<1>3. CASE End(p, "failed")
  BY <1>3, EndLands
<1>4. QED
  BY <1>1, <1>2, <1>3 DEF BeginStage

\* Whatever way a result is delivered that the delivery can take.
LEMMA DeliverLands ==
  ASSUME IInv, NEW p \in Pipelines, NEW kind, NEW v, verdict[p] # "misfit", Deliver(p, v),
         request[p].mode \in Modes,
         request[p].mode = "text" => v = "text",
         request[p].mode \in {"stored", "project"} => v = "audio"
  PROVE  Lands(p, kind) /\ pc'[p] \in {"ending", "done", "committing", "succeeding"}
<1>1. CASE Misfit(p) /\ request[p].mode = "websocket"
  BY <1>1, MisfitLands DEF LiveOnly
<1>2. CASE Runs(p, "committing") /\ UNCHANGED verdict
  BY <1>2, RunsLands
<1>3. CASE Succeed(p)
  BY <1>3, SucceedLands
<1>4. CASE End(p, "failed")
  BY <1>4, EndLands
<1>5. QED
  BY <1>1, <1>2, <1>3, <1>4 DEF Deliver, Modes

\* The same for a step that may begin stage i of the pipeline.
Onward(p, i) ==
  /\ Lands(p, Active(request[p])[at'[p]])
  /\ request' = request
  /\ at' = [at EXCEPT ![p] = at'[p]] /\ at'[p] \in {at[p], i}
  /\ at'[p] \in 0..Len(Active(request[p]))
  /\ value' = [value EXCEPT ![p] = value'[p]] /\ value'[p] \in {"none", "text", "audio"}
  /\ pc'[p] \in InStage => at'[p] = i
  /\ pc'[p] \notin InStage => pc'[p] \in {"ending", "done", "committing", "succeeding"}

\* A submitted pipeline runs a compiled request, and is in a stage of it while it
\* is suspended in a stage.
LEMMA StageFacts ==
  ASSUME IInv, NEW p \in Pipelines, pc[p] # "none"
  PROVE  /\ Accepted(request[p]) /\ request[p].mode \in Modes
         /\ Len(Active(request[p])) \in 1..MaxStages
         /\ at[p] \in 0..Len(Active(request[p]))
         /\ pc[p] \in InStage => at[p] \in 1..Len(Active(request[p]))
<1>1. Accepted(request[p]) /\ at[p] \in 0..Len(Active(request[p]))
      /\ (pc[p] \in InStage => at[p] # 0)
  BY DEF IInv, TypeOK, Shaped, Shape
<1>2. request[p] \in Requests /\ Compiles(request[p])
  BY <1>1 DEF Accepted
<1>3. Len(Active(request[p])) \in 1..MaxStages
  BY <1>2, ActiveStages
<1>4. request[p].mode \in Modes
  BY <1>2 DEF Requests
<1>5. QED
  BY <1>1, <1>3, <1>4, PipelineAssumption

\* The loop over the stages, given what enters stage i: the next stage or the delivery.
LEMMA ProceedOnward ==
  ASSUME IInv, NEW p \in Pipelines, pc[p] # "none", verdict[p] # "misfit",
         NEW i \in 1..(Len(Active(request[p])) + 1), NEW v, v = Entering(request[p], i),
         Proceed(p, i, v)
  PROVE  Onward(p, i)
<1> DEFINE r == request[p]
           n == Len(Active(r))
<1>1. /\ Accepted(r) /\ r.mode \in Modes /\ n \in 1..MaxStages /\ at[p] \in 0..n
      /\ MaxStages \in Nat /\ n \in Nat
  BY StageFacts, PipelineAssumption
<1>2. v \in {"text", "audio"}
  BY DEF Entering, InputGives, Gives
<1>3. at \in [Pipelines -> 0..MaxStages] /\ value \in [Pipelines -> {"none", "text", "audio"}]
  BY DEF IInv, TypeOK
<1>4. request' = request /\ value' = [value EXCEPT ![p] = v]
  BY DEF Proceed
<1>5. value' = [value EXCEPT ![p] = value'[p]] /\ value'[p] \in {"none", "text", "audio"}
  BY <1>2, <1>3, <1>4
<1>6. CASE i > n
  <2>1. i = n + 1
    BY <1>6, <1>1
  <2>2. Deliver(p, v) /\ at' = at
    BY <1>6 DEF Proceed
  <2>3. (r.mode = "text" => v = "text") /\ (r.mode \in {"stored", "project"} => v = "audio")
    BY <2>1, <1>1, Compiled
  <2>4. Lands(p, Active(r)[at'[p]]) /\ pc'[p] \in {"ending", "done", "committing", "succeeding"}
    BY <2>2, <2>3, <1>1, DeliverLands
  <2>5. at' = [at EXCEPT ![p] = at'[p]] /\ at'[p] = at[p]
    BY <2>2, <1>3
  <2>6. pc'[p] \notin InStage
    BY <2>4 DEF InStage, Asking, Waiting, Working
  <2>7. QED
    BY <2>4, <2>5, <2>6, <1>1, <1>4, <1>5 DEF Onward
<1>7. CASE ~(i > n)
  <2>1. i \in 1..n /\ i \in 0..n
    BY <1>7, <1>1
  <2>2. BeginStage(p, Active(r)[i], v) /\ at' = [at EXCEPT ![p] = i]
    BY <1>7 DEF Proceed
  <2>3. at'[p] = i /\ at' = [at EXCEPT ![p] = at'[p]]
    BY <2>2, <1>3
  <2>4. v = Takes(Active(r)[i]) /\ (Active(r)[i] = "ai" => Hosted(p))
    BY <2>1, <1>1, Compiled DEF Hosted
  <2>5. Lands(p, Active(r)[at'[p]]) /\ pc'[p] \in {"ending", "done"} \cup InStage
    BY <2>2, <2>3, <2>4, BeginStageLands
  <2>6. QED
    BY <2>1, <2>3, <2>5, <1>1, <1>4, <1>5 DEF Onward
<1>8. QED
  BY <1>6, <1>7

\* A step that ends the pipeline in the stage it is in.
LEMMA EndOnward ==
  ASSUME IInv, NEW p \in Pipelines, pc[p] # "none", NEW i, NEW s \in {"failed", "canceled"},
         End(p, s), UNCHANGED <<request, at, value>>
  PROVE  Onward(p, i) /\ pc'[p] \in {"ending", "done"}
<1>1. Lands(p, Active(request[p])[at'[p]]) /\ pc'[p] \in {"ending", "done"}
  BY EndLands
<1>2. at[p] \in 0..Len(Active(request[p]))
  BY StageFacts
<1>3. pc'[p] \notin InStage
  BY <1>1 DEF InStage, Asking, Waiting, Working
<1>4. QED
  BY <1>1, <1>2, <1>3 DEF Onward, IInv, TypeOK

\* A stage that succeeded hands its value to the next one, any other ends.
LEMMA ContinueOnward ==
  ASSUME IInv, NEW p \in Pipelines, pc[p] \in InStage,
         NEW v \in {"ok", "failed", "canceled"}, Continue(p, v)
  PROVE  Onward(p, at[p] + 1)
<1>1. /\ pc[p] # "none" /\ verdict[p] # "misfit" /\ at[p] \in 1..Len(Active(request[p]))
      /\ Len(Active(request[p])) \in Nat
  BY StageFacts, PipelineAssumption
     DEF IInv, Shaped, Shape, InStage, Leaving, Asking, Waiting, Working
<1>2. CASE v = "ok"
  <2>1. Proceed(p, at[p] + 1, Gives(Stage(p)))
    BY <1>2 DEF Continue
  <2>2. at[p] + 1 \in 1..(Len(Active(request[p])) + 1) /\ at[p] + 1 # 1 /\ (at[p] + 1) - 1 = at[p]
    BY <1>1
  <2>3. Gives(Stage(p)) = Entering(request[p], at[p] + 1)
    BY <2>2 DEF Entering, Stage
  <2>4. QED
    BY <2>1, <2>2, <2>3, <1>1, ProceedOnward
<1>3. CASE v # "ok"
  BY <1>1, <1>3, EndOnward DEF Continue
<1>4. QED
  BY <1>2, <1>3

\* A worker stage is left for the release of its lease, or at once if it has none.
Leaves(p) ==
  \/ /\ Stage(p) \notin Gpu /\ Onward(p, at[p] + 1) /\ renewing' = renewing
  \/ /\ Stage(p) \in Gpu
     /\ pc' = [pc EXCEPT ![p] = "yielding"] /\ db' = [db EXCEPT ![p] = "running"]
     /\ lock' = IF lock = p THEN None ELSE lock
     /\ verdict' = [verdict EXCEPT ![p] = verdict'[p]]
     /\ verdict'[p] \in {"ok", "failed", "canceled"}
     /\ renewing' = renewing \ {p} /\ UNCHANGED <<request, at, value>>

\* The finally block of a worker stage does that.
LEMMA YieldLeaves ==
  ASSUME IInv, NEW p \in Pipelines, pc[p] \in InStage,
         NEW v \in {"ok", "failed", "canceled"}, Yield(p, v)
  PROVE  Leaves(p)
<1>1. CASE Stage(p) \in Gpu
  BY <1>1 DEF Yield, Runs, Goto, Verdict, Leaves, IInv, TypeOK
<1>2. CASE Stage(p) \notin Gpu
  BY <1>2, ContinueOnward DEF Yield, Leaves
<1>3. QED
  BY <1>1, <1>2

\* Where the source takes a pipeline.
LEMMA SourceOnward ==
  ASSUME IInv, NEW p \in Pipelines, pc[p] \in Early, Source(p)
  PROVE  \/ Onward(p, 1)
         \/ Runs(p, "source") /\ request[p].input = "grant" /\ UNCHANGED dataVars
<1>1. /\ pc[p] # "none" /\ verdict[p] # "misfit" /\ Len(Active(request[p])) \in Nat
      /\ at[p] \in 0..Len(Active(request[p]))
  BY StageFacts, PipelineAssumption DEF IInv, Shaped, Shape, Early, Leaving
<1>2. 1 \in 1..(Len(Active(request[p])) + 1)
  BY <1>1
<1>3. CASE Misfit(p) /\ UNCHANGED <<request, at, value>> /\ request[p].input = "stream"
  <2>1. Lands(p, Active(request[p])[at'[p]]) /\ pc'[p] \in {"ending", "done"}
    BY <1>3, MisfitLands DEF LiveOnly
  <2>2. pc'[p] \notin InStage
    BY <2>1 DEF InStage, Asking, Waiting, Working
  <2>3. QED
    BY <1>1, <1>3, <2>1, <2>2 DEF Onward, IInv, TypeOK
<1>4. CASE Proceed(p, 1, InputGives(request[p]))
  BY <1>1, <1>2, <1>4, ProceedOnward DEF Entering
<1>5. CASE End(p, "failed") /\ UNCHANGED <<request, at, value>>
  BY <1>1, <1>5, EndOnward
<1>6. QED
  BY <1>3, <1>4, <1>5 DEF Source

-----------------------------------------------------------------------------

\* The task's part of a row is written for p alone, keeps its types and its shape.
TaskPart(p) ==
  /\ request' = [request EXCEPT ![p] = request'[p]] /\ request'[p] \in Requests \cup {None}
  /\ db' = [db EXCEPT ![p] = db'[p]] /\ db'[p] \in {"absent", "queued", "running"} \cup Final
  /\ pc' = [pc EXCEPT ![p] = pc'[p]] /\ pc'[p] \in Live \cup {"none", "gone", "done"}
  /\ at' = [at EXCEPT ![p] = at'[p]] /\ at'[p] \in 0..MaxStages
  /\ value' = [value EXCEPT ![p] = value'[p]] /\ value'[p] \in {"none", "text", "audio"}
  /\ verdict' = [verdict EXCEPT ![p] = verdict'[p]] /\ verdict'[p] \in Verdicts
  /\ lock' \in Pipelines \cup {None} /\ \A q \in Pipelines \ {p} : lock' = q <=> lock = q
  /\ lock' = p <=> pc'[p] \in Working
  /\ pc'[p] # "none" => request'[p] \in Offers[p] /\ at'[p] \in 0..Len(Active(request'[p]))
  /\ Shape(p)'

\* So is the rest of it.
RestPart(p) ==
  /\ posted' \subseteq Pipelines /\ watching' \subseteq Pipelines
  /\ calling' = [calling EXCEPT ![p] = calling'[p]] /\ calling'[p] \in 0..MaxStages
  /\ cancels' = [cancels EXCEPT ![p] = cancels'[p]] /\ cancels'[p] \in 0..MaxCancels
  /\ handle' = [handle EXCEPT ![p] = handle'[p]] /\ handle'[p] \in {"none", "request", "lease"}
  /\ broker' = [broker EXCEPT ![p] = broker'[p]]
  /\ broker'[p] \in [1..MaxStages -> {"none", "closed"} \cup Open]
  /\ ai' = [ai EXCEPT ![p] = ai'[p]] /\ ai'[p] \in {"none", "asked", "loaded"}
  /\ renewing' \subseteq Pipelines
  /\ \A q \in Pipelines \ {p} : q \in renewing' <=> q \in renewing

\* A step that writes one row, and writes it well, keeps the invariant.
LEMMA PartsKeep ==
  ASSUME IInv, NEW p \in Pipelines, TaskPart(p), RestPart(p)
  PROVE  IInv'
<1>0. \A q \in Pipelines \ {p} :
        /\ request'[q] = request[q] /\ db'[q] = db[q] /\ pc'[q] = pc[q] /\ at'[q] = at[q]
        /\ verdict'[q] = verdict[q]
  BY DEF IInv, TypeOK, TaskPart
<1>1. TypeOK'
  <2>1. ASSUME NEW q \in Pipelines
        PROVE  pc'[q] # "none" =>
                 request'[q] \in Offers[q] /\ at'[q] \in 0..Len(Active(request'[q]))
    BY <1>0 DEF IInv, TypeOK, TaskPart
  <2>2. /\ db' \in [Pipelines -> {"absent", "queued", "running"} \cup Final]
        /\ pc' \in [Pipelines -> Live \cup {"none", "gone", "done"}]
        /\ at' \in [Pipelines -> 0..MaxStages]
        /\ value' \in [Pipelines -> {"none", "text", "audio"}]
        /\ verdict' \in [Pipelines -> Verdicts]
        /\ lock' \in Pipelines \cup {None}
    BY DEF IInv, TypeOK, TaskPart
  <2>3. /\ posted' \subseteq Pipelines /\ watching' \subseteq Pipelines
        /\ renewing' \subseteq Pipelines
        /\ calling' \in [Pipelines -> 0..MaxStages]
        /\ cancels' \in [Pipelines -> 0..MaxCancels]
        /\ handle' \in [Pipelines -> {"none", "request", "lease"}]
        /\ ai' \in [Pipelines -> {"none", "asked", "loaded"}]
    BY DEF IInv, TypeOK, RestPart
  <2>4. broker' \in [Pipelines -> [1..MaxStages -> {"none", "closed"} \cup Open]]
    BY DEF IInv, TypeOK, RestPart
  <2>5. QED
    BY <2>1, <2>2, <2>3, <2>4 DEF TypeOK
<1>2. LockIsForWork'
  <2>1. ASSUME NEW q \in Pipelines PROVE lock' = q <=> pc'[q] \in Working
    BY <1>0 DEF IInv, LockIsForWork, TaskPart
  <2>2. QED
    BY <2>1 DEF LockIsForWork
<1>3. ASSUME NEW q \in Pipelines PROVE Shape(q)'
  <2>1. CASE q = p
    BY <2>1 DEF TaskPart
  <2>2. CASE q # p
    <3>1. Shape(q)
      BY DEF IInv, Shaped
    <3>2. QED
      BY <2>2, <3>1, <1>0 DEF Shape
  <2>3. QED
    BY <2>1, <2>2
<1>4. request' \in [Pipelines -> Requests \cup {None}]
  BY DEF IInv, TaskPart
<1>5. QED
  BY <1>1, <1>2, <1>3, <1>4 DEF IInv, Shaped

\* A step that ran on writes the task's part of its row well.
LEMMA OnwardPart ==
  ASSUME IInv, NEW p \in Pipelines, pc[p] # "none", NEW i, i # 0, Onward(p, i)
  PROVE  TaskPart(p)
<1>1. /\ Accepted(request[p]) /\ request[p] \in Offers[p] /\ request[p] \in Requests
      /\ Len(Active(request[p])) \in 1..MaxStages /\ MaxStages \in Nat
  BY StageFacts, PipelineAssumption DEF IInv, TypeOK, Accepted
<1>2. Lands(p, Active(request[p])[at'[p]])
  BY DEF Onward
<1>3. request' = request /\ request' = [request EXCEPT ![p] = request'[p]]
  BY DEF Onward, IInv
<1>4. /\ at'[p] \in 0..MaxStages /\ at'[p] \in 0..Len(Active(request'[p]))
      /\ pc'[p] \in InStage => at'[p] # 0
  BY <1>1, <1>3 DEF Onward
<1>5. /\ pc'[p] \in Live \cup {"done"} /\ pc'[p] \notin {"none"} \cup Early
      /\ pc'[p] # "source" /\ (pc'[p] \in Working <=> pc'[p] = "executing")
      /\ (pc'[p] \in {"ending", "done"} => pc'[p] \in Leaving)
  BY <1>2 DEF Lands, Live, Early, Working, Leaving, Waiting, Asking
<1>6. Shape(p)'
  <2>1. db'[p] # "absent"
    BY <1>2 DEF Lands, Final
  <2>2. verdict'[p] = "misfit" => pc'[p] \in Leaving /\ LiveOnly(request'[p])
    BY <1>2, <1>3, <1>5 DEF Lands
  <2>3. QED
    BY <2>1, <2>2, <1>1, <1>3, <1>4, <1>5 DEF Shape
<1>7. QED
  BY <1>1, <1>2, <1>3, <1>4, <1>5, <1>6 DEF TaskPart, Onward, Lands

\* A step that stays where it is in the pipeline.
LEMMA MovePart ==
  ASSUME IInv, NEW p \in Pipelines, pc[p] # "none",
         NEW l \in Live \cup {"done", "gone"}, Goto(p, l), l \notin Working \cup {"new", "first"},
         l \in InStage => pc[p] \in InStage,
         l = "source" => pc[p] \in Early /\ request[p].input = "grant",
         db' = [db EXCEPT ![p] = db'[p]], db'[p] \in {db[p], "running"},
         verdict' = [verdict EXCEPT ![p] = verdict'[p]],
         verdict'[p] = verdict[p] \/ verdict'[p] \in {"ok", "failed", "canceled"},
         verdict[p] = "misfit" => l \in Leaving,
         UNCHANGED <<request, at, value>>
  PROVE  TaskPart(p)
<1>1. pc' = [pc EXCEPT ![p] = l] /\ lock' = IF lock = p THEN None ELSE lock
  BY DEF Goto
<1>2. pc'[p] = l /\ pc' = [pc EXCEPT ![p] = pc'[p]]
  BY <1>1 DEF IInv, TypeOK
<1>3. Shape(p) /\ TypeOK /\ request \in [Pipelines -> Requests \cup {None}]
  BY DEF IInv, Shaped
<1>4. l # "none"
  BY DEF Live, Waiting, Asking, Working
<1>5. Shape(p)'
  BY <1>2, <1>3, <1>4 DEF Shape, Early
<1>6. lock' \in Pipelines \cup {None} /\ lock' # p /\ \A q \in Pipelines \ {p} : lock' = q <=> lock = q
  BY <1>1, <1>3, PipelineAssumption DEF TypeOK
<1>7. /\ db'[p] \in {"absent", "queued", "running"} \cup Final
      /\ verdict'[p] \in Verdicts
  BY <1>3 DEF TypeOK, Verdicts
<1>8. QED
  BY <1>2, <1>3, <1>4, <1>5, <1>6, <1>7 DEF TaskPart, TypeOK

\* An update keeps the type of a function, inside its domain or not.
LEMMA UpdateTyped ==
  ASSUME NEW S, NEW T, NEW f \in [S -> T], NEW i, NEW s \in T
  PROVE  [f EXCEPT ![i] = s] \in [S -> T]
OBVIOUS

\* What the Broker is made to record of one stage, i.
LEMMA Recorded ==
  ASSUME IInv, NEW p \in Pipelines, NEW i, NEW s \in {"none", "closed"} \cup Open,
         broker' = [broker EXCEPT ![p][i] = s]
  PROVE  /\ broker' = [broker EXCEPT ![p] = broker'[p]]
         /\ broker'[p] \in [1..MaxStages -> {"none", "closed"} \cup Open]
         /\ broker'[p] = [broker[p] EXCEPT ![i] = s]
<1>1. broker \in [Pipelines -> [1..MaxStages -> {"none", "closed"} \cup Open]]
  BY DEF IInv, TypeOK
<1>2. broker'[p] = [broker[p] EXCEPT ![i] = s] /\ broker' = [broker EXCEPT ![p] = broker'[p]]
  BY <1>1
<1>3. broker[p] \in [1..MaxStages -> {"none", "closed"} \cup Open]
  BY <1>1
<1>4. [broker[p] EXCEPT ![i] = s] \in [1..MaxStages -> {"none", "closed"} \cup Open]
  BY <1>3, UpdateTyped
<1>5. QED
  BY <1>2, <1>4

\* The Broker's records after a step of a task.
Told(p) ==
  \/ UNCHANGED broker
  \/ Became(p, "active") \/ Became(p, "closed")

\* A release or withdrawal is one of them.
LEMMA FreedTold == ASSUME NEW p, Freed(p) PROVE Told(p)
BY DEF Freed, Told

\* A task's step writes the rest of its row well: no counter, nobody else's helpers.
LEMMA RestSame ==
  ASSUME IInv, NEW p \in Pipelines, Told(p), UNCHANGED <<calling, cancels>>,
         posted' \in {posted, posted \ {p}},
         watching' \in {watching, watching \cup {p}, watching \ {p}},
         renewing' \in {renewing, renewing \cup {p}, renewing \ {p}},
         handle' = [handle EXCEPT ![p] = handle'[p]], handle'[p] \in {"none", "request", "lease"},
         ai' = [ai EXCEPT ![p] = ai'[p]], ai'[p] \in {"none", "asked", "loaded"}
  PROVE  RestPart(p)
<1>1. /\ broker' = [broker EXCEPT ![p] = broker'[p]]
      /\ broker'[p] \in [1..MaxStages -> {"none", "closed"} \cup Open]
  <2>1. CASE UNCHANGED broker
    BY <2>1 DEF IInv, TypeOK
  <2>2. CASE Became(p, "active")
    BY <2>2, Recorded DEF Became, Open
  <2>3. CASE Became(p, "closed")
    BY <2>3, Recorded DEF Became
  <2>4. QED
    BY <2>1, <2>2, <2>3 DEF Told
<1>2. calling' = [calling EXCEPT ![p] = calling'[p]] /\ calling'[p] \in 0..MaxStages
  BY DEF IInv, TypeOK
<1>3. cancels' = [cancels EXCEPT ![p] = cancels'[p]] /\ cancels'[p] \in 0..MaxCancels
  BY DEF IInv, TypeOK
<1>4. posted' \subseteq Pipelines /\ watching' \subseteq Pipelines /\ renewing' \subseteq Pipelines
  BY DEF IInv, TypeOK
<1>5. \A q \in Pipelines \ {p} : q \in renewing' <=> q \in renewing
  OBVIOUS
<1>6. QED
  BY <1>1, <1>2, <1>3, <1>4, <1>5 DEF RestPart

\* A step that leaves one of these alone.
LEMMA SameRow ==
  ASSUME IInv, NEW p \in Pipelines
  PROVE  /\ UNCHANGED handle => handle' = [handle EXCEPT ![p] = handle'[p]]
                                /\ handle'[p] \in {"none", "request", "lease"}
         /\ UNCHANGED ai => ai' = [ai EXCEPT ![p] = ai'[p]] /\ ai'[p] \in {"none", "asked", "loaded"}
         /\ UNCHANGED db => db' = [db EXCEPT ![p] = db'[p]]
         /\ UNCHANGED verdict => verdict' = [verdict EXCEPT ![p] = verdict'[p]]
BY DEF IInv, TypeOK

\* On to another suspension of the same stage.
LEMMA RunsPart ==
  ASSUME IInv, NEW p \in Pipelines, pc[p] \in InStage,
         NEW l \in InStage \ ({"locking"} \cup Working), Runs(p, l),
         UNCHANGED verdict \/ \E w \in {"ok", "failed", "canceled"} : Verdict(p, w),
         UNCHANGED <<request, at, value>>
  PROVE  TaskPart(p)
<1>1. pc[p] # "none" /\ verdict[p] # "misfit"
  BY DEF IInv, Shaped, Shape, InStage, Waiting, Asking, Working, Leaving
<1>2. /\ l \in Live \cup {"done", "gone"} /\ l \notin Working \cup {"new", "first"}
      /\ l # "source"
  BY DEF InStage, Live, Waiting, Asking, Working
<1>3. Goto(p, l) /\ db' = [db EXCEPT ![p] = db'[p]] /\ db'[p] = "running"
  BY DEF Runs, IInv, TypeOK
<1>4. /\ verdict' = [verdict EXCEPT ![p] = verdict'[p]]
      /\ verdict'[p] = verdict[p] \/ verdict'[p] \in {"ok", "failed", "canceled"}
  BY DEF Verdict, IInv, TypeOK
<1>5. QED
  BY <1>1, <1>2, <1>3, <1>4, MovePart

\* Or to the end.
LEMMA EndPart ==
  ASSUME IInv, NEW p \in Pipelines, pc[p] # "none", NEW s \in {"failed", "canceled"},
         End(p, s), UNCHANGED <<request, at, value>>
  PROVE  TaskPart(p)
BY EndOnward, OnwardPart

\* The row's update of the Host's model.
LEMMA ModelRow ==
  ASSUME IInv, NEW p \in Pipelines, NEW m \in {"none", "asked", "loaded"},
         ai' = [ai EXCEPT ![p] = m]
  PROVE  ai' = [ai EXCEPT ![p] = ai'[p]] /\ ai'[p] \in {"none", "asked", "loaded"}
BY DEF IInv, TypeOK

\* The row's update of what is known of the Broker.
LEMMA HandleRow ==
  ASSUME IInv, NEW p \in Pipelines, NEW h \in {"none", "request", "lease"},
         handle' = [handle EXCEPT ![p] = h]
  PROVE  handle' = [handle EXCEPT ![p] = handle'[p]] /\ handle'[p] \in {"none", "request", "lease"}
BY DEF IInv, TypeOK

\* A stage that is admitted goes on in the stage it is in.
LEMMA AdmitOnward ==
  ASSUME IInv, NEW p \in Pipelines, pc[p] \in InStage, Admit(p, Stage(p)),
         UNCHANGED <<request, at, value>>
  PROVE  Onward(p, at[p])
<1>1. pc[p] # "none" /\ verdict[p] # "misfit"
  BY DEF IInv, Shaped, Shape, InStage, Waiting, Asking, Working, Leaving
<1>2. /\ Lands(p, Active(request[p])[at'[p]])
      /\ pc'[p] \in {"ending", "done", "requesting", "locking", "executing"}
  BY <1>1, AdmitLands DEF Stage
<1>3. at[p] \in 0..Len(Active(request[p]))
  BY <1>1, StageFacts
<1>4. pc'[p] \notin InStage => pc'[p] \in {"ending", "done"}
  BY <1>2 DEF InStage, Waiting, Working
<1>5. QED
  BY <1>2, <1>3, <1>4 DEF Onward, IInv, TypeOK

\* So its row is written well.
LEMMA AdmitPart ==
  ASSUME IInv, NEW p \in Pipelines, pc[p] \in InStage, Admit(p, Stage(p)),
         UNCHANGED <<request, at, value>>
  PROVE  TaskPart(p)
<1>1. pc[p] # "none" /\ at[p] # 0
  BY DEF IInv, Shaped, Shape, InStage, Waiting, Asking, Working
<1>2. QED
  BY <1>1, AdmitOnward, OnwardPart

\* To the worker, with the lock.
LEMMA WorkPart ==
  ASSUME IInv, NEW p \in Pipelines, pc[p] \in InStage,
         NEW l \in Working, pc' = [pc EXCEPT ![p] = l], lock' = p, lock \in {None, p},
         db' = [db EXCEPT ![p] = db'[p]], db'[p] \in {db[p], "running"},
         UNCHANGED verdict \/ \E w \in {"ok", "failed", "canceled"} : Verdict(p, w),
         UNCHANGED <<request, at, value>>
  PROVE  TaskPart(p)
<1>1. Shape(p) /\ TypeOK /\ request \in [Pipelines -> Requests \cup {None}]
  BY DEF IInv, Shaped
<1>2. /\ pc'[p] = l /\ pc' = [pc EXCEPT ![p] = pc'[p]] /\ l \in InStage /\ l \in Live
      /\ l \notin {"none", "source"} \cup Early /\ pc[p] # "none"
      /\ pc[p] \notin Leaving
  BY <1>1 DEF TypeOK, InStage, Live, Working, Early, Leaving, Waiting, Asking
<1>3. /\ verdict' = [verdict EXCEPT ![p] = verdict'[p]]
      /\ verdict'[p] = verdict[p] \/ verdict'[p] \in {"ok", "failed", "canceled"}
  BY <1>1 DEF Verdict, TypeOK
<1>4. Shape(p)'
  BY <1>1, <1>2, <1>3 DEF Shape
<1>5. lock' \in Pipelines \cup {None} /\ \A q \in Pipelines \ {p} : lock' = q <=> lock = q
  BY PipelineAssumption
<1>6. db'[p] \in {"absent", "queued", "running"} \cup Final /\ verdict'[p] \in Verdicts
  BY <1>1, <1>3 DEF TypeOK, Verdicts
<1>7. QED
  BY <1>1, <1>2, <1>3, <1>4, <1>5, <1>6 DEF TaskPart, TypeOK

\* To the worker if the lock is free, or into its queue.
LEMMA EnterLockPart ==
  ASSUME IInv, NEW p \in Pipelines, pc[p] \in InStage, EnterLock(p), UNCHANGED verdict,
         UNCHANGED <<request, at, value>>
  PROVE  TaskPart(p)
<1>1. CASE Runs(p, "locking")
  <2>1. pc[p] # "none" /\ verdict[p] # "misfit"
    BY DEF IInv, Shaped, Shape, InStage, Waiting, Asking, Working, Leaving
  <2>2. Goto(p, "locking") /\ db' = [db EXCEPT ![p] = db'[p]] /\ db'[p] = "running"
    BY <1>1 DEF Runs, IInv, TypeOK
  <2>3. verdict' = [verdict EXCEPT ![p] = verdict'[p]]
    BY SameRow
  <2>4. QED
    BY <2>1, <2>2, <2>3, MovePart DEF Live, Working
<1>2. CASE ~Runs(p, "locking")
  <2>1. /\ pc' = [pc EXCEPT ![p] = "executing"] /\ lock' = p /\ lock \in {None, p}
        /\ db' = [db EXCEPT ![p] = "running"]
    BY <1>2 DEF EnterLock
  <2>2. db' = [db EXCEPT ![p] = db'[p]] /\ db'[p] = "running"
    BY <2>1 DEF IInv, TypeOK
  <2>3. QED
    BY <2>1, <2>2, WorkPart DEF Working
<1>3. QED
  BY <1>1, <1>2

\* Out of a worker stage.
LEMMA LeavesPart ==
  ASSUME IInv, NEW p \in Pipelines, pc[p] \in InStage, Leaves(p)
  PROVE  TaskPart(p) /\ renewing' \in {renewing, renewing \ {p}}
<1>1. /\ pc[p] # "none" /\ verdict[p] # "misfit" /\ at[p] \in 1..Len(Active(request[p]))
      /\ Len(Active(request[p])) \in Nat
  BY StageFacts, PipelineAssumption
     DEF IInv, Shaped, Shape, InStage, Waiting, Asking, Working, Leaving
<1>2. CASE Stage(p) \notin Gpu
  <2>1. at[p] + 1 # 0
    BY <1>1
  <2>2. QED
    BY <1>1, <1>2, <2>1, OnwardPart DEF Leaves
<1>3. CASE Stage(p) \in Gpu
  <2>1. /\ Goto(p, "yielding") /\ db' = [db EXCEPT ![p] = "running"]
        /\ verdict' = [verdict EXCEPT ![p] = verdict'[p]]
        /\ verdict'[p] \in {"ok", "failed", "canceled"}
        /\ renewing' = renewing \ {p} /\ UNCHANGED <<request, at, value>>
    BY <1>3 DEF Leaves, Goto
  <2>2. db' = [db EXCEPT ![p] = db'[p]] /\ db'[p] = "running"
    BY <2>1 DEF IInv, TypeOK
  <2>3. QED
    BY <1>1, <2>1, <2>2, MovePart DEF Live, Working, InStage
<1>4. QED
  BY <1>2, <1>3

\* Every step of a task writes its own row, and writes it well.
LEMMA TaskParts ==
  ASSUME IInv, NEW p \in Pipelines, TaskStep(p)
  PROVE  TaskPart(p) /\ RestPart(p)
<1> USE DEF At, Struck
<1>0. Shape(p) /\ TypeOK
  BY DEF IInv, Shaped
<1>1. CASE Start(p)
  <2>1. RestPart(p)
    BY <1>1, RestSame, SameRow DEF Start, Told, cancelVars, leaseVars
  <2>2. pc[p] = "new" /\ pc[p] \in Early /\ pc[p] # "none" /\ pc[p] \notin Leaving
    BY <1>1 DEF Start, Early, Leaving
  <2>3. CASE Hosted(p)
    <3>1. /\ Runs(p, "first") /\ UNCHANGED dataVars
      BY <1>1, <2>3 DEF Start
    <3>2. TaskPart(p)
      BY <3>1, <1>0, <2>2, PipelineAssumption
         DEF Runs, Goto, TaskPart, Shape, TypeOK, dataVars, IInv,
         Live, Waiting, Asking, Working, InStage, Early, Leaving
    <3>3. QED
      BY <2>1, <3>2
  <2>4. CASE ~Hosted(p)
    <3>1. Source(p)
      BY <1>1, <2>4 DEF Start
    <3>2. CASE Onward(p, 1)
      BY <3>2, <2>1, <2>2, OnwardPart
    <3>3. CASE Runs(p, "source") /\ request[p].input = "grant" /\ UNCHANGED dataVars
      BY <3>3, <2>1, <2>2, <1>0, MovePart
         DEF Runs, dataVars, Shape, Live, Working, InStage, Waiting, Asking, Early, TypeOK
    <3>4. QED
      BY <2>2, <3>1, <3>2, <3>3, SourceOnward
  <2>5. QED
    BY <2>3, <2>4
<1>2. CASE FirstFails(p)
  <2>1. RestPart(p)
    BY <1>2, RestSame, SameRow DEF FirstFails, Told, cancelVars, leaseVars
  <2>2. TaskPart(p)
    BY <1>2, <1>0, SameRow, MovePart
       DEF FirstFails, dataVars, InStage, Waiting, Asking, Working, Leaving
  <2>3. QED
    BY <2>1, <2>2
<1>3. CASE FirstReported(p)
  <2>1. RestPart(p)
    BY <1>3, RestSame, SameRow DEF FirstReported, Told, leaseVars
  <2>2. pc[p] \in Early /\ pc[p] # "none" /\ pc[p] \notin Leaving /\ Source(p)
    BY <1>3 DEF FirstReported, Early, Leaving
  <2>3. CASE Onward(p, 1)
    BY <2>3, <2>1, <2>2, OnwardPart
  <2>4. CASE Runs(p, "source") /\ request[p].input = "grant" /\ UNCHANGED dataVars
    BY <2>4, <2>1, <2>2, <1>0, MovePart
       DEF Runs, dataVars, Shape, Live, Working, InStage, Waiting, Asking, TypeOK
  <2>5. QED
    BY <2>2, <2>3, <2>4, SourceOnward
<1>4. CASE Sourced(p)
  <2>1. RestPart(p)
    BY <1>4, RestSame, SameRow DEF Sourced, Told, cancelVars, leaseVars
  <2>2. /\ pc[p] # "none" /\ pc[p] \notin Leaving /\ verdict[p] # "misfit"
        /\ Proceed(p, 1, "audio") /\ request[p].input = "grant"
    BY <1>4, <1>0 DEF Sourced, Leaving, Shape
  <2>3. 1 \in 1..(Len(Active(request[p])) + 1) /\ "audio" = Entering(request[p], 1)
    BY <2>2, StageFacts, PipelineAssumption DEF Entering, InputGives
  <2>4. Onward(p, 1)
    BY <2>2, <2>3, ProceedOnward
  <2>5. QED
    BY <2>1, <2>2, <2>4, OnwardPart
<1>5. CASE Consulted(p)
  <2>1. RestPart(p)
    BY <1>5, RestSame, SameRow, ModelRow DEF Consulted, Told, cancelVars, leaseVars
  <2>2. TaskPart(p)
    BY <1>5, RunsPart DEF Consulted, dataVars, InStage, Waiting, Asking, Working
  <2>3. QED
    BY <2>1, <2>2
<1>6. CASE ConsultFails(p)
  <2>1. RestPart(p)
    BY <1>6, RestSame, SameRow DEF ConsultFails, Told, cancelVars, leaseVars
  <2>2. pc[p] \in InStage /\ pc[p] # "none" /\ "excusing" \in InStage \ ({"locking"} \cup Working)
    BY <1>6 DEF ConsultFails, InStage, Waiting, Asking, Working
  <2>3. TaskPart(p)
    BY <1>6, <2>2, RunsPart, EndPart DEF ConsultFails
  <2>4. QED
    BY <2>1, <2>2, <2>3
<1>7. CASE AiAnswered(p)
  <2>1. RestPart(p)
    BY <1>7, RestSame, SameRow DEF AiAnswered, Told, cancelVars, leaseVars
  <2>2. /\ pc[p] \in InStage
        /\ {"freeing", "recanting"} \subseteq InStage \ ({"locking"} \cup Working)
    BY <1>7 DEF AiAnswered, InStage, Waiting, Asking, Working
  <2>3. TaskPart(p)
    BY <1>7, <2>2, RunsPart DEF AiAnswered
  <2>4. QED
    BY <2>1, <2>2, <2>3
<1>8. CASE AiFails(p)
  <2>1. RestPart(p)
    BY <1>8, RestSame, SameRow DEF AiFails, Told, cancelVars, leaseVars
  <2>2. /\ pc[p] \in InStage
        /\ {"freeing", "recanting"} \subseteq InStage \ ({"locking"} \cup Working)
    BY <1>8 DEF AiFails, InStage, Waiting, Asking, Working
  <2>3. TaskPart(p)
    BY <1>8, <2>2, RunsPart DEF AiFails
  <2>4. QED
    BY <2>1, <2>2, <2>3
<1>9. CASE Recanted(p)
  <2>1. RestPart(p)
    BY <1>9, RestSame, SameRow DEF Recanted, Told, cancelVars, leaseVars
  <2>2. pc[p] \in InStage /\ "freeing" \in InStage \ ({"locking"} \cup Working)
    BY <1>9 DEF Recanted, InStage, Waiting, Asking, Working
  <2>3. TaskPart(p)
    BY <1>9, <2>2, RunsPart DEF Recanted
  <2>4. QED
    BY <2>1, <2>2, <2>3
<1>10. CASE Excused(p)
  <2>1. RestPart(p)
    BY <1>10, RestSame, SameRow DEF Excused, Told, cancelVars, leaseVars
  <2>2. pc[p] \in InStage /\ pc[p] # "none"
    BY <1>10 DEF Excused, InStage, Waiting, Asking, Working
  <2>3. TaskPart(p)
    BY <1>10, <2>2, AdmitPart, EndPart DEF Excused
  <2>4. QED
    BY <2>1, <2>2, <2>3
<1>11. CASE AiFreed(p)
  <2>1. RestPart(p)
    BY <1>11, RestSame, SameRow, ModelRow DEF AiFreed, Told, cancelVars, leaseVars
  <2>2. pc[p] \in InStage /\ pc[p] # "none" /\ verdict[p] # "misfit" /\ verdict[p] \in Verdicts
    BY <1>11, <1>0 DEF AiFreed, Shape, TypeOK, InStage, Waiting, Asking, Working, Leaving
  <2>3. CASE Stage(p) = "sfx" /\ Admit(p, "sfx") /\ UNCHANGED <<request, at, value>>
    BY <2>1, <2>2, <2>3, AdmitPart
  <2>4. CASE Continue(p, verdict[p])
    <3>1. Onward(p, at[p] + 1)
      BY <2>2, <2>4, ContinueOnward DEF Verdicts
    <3>2. at[p] + 1 # 0
      BY <2>2, StageFacts, PipelineAssumption
    <3>3. QED
      BY <2>1, <2>2, <3>1, <3>2, OnwardPart
  <2>5. CASE End(p, "failed") /\ UNCHANGED <<request, at, value>>
    BY <2>1, <2>2, <2>5, EndPart
  <2>6. QED
    BY <1>11, <2>3, <2>4, <2>5 DEF AiFreed
<1>12. CASE LeaseAnswered(p)
  <2>1. RestPart(p)
    BY <1>12, RestSame, SameRow, HandleRow DEF LeaseAnswered, Told, cancelVars, leaseVars
  <2>2. /\ pc[p] \in InStage /\ pc[p] # "none"
        /\ {"activating", "waiting"} \subseteq InStage \ ({"locking"} \cup Working)
    BY <1>12 DEF LeaseAnswered, InStage, Waiting, Asking, Working
  <2>3. TaskPart(p)
    BY <1>12, <2>2, RunsPart, EndPart DEF LeaseAnswered
  <2>4. QED
    BY <2>1, <2>2, <2>3
<1>13. CASE Activated(p)
  <2>1. RestPart(p)
    BY <1>13, RestSame, SameRow DEF Activated, Told, cancelVars, leaseVars
  <2>2. pc[p] \in InStage /\ pc[p] # "none"
    BY <1>13 DEF Activated, InStage, Waiting, Asking, Working
  <2>3. TaskPart(p)
    BY <1>13, <2>2, EnterLockPart, EndPart DEF Activated
  <2>4. QED
    BY <2>1, <2>2, <2>3
<1>14. CASE CallFails(p)
  <2>1. RestPart(p)
    BY <1>14, RestSame, SameRow DEF CallFails, Told, cancelVars, leaseVars
  <2>2. pc[p] # "none"
    BY <1>14 DEF CallFails, Waiting
  <2>3. TaskPart(p)
    BY <1>14, <2>2, EndPart DEF CallFails
  <2>4. QED
    BY <2>1, <2>2, <2>3
<1>15. CASE LockAcquired(p)
  <2>1. RestPart(p)
    BY <1>15, RestSame, SameRow DEF LockAcquired, Told, cancelVars, leaseVars
  <2>2. pc[p] \in InStage
    BY <1>15 DEF LockAcquired, InStage, Waiting, Asking, Working
  <2>3. TaskPart(p)
    BY <1>15, <2>2, WorkPart, SameRow DEF LockAcquired, Working, dataVars
  <2>4. QED
    BY <2>1, <2>2, <2>3
<1>16. CASE WorkerDone(p)
  <2>1. pc[p] \in InStage
    BY <1>16 DEF WorkerDone, InStage, Waiting, Asking, Working
  <2>2. Leaves(p)
    BY <1>16, <2>1, <1>0, YieldLeaves DEF WorkerDone
  <2>3. TaskPart(p) /\ renewing' \in {renewing, renewing \ {p}}
    BY <2>1, <2>2, LeavesPart
  <2>4. RestPart(p)
    BY <1>16, <2>3, RestSame, SameRow DEF WorkerDone, Told, cancelVars
  <2>5. QED
    BY <2>3, <2>4
<1>17. CASE WorkerStopped(p)
  <2>1. pc[p] \in InStage
    BY <1>17 DEF WorkerStopped, InStage, Waiting, Asking, Working
  <2>2. Leaves(p)
    BY <1>17, <2>1, <1>0, YieldLeaves DEF WorkerStopped, Shape, TypeOK, Verdicts, Leaving
  <2>3. TaskPart(p) /\ renewing' \in {renewing, renewing \ {p}}
    BY <2>1, <2>2, LeavesPart
  <2>4. RestPart(p)
    BY <1>17, <2>3, RestSame, SameRow DEF WorkerStopped, Told, cancelVars
  <2>5. QED
    BY <2>3, <2>4
<1>18. CASE StruckStage(p)
  <2>1. pc[p] \in InStage
    BY <1>18 DEF StruckStage, InStage, Waiting, Asking, Working
  <2>2. Leaves(p)
    BY <1>18, <2>1, <1>0, YieldLeaves DEF StruckStage
  <2>3. TaskPart(p) /\ renewing' \in {renewing, renewing \ {p}}
    BY <2>1, <2>2, LeavesPart
  <2>4. RestPart(p)
    BY <1>18, <2>3, RestSame, SameRow DEF StruckStage, Told, cancelVars
  <2>5. QED
    BY <2>3, <2>4
<1>19. CASE WorkerFails(p)
  <2>1. RestPart(p)
    BY <1>19, RestSame, SameRow DEF WorkerFails, Told, cancelVars, leaseVars
  <2>2. pc[p] \in InStage /\ lock = p /\ UNCHANGED lock
    BY <1>19 DEF WorkerFails, InStage, Waiting, Asking, Working, IInv, LockIsForWork
  <2>3. TaskPart(p)
    BY <1>19, <2>2, WorkPart, SameRow DEF WorkerFails, Working
  <2>4. QED
    BY <2>1, <2>2, <2>3
<1>20. CASE StruckExecuting(p)
  <2>1. RestPart(p)
    BY <1>20, RestSame, SameRow DEF StruckExecuting, Told, cancelVars, leaseVars
  <2>2. pc[p] \in InStage /\ lock = p /\ UNCHANGED lock
    BY <1>20 DEF StruckExecuting, InStage, Waiting, Asking, Working, IInv, LockIsForWork
  <2>3. TaskPart(p)
    BY <1>20, <2>2, WorkPart, SameRow DEF StruckExecuting, Working
  <2>4. QED
    BY <2>1, <2>2, <2>3
<1>21. CASE Yielded(p)
  <2>1. RestPart(p)
    BY <1>21, FreedTold, RestSame, SameRow, HandleRow DEF Yielded, Told, cancelVars
  <2>2. pc[p] \in InStage /\ pc[p] # "none" /\ verdict[p] \in {"ok", "failed", "canceled"}
    BY <1>21, <1>0 DEF Yielded, Shape, TypeOK, Verdicts, InStage, Leaving
  <2>3. Onward(p, at[p] + 1)
    BY <1>21, <2>2, ContinueOnward DEF Yielded
  <2>4. at[p] + 1 # 0
    BY <2>2, StageFacts, PipelineAssumption
  <2>5. QED
    BY <2>1, <2>2, <2>3, <2>4, OnwardPart
<1>22. CASE Committed(p)
  <2>1. RestPart(p)
    BY <1>22, RestSame, SameRow DEF Committed, Told, cancelVars, leaseVars
  <2>2. pc[p] # "none" /\ Succeed(p) /\ UNCHANGED <<request, at, value>>
    BY <1>22 DEF Committed
  <2>3. /\ Lands(p, Active(request[p])[at'[p]]) /\ pc'[p] \in {"succeeding", "done"}
    BY <2>2, SucceedLands
  <2>4. pc'[p] \notin InStage
    BY <2>3 DEF InStage, Waiting, Asking, Working
  <2>5. Onward(p, 1)
    BY <2>2, <2>3, <2>4, StageFacts DEF Onward, IInv, TypeOK
  <2>6. QED
    BY <2>1, <2>2, <2>5, OnwardPart
<1>23. CASE Reported(p)
  <2>1. RestPart(p)
    BY <1>23, RestSame, SameRow DEF Reported, Told, leaseVars
  <2>2. TaskPart(p)
    BY <1>23, SameRow, MovePart
       DEF Reported, dataVars, InStage, Waiting, Asking, Working, Leaving, Live
  <2>3. QED
    BY <2>1, <2>2
<1>24. CASE Unwound(p)
  <2>1. RestPart(p)
    BY <1>24, RestSame, SameRow DEF Unwound, Told, cancelVars, leaseVars
  <2>2. TaskPart(p)
    BY <1>24, SameRow, MovePart
       DEF Unwound, dataVars, InStage, Waiting, Asking, Working, Leaving, Live
  <2>3. QED
    BY <2>1, <2>2
<1>25. CASE Released(p)
  <2>1. RestPart(p)
    BY <1>25, RestSame, SameRow, HandleRow, FreedTold DEF Released, Told, cancelVars
  <2>2. TaskPart(p)
    BY <1>25, SameRow, MovePart
       DEF Released, dataVars, InStage, Waiting, Asking, Working, Leaving, Live
  <2>3. QED
    BY <2>1, <2>2
<1>26. CASE StruckOutside(p)
  <2>1. RestPart(p)
    BY <1>26, RestSame, SameRow, FreedTold DEF StruckOutside, Told, TypeOK
  <2>2. TaskPart(p)
    BY <1>26, SameRow, MovePart
       DEF StruckOutside, dataVars, InStage, Waiting, Asking, Working, Leaving, Live
  <2>3. QED
    BY <2>1, <2>2
<1>27. CASE StruckEnding(p)
  <2>1. RestPart(p)
    BY <1>27, RestSame, SameRow DEF StruckEnding, Told, leaseVars
  <2>2. TaskPart(p)
    BY <1>27, SameRow, MovePart
       DEF StruckEnding, dataVars, InStage, Waiting, Asking, Working, Leaving, Live
  <2>3. QED
    BY <2>1, <2>2
<1>28. CASE StruckPlain(p)
  <2>1. RestPart(p)
    BY <1>28, RestSame, SameRow, ModelRow, FreedTold DEF StruckPlain, Told, TypeOK
  <2>2. pc[p] # "none"
    BY <1>28 DEF StruckPlain, Waiting
  <2>3. TaskPart(p)
    BY <1>28, <2>2, EndPart DEF StruckPlain
  <2>4. QED
    BY <2>1, <2>2, <2>3
<1>29. CASE StruckAsking(p)
  <2>1. RestPart(p)
    BY <1>29, RestSame, SameRow DEF StruckAsking, Told, leaseVars
  <2>2. pc[p] \in InStage /\ "freeing" \in InStage \ ({"locking"} \cup Working)
    BY <1>29 DEF StruckAsking, InStage, Waiting, Asking, Working
  <2>3. TaskPart(p)
    BY <1>29, <2>2, RunsPart DEF StruckAsking
  <2>4. QED
    BY <2>1, <2>2, <2>3
<1>30. QED
  BY <1>1, <1>2, <1>3, <1>4, <1>5, <1>6, <1>7, <1>8, <1>9, <1>10, <1>11, <1>12, <1>13, <1>14,
     <1>15, <1>16, <1>17, <1>18, <1>19, <1>20, <1>21, <1>22, <1>23, <1>24, <1>25, <1>26, <1>27,
     <1>28, <1>29 DEF TaskStep

-----------------------------------------------------------------------------

\* A step that is not the task's.
LEMMA TaskSame ==
  ASSUME IInv, NEW p \in Pipelines, UNCHANGED <<dataVars, db, pc, lock>>
  PROVE  TaskPart(p)
<1>1. Shape(p) /\ TypeOK /\ request \in [Pipelines -> Requests \cup {None}]
      /\ (lock = p <=> pc[p] \in Working)
  BY DEF IInv, Shaped, LockIsForWork
<1>2. Shape(p)'
  BY <1>1 DEF Shape, dataVars
<1>3. QED
  BY <1>1, <1>2 DEF TaskPart, TypeOK, dataVars

\* The counter of cancellations stays below its bound.
LEMMA CountedRow ==
  ASSUME IInv, NEW p \in Pipelines, Counted(p)
  PROVE  cancels' = [cancels EXCEPT ![p] = cancels'[p]] /\ cancels'[p] \in 0..MaxCancels
<1>1. cancels \in [Pipelines -> 0..MaxCancels] /\ MaxCancels \in Nat
  BY PipelineAssumption DEF IInv, TypeOK
<1>2. cancels[p] \in 0..MaxCancels /\ cancels[p] < MaxCancels
  BY <1>1 DEF Counted
<1>3. cancels[p] + 1 \in 0..MaxCancels
  BY <1>1, <1>2
<1>4. QED
  BY <1>1, <1>3 DEF Counted

\* The records of the Broker when no step of theirs is taken.
LEMMA LeaseRow ==
  ASSUME IInv, NEW p \in Pipelines, UNCHANGED leaseVars
  PROVE  /\ handle' = [handle EXCEPT ![p] = handle'[p]]
         /\ handle'[p] \in {"none", "request", "lease"}
         /\ broker' = [broker EXCEPT ![p] = broker'[p]]
         /\ broker'[p] \in [1..MaxStages -> {"none", "closed"} \cup Open]
         /\ renewing' \subseteq Pipelines /\ renewing' = renewing
BY DEF IInv, TypeOK, leaseVars

\* A step of a cancellation, of the Host or of its Broker.
LEMMA BesideParts ==
  ASSUME IInv, NEW p \in Pipelines,
         \/ Submit(p) \/ CancelQueued(p) \/ CancelWaiting(p) \/ CancelResumes(p)
         \/ CancelRunning(p) \/ WatchCancels(p) \/ HostAdmits(p) \/ HostEvicts(p)
         \/ BrokerReceives(p) \/ BrokerGrants(p) \/ BrokerRejects(p) \/ BrokerExpires(p)
         \/ HeartbeatFails(p)
  PROVE  TaskPart(p) /\ RestPart(p)
<1>0. Shape(p) /\ TypeOK /\ (lock = p <=> pc[p] \in Working)
      /\ request \in [Pipelines -> Requests \cup {None}]
  BY DEF IInv, Shaped, LockIsForWork
<1>1. CASE Submit(p)
  <2>1. RestPart(p)
    BY <1>1, RestSame, SameRow DEF Submit, Told, cancelVars, leaseVars
  <2>2. PICK r \in Offers[p] :
          /\ Compiles(r) /\ (NeedsHost(r) => r.by = "host")
          /\ request' = [request EXCEPT ![p] = r]
    BY <1>1 DEF Submit
  <2>3. r \in Requests /\ request'[p] = r /\ request' = [request EXCEPT ![p] = request'[p]]
    BY <2>2, <1>0, PipelineAssumption
  <2>4. /\ pc[p] = "none" /\ at[p] = 0 /\ verdict[p] # "misfit"
        /\ pc'[p] = "new" /\ db'[p] = "queued"
    BY <1>0, <1>1 DEF Submit, Shape, TypeOK, Leaving
  <2>5. Accepted(request'[p]) /\ Len(Active(r)) \in 1..MaxStages
    BY <2>2, <2>3, ActiveStages DEF Accepted
  <2>6. Shape(p)'
    BY <1>1, <2>4, <2>5 DEF Submit, Shape, InStage, Waiting, Asking, Working
  <2>7. 0 \in 0..Len(Active(r))
    BY <2>5, PipelineAssumption
  <2>8. TaskPart(p)
    BY <1>0, <1>1, <2>2, <2>3, <2>4, <2>6, <2>7
       DEF Submit, TaskPart, TypeOK, Live, Working
  <2>9. QED
    BY <2>1, <2>8
<1>2. CASE CancelQueued(p)
  <2>1. RestPart(p)
    BY <1>0, <1>2, CountedRow, LeaseRow, SameRow DEF TypeOK, CancelQueued, Post, RestPart
  <2>2. db'[p] = "canceled" /\ db' = [db EXCEPT ![p] = db'[p]]
    BY <1>0, <1>2 DEF CancelQueued, TypeOK
  <2>3. Shape(p)'
    BY <1>0, <1>2, <2>2 DEF CancelQueued, Shape, dataVars
  <2>4. TaskPart(p)
    BY <1>0, <1>2, <2>2, <2>3 DEF CancelQueued, TaskPart, TypeOK, dataVars, Final
  <2>5. QED
    BY <2>1, <2>4
<1>3. CASE CancelWaiting(p)
  <2>1. at[p] \in 0..MaxStages
    BY <1>0 DEF TypeOK
  <2>2. RestPart(p)
    BY <1>0, <1>3, <2>1, CountedRow, LeaseRow, SameRow DEF TypeOK, CancelWaiting, RestPart
  <2>3. QED
    BY <1>3, <2>2, TaskSame DEF CancelWaiting
<1>4. CASE CancelResumes(p)
  <2>1. PICK s \in {"none", "closed"} \cup Open :
          broker' = [broker EXCEPT ![p][calling[p]] = s] \/ UNCHANGED broker
    <3>1. CASE UNCHANGED broker
      BY <3>1
    <3>2. CASE broker' = [broker EXCEPT ![p][calling[p]] =
                            IF @ \in Open \ {"active"} THEN "closed" ELSE @]
      <4>1. calling[p] \in 1..MaxStages
        BY <1>0, <1>4, PipelineAssumption DEF TypeOK, CancelResumes
      <4>2. broker[p][calling[p]] \in {"none", "closed"} \cup Open
        <5>1. broker[p] \in [1..MaxStages -> {"none", "closed"} \cup Open]
          BY <1>0 DEF TypeOK
        <5>2. QED
          BY <4>1, <5>1
      <4>3. QED
        BY <3>2, <4>2
    <3>3. QED
      BY <1>4, <3>1, <3>2 DEF CancelResumes
  <2>2. /\ broker' = [broker EXCEPT ![p] = broker'[p]]
        /\ broker'[p] \in [1..MaxStages -> {"none", "closed"} \cup Open]
    <3>1. CASE UNCHANGED broker
      BY <3>1, <1>0 DEF TypeOK
    <3>2. CASE broker' = [broker EXCEPT ![p][calling[p]] = s]
      BY <3>2, Recorded
    <3>3. QED
      BY <2>1, <3>1, <3>2
  <2>3. RestPart(p)
    BY <1>0, <1>4, <2>2, PipelineAssumption DEF TypeOK, CancelResumes, Post, RestPart
  <2>4. QED
    BY <1>4, <2>3, TaskSame DEF CancelResumes
<1>5. CASE CancelRunning(p)
  <2>1. RestPart(p)
    BY <1>0, <1>5, CountedRow, LeaseRow, SameRow DEF TypeOK, CancelRunning, Post, RestPart
  <2>2. QED
    BY <1>5, <2>1, TaskSame DEF CancelRunning
<1>6. CASE WatchCancels(p)
  <2>1. RestPart(p)
    BY <1>0, <1>6, CountedRow, LeaseRow, SameRow DEF TypeOK, WatchCancels, Post, RestPart
  <2>2. QED
    BY <1>6, <2>1, TaskSame DEF WatchCancels
<1>7. CASE HostAdmits(p)
  <2>1. RestPart(p)
    BY <1>7, RestSame, SameRow, ModelRow DEF HostAdmits, Told, cancelVars, leaseVars
  <2>2. QED
    BY <1>7, <2>1, TaskSame DEF HostAdmits
<1>8. CASE HostEvicts(p)
  <2>1. RestPart(p)
    BY <1>8, RestSame, SameRow, ModelRow DEF HostEvicts, Told, cancelVars, leaseVars
  <2>2. QED
    BY <1>8, <2>1, TaskSame DEF HostEvicts
<1>9. CASE BrokerReceives(p)
  <2>1. broker' = [broker EXCEPT ![p][at[p]] = "pending"]
    BY <1>9 DEF BrokerReceives, Became
  <2>2. /\ broker' = [broker EXCEPT ![p] = broker'[p]]
        /\ broker'[p] \in [1..MaxStages -> {"none", "closed"} \cup Open]
    BY <2>1, Recorded DEF Open
  <2>3. RestPart(p)
    BY <1>0, <1>9, <2>2 DEF TypeOK, BrokerReceives, RestPart, cancelVars
  <2>4. QED
    BY <1>9, <2>3, TaskSame DEF BrokerReceives
<1>10. CASE BrokerGrants(p)
  <2>1. broker' = [broker EXCEPT ![p][at[p]] = "granted"]
    BY <1>10 DEF BrokerGrants, Became
  <2>2. /\ broker' = [broker EXCEPT ![p] = broker'[p]]
        /\ broker'[p] \in [1..MaxStages -> {"none", "closed"} \cup Open]
    BY <2>1, Recorded DEF Open
  <2>3. RestPart(p)
    BY <1>0, <1>10, <2>2 DEF TypeOK, BrokerGrants, RestPart, cancelVars
  <2>4. QED
    BY <1>10, <2>3, TaskSame DEF BrokerGrants
<1>11. CASE BrokerRejects(p)
  <2>1. broker' = [broker EXCEPT ![p][at[p]] = "closed"]
    BY <1>11 DEF BrokerRejects, Became
  <2>2. /\ broker' = [broker EXCEPT ![p] = broker'[p]]
        /\ broker'[p] \in [1..MaxStages -> {"none", "closed"} \cup Open]
    BY <2>1, Recorded DEF Open
  <2>3. RestPart(p)
    BY <1>0, <1>11, <2>2 DEF TypeOK, BrokerRejects, RestPart, cancelVars
  <2>4. QED
    BY <1>11, <2>3, TaskSame DEF BrokerRejects
<1>12. CASE BrokerExpires(p)
  <2>1. PICK i \in 1..MaxStages : broker' = [broker EXCEPT ![p][i] = "closed"]
    BY <1>12 DEF BrokerExpires
  <2>2. /\ broker' = [broker EXCEPT ![p] = broker'[p]]
        /\ broker'[p] \in [1..MaxStages -> {"none", "closed"} \cup Open]
    BY <2>1, Recorded
  <2>3. RestPart(p)
    BY <1>0, <1>12, <2>2 DEF TypeOK, BrokerExpires, RestPart, cancelVars
  <2>4. QED
    BY <1>12, <2>3, TaskSame DEF BrokerExpires
<1>13. CASE HeartbeatFails(p)
  <2>1. RestPart(p)
    BY <1>13, RestSame, SameRow DEF HeartbeatFails, Told, cancelVars
  <2>2. QED
    BY <1>13, <2>1, TaskSame DEF HeartbeatFails
<1>14. QED
  BY <1>1, <1>2, <1>3, <1>4, <1>5, <1>6, <1>7, <1>8, <1>9, <1>10, <1>11, <1>12, <1>13

\* Nothing is submitted.
LEMMA InitIInv == Init => IInv
<1> SUFFICES ASSUME Init PROVE IInv
  OBVIOUS
<1>1. TypeOK
  BY PipelineAssumption DEF Init, TypeOK, Live, Final, Verdicts
<1>2. LockIsForWork
  BY PipelineAssumption DEF Init, LockIsForWork, Working
<1>3. Shaped
  BY DEF Init, Shaped, Shape, InStage, Waiting, Asking, Working, Early, Leaving
<1>4. QED
  BY <1>1, <1>2, <1>3 DEF Init, IInv

\* Every step keeps the invariant.
LEMMA StepIInv == IInv /\ [Next]_vars => IInv'
<1> SUFFICES ASSUME IInv, [Next]_vars PROVE IInv'
  OBVIOUS
<1>1. ASSUME NEW p \in Pipelines, TaskStep(p) PROVE IInv'
  BY <1>1, TaskParts, PartsKeep
<1>2. ASSUME NEW p \in Pipelines,
             \/ Submit(p) \/ CancelQueued(p) \/ CancelWaiting(p) \/ CancelResumes(p)
             \/ CancelRunning(p) \/ WatchCancels(p) \/ HostAdmits(p) \/ HostEvicts(p)
             \/ BrokerReceives(p) \/ BrokerGrants(p) \/ BrokerRejects(p) \/ BrokerExpires(p)
             \/ HeartbeatFails(p)
      PROVE  IInv'
  BY <1>2, BesideParts, PartsKeep
<1>3. CASE UNCHANGED vars
  BY <1>3 DEF vars, dataVars, cancelVars, leaseVars, IInv, TypeOK, LockIsForWork, Shaped, Shape,
              Accepted, Stage
<1>4. QED
  BY <1>1, <1>2, <1>3 DEF Next

\* Types, lock and shape together are inductive.
THEOREM Invariance == Spec => []IInv
BY InitIInv, StepIInv, PTL DEF Spec

\* The variables keep their types, the stage a pipeline is in included.
THEOREM PipelineTypeCorrect == Spec => []TypeOK
<1>1. IInv => TypeOK
  BY DEF IInv
<1>2. QED
  BY <1>1, Invariance, PTL

\* process_lock is held exactly while a worker runs or is being stopped: heavy
\* work is serialized, and no exit of a stage keeps the lock.
THEOREM LockCorrect == Spec => []LockIsForWork
<1>1. IInv => LockIsForWork
  BY DEF IInv
<1>2. QED
  BY <1>1, Invariance, PTL

\* What compiled is not refused for its shape while it runs.
THEOREM CompiledFitsHolds == Spec => []CompiledFits
<1>1. IInv => CompiledFits
  BY DEF IInv, Shaped, Shape, LiveOnly, CompiledFits
<1>2. QED
  BY <1>1, Invariance, PTL

-----------------------------------------------------------------------------

\* Nothing is open at the Broker and nothing known of it.
Clear(p) == handle[p] = "none" /\ \A i \in 1..MaxStages : broker[p][i] \notin Open

\* A worker that needs a lease has it.
Leased(p) == handle[p] = "lease" /\ broker[p][at[p]] = "active" /\ p \in renewing

StageLease(p) ==
  /\ \A i \in 1..MaxStages :
       /\ broker[p][i] \in Open => i = at[p]
       /\ i > at[p] => broker[p][i] = "none"
  /\ p \in renewing => pc[p] \in Working \cup {"locking"} /\ Stage(p) \in Gpu
  /\ handle[p] # "none" \/ pc[p] \in Waiting => Hosted(p)
  /\ pc[p] \in {"none"} \cup Early => Clear(p)
  /\ pc[p] \in Asking => Clear(p) /\ broker[p][at[p]] = "none"
  /\ pc[p] = "requesting" => handle[p] = "none" /\ broker[p][at[p]] # "active"
  /\ pc[p] = "waiting" =>
       handle[p] = "request" /\ broker[p][at[p]] \in {"pending", "granted", "closed"}
  /\ pc[p] = "activating" => handle[p] = "lease" /\ broker[p][at[p]] \in {"granted", "closed"}
  /\ pc[p] \in Waiting \cup {"yielding"} => Stage(p) \in Gpu
  /\ pc[p] \in Working \cup {"locking"} => IF Stage(p) \in Gpu THEN Leased(p) ELSE Clear(p)
  /\ pc[p] = "yielding" => handle[p] = "lease" /\ broker[p][at[p]] \in {"active", "closed"}
  /\ pc[p] \in {"committing", "succeeding"} => Clear(p)
  /\ pc[p] \in {"ending", "unwinding", "releasing"} =>
       /\ handle[p] # "none" => at[p] # 0 /\ broker[p][at[p]] # "none"
       /\ handle[p] # "lease" => \A i \in 1..MaxStages : broker[p][i] # "active"
  /\ pc[p] = "releasing" => handle[p] # "none"
  /\ pc[p] = "done" =>
       /\ handle[p] # "none" => broker[p][at[p]] = "closed"
       /\ \A i \in 1..MaxStages : broker[p][i] # "active"

\* The Host's model is out only while it is used, or lost by a cancelled release;
\* then nothing is open at the Broker.
ModelOut(p) ==
  ai[p] # "none" =>
    /\ pc[p] \in {"asking", "recanting", "freeing"} \cup Leaving
    /\ \A i \in 1..MaxStages : broker[p][i] \notin Open

\* Where the Host answers.
LeaseInv == \A p \in Pipelines \ Faulty : StageLease(p) /\ ModelOut(p)

\* Nothing is asked.
LEMMA InitLease == Init => LeaseInv
BY DEF Init, LeaseInv, StageLease, ModelOut, Clear, Open, Waiting, Asking, Working, Early

\* What happens in another row.
LEMMA OtherLease ==
  ASSUME IInv, NEW p \in Pipelines, TaskPart(p), RestPart(p),
         NEW q \in Pipelines, q # p, StageLease(q), ModelOut(q)
  PROVE  StageLease(q)' /\ ModelOut(q)'
<1>1. /\ request'[q] = request[q] /\ pc'[q] = pc[q] /\ at'[q] = at[q]
      /\ handle'[q] = handle[q] /\ broker'[q] = broker[q] /\ ai'[q] = ai[q]
      /\ (q \in renewing' <=> q \in renewing)
  BY DEF IInv, TypeOK, TaskPart, RestPart
<1>2. Stage(q)' = Stage(q) /\ (Hosted(q)' <=> Hosted(q)) /\ (Clear(q)' <=> Clear(q))
      /\ (Leased(q)' <=> Leased(q))
  BY <1>1 DEF Stage, Hosted, Clear, Leased
<1>3. StageLease(q)'
  BY <1>1, <1>2 DEF StageLease
<1>4. ModelOut(q)'
  BY <1>1 DEF ModelOut
<1>5. QED
  BY <1>3, <1>4

\* A step of the task that has nothing at the Broker before or after it.
LEMMA ClearOnward ==
  ASSUME IInv, NEW p \in Pipelines, StageLease(p), NEW i, Onward(p, i),
         handle'[p] = "none", p \notin renewing',
         \A j \in 1..MaxStages : broker'[p][j] \notin Open,
         \A j \in 1..MaxStages : j > at'[p] => broker'[p][j] = "none",
         pc'[p] \in InStage => broker'[p][at'[p]] = "none",
         ai'[p] = "none"
  PROVE  StageLease(p)' /\ ModelOut(p)'
<1>1. ModelOut(p)'
  BY DEF ModelOut
<1>2. /\ pc'[p] \in {"ending", "done", "succeeding", "committing", "consulting",
                      "requesting", "locking", "executing"}
      /\ pc'[p] = "requesting" => Stage(p)' \in Gpu /\ Hosted(p)'
      /\ pc'[p] \in {"locking", "executing"} => Stage(p)' \notin Gpu
  BY DEF Onward, Lands, Stage, Hosted
<1>3. Clear(p)' /\ \A j \in 1..MaxStages : broker'[p][j] # "active"
  BY DEF Clear, Open
<1>4. pc'[p] = "consulting" \/ pc'[p] = "requesting" => broker'[p][at'[p]] = "none"
  BY DEF InStage, Waiting, Asking
<1>5. QED
  BY <1>1, <1>2, <1>3, <1>4 DEF StageLease, Waiting, Asking, Working, Early

\* In a stage that asks for nothing at the Broker, or has not asked yet, what
\* follows starts with nothing open.
LEMMA ClearStage ==
  ASSUME IInv, NEW p \in Pipelines, StageLease(p), pc[p] \in InStage, Clear(p),
         UNCHANGED <<handle, broker>>, p \notin renewing', ai'[p] = "none"
  PROVE  /\ Onward(p, at[p] + 1) => StageLease(p)' /\ ModelOut(p)'
         /\ broker[p][at[p]] = "none" /\ Onward(p, at[p]) => StageLease(p)' /\ ModelOut(p)'
<1>1. /\ pc[p] # "none" /\ Len(Active(request[p])) \in 1..MaxStages /\ MaxStages \in Nat
      /\ at[p] \in 1..Len(Active(request[p]))
  BY StageFacts, PipelineAssumption DEF IInv, Shaped, Shape, InStage, Waiting, Asking, Working
<1>2. handle'[p] = "none" /\ \A j \in 1..MaxStages : broker'[p][j] \notin Open
  BY DEF Clear
<1>3. \A j \in 1..MaxStages : j > at[p] => broker'[p][j] = "none"
  BY DEF StageLease
<1>4. ASSUME Onward(p, at[p] + 1) PROVE StageLease(p)' /\ ModelOut(p)'
  <2>1. /\ at'[p] \in {at[p], at[p] + 1} /\ at'[p] \in 0..Len(Active(request[p]))
        /\ pc'[p] \in InStage => at'[p] = at[p] + 1
    BY <1>4 DEF Onward
  <2>2. \A j \in 1..MaxStages : j > at'[p] => broker'[p][j] = "none"
    BY <1>1, <1>3, <2>1
  <2>3. pc'[p] \in InStage => broker'[p][at'[p]] = "none"
    BY <1>1, <1>3, <2>1
  <2>4. QED
    BY <1>2, <1>4, <2>2, <2>3, ClearOnward
<1>5. ASSUME broker[p][at[p]] = "none", Onward(p, at[p]) PROVE StageLease(p)' /\ ModelOut(p)'
  <2>1. at'[p] = at[p]
    BY <1>5 DEF Onward
  <2>2. QED
    BY <1>2, <1>3, <1>5, <2>1, ClearOnward
<1>6. QED
  BY <1>4, <1>5

\* A pipeline that ends or moves in the stage it is in.
LEMMA EndsHere ==
  ASSUME IInv, NEW p \in Pipelines, NEW s \in {"failed", "canceled"}, End(p, s),
         UNCHANGED <<request, at, value>>
  PROVE  pc'[p] = (IF Hosted(p) THEN "ending" ELSE "done") /\ at'[p] = at[p]
         /\ request'[p] = request[p]
BY DEF End, Settle, Goto, IInv, TypeOK

\* Where a step goes.
LEMMA MovesTo ==
  ASSUME IInv, NEW p \in Pipelines
  PROVE  /\ \A l : Goto(p, l) => pc'[p] = l
         /\ \A l : Runs(p, l) => pc'[p] = l
         /\ UNCHANGED dataVars => at'[p] = at[p] /\ request'[p] = request[p]
         /\ EnterLock(p) => pc'[p] \in {"locking", "executing"}
BY DEF Goto, Runs, EnterLock, IInv, TypeOK, dataVars

\* Where a pipeline sets out it has nothing.
LEMMA EarlyLease ==
  ASSUME IInv, NEW p \in Pipelines, StageLease(p), ModelOut(p), pc[p] \in Early,
         UNCHANGED <<leaseVars, ai>>
  PROVE  /\ Onward(p, 1) => StageLease(p)' /\ ModelOut(p)'
         /\ pc'[p] \in Early /\ UNCHANGED dataVars => StageLease(p)' /\ ModelOut(p)'
<1>1. /\ pc[p] # "none" /\ Len(Active(request[p])) \in 1..MaxStages /\ MaxStages \in Nat
      /\ at[p] = 0
  BY StageFacts, PipelineAssumption DEF IInv, Shaped, Shape, Early
<1>2. Clear(p) /\ p \notin renewing /\ ai[p] = "none" /\ p \notin renewing'
  BY DEF StageLease, ModelOut, Early, Working, Leaving, leaseVars
<1>3. handle'[p] = "none" /\ (\A j \in 1..MaxStages : broker'[p][j] \notin Open) /\ ai'[p] = "none"
  BY <1>2 DEF Clear, leaseVars
<1>4. \A j \in 1..MaxStages : broker'[p][j] = "none"
  BY <1>1 DEF StageLease, leaseVars
<1>5. ASSUME Onward(p, 1) PROVE StageLease(p)' /\ ModelOut(p)'
  <2>1. at'[p] \in 0..Len(Active(request[p])) /\ (pc'[p] \in InStage => at'[p] = 1)
    BY <1>5 DEF Onward
  <2>2. 1 \in 1..MaxStages
    BY <1>1
  <2>3. pc'[p] \in InStage => broker'[p][at'[p]] = "none"
    BY <1>4, <2>1, <2>2
  <2>4. QED
    BY <1>2, <1>3, <1>4, <1>5, <2>3, ClearOnward
<1>6. ASSUME pc'[p] \in Early, UNCHANGED dataVars PROVE StageLease(p)' /\ ModelOut(p)'
  <2>1. at'[p] = at[p]
    BY <1>6 DEF dataVars
  <2>2. StageLease(p)'
    BY <1>2, <1>3, <1>4, <1>6, <2>1 DEF StageLease, Clear, Early, Asking, Waiting, Working
  <2>3. QED
    BY <1>3, <2>2 DEF ModelOut
<1>7. QED
  BY <1>5, <1>6

\* The Broker's record of the stage after a call that changes it.
LEMMA BecameAt ==
  ASSUME IInv, NEW p \in Pipelines, at[p] # 0, NEW s \in {"none", "closed"} \cup Open, Became(p, s)
  PROVE  /\ broker'[p][at[p]] = s
         /\ \A j \in 1..MaxStages : j # at[p] => broker'[p][j] = broker[p][j]
<1>1. broker'[p] = [broker[p] EXCEPT ![at[p]] = s]
  <2>1. broker \in [Pipelines -> [1..MaxStages -> {"none", "closed"} \cup Open]]
    BY DEF IInv, TypeOK
  <2>2. broker' = [broker EXCEPT ![p][at[p]] = s]
    BY DEF Became
  <2>3. QED
    BY <2>1, <2>2
<1>2. broker[p] \in [1..MaxStages -> {"none", "closed"} \cup Open] /\ at[p] \in 1..MaxStages
  BY PipelineAssumption DEF IInv, TypeOK
<1>3. QED
  BY <1>1, <1>2

\* The Broker's record of the stage after a release or a withdrawal.
LEMMA FreedAt ==
  ASSUME IInv, NEW p \in Pipelines, at[p] # 0, Freed(p)
  PROVE  /\ handle[p] = "lease" => broker'[p][at[p]] = "closed"
         /\ broker'[p][at[p]] \in {broker[p][at[p]], "closed"}
         /\ handle[p] = "request" /\ broker[p][at[p]] \in {"pending", "granted"}
              => broker'[p][at[p]] = "closed"
         /\ \A j \in 1..MaxStages : j # at[p] => broker'[p][j] = broker[p][j]
<1>1. CASE Became(p, "closed")
  BY <1>1, BecameAt
<1>2. CASE ~Became(p, "closed")
  BY <1>2 DEF Freed, Open
<1>3. QED
  BY <1>1, <1>2

\* After the finally block of a worker stage.
LEMMA LeavesLease ==
  ASSUME IInv, NEW p \in Pipelines, StageLease(p), ModelOut(p),
         pc[p] \in InStage, pc[p] \in Working \cup {"locking"},
         Leaves(p), UNCHANGED <<handle, broker, ai>>
  PROVE  StageLease(p)' /\ ModelOut(p)'
<1>1. ai[p] = "none" /\ ai'[p] = "none"
  BY DEF ModelOut, Working, Leaving
<1>2. CASE Stage(p) \notin Gpu
  <2>1. Clear(p) /\ Onward(p, at[p] + 1) /\ renewing' = renewing
    BY <1>2 DEF StageLease, Leaves
  <2>2. p \notin renewing
    BY <1>2 DEF StageLease
  <2>3. QED
    BY <1>1, <2>1, <2>2, ClearStage
<1>3. CASE Stage(p) \in Gpu
  <2>1. /\ pc'[p] = "yielding" /\ p \notin renewing' /\ at'[p] = at[p] /\ request'[p] = request[p]
    BY <1>3 DEF Leaves, IInv, TypeOK
  <2>2. Leased(p) /\ Hosted(p)
    BY <1>3 DEF StageLease, Leased
  <2>3. StageLease(p)'
    BY <1>3, <2>1, <2>2
       DEF StageLease, Leased, Clear, Stage, Hosted, Waiting, Asking, Working, Early
  <2>4. QED
    BY <1>1, <2>3 DEF ModelOut
<1>4. QED
  BY <1>2, <1>3

\* Every step of a task of a Host that answers.
LEMMA TaskLease ==
  ASSUME IInv, NEW p \in Pipelines, p \notin Faulty, StageLease(p), ModelOut(p), TaskStep(p)
  PROVE  StageLease(p)' /\ ModelOut(p)'
<1> USE DEF At, Struck
<1>0. Shape(p) /\ TypeOK
  BY DEF IInv, Shaped
<1>1. CASE Start(p)
  <2>1. pc[p] \in Early /\ UNCHANGED <<leaseVars, ai>>
    BY <1>1 DEF Start, Early
  <2>2. CASE Hosted(p)
    <3>1. pc'[p] \in Early /\ UNCHANGED dataVars
      BY <1>1, <2>2, MovesTo DEF Start, Early
    <3>2. QED
      BY <2>1, <3>1, EarlyLease
  <2>3. CASE ~Hosted(p)
    <3>1. Source(p)
      BY <1>1, <2>3 DEF Start
    <3>2. CASE Onward(p, 1)
      BY <2>1, <3>2, EarlyLease
    <3>3. CASE Runs(p, "source") /\ UNCHANGED dataVars
      BY <2>1, <3>3, EarlyLease, MovesTo DEF Early
    <3>4. QED
      BY <2>1, <3>1, <3>2, <3>3, SourceOnward
  <2>4. QED
    BY <2>2, <2>3
<1>2. CASE FirstFails(p)
  BY <1>2 DEF FirstFails
<1>3. CASE FirstReported(p)
  <2>1. pc[p] \in Early /\ UNCHANGED <<leaseVars, ai>> /\ Source(p)
    BY <1>3 DEF FirstReported, Early
  <2>2. CASE Onward(p, 1)
    BY <2>1, <2>2, EarlyLease
  <2>3. CASE Runs(p, "source") /\ UNCHANGED dataVars
    BY <2>1, <2>3, EarlyLease, MovesTo DEF Early
  <2>4. QED
    BY <2>1, <2>2, <2>3, SourceOnward
<1>4. CASE Sourced(p)
  <2>1. /\ pc[p] # "none" /\ pc[p] \in Early /\ verdict[p] # "misfit"
        /\ Proceed(p, 1, "audio") /\ request[p].input = "grant"
        /\ UNCHANGED <<leaseVars, ai>>
    BY <1>4, <1>0 DEF Sourced, Leaving, Shape, Early
  <2>2. 1 \in 1..(Len(Active(request[p])) + 1) /\ "audio" = Entering(request[p], 1)
    BY <2>1, StageFacts, PipelineAssumption DEF Entering, InputGives
  <2>3. Onward(p, 1)
    BY <2>1, <2>2, ProceedOnward
  <2>4. QED
    BY <2>1, <2>3, EarlyLease
<1>5. CASE Consulted(p)
  <2>1. /\ pc[p] = "consulting" /\ pc'[p] = "asking" /\ at'[p] = at[p] /\ request'[p] = request[p]
        /\ UNCHANGED <<handle, renewing, broker>>
    BY <1>5, MovesTo DEF Consulted, leaseVars
  <2>2. QED
    BY <2>1
       DEF StageLease, ModelOut, Clear, Leased, Stage, Hosted, Waiting, Asking, Working, Early,
           Leaving, Open
<1>6. CASE ConsultFails(p)
  <2>1. /\ pc[p] = "consulting" /\ pc'[p] \in {"excusing", "ending", "done"} /\ at'[p] = at[p]
        /\ request'[p] = request[p]
        /\ UNCHANGED <<handle, renewing, broker, ai>>
    BY <1>6, MovesTo, EndsHere DEF ConsultFails, dataVars, leaseVars
  <2>2. QED
    BY <2>1
       DEF StageLease, ModelOut, Clear, Leased, Stage, Hosted, Waiting, Asking, Working, Early,
           Leaving, Open
<1>7. CASE AiAnswered(p)
  <2>1. /\ pc[p] = "asking" /\ pc'[p] \in {"freeing", "recanting"} /\ at'[p] = at[p]
        /\ request'[p] = request[p]
        /\ UNCHANGED <<handle, renewing, broker, ai>>
    BY <1>7, MovesTo, EndsHere DEF AiAnswered, dataVars, leaseVars
  <2>2. QED
    BY <2>1
       DEF StageLease, ModelOut, Clear, Leased, Stage, Hosted, Waiting, Asking, Working, Early,
           Leaving, Open
<1>8. CASE AiFails(p)
  <2>1. /\ pc[p] = "asking" /\ pc'[p] \in {"freeing", "recanting"} /\ at'[p] = at[p]
        /\ request'[p] = request[p]
        /\ UNCHANGED <<handle, renewing, broker, ai>>
    BY <1>8, MovesTo, EndsHere DEF AiFails, dataVars, leaseVars
  <2>2. QED
    BY <2>1
       DEF StageLease, ModelOut, Clear, Leased, Stage, Hosted, Waiting, Asking, Working, Early,
           Leaving, Open
<1>9. CASE Recanted(p)
  <2>1. /\ pc[p] = "recanting" /\ pc'[p] = "freeing" /\ at'[p] = at[p] /\ request'[p] = request[p]
        /\ UNCHANGED <<handle, renewing, broker, ai>>
    BY <1>9, MovesTo, EndsHere DEF Recanted, dataVars, leaseVars
  <2>2. QED
    BY <2>1
       DEF StageLease, ModelOut, Clear, Leased, Stage, Hosted, Waiting, Asking, Working, Early,
           Leaving, Open
<1>10. CASE Excused(p)
  <2>1. /\ pc[p] = "excusing" /\ Admit(p, Stage(p)) /\ UNCHANGED <<request, at, value>>
        /\ UNCHANGED <<handle, renewing, broker, ai>>
    BY <1>10 DEF Excused, leaseVars
  <2>2. pc[p] \in InStage /\ pc[p] \in Asking /\ pc[p] \notin Working \cup {"locking"}
    BY <2>1 DEF InStage, Waiting, Asking, Working
  <2>3. Clear(p) /\ broker[p][at[p]] = "none" /\ p \notin renewing' /\ ai'[p] = "none"
    BY <2>1, <2>2 DEF StageLease, ModelOut, Leaving
  <2>4. Onward(p, at[p])
    BY <2>1, <2>2, AdmitOnward
  <2>5. QED
    BY <2>1, <2>2, <2>3, <2>4, ClearStage
<1>11. CASE AiFreed(p)
  <2>1. pc[p] = "freeing" /\ ai' = [ai EXCEPT ![p] = "none"] /\ UNCHANGED <<handle, renewing, broker>>
    BY <1>11 DEF AiFreed, leaseVars
  <2>2. /\ pc[p] \in InStage /\ pc[p] \in Asking /\ pc[p] \notin Working \cup {"locking"}
        /\ pc[p] # "none"
    BY <2>1 DEF InStage, Waiting, Asking, Working
  <2>3. Clear(p) /\ broker[p][at[p]] = "none" /\ p \notin renewing'
    BY <2>1, <2>2 DEF StageLease
  <2>4. ai'[p] = "none"
    BY <2>1, <1>0 DEF TypeOK
  <2>5. verdict[p] \in {"ok", "failed", "canceled"}
    BY <2>1, <1>0 DEF Shape, TypeOK, Verdicts, Leaving
  <2>6. Onward(p, at[p]) \/ Onward(p, at[p] + 1)
    <3>1. CASE Stage(p) = "sfx" /\ Admit(p, "sfx") /\ UNCHANGED <<request, at, value>>
      BY <2>2, <3>1, AdmitOnward
    <3>2. CASE Continue(p, verdict[p])
      BY <2>2, <2>5, <3>2, ContinueOnward
    <3>3. QED
      BY <1>11, <3>1, <3>2 DEF AiFreed
  <2>7. QED
    BY <2>1, <2>2, <2>3, <2>4, <2>6, ClearStage
<1>12. CASE LeaseAnswered(p)
  <2>1. /\ pc[p] \in {"requesting", "waiting"}
        /\ at'[p] = at[p] /\ request'[p] = request[p] /\ UNCHANGED <<renewing, broker, ai>>
    BY <1>12 DEF LeaseAnswered
  <2>2. Hosted(p)
    BY <2>1 DEF StageLease, Waiting
  <2>3. \/ broker[p][at[p]] = "granted" /\ handle'[p] = "lease" /\ pc'[p] = "activating"
        \/ broker[p][at[p]] = "closed" /\ handle'[p] = "request" /\ pc'[p] = "ending"
        \/ broker[p][at[p]] = "pending" /\ handle'[p] = "request" /\ pc'[p] = "waiting"
    BY <1>12, <1>0, <2>2, MovesTo, EndsHere DEF LeaseAnswered, TypeOK
  <2>4. at[p] # 0
    BY <1>0, <2>1 DEF Shape, InStage, Waiting
  <2>5. QED
    BY <2>1, <2>2, <2>3, <2>4
       DEF StageLease, ModelOut, Clear, Leased, Stage, Hosted, Waiting, Asking, Working, Early,
           Leaving, Open
<1>13. CASE Activated(p)
  <2>1. /\ pc[p] = "activating" /\ handle[p] = "lease" /\ Hosted(p) /\ Stage(p) \in Gpu
        /\ at[p] # 0 /\ at'[p] = at[p] /\ request'[p] = request[p]
        /\ handle' = handle /\ ai' = ai
    BY <1>13, <1>0 DEF Activated, StageLease, Shape, InStage, Waiting
  <2>2. CASE Became(p, "active") /\ renewing' = renewing \cup {p} /\ EnterLock(p)
    <3>1. /\ broker'[p][at[p]] = "active" /\ p \in renewing'
          /\ pc'[p] \in {"locking", "executing"}
          /\ \A j \in 1..MaxStages : j # at[p] => broker'[p][j] = broker[p][j]
      BY <2>1, <2>2, BecameAt, MovesTo DEF Open
    <3>2. QED
      BY <2>1, <3>1
         DEF StageLease, ModelOut, Clear, Leased, Stage, Hosted, Waiting, Asking, Working, Early,
             Leaving, Open
  <2>3. CASE End(p, "failed") /\ UNCHANGED <<request, at, value>> /\ UNCHANGED <<broker, renewing>>
    <3>1. pc'[p] = "ending"
      BY <2>1, <2>3, EndsHere
    <3>2. QED
      BY <2>1, <2>3, <3>1
         DEF StageLease, ModelOut, Clear, Leased, Stage, Hosted, Waiting, Asking, Working, Early,
             Leaving, Open
  <2>4. QED
    BY <1>13, <2>2, <2>3 DEF Activated
<1>14. CASE CallFails(p)
  BY <1>14 DEF CallFails
<1>15. CASE LockAcquired(p)
  <2>1. /\ pc[p] = "locking" /\ pc'[p] = "executing" /\ at'[p] = at[p] /\ request'[p] = request[p]
        /\ UNCHANGED <<handle, renewing, broker, ai>>
    BY <1>15, <1>0, MovesTo DEF LockAcquired, leaseVars, TypeOK
  <2>2. QED
    BY <2>1
       DEF StageLease, ModelOut, Clear, Leased, Stage, Hosted, Waiting, Asking, Working, Early,
           Leaving, Open
<1>16. CASE WorkerDone(p)
  <2>1. /\ pc[p] \in InStage /\ pc[p] \in Working \cup {"locking"}
        /\ UNCHANGED <<handle, broker, ai>>
    BY <1>16 DEF WorkerDone, InStage, Waiting, Asking, Working
  <2>2. Leaves(p)
    BY <1>16, <2>1, <1>0, YieldLeaves DEF WorkerDone
  <2>3. QED
    BY <2>1, <2>2, LeavesLease
<1>17. CASE WorkerStopped(p)
  <2>1. /\ pc[p] \in InStage /\ pc[p] \in Working \cup {"locking"}
        /\ UNCHANGED <<handle, broker, ai>>
    BY <1>17 DEF WorkerStopped, InStage, Waiting, Asking, Working
  <2>2. Leaves(p)
    BY <1>17, <2>1, <1>0, YieldLeaves DEF WorkerStopped, Shape, TypeOK, Verdicts, Leaving
  <2>3. QED
    BY <2>1, <2>2, LeavesLease
<1>18. CASE StruckStage(p)
  <2>1. /\ pc[p] \in InStage /\ pc[p] \in Working \cup {"locking"}
        /\ UNCHANGED <<handle, broker, ai>>
    BY <1>18 DEF StruckStage, InStage, Waiting, Asking, Working
  <2>2. Leaves(p)
    BY <1>18, <2>1, <1>0, YieldLeaves DEF StruckStage
  <2>3. QED
    BY <2>1, <2>2, LeavesLease
<1>19. CASE WorkerFails(p)
  <2>1. /\ pc[p] = "executing" /\ pc'[p] = "stopping" /\ at'[p] = at[p]
        /\ request'[p] = request[p]
        /\ UNCHANGED <<handle, renewing, broker, ai>>
    BY <1>19, <1>0 DEF WorkerFails, leaseVars, TypeOK
  <2>2. QED
    BY <2>1
       DEF StageLease, ModelOut, Clear, Leased, Stage, Hosted, Waiting, Asking, Working, Early,
           Leaving, Open
<1>20. CASE StruckExecuting(p)
  <2>1. /\ pc[p] = "executing" /\ pc'[p] = "stopping" /\ at'[p] = at[p]
        /\ request'[p] = request[p]
        /\ UNCHANGED <<handle, renewing, broker, ai>>
    BY <1>20, <1>0 DEF StruckExecuting, leaseVars, TypeOK
  <2>2. QED
    BY <2>1
       DEF StageLease, ModelOut, Clear, Leased, Stage, Hosted, Waiting, Asking, Working, Early,
           Leaving, Open
<1>21. CASE Yielded(p)
  <2>1. /\ pc[p] = "yielding" /\ pc[p] \in InStage /\ Freed(p) /\ handle'[p] = "none"
        /\ UNCHANGED <<renewing, ai>> /\ Continue(p, verdict[p])
    BY <1>21, <1>0 DEF Yielded, TypeOK, InStage
  <2>2. verdict[p] \in {"ok", "failed", "canceled"} /\ at[p] # 0
    BY <2>1, <1>0 DEF Shape, TypeOK, Verdicts, Leaving
  <2>3. /\ handle[p] = "lease" /\ p \notin renewing' /\ ai'[p] = "none"
    BY <2>1 DEF StageLease, ModelOut, Working, Leaving
  <2>4. /\ broker'[p][at[p]] = "closed"
        /\ \A j \in 1..MaxStages : j # at[p] => broker'[p][j] = broker[p][j]
    BY <2>1, <2>2, <2>3, FreedAt
  <2>5. \A j \in 1..MaxStages : broker'[p][j] \notin Open
    BY <2>4 DEF StageLease, Open
  <2>6. Onward(p, at[p] + 1)
    BY <2>1, <2>2, ContinueOnward
  <2>7. /\ at'[p] \in {at[p], at[p] + 1} /\ at'[p] \in 0..Len(Active(request[p]))
        /\ pc'[p] \in InStage => at'[p] = at[p] + 1
        /\ at[p] \in 1..Len(Active(request[p])) /\ Len(Active(request[p])) \in 1..MaxStages
        /\ MaxStages \in Nat
    BY <2>1, <2>6, StageFacts, PipelineAssumption DEF Onward
  <2>8. \A j \in 1..MaxStages : j > at[p] => broker'[p][j] = "none"
    BY <2>4, <2>7 DEF StageLease
  <2>9. /\ \A j \in 1..MaxStages : j > at'[p] => broker'[p][j] = "none"
        /\ pc'[p] \in InStage => broker'[p][at'[p]] = "none"
    BY <2>7, <2>8
  <2>10. QED
    BY <2>1, <2>3, <2>5, <2>6, <2>9, ClearOnward
<1>22. CASE Committed(p)
  <2>1. /\ pc[p] = "committing" /\ UNCHANGED <<handle, renewing, broker, ai>>
        /\ at'[p] = at[p] /\ request'[p] = request[p]
    BY <1>22 DEF Committed, leaseVars
  <2>2. pc'[p] \in {"succeeding", "done"}
    BY <1>22, SucceedLands DEF Committed
  <2>3. QED
    BY <2>1, <2>2
       DEF StageLease, ModelOut, Clear, Leased, Stage, Hosted, Waiting, Asking, Working, Early,
           Leaving, Open
<1>23. CASE Reported(p)
  <2>1. /\ pc[p] \in {"succeeding", "ending"} /\ pc'[p] = "unwinding" /\ at'[p] = at[p]
        /\ request'[p] = request[p]
        /\ UNCHANGED <<handle, renewing, broker, ai>>
    BY <1>23, MovesTo DEF Reported, dataVars, leaseVars
  <2>2. QED
    BY <2>1
       DEF StageLease, ModelOut, Clear, Leased, Stage, Hosted, Waiting, Asking, Working, Early,
           Leaving, Open
<1>24. CASE Unwound(p)
  <2>1. /\ pc[p] = "unwinding" /\ at'[p] = at[p] /\ request'[p] = request[p]
        /\ pc'[p] = (IF handle[p] = "none" THEN "done" ELSE "releasing")
        /\ UNCHANGED <<handle, renewing, broker, ai>>
    BY <1>24, MovesTo DEF Unwound, dataVars, leaseVars
  <2>2. QED
    BY <2>1
       DEF StageLease, ModelOut, Clear, Leased, Stage, Hosted, Waiting, Asking, Working, Early,
           Leaving, Open
<1>25. CASE Released(p)
  <2>1. /\ pc[p] = "releasing" /\ pc'[p] = "done" /\ at'[p] = at[p] /\ request'[p] = request[p]
        /\ Freed(p) /\ handle'[p] = "request" /\ UNCHANGED <<renewing, ai>>
    BY <1>25, <1>0, MovesTo DEF Released, dataVars, TypeOK
  <2>2. handle[p] # "none" /\ at[p] # 0 /\ broker[p][at[p]] # "none" /\ Hosted(p)
    BY <2>1 DEF StageLease
  <2>3. /\ broker[p][at[p]] \in {"none", "closed"} \cup Open /\ at[p] \in 1..MaxStages
        /\ handle[p] \in {"request", "lease"}
    BY <1>0, <2>2, PipelineAssumption DEF TypeOK
  <2>4. handle[p] = "request" => broker[p][at[p]] # "active"
    BY <2>1, <2>3 DEF StageLease
  <2>5. /\ broker'[p][at[p]] = "closed"
        /\ \A j \in 1..MaxStages : j # at[p] => broker'[p][j] = broker[p][j]
    BY <2>1, <2>2, <2>3, <2>4, FreedAt DEF Open
  <2>6. \A j \in 1..MaxStages : broker'[p][j] \notin Open
    BY <2>5 DEF StageLease, Open
  <2>7. p \notin renewing' /\ \A j \in 1..MaxStages : j > at'[p] => broker'[p][j] = "none"
    BY <2>1, <2>3, <2>5, PipelineAssumption DEF StageLease, Working
  <2>8. StageLease(p)'
    BY <2>1, <2>2, <2>5, <2>6, <2>7 DEF StageLease, Hosted, Waiting, Asking, Working, Early, Open
  <2>9. QED
    BY <2>1, <2>6, <2>8 DEF ModelOut, Leaving
<1>26. CASE StruckOutside(p)
  <2>1. /\ pc[p] \in {"new", "first", "unwinding", "releasing"} /\ pc'[p] = "gone"
        /\ at'[p] = at[p] /\ request'[p] = request[p]
        /\ UNCHANGED <<handle, renewing, ai>>
        /\ UNCHANGED broker \/ (pc[p] = "releasing" /\ Freed(p))
    BY <1>26, MovesTo DEF StruckOutside, dataVars
  <2>2. p \notin renewing
    BY <2>1 DEF StageLease, Working
  <2>3. ai[p] # "none" => pc'[p] \in Leaving /\ \A j \in 1..MaxStages : broker[p][j] \notin Open
    BY <2>1 DEF ModelOut, Leaving
  <2>4. CASE UNCHANGED broker
    <3>1. StageLease(p)'
      BY <2>1, <2>2, <2>4 DEF StageLease, Hosted, Waiting, Asking, Working, Early
    <3>2. QED
      BY <2>1, <2>3, <2>4, <3>1 DEF ModelOut
  <2>5. CASE pc[p] = "releasing" /\ Freed(p)
    <3>1. at[p] # 0
      BY <2>5 DEF StageLease
    <3>2. \A j \in 1..MaxStages :
            broker'[p][j] = broker[p][j] \/ (j = at[p] /\ broker'[p][j] = "closed")
      BY <2>5, <3>1, FreedAt
    <3>3. at[p] \in Nat /\ MaxStages \in Nat
      BY <1>0, PipelineAssumption DEF TypeOK
    <3>4. /\ \A j \in 1..MaxStages : broker'[p][j] \in Open => broker[p][j] \in Open
          /\ \A j \in 1..MaxStages : j > at[p] => broker'[p][j] = broker[p][j]
      BY <3>2, <3>3 DEF Open
    <3>5. StageLease(p)'
      BY <2>1, <2>2, <3>4 DEF StageLease, Hosted, Waiting, Asking, Working, Early
    <3>6. QED
      BY <2>1, <2>3, <3>4, <3>5 DEF ModelOut
  <2>6. QED
    BY <2>1, <2>4, <2>5
<1>27. CASE StruckEnding(p)
  <2>1. /\ pc[p] = "ending" /\ pc'[p] = "unwinding" /\ at'[p] = at[p] /\ request'[p] = request[p]
        /\ UNCHANGED <<handle, renewing, broker, ai>>
    BY <1>27, MovesTo DEF StruckEnding, dataVars, leaseVars
  <2>2. QED
    BY <2>1
       DEF StageLease, ModelOut, Clear, Leased, Stage, Hosted, Waiting, Asking, Working, Early,
           Leaving, Open
<1>28. CASE StruckAsking(p)
  <2>1. /\ pc[p] \in {"asking", "recanting"} /\ pc'[p] = "freeing" /\ at'[p] = at[p]
        /\ request'[p] = request[p]
        /\ UNCHANGED <<handle, renewing, broker, ai>>
    BY <1>28, MovesTo DEF StruckAsking, dataVars, leaseVars
  <2>2. QED
    BY <2>1
       DEF StageLease, ModelOut, Clear, Leased, Stage, Hosted, Waiting, Asking, Working, Early,
           Leaving, Open
<1>29. CASE StruckPlain(p)
  <2>1. /\ pc[p] \in Waiting \cup {"source", "consulting", "excusing", "freeing",
                                "yielding", "committing", "succeeding"}
        /\ at'[p] = at[p] /\ request'[p] = request[p] /\ UNCHANGED <<handle, renewing>>
        /\ pc'[p] = (IF Hosted(p) THEN "ending" ELSE "done")
        /\ ai'[p] = ai[p] \/ (pc[p] = "freeing" /\ ai'[p] = "none")
    BY <1>29, <1>0, EndsHere DEF StruckPlain, TypeOK
  <2>2. p \notin renewing /\ (pc[p] \in Waiting \cup {"yielding"} => at[p] # 0 /\ Hosted(p))
    BY <2>1, <1>0 DEF StageLease, Waiting, Working, Shape, InStage
  <2>3. /\ ai'[p] # "none" => \A j \in 1..MaxStages : broker[p][j] \notin Open
        /\ pc[p] \in Waiting \cup {"yielding"} => ai'[p] = "none"
    BY <2>1 DEF ModelOut, Waiting, Leaving
  <2>4. CASE UNCHANGED broker
    <3>1. StageLease(p)'
      BY <2>1, <2>2, <2>4 DEF StageLease, Clear, Hosted, Waiting, Asking, Working, Early, Open
    <3>2. QED
      BY <2>1, <2>3, <2>4, <3>1 DEF ModelOut, Leaving
  <2>5. CASE pc[p] = "activating" /\ broker[p][at[p]] = "granted" /\ Became(p, "active")
    <3>1. /\ at[p] # 0 /\ handle[p] = "lease" /\ ai'[p] = "none" /\ pc'[p] = "ending"
      BY <2>1, <2>2, <2>3, <2>5 DEF StageLease, Waiting
    <3>2. /\ broker'[p][at[p]] = "active"
          /\ \A j \in 1..MaxStages : j # at[p] => broker'[p][j] = broker[p][j]
      BY <2>5, <3>1, BecameAt DEF Open
    <3>3. at[p] \in Nat /\ MaxStages \in Nat
      BY <1>0, PipelineAssumption DEF TypeOK
    <3>4. /\ \A j \in 1..MaxStages : broker'[p][j] \in Open => j = at[p]
          /\ \A j \in 1..MaxStages : j > at[p] => broker'[p][j] = "none"
      BY <3>2, <3>3 DEF StageLease
    <3>5. StageLease(p)'
      BY <2>1, <2>2, <3>1, <3>2, <3>4 DEF StageLease, Hosted, Waiting, Asking, Working, Early
    <3>6. QED
      BY <3>1, <3>5 DEF ModelOut
  <2>6. CASE pc[p] = "yielding" /\ Freed(p)
    <3>1. /\ at[p] # 0 /\ handle[p] = "lease" /\ ai'[p] = "none" /\ pc'[p] = "ending"
      BY <2>1, <2>2, <2>3, <2>6 DEF StageLease
    <3>2. /\ broker'[p][at[p]] = "closed"
          /\ \A j \in 1..MaxStages : j # at[p] => broker'[p][j] = broker[p][j]
      BY <2>6, <3>1, FreedAt
    <3>3. at[p] \in Nat /\ MaxStages \in Nat
      BY <1>0, PipelineAssumption DEF TypeOK
    <3>4. /\ \A j \in 1..MaxStages : broker'[p][j] \in Open => j = at[p]
          /\ \A j \in 1..MaxStages : j > at[p] => broker'[p][j] = "none"
      BY <3>2, <3>3 DEF StageLease, Open
    <3>5. StageLease(p)'
      BY <2>1, <2>2, <3>1, <3>2, <3>4 DEF StageLease, Hosted, Waiting, Asking, Working, Early
    <3>6. QED
      BY <3>1, <3>5 DEF ModelOut
  <2>7. QED
    BY <1>29, <2>4, <2>5, <2>6 DEF StruckPlain
<1>30. QED
  BY <1>1, <1>2, <1>3, <1>4, <1>5, <1>6, <1>7, <1>8, <1>9, <1>10, <1>11, <1>12, <1>13, <1>14,
     <1>15, <1>16, <1>17, <1>18, <1>19, <1>20, <1>21, <1>22, <1>23, <1>24, <1>25, <1>26, <1>27,
     <1>28, <1>29 DEF TaskStep

\* The records of the Broker may go from open to closed, if no lease is renewed.
LEMMA ShutLease ==
  ASSUME IInv, NEW p \in Pipelines, StageLease(p), ModelOut(p),
         UNCHANGED <<dataVars, pc, ai, handle, renewing>>,
         NEW i \in 1..MaxStages, broker[p][i] \in Open, ~(i = at[p] /\ p \in renewing),
         broker[p][i] = "active" => pc[p] \notin Working \cup {"locking"},
         broker' = [broker EXCEPT ![p][i] = "closed"]
  PROVE  StageLease(p)' /\ ModelOut(p)'
<1>1. broker'[p] = [broker[p] EXCEPT ![i] = "closed"]
      /\ broker[p] \in [1..MaxStages -> {"none", "closed"} \cup Open]
  BY DEF IInv, TypeOK
<1>2. /\ broker'[p][i] = "closed" /\ i = at[p]
      /\ \A j \in 1..MaxStages : j # i => broker'[p][j] = broker[p][j]
  BY <1>1 DEF StageLease
<1>3. /\ \A j \in 1..MaxStages : broker'[p][j] \notin Open
      /\ broker'[p][at[p]] = "closed" /\ broker[p][at[p]] \in Open
  BY <1>2 DEF StageLease, Open
<1>4. /\ request'[p] = request[p] /\ pc'[p] = pc[p] /\ at'[p] = at[p] /\ handle'[p] = handle[p]
      /\ ai'[p] = ai[p] /\ p \notin renewing' /\ p \notin renewing
  BY <1>2 DEF dataVars
<1>5. \A j \in 1..MaxStages : j > at[p] => broker'[p][j] = "none"
  <2>1. MaxStages \in Nat /\ i \in Nat
    BY PipelineAssumption
  <2>2. QED
    BY <1>2, <2>1 DEF StageLease
<1>6. /\ pc[p] \notin Working \cup {"locking"} \cup {"none"} \cup Early \cup Asking
                      \cup {"committing", "succeeding"}
      /\ pc[p] = "done" => handle[p] = "none"
  <2>1. ~Clear(p)
    BY <1>2, <1>3 DEF Clear
  <2>2. ~Leased(p)
    BY <1>4 DEF Leased
  <2>3. QED
    BY <1>3, <2>1, <2>2 DEF StageLease, Open
<1>7. StageLease(p)'
  BY <1>3, <1>4, <1>5, <1>6 DEF StageLease, Stage, Hosted, Open
<1>8. QED
  BY <1>3, <1>4, <1>7 DEF ModelOut

\* A step that leaves the task, its handle and the Broker alone.
LEMMA SameLease ==
  ASSUME IInv, NEW p \in Pipelines, StageLease(p), ModelOut(p),
         UNCHANGED <<dataVars, pc, leaseVars>>, ai[p] = "none" => ai'[p] = "none"
  PROVE  StageLease(p)' /\ ModelOut(p)'
BY DEF StageLease, ModelOut, Clear, Leased, Stage, Hosted, dataVars, leaseVars

\* Every step of a cancellation, of the Host or of its Broker.
LEMMA BesideLease ==
  ASSUME IInv, NEW p \in Pipelines, p \notin Faulty, StageLease(p), ModelOut(p),
         \/ Submit(p) \/ CancelQueued(p) \/ CancelWaiting(p) \/ CancelResumes(p)
         \/ CancelRunning(p) \/ WatchCancels(p) \/ HostAdmits(p) \/ HostEvicts(p)
         \/ BrokerReceives(p) \/ BrokerGrants(p) \/ BrokerRejects(p) \/ BrokerExpires(p)
         \/ HeartbeatFails(p)
  PROVE  StageLease(p)' /\ ModelOut(p)'
<1>0. Shape(p) /\ TypeOK
  BY DEF IInv, Shaped
<1>1. CASE Submit(p)
  <2>1. /\ pc[p] = "none" /\ pc'[p] = "new" /\ at'[p] = at[p]
        /\ UNCHANGED <<handle, renewing, broker, ai>>
    BY <1>0, <1>1 DEF Submit, Shape, TypeOK, leaseVars
  <2>2. ai[p] = "none" /\ p \notin renewing /\ Clear(p)
    BY <2>1 DEF StageLease, ModelOut, Leaving, Working
  <2>3. StageLease(p)'
    BY <2>1, <2>2 DEF StageLease, Clear, Waiting, Asking, Working, Early
  <2>4. QED
    BY <2>1, <2>2, <2>3 DEF ModelOut
<1>2. CASE CancelQueued(p) \/ CancelWaiting(p) \/ CancelRunning(p) \/ WatchCancels(p)
  BY <1>2, SameLease DEF CancelQueued, CancelWaiting, CancelRunning, WatchCancels
<1>3. CASE CancelResumes(p)
  <2> DEFINE c == calling[p]
  <2>1. /\ c \in 1..MaxStages
        /\ broker \in [Pipelines -> [1..MaxStages -> {"none", "closed"} \cup Open]]
    BY <1>0, <1>3, PipelineAssumption DEF TypeOK, CancelResumes
  <2>2. UNCHANGED <<dataVars, pc, ai, handle, renewing>>
    BY <1>3 DEF CancelResumes
  <2>3. broker' = [broker EXCEPT ![p][c] = IF @ \in Open \ {"active"} THEN "closed" ELSE @]
    BY <1>3 DEF CancelResumes
  <2>4. CASE broker[p][c] \in Open \ {"active"}
    <3>1. broker' = [broker EXCEPT ![p][c] = "closed"]
      BY <2>1, <2>3, <2>4
    <3>2. ~(c = at[p] /\ p \in renewing)
      BY <2>4 DEF StageLease, Leased
    <3>3. QED
      BY <2>1, <2>2, <2>4, <3>1, <3>2, ShutLease
  <2>5. CASE broker[p][c] \notin Open \ {"active"}
    <3>1. broker'[p] = [broker[p] EXCEPT ![c] = broker[p][c]] 
          /\ broker[p] \in [1..MaxStages -> {"none", "closed"} \cup Open]
      BY <2>1, <2>3, <2>5
    <3>2. broker'[p] = broker[p]
      BY <2>1, <3>1
    <3>3. QED
      BY <2>2, <3>2 DEF StageLease, ModelOut, Clear, Leased, Stage, Hosted, dataVars
  <2>6. QED
    BY <2>4, <2>5
<1>4. CASE HostAdmits(p) \/ HostEvicts(p)
  <2>1. UNCHANGED <<dataVars, pc, leaseVars>> /\ (ai[p] = "none" => ai'[p] = "none")
    BY <1>0, <1>4 DEF HostAdmits, HostEvicts, TypeOK
  <2>2. QED
    BY <2>1, SameLease
<1>5. CASE BrokerReceives(p)
  <2>1. /\ pc[p] = "requesting" /\ Became(p, "pending") /\ at[p] # 0
        /\ UNCHANGED <<dataVars, pc, ai, handle, renewing>>
    BY <1>0, <1>5 DEF BrokerReceives, Shape, InStage, Waiting
  <2>2. /\ broker'[p][at[p]] = "pending"
        /\ \A j \in 1..MaxStages : j # at[p] => broker'[p][j] = broker[p][j]
    BY <2>1, BecameAt DEF Open
  <2>3. at[p] \in Nat /\ MaxStages \in Nat
    BY <1>0, PipelineAssumption DEF TypeOK
  <2>4. /\ \A j \in 1..MaxStages : broker'[p][j] \in Open => j = at[p]
        /\ \A j \in 1..MaxStages : j > at[p] => broker'[p][j] = "none"
    BY <2>2, <2>3 DEF StageLease
  <2>5. StageLease(p)'
    BY <2>1, <2>2, <2>4 DEF StageLease, Stage, Hosted, Waiting, Asking, Working, Early, dataVars
  <2>6. ai'[p] = "none"
    BY <2>1 DEF ModelOut, Leaving
  <2>7. QED
    BY <2>5, <2>6 DEF ModelOut
<1>6. CASE BrokerGrants(p)
  <2>1. /\ broker[p][at[p]] = "pending" /\ Became(p, "granted") /\ at[p] # 0
        /\ UNCHANGED <<dataVars, pc, ai, handle, renewing>>
    BY <1>0, <1>6 DEF BrokerGrants, TypeOK
  <2>2. /\ broker'[p][at[p]] = "granted"
        /\ \A j \in 1..MaxStages : j # at[p] => broker'[p][j] = broker[p][j]
    BY <2>1, BecameAt DEF Open
  <2>3. at[p] \in 1..MaxStages /\ MaxStages \in Nat
    BY <1>0, <2>1, PipelineAssumption DEF TypeOK
  <2>4. /\ \A j \in 1..MaxStages : broker'[p][j] \in Open => j = at[p]
        /\ \A j \in 1..MaxStages : j > at[p] => broker'[p][j] = "none"
        /\ \A j \in 1..MaxStages : broker'[p][j] = "active" => broker[p][j] = "active"
    BY <2>2, <2>3 DEF StageLease
  <2>5. ~Clear(p) /\ ~Leased(p) /\ ai[p] = "none"
    BY <2>1, <2>3 DEF Clear, Leased, ModelOut, Open
  <2>6. /\ pc[p] \notin Working \cup {"locking"} \cup {"none"} \cup Early \cup Asking
                        \cup {"committing", "succeeding", "yielding"}
        /\ pc[p] = "done" => handle[p] = "none"
    BY <2>1, <2>5 DEF StageLease
  <2>7. StageLease(p)'
    BY <2>1, <2>2, <2>4, <2>6 DEF StageLease, Stage, Hosted, dataVars
  <2>8. QED
    BY <2>1, <2>5, <2>7 DEF ModelOut
<1>7. CASE BrokerRejects(p)
  <2>1. /\ broker[p][at[p]] = "pending" /\ Became(p, "closed") /\ at[p] # 0
        /\ UNCHANGED <<dataVars, pc, ai, handle, renewing>>
    BY <1>0, <1>7 DEF BrokerRejects, TypeOK
  <2>2. at[p] \in 1..MaxStages
    BY <1>0, <2>1, PipelineAssumption DEF TypeOK
  <2>3. p \notin renewing
    BY <2>1 DEF StageLease, Leased
  <2>4. QED
    BY <2>1, <2>2, <2>3, ShutLease DEF Became, Open
<1>8. CASE BrokerExpires(p)
  <2>1. PICK i \in 1..MaxStages :
          /\ Granted(p, i) /\ ~(i = at[p] /\ p \in renewing)
          /\ broker' = [broker EXCEPT ![p][i] = "closed"]
    BY <1>8 DEF BrokerExpires
  <2>2. broker[p][i] \in Open /\ i = at[p]
    BY <2>1 DEF Granted, Open, StageLease
  <2>3. broker[p][i] = "active" => pc[p] \notin Working \cup {"locking"}
    BY <2>1, <2>2 DEF StageLease, Leased, Clear
  <2>4. QED
    BY <1>8, <2>1, <2>2, <2>3, ShutLease DEF BrokerExpires
<1>9. CASE HeartbeatFails(p)
  BY <1>9 DEF HeartbeatFails
<1>10. QED
  BY <1>1, <1>2, <1>3, <1>4, <1>5, <1>6, <1>7, <1>8, <1>9

\* Every step keeps what relates suspension, handle, Broker and model.
LEMMA StepLease == IInv /\ LeaseInv /\ [Next]_vars => LeaseInv'
<1> SUFFICES ASSUME IInv, LeaseInv, [Next]_vars, NEW q \in Pipelines \ Faulty
             PROVE  StageLease(q)' /\ ModelOut(q)'
  BY DEF LeaseInv
<1>1. StageLease(q) /\ ModelOut(q)
  BY DEF LeaseInv
<1>2. ASSUME NEW p \in Pipelines, TaskStep(p) PROVE StageLease(q)' /\ ModelOut(q)'
  <2>1. CASE q = p
    BY <1>1, <1>2, <2>1, TaskLease
  <2>2. CASE q # p
    BY <1>1, <1>2, <2>2, TaskParts, OtherLease
  <2>3. QED
    BY <2>1, <2>2
<1>3. ASSUME NEW p \in Pipelines,
             \/ Submit(p) \/ CancelQueued(p) \/ CancelWaiting(p) \/ CancelResumes(p)
             \/ CancelRunning(p) \/ WatchCancels(p) \/ HostAdmits(p) \/ HostEvicts(p)
             \/ BrokerReceives(p) \/ BrokerGrants(p) \/ BrokerRejects(p) \/ BrokerExpires(p)
             \/ HeartbeatFails(p)
      PROVE  StageLease(q)' /\ ModelOut(q)'
  <2>1. CASE q = p
    BY <1>1, <1>3, <2>1, BesideLease
  <2>2. CASE q # p
    BY <1>1, <1>3, <2>2, BesideParts, OtherLease
  <2>3. QED
    BY <2>1, <2>2
<1>4. CASE UNCHANGED vars
  BY <1>1, <1>4 DEF vars, dataVars, cancelVars, leaseVars, StageLease, ModelOut, Clear, Leased,
                    Stage, Hosted
<1>5. QED
  BY <1>2, <1>3, <1>4 DEF Next

\* Where the Host answers, what the suspension says of a lease is what its Broker says.
THEOREM LeaseInvariance == Spec => [](IInv /\ LeaseInv)
<1>1. Init => IInv /\ LeaseInv
  BY InitIInv, InitLease
<1>2. IInv /\ LeaseInv /\ [Next]_vars => IInv' /\ LeaseInv'
  BY StepIInv, StepLease
<1>3. QED
  BY <1>1, <1>2, PTL DEF Spec

\* A pipeline never holds, or asks for, a lease and the Host's model at once.
THEOREM HoldsOneHolds == Spec => []HoldsOneAtATime
<1>1. LeaseInv => HoldsOneAtATime
  BY DEF LeaseInv, ModelOut, HoldsOneAtATime
<1>2. QED
  BY <1>1, LeaseInvariance, PTL

\* What is open at the Broker belongs to the stage the pipeline is in, and its
\* worker runs under an active lease that is renewed.
THEOREM LeaseOfStageHolds == Spec => []LeaseIsOfTheStage
<1>1. LeaseInv => LeaseIsOfTheStage
  BY DEF LeaseInv, StageLease, Leased, LeaseIsOfTheStage
<1>2. QED
  BY <1>1, LeaseInvariance, PTL

\* A pipeline whose last finally block ran holds no lease, wherever it was cut off.
THEOREM EndsWithoutLeaseHolds == Spec => []EndsWithoutLease
<1>1. LeaseInv => EndsWithoutLease
  BY DEF LeaseInv, StageLease, EndsWithoutLease
<1>2. QED
  BY <1>1, LeaseInvariance, PTL

\* No step of a pipeline leaves the calls that use the Host's model with the model
\* still out, unless a cancellation strikes the release itself.
LEMMA ModelStep ==
  ASSUME IInv, LeaseInv, [Next]_vars, NEW q \in Pipelines \ Faulty,
         pc[q] \in Asking, pc'[q] \notin Asking, ai'[q] # "none"
  PROVE  pc[q] = "freeing" /\ q \in posted
<1>1. StageLease(q) /\ ModelOut(q) /\ TypeOK
  BY DEF LeaseInv, IInv
<1>2. ASSUME NEW p \in Pipelines, TaskStep(p) PROVE pc[q] = "freeing" /\ q \in posted
  <2>1. q = p
    <3>1. TaskPart(p)
      BY <1>2, TaskParts
    <3>2. QED
      BY <3>1, <1>1 DEF TaskPart, TypeOK
  <2>2. pc[q] = "freeing"
    <3>1. CASE pc[q] \in {"consulting", "excusing"}
      <4>1. ai[q] = "none"
        BY <1>1, <3>1 DEF ModelOut, Leaving
      <4>2. Consulted(p) \/ UNCHANGED ai
        BY <1>2, <2>1, <3>1
           DEF TaskStep, At, Struck, Start, FirstFails, FirstReported, Sourced, ConsultFails,
               AiAnswered,
               AiFails, Excused, Recanted, AiFreed, LeaseAnswered, Activated, CallFails, LockAcquired,
               WorkerDone, WorkerFails, WorkerStopped, Yielded, Committed, Reported, Unwound, Released,
               StruckOutside, StruckPlain, StruckAsking, StruckStage, StruckExecuting, StruckEnding
      <4>3. Consulted(p) => pc'[p] = "asking"
        BY MovesTo DEF Consulted
      <4>4. QED
        BY <2>1, <4>1, <4>2, <4>3 DEF Asking
    <3>2. CASE pc[q] \in {"asking", "recanting"}
      <4>1. AiAnswered(p) \/ AiFails(p) \/ Recanted(p) \/ StruckAsking(p)
        BY <1>2, <2>1, <3>2
           DEF TaskStep, At, Struck, Start, FirstFails, FirstReported, Sourced, Consulted,
               ConsultFails,
               Excused, AiFreed, LeaseAnswered, Activated, CallFails, LockAcquired, Waiting,
               WorkerDone, WorkerFails, WorkerStopped, Yielded, Committed, Reported, Unwound, Released,
               StruckOutside, StruckPlain, StruckStage, StruckExecuting, StruckEnding
      <4>2. pc'[p] \in {"freeing", "recanting"}
        BY <4>1, MovesTo DEF AiAnswered, AiFails, Recanted, StruckAsking
      <4>3. QED
        BY <2>1, <4>2 DEF Asking
    <3>3. QED
      BY <3>1, <3>2 DEF Asking
  <2>3. AiFreed(p) \/ StruckPlain(p)
    BY <1>2, <2>1, <2>2
       DEF TaskStep, At, Struck, Start, FirstFails, FirstReported, Sourced, Consulted,
           ConsultFails,
           AiAnswered, AiFails, Excused, Recanted, LeaseAnswered, Activated, CallFails, LockAcquired, Waiting,
           WorkerDone, WorkerFails, WorkerStopped, Yielded, Committed, Reported, Unwound, Released,
           StruckOutside, StruckAsking, StruckStage, StruckExecuting, StruckEnding
  <2>4. AiFreed(p) => ai'[p] = "none"
    BY <1>1, <2>1 DEF AiFreed, TypeOK
  <2>5. QED
    BY <2>1, <2>2, <2>3, <2>4 DEF StruckPlain, Struck
<1>3. ASSUME NEW p \in Pipelines,
             \/ Submit(p) \/ CancelQueued(p) \/ CancelWaiting(p) \/ CancelResumes(p)
             \/ CancelRunning(p) \/ WatchCancels(p) \/ HostAdmits(p) \/ HostEvicts(p)
             \/ BrokerReceives(p) \/ BrokerGrants(p) \/ BrokerRejects(p) \/ BrokerExpires(p)
             \/ HeartbeatFails(p)
      PROVE  pc[q] = "freeing" /\ q \in posted
  <2>1. CASE Submit(p)
    <3>1. Shape(p) /\ pc[p] = "none"
      BY <2>1 DEF IInv, Shaped, Shape, Submit
    <3>2. pc'[q] = pc[q]
      BY <1>1, <2>1, <3>1 DEF Submit, TypeOK, Asking
    <3>3. QED
      BY <3>2
  <2>2. CASE ~Submit(p)
    <3>1. UNCHANGED pc
      BY <1>3, <2>2 DEF CancelQueued, CancelWaiting, CancelResumes, CancelRunning, WatchCancels,
         HostAdmits, HostEvicts, BrokerReceives, BrokerGrants, BrokerRejects, BrokerExpires, HeartbeatFails
    <3>2. QED
      BY <3>1
  <2>3. QED
    BY <2>1, <2>2
<1>4. CASE UNCHANGED vars
  BY <1>4 DEF vars
<1>5. QED
  BY <1>2, <1>3, <1>4 DEF Next

\* The Host's model is given back on every way out of the calls that use it.
THEOREM ModelGivenBackHolds == Spec => ModelGivenBack
<1>1. IInv /\ LeaseInv /\ [Next]_vars =>
        [\A p \in Pipelines \ Faulty :
           pc[p] \in Asking /\ pc'[p] \notin Asking /\ ai'[p] # "none" =>
             pc[p] = "freeing" /\ p \in posted]_vars
  BY ModelStep
<1>2. QED
  BY <1>1, LeaseInvariance, PTL DEF Spec, ModelGivenBack
=============================================================================
