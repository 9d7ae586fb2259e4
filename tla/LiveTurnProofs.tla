--------------------------- MODULE LiveTurnProofs ---------------------------
(***************************************************************************)
(* Proofs about LiveTurn, for every plan, number of turns, chunks and       *)
(* frames, and every capacity of the two queues.                            *)
(*                                                                         *)
(* The pool: OneCaller says that one caller at a time uses it, so that what *)
(* LivePoolProofs says of each operation applies; a socket whose close() is *)
(* cut strands its pool (Stranded), of which less is left to say.           *)
(*                                                                         *)
(* The text: SpeaksItsText and ReplyWhole are not inductive. Where a chunk  *)
(* is, is followed through the tasks: what the client heard, what waits in  *)
(* audio_queue, what synthesis holds, what was kept for later and what      *)
(* waits in text_queue are consecutive numbers (AudioInOrder, TextInOrder), *)
(* up to the number of the last chunk written; and each stage of the turn   *)
(* knows how much of that is over (SaidSoFar).                              *)
(***************************************************************************)
EXTENDS LiveTurn, LivePoolProofs, Integers

\* A chunk that is spoken: its text, the request made for it and what answered.
Chunks == [text : Nat, id : Nat, answer : Nat]

\* The stages at which the turn's task may await an operation of the pool.
PoolStages == {"asr", "evict", "hold", "tts", "drop", "free"}

\* What comes before the answer is written, and before it is spoken.
Unwritten == {"new", "opening", "asr", "gateway", "evict", "hold", "complete"}
Unspoken  == {"unload", "drop", "tts", "speak"}
Streaming == {"group", "free", "again"}
Trying    == (Unwritten \ {"new"}) \cup Unspoken \cup Streaming \cup {"rest"}

TurnTyped ==
  /\ plan \in {"stream", "whole", "staged", "translate"} /\ client \in {"on", "gone"}
  /\ main \in {"none", "new", "settle", "failing", "canceling", "over"} \cup Trying
  /\ writer \in {"on"} \cup Over
  /\ voice \in {"get", "exec", "put"} \cup Over
  /\ speaker \in {"get", "sending"} \cup Over

ChunksTyped ==
  /\ sequential \in BOOLEAN
  /\ wrote \in Nat /\ fallback \in Seq(Nat \ {End}) /\ textQ \in Seq(Nat)
  /\ voice = "exec" => saying.text # End
  /\ audioQ \in Seq(Chunks) /\ spoken \in Seq(Chunks) /\ saying \in Chunks

\* A cancellation cut close() off after the pool was shut: what workers are left
\* stay, and nothing is asked of them any more.
Stranded ==
  /\ op = [NoOp EXCEPT !.step = "stranded"] /\ ~poolOpen
  /\ handler \in {"closing", "over", "abandoned"}
  /\ misled \in BOOLEAN /\ open \in BOOLEAN /\ hold \in BOOLEAN /\ holds \in Nat
  /\ \A k \in Keys : broker[k] \in {"granted", "active"} => k \in leases
  /\ broker \in [Keys -> Requested \cup {"none", "lapsed"}]
  /\ ~misled => holds = (IF hold THEN 1 ELSE 0)
  /\ beat = "recreating" => misled
  /\ ~open => leases = {} /\ beat = "off" /\ ~hold /\ (~misled => hostJob # "open")

\* Who uses the pool: the turn's task, or the synthesis of its group, and nobody
\* once it is shut.  A turn runs only while the socket waits for it, and the tasks
\* of the group only while the turn waits for them.
OneCaller ==
  /\ handler = "turn" <=> main # "none"
  /\ ~InGroup => {writer, voice, speaker} \subseteq Over
  /\ op = NoOp \/ Stranded \/ main \in PoolStages \/ (InGroup /\ voice = "exec")
  /\ ~open => handler = "over"
  /\ ~poolOpen => handler \in {"leaving", "closing", "over", "abandoned"}

PoolKept == OneCaller /\ (PoolInv \/ Stranded)

\* The row while the turn runs and when it is told complete.
RowFollows ==
  /\ main \in Trying => row = "running"
  /\ main = "settle" \/ (main = "over" /\ outcome = "returned") \/ handler = "replying"
       => row = "succeeded"
  /\ told = "complete" => main = "none" /\ handler # "replying" /\ row = "succeeded"

\* Chunks whose synthesis has begun, in a group that has not lost any.
Awaiting == IF voice # "done" THEN Len(audioQ) ELSE IF speaker = "done" THEN 0 ELSE Len(audioQ) - 1
Begun == (Len(spoken) + Awaiting) + (IF voice \in {"exec", "put"} THEN 1 ELSE 0)
Sounding == speaker \in {"get", "sending", "done"}
Intact   == Sounding /\ voice \in {"get", "exec", "put", "done"}

\* What is to be delivered goes on where the client has heard to.
AudioInOrder ==
  main \in Streaming /\ Sounding =>
    /\ \A i \in 1..Len(audioQ) :
         IF audioQ[i] = NoSay THEN i = Len(audioQ) /\ voice = "done"
         ELSE audioQ[i].text = Len(spoken) + i /\ audioQ[i].answer = audioQ[i].id
    /\ speaker = "done" => audioQ = <<>> /\ voice = "done"
    /\ voice = "done" /\ speaker # "done" => audioQ # <<>> /\ audioQ[Len(audioQ)] = NoSay

\* What is to be spoken goes on where synthesis has begun to: first what was kept
\* for later, then the queue.
TextInOrder ==
  main \in Streaming /\ Intact =>
    /\ voice \in {"exec", "put"} => saying.text = Begun
    /\ \A i \in 1..Len(fallback) : fallback[i] = Begun + i
    /\ \A i \in 1..Len(textQ) :
         IF textQ[i] = End THEN i = Len(textQ) /\ writer = "done"
         ELSE textQ[i] = (Begun + Len(fallback)) + i
    /\ writer = "done" /\ textQ # <<>> => textQ[Len(textQ)] = End
    /\ wrote = (Begun + Len(fallback)) +
                 (IF writer = "done" /\ textQ # <<>> THEN Len(textQ) - 1 ELSE Len(textQ))
    /\ voice = "done" => textQ = <<>> /\ writer = "done"
    /\ ~sequential => fallback = <<>>
    /\ main = "again" /\ voice = "done" => fallback = <<>>

\* What the turn has said in each of its stages.
SaidSoFar ==
  /\ voice = "put" => saying.answer = saying.id
  /\ main = "group" /\ voice = "exec" => ~sequential
  /\ main \in Unwritten =>
       /\ wrote = 0 /\ spoken = <<>> /\ fallback = <<>> /\ textQ = <<>> /\ audioQ = <<>>
       /\ ~sequential
  /\ main \in {"hold", "complete"} \cup Unspoken => plan # "stream"
  /\ main \in Streaming \cup {"rest"} => plan = "stream"
  /\ main \in Unspoken => wrote = 1 /\ spoken = <<>>
  /\ main = "speak" => plan = "whole" /\ saying.text = 1 /\ saying.answer = saying.id
  /\ main = "free" => writer = "done" /\ voice = "done" /\ speaker = "done" /\ sequential
  /\ main = "again" => writer \in {"done"} /\ textQ = <<>> /\ sequential
  /\ main = "rest" => Len(spoken) = wrote
  /\ main = "settle" \/ (main = "over" /\ outcome = "returned") \/ handler = "replying" =>
       IF plan \in {"staged", "translate"}
       THEN spoken = <<>> /\ wrote = 1 /\ saying.text = 1 /\ saying.answer = saying.id
       ELSE Len(spoken) = wrote
  /\ told = "complete" => Len(spoken) = wrote

TextInv == TurnTyped /\ ChunksTyped /\ RowFollows /\ AudioInOrder /\ TextInOrder /\ SaidSoFar /\ SpeaksItsText

-----------------------------------------------------------------------------
(* The pool of a push-to-talk socket.                                       *)

\* What a stranded pool has left: only processes and the Host go on.
LEMMA StrandedKeeps == ASSUME Stranded, OneCaller, LiveNext PROVE Stranded'
<1>1. /\ op.step = "stranded" /\ op # NoOp /\ main = "none" /\ ~poolOpen
      /\ handler \in {"closing", "over", "abandoned"} /\ {writer, voice, speaker} \subseteq Over
  BY DEF Stranded, OneCaller, InGroup, NoOp
<1>2. ASSUME UNCHANGED <<handler, hostVars, holdVars, workVars, op>>, misled' \in {misled, TRUE}
      PROVE  Stranded'
  BY <1>2 DEF Stranded, hostVars, holdVars, workVars
<1>3. CASE Socket
  <2>1. Closed BY <1>1, <1>3 DEF Socket, StartFails, Ready, PttStart, Frame, PttStop, Unhosted,
    Run, TurnOver, Reply, Leave, Shut, CloseWorker, CloseOne
  <2>2. /\ leases' = {} /\ broker' = [k \in Keys |-> IF k \in leases THEN "none" ELSE broker[k]]
        /\ beat' = "off" /\ hold' = FALSE /\ open' = FALSE /\ DropHold
        /\ UNCHANGED <<poolOpen, op>> /\ handler' = "over"
        /\ ~misled' => hostJob' # "open"
    BY <2>1 DEF Closed, CloseSession, DropHold, BeatEnds, To
  <2>3. misled' \in BOOLEAN /\ (misled => misled')
    BY <2>2, Zenon DEF DropHold, BeatEnds, Well, HostFault, Stranded
  <2>4. holds' \in Nat /\ (~misled' => holds' = 0)
    <3>1. /\ holds \in Nat /\ (~misled => holds = (IF hold THEN 1 ELSE 0))
          /\ beat = "recreating" => misled
      BY DEF Stranded
    <3>2. CASE hold /\ holds > 0 BY <2>2, <2>3, <3>1, <3>2 DEF DropHold, HostFault, Well
    <3>3. CASE ~(hold /\ holds > 0)
      <4>1. holds' \in {holds} \cup (IF beat = "recreating" THEN {holds + 1} ELSE {})
        BY <2>2, <3>3 DEF DropHold, BeatEnds
      <4>2. holds' \in Nat /\ (holds' = holds \/ (misled /\ holds' = holds + 1)) BY <3>1, <4>1
      <4> QED BY <2>3, <3>1, <3>3, <4>2
    <3> QED BY <3>2, <3>3
  <2>5. \A k \in Keys : broker'[k] \notin {"granted", "active"} BY <2>2 DEF Stranded
  <2>6. broker' \in [Keys -> Requested \cup {"none", "lapsed"}] BY <2>2 DEF Stranded
  <2> QED BY <2>2, <2>3, <2>4, <2>5, <2>6 DEF Stranded
<1>4. CASE Turn \/ Struck
  BY <1>1, <1>4
     DEF Turn, TurnBegins, Opened, Call, Served, HostAnswers, Speak, Settled, GroupLeft,
    InGroup, Struck
<1>5. CASE Voice \/ Produce \/ StreamBreaks \/ Deliver \/ CutTask
  BY <1>1, <1>5
     DEF Voice, TakeChunk, Collect, TakeEnd, Synthesized, PutAudio, Produce, StreamBreaks,
    Deliver, CutTask, Over
<1>6. CASE Disconnect \/ CancelTurn \/ StopTurn
  BY <1>2, <1>6 DEF Disconnect, CancelTurn, StopTurn, Fault, sockVars
<1>7. CASE SocketStruck
  BY <1>1, <1>7 DEF SocketStruck, Stranded, Fault, To, hostVars, holdVars, workVars
<1>8. CASE Background /\ UNCHANGED turnVars
  <2>0. handler' = handler BY <1>8 DEF turnVars, sockVars
  <2>1. /\ UNCHANGED <<handler, op, poolOpen, open, leases, hostJob>>
        /\ misled' \in {misled, TRUE}
    <3>1. CASE \E k \in Keys : Answers(k) \/ Refuses(k) \/ Babbles(k) \/ Dies(k)
      BY <2>0, <3>1 DEF Answers, Refuses, Babbles, Emit, Dies, Well, Fault, hostVars
    <3>2. CASE (\E k \in Keys : Lapses(k)) \/ HoldLost \/ HoldRecreated
      BY <2>0, <3>2 DEF Lapses, HoldLost, HoldRecreated, Well, HostFault, hostVars, workVars
    <3> QED BY <1>8, <3>1, <3>2 DEF Background
  <2>2. CASE \E k \in Keys : Answers(k) \/ Refuses(k) \/ Babbles(k) \/ Dies(k)
    <3>1. UNCHANGED <<hostVars, holdVars>>
      BY <2>2 DEF Answers, Refuses, Babbles, Emit, Dies
    <3> QED BY <2>1, <3>1 DEF Stranded, hostVars, holdVars
  <2>3. ASSUME NEW k \in Keys, Lapses(k) PROVE Stranded'
    <3>1. broker' = [broker EXCEPT ![k] = "lapsed"] /\ misled' = TRUE /\ UNCHANGED holdVars
      BY <2>3 DEF Lapses, HostFault
    <3>2. \A j \in Keys : broker'[j] \in {"granted", "active"} => broker[j] = broker'[j]
      BY <3>1 DEF Stranded
    <3> QED BY <2>1, <3>1, <3>2 DEF Stranded, holdVars
  <2>4. CASE HoldLost
    <3>1. misled' = TRUE /\ beat = "on" /\ broker' = broker /\ holds > 0 /\ holds' = holds - 1
      BY <2>4 DEF HoldLost, HostFault, hostVars
    <3>2. holds' \in Nat BY <3>1 DEF Stranded
    <3>3. hold' \in BOOLEAN BY <2>4, Zenon DEF HoldLost, Stranded
    <3>4. open BY <3>1 DEF Stranded
    <3> QED BY <2>1, <3>1, <3>2, <3>3, <3>4 DEF Stranded
  <2>5. CASE HoldRecreated
    <3>1. /\ beat = "recreating" /\ broker' = broker /\ misled' = misled
          /\ beat' \in {"on", "off"}
          /\ holds' \in {holds, holds + 1}
      BY <2>5 DEF HoldRecreated, Created, Well, hostVars
    <3>2. misled /\ open BY <3>1 DEF Stranded
    <3>3. hold' \in BOOLEAN BY <2>5, Zenon DEF HoldRecreated, Created, Stranded
    <3>4. holds' \in Nat BY <3>1 DEF Stranded
    <3> QED BY <2>1, <3>1, <3>2, <3>3, <3>4 DEF Stranded
  <2> QED BY <1>8, <2>2, <2>3, <2>4, <2>5 DEF Background
<1>9. CASE Operation
  BY <1>1, <1>9 DEF Operation, Evicted, Cleared, Admitting, Granted, Queued, Rejected, RoomMade,
    AdmissionLost, Activated, Spawned, SpawnFailed, Read, ReportFailed, EndOfOutput, HoldCreated,
    HoldRefused, HoldDropped
<1> QED BY <1>3, <1>4, <1>5, <1>6, <1>7, <1>8, <1>9 DEF LiveNext

\* Every step of the socket and its turn takes the pool from one state of PoolInv to
\* another, or strands it.
LEMMA TurnPool == ASSUME PoolInv, OneCaller, TurnTyped, LiveNext PROVE PoolInv' \/ Stranded'
<1>1. /\ "asr" \in Keys /\ "tts" \in Keys /\ FALSE \in BOOLEAN
      /\ (main = "group") \in BOOLEAN
  BY DEF Keys, TurnTyped
<1>2. op.step # "stranded" BY DEF PoolInv, PoolTyped, Operations, Steps
<1>3. handler # "over" => open BY DEF OneCaller
<1>4. main # "none" => open BY DEF OneCaller
<1>5. handler \in {"leaving", "closing"} => op = NoOp
  BY <1>2 DEF OneCaller, PoolStages, InGroup, Stranded, NoOp
<1>6. ASSUME StartFails \/ Unhosted PROVE PoolInv'
  BY <1>6, FaultKeeps DEF StartFails, Unhosted, HostFault
<1>7. ASSUME Ready PROVE PoolInv' BY <1>3, <1>7, StartSessionKeeps DEF Ready
<1>8. ASSUME PttStart \/ Frame \/ PttStop \/ Run \/ TurnOver \/ Reply \/ Leave PROVE PoolInv'
  BY <1>8, StillKeeps DEF PttStart, Frame, PttStop, Run, TurnOver, Reply, Leave
<1>9. ASSUME Shut PROVE PoolInv' BY <1>9, ShutPoolKeeps DEF Shut
<1>10. ASSUME CloseWorker PROVE PoolInv' BY <1>3, <1>10, CloseOneKeeps DEF CloseWorker
<1>11. ASSUME Closed PROVE PoolInv'
  BY <1>1, <1>2, <1>5, <1>11, CloseSessionKeeps DEF Closed
<1>12. ASSUME TurnBegins \/ GroupLeft \/ Collect \/ TakeEnd \/ PutAudio \/ Produce \/ Deliver PROVE PoolInv'
  BY <1>12, StillKeeps DEF TurnBegins, GroupLeft, Collect, TakeEnd, PutAudio, Produce, Deliver
<1>13. ASSUME Opened \/ HostAnswers \/ Speak \/ Settled PROVE PoolInv'
  BY <1>13, FaultKeeps DEF Opened, HostAnswers, Speak, Settled, Well, HostFault
<1>14. ASSUME Call PROVE PoolInv'
  BY <1>1, <1>4, <1>14, ExecuteKeeps, EvictKeeps, EnsureHoldKeeps, ReleaseHoldKeeps DEF Call
<1>15. ASSUME Served PROVE PoolInv'
  BY <1>15, TakeKeeps DEF Served, Well, HostFault
<1>16. ASSUME TakeChunk PROVE PoolInv'
  <2>1. open BY <1>4, <1>16 DEF TakeChunk, OneCaller, InGroup, Over
  <2> QED BY <1>1, <1>16, <2>1, ExecuteKeeps DEF TakeChunk
<1>17. ASSUME Synthesized PROVE PoolInv'
  BY <1>17, TakeKeeps DEF Synthesized
<1>18. ASSUME StreamBreaks \/ Disconnect \/ CancelTurn \/ StopTurn PROVE PoolInv'
  BY <1>18, FaultKeeps DEF StreamBreaks, Disconnect, CancelTurn, StopTurn, HostFault, Fault
<1>19. ASSUME CutTask PROVE PoolInv' BY <1>19, StillKeeps, AbandonKeeps DEF CutTask
<1>20. ASSUME Struck PROVE PoolInv'
  <2>1. CASE UNCHANGED poolVars BY <2>1, StillKeeps
  <2>2. CASE Abandon BY <2>2, AbandonKeeps
  <2>3. CASE op.step = "returned" /\ op' = NoOp /\ UNCHANGED <<faults, misled, hostVars, holdVars, workVars>>
    BY <2>3, TakeKeeps
  <2> QED BY <1>20, <2>1, <2>2, <2>3 DEF Struck
<1>21. ASSUME SocketStruck PROVE PoolInv' \/ Stranded'
  <2>1. UNCHANGED <<misled, hostVars, holdVars, workVars>> BY <1>21 DEF SocketStruck, Fault
  <2>2. CASE op' = op BY <2>1, <2>2, FaultKeeps
  <2>3. CASE op' # op
    <3>1. /\ handler = "leaving" /\ ~poolOpen /\ handler' = "closing"
          /\ op' = [NoOp EXCEPT !.step = "stranded"]
      BY <1>21, <2>3 DEF SocketStruck, To
    <3>2. op.step = "none" /\ open BY <1>3, <1>5, <3>1 DEF NoOp
    <3>3. \A k \in Keys : broker[k] \in {"granted", "active"} => k \in leases
      BY <3>2 DEF PoolInv, LeasesAgree
    <3> QED BY <2>1, <3>1, <3>2, <3>3 DEF Stranded, PoolInv, PoolTyped, HoldCounted, hostVars,
      holdVars, workVars
  <2> QED BY <2>2, <2>3
<1>22. ASSUME Background \/ Operation PROVE PoolInv'
  BY <1>22, BackgroundKeeps, OperationKeeps
<1> QED
  BY <1>6, <1>7, <1>8, <1>9, <1>10, <1>11, <1>12, <1>13, <1>14, <1>15, <1>16, <1>17, <1>18, <1>19,
    <1>20, <1>21, <1>22 DEF LiveNext, Socket, Turn, Voice

-----------------------------------------------------------------------------
(* What the turn writes.                                                    *)

\* An operation that ended well has the answer to its own request.
LEMMA Answered ==
  ASSUME PoolInv \/ Stranded
  PROVE  op.id \in Nat /\ op.answer \in Nat /\ (op.result = "ok" => op.answer = op.id)
  BY DEF PoolInv, PoolTyped, Operations, Correlated, Stranded, NoOp

\* What Append, Head and Tail do to a queue.
LEMMA Appended ==
  ASSUME NEW S, NEW q \in Seq(S), NEW x \in S
  PROVE  /\ Append(q, x) \in Seq(S) /\ Len(Append(q, x)) = Len(q) + 1 /\ Append(q, x) # <<>>
         /\ Append(q, x)[Len(q) + 1] = x
         /\ \A i \in 1..Len(q) : Append(q, x)[i] = q[i]
  OBVIOUS

\* What is taken from its head.
LEMMA Taken ==
  ASSUME NEW S, NEW q \in Seq(S), q # <<>>
  PROVE  /\ Len(q) \in Nat \ {0} /\ Head(q) = q[1] /\ q[1] \in S
         /\ Tail(q) \in Seq(S) /\ Len(Tail(q)) = Len(q) - 1
         /\ \A i \in 1..(Len(q) - 1) : Tail(q)[i] = q[i + 1]
  OBVIOUS

\* A queue of no length is empty.
LEMMA NoneLeft == ASSUME NEW S, NEW q \in Seq(S), Len(q) = 0 PROVE q = <<>>
  OBVIOUS

\* Synthesis takes the head of the queue, or of what was kept for later.
LEMMA TakesChunk ==
  ASSUME ChunksTyped, TakeChunk
  PROVE  /\ voice = "get" /\ voice' = "exec" /\ saying' \in Chunks /\ saying'.text # End
         /\ UNCHANGED <<sockVars, rowVars, wrote, sequential, audioQ, writer, speaker, spoken, told>>
         /\ \/ /\ main = "group" /\ ~sequential /\ textQ # <<>> /\ textQ[1] # End
               /\ saying'.text = textQ[1] /\ textQ' = Tail(textQ) /\ fallback' = fallback
            \/ /\ main # "group" /\ fallback # <<>>
               /\ saying'.text = fallback[1] /\ fallback' = Tail(fallback) /\ textQ' = textQ
<1>1. /\ voice = "get" /\ voice' = "exec" /\ saying' = [NoSay EXCEPT !.text = Head(Pending)]
      /\ Pending # <<>> /\ Head(Pending) # End /\ ~(main = "group" /\ sequential)
      /\ UNCHANGED <<sockVars, rowVars, wrote, sequential, audioQ, writer, speaker, spoken, told>>
      /\ IF main = "group" THEN textQ' = Tail(textQ) /\ UNCHANGED fallback
         ELSE fallback' = (IF fallback = <<>> THEN <<>> ELSE Tail(fallback)) /\ UNCHANGED textQ
  BY DEF TakeChunk, Took
<1>2. CASE main = "group"
  <2>1. Pending = textQ BY <1>2 DEF Pending
  <2>2. Head(textQ) = textQ[1] /\ textQ[1] \in Nat BY <1>1, <2>1, Taken DEF ChunksTyped
  <2>3. saying' \in Chunks /\ saying'.text = textQ[1] BY <1>1, <2>1, <2>2 DEF NoSay, Chunks
  <2> QED BY <1>1, <1>2, <2>1, <2>2, <2>3
<1>3. CASE main # "group"
  <2>1. Pending = fallback \o <<End>> BY <1>3 DEF Pending
  <2>2. fallback # <<>>
    <3>1. CASE fallback = <<>>
      <4>1. Pending = <<End>> BY <2>1, <3>1
      <4> QED BY <1>1, <4>1
    <3> QED BY <3>1
  <2>3. fallback[1] \in Nat \ {End} /\ Len(fallback) \in Nat \ {0} BY <2>2, Taken DEF ChunksTyped
  <2>4. Head(Pending) = fallback[1] BY <2>1, <2>3 DEF ChunksTyped, End
  <2>5. saying' \in Chunks /\ saying'.text = fallback[1] BY <1>1, <2>3, <2>4 DEF NoSay, Chunks
  <2> QED BY <1>1, <1>3, <2>2, <2>5
<1> QED BY <1>2, <1>3

\* The end of the text is the last it takes.
LEMMA TakesEnd ==
  ASSUME ChunksTyped, TakeEnd
  PROVE  /\ voice = "get" /\ voice' = "done" /\ audioQ' = Append(audioQ, NoSay)
         /\ UNCHANGED <<sockVars, rowVars, wrote, fallback, sequential, writer, speaker, saying,
                        spoken, told>>
         /\ \/ main = "group" /\ textQ # <<>> /\ textQ[1] = End /\ textQ' = Tail(textQ)
            \/ main # "group" /\ fallback = <<>> /\ textQ' = textQ
<1>1. /\ voice = "get" /\ voice' = "done" /\ audioQ' = Append(audioQ, NoSay)
      /\ UNCHANGED <<sockVars, rowVars, wrote, fallback, sequential, writer, speaker, saying,
                     spoken, told>>
      /\ Pending # <<>> /\ Head(Pending) = End
      /\ textQ' = (IF main = "group" THEN Tail(textQ) ELSE textQ)
  BY DEF TakeEnd
<1>2. CASE main = "group"
  <2>1. Pending = textQ BY <1>2 DEF Pending
  <2> QED BY <1>1, <1>2, <2>1, Taken DEF ChunksTyped
<1>3. CASE main # "group"
  <2>1. Pending = fallback \o <<End>> BY <1>3 DEF Pending
  <2>2. ASSUME fallback # <<>> PROVE FALSE
    <3>1. fallback[1] \in Nat \ {End} /\ Len(fallback) \in Nat \ {0} BY <2>2,
    Taken DEF ChunksTyped
    <3>2. Head(Pending) = fallback[1] BY <2>1, <3>1 DEF ChunksTyped
    <3> QED BY <1>1, <3>1, <3>2
  <2> QED BY <1>1, <1>3, <2>2
<1> QED BY <1>2, <1>3

-----------------------------------------------------------------------------
(* Types.                                                                   *)

\* Every step takes a task to another of its awaits.
LEMMA TypedStep == ASSUME TurnTyped, ChunksTyped, LiveNext PROVE TurnTyped'
<1> USE DEF TurnTyped, Trying, Unwritten, Unspoken, Streaming, Over, sockVars, rowVars, queueVars,
        groupVars, turnVars, To
<1>1. ASSUME StartFails PROVE TurnTyped'
  BY <1>1 DEF StartFails, HostFault
<1>2. ASSUME Ready PROVE TurnTyped'
  BY <1>2 DEF Ready, StartSession
<1>3. ASSUME PttStart PROVE TurnTyped'
  BY <1>3 DEF PttStart
<1>4. ASSUME Frame PROVE TurnTyped'
  BY <1>4 DEF Frame
<1>5. ASSUME PttStop PROVE TurnTyped'
  BY <1>5 DEF PttStop
<1>6. ASSUME Unhosted PROVE TurnTyped'
  BY <1>6 DEF Unhosted, HostFault
<1>7. ASSUME Run PROVE TurnTyped'
  BY <1>7 DEF Run
<1>8. ASSUME TurnOver PROVE TurnTyped'
  BY <1>8 DEF TurnOver
<1>9. ASSUME Reply PROVE TurnTyped'
  BY <1>9 DEF Reply
<1>10. ASSUME Leave PROVE TurnTyped'
  BY <1>10 DEF Leave
<1>11. ASSUME Shut PROVE TurnTyped'
  BY <1>11 DEF Shut, ShutPool
<1>12. ASSUME CloseWorker PROVE TurnTyped'
  BY <1>12 DEF CloseWorker, CloseOne
<1>13. ASSUME Closed PROVE TurnTyped'
  BY <1>13 DEF Closed, CloseSession
<1>14. ASSUME TurnBegins PROVE TurnTyped'
  BY <1>14 DEF TurnBegins
<1>15. ASSUME Opened PROVE TurnTyped'
  BY <1>15 DEF Opened, FailTurn
<1>16. ASSUME Call PROVE TurnTyped'
  BY <1>16 DEF Call, Execute, Evict, EnsureHold, ReleaseHold
<1>17. ASSUME Served PROVE TurnTyped'
  BY <1>17 DEF Served, GoOn, FailTurn, Route
<1>18. ASSUME HostAnswers PROVE TurnTyped'
  BY <1>18 DEF HostAnswers, GoOn, FailTurn, Route
<1>19. ASSUME Speak PROVE TurnTyped'
  BY <1>19 DEF Speak, GoOn, FailTurn, Route
<1>20. ASSUME Settled PROVE TurnTyped'
  BY <1>20 DEF Settled, Through, FailTurn
<1>21. ASSUME GroupLeft PROVE TurnTyped'
  <2>1. /\ main' \in {"failing", "canceling", "free", "rest"}
        /\ UNCHANGED <<sockVars, groupVars>>
    BY <1>21 DEF GroupLeft, CancelRow, FailTurn
  <2> QED BY <2>1
<1>22. ASSUME TakeChunk PROVE TurnTyped'
  BY <1>22, TakesChunk
<1>23. ASSUME Collect PROVE TurnTyped'
  BY <1>23 DEF Collect
<1>24. ASSUME TakeEnd PROVE TurnTyped'
  BY <1>24, TakesEnd
<1>25. ASSUME Synthesized PROVE TurnTyped'
  BY <1>25 DEF Synthesized
<1>26. ASSUME PutAudio PROVE TurnTyped'
  BY <1>26 DEF PutAudio
<1>27. ASSUME Produce PROVE TurnTyped'
  BY <1>27 DEF Produce
<1>28. ASSUME StreamBreaks PROVE TurnTyped'
  BY <1>28 DEF StreamBreaks
<1>29. ASSUME Deliver PROVE TurnTyped'
  BY <1>29 DEF Deliver
<1>30. ASSUME CutTask PROVE TurnTyped'
  BY <1>30 DEF CutTask, Abandon
<1>31. ASSUME Disconnect PROVE TurnTyped'
  BY <1>31 DEF Disconnect
<1>32. ASSUME SocketStruck PROVE TurnTyped'
  BY <1>32 DEF SocketStruck
<1>33. ASSUME CancelTurn PROVE TurnTyped'
  BY <1>33 DEF CancelTurn
<1>34. ASSUME StopTurn PROVE TurnTyped'
  BY <1>34 DEF StopTurn
<1>35. ASSUME Struck PROVE TurnTyped'
  BY <1>35 DEF Struck, Abandon, CancelRow
<1>36. ASSUME (Background \/ Operation) /\ UNCHANGED turnVars PROVE TurnTyped'
  BY <1>36 DEF turnVars, sockVars
<1> QED
  BY <1>1, <1>2, <1>3, <1>4, <1>5, <1>6, <1>7, <1>8, <1>9, <1>10, <1>11, <1>12, <1>13, <1>14,
     <1>15, <1>16, <1>17, <1>18, <1>19, <1>20, <1>21, <1>22, <1>23, <1>24, <1>25, <1>26, <1>27,
     <1>28, <1>29, <1>30, <1>31, <1>32, <1>33, <1>34, <1>35, <1>36 DEF LiveNext, Socket, Turn,
     Voice

\* What the turn says is built of typed chunks.
LEMMA ChunksStep ==
  ASSUME TurnTyped, ChunksTyped, OneCaller, PoolInv \/ Stranded, LiveNext PROVE ChunksTyped'
<1> USE DEF TurnTyped, ChunksTyped
<1>1. <<>> \in Seq(Nat) /\ <<>> \in Seq(Nat \ {End}) /\ <<>> \in Seq(Chunks)
      /\ NoSay \in Chunks
  BY DEF NoSay, Chunks
<1>20. /\ \A x \in Chunks : /\ <<x>> \in Seq(Chunks) /\ Append(audioQ, x) \in Seq(Chunks)
                            /\ Append(spoken, x) \in Seq(Chunks)
       /\ \A x \in Nat : Append(textQ, x) \in Seq(Nat)
       /\ \A x \in Nat \ {End} : Append(fallback, x) \in Seq(Nat \ {End})
  OBVIOUS
<1>21. /\ audioQ # <<>> => Head(audioQ) \in Chunks /\ Tail(audioQ) \in Seq(Chunks)
       /\ textQ # <<>> => Head(textQ) \in Nat /\ Tail(textQ) \in Seq(Nat)
       /\ fallback # <<>> => Tail(fallback) \in Seq(Nat \ {End})
  OBVIOUS
<1>2. main # "none" \/ {writer, voice, speaker} \subseteq Over BY DEF OneCaller, InGroup
<1>3. ASSUME UNCHANGED <<queueVars, groupVars, spoken>> PROVE ChunksTyped'
  BY <1>3 DEF queueVars, groupVars
<1>4. ASSUME UNCHANGED <<queueVars, saying, spoken>>, voice' = "exec" => voice = "exec"
      PROVE  ChunksTyped'
  BY <1>4 DEF queueVars
<1>5. ASSUME StartFails \/ Ready \/ PttStart \/ Frame \/ PttStop \/ Unhosted \/ TurnOver \/ Leave
             \/ Shut \/ CloseWorker \/ Closed \/ TurnBegins \/ Opened \/ Call \/ Settled
             \/ Disconnect \/ SocketStruck \/ CancelTurn \/ StopTurn \/ Struck
      PROVE  ChunksTyped'
  BY <1>3, <1>5 DEF StartFails, Ready, PttStart, Frame, PttStop, Unhosted, TurnOver, Leave, Shut,
    CloseWorker, Closed, TurnBegins, Opened, Call, Settled, Disconnect, SocketStruck, CancelTurn,
    StopTurn, Struck, turnVars
<1>6. ASSUME StreamBreaks \/ CutTask PROVE ChunksTyped'
  BY <1>4, <1>6 DEF StreamBreaks, CutTask
<1>7. ASSUME (Background \/ Operation) /\ UNCHANGED turnVars PROVE ChunksTyped'
  BY <1>3, <1>7 DEF turnVars
<1>8. ASSUME Run PROVE ChunksTyped'
  <2>2. handler # "turn" BY <1>8 DEF Run
  <2>3. voice' # "exec" BY <1>2, <1>8, <2>2 DEF OneCaller, Run, Over
  <2> QED BY <1>1, <1>8, <2>3 DEF Run
<1>9. ASSUME Reply \/ Speak PROVE ChunksTyped'
  <2>1. spoken' = <<saying>> \/ spoken' = spoken BY <1>9 DEF Reply, Speak
  <2>2. spoken' \in Seq(Chunks) BY <1>20, <2>1
  <2>3. UNCHANGED <<queueVars, groupVars>> BY <1>9 DEF Reply, Speak
  <2> QED BY <2>2, <2>3 DEF queueVars, groupVars
<1>10. ASSUME Served PROVE ChunksTyped'
  <2>1. saying' \in Chunks
    <3>1. saying' = [text |-> 1, id |-> op.id, answer |-> op.answer] \/ saying' = saying
      BY <1>10 DEF Served
    <3> QED BY <3>1, Answered DEF Chunks
  <2>2. UNCHANGED <<queueVars, spoken>> /\ voice' \in {voice, "get"} BY <1>10 DEF Served
  <2>3. voice' # "exec" \/ saying' = saying
    <3>1. saying' = saying \/ main = "tts" BY <1>10 DEF Served
    <3> QED BY <2>2, <3>1 DEF OneCaller, InGroup, Over
  <2> QED BY <2>1, <2>2, <2>3 DEF queueVars
<1>11. ASSUME HostAnswers PROVE ChunksTyped'
  <2>1. /\ wrote' \in {1, wrote} /\ voice' \in {"get", voice}
        /\ UNCHANGED <<fallback, sequential, textQ, audioQ, saying, spoken>>
    BY <1>11 DEF HostAnswers
  <2> QED BY <2>1
<1>12. ASSUME GroupLeft PROVE ChunksTyped'
  <2>1. /\ audioQ' = <<>> /\ UNCHANGED <<wrote, fallback, sequential, textQ, groupVars, spoken>>
    BY <1>12 DEF GroupLeft
  <2> QED BY <1>1, <2>1 DEF groupVars
<1>13. ASSUME TakeChunk PROVE ChunksTyped'
  <2>1. fallback' \in Seq(Nat \ {End}) /\ textQ' \in Seq(Nat)
    BY <1>13, <1>21, TakesChunk
  <2> QED BY <1>13, <2>1, TakesChunk
<1>14. ASSUME TakeEnd PROVE ChunksTyped'
  <2>1. textQ' \in Seq(Nat) BY <1>14, <1>21, TakesEnd
  <2>2. audioQ' \in Seq(Chunks) BY <1>1, <1>14, <1>20, TakesEnd
  <2> QED BY <1>14, <2>1, <2>2, TakesEnd
<1>15. ASSUME Collect PROVE ChunksTyped'
  <2>1. /\ textQ # <<>> /\ Head(textQ) # End /\ textQ' = Tail(textQ)
        /\ fallback' = Append(fallback, Head(textQ))
        /\ UNCHANGED <<wrote, sequential, audioQ, voice, saying, spoken>>
    BY <1>15 DEF Collect, groupVars
  <2>2. Head(textQ) \in Nat \ {End} /\ Tail(textQ) \in Seq(Nat) BY <1>21, <2>1
  <2>3. fallback' \in Seq(Nat \ {End}) BY <1>20, <2>1, <2>2
  <2> QED BY <2>1, <2>2, <2>3
<1>16. ASSUME Synthesized PROVE ChunksTyped'
  <2>1. /\ voice = "exec" /\ voice' # "exec" /\ UNCHANGED <<wrote, textQ, audioQ, spoken>>
        /\ saying' = [saying EXCEPT !.id = op.id, !.answer = op.answer] \/ saying' = saying
        /\ fallback' = Append(fallback, saying.text) \/ fallback' = fallback
        /\ sequential' \in {sequential, TRUE}
    BY <1>16 DEF Synthesized
  <2>2. saying' \in Chunks BY <2>1, Answered DEF Chunks
  <2>3. saying.text \in Nat \ {End} BY <2>1 DEF Chunks
  <2>4. fallback' \in Seq(Nat \ {End}) BY <1>20, <2>1, <2>3
  <2>5. sequential' \in BOOLEAN BY <2>1
  <2> QED BY <2>1, <2>2, <2>4, <2>5
<1>17. ASSUME PutAudio PROVE ChunksTyped'
  <2>1. /\ audioQ' = Append(audioQ, saying) /\ voice' = "get"
        /\ UNCHANGED <<wrote, fallback, sequential, textQ, saying, spoken>>
    BY <1>17 DEF PutAudio
  <2>2. audioQ' \in Seq(Chunks) BY <1>20, <2>1
  <2> QED BY <2>1, <2>2
<1>18. ASSUME Produce PROVE ChunksTyped'
  <2>1. /\ UNCHANGED <<fallback, sequential, audioQ, voice, saying, spoken>>
        /\ \/ wrote' = wrote + 1 /\ textQ' = Append(textQ, wrote + 1)
           \/ wrote' = wrote /\ textQ' = Append(textQ, End)
    BY <1>18 DEF Produce
  <2>2. wrote + 1 \in Nat /\ End \in Nat BY DEF End
  <2>3. textQ' \in Seq(Nat) BY <1>20, <2>1, <2>2
  <2> QED BY <2>1, <2>2, <2>3
<1>19. ASSUME Deliver PROVE ChunksTyped'
  <2>1. /\ UNCHANGED <<wrote, fallback, sequential, textQ, voice, saying>>
        /\ \/ /\ audioQ # <<>> /\ audioQ' = Tail(audioQ)
              /\ spoken' = spoken \/ spoken' = Append(spoken, Head(audioQ))
           \/ UNCHANGED <<audioQ, spoken>>
    BY <1>19 DEF Deliver
  <2>2. audioQ' \in Seq(Chunks) BY <1>21, <2>1
  <2>3. audioQ # <<>> => Head(audioQ) \in Chunks BY <1>21
  <2>4. spoken' \in Seq(Chunks) BY <1>20, <2>1, <2>3
  <2> QED BY <2>1, <2>2, <2>4
<1> QED
  BY <1>5, <1>6, <1>7, <1>8, <1>9, <1>10, <1>11, <1>12, <1>13, <1>14, <1>15, <1>16, <1>17, <1>18,
    <1>19 DEF LiveNext, Socket, Turn, Voice

\* The socket waits for its turn, the turn for its group, and one of them at a time
\* uses the pool.
LEMMA OneCallerStep ==
  ASSUME OneCaller, TurnTyped, PoolInv \/ Stranded, PoolInv' \/ Stranded', LiveNext
  PROVE  OneCaller'
<1> USE DEF OneCaller, InGroup, Over, To, sockVars, rowVars, queueVars, groupVars, turnVars,
        hostVars, holdVars, workVars, poolVars
<1>1. Stranded => Stranded' BY StrandedKeeps
<1>3. ASSUME PttStart \/ Frame \/ PttStop \/ Reply \/ Leave \/ Disconnect PROVE OneCaller'
  BY <1>1, <1>3 DEF PttStart, Frame, PttStop, Reply, Leave, Disconnect
<1>4. ASSUME StartFails \/ Ready \/ Unhosted \/ Shut \/ CloseWorker PROVE OneCaller'
  BY <1>1, <1>4
     DEF StartFails, Ready, Unhosted, Shut, CloseWorker, StartSession, ShutPool, CloseOne
<1>5. ASSUME Closed PROVE OneCaller'
  BY <1>1, <1>5 DEF Closed, CloseSession
<1>6. ASSUME SocketStruck PROVE OneCaller'
  <2>1. /\ handler \notin {"over", "turn"} /\ handler' \notin {"turn"}
        /\ UNCHANGED <<open, poolOpen, main, writer, voice, speaker>>
        /\ ~poolOpen => handler' \in {"closing", "abandoned"}
        /\ op' = op \/ op' = [NoOp EXCEPT !.step = "stranded"]
    BY <1>6 DEF SocketStruck
  <2>2. op' = [NoOp EXCEPT !.step = "stranded"] => Stranded'
    BY DEF PoolInv, PoolTyped, Operations, Steps, NoOp
  <2> QED BY <1>1, <2>1, <2>2
<1>7. ASSUME Run \/ TurnOver \/ TurnBegins \/ Opened \/ Settled PROVE OneCaller'
  BY <1>1, <1>7 DEF Run, TurnOver, TurnBegins, Opened, Settled, Through, FailTurn, PoolStages
<1>8. ASSUME Call PROVE OneCaller'
  BY <1>1, <1>8 DEF Call, Execute, Evict, EnsureHold, ReleaseHold, PoolStages
<1>9. ASSUME Served \/ HostAnswers \/ Speak PROVE OneCaller'
  BY <1>1, <1>9 DEF Served, HostAnswers, Speak, GoOn, FailTurn, Route, PoolStages
<1>10. ASSUME GroupLeft PROVE OneCaller'
  <2>1. /\ InGroup /\ {writer, voice, speaker} \subseteq Over
        /\ main' \in {"failing", "canceling", "free", "rest"}
        /\ UNCHANGED <<poolVars, sockVars, groupVars>>
    BY <1>10 DEF GroupLeft, CancelRow, FailTurn
  <2> QED BY <1>1, <2>1 DEF PoolStages, poolVars
<1>11. ASSUME TakeChunk PROVE OneCaller'
  BY <1>1, <1>11 DEF TakeChunk, Execute
<1>12. ASSUME Collect \/ TakeEnd \/ Synthesized \/ PutAudio PROVE OneCaller'
  BY <1>1, <1>12 DEF Collect, TakeEnd, Synthesized, PutAudio, poolVars
<1>13. ASSUME Produce \/ StreamBreaks \/ Deliver PROVE OneCaller'
  BY <1>1, <1>13 DEF Produce, StreamBreaks, Deliver, poolVars
<1>14. ASSUME CutTask PROVE OneCaller'
  BY <1>1, <1>14 DEF CutTask, Abandon, poolVars
<1>15. ASSUME CancelTurn \/ StopTurn PROVE OneCaller'
  BY <1>1, <1>15 DEF CancelTurn, StopTurn
<1>16. ASSUME Struck PROVE OneCaller'
  BY <1>1, <1>16 DEF Struck, Abandon, CancelRow, poolVars, PoolStages
<1>17. ASSUME Background, UNCHANGED turnVars PROVE OneCaller'
  <2>1. UNCHANGED <<op, open, poolOpen>>
    BY <1>17
       DEF Background, Answers, Refuses, Babbles, Emit, Dies, Lapses, HoldLost, HoldRecreated
  <2> QED BY <1>1, <1>17, <2>1
<1>18. ASSUME Operation, UNCHANGED turnVars PROVE OneCaller'
  <2>1. op # NoOp
    BY <1>18
       DEF NoOp, Operation, Evicted, Cleared, Admitting, Granted, Queued, Rejected, RoomMade,
      AdmissionLost, Activated, Spawned, SpawnFailed, Read, ReportFailed, EndOfOutput, HoldCreated,
      HoldRefused, HoldDropped
  <2>2. UNCHANGED <<open, poolOpen>>
    BY <1>18 DEF Operation, Evicted, Cleared, Admitting, Granted, Queued, Rejected, RoomMade,
      AdmissionLost, Activated, Spawned, SpawnFailed, Read, ReportFailed, EndOfOutput, HoldCreated,
      HoldRefused, HoldDropped
  <2> QED BY <1>1, <1>18, <2>1, <2>2
<1> QED
  BY <1>3, <1>4, <1>5, <1>6, <1>7, <1>8, <1>9, <1>10, <1>11, <1>12, <1>13, <1>14, <1>15, <1>16,
    <1>17, <1>18 DEF LiveNext, Socket, Turn, Voice

\* The row of a turn follows what its task does.
LEMMA RowStep == ASSUME TurnTyped, OneCaller, RowFollows, LiveNext PROVE RowFollows'
<1> USE DEF RowFollows, Trying, Unwritten, Unspoken, Streaming, To, sockVars, rowVars, turnVars
<1>1. handler = "turn" <=> main # "none" BY DEF OneCaller
<1>2. ASSUME StartFails \/ Ready \/ PttStart \/ Frame \/ PttStop \/ Unhosted \/ Leave \/ Shut
             \/ CloseWorker \/ Closed
      PROVE  RowFollows'
  BY <1>2
     DEF StartFails, Ready, PttStart, Frame, PttStop, Unhosted, Leave, Shut, CloseWorker, Closed
<1>3. ASSUME Run \/ TurnOver \/ Reply \/ Disconnect \/ SocketStruck PROVE RowFollows'
  BY <1>1, <1>3 DEF Run, TurnOver, Reply, Disconnect, SocketStruck
<1>4. ASSUME TurnBegins \/ Opened \/ Call \/ Settled PROVE RowFollows'
  <2>1. CASE TurnBegins BY <1>1, <2>1 DEF TurnBegins
  <2>2. CASE Opened BY <1>1, <2>2 DEF Opened, FailTurn
  <2>3. CASE Call BY <2>3 DEF Call
  <2>4. CASE Settled BY <1>1, <2>4 DEF Settled, Through, FailTurn
  <2> QED BY <1>4, <2>1, <2>2, <2>3, <2>4
<1>5. ASSUME Served \/ HostAnswers \/ Speak PROVE RowFollows'
  BY <1>1, <1>5 DEF Served, HostAnswers, Speak, GoOn, FailTurn, Route, TurnTyped
<1>6. ASSUME GroupLeft PROVE RowFollows'
  BY <1>1, <1>6 DEF GroupLeft, CancelRow, FailTurn, InGroup
<1>7. ASSUME Voice \/ Produce \/ StreamBreaks \/ Deliver \/ CutTask PROVE RowFollows'
  BY <1>7 DEF Voice, TakeChunk, Collect, TakeEnd, Synthesized, PutAudio, Produce, StreamBreaks,
    Deliver, CutTask
<1>8. ASSUME CancelTurn \/ StopTurn \/ Struck PROVE RowFollows'
  BY <1>1, <1>8 DEF CancelTurn, StopTurn, Struck, CancelRow
<1>9. ASSUME (Background \/ Operation) /\ UNCHANGED turnVars PROVE RowFollows'
  BY <1>9
<1> QED BY <1>2, <1>3, <1>4, <1>5, <1>6, <1>7, <1>8, <1>9 DEF LiveNext, Socket, Turn

-----------------------------------------------------------------------------
(* What the client hears.                                                   *)
SaidInv == AudioInOrder /\ TextInOrder /\ SaidSoFar /\ SpeaksItsText

\* A step that leaves the turn and what it says alone.
LEMMA SaidIdle ==
  ASSUME SaidInv, UNCHANGED <<plan, main, outcome, queueVars, groupVars, spoken, told>>,
         handler' = "replying" => handler = "replying"
  PROVE  SaidInv'
<1> USE DEF SaidInv, queueVars, groupVars
<1>1. Begun' = Begun BY DEF Begun, Awaiting
<1>2. Intact' = Intact /\ Sounding' = Sounding BY DEF Intact, Sounding
<1>3. AudioInOrder' BY <1>2 DEF AudioInOrder
<1>4. TextInOrder' BY <1>1, <1>2 DEF TextInOrder
<1>5. SaidSoFar' BY DEF SaidSoFar
<1>6. SpeaksItsText' BY DEF SpeaksItsText
<1> QED BY <1>3, <1>4, <1>5, <1>6

\* A step that ends the turn without a result.
LEMMA SaidEnds ==
  ASSUME SaidInv, UNCHANGED <<plan, wrote, spoken, told>>,
         voice' = "put" => UNCHANGED <<voice, saying>>,
         main' \in {"none", "failing", "canceling", "over"},
         main' = "over" => outcome' # "returned", handler' # "replying"
  PROVE  SaidInv'
<1> USE DEF SaidInv, Unwritten, Unspoken, Streaming
<1>1. AudioInOrder' /\ TextInOrder' BY DEF AudioInOrder, TextInOrder
<1>2. SaidSoFar' BY DEF SaidSoFar
<1>3. SpeaksItsText' BY DEF SpeaksItsText
<1> QED BY <1>1, <1>2, <1>3

\* A step of the turn's task between stages that come before the group.
LEMMA SaidGoesOn ==
  ASSUME SaidInv, UNCHANGED <<plan, queueVars, groupVars, spoken, told, handler>>,
         main \in Unwritten, main' \in Unwritten, main' \in {"hold", "complete"} => plan # "stream"
  PROVE  SaidInv'
<1> USE DEF SaidInv, Unwritten, Unspoken, Streaming, queueVars, groupVars
<1>1. AudioInOrder' /\ TextInOrder' BY DEF AudioInOrder, TextInOrder
<1>2. SaidSoFar' BY DEF SaidSoFar
<1>3. SpeaksItsText' BY DEF SpeaksItsText
<1> QED BY <1>1, <1>2, <1>3

\* The steps of the socket.
LEMMA SaidBySocket ==
  ASSUME TurnTyped, ChunksTyped, OneCaller, SaidInv, Socket \/ Disconnect \/ SocketStruck
  PROVE  SaidInv'
<1> USE DEF sockVars, rowVars, turnVars, To
<1>1. handler # "turn" => main = "none" /\ voice # "put" BY DEF OneCaller, InGroup, Over
<1>2. CASE StartFails \/ Ready \/ PttStart \/ Frame \/ PttStop \/ Unhosted \/ Leave \/ Shut
           \/ CloseWorker \/ Closed \/ Disconnect \/ SocketStruck
  BY <1>2, SaidIdle DEF StartFails, Ready, PttStart, Frame, PttStop, Unhosted, Leave, Shut,
    CloseWorker, Closed, Disconnect, SocketStruck
<1>3. CASE Run
  <2>1. /\ main' = "new" /\ handler' = "turn" /\ voice' # "put" /\ told' = "none"
        /\ wrote' = 0 /\ spoken' = <<>> /\ fallback' = <<>> /\ textQ' = <<>> /\ audioQ' = <<>>
        /\ sequential' = FALSE
    BY <1>1, <1>3 DEF Run
  <2>2. AudioInOrder' /\ TextInOrder' BY <2>1 DEF AudioInOrder, TextInOrder, Streaming
  <2>3. SaidSoFar' BY <2>1 DEF SaidSoFar, Unwritten, Unspoken, Streaming
  <2>4. SpeaksItsText' BY <2>1 DEF SpeaksItsText
  <2> QED BY <2>2, <2>3, <2>4 DEF SaidInv
<1>4. CASE TurnOver
  <2>1. /\ main = "over" /\ main' = "none"
        /\ handler' = "replying" => outcome = "returned"
        /\ UNCHANGED <<plan, queueVars, groupVars, spoken>> /\ told' \in {told, "error"}
    BY <1>4 DEF TurnOver
  <2>2. AudioInOrder' /\ TextInOrder' BY <2>1 DEF AudioInOrder, TextInOrder, Streaming
  <2>3. SaidSoFar'
    BY <2>1 DEF SaidInv, SaidSoFar, Unwritten, Unspoken, Streaming, queueVars, groupVars
  <2>4. SpeaksItsText' BY <2>1 DEF SaidInv, SpeaksItsText
  <2> QED BY <2>2, <2>3, <2>4 DEF SaidInv
<1>5. CASE Reply
  <2>1. /\ main = "none" /\ voice # "put" /\ handler = "replying" /\ handler' # "replying"
        /\ UNCHANGED <<plan, rowVars, queueVars, groupVars>>
        /\ \/ /\ spoken' = (IF plan \in {"staged", "translate"} THEN <<saying>> ELSE spoken)
              /\ told' = "complete"
           \/ UNCHANGED <<spoken, told>>
    BY <1>1, <1>5 DEF Reply
  <2>2. AudioInOrder' /\ TextInOrder' BY <2>1 DEF AudioInOrder, TextInOrder, Streaming
  <2>3. IF plan \in {"staged", "translate"}
        THEN wrote = 1 /\ saying.text = 1 /\ saying.answer = saying.id
        ELSE Len(spoken) = wrote
    BY <2>1 DEF SaidInv, SaidSoFar
  <2>4. told' = "complete" => Len(spoken') = wrote'
    <3>1. wrote' = wrote BY <2>1 DEF queueVars
    <3>2. Len(<<saying>>) = 1 OBVIOUS
    <3>3. CASE UNCHANGED <<spoken, told>> BY <3>1, <3>3 DEF SaidInv, SaidSoFar
    <3>4. CASE spoken' = (IF plan \in {"staged", "translate"} THEN <<saying>> ELSE spoken)
      BY <2>3, <3>1, <3>2, <3>4
    <3> QED BY <2>1, <3>3, <3>4
  <2>5. SaidSoFar'
    BY <2>1, <2>4 DEF SaidSoFar, Unwritten, Unspoken, Streaming, groupVars
  <2>6. SpeaksItsText' BY <2>1, <2>3 DEF SaidInv, SpeaksItsText
  <2> QED BY <2>2, <2>5, <2>6 DEF SaidInv
<1> QED BY <1>2, <1>3, <1>4, <1>5 DEF Socket

\* The steps of the turn's task.
LEMMA SaidByTurn ==
  ASSUME TurnTyped, ChunksTyped, OneCaller, RowFollows, PoolInv \/ Stranded, SaidInv,
         Turn \/ Struck
  PROVE  SaidInv'
<1> USE DEF sockVars, rowVars, turnVars, groupVars
<1>1. ~InGroup => {writer, voice, speaker} \subseteq Over BY DEF OneCaller
<1>2. main # "none" => handler # "replying" BY DEF OneCaller
<1>3. CASE TurnBegins \/ Opened
  <2>1. /\ main \in {"new", "opening"}
        /\ UNCHANGED <<plan, queueVars, groupVars, spoken, told, handler>>
        /\ main' \in {"opening", "asr", "failing"} \/ (main' = "over" /\ outcome' = "failed")
    BY <1>3 DEF TurnBegins, Opened, FailTurn
  <2>2. CASE main' \in {"opening", "asr"} BY <2>1, <2>2, SaidGoesOn DEF Unwritten
  <2>3. CASE main' \notin {"opening", "asr"}
    BY <1>2, <2>1, <2>3, SaidEnds DEF queueVars
  <2> QED BY <2>2, <2>3
<1>4. CASE Call BY <1>4, SaidIdle DEF Call
<1>5. CASE Settled
  <2>1. /\ UNCHANGED <<plan, handler, queueVars, groupVars, spoken, told>>
        /\ main \in {"settle", "failing", "canceling"}
        /\ \/ main = "settle" /\ main' = "over" /\ outcome' = "returned"
           \/ main' = "failing" \/ (main' = "over" /\ outcome' # "returned")
    BY <1>5 DEF Settled, Through, FailTurn
  <2>2. CASE main = "settle" /\ main' = "over" /\ outcome' = "returned"
    <3>1. AudioInOrder' /\ TextInOrder' BY <2>2 DEF AudioInOrder, TextInOrder, Streaming
    <3>2. SaidSoFar'
      BY <2>1, <2>2 DEF SaidInv, SaidSoFar, Unwritten, Unspoken, Streaming, queueVars
    <3>3. SpeaksItsText' BY <2>1 DEF SaidInv, SpeaksItsText
    <3> QED BY <3>1, <3>2, <3>3 DEF SaidInv
  <2>3. CASE main' = "failing" \/ (main' = "over" /\ outcome' # "returned")
    BY <1>2, <2>1, <2>3, SaidEnds DEF queueVars
  <2> QED BY <2>1, <2>2, <2>3
<1>6. ASSUME UNCHANGED <<plan, handler, wrote, fallback, textQ, audioQ, sequential, spoken, told, saying>>,
              main = "free", main' = "again", writer' = writer, voice' = "get", speaker' = "get"
       PROVE  SaidInv'
  <2>1. /\ voice = "done" /\ speaker = "done" /\ writer = "done" /\ sequential /\ plan = "stream"
    BY <1>6 DEF SaidInv, SaidSoFar, Streaming
  <2>2. audioQ = <<>> BY <1>6, <2>1 DEF SaidInv, AudioInOrder, Streaming, Sounding
  <2>3. textQ = <<>> BY <1>6, <2>1 DEF SaidInv, TextInOrder, Streaming, Intact, Sounding
  <2>4. Begun' = Begun
    <3>1. Len(audioQ) = 0 BY <2>2
    <3> QED BY <1>6, <2>1, <3>1 DEF Begun, Awaiting
  <2>5. AudioInOrder' BY <1>6, <2>2 DEF AudioInOrder
  <2>6. TextInOrder'
    <3>1. /\ \A i \in 1..Len(fallback) : fallback[i] = Begun + i
          /\ wrote = (Begun + Len(fallback)) + Len(textQ)
      BY <1>6, <2>1, <2>3 DEF SaidInv, TextInOrder, Streaming, Intact, Sounding
    <3> QED BY <1>6, <2>1, <2>3, <2>4, <3>1 DEF TextInOrder
  <2>7. SaidSoFar' BY <1>6, <2>1, <2>3 DEF SaidInv, SaidSoFar, Unwritten, Unspoken, Streaming
  <2>8. SpeaksItsText' BY <1>6 DEF SaidInv, SpeaksItsText
  <2> QED BY <2>5, <2>6, <2>7, <2>8 DEF SaidInv
<1>7. CASE Served
  <2>1. /\ main \in PoolStages /\ UNCHANGED <<plan, queueVars, spoken, told, handler>>
        /\ saying' = (IF main = "tts" /\ op.result = "ok"
                      THEN [text |-> 1, id |-> op.id, answer |-> op.answer] ELSE saying)
        /\ (op.result = "ok" /\ main' = Route) \/ main' = "failing"
        /\ writer' = IF main' = "group" THEN "on" ELSE writer
        /\ voice' = IF main' \in {"group", "again"} THEN "get" ELSE voice
        /\ speaker' = IF main' \in {"group", "again"} THEN "get" ELSE speaker
    BY <1>7 DEF Served, GoOn, FailTurn, PoolStages
  <2>2. {writer, voice, speaker} \subseteq Over BY <1>1, <2>1 DEF PoolStages, InGroup
  <2>3. CASE main' = "failing"
    <3>1. voice' # "put" BY <2>1, <2>2, <2>3 DEF Over
    <3> QED BY <1>2, <2>1, <2>3, <3>1, SaidEnds DEF queueVars, PoolStages
  <2>4. ASSUME op.result = "ok", main' = Route, main = "asr" \/ main = "hold" \/
               (main = "evict" /\ plan # "stream") PROVE SaidInv'
    <3>1. /\ main \in Unwritten /\ main' \in Unwritten
          /\ main' \in {"hold", "complete"} => plan # "stream"
      BY <2>4 DEF Route, Unwritten, TurnTyped, SaidInv, SaidSoFar
    <3>2. main' # "group" /\ main' # "again" /\ main # "tts" BY <2>4, <3>1 DEF Unwritten
    <3> QED BY <2>1, <3>1, <3>2, SaidGoesOn
  <2>5. ASSUME op.result = "ok", main' = Route, main = "evict", plan = "stream" PROVE SaidInv'
    <3>1. /\ main' = "group" /\ writer' = "on" /\ voice' = "get" /\ speaker' = "get"
          /\ saying' = saying
      BY <2>1, <2>5 DEF Route
    <3>2. /\ wrote' = 0 /\ spoken' = <<>> /\ fallback' = <<>> /\ textQ' = <<>> /\ audioQ' = <<>>
          /\ sequential' = sequential /\ ~sequential
      BY <2>1, <2>5 DEF SaidInv, SaidSoFar, Unwritten, queueVars
    <3>3. Begun' = 0 /\ Len(fallback') = 0 /\ Len(textQ') = 0 BY <3>1, <3>2 DEF Begun, Awaiting
    <3>4. AudioInOrder' BY <3>1, <3>2 DEF AudioInOrder
    <3>5. TextInOrder' BY <3>1, <3>2, <3>3 DEF TextInOrder
    <3>6. SaidSoFar'
      BY <1>2, <2>1, <2>5, <3>1, <3>2, <3>3 DEF SaidInv, SaidSoFar, Unwritten, Unspoken, Streaming
    <3>7. SpeaksItsText' BY <3>2 DEF SpeaksItsText
    <3> QED BY <3>4, <3>5, <3>6, <3>7 DEF SaidInv
  <2>6. ASSUME op.result = "ok", main' = Route, main = "tts" PROVE SaidInv'
    <3>1. /\ main' = (IF plan = "whole" THEN "speak" ELSE "settle")
          /\ saying' = [text |-> 1, id |-> op.id, answer |-> op.answer] /\ voice' = voice
          /\ voice # "put"
      BY <2>1, <2>2, <2>6 DEF Route, Over
    <3>2. saying'.text = 1 /\ saying'.answer = saying'.id BY <2>6, <3>1, Answered
    <3>3. wrote' = 1 /\ spoken' = <<>> /\ plan \in {"whole", "staged", "translate"}
      BY <2>1, <2>6 DEF SaidInv, SaidSoFar, Unspoken, queueVars, TurnTyped
    <3>4. AudioInOrder' /\ TextInOrder' BY <3>1 DEF AudioInOrder, TextInOrder, Streaming
    <3>5. SaidSoFar'
      BY <1>2, <2>1, <2>6, <3>1, <3>2, <3>3
         DEF SaidInv, SaidSoFar, Unwritten, Unspoken, Streaming, queueVars
    <3>6. SpeaksItsText' BY <3>3 DEF SpeaksItsText
    <3> QED BY <3>4, <3>5, <3>6 DEF SaidInv
  <2>7. ASSUME op.result = "ok", main' = Route, main = "drop" PROVE SaidInv'
    <3>1. main' = "tts" /\ UNCHANGED <<saying, voice>> /\ voice # "put"
      BY <2>1, <2>2, <2>7 DEF Route, Over
    <3>2. AudioInOrder' /\ TextInOrder' BY <3>1 DEF AudioInOrder, TextInOrder, Streaming
    <3>3. SaidSoFar'
      BY <1>2, <2>1, <2>7, <3>1 DEF SaidInv, SaidSoFar, Unwritten, Unspoken, Streaming, queueVars
    <3>4. SpeaksItsText' BY <2>1 DEF SaidInv, SpeaksItsText
    <3> QED BY <3>2, <3>3, <3>4 DEF SaidInv
  <2>8. ASSUME op.result = "ok", main' = Route, main = "free" PROVE SaidInv'
    <3>1. main' = "again" BY <2>8 DEF Route
    <3> QED BY <1>6, <2>1, <2>8, <3>1 DEF queueVars
  <2> QED BY <2>1, <2>3, <2>4, <2>5, <2>6, <2>7, <2>8 DEF PoolStages
<1>8. CASE HostAnswers
  <2>1. /\ main \in {"gateway", "complete", "unload", "free"}
        /\ UNCHANGED <<plan, handler, fallback, sequential, textQ, audioQ, writer, saying, spoken, told>>
        /\ voice' = IF main' = "again" THEN "get" ELSE voice
        /\ speaker' = IF main' = "again" THEN "get" ELSE speaker
        /\ \/ main' = Route /\ wrote' = (IF main = "complete" THEN 1 ELSE wrote)
           \/ main' = "failing" /\ wrote' = wrote
    BY <1>8 DEF HostAnswers, GoOn, FailTurn
  <2>2. {writer, voice, speaker} \subseteq Over BY <1>1, <2>1 DEF InGroup
  <2>3. CASE main' = "failing" /\ wrote' = wrote
    BY <1>2, <2>1, <2>3, SaidEnds
  <2>4. ASSUME main = "gateway", main' = Route, wrote' = wrote PROVE SaidInv'
    <3>1. main' = "evict" BY <2>4 DEF Route
    <3> QED BY <2>1, <2>4, <3>1, SaidGoesOn DEF Unwritten, queueVars
  <2>5. ASSUME main \in {"complete", "unload"}, main' = Route,
               wrote' = (IF main = "complete" THEN 1 ELSE wrote) PROVE SaidInv'
    <3>1. main' \in {"unload", "drop", "tts"} /\ plan # "stream"
      BY <2>5 DEF Route, SaidInv, SaidSoFar, Unspoken
    <3>2. voice' = voice /\ voice # "put" BY <2>1, <2>2, <3>1 DEF Over
    <3>3. wrote' = 1 /\ spoken' = <<>>
      BY <2>1, <2>5 DEF SaidInv, SaidSoFar, Unwritten, Unspoken
    <3>4. AudioInOrder' /\ TextInOrder' BY <3>1 DEF AudioInOrder, TextInOrder, Streaming
    <3>5. told' # "complete" BY <2>1, <2>5 DEF RowFollows
    <3>6. SaidSoFar'
      BY <1>2, <2>1, <3>1, <3>2, <3>3, <3>5 DEF SaidInv, SaidSoFar, Unwritten, Unspoken, Streaming
    <3>7. SpeaksItsText' BY <3>3 DEF SpeaksItsText
    <3> QED BY <3>4, <3>6, <3>7 DEF SaidInv
  <2>6. ASSUME main = "free", main' = Route, wrote' = wrote PROVE SaidInv'
    <3>1. main' = "again" BY <2>6 DEF Route
    <3> QED BY <1>6, <2>1, <2>6, <3>1
  <2> QED BY <2>1, <2>3, <2>4, <2>5, <2>6
<1>9. CASE Speak
  <2>1. /\ main \in {"speak", "rest"} /\ UNCHANGED <<plan, handler, queueVars, groupVars, told>>
        /\ spoken' = (IF main = "speak" /\ client = "on" THEN <<saying>> ELSE spoken)
        /\ (main' = "settle" /\ (client = "on" \/ main = "rest")) \/ main' = "failing"
    BY <1>9 DEF Speak, GoOn, FailTurn, Route
  <2>2. Len(<<saying>>) = 1 OBVIOUS
  <2>3. main = "speak" => plan = "whole" /\ saying.text = 1 /\ saying.answer = saying.id /\ wrote = 1
    BY DEF SaidInv, SaidSoFar, Unspoken
  <2>4. main = "rest" => plan = "stream" /\ Len(spoken) = wrote BY DEF SaidInv, SaidSoFar
  <2>5. voice # "put" BY <1>1, <2>1 DEF InGroup, Over
  <2>6. AudioInOrder' /\ TextInOrder' BY <2>1 DEF AudioInOrder, TextInOrder, Streaming
  <2>7. main' = "settle" => Len(spoken') = wrote
    BY <2>1, <2>2, <2>3, <2>4
  <2>8. told # "complete" \/ Len(spoken') = wrote'
    BY <2>1, <2>2, <2>3 DEF SaidInv, SaidSoFar, queueVars
  <2>9. SaidSoFar'
    BY <1>2, <2>1, <2>3, <2>4, <2>5, <2>7, <2>8
       DEF SaidSoFar, Unwritten, Unspoken, Streaming, queueVars
  <2>10. SpeaksItsText' BY <2>1, <2>3 DEF SaidInv, SpeaksItsText
  <2> QED BY <2>6, <2>9, <2>10 DEF SaidInv
<1>10. CASE GroupLeft
  <2>1. /\ InGroup /\ {writer, voice, speaker} \subseteq Over /\ audioQ' = <<>>
        /\ UNCHANGED <<plan, handler, wrote, fallback, sequential, textQ, groupVars, spoken, told>>
        /\ \/ main' \in {"failing", "canceling"}
           \/ /\ ~Broken /\ "cut" \notin {writer, voice, speaker}
              /\ main' = IF sequential /\ main = "group" THEN "free" ELSE "rest"
    BY <1>10 DEF GroupLeft, CancelRow, FailTurn
  <2>2. CASE main' \in {"failing", "canceling"}
    <3>1. handler # "replying" BY <1>2, <2>1 DEF InGroup
    <3> QED BY <2>1, <2>2, <3>1, SaidEnds
  <2>3. CASE ~(main' \in {"failing", "canceling"})
    <3>1. /\ writer = "done" /\ voice = "done" /\ speaker = "done" /\ main \in Streaming
          /\ main' = IF sequential /\ main = "group" THEN "free" ELSE "rest"
      BY <2>1, <2>3 DEF Broken, Over, InGroup, Streaming
    <3>2. audioQ = <<>> BY <3>1 DEF SaidInv, AudioInOrder, Sounding
    <3>3. UNCHANGED <<audioQ, writer, voice, speaker, saying>> BY <2>1, <3>2
    <3>4. /\ textQ = <<>> /\ wrote = (Begun + Len(fallback)) + Len(textQ)
          /\ ~sequential \/ main = "again" => fallback = <<>>
      BY <3>1 DEF SaidInv, TextInOrder, Intact, Sounding
    <3>5. Begun = Len(spoken) /\ Begun' = Begun
      BY <2>1, <3>1, <3>3 DEF Begun, Awaiting, ChunksTyped
    <3>6. Intact' = Intact /\ Sounding' = Sounding BY <3>3 DEF Intact, Sounding
    <3>7. AudioInOrder' BY <2>1, <3>1, <3>3 DEF AudioInOrder
    <3>8. TextInOrder'
      <4>1. main' = "free" => main \in Streaming /\ Intact BY <3>1 DEF Intact, Sounding
      <4>2. CASE main' = "rest" BY <4>2 DEF TextInOrder, Streaming
      <4>3. CASE main' = "free"
        BY <2>1, <3>1, <3>3, <3>5, <3>6, <4>1, <4>3 DEF SaidInv, TextInOrder
      <4> QED BY <3>1, <4>2, <4>3
    <3>9. main' = "rest" => Len(spoken) = wrote
      <4>1. ASSUME main' = "rest" PROVE fallback = <<>>
        BY <2>1, <3>1, <3>4, <4>1 DEF InGroup
      <4> QED BY <3>4, <3>5, <4>1 DEF ChunksTyped
    <3>10. plan = "stream" BY <3>1 DEF SaidInv, SaidSoFar
    <3>11. main # "none" /\ handler # "replying" BY <1>2, <3>1 DEF Streaming
    <3>12. SaidSoFar'
      BY <2>1, <3>1, <3>3, <3>9, <3>10, <3>11
         DEF SaidInv, SaidSoFar, Unwritten, Unspoken, Streaming
    <3>13. SpeaksItsText' BY <2>1 DEF SaidInv, SpeaksItsText
    <3> QED BY <3>7, <3>8, <3>12, <3>13 DEF SaidInv
  <2> QED BY <2>2, <2>3
<1>11. CASE Struck
  <2>1. /\ UNCHANGED <<plan, handler, queueVars, groupVars, spoken, told>>
        /\ main # "none" /\ (main' = "canceling" \/ (main' = "over" /\ outcome' = "canceled"))
    BY <1>11 DEF Struck, CancelRow
  <2> QED BY <1>2, <2>1, SaidEnds DEF queueVars
<1> QED BY <1>3, <1>4, <1>5, <1>7, <1>8, <1>9, <1>10, <1>11 DEF Turn

\* The steps of the group leave what was said before it as it is.
LEMMA SaidInGroup ==
  ASSUME OneCaller, RowFollows, SaidInv, InGroup, UNCHANGED <<plan, main, handler, told>>,
         voice' = "put" => saying'.answer = saying'.id,
         main = "group" /\ voice' = "exec" => ~sequential',
         main = "again" => writer' = "done" /\ textQ' = <<>> /\ sequential'
  PROVE  SaidSoFar'
<1>1. main \in {"group", "again"} /\ handler # "replying" /\ told # "complete"
  BY DEF InGroup, OneCaller, RowFollows
<1>2. plan = "stream" BY <1>1 DEF SaidInv, SaidSoFar, Streaming
<1> QED BY <1>1, <1>2 DEF SaidSoFar, Unwritten, Unspoken, Streaming

\* A task of the group that runs, runs in a group.
LEMMA GroupRuns ==
  ASSUME OneCaller, {writer, voice, speaker} \cap {"on", "get", "exec", "put", "sending"} # {}
  PROVE  InGroup /\ main \in Streaming
<1>1. InGroup BY DEF OneCaller, Over
<1> QED BY <1>1 DEF InGroup, Streaming

\* The counts are integers.
LEMMA Counts ==
  ASSUME ChunksTyped
  PROVE  /\ Begun \in Int /\ wrote \in Nat /\ Len(textQ) \in Nat /\ Len(fallback) \in Nat
         /\ Len(audioQ) \in Nat /\ Len(spoken) \in Nat /\ End \in Nat
<1>1. /\ wrote \in Nat /\ Len(textQ) \in Nat /\ Len(fallback) \in Nat /\ Len(audioQ) \in Nat
      /\ Len(spoken) \in Nat /\ End \in Nat
  BY DEF ChunksTyped, End
<1>2. Awaiting \in Int BY <1>1 DEF Awaiting
<1> QED BY <1>1, <1>2 DEF Begun

\* The steps of the task that writes the text.
LEMMA SaidByWriter ==
  ASSUME TurnTyped, ChunksTyped, OneCaller, RowFollows, SaidInv, Produce \/ StreamBreaks
  PROVE  SaidInv'
<1>0. /\ Begun \in Int /\ wrote \in Nat /\ Len(textQ) \in Nat /\ Len(fallback) \in Nat
      /\ End \in Nat
  BY Counts
<1>12. ASSUME NEW x \in Nat, textQ' = Append(textQ, x)
      PROVE  /\ Len(textQ') = Len(textQ) + 1 /\ textQ'[Len(textQ) + 1] = x /\ textQ' # <<>>
             /\ \A i \in 1..Len(textQ) : textQ'[i] = textQ[i]
  <2>1. textQ \in Seq(Nat) BY DEF ChunksTyped
  <2> QED BY <1>12, <2>1, Appended
<1>1. /\ writer = "on"
      /\ UNCHANGED <<sockVars, rowVars, fallback, sequential, audioQ, voice, speaker,
                                      saying, spoken, told>>
  BY DEF Produce, StreamBreaks, queueVars
<1>2. InGroup /\ main \in Streaming BY <1>1, GroupRuns
<1>3. main # "again" BY <1>1 DEF SaidInv, SaidSoFar
<1>4. UNCHANGED <<plan, main, handler, told>> BY <1>1 DEF sockVars, rowVars
<1>5. Begun' = Begun /\ Intact' = Intact /\ Sounding' = Sounding
  BY <1>1 DEF Begun, Awaiting, Intact, Sounding
<1>6. AudioInOrder' BY <1>1, <1>4, <1>5 DEF SaidInv, AudioInOrder
<1>7. SaidSoFar'
  BY <1>1, <1>2, <1>3, <1>4, SaidInGroup DEF SaidInv, SaidSoFar
<1>8. SpeaksItsText' BY <1>1 DEF SaidInv, SpeaksItsText
<1>9. ASSUME Intact PROVE
        /\ voice # "done"
        /\ voice \in {"exec", "put"} => saying.text = Begun
        /\ \A i \in 1..Len(fallback) : fallback[i] = Begun + i
        /\ \A i \in 1..Len(textQ) : textQ[i] # End /\ textQ[i] = (Begun + Len(fallback)) + i
        /\ wrote = (Begun + Len(fallback)) + Len(textQ)
        /\ ~sequential => fallback = <<>>
  BY <1>1, <1>2, <1>9 DEF SaidInv, TextInOrder
<1>10. TextInOrder'
  <2>1. CASE ~Intact BY <1>5, <2>1 DEF TextInOrder
  <2>2. CASE Intact /\ StreamBreaks
    <3>1. writer' = "failed" /\ UNCHANGED <<wrote, textQ>> BY <2>2 DEF StreamBreaks, queueVars
    <3> QED BY <1>1, <1>3, <1>4, <1>5, <1>9, <2>2, <3>1 DEF TextInOrder
  <2>3. ASSUME Intact, Produce, writer' = "on" PROVE TextInOrder'
    <3>1. wrote' = wrote + 1 /\ textQ' = Append(textQ, wrote + 1) BY <2>3 DEF Produce
    <3>2. /\ Len(textQ') = Len(textQ) + 1 /\ textQ'[Len(textQ) + 1] = wrote + 1
          /\ \A i \in 1..Len(textQ) : textQ'[i] = textQ[i]
      BY <1>0, <1>12, <3>1
    <3>3. ASSUME NEW i \in 1..Len(textQ')
          PROVE  textQ'[i] # End /\ textQ'[i] = (Begun + Len(fallback)) + i
      <4>1. CASE i \in 1..Len(textQ) BY <1>9, <2>3, <3>2, <4>1
      <4>2. CASE i = Len(textQ) + 1 BY <1>9, <2>3, <3>2, <4>2, <1>0 DEF End
      <4> QED BY <3>2, <3>3, <4>1, <4>2, <1>0
    <3>4. wrote' = (Begun + Len(fallback)) + Len(textQ')
      BY <1>9, <2>3, <3>1, <3>2, <1>0
    <3> QED BY <1>1, <1>3, <1>4, <1>5, <1>9, <2>3, <3>3, <3>4 DEF TextInOrder
  <2>4. ASSUME Intact, Produce, writer' # "on" PROVE TextInOrder'
    <3>1. wrote' = wrote /\ textQ' = Append(textQ, End) /\ writer' = "done"
      BY <1>1, <2>4 DEF Produce
    <3>2. /\ Len(textQ') = Len(textQ) + 1 /\ textQ'[Len(textQ) + 1] = End /\ textQ' # <<>>
          /\ \A i \in 1..Len(textQ) : textQ'[i] = textQ[i]
      BY <1>0, <1>12, <3>1
    <3>3. ASSUME NEW i \in 1..Len(textQ')
          PROVE  IF textQ'[i] = End THEN i = Len(textQ')
                 ELSE textQ'[i] = (Begun + Len(fallback)) + i
      <4>1. CASE i \in 1..Len(textQ) BY <1>9, <2>4, <3>2, <4>1
      <4>2. CASE i = Len(textQ) + 1 BY <3>2, <4>2
      <4> QED BY <3>2, <3>3, <4>1, <4>2, <1>0
    <3>4. wrote' = (Begun + Len(fallback)) + (Len(textQ') - 1)
      BY <1>9, <2>4, <3>1, <3>2, <1>0
    <3>5. textQ'[Len(textQ')] = End BY <3>2
    <3> QED BY <1>1, <1>3, <1>4, <1>5, <1>9, <2>4, <3>1, <3>2, <3>3, <3>4, <3>5 DEF TextInOrder
  <2> QED BY <2>1, <2>2, <2>3, <2>4
<1> QED BY <1>6, <1>7, <1>8, <1>10 DEF SaidInv

\* Synthesis takes the next chunk.
LEMMA SaidByTakeChunk ==
  ASSUME TurnTyped, ChunksTyped, OneCaller, RowFollows, SaidInv, TakeChunk
  PROVE  SaidInv'
<1>0. /\ Begun \in Int /\ wrote \in Nat /\ Len(textQ) \in Nat /\ Len(fallback) \in Nat
      /\ End \in Nat
  BY Counts
<1>1. /\ voice = "get" /\ voice' = "exec" /\ saying'.text # End
      /\ UNCHANGED <<sockVars, rowVars, wrote, sequential, audioQ, writer, speaker, spoken, told>>
  BY TakesChunk
<1>2. InGroup /\ main \in Streaming BY <1>1, GroupRuns
<1>3. UNCHANGED <<plan, main, handler, told>> BY <1>1 DEF sockVars, rowVars
<1>4. Begun' = Begun + 1
  <2>1. Begun = Len(spoken) + Len(audioQ) /\ Begun' = (Len(spoken) + Len(audioQ)) + 1
    BY <1>1, Counts DEF Begun, Awaiting
  <2> QED BY <2>1
<1>5. Sounding' = Sounding /\ Intact' = Intact BY <1>1 DEF Sounding, Intact
<1>6. AudioInOrder' BY <1>1, <1>3, <1>5 DEF SaidInv, AudioInOrder
<1>7. SpeaksItsText' BY <1>1 DEF SaidInv, SpeaksItsText
<1>8. main = "again" => writer = "done" /\ textQ = <<>> /\ sequential BY DEF SaidInv, SaidSoFar
<1>9. ASSUME Intact PROVE
        /\ \A i \in 1..Len(fallback) : fallback[i] = Begun + i
        /\ \A i \in 1..Len(textQ) :
             IF textQ[i] = End THEN i = Len(textQ) /\ writer = "done"
             ELSE textQ[i] = (Begun + Len(fallback)) + i
        /\ writer = "done" /\ textQ # <<>> => textQ[Len(textQ)] = End
        /\ wrote = (Begun + Len(fallback)) +
                     (IF writer = "done" /\ textQ # <<>> THEN Len(textQ) - 1 ELSE Len(textQ))
        /\ ~sequential => fallback = <<>>
  BY <1>2, <1>9 DEF SaidInv, TextInOrder
<1>10. ASSUME main = "group", ~sequential, textQ # <<>>, textQ[1] # End,
              saying'.text = textQ[1], textQ' = Tail(textQ), fallback' = fallback
       PROVE  SaidInv'
  <2>1. /\ Len(textQ') = Len(textQ) - 1 /\ Len(textQ) \in Nat \ {0}
        /\ \A i \in 1..(Len(textQ) - 1) : textQ'[i] = textQ[i + 1]
    <3>1. textQ \in Seq(Nat) BY DEF ChunksTyped
    <3> QED BY <1>10, <3>1, Taken
  <2>2. SaidSoFar' BY <1>1, <1>2, <1>3, <1>10, SaidInGroup
  <2>3. CASE ~Intact BY <1>5, <1>6, <1>7, <2>2, <2>3 DEF SaidInv, TextInOrder
  <2>4. CASE Intact
    <3>1. fallback = <<>> /\ Len(fallback) = 0 BY <1>9, <1>10, <2>4
    <3>2. saying'.text = Begun'
      <4>1. 1 \in 1..Len(textQ) BY <2>1
      <4>2. textQ[1] = (Begun + Len(fallback)) + 1 BY <1>9, <1>10, <2>4, <4>1
      <4> QED BY <1>0, <1>4, <1>10, <3>1, <4>2
    <3>3. ASSUME NEW i \in 1..Len(textQ')
          PROVE  IF textQ'[i] = End THEN i = Len(textQ') /\ writer' = "done"
                 ELSE textQ'[i] = (Begun' + Len(fallback')) + i
      <4>1. i + 1 \in 1..Len(textQ) /\ textQ'[i] = textQ[i + 1] BY <2>1, <3>3
      <4>2. IF textQ[i + 1] = End THEN i + 1 = Len(textQ) /\ writer = "done"
            ELSE textQ[i + 1] = (Begun + Len(fallback)) + (i + 1)
        BY <1>9, <2>4, <4>1
      <4>3. Len(fallback') = Len(fallback) /\ writer' = writer /\ i \in Nat BY <1>1, <1>10
      <4>4. CASE textQ[i + 1] = End BY <1>0, <2>1, <4>1, <4>2, <4>3, <4>4
      <4>5. CASE textQ[i + 1] # End
        <5>1. textQ[i + 1] = (Begun + Len(fallback)) + (i + 1) BY <4>2, <4>5
        <5> QED BY <1>0, <1>4, <4>1, <4>3, <4>5, <5>1
      <4> QED BY <4>4, <4>5
    <3>4. writer = "done" => textQ' # <<>> /\ textQ'[Len(textQ')] = End
      <4>1. ASSUME writer = "done" PROVE Len(textQ) # 1 /\ textQ[Len(textQ)] = End
        BY <1>9, <1>10, <2>4, <4>1
      <4>2. ASSUME writer = "done" PROVE Len(textQ') # 0 /\ textQ'[Len(textQ')] = End
        BY <2>1, <4>1, <4>2
      <4> QED BY <4>2
    <3>5. wrote' = (Begun' + Len(fallback')) +
                     (IF writer' = "done" /\ textQ' # <<>> THEN Len(textQ') - 1 ELSE Len(textQ'))
      <4>0. wrote' = wrote /\ Len(fallback') = Len(fallback) /\ writer' = writer BY <1>1, <1>10
      <4>1. CASE writer = "done"
        <5>1. wrote = (Begun + Len(fallback)) + (Len(textQ) - 1) BY <1>9, <1>10, <2>4, <4>1
        <5> QED BY <1>0, <1>4, <2>1, <3>4, <4>0, <4>1, <5>1
      <4>2. CASE writer # "done"
        <5>1. wrote = (Begun + Len(fallback)) + Len(textQ) BY <1>9, <2>4, <4>2
        <5> QED BY <1>0, <1>4, <2>1, <4>0, <4>2, <5>1
      <4> QED BY <4>1, <4>2
    <3>6. TextInOrder'
      BY <1>1, <1>3, <1>10, <3>1, <3>2, <3>3, <3>4, <3>5 DEF TextInOrder
    <3> QED BY <1>6, <1>7, <2>2, <3>6 DEF SaidInv
  <2> QED BY <2>3, <2>4
<1>11. ASSUME main # "group", fallback # <<>>,
              saying'.text = fallback[1], fallback' = Tail(fallback), textQ' = textQ
       PROVE  SaidInv'
  <2>1. /\ Len(fallback') = Len(fallback) - 1 /\ Len(fallback) \in Nat \ {0}
        /\ \A i \in 1..(Len(fallback) - 1) : fallback'[i] = fallback[i + 1]
    <3>1. fallback \in Seq(Nat \ {End}) BY DEF ChunksTyped
    <3> QED BY <1>11, <3>1, Taken
  <2>2. main = "again" /\ textQ = <<>> /\ writer = "done" /\ sequential
    BY <1>2, <1>8, <1>11 DEF InGroup
  <2>3. SaidSoFar' BY <1>1, <1>2, <1>3, <1>11, <2>2, SaidInGroup
  <2>4. CASE ~Intact BY <1>5, <1>6, <1>7, <2>3, <2>4 DEF SaidInv, TextInOrder
  <2>5. CASE Intact
    <3>1. saying'.text = Begun' BY <1>0, <1>4, <1>9, <1>11, <2>1, <2>5
    <3>2. ASSUME NEW i \in 1..Len(fallback') PROVE fallback'[i] = Begun' + i
      <4>1. i + 1 \in 1..Len(fallback) /\ fallback'[i] = fallback[i + 1] BY <2>1, <3>2
      <4>2. fallback[i + 1] = Begun + (i + 1) BY <1>9, <2>5, <4>1
      <4> QED BY <1>0, <1>4, <4>1, <4>2
    <3>3. Len(textQ) = 0 BY <2>2
    <3>4. wrote' = (Begun' + Len(fallback')) + Len(textQ')
      BY <1>0, <1>1, <1>4, <1>9, <1>11, <2>1, <2>2, <2>5, <3>3
    <3>5. TextInOrder'
      BY <1>1, <1>3, <1>11, <2>2, <3>1, <3>2, <3>3, <3>4 DEF TextInOrder
    <3> QED BY <1>6, <1>7, <2>3, <3>5 DEF SaidInv
  <2> QED BY <2>4, <2>5
<1> QED BY <1>10, <1>11, TakesChunk

\* After a refusal a chunk is kept for later.
LEMMA SaidByCollect ==
  ASSUME TurnTyped, ChunksTyped, OneCaller, RowFollows, SaidInv, Collect
  PROVE  SaidInv'
<1>0. /\ Begun \in Int /\ wrote \in Nat /\ Len(textQ) \in Nat /\ Len(fallback) \in Nat
      /\ End \in Nat
  BY Counts
<1>1. /\ voice = "get" /\ main = "group" /\ sequential /\ textQ # <<>>
      /\ textQ' = Tail(textQ) /\ fallback' = Append(fallback, Head(textQ))
      /\ UNCHANGED <<plan, main, handler, told, wrote, sequential, audioQ, writer, voice, speaker,
                     saying, spoken>>
  BY DEF Collect, sockVars, rowVars, groupVars
<1>2. InGroup /\ main \in Streaming BY <1>1, GroupRuns
<1>3. /\ Len(textQ') = Len(textQ) - 1 /\ Len(textQ) \in Nat \ {0} /\ Head(textQ) = textQ[1]
      /\ textQ[1] # End /\ textQ[1] \in Nat
      /\ \A i \in 1..(Len(textQ) - 1) : textQ'[i] = textQ[i + 1]
  <2>1. textQ \in Seq(Nat) BY DEF ChunksTyped
  <2>2. Head(textQ) # End BY DEF Collect
  <2> QED BY <1>1, <2>1, <2>2, Taken
<1>4. /\ Len(fallback') = Len(fallback) + 1 /\ fallback'[Len(fallback) + 1] = textQ[1]
      /\ \A i \in 1..Len(fallback) : fallback'[i] = fallback[i]
  <2>1. fallback \in Seq(Nat \ {End}) BY DEF ChunksTyped
  <2> QED BY <1>1, <1>3, <2>1, Appended
<1>5. Begun' = Begun BY <1>1 DEF Begun, Awaiting
<1>6. Sounding' = Sounding /\ Intact' = Intact BY <1>1 DEF Sounding, Intact
<1>7. AudioInOrder' BY <1>1, <1>6 DEF SaidInv, AudioInOrder
<1>8. SpeaksItsText' BY <1>1 DEF SaidInv, SpeaksItsText
<1>9. SaidSoFar' BY <1>1, <1>2, SaidInGroup
<1>10. ASSUME Intact PROVE
        /\ \A i \in 1..Len(fallback) : fallback[i] = Begun + i
        /\ \A i \in 1..Len(textQ) :
             IF textQ[i] = End THEN i = Len(textQ) /\ writer = "done"
             ELSE textQ[i] = (Begun + Len(fallback)) + i
        /\ writer = "done" /\ textQ # <<>> => textQ[Len(textQ)] = End
        /\ wrote = (Begun + Len(fallback)) +
                     (IF writer = "done" /\ textQ # <<>> THEN Len(textQ) - 1 ELSE Len(textQ))
  BY <1>2, <1>10 DEF SaidInv, TextInOrder
<1>11. TextInOrder'
  <2>1. CASE ~Intact BY <1>6, <2>1 DEF TextInOrder
  <2>2. CASE Intact
    <3>1. textQ[1] = (Begun + Len(fallback)) + 1
      <4>1. 1 \in 1..Len(textQ) BY <1>3
      <4> QED BY <1>3, <1>10, <2>2, <4>1
    <3>2. ASSUME NEW i \in 1..Len(fallback') PROVE fallback'[i] = Begun' + i
      <4>1. CASE i \in 1..Len(fallback) BY <1>4, <1>5, <1>10, <2>2, <4>1
      <4>2. CASE i = Len(fallback) + 1 BY <1>0, <1>4, <1>5, <3>1, <4>2
      <4> QED BY <1>0, <1>4, <3>2, <4>1, <4>2
    <3>3. ASSUME NEW i \in 1..Len(textQ')
          PROVE  IF textQ'[i] = End THEN i = Len(textQ') /\ writer' = "done"
                 ELSE textQ'[i] = (Begun' + Len(fallback')) + i
      <4>1. i + 1 \in 1..Len(textQ) /\ textQ'[i] = textQ[i + 1] /\ i \in Nat BY <1>3, <3>3
      <4>2. IF textQ[i + 1] = End THEN i + 1 = Len(textQ) /\ writer = "done"
            ELSE textQ[i + 1] = (Begun + Len(fallback)) + (i + 1)
        BY <1>10, <2>2, <4>1
      <4>0. writer' = writer BY <1>1
      <4>3. CASE textQ[i + 1] = End BY <1>3, <4>0, <4>1, <4>2, <4>3
      <4>4. CASE textQ[i + 1] # End
        <5>1. textQ[i + 1] = (Begun + Len(fallback)) + (i + 1) BY <4>2, <4>4
        <5> QED BY <1>0, <1>4, <1>5, <4>1, <4>4, <5>1
      <4> QED BY <4>3, <4>4
    <3>4. writer = "done" => textQ' # <<>> /\ textQ'[Len(textQ')] = End
      <4>1. ASSUME writer = "done" PROVE Len(textQ) # 1 /\ textQ[Len(textQ)] = End
        <5>1. textQ[Len(textQ)] = End BY <1>1, <1>10, <2>2, <4>1
        <5> QED BY <1>3, <5>1
      <4>2. ASSUME writer = "done" PROVE Len(textQ') # 0 /\ textQ'[Len(textQ')] = End
        BY <1>3, <4>1, <4>2
      <4> QED BY <4>2
    <3>5. wrote' = (Begun' + Len(fallback')) +
                     (IF writer' = "done" /\ textQ' # <<>> THEN Len(textQ') - 1 ELSE Len(textQ'))
      <4>1. CASE writer = "done"
        <5>1. wrote = (Begun + Len(fallback)) + (Len(textQ) - 1) BY <1>1, <1>10, <2>2, <4>1
        <5>2. wrote' = wrote /\ writer' = writer BY <1>1
        <5> QED BY <1>0, <1>3, <1>4, <1>5, <3>4, <4>1, <5>1, <5>2
      <4>2. CASE writer # "done"
        <5>1. wrote = (Begun + Len(fallback)) + Len(textQ) BY <1>10, <2>2, <4>2
        <5>2. wrote' = wrote /\ writer' = writer BY <1>1
        <5> QED BY <1>0, <1>3, <1>4, <1>5, <4>2, <5>1, <5>2
      <4> QED BY <4>1, <4>2
    <3> QED BY <1>1, <3>2, <3>3, <3>4, <3>5 DEF TextInOrder
  <2> QED BY <2>1, <2>2
<1> QED BY <1>7, <1>8, <1>9, <1>11 DEF SaidInv

\* Synthesis finds the end of the text.
LEMMA SaidByTakeEnd ==
  ASSUME TurnTyped, ChunksTyped, OneCaller, RowFollows, SaidInv, TakeEnd
  PROVE  SaidInv'
<1>0. /\ Begun \in Int /\ wrote \in Nat /\ Len(textQ) \in Nat /\ Len(fallback) \in Nat
      /\ Len(audioQ) \in Nat /\ Len(spoken) \in Nat /\ End \in Nat
  BY Counts
<1>1. /\ voice = "get" /\ voice' = "done" /\ audioQ' = Append(audioQ, NoSay)
      /\ UNCHANGED <<plan, main, handler, told, wrote, fallback, sequential, writer, speaker,
                     saying, spoken>>
  BY TakesEnd DEF sockVars, rowVars
<1>2. InGroup /\ main \in Streaming BY <1>1, GroupRuns
<1>3. /\ Len(audioQ') = Len(audioQ) + 1 /\ audioQ'[Len(audioQ) + 1] = NoSay /\ audioQ' # <<>>
      /\ \A i \in 1..Len(audioQ) : audioQ'[i] = audioQ[i]
  <2>1. audioQ \in Seq(Chunks) /\ NoSay \in Chunks BY DEF ChunksTyped, NoSay, Chunks
  <2> QED BY <1>1, <2>1, Appended
<1>4. main = "again" => writer = "done" /\ textQ = <<>> /\ sequential BY DEF SaidInv, SaidSoFar
<1>5. CASE ~Sounding
  <2>1. ~Sounding' BY <1>1, <1>5 DEF Sounding
  <2>2. AudioInOrder' /\ TextInOrder' BY <2>1 DEF AudioInOrder, TextInOrder, Intact
  <2>3. main = "again" => textQ' = <<>> BY <1>4, TakesEnd
  <2>4. SaidSoFar' BY <1>1, <1>2, <1>4, <2>3, SaidInGroup
  <2>5. SpeaksItsText' BY <1>1 DEF SaidInv, SpeaksItsText
  <2> QED BY <2>2, <2>4, <2>5 DEF SaidInv
<1>6. CASE Sounding
  <2>1. Intact /\ Intact' BY <1>1, <1>6 DEF Sounding, Intact
  <2>2. /\ \A i \in 1..Len(audioQ) :
             audioQ[i] # NoSay /\ audioQ[i].text = Len(spoken) + i /\ audioQ[i].answer = audioQ[i].id
        /\ speaker # "done"
    BY <1>1, <1>2, <1>6 DEF SaidInv, AudioInOrder
  <2>3. AudioInOrder'
    <3>1. ASSUME NEW i \in 1..Len(audioQ')
          PROVE  IF audioQ'[i] = NoSay THEN i = Len(audioQ')
                 ELSE audioQ'[i].text = Len(spoken) + i /\ audioQ'[i].answer = audioQ'[i].id
      <4>1. CASE i \in 1..Len(audioQ) BY <1>3, <2>2, <4>1
      <4>2. CASE i = Len(audioQ) + 1 BY <1>3, <4>2
      <4> QED BY <1>0, <1>3, <3>1, <4>1, <4>2
    <3> QED BY <1>1, <1>3, <2>2, <3>1 DEF AudioInOrder
  <2>4. Begun' = Begun
    <3>1. Begun = Len(spoken) + Len(audioQ) BY <1>0, <1>1 DEF Begun, Awaiting
    <3>2. Begun' = Len(spoken) + (Len(audioQ') - 1)
      BY <1>0, <1>1, <1>3, <2>2 DEF Begun, Awaiting
    <3> QED BY <1>0, <1>3, <3>1, <3>2
  <2>5. textQ' = <<>> /\ writer = "done" /\ wrote = Begun + Len(fallback)
        /\ (main = "again" => fallback = <<>>)
    <3>1. CASE main = "group"
      <4>1. textQ # <<>> /\ textQ[1] = End /\ textQ' = Tail(textQ) BY <3>1, TakesEnd
      <4>2. Len(textQ) \in Nat \ {0} /\ Tail(textQ) \in Seq(Nat) /\ Len(Tail(textQ)) = Len(textQ) - 1
        <5>1. textQ \in Seq(Nat) BY DEF ChunksTyped
        <5> QED BY <4>1, <5>1, Taken
      <4>3. Len(textQ) = 1 /\ writer = "done"
        <5>1. 1 \in 1..Len(textQ) BY <4>2
        <5> QED BY <1>2, <2>1, <4>1, <5>1 DEF SaidInv, TextInOrder
      <4>4. textQ' = <<>> BY <4>1, <4>2, <4>3, NoneLeft
      <4>5. wrote = (Begun + Len(fallback)) + (Len(textQ) - 1)
        BY <1>2, <2>1, <4>1, <4>3 DEF SaidInv, TextInOrder
      <4> QED BY <1>0, <3>1, <4>3, <4>4, <4>5
    <3>2. CASE main # "group"
      <4>1. main = "again" /\ fallback = <<>> /\ textQ' = textQ
        BY <1>2, <3>2, TakesEnd DEF InGroup
      <4>2. textQ = <<>> /\ writer = "done" BY <1>4, <4>1
      <4>3. wrote = (Begun + Len(fallback)) + Len(textQ)
        BY <1>2, <2>1, <4>2 DEF SaidInv, TextInOrder
      <4> QED BY <1>0, <4>1, <4>2, <4>3
    <3> QED BY <3>1, <3>2
  <2>6. TextInOrder'
    <3>1. /\ \A i \in 1..Len(fallback) : fallback[i] = Begun + i
          /\ ~sequential => fallback = <<>>
      BY <1>2, <2>1 DEF SaidInv, TextInOrder
    <3>2. Len(textQ') = 0 BY <2>5
    <3>3. wrote' = (Begun' + Len(fallback')) + Len(textQ') BY <1>0, <1>1, <2>4, <2>5, <3>2
    <3> QED BY <1>1, <2>4, <2>5, <3>1, <3>2, <3>3 DEF TextInOrder
  <2>7. SaidSoFar' BY <1>1, <1>2, <1>4, <2>5, SaidInGroup
  <2>8. SpeaksItsText' BY <1>1 DEF SaidInv, SpeaksItsText
  <2> QED BY <2>3, <2>6, <2>7, <2>8 DEF SaidInv
<1> QED BY <1>5, <1>6

\* The worker answered, or was not admitted beside the language model.
LEMMA SaidBySynthesized ==
  ASSUME TurnTyped, ChunksTyped, OneCaller, RowFollows, PoolInv \/ Stranded, SaidInv, Synthesized
  PROVE  SaidInv'
<1>0. /\ Begun \in Int /\ wrote \in Nat /\ Len(textQ) \in Nat /\ Len(fallback) \in Nat
      /\ End \in Nat
  BY Counts
<1>1. /\ voice = "exec"
      /\ UNCHANGED <<plan, main, handler, told, wrote, textQ, audioQ, writer, speaker, spoken>>
      /\ \/ /\ voice' = "put" /\ saying' = [saying EXCEPT !.id = op.id, !.answer = op.answer]
            /\ op.result = "ok" /\ UNCHANGED <<fallback, sequential>>
         \/ /\ main = "group" /\ voice' = "get" /\ sequential' = TRUE
            /\ fallback' = Append(fallback, saying.text) /\ saying' = saying
         \/ voice' = "failed" /\ UNCHANGED <<fallback, sequential, saying>>
  BY DEF Synthesized, sockVars, rowVars
<1>2. InGroup /\ main \in Streaming BY <1>1, GroupRuns
<1>3. main = "again" => writer = "done" /\ textQ = <<>> /\ sequential BY DEF SaidInv, SaidSoFar
<1>4. Sounding' = Sounding BY <1>1 DEF Sounding
<1>5. AudioInOrder' BY <1>1, <1>4 DEF SaidInv, AudioInOrder
<1>6. SpeaksItsText' BY <1>1 DEF SaidInv, SpeaksItsText
<1>7. CASE voice' = "put"
  <2>1. saying'.text = saying.text /\ saying'.answer = saying'.id /\ UNCHANGED <<fallback, sequential>>
    BY <1>1, <1>7, Answered DEF ChunksTyped, Chunks
  <2>2. Intact' = Intact /\ Begun' = Begun BY <1>1, <1>4, <1>7 DEF Intact, Begun, Awaiting
  <2>3. TextInOrder' BY <1>1, <1>7, <2>1, <2>2 DEF SaidInv, TextInOrder
  <2>4. SaidSoFar' BY <1>1, <1>2, <1>3, <1>7, <2>1, SaidInGroup
  <2> QED BY <1>5, <1>6, <2>3, <2>4 DEF SaidInv
<1>8. CASE voice' = "failed"
  <2>1. UNCHANGED <<fallback, sequential, saying>> BY <1>1, <1>8
  <2>2. TextInOrder' BY <1>8 DEF TextInOrder, Intact
  <2>3. SaidSoFar' BY <1>1, <1>2, <1>3, <1>8, <2>1, SaidInGroup
  <2> QED BY <1>5, <1>6, <2>2, <2>3 DEF SaidInv
<1>9. CASE voice' = "get"
  <2>1. main = "group" /\ sequential' = TRUE /\ fallback' = Append(fallback, saying.text)
    BY <1>1, <1>9
  <2>2. ~sequential BY <1>1, <2>1 DEF SaidInv, SaidSoFar
  <2>3. SaidSoFar' BY <1>1, <1>2, <1>9, <2>1, SaidInGroup
  <2>4. Intact' = Intact BY <1>1, <1>4, <1>9 DEF Intact
  <2>5. CASE ~Intact BY <1>5, <1>6, <2>3, <2>4, <2>5 DEF SaidInv, TextInOrder
  <2>6. CASE Intact
    <3>1. Begun' = Begun - 1
      <4>1. Begun = (Len(spoken) + Len(audioQ)) + 1 /\ Begun' = Len(spoken) + Len(audioQ)
        BY <1>1, <1>9, Counts DEF Begun, Awaiting
      <4> QED BY <4>1, Counts
    <3>2. /\ saying.text = Begun /\ fallback = <<>>
          /\ \A i \in 1..Len(textQ) :
               IF textQ[i] = End THEN i = Len(textQ) /\ writer = "done"
               ELSE textQ[i] = (Begun + Len(fallback)) + i
          /\ writer = "done" /\ textQ # <<>> => textQ[Len(textQ)] = End
          /\ wrote = (Begun + Len(fallback)) +
                       (IF writer = "done" /\ textQ # <<>> THEN Len(textQ) - 1 ELSE Len(textQ))
      BY <1>1, <1>2, <2>2, <2>6 DEF SaidInv, TextInOrder
    <3>3. Len(fallback) = 0 BY <3>2
    <3>4. Len(fallback') = 1 /\ fallback'[1] = saying.text
      <4>1. fallback \in Seq(Nat \ {End}) /\ saying.text \in Nat \ {End}
        BY <1>1 DEF ChunksTyped, Chunks
      <4> QED BY <2>1, <3>3, <4>1, Appended
    <3>5. Begun' + Len(fallback') = Begun + Len(fallback) BY <1>0, <3>1, <3>3, <3>4
    <3>6. \A i \in 1..Len(fallback') : fallback'[i] = Begun' + i
      BY <1>0, <3>1, <3>2, <3>4
    <3>7. TextInOrder'
      BY <1>1, <1>9, <2>1, <3>2, <3>5, <3>6 DEF TextInOrder
    <3> QED BY <1>5, <1>6, <2>3, <3>7 DEF SaidInv
  <2> QED BY <2>5, <2>6
<1> QED BY <1>1, <1>7, <1>8, <1>9

\* The chunk is handed to delivery.
LEMMA SaidByPutAudio ==
  ASSUME TurnTyped, ChunksTyped, OneCaller, RowFollows, SaidInv, PutAudio
  PROVE  SaidInv'
<1>0. /\ Begun \in Int /\ Len(audioQ) \in Nat /\ Len(spoken) \in Nat
  BY Counts
<1>1. /\ voice = "put" /\ voice' = "get" /\ audioQ' = Append(audioQ, saying)
      /\ UNCHANGED <<plan, main, handler, told, wrote, fallback, sequential, textQ, writer, speaker,
                     saying, spoken>>
  BY DEF PutAudio, sockVars, rowVars
<1>2. InGroup /\ main \in Streaming BY <1>1, GroupRuns
<1>3. /\ Len(audioQ') = Len(audioQ) + 1 /\ audioQ'[Len(audioQ) + 1] = saying
      /\ \A i \in 1..Len(audioQ) : audioQ'[i] = audioQ[i]
  <2>1. audioQ \in Seq(Chunks) /\ saying \in Chunks BY DEF ChunksTyped
  <2> QED BY <1>1, <2>1, Appended
<1>4. Sounding' = Sounding /\ Intact = Sounding /\ Intact' = Sounding
  BY <1>1 DEF Sounding, Intact
<1>5. Begun = (Len(spoken) + Len(audioQ)) + 1 /\ Begun' = Begun
  <2>1. Begun = (Len(spoken) + Len(audioQ)) + 1 BY <1>0, <1>1 DEF Begun, Awaiting
  <2>2. Begun' = Len(spoken) + Len(audioQ') BY <1>0, <1>1, <1>3 DEF Begun, Awaiting
  <2> QED BY <1>0, <1>3, <2>1, <2>2
<1>6. AudioInOrder'
  <2>1. CASE ~Sounding BY <1>4, <2>1 DEF AudioInOrder
  <2>2. CASE Sounding
    <3>1. saying.text = (Len(spoken) + Len(audioQ)) + 1 /\ saying.answer = saying.id
      BY <1>1, <1>2, <1>4, <1>5, <2>2 DEF SaidInv, TextInOrder, SaidSoFar
    <3>2. saying # NoSay BY <1>0, <3>1 DEF NoSay
    <3>3. /\ \A i \in 1..Len(audioQ) : audioQ[i] # NoSay
                /\ audioQ[i].text = Len(spoken) + i /\ audioQ[i].answer = audioQ[i].id
          /\ speaker # "done"
      BY <1>1, <1>2, <2>2 DEF SaidInv, AudioInOrder
    <3>4. ASSUME NEW i \in 1..Len(audioQ')
          PROVE  audioQ'[i] # NoSay /\ audioQ'[i].text = Len(spoken) + i
                 /\ audioQ'[i].answer = audioQ'[i].id
      <4>1. CASE i \in 1..Len(audioQ) BY <1>3, <3>3, <4>1
      <4>2. CASE i = Len(audioQ) + 1 BY <1>0, <1>3, <3>1, <3>2, <4>2
      <4> QED BY <1>0, <1>3, <3>4, <4>1, <4>2
    <3> QED BY <1>1, <3>3, <3>4 DEF AudioInOrder
  <2> QED BY <2>1, <2>2
<1>7. TextInOrder' BY <1>1, <1>4, <1>5 DEF SaidInv, TextInOrder
<1>8. SaidSoFar'
  <2>1. main = "again" => writer = "done" /\ textQ = <<>> /\ sequential BY DEF SaidInv, SaidSoFar
  <2> QED BY <1>1, <1>2, <2>1, SaidInGroup
<1>9. SpeaksItsText' BY <1>1 DEF SaidInv, SpeaksItsText
<1> QED BY <1>6, <1>7, <1>8, <1>9 DEF SaidInv

\* Delivery says the chunk that is next, or finds that no more follows.
LEMMA SaidByDeliver ==
  ASSUME TurnTyped, ChunksTyped, OneCaller, RowFollows, SaidInv, Deliver
  PROVE  SaidInv'
<1>0. /\ Begun \in Int /\ Len(audioQ) \in Nat /\ Len(spoken) \in Nat
  BY Counts
<1>1. /\ speaker \in {"get", "sending"}
      /\ UNCHANGED <<plan, main, handler, told, wrote, fallback, sequential, textQ, writer, voice,
                     saying>>
      /\ \/ /\ speaker = "get" /\ audioQ # <<>> /\ audioQ' = Tail(audioQ)
            /\ \/ Head(audioQ) = NoSay /\ speaker' = "done" /\ spoken' = spoken
               \/ /\ Head(audioQ) # NoSay /\ speaker' = "sending"
                  /\ spoken' = Append(spoken, Head(audioQ))
               \/ speaker' = "failed" /\ spoken' = spoken
         \/ speaker = "sending" /\ speaker' \in {"get", "failed"} /\ UNCHANGED <<audioQ, spoken>>
  BY DEF Deliver, sockVars, rowVars
<1>2. InGroup /\ main \in Streaming BY <1>1, GroupRuns
<1>3. Sounding BY <1>1 DEF Sounding
<1>4. SaidSoFar'
  <2>1. /\ main = "again" => writer = "done" /\ textQ = <<>> /\ sequential
        /\ voice = "put" => saying.answer = saying.id
        /\ main = "group" /\ voice = "exec" => ~sequential
    BY DEF SaidInv, SaidSoFar
  <2> QED BY <1>1, <1>2, <2>1, SaidInGroup
<1>5. /\ \A i \in 1..Len(audioQ) :
           IF audioQ[i] = NoSay THEN i = Len(audioQ) /\ voice = "done"
           ELSE audioQ[i].text = Len(spoken) + i /\ audioQ[i].answer = audioQ[i].id
      /\ voice = "done" => audioQ # <<>> /\ audioQ[Len(audioQ)] = NoSay
  BY <1>1, <1>2, <1>3 DEF SaidInv, AudioInOrder
<1>6. CASE speaker' = "failed"
  <2>1. AudioInOrder' /\ TextInOrder' BY <1>6 DEF AudioInOrder, TextInOrder, Intact, Sounding
  <2>2. spoken' = spoken BY <1>1, <1>6
  <2>3. SpeaksItsText' BY <2>2 DEF SaidInv, SpeaksItsText
  <2> QED BY <1>4, <2>1, <2>3 DEF SaidInv
<1>7. CASE speaker' = "get"
  <2>1. UNCHANGED <<audioQ, spoken>> /\ speaker = "sending" BY <1>1, <1>7
  <2>2. Intact' = Intact BY <1>1, <1>7 DEF Intact, Sounding
  <2>3. Begun' = Begun BY <1>1, <1>7, <2>1 DEF Begun, Awaiting
  <2>4. AudioInOrder' BY <1>1, <1>5, <1>7, <2>1 DEF AudioInOrder
  <2>5. TextInOrder' BY <1>1, <2>2, <2>3 DEF SaidInv, TextInOrder
  <2>6. SpeaksItsText' BY <2>1 DEF SaidInv, SpeaksItsText
  <2> QED BY <1>4, <2>4, <2>5, <2>6 DEF SaidInv
<1>8. ASSUME speaker' \in {"done", "sending"} PROVE
        /\ speaker = "get" /\ audioQ # <<>> /\ audioQ' = Tail(audioQ)
        /\ Len(audioQ') = Len(audioQ) - 1 /\ Len(audioQ) \in Nat \ {0} /\ Head(audioQ) = audioQ[1]
        /\ \A i \in 1..(Len(audioQ) - 1) : audioQ'[i] = audioQ[i + 1]
        /\ 1 \in 1..Len(audioQ) /\ Head(audioQ) \in Chunks
        /\ audioQ' \in Seq(Chunks)
  <2>1. audioQ \in Seq(Chunks) BY DEF ChunksTyped
  <2>2. speaker = "get" /\ audioQ # <<>> /\ audioQ' = Tail(audioQ) BY <1>1, <1>8
  <2> QED BY <2>1, <2>2, Taken
<1>9. CASE speaker' = "done"
  <2>1. Head(audioQ) = NoSay /\ spoken' = spoken BY <1>1, <1>9
  <2>2. Len(audioQ) = 1 /\ voice = "done" BY <1>5, <1>8, <1>9, <2>1
  <2>3. audioQ' = <<>> BY <1>8, <1>9, <2>2, NoneLeft
  <2>4. Intact' = Intact BY <1>1, <1>9 DEF Intact, Sounding
  <2>5. Begun' = Begun
    <3>1. Begun = Len(spoken) + (Len(audioQ) - 1)
      BY <1>0, <1>8, <1>9, <2>2 DEF Begun, Awaiting
    <3>2. Begun' = Len(spoken) BY <1>0, <1>1, <1>9, <2>1, <2>2 DEF Begun, Awaiting
    <3> QED BY <1>0, <2>2, <3>1, <3>2
  <2>6. AudioInOrder' BY <1>1, <1>9, <2>2, <2>3 DEF AudioInOrder
  <2>7. TextInOrder' BY <1>1, <2>4, <2>5 DEF SaidInv, TextInOrder
  <2>8. SpeaksItsText' BY <2>1 DEF SaidInv, SpeaksItsText
  <2> QED BY <1>4, <2>6, <2>7, <2>8 DEF SaidInv
<1>10. CASE speaker' = "sending"
  <2>1. Head(audioQ) # NoSay /\ spoken' = Append(spoken, Head(audioQ)) BY <1>1, <1>10
  <2>2. audioQ[1].text = Len(spoken) + 1 /\ audioQ[1].answer = audioQ[1].id
    BY <1>5, <1>8, <1>10, <2>1
  <2>3. /\ Len(spoken') = Len(spoken) + 1 /\ spoken'[Len(spoken) + 1] = audioQ[1]
        /\ \A i \in 1..Len(spoken) : spoken'[i] = spoken[i]
        /\ DOMAIN spoken = 1..Len(spoken) /\ DOMAIN spoken' = 1..Len(spoken')
    <3>1. spoken \in Seq(Chunks) BY DEF ChunksTyped
    <3>2. Append(spoken, Head(audioQ)) \in Seq(Chunks) BY <1>8, <1>10, <3>1, Appended
    <3> QED BY <1>8, <1>10, <2>1, <3>1, <3>2, Appended
  <2>4. SpeaksItsText'
    <3>1. ASSUME NEW i \in 1..Len(spoken')
          PROVE  spoken'[i].text = i /\ spoken'[i].answer = spoken'[i].id
      <4>1. CASE i \in 1..Len(spoken) BY <2>3, <4>1 DEF SaidInv, SpeaksItsText
      <4>2. CASE i = Len(spoken) + 1 BY <2>2, <2>3, <4>2
      <4> QED BY <1>0, <2>3, <3>1, <4>1, <4>2
    <3> QED BY <2>3, <3>1 DEF SpeaksItsText
  <2>5. ASSUME NEW i \in 1..Len(audioQ')
        PROVE  IF audioQ'[i] = NoSay THEN i = Len(audioQ') /\ voice = "done"
               ELSE audioQ'[i].text = Len(spoken') + i /\ audioQ'[i].answer = audioQ'[i].id
    <3>1. i + 1 \in 1..Len(audioQ) /\ audioQ'[i] = audioQ[i + 1] /\ i \in Nat
      BY <1>8, <1>10, <2>5
    <3>2. CASE audioQ[i + 1] = NoSay
      <4>1. i + 1 = Len(audioQ) /\ voice = "done" BY <1>5, <3>1, <3>2
      <4> QED BY <1>8, <1>10, <3>1, <3>2, <4>1
    <3>3. CASE audioQ[i + 1] # NoSay
      <4>1. audioQ[i + 1].text = Len(spoken) + (i + 1) /\ audioQ[i + 1].answer = audioQ[i + 1].id
        BY <1>5, <3>1, <3>3
      <4> QED BY <1>0, <2>3, <3>1, <3>3, <4>1
    <3> QED BY <3>2, <3>3
  <2>6. voice = "done" => audioQ' # <<>> /\ audioQ'[Len(audioQ')] = NoSay
    <3>1. ASSUME voice = "done" PROVE Len(audioQ) # 1 /\ audioQ[Len(audioQ)] = NoSay
      <4>1. audioQ[Len(audioQ)] = NoSay BY <1>5, <3>1
      <4> QED BY <1>8, <1>10, <2>1, <4>1
    <3>2. ASSUME voice = "done" PROVE Len(audioQ') # 0 /\ audioQ'[Len(audioQ')] = NoSay
      BY <1>8, <1>10, <3>1, <3>2
    <3> QED BY <3>2
  <2>7. AudioInOrder' BY <1>1, <1>10, <2>5, <2>6 DEF AudioInOrder
  <2>8. Intact' = Intact BY <1>1, <1>10 DEF Intact, Sounding
  <2>9. Begun' = Begun
    <3>0. Len(audioQ') = Len(audioQ) - 1 /\ Len(spoken') = Len(spoken) + 1 BY <1>8, <1>10, <2>3
    <3>1. CASE voice = "done"
      <4>1. Begun = Len(spoken) + (Len(audioQ) - 1)
        BY <1>0, <1>8, <1>10, <3>1 DEF Begun, Awaiting
      <4>2. Begun' = Len(spoken') + (Len(audioQ') - 1)
        BY <1>0, <1>1, <1>8, <1>10, <2>3, <3>1 DEF Begun, Awaiting
      <4> QED BY <1>0, <3>0, <4>1, <4>2
    <3>2. CASE voice # "done"
      <4>1. Begun = (Len(spoken) + Len(audioQ)) + (IF voice \in {"exec", "put"} THEN 1 ELSE 0)
        BY <3>2 DEF Begun, Awaiting
      <4>2. Begun' = (Len(spoken') + Len(audioQ')) + (IF voice \in {"exec", "put"} THEN 1 ELSE 0)
        BY <1>1, <3>2 DEF Begun, Awaiting
      <4>3. Len(spoken') + Len(audioQ') = Len(spoken) + Len(audioQ) BY <1>0, <3>0
      <4> QED BY <4>1, <4>2, <4>3
    <3> QED BY <3>1, <3>2
  <2>10. TextInOrder' BY <1>1, <2>8, <2>9 DEF SaidInv, TextInOrder
  <2> QED BY <1>4, <2>4, <2>7, <2>10 DEF SaidInv
<1> QED BY <1>1, <1>6, <1>7, <1>9, <1>10

\* A task that is cut says no more.
LEMMA SaidByCutTask ==
  ASSUME TurnTyped, ChunksTyped, OneCaller, RowFollows, SaidInv, CutTask
  PROVE  SaidInv'
<1>1. /\ UNCHANGED <<plan, main, handler, told, wrote, fallback, sequential, textQ, audioQ, saying,
                     spoken>>
      /\ \/ writer = "on" /\ writer' = "cut" /\ UNCHANGED <<voice, speaker>>
         \/ /\ voice \in {"get", "put", "exec"} /\ voice' = "cut"
            /\ UNCHANGED <<writer, speaker>>
         \/ speaker \in {"get", "sending"} /\ speaker' = "cut" /\ UNCHANGED <<writer, voice>>
  BY DEF CutTask, sockVars, rowVars, queueVars
<1>2. InGroup /\ main \in Streaming BY <1>1, GroupRuns
<1>3. SaidSoFar'
  <2>1. /\ main = "again" => writer = "done" /\ textQ = <<>> /\ sequential
        /\ voice = "put" => saying.answer = saying.id
        /\ main = "group" /\ voice = "exec" => ~sequential
    BY DEF SaidInv, SaidSoFar
  <2> QED BY <1>1, <1>2, <2>1, SaidInGroup
<1>4. SpeaksItsText' BY <1>1 DEF SaidInv, SpeaksItsText
<1>5. CASE writer = "on" /\ writer' = "cut" /\ UNCHANGED <<voice, speaker>>
  <2>1. Begun' = Begun /\ Intact' = Intact /\ Sounding' = Sounding
    BY <1>1, <1>5 DEF Begun, Awaiting, Intact, Sounding
  <2>2. AudioInOrder' BY <1>1, <1>5, <2>1 DEF SaidInv, AudioInOrder
  <2>3. TextInOrder' BY <1>1, <1>5, <2>1 DEF SaidInv, TextInOrder
  <2> QED BY <1>3, <1>4, <2>2, <2>3 DEF SaidInv
<1>6. CASE voice \in {"get", "put", "exec"} /\ voice' = "cut" /\ UNCHANGED <<writer, speaker>>
  <2>1. TextInOrder' BY <1>6 DEF TextInOrder, Intact
  <2>2. Sounding' = Sounding BY <1>6 DEF Sounding
  <2>3. AudioInOrder' BY <1>1, <1>6, <2>2 DEF SaidInv, AudioInOrder
  <2> QED BY <1>3, <1>4, <2>1, <2>3 DEF SaidInv
<1>7. CASE speaker' = "cut"
  <2>1. AudioInOrder' /\ TextInOrder' BY <1>7 DEF AudioInOrder, TextInOrder, Intact, Sounding
  <2> QED BY <1>3, <1>4, <2>1 DEF SaidInv
<1> QED BY <1>1, <1>5, <1>6, <1>7

-----------------------------------------------------------------------------
(* The invariant of the socket and its turns.                               *)
LiveInv == PoolKept /\ TextInv

\* It holds when the socket opens.
LEMMA LiveStarts == ASSUME LiveInit PROVE LiveInv
<1> USE DEF LiveInit
<1>1. PoolInv BY PoolInitInv
<1>2. OneCaller BY DEF OneCaller, PoolInit, NoOp, Over, InGroup
<1>3. plan \in {"stream", "whole", "staged", "translate"} BY TurnAssumption
<1>4. TurnTyped BY <1>3 DEF TurnTyped, Over, Trying, Unwritten, Unspoken, Streaming
<1>5. ChunksTyped
  <2>1. <<>> \in Seq(Nat) /\ <<>> \in Seq(Nat \ {End}) /\ <<>> \in Seq(Chunks) OBVIOUS
  <2>2. NoSay \in Chunks /\ 0 \in Nat BY DEF NoSay, Chunks
  <2> QED BY <2>1, <2>2 DEF ChunksTyped
<1>6. RowFollows BY DEF RowFollows, Trying, Unwritten, Unspoken, Streaming
<1>7. AudioInOrder /\ TextInOrder BY DEF AudioInOrder, TextInOrder, Streaming
<1>8. SaidSoFar BY DEF SaidSoFar, Unwritten, Unspoken, Streaming
<1>9. SpeaksItsText BY DEF SpeaksItsText
<1> QED BY <1>1, <1>2, <1>4, <1>5, <1>6, <1>7, <1>8, <1>9 DEF LiveInv, PoolKept, TextInv

\* Every step keeps it.
LEMMA LiveKeeps == ASSUME LiveInv, [LiveNext]_liveVars PROVE LiveInv'
<1>1. /\ TurnTyped /\ ChunksTyped /\ OneCaller /\ RowFollows /\ SaidInv
      /\ PoolInv \/ Stranded
  BY DEF LiveInv, PoolKept, TextInv, SaidInv
<1>2. CASE LiveNext
  <2>1. PoolInv' \/ Stranded' BY <1>1, <1>2, StrandedKeeps, TurnPool
  <2>2. OneCaller' BY <1>1, <1>2, <2>1, OneCallerStep
  <2>3. TurnTyped' BY <1>1, <1>2, TypedStep
  <2>4. ChunksTyped' BY <1>1, <1>2, ChunksStep
  <2>5. RowFollows' BY <1>1, <1>2, RowStep
  <2>6. SaidInv'
    <3>1. CASE Socket \/ Disconnect \/ SocketStruck BY <1>1, <3>1, SaidBySocket
    <3>2. CASE Turn \/ Struck BY <1>1, <3>2, SaidByTurn
    <3>3. CASE Produce \/ StreamBreaks BY <1>1, <3>3, SaidByWriter
    <3>4. CASE Voice
      BY <1>1, <3>4, SaidByTakeChunk, SaidByCollect, SaidByTakeEnd, SaidBySynthesized,
         SaidByPutAudio DEF Voice
    <3>5. CASE Deliver \/ CutTask BY <1>1, <3>5, SaidByDeliver, SaidByCutTask
    <3>6. CASE CancelTurn \/ StopTurn
      BY <1>1, <3>6, SaidIdle DEF CancelTurn, StopTurn, sockVars
    <3>7. CASE (Background \/ Operation) /\ UNCHANGED turnVars
      BY <1>1, <3>7, SaidIdle DEF turnVars, sockVars, rowVars
    <3> QED BY <1>2, <3>1, <3>2, <3>3, <3>4, <3>5, <3>6, <3>7 DEF LiveNext
  <2> QED BY <2>1, <2>2, <2>3, <2>4, <2>5, <2>6 DEF LiveInv, PoolKept, TextInv, SaidInv
<1>3. CASE UNCHANGED liveVars
  <2>1. UNCHANGED <<poolVars, handler, plan, main, outcome, queueVars, groupVars, spoken, told>>
    BY <1>3 DEF liveVars, turnVars, sockVars, rowVars
  <2>2. PoolInv' \/ Stranded'
    <3>1. CASE PoolInv BY <2>1, <3>1, StillKeeps
    <3>2. CASE Stranded
      BY <2>1, <3>2 DEF Stranded, poolVars, hostVars, holdVars, workVars
    <3> QED BY <1>1, <3>1, <3>2
  <2>3. Stranded => Stranded'
    BY <2>1 DEF Stranded, poolVars, hostVars, holdVars, workVars
  <2>4. OneCaller'
    BY <1>1, <2>1, <2>3 DEF OneCaller, InGroup, poolVars, workVars, groupVars
  <2>5. TurnTyped' /\ ChunksTyped' /\ RowFollows'
    BY <1>1, <1>3 DEF TurnTyped, ChunksTyped, RowFollows, liveVars, turnVars, sockVars, rowVars,
      queueVars, groupVars
  <2>6. SaidInv' BY <1>1, <2>1, SaidIdle
  <2> QED BY <2>2, <2>4, <2>5, <2>6 DEF LiveInv, PoolKept, TextInv, SaidInv
<1> QED BY <1>2, <1>3

\* LiveInv is an invariant of every push-to-talk socket.
THEOREM LiveInvariance == LiveSpec => []LiveInv
<1>1. LiveInit => LiveInv BY LiveStarts
<1>2. LiveInv /\ [LiveNext]_liveVars => LiveInv' BY LiveKeeps
<1> QED BY <1>1, <1>2, PTL DEF LiveSpec

\* What the pool promises holds under a push-to-talk socket too: a worker that lives
\* on the GPU has its lease, and a session that is over has given back what it held.
THEOREM LivePoolHolds == LiveSpec => [](WorkerUnderLease /\ GivesBack)
<1>1. LiveInv => WorkerUnderLease /\ GivesBack
  <2>1. ASSUME PoolInv PROVE WorkerUnderLease /\ GivesBack BY <2>1, PoolInvSuffices
  <2>2. ASSUME Stranded PROVE WorkerUnderLease /\ GivesBack
    BY <2>2 DEF Stranded, WorkerUnderLease, GivesBack, NoOp
  <2> QED BY <2>1, <2>2 DEF LiveInv, PoolKept
<1> QED BY <1>1, LiveInvariance, PTL

\* What the client hears is the answer's text in its order, every chunk once, and
\* each with the audio that was made for it, however the tasks of the group overlap,
\* fail or are cut, and across the change to the fallback.
THEOREM SpeaksItsTextHolds == LiveSpec => []SpeaksItsText
<1>1. LiveInv => SpeaksItsText BY DEF LiveInv, TextInv
<1> QED BY <1>1, LiveInvariance, PTL

\* A turn that the client is told complete succeeded and was spoken to its last chunk.
THEOREM ReplyWholeHolds == LiveSpec => []ReplyWhole
<1>1. LiveInv => ReplyWhole
  <2>1. ASSUME LiveInv, told = "complete" PROVE row = "succeeded" /\ Len(spoken) = wrote
    BY <2>1 DEF LiveInv, TextInv, RowFollows, SaidSoFar
  <2> QED BY <2>1 DEF ReplyWhole
<1> QED BY <1>1, LiveInvariance, PTL

\* Once the turn's row says failed or canceled, nothing more is spoken.
THEOREM QuietAfterEndHolds == LiveSpec => QuietAfterEnd
<1>1. ASSUME LiveInv, [LiveNext]_liveVars
      PROVE  Len(spoken') > Len(spoken) => row \notin {"failed", "canceled"}
  <2>1. TurnTyped /\ ChunksTyped /\ OneCaller /\ RowFollows BY <1>1 DEF LiveInv, PoolKept, TextInv
  <2>2. ASSUME Len(spoken') > Len(spoken) PROVE Reply \/ Speak \/ Deliver
    <3>1. spoken' # spoken BY <2>1, <2>2, Counts
    <3>2. ~(Run /\ spoken' = <<>>)
      <4>1. ASSUME spoken' = <<>> PROVE FALSE
        <5>1. Len(spoken') = 0 BY <4>1
        <5> QED BY <2>1, <2>2, <5>1, Counts
      <4> QED BY <4>1
    <3> QED
      BY <1>1, <3>1, <3>2 DEF LiveNext, Socket, Turn, Voice, StartFails, Ready, PttStart, Frame,
        PttStop, Unhosted, Run, TurnOver, Leave, Shut, CloseWorker, Closed, TurnBegins, Opened,
        Call, Served, HostAnswers, Settled, GroupLeft, TakeChunk, Collect, TakeEnd, Synthesized,
        PutAudio, Produce, StreamBreaks, CutTask, Disconnect, SocketStruck, CancelTurn, StopTurn,
        Struck, turnVars, liveVars
  <2>3. ASSUME Reply PROVE row = "succeeded" BY <2>1, <2>3 DEF Reply, RowFollows
  <2>4. ASSUME Speak PROVE row = "running"
    BY <2>1, <2>4 DEF Speak, RowFollows, Trying, Unspoken
  <2>5. ASSUME Deliver PROVE row = "running"
    <3>1. speaker \in {"get", "sending"} BY <2>5 DEF Deliver
    <3> QED BY <2>1, <3>1, GroupRuns DEF RowFollows, Trying
  <2> QED BY <2>2, <2>3, <2>4, <2>5
<1> QED BY <1>1, LiveInvariance, PTL DEF LiveSpec, QuietAfterEnd

=============================================================================
