------------------------------- MODULE LiveTurn -------------------------------
(***************************************************************************)
(* A push-to-talk socket (live_api.live_ws) and its turns (LiveTurnRunner   *)
(* with the overlapped streaming of live_streaming_extensions) over one     *)
(* LivePool. The socket records, starts a turn, waits for it and answers;   *)
(* the turn transcribes, asks the Host's language model and speaks. When    *)
(* the Host streams, three tasks of a TaskGroup overlap: text, synthesis    *)
(* and delivery, with a bounded queue between each two; when the speech     *)
(* worker is not admitted beside the language model, what is left is spoken *)
(* after the model was released.                                            *)
(*                                                                         *)
(* Text is the number of its chunk. A send is one step with what follows it *)
(* and raises when the client is gone; the older device protocol sends no   *)
(* events but audio, so that a turn may also not notice.                    *)
(***************************************************************************)
EXTENDS LivePool

CONSTANTS
  Plans,     \* what sessions do: see Route
  MaxTurns,  \* bound: turns of one socket
  MaxChunks, \* bound: chunks the language model's answer is cut into
  MaxAudio,  \* frames until max_utterance_seconds is reached
  TextCap, AudioCap  \* the bounds of text_queue and audio_queue: 4 and 2

ASSUME TurnAssumption ==
  /\ Plans \subseteq {"stream", "whole", "staged", "translate"}
  /\ MaxTurns \in Nat /\ MaxChunks \in Nat \ {0} /\ MaxAudio \in Nat \ {0}
  /\ TextCap \in Nat \ {0} /\ AudioCap \in Nat \ {0}

VARIABLES
  plan,        \* the session's: fixed when it opens
  handler,     \* what the socket's coroutine awaits
  failed,      \* session_failed
  client,      \* the device is connected
  audio,       \* frames recorded
  turns,       \* turns started
  main,        \* what the turn's task awaits
  row,         \* the turn's durable row
  registered,  \* the turn is in jobs.tasks
  posted,      \* a cancellation of the turn is posted and not delivered
  outcome,     \* how the turn's task ended
  wrote,       \* chunks the language model wrote
  fallback,    \* fallback_chunks; `sequential` says that synthesis was not admitted
  sequential,
  textQ, audioQ,
  writer, voice, speaker,  \* the three tasks
  saying,      \* the chunk synthesis holds: text, the request it wrote and the answer
  spoken,      \* what the client was given in this turn
  told         \* what the client was told of the turn

sockVars  == <<plan, handler, failed, client, audio, turns>>
rowVars   == <<main, row, registered, posted, outcome>>
queueVars == <<wrote, fallback, sequential, textQ, audioQ>>
groupVars == <<writer, voice, speaker, saying>>
turnVars  == <<sockVars, rowVars, queueVars, groupVars, spoken, told>>
liveVars  == <<poolVars, turnVars>>

End  == 0        \* None in a queue: no more follows
NoSay == [text |-> 0, id |-> 0, answer |-> 0]
Over == {"done", "failed", "cut"}

LiveInit ==
  /\ PoolInit
  /\ plan \in Plans /\ handler = "starting" /\ failed = FALSE /\ client = "on"
  /\ audio = 0 /\ turns = 0
  /\ main = "none" /\ row = "none" /\ registered = FALSE /\ posted = FALSE /\ outcome = "none"
  /\ wrote = 0 /\ fallback = <<>> /\ sequential = FALSE /\ textQ = <<>> /\ audioQ = <<>>
  /\ writer = "done" /\ voice = "done" /\ speaker = "done" /\ saying = NoSay
  /\ spoken = <<>> /\ told = "none"

-----------------------------------------------------------------------------
(* The socket.                                                              *)
To(h) == handler' = h /\ UNCHANGED <<plan, turns>>

StartFails ==
  /\ handler = "starting" /\ HostFault
  /\ To("closing") /\ failed' = TRUE
  /\ UNCHANGED <<hostVars, holdVars, workVars, op, client, audio, rowVars, queueVars, groupVars, spoken, told>>

Ready ==
  /\ handler = "starting" /\ StartSession
  /\ To(IF client = "on" THEN "idle" ELSE "closing")
  /\ UNCHANGED <<failed, client, audio, rowVars, queueVars, groupVars, spoken, told>>

PttStart ==
  /\ handler = "idle" /\ turns < MaxTurns /\ client = "on"
  /\ To("recording") /\ audio' = 0
  /\ UNCHANGED <<poolVars, failed, client, rowVars, queueVars, groupVars, spoken, told>>

(* A frame; the one that exceeds max_utterance_seconds drops the recording, *)
(* and any frame outside a recording is a protocol error.                   *)
Frame ==
  /\ handler \in {"idle", "recording"} /\ client = "on"
  /\ \/ /\ handler = "recording" /\ audio < MaxAudio
        /\ audio' = audio + 1 /\ To("recording") /\ UNCHANGED failed
     \/ /\ handler = "recording" /\ audio = MaxAudio
        /\ audio' = 0 /\ To("idle") /\ UNCHANGED failed
     \/ /\ handler = "idle"
        /\ To("closing") /\ failed' = TRUE /\ UNCHANGED audio
  /\ UNCHANGED <<poolVars, client, rowVars, queueVars, groupVars, spoken, told>>

(* ptt.stop: too short is refused, else a Host Job of the turn is created.  *)
PttStop ==
  /\ handler = "recording" /\ client = "on"
  /\ To(IF audio = 0 THEN "idle" ELSE "hosting")
  /\ UNCHANGED <<poolVars, failed, client, audio, rowVars, queueVars, groupVars, spoken, told>>

Unhosted ==
  /\ handler = "hosting" /\ HostFault
  /\ To(IF client = "on" THEN "idle" ELSE "closing")
  /\ UNCHANGED <<hostVars, holdVars, workVars, op, failed, client, audio, rowVars, queueVars, groupVars, spoken, told>>

(* LiveTurnRunner.run: the row, the registered task, `return await task`.   *)
Run ==
  /\ handler = "hosting" /\ client = "on"
  /\ handler' = "turn" /\ turns' = turns + 1
  /\ main' = "new" /\ row' = "queued" /\ registered' = TRUE /\ posted' = FALSE /\ outcome' = "none"
  /\ wrote' = 0 /\ fallback' = <<>> /\ sequential' = FALSE /\ textQ' = <<>> /\ audioQ' = <<>>
  /\ saying' = NoSay /\ spoken' = <<>> /\ told' = "none"
  /\ UNCHANGED <<poolVars, plan, failed, client, audio, writer, voice, speaker>>

(* What `await task` gives the socket: a result, an exception it answers    *)
(* with turn.error, or the turn's cancellation, which it does not catch.    *)
TurnOver ==
  /\ handler = "turn" /\ main = "over"
  /\ main' = "none"
  /\ To(CASE outcome = "returned" -> "replying"
            [] outcome = "failed" /\ client = "on" -> "idle"
            [] OTHER -> "closing")
  /\ told' = IF outcome = "failed" /\ client = "on" THEN "error" ELSE told
  /\ UNCHANGED <<poolVars, failed, client, audio, row, registered, posted, outcome, queueVars, groupVars, spoken>>

(* The audio of a turn that did not stream, then turn.complete.             *)
Reply ==
  /\ handler = "replying"
  /\ IF client = "on"
     THEN /\ spoken' = IF plan \in {"staged", "translate"} THEN <<saying>> ELSE spoken
          /\ told' = "complete" /\ To("idle")
     ELSE To("closing") /\ UNCHANGED <<spoken, told>>
  /\ UNCHANGED <<poolVars, failed, client, audio, rowVars, queueVars, groupVars>>

(* The client sends close, or is gone and noticed at the next receive. Both *)
(* ways out close the pool, then the Host session, the first one in the     *)
(* handler of the message and the other in the finally block.               *)
Leave ==
  /\ handler \in {"idle", "recording"}
  /\ To(IF client = "on" THEN "leaving" ELSE "closing")
  /\ UNCHANGED <<poolVars, failed, client, audio, rowVars, queueVars, groupVars, spoken, told>>

Disconnect ==
  /\ client = "on" /\ handler \notin {"over", "abandoned"} /\ Fault
  /\ client' = "gone"
  /\ UNCHANGED <<hostVars, holdVars, workVars, op, plan, handler, failed, audio, turns,
                 rowVars, queueVars, groupVars, spoken, told>>

Shut ==
  /\ handler \in {"leaving", "closing"} /\ poolOpen /\ ShutPool
  /\ UNCHANGED <<faults, misled, hostVars, holdVars, op, turnVars>>

CloseWorker ==
  /\ handler \in {"leaving", "closing"}
  /\ \E k \in Keys : CloseOne(k)
  /\ UNCHANGED turnVars

ClosedBeforePool ==
  /\ handler \in {"leaving", "closing"} /\ ~poolOpen /\ CloseSession(failed)
  /\ To("over")
  /\ UNCHANGED <<failed, client, audio, rowVars, queueVars, groupVars, spoken, told>>

Closed ==
  /\ handler \in {"leaving", "closing"} /\ ~poolOpen /\ CloseSession(failed)
  /\ pooled = {} \/ op.step = "stranded"
  /\ To("over")
  /\ UNCHANGED <<failed, client, audio, rowVars, queueVars, groupVars, spoken, told>>

(* The socket's coroutine is cancelled: at a receive or a send it closes;   *)
(* in its turn the turn is cancelled; in the finally block the rest is      *)
(* skipped. While it closes the pool for a close message it turns to the    *)
(* finally block, where the pool says that it is closed already: the        *)
(* workers that are left stay, and the session releases their leases.       *)
SocketStruck ==
  /\ handler \notin {"over", "abandoned", "turn"} /\ Fault
  /\ \/ /\ handler \notin {"leaving", "closing"} \/ (handler = "leaving" /\ poolOpen)
        /\ To("closing") /\ UNCHANGED op
     \/ /\ handler = "leaving" /\ ~poolOpen /\ pooled # {}
        /\ To("closing") /\ op' = [NoOp EXCEPT !.step = "stranded"]
     \/ /\ handler = "closing" \/ (handler = "leaving" /\ ~poolOpen /\ pooled = {})
        /\ To("abandoned") /\ UNCHANGED op
  /\ UNCHANGED <<hostVars, holdVars, workVars, failed, client, audio, rowVars, queueVars, groupVars, spoken, told>>

-----------------------------------------------------------------------------
(* The turn's task. Route says what it awaits next; `asr`, `evict`, `hold`, *)
(* `tts` and `drop` are operations of the pool.                             *)
Route ==
  CASE main = "asr"      -> CASE plan \in {"stream", "whole"} -> "gateway"
                              [] plan = "translate" -> "evict"
                              [] OTHER -> "hold"
    [] main = "gateway"  -> "evict"
    [] main = "evict"    -> IF plan = "stream" THEN "group" ELSE "hold"
    [] main = "hold"     -> "complete"
    [] main = "complete" -> CASE ~hold -> "unload"
                              [] hold /\ plan = "translate" -> "drop"
                              [] OTHER -> "tts"
    [] main \in {"unload", "drop"} -> "tts"
    [] main = "tts"      -> IF plan = "whole" THEN "speak" ELSE "settle"
    [] main = "free"     -> "again"
    [] OTHER             -> "settle"

Through(outcomeOf) ==
  /\ main' = "over" /\ registered' = FALSE /\ outcome' = outcomeOf
  /\ UNCHANGED <<row, posted>>

(* The exits of _execute: `except Exception` and `except CancelledError`    *)
(* write the row and report it; the report may itself fail or be cut.       *)
FailTurn   == main' = "failing" /\ row' = "failed" /\ UNCHANGED <<registered, posted, outcome>>
CancelRow  == main' = "canceling" /\ row' = "canceled" /\ UNCHANGED registered

GoOn ==
  /\ main' = Route
  /\ row' = IF Route = "settle" THEN "succeeded" ELSE row
  /\ UNCHANGED <<registered, posted, outcome>>

(* The row is set to running before the try block: what goes wrong with     *)
(* that report leaves it so, and the task registered.                       *)
TurnBegins ==
  /\ main = "new" /\ ~posted
  /\ main' = "opening" /\ row' = "running"
  /\ UNCHANGED <<poolVars, sockVars, registered, posted, outcome, queueVars, groupVars, spoken, told>>

Opened ==
  /\ main = "opening"
  /\ \/ main' = "asr" /\ UNCHANGED <<row, registered, posted, outcome>> /\ Well
     \/ main' = "over" /\ outcome' = "failed" /\ HostFault /\ UNCHANGED <<row, registered, posted>>
     \/ client = "gone" /\ FailTurn /\ Well
  /\ UNCHANGED <<hostVars, holdVars, workVars, op, sockVars, queueVars, groupVars, spoken, told>>

(* The stage calls the pool.                                                *)
Call ==
  /\ \/ main = "asr" /\ Execute("asr", FALSE)
     \/ main = "evict" /\ Evict("asr")
     \/ main = "hold" /\ EnsureHold
     \/ main = "tts" /\ Execute("tts", FALSE)
     \/ main = "drop" /\ ReleaseHold
     \/ main = "free" /\ hold /\ ReleaseHold
  /\ UNCHANGED turnVars

(* The stage's operation returned: the turn goes on or fails.               *)
Served ==
  /\ main \in {"asr", "evict", "hold", "tts", "drop", "free"} /\ op.step = "returned"
  /\ op' = NoOp
  /\ saying' = IF main = "tts" /\ op.result = "ok"
               THEN [text |-> 1, id |-> op.id, answer |-> op.answer] ELSE saying
  /\ \/ op.result = "ok" /\ GoOn /\ Well
     \/ op.result = "ok" /\ main \in {"drop", "free"} /\ FailTurn /\ HostFault   \* ai_release
     \/ (op.result # "ok" \/ client = "gone") /\ FailTurn /\ Well
  /\ writer' = IF main' = "group" THEN "on" ELSE writer
  /\ voice' = IF main' \in {"group", "again"} THEN "get" ELSE voice
  /\ speaker' = IF main' \in {"group", "again"} THEN "get" ELSE speaker
  /\ UNCHANGED <<hostVars, holdVars, workVars, sockVars, queueVars, spoken, told>>

(* Host calls of the turn: gateway_capabilities, ai_complete, ai_release.   *)
HostAnswers ==
  /\ \/ main \in {"gateway", "complete", "unload"}
     \/ main = "free" /\ ~hold /\ op = NoOp
  /\ \/ /\ GoOn /\ Well
        /\ wrote' = IF main = "complete" THEN 1 ELSE wrote
     \/ FailTurn /\ HostFault /\ UNCHANGED wrote
     \/ client = "gone" /\ FailTurn /\ Well /\ UNCHANGED wrote
  /\ voice' = IF main' = "again" THEN "get" ELSE voice
  /\ speaker' = IF main' = "again" THEN "get" ELSE speaker
  /\ UNCHANGED <<hostVars, holdVars, workVars, op, sockVars, fallback, sequential, textQ, audioQ,
                 writer, saying, spoken, told>>

(* emit_audio of the whole answer, and the last events of a streamed one.   *)
Speak ==
  /\ main \in {"speak", "rest"}
  /\ spoken' = IF main = "speak" /\ client = "on" THEN <<saying>> ELSE spoken
  /\ \/ (client = "on" \/ main = "rest") /\ GoOn /\ Well
     \/ client = "gone" /\ FailTurn /\ Well
     \/ client = "on" /\ main = "rest" /\ ~sequential /\ ~hold /\ FailTurn /\ HostFault  \* ai_release
  /\ UNCHANGED <<hostVars, holdVars, workVars, op, sockVars, queueVars, groupVars, told>>

(* The last report, of a success, a failure or a cancellation.              *)
Settled ==
  /\ \/ main = "settle" /\ Through("returned") /\ Well
     \/ main = "settle" /\ FailTurn /\ HostFault
     \/ main = "failing" /\ Through("failed") /\ Well
     \/ main = "canceling" /\ Through("canceled") /\ Well
     \/ main = "canceling" /\ Through("failed") /\ HostFault
  /\ UNCHANGED <<hostVars, holdVars, workVars, op, sockVars, queueVars, groupVars, spoken, told>>

-----------------------------------------------------------------------------
(* The TaskGroup of a streamed answer.                                      *)
InGroup == main \in {"group", "again"}
Broken  == "failed" \in {writer, voice, speaker}

(* produce_text: chunks, then the end mark; a put waits for room.           *)
Produce ==
  /\ writer = "on" /\ Len(textQ) < TextCap
  /\ \/ /\ wrote < MaxChunks
        /\ wrote' = wrote + 1 /\ textQ' = Append(textQ, wrote + 1) /\ UNCHANGED writer
     \/ textQ' = Append(textQ, End) /\ writer' = "done" /\ UNCHANGED wrote
  /\ UNCHANGED <<poolVars, sockVars, rowVars, fallback, sequential, audioQ, voice, speaker, saying, spoken, told>>

StreamBreaks ==
  /\ writer = "on" /\ HostFault
  /\ writer' = "failed"
  /\ UNCHANGED <<hostVars, holdVars, workVars, op, sockVars, rowVars, queueVars, voice, speaker, saying, spoken, told>>

(* synthesize and synthesize_fallback: the next chunk, its request, the put.*)
Pending == IF main = "group" THEN textQ ELSE fallback \o <<End>>

Took ==
  /\ IF main = "group" THEN textQ' = Tail(textQ) /\ UNCHANGED fallback
     ELSE fallback' = (IF fallback = <<>> THEN <<>> ELSE Tail(fallback)) /\ UNCHANGED textQ
  /\ UNCHANGED <<wrote, sequential, audioQ>>

TakeChunk ==
  /\ voice = "get" /\ Pending # <<>> /\ Head(Pending) # End
  /\ ~(main = "group" /\ sequential)
  /\ Execute("tts", main = "group")
  /\ Took
  /\ voice' = "exec" /\ saying' = [NoSay EXCEPT !.text = Head(Pending)]
  /\ UNCHANGED <<sockVars, rowVars, writer, speaker, spoken, told>>

(* After a refusal what follows is only collected.                          *)
Collect ==
  /\ voice = "get" /\ main = "group" /\ sequential
  /\ textQ # <<>> /\ Head(textQ) # End
  /\ textQ' = Tail(textQ) /\ fallback' = Append(fallback, Head(textQ))
  /\ UNCHANGED <<poolVars, sockVars, rowVars, wrote, sequential, audioQ, groupVars, spoken, told>>

TakeEnd ==
  /\ voice = "get" /\ Pending # <<>> /\ Head(Pending) = End /\ Len(audioQ) < AudioCap
  /\ textQ' = (IF main = "group" THEN Tail(textQ) ELSE textQ)
  /\ audioQ' = Append(audioQ, NoSay) /\ voice' = "done"
  /\ UNCHANGED <<poolVars, sockVars, rowVars, wrote, fallback, sequential, writer, speaker, saying, spoken, told>>

SynthesizedDropping ==
  /\ voice = "exec" /\ op.step = "returned"
  /\ op' = NoOp
  /\ \/ /\ op.result = "ok"
        /\ voice' = "put" /\ saying' = [saying EXCEPT !.id = op.id, !.answer = op.answer]
        /\ UNCHANGED <<fallback, sequential>>
     \/ /\ op.result = "rejected" /\ main = "group"
        /\ voice' = "get" /\ sequential' = TRUE
        /\ UNCHANGED <<fallback, saying>>
     \/ /\ op.result = "error" \/ (op.result = "rejected" /\ main = "again")
        /\ voice' = "failed" /\ UNCHANGED <<fallback, sequential, saying>>
  /\ UNCHANGED <<faults, misled, hostVars, holdVars, workVars, sockVars, rowVars, wrote, textQ, audioQ,
                 writer, speaker, spoken, told>>

Synthesized ==
  /\ voice = "exec" /\ op.step = "returned"
  /\ op' = NoOp
  /\ \/ /\ op.result = "ok"
        /\ voice' = "put" /\ saying' = [saying EXCEPT !.id = op.id, !.answer = op.answer]
        /\ UNCHANGED <<fallback, sequential>>
     \/ /\ op.result = "rejected" /\ main = "group"
        /\ voice' = "get" /\ sequential' = TRUE
        /\ fallback' = Append(fallback, saying.text) /\ UNCHANGED saying
     \/ /\ op.result = "error" \/ (op.result = "rejected" /\ main = "again")
        /\ voice' = "failed" /\ UNCHANGED <<fallback, sequential, saying>>
  /\ UNCHANGED <<faults, misled, hostVars, holdVars, workVars, sockVars, rowVars, wrote, textQ, audioQ,
                 writer, speaker, spoken, told>>

PutAudio ==
  /\ voice = "put" /\ Len(audioQ) < AudioCap
  /\ audioQ' = Append(audioQ, saying) /\ voice' = "get"
  /\ UNCHANGED <<poolVars, sockVars, rowVars, wrote, fallback, sequential, textQ, writer, speaker, saying, spoken, told>>

(* deliver_audio: the only task that sends: text, then its audio.           *)
Deliver ==
  /\ \/ /\ speaker = "get" /\ audioQ # <<>>
        /\ audioQ' = Tail(audioQ)
        /\ IF Head(audioQ) = NoSay THEN speaker' = "done" /\ UNCHANGED spoken
           ELSE IF client = "on" THEN speaker' = "sending" /\ spoken' = Append(spoken, Head(audioQ))
           ELSE speaker' = "failed" /\ UNCHANGED spoken
     \/ /\ speaker = "sending"
        /\ speaker' \in {"get"} \cup (IF client = "on" THEN {} ELSE {"failed"})
        /\ UNCHANGED <<audioQ, spoken>>
  /\ UNCHANGED <<poolVars, sockVars, rowVars, wrote, fallback, sequential, textQ, writer, voice, saying, told>>

(* One task failed, or the turn was cancelled: the group cancels the rest.  *)
(* A synthesis that is cut leaves its request with the worker.              *)
CuttingPosted == posted /\ InGroup

Cutting == Broken \/ (posted /\ InGroup)

CutTask ==
  /\ Cutting
  /\ \/ /\ writer = "on" /\ writer' = "cut"
        /\ UNCHANGED <<poolVars, voice, speaker>>
     \/ /\ voice \in {"get", "put"} /\ voice' = "cut"
        /\ UNCHANGED <<poolVars, writer, speaker>>
     \/ /\ voice = "exec" /\ Abandon /\ voice' = "cut"
        /\ UNCHANGED <<writer, speaker>>
     \/ /\ speaker \in {"get", "sending"} /\ speaker' = "cut"
        /\ UNCHANGED <<poolVars, writer, voice>>
  /\ UNCHANGED <<sockVars, rowVars, queueVars, saying, spoken, told>>

(* The group is left when all three are over: failed if one failed, else    *)
(* cancelled if the turn was, else the answer is checked and goes on.       *)
GroupLeftAtOnce ==
  /\ InGroup /\ Broken
  /\ main' = "failing" /\ row' = "failed"
  /\ UNCHANGED <<poolVars, sockVars, registered, posted, outcome, queueVars, groupVars, spoken, told>>

GroupLeft ==
  /\ InGroup /\ {writer, voice, speaker} \subseteq Over
  /\ audioQ' = <<>>
  /\ CASE Broken ->
            main' = "failing" /\ row' = "failed" /\ posted' \in {posted, FALSE}
            /\ UNCHANGED <<registered, outcome>>
       [] ~Broken /\ "cut" \in {writer, voice, speaker} ->
            CancelRow /\ posted' = FALSE /\ UNCHANGED outcome
       [] OTHER ->
            IF wrote = 0 THEN FailTurn
            ELSE /\ main' = IF sequential /\ main = "group" THEN "free" ELSE "rest"
                 /\ UNCHANGED <<row, registered, posted, outcome>>
  /\ UNCHANGED <<poolVars, sockVars, wrote, fallback, sequential, textQ, groupVars, spoken, told>>

-----------------------------------------------------------------------------
(* JobManager.cancel and the watcher of the Host Job post a cancellation to *)
(* the registered task; a queued row is recorded at once.                   *)
CancelTurn ==
  /\ registered /\ main \notin {"none", "over"} /\ row \in {"queued", "running"} /\ ~posted /\ Fault
  /\ posted' = TRUE
  /\ row' = IF row = "queued" THEN "canceled" ELSE row
  /\ UNCHANGED <<hostVars, holdVars, workVars, op, sockVars, main, registered, outcome, queueVars, groupVars, spoken, told>>

(* The service stops or the socket's coroutine is cancelled: the turn's     *)
(* task is, whatever its row says.                                          *)
StopTurn ==
  /\ handler = "turn" /\ main \notin {"none", "over"} /\ ~posted /\ Fault
  /\ posted' = TRUE
  /\ UNCHANGED <<hostVars, holdVars, workVars, op, sockVars, main, row, registered, outcome, queueVars, groupVars, spoken, told>>

(* Its delivery, at what the turn awaits.                                   *)
Struck ==
  /\ posted /\ posted' = FALSE
  /\ \/ /\ main \in {"new", "opening", "failing", "canceling"}     \* outside the try block
        /\ main' = "over" /\ outcome' = "canceled" /\ UNCHANGED row
        /\ registered' = (registered /\ main \in {"new", "opening"})
        /\ UNCHANGED poolVars
     \/ /\ main \in {"gateway", "complete", "unload", "speak", "rest", "settle"}
        /\ CancelRow /\ UNCHANGED <<outcome, poolVars>>
     \/ /\ main = "free" /\ ~hold /\ op = NoOp
        /\ CancelRow /\ UNCHANGED <<outcome, poolVars>>
     \/ /\ main \in {"asr", "evict", "hold", "tts", "drop", "free"} /\ Abandon
        /\ CancelRow /\ UNCHANGED outcome
     \/ /\ main \in {"asr", "evict", "hold", "tts", "drop", "free"} /\ op.step = "returned"
        /\ op' = NoOp /\ CancelRow
        /\ UNCHANGED <<faults, misled, hostVars, holdVars, workVars, outcome>>
  /\ UNCHANGED <<sockVars, queueVars, groupVars, spoken, told>>

-----------------------------------------------------------------------------
Socket == StartFails \/ Ready \/ PttStart \/ Frame \/ PttStop \/ Unhosted \/ Run \/ TurnOver \/ Reply
          \/ Leave \/ Shut \/ CloseWorker \/ Closed
Turn   == TurnBegins \/ Opened \/ Call \/ Served \/ HostAnswers \/ Speak \/ Settled \/ GroupLeft
Voice  == TakeChunk \/ Collect \/ TakeEnd \/ Synthesized \/ PutAudio

LiveNext ==
  \/ Socket \/ Turn \/ Voice
  \/ Produce \/ StreamBreaks \/ Deliver \/ CutTask
  \/ Disconnect \/ SocketStruck \/ CancelTurn \/ StopTurn \/ Struck
  \/ (Background \/ Operation) /\ UNCHANGED turnVars

LiveSpec == LiveInit /\ [][LiveNext]_liveVars

(* What a turn awaits of the Host, a worker or the client, with no limit to  *)
(* the wait (client.py: timeout=None; readline of a worker): any stage that  *)
(* is not a group, and in a group that goes on the stream, a request or a   *)
(* send. A posted cancellation and a group that breaks wait for nobody.     *)
Asks == {"asking", "polling", "activating", "room", "clearing", "evicting", "reading",
         "holding", "dropping"}

Outside ==
  /\ ~posted
  /\ IF InGroup
     THEN /\ ~Broken
          /\ (writer = "on" /\ Len(textQ) < TextCap) \/ op.step \in Asks \/ speaker = "sending"
     ELSE main \notin {"none", "new", "over"}

(* The service's own steps are taken; nobody outside has to answer.         *)
Working == main # "none" /\ UNCHANGED turnVars

LiveFairness ==
  /\ WF_liveVars(Turn /\ ~Outside) /\ WF_liveVars(Struck) /\ WF_liveVars(TurnOver)
  /\ WF_liveVars(Voice) /\ WF_liveVars(Deliver /\ speaker = "get") /\ WF_liveVars(CutTask)
  /\ WF_liveVars(Operation /\ Working /\ ~Outside)

LiveFair == LiveSpec /\ LiveFairness

(* What the client hears is the answer's text in its order, every chunk      *)
(* once, and each with the audio made for it: not that of a request that    *)
(* was cut or refused before. Holds across the change to the fallback.      *)
SpeaksItsText == \A i \in DOMAIN spoken : spoken[i].text = i /\ spoken[i].answer = spoken[i].id

(* A turn that is told complete succeeded and was spoken to its last chunk. *)
ReplyWhole == told = "complete" => row = "succeeded" /\ Len(spoken) = wrote

(* Once the turn's row says failed or canceled, nothing more is spoken:     *)
(* a task of its group never outlives it.                                   *)
QuietAfterEnd == [][Len(spoken') > Len(spoken) => row \notin {"failed", "canceled"}]_liveVars

(* A turn that began ends, whatever fails or is cancelled in it, unless the  *)
(* Host, a worker or the client keeps it waiting for ever: it never waits   *)
(* for ever at a bounded queue whose other end is gone, for a task of its   *)
(* group that nobody cancels, or after a cancellation.                      *)
TurnEnds == []<>~Outside => (main # "none" ~> main = "none")

=============================================================================
