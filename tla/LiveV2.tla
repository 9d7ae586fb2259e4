-------------------------------- MODULE LiveV2 --------------------------------
(***************************************************************************)
(* A sonic-live/2 socket (live_v2.live_v2) of a Host user: the resources it *)
(* takes before it says ready (LiveSessionResources: a hold on the language *)
(* model, a Host Job, a lease per GPU worker), its persistent workers, and  *)
(* the segments it transcribes, answers and speaks. A conversation works    *)
(* each segment off before it listens again; a meeting queues them for a    *)
(* processor. The state of the resources is LivePool's; `open` falls when   *)
(* close() has run. Persistent workers know no request ids: the ids here    *)
(* are what the model compares, never what the code does.                   *)
(*                                                                         *)
(* A socket without a Host identity takes none of this but the workers and  *)
(* is left out.                                                            *)
(***************************************************************************)
EXTENDS LivePool

CONSTANTS
  Presets,      \* "chat": a spoken answer; "dictation": none; "meeting"
  Translating,  \* a meeting has a target language
  MaxCommits,   \* bound: segments of one socket
  MaxReplies,   \* bound: chunks of an answer
  LineCap       \* maxsize of the meeting's queue: 8

ASSUME V2Assumption ==
  /\ Presets \subseteq {"chat", "dictation", "meeting"} /\ Translating \in BOOLEAN
  /\ MaxCommits \in Nat /\ MaxReplies \in Nat /\ LineCap \in Nat \ {0}

VARIABLES
  preset,
  v2,          \* what the socket's coroutine, or its release, awaits
  after,       \* what follows the commit under way
  verdict,     \* status
  here,        \* the client is connected
  shaken,      \* the coroutine was cancelled while its release ran
  rec, heard,  \* recording; the spool holds a segment
  commits,     \* segments committed
  line,        \* meeting_queue
  unfinished,  \* its unfinished items
  scribe,      \* meeting_task
  work,        \* what process_segment awaits
  seg,         \* its segment: number, request and answer, chunks and the next one
  rows,        \* the durable rows of the segments
  said,        \* audio the client was given for the segment
  transcript,  \* transcript_items
  minuted      \* segments in each meeting.finished, and what had been committed

v2Sock == <<preset, v2, after, verdict, here, shaken>>
v2In   == <<rec, heard, commits>>
v2Line == <<line, unfinished, scribe>>
v2Seg  == <<work, seg, rows, said, transcript, minuted>>
v2State == <<v2Sock, v2In, v2Line, v2Seg>>
v2Vars  == <<poolVars, v2State>>

Mark == 0    \* None in the queue
NoSeg == [n |-> 0, id |-> 0, answer |-> 0, chunks |-> 0, next |-> 1]
UsesAi == preset = "chat" \/ (preset = "meeting" /\ Translating)
Spoken == IF preset = "chat" THEN {"asr", "tts"} ELSE {"asr"}

V2Init ==
  /\ PoolInit
  /\ preset \in Presets /\ v2 = "hello" /\ after = "receiving" /\ verdict = "succeeded"
  /\ here = TRUE /\ shaken = FALSE
  /\ rec = FALSE /\ heard = FALSE /\ commits = 0
  /\ line = <<>> /\ unfinished = 0 /\ scribe = "off"
  /\ work = "none" /\ seg = NoSeg /\ rows = <<>> /\ said = <<>> /\ transcript = <<>> /\ minuted = {}

V2To(s) == v2' = s /\ UNCHANGED <<preset, after, verdict, here, shaken>>

(* The finally block: a meeting whose processor was started ends it first.  *)
Release(status) ==
  /\ v2' = IF scribe = "off" THEN "closing" ELSE "marking"
  /\ verdict' = status
  /\ UNCHANGED <<preset, after, here, shaken>>

-----------------------------------------------------------------------------
(* LiveSessionResources.start: the hold first, then the Host Job, a lease   *)
(* per worker that fails fast, and the worker processes.                    *)
V2Hello ==
  /\ v2 = "hello"
  /\ V2To(IF UsesAi THEN "holding" ELSE "opening")
  /\ UNCHANGED <<poolVars, v2In, v2Line, v2Seg>>

TakeHold ==
  /\ v2 = "holding"
  /\ \/ Created /\ V2To("opening") /\ Well
     \/ V2To("opening") /\ HostFault /\ UNCHANGED holdVars              \* 404, 409
     \/ Release("failed") /\ HostFault /\ UNCHANGED holdVars
     \/ Release("failed") /\ HostFault                                 \* its credential is refused
        /\ hold' = TRUE /\ holds' = holds + 1 /\ UNCHANGED beat
  /\ UNCHANGED <<hostVars, workVars, op, v2In, v2Line, v2Seg>>

OpenJob ==
  /\ v2 = "opening"
  /\ \/ hostJob' = "open" /\ V2To("leasing") /\ Well
     \/ UNCHANGED hostJob /\ Release("failed") /\ HostFault
  /\ UNCHANGED <<leases, broker, holdVars, workVars, op, v2In, v2Line, v2Seg>>

(* _acquire_speech_lease: Granted, Rejected, AdmissionLost and Activated of *)
(* the pool are the Host's answers; a key that is leased or needs no GPU    *)
(* comes back at once.                                                      *)
Unleased == (Spoken \cap Gpu) \ leases
Unloaded == Spoken \ pooled
First(keys) == IF "asr" \in keys THEN "asr" ELSE "tts"   \* recognition before speech

AskLease ==
  /\ v2 = "leasing" /\ op = NoOp
  /\ IF Unleased = {}
     THEN V2To("loading") /\ UNCHANGED <<op, broker>>
     ELSE Acquire([NoOp EXCEPT !.key = First(Unleased), !.fast = TRUE]) /\ UNCHANGED v2Sock
  /\ UNCHANGED <<faults, misled, hostJob, leases, holdVars, workVars, v2In, v2Line, v2Seg>>

LeaseTaken ==
  /\ v2 = "leasing" /\ op.step \in {"spawning", "returned"}
  /\ op' = NoOp
  /\ IF op.step = "spawning" THEN UNCHANGED v2Sock ELSE Release("failed")
  /\ UNCHANGED <<faults, misled, hostVars, holdVars, workVars, v2In, v2Line, v2Seg>>

(* PersistentWorker.start.                                                  *)
Fresh(k, todo) ==
  /\ pooled' = pooled \cup {k}
  /\ proc' = [proc EXCEPT ![k] = [alive |-> TRUE, todo |-> todo, lines |-> <<>>]]

LoadWorker ==
  /\ v2 = "loading"
  /\ IF Unloaded = {}
     THEN /\ Well /\ UNCHANGED workVars
          /\ IF here THEN V2To("receiving") ELSE Release("canceled")
     ELSE /\ UNCHANGED <<asked, poolOpen, open>>
          /\ \/ Fresh(First(Unloaded), <<>>) /\ Well /\ UNCHANGED v2Sock
             \/ UNCHANGED <<pooled, proc>> /\ Fault /\ Release("failed")
  /\ scribe' = IF v2' = "receiving" /\ preset = "meeting" THEN "get" ELSE scribe
  /\ UNCHANGED <<hostVars, holdVars, op, v2In, line, unfinished, v2Seg>>

-----------------------------------------------------------------------------
(* PersistentWorker.execute: a process known to be dead is started again,   *)
(* with the lease the session has.                                          *)
Ask(k) ==
  /\ op = NoOp
  /\ op' = [NoOp EXCEPT !.step = "reading", !.key = k, !.id = asked + 1]
  /\ asked' = asked + 1
  /\ \/ proc[k].alive /\ proc' = [proc EXCEPT ![k].todo = Append(@, asked + 1)] /\ UNCHANGED pooled
     \/ ~proc[k].alive /\ Fresh(k, <<asked + 1>>)
     \/ ~proc[k].alive /\ UNCHANGED <<proc, pooled>>      \* not known yet: end of output follows
  /\ UNCHANGED <<faults, misled, hostVars, holdVars, poolOpen, open>>

(* One line. Nothing tells an old answer from the one that was asked for.   *)
ReadLine ==
  /\ op.step = "reading"
  /\ IF proc[op.key].lines # <<>>
     THEN LET kind == Head(proc[op.key].lines).kind IN
          /\ proc' = [proc EXCEPT ![op.key].lines = Tail(@)]
          /\ op' = CASE kind = "progress" -> op
                     [] kind = "result" ->
                          [op EXCEPT !.step = "returned", !.result = "ok",
                                     !.answer = Head(proc[op.key].lines).id]
                     [] OTHER -> [op EXCEPT !.step = "returned", !.result = "error"]
     ELSE ~proc[op.key].alive /\ Return("error") /\ UNCHANGED proc
  /\ UNCHANGED <<faults, misled, hostVars, holdVars, pooled, asked, poolOpen, open, v2State>>

(* A cancellation of a request kills the process; one of an admission       *)
(* leaves the Broker's record behind.                                      *)
Cancel ==
  /\ op' = NoOp
  /\ IF op.step = "reading"
     THEN /\ proc' = [proc EXCEPT ![op.key] = NoProc] /\ pooled' = pooled \ {op.key}
          /\ UNCHANGED broker
     ELSE /\ UNCHANGED <<proc, pooled>>
          /\ IF op.step \in {"asking", "activating"}
             THEN broker' = [broker EXCEPT ![op.key] = "none"]
             ELSE UNCHANGED broker
  /\ UNCHANGED <<hostJob, leases, holdVars, asked, poolOpen, open>>

-----------------------------------------------------------------------------
(* process_segment, run by the socket or by the meeting's processor. A      *)
(* segment that fails ends the socket or the processor.                     *)
Begin(n) ==
  /\ Ask("asr")
  /\ work' = "asr" /\ seg' = [NoSeg EXCEPT !.n = n] /\ said' = <<>>
  /\ rows' = Append(rows, "running")
  /\ UNCHANGED <<transcript, minuted>>

RowIs(state) == rows' = [rows EXCEPT ![Len(rows)] = state]

LeavesOnlyChat ==
  /\ scribe' = IF preset = "meeting" THEN "get" ELSE scribe
  /\ unfinished' = IF preset = "meeting" THEN unfinished - 1 ELSE unfinished
  /\ IF preset = "meeting" THEN UNCHANGED v2Sock
     ELSE Release(IF here THEN "failed" ELSE "canceled")

Leaves ==
  /\ scribe' = IF preset = "meeting" THEN "died" ELSE scribe
  /\ unfinished' = IF preset = "meeting" THEN unfinished - 1 ELSE unfinished
  /\ IF preset = "meeting" THEN UNCHANGED v2Sock
     ELSE Release(IF here THEN "failed" ELSE "canceled")

SegFails == /\ RowIs("failed") /\ work' = "none" /\ Leaves
            /\ UNCHANGED <<line, transcript, minuted>>

Moves(w) == work' = w /\ UNCHANGED <<rows, transcript, minuted, v2Sock, v2Line>>

(* The transcript is there, and asr.final is sent.                          *)
Heard ==
  /\ work = "asr" /\ op.step = "returned" /\ op' = NoOp
  /\ seg' = [seg EXCEPT !.id = op.id, !.answer = op.answer]
  /\ IF op.result = "ok" /\ here THEN Moves(IF UsesAi THEN "text" ELSE "done") ELSE SegFails
  /\ UNCHANGED <<faults, misled, hostVars, holdVars, workVars, v2In, said>>

(* llm_stream_text: the chunks, each sent as it comes.                      *)
Answered ==
  /\ work = "text"
  /\ \/ /\ here /\ Well
        /\ \E c \in 0..MaxReplies :
             /\ seg' = [seg EXCEPT !.chunks = c]
             /\ Moves(IF preset = "chat" /\ c > 0 THEN "voice" ELSE "done")
     \/ ~here /\ Well /\ SegFails /\ UNCHANGED seg
     \/ HostFault /\ SegFails /\ UNCHANGED seg
  /\ UNCHANGED <<hostVars, holdVars, workVars, op, v2In, said>>

SayChunk ==
  /\ work = "voice" /\ Ask("tts")
  /\ UNCHANGED <<v2State>>

Said ==
  /\ work = "voice" /\ op.step = "returned" /\ op' = NoOp
  /\ IF op.result = "ok" /\ here
     THEN /\ said' = Append(said, [text |-> seg.next, id |-> op.id, answer |-> op.answer])
          /\ seg' = [seg EXCEPT !.next = @ + 1]
          /\ Moves(IF seg.next = seg.chunks THEN "done" ELSE "voice")
     ELSE SegFails /\ UNCHANGED <<said, seg>>
  /\ UNCHANGED <<faults, misled, hostVars, holdVars, workVars, v2In>>

(* The row, turn.complete or segment.complete, and a meeting's transcript.  *)
(* When the client is gone the row of the finished segment becomes failed.  *)
Complete ==
  /\ work = "done"
  /\ IF here
     THEN /\ RowIs("succeeded") /\ work' = "none"
          /\ IF preset = "meeting"
             THEN /\ transcript' = Append(transcript, seg)
                  /\ scribe' = "get" /\ unfinished' = unfinished - 1
                  /\ UNCHANGED <<v2Sock, line>>
             ELSE V2To("receiving") /\ UNCHANGED <<transcript, v2Line>>
          /\ UNCHANGED minuted
     ELSE SegFails
  /\ UNCHANGED <<poolVars, v2In, seg, said>>

(* meeting_processor.                                                       *)
ScribeTakes ==
  /\ scribe = "get" /\ line # <<>>
  /\ line' = Tail(line)
  /\ IF Head(line) = Mark
     THEN scribe' = "done" /\ unfinished' = unfinished - 1 /\ UNCHANGED <<poolVars, v2Seg>>
     ELSE scribe' = "busy" /\ Begin(Head(line)) /\ UNCHANGED unfinished
  /\ UNCHANGED <<v2Sock, v2In>>

-----------------------------------------------------------------------------
(* The receive loop.                                                        *)
StartInput ==
  /\ v2 = "receiving" /\ here /\ ~rec /\ commits < MaxCommits
  /\ rec' = TRUE /\ heard' = FALSE
  /\ UNCHANGED <<poolVars, v2Sock, commits, v2Line, v2Seg>>

(* A control or a frame out of place, or malformed.                         *)
BadInput ==
  /\ v2 = "receiving" /\ here /\ Fault
  /\ Release("failed")
  /\ UNCHANGED <<hostVars, holdVars, workVars, op, v2In, v2Line, v2Seg>>

(* commit_current: what is too short is dropped, else a meeting's segment   *)
(* is queued and a conversation's is worked off.                            *)
Commit(then) ==
  /\ heard' = FALSE
  /\ after' = then
  /\ v2' = CASE ~heard -> then
             [] heard /\ preset = "meeting" -> "queueing"
             [] OTHER -> "segment"
  /\ UNCHANGED <<preset, verdict, here, shaken, commits>>

(* A frame; a meeting commits by itself when the segment is long enough.    *)
HearFrame ==
  /\ v2 = "receiving" /\ here /\ rec /\ commits < MaxCommits
  /\ \/ ~heard /\ heard' = TRUE /\ UNCHANGED <<v2Sock, rec, commits>>
     \/ heard /\ preset = "meeting" /\ Commit("receiving") /\ UNCHANGED rec
  /\ UNCHANGED <<poolVars, v2Line, v2Seg>>

StopInput ==
  /\ v2 = "receiving" /\ here /\ rec
  /\ rec' = (preset = "meeting")
  /\ Commit("receiving")
  /\ UNCHANGED <<poolVars, v2Line, v2Seg>>

OwnSegment ==
  /\ v2 = "segment" /\ work = "none"
  /\ commits' = commits + 1
  /\ Begin(commits + 1)
  /\ UNCHANGED <<v2Sock, rec, heard, v2Line>>

QueuePut ==
  /\ v2 = "queueing" /\ Len(line) < LineCap
  /\ line' = Append(line, commits + 1) /\ unfinished' = unfinished + 1 /\ commits' = commits + 1
  /\ V2To(after)
  /\ UNCHANGED <<poolVars, rec, heard, scribe, v2Seg>>

(* finish_meeting, asked for by itself or by close.                         *)
FinishMeeting ==
  /\ v2 = "receiving" /\ here /\ preset = "meeting"
  /\ rec' = FALSE
  /\ \E then \in {"joining", "joining_to_close"} : Commit(then)
  /\ UNCHANGED <<poolVars, v2Line, v2Seg>>

Joining == {"joining", "joining_to_close"}

JoinMeeting ==
  /\ v2 \in Joining /\ unfinished = 0
  /\ v2' = IF transcript = <<>> THEN "finished" ELSE "minutes"
  /\ after' = v2
  /\ UNCHANGED <<poolVars, preset, verdict, here, shaken, v2In, v2Line, v2Seg>>

Minutes ==
  /\ v2 = "minutes"
  /\ \/ V2To("finished") /\ Well
     \/ Release("failed") /\ HostFault
  /\ UNCHANGED <<hostVars, holdVars, workVars, op, v2In, v2Line, v2Seg>>

MeetingFinished ==
  /\ v2 = "finished"
  /\ CASE ~here -> Release("canceled") /\ UNCHANGED minuted
       [] here /\ after = "joining" ->
            V2To("receiving") /\ minuted' = minuted \cup {<<Len(transcript), commits>>}
       [] here /\ after # "joining" ->
            Release(verdict) /\ minuted' = minuted \cup {<<Len(transcript), commits>>}
  /\ UNCHANGED <<poolVars, v2In, v2Line, work, seg, rows, said, transcript>>

(* A close, or the disconnect that the next receive reports.                *)
V2Leave ==
  /\ v2 = "receiving" /\ (preset # "meeting" \/ ~here)
  /\ Release(verdict)
  /\ UNCHANGED <<poolVars, v2In, v2Line, v2Seg>>

ClientGone ==
  /\ here /\ v2 \notin {"over", "cut", "raised"} /\ Fault
  /\ here' = FALSE
  /\ UNCHANGED <<hostVars, holdVars, workVars, op, preset, v2, after, verdict, shaken,
                 v2In, v2Line, v2Seg>>

-----------------------------------------------------------------------------
(* _release. The end mark waits for room; the processor's end is awaited    *)
(* for five seconds, then it is cancelled; if it died its exception leaves  *)
(* _release before the resources are closed.                                *)
PutMark ==
  /\ v2 = "marking" /\ Len(line) < LineCap
  /\ line' = Append(line, Mark) /\ unfinished' = unfinished + 1
  /\ V2To("awaiting")
  /\ UNCHANGED <<poolVars, v2In, scribe, v2Seg>>

ScribeOver ==
  /\ v2 = "awaiting" /\ scribe \in {"done", "died"}
  /\ V2To(IF scribe = "done" THEN "closing" ELSE "raised")
  /\ UNCHANGED <<poolVars, v2In, v2Line, v2Seg>>

(* The processor is cancelled and waited for; a segment it worked on keeps  *)
(* its row as it is. One that is over stays what it is.                     *)
StopScribe ==
  /\ V2To("closing")
  /\ scribe' = (IF scribe \in {"get", "busy"} THEN "cut" ELSE scribe) /\ work' = "none"
  /\ unfinished' = IF scribe = "busy" THEN unfinished - 1 ELSE unfinished
  /\ IF scribe = "busy" THEN Cancel ELSE UNCHANGED <<hostVars, holdVars, workVars, op>>
  /\ UNCHANGED <<v2In, line, seg, rows, said, transcript, minuted>>

TimedOutIdle ==
  /\ v2 = "awaiting" /\ scribe = "get"
  /\ StopScribe
  /\ UNCHANGED <<faults, misled>>

TimedOut ==
  /\ v2 = "awaiting" /\ scribe \in {"get", "busy"}
  /\ StopScribe
  /\ UNCHANGED <<faults, misled>>

(* LiveSessionResources.close.                                              *)
CloseHold ==
  /\ v2 = "closing" /\ op.step \in {"none", "returned"}
  /\ DropHold /\ op' = NoOp
  /\ V2To("unloading")
  /\ UNCHANGED <<hostVars, workVars, v2In, v2Line, v2Seg>>

CloseWorkers ==
  /\ v2 = "unloading"
  /\ pooled' = {} /\ proc' = [k \in Keys |-> NoProc]
  /\ V2To("returning")
  /\ UNCHANGED <<faults, misled, hostVars, holdVars, op, asked, poolOpen, open, v2In, v2Line, v2Seg>>

ReturnLease ==
  /\ v2 = "returning"
  /\ \E k \in leases : ReleaseLease(k)
  /\ UNCHANGED <<holdVars, workVars, op, v2State>>

CloseJob ==
  /\ v2 = "returning" /\ leases = {}
  /\ \/ hostJob' = (IF hostJob = "open" THEN verdict ELSE hostJob) /\ Well
     \/ hostJob = "open" /\ UNCHANGED hostJob /\ HostFault
  /\ open' = FALSE
  /\ V2To("over")
  /\ UNCHANGED <<leases, broker, holdVars, pooled, proc, asked, poolOpen, op,
                 v2In, v2Line, v2Seg>>

-----------------------------------------------------------------------------
(* The coroutine is cancelled. Before its release it turns to it; the first *)
(* cancellation during the release is shielded off, the second reaches it,  *)
(* where the wait for the processor swallows it.                            *)
Releasing == {"marking", "awaiting", "closing", "unloading", "returning"}
Final     == {"over", "raised", "cut"}

V2Struck ==
  /\ v2 \notin Final /\ Fault
  /\ CASE v2 \in Releasing /\ ~shaken ->
            /\ shaken' = TRUE
            /\ UNCHANGED <<hostVars, holdVars, workVars, op, preset, v2, after, verdict, here,
                           v2Line, v2Seg>>
       [] v2 \in {"marking", "awaiting"} /\ shaken -> StopScribe
       [] v2 \in {"closing", "unloading", "returning"} /\ shaken ->
            /\ V2To("cut")
            /\ UNCHANGED <<hostVars, holdVars, workVars, op, v2Line, v2Seg>>
       [] v2 \notin Releasing ->
            /\ Release(verdict)
            /\ IF scribe # "busy" THEN Cancel /\ work' = "none"
               ELSE UNCHANGED <<hostVars, holdVars, workVars, op, work>>
            /\ UNCHANGED <<v2Line, seg, rows, said, transcript, minuted>>
  /\ UNCHANGED v2In

-----------------------------------------------------------------------------
(* The hold's heartbeat ends at an error, and the Host may drop the hold.   *)
BeatStops ==
  /\ beat = "on" /\ HostFault
  /\ beat' = "off" /\ holds' \in {holds, holds - 1}
  /\ UNCHANGED <<hostVars, hold, workVars, op, v2State>>

V2Background ==
  \/ \E k \in Keys : Answers(k) \/ Refuses(k) \/ Babbles(k) \/ Dies(k)
  \/ \E k \in Keys : Lapses(k)

Admission == (Granted \/ Rejected \/ AdmissionLost \/ Activated) /\ UNCHANGED v2State
Start    == V2Hello \/ TakeHold \/ OpenJob \/ AskLease \/ Admission \/ LeaseTaken \/ LoadWorker
Segment  == Heard \/ Answered \/ SayChunk \/ Said \/ Complete
Receive  == StartInput \/ BadInput \/ HearFrame \/ StopInput \/ OwnSegment \/ QueuePut
            \/ FinishMeeting \/ JoinMeeting \/ Minutes \/ MeetingFinished \/ V2Leave
Cleanup  == PutMark \/ ScribeOver \/ TimedOut \/ CloseHold \/ CloseWorkers \/ ReturnLease \/ CloseJob

V2Next ==
  \/ Start \/ ReadLine \/ Segment \/ ScribeTakes \/ Receive \/ Cleanup
  \/ ClientGone \/ V2Struck \/ BeatStops
  \/ V2Background /\ UNCHANGED v2State

V2Spec == V2Init /\ [][V2Next]_v2Vars

(* The release runs on. That the Host answers what it awaits of it (leases,  *)
(* hold and Host Job are given back by calls without a limit, client.py) is *)
(* an assumption; that a worker answers is not one: the release waits five  *)
(* seconds for its processor.                                              *)
V2Fairness == WF_v2Vars(Cleanup)

V2Fair == V2Spec /\ V2Fairness

-----------------------------------------------------------------------------
(* Every answer is the one that was asked for, though no request has an id: *)
(* audio comes in the order of its text, all of it before the turn is       *)
(* complete; a transcript holds the segments in the order they were         *)
(* committed, and a meeting that finished while its processor lived has     *)
(* them all.                                                                *)
V2Whole ==
  /\ \A i \in DOMAIN said : said[i].text = i /\ said[i].answer = said[i].id
  /\ \A i \in DOMAIN transcript : transcript[i].n = i /\ transcript[i].answer = transcript[i].id
  /\ work = "done" /\ preset = "chat" => Len(said) = seg.chunks
  /\ scribe # "died" => \A m \in minuted : m[1] = m[2]

(* Once the end mark is queued the release ends, though a worker may never  *)
(* answer, as long as the Host does. Before that it waits for room in the   *)
(* queue, without a limit.                                                 *)
ReleaseEnds == v2 \in Releasing \ {"marking"} ~> v2 \in Final

(* Whatever ended the session, no worker process and no lease outlives it.  *)
NothingOutlives ==
  v2 \in {"over", "raised"} => leases = {} /\ \A k \in Keys : ~proc[k].alive

=============================================================================
