------------------------------- MODULE Meeting -------------------------------
(***************************************************************************)
(* A recorded meeting (meeting_api.meeting_ws) over one LivePool: the       *)
(* socket cuts the recording into segments and queues them, one processor   *)
(* transcribes and translates them and writes their rows, and the end of    *)
(* the meeting waits for all of them before it is summarised.               *)
(*                                                                         *)
(* Audio is left out but for whether a segment holds any; the queue has no  *)
(* bound, so putting into it never waits.                                   *)
(***************************************************************************)
EXTENDS LivePool

CONSTANTS
  MaxSegments,          \* bound: segments of the meeting
  Translates, Summarizes

ASSUME MeetingAssumption ==
  MaxSegments \in Nat /\ Translates \in BOOLEAN /\ Summarizes \in BOOLEAN

VARIABLES
  meeting,   \* what the socket's coroutine awaits
  wire,      \* transport_open
  record,    \* state of the MeetingSession row
  broke,     \* failed
  left,      \* disconnected
  filled,    \* the open segment holds audio
  cuts,      \* segments queued so far
  files,     \* their spool files on disk
  backlog,   \* the queue
  pending,   \* its unfinished items, which join() waits for
  clerk,     \* what the processor awaits, or that it died
  item,      \* the segment the processor holds, and its answer
  segments   \* rows of the segments

meetVars == <<meeting, wire, record, broke, left, filled, cuts, files, backlog, pending,
              clerk, item, segments>>
meetingVars == <<poolVars, meetVars>>

NoItem == [seq |-> 0, id |-> 0, answer |-> 0]

MeetingInit ==
  /\ PoolInit
  /\ meeting = "starting" /\ wire = TRUE /\ record = "recording" /\ broke = FALSE /\ left = FALSE
  /\ filled = FALSE /\ cuts = 0 /\ files = {} /\ backlog = <<>> /\ pending = 0
  /\ clerk = "off" /\ item = NoItem /\ segments = <<>>

Meet(m) == meeting' = m

-----------------------------------------------------------------------------
(* The socket.                                                              *)
MeetingReady ==
  /\ meeting = "starting" /\ StartSession
  /\ Meet("recording") /\ clerk' = "get"
  /\ UNCHANGED <<wire, record, broke, left, filled, cuts, files, backlog, pending, item, segments>>

(* Any exception: the row says interrupted, the clean-up begins.            *)
Breaks ==
  /\ broke' = TRUE /\ record' = "interrupted" /\ Meet("closing")
  /\ UNCHANGED <<wire, left, filled, cuts, files, backlog, pending, clerk, item, segments>>

MeetingFails ==
  /\ meeting \in {"starting", "minutes"} /\ op.step \in {"none"}
  /\ HostFault /\ Breaks
  /\ UNCHANGED <<hostVars, holdVars, workVars, op>>

BadFrame ==
  /\ meeting = "recording" /\ Fault /\ Breaks
  /\ UNCHANGED <<hostVars, holdVars, workVars, op>>

(* flush_chunk: the spool becomes a file, the file is queued.               *)
Flush ==
  /\ cuts' = cuts + 1 /\ files' = files \cup {cuts + 1} /\ filled' = FALSE
  /\ backlog' = Append(backlog, cuts + 1) /\ pending' = pending + 1

Keep == UNCHANGED <<cuts, files, filled, backlog, pending>>

Record ==
  /\ meeting = "recording" /\ wire /\ cuts < MaxSegments
  /\ \/ ~filled /\ filled' = TRUE /\ UNCHANGED <<cuts, files, backlog, pending>>
     \/ Flush          \* chunk_target is reached
  /\ UNCHANGED <<poolVars, meeting, wire, record, broke, left, clerk, item, segments>>

(* stop, or the client is gone: what is left is queued, the row is set to   *)
(* processing and the queue is joined.                                      *)
Finish(gone) ==
  /\ meeting = "recording"
  /\ left' = gone /\ wire' = (wire /\ ~gone)
  /\ IF filled THEN Flush ELSE Keep
  /\ record' = "processing" /\ Meet("joining")
  /\ UNCHANGED <<poolVars, broke, clerk, item, segments>>

StopSent == wire /\ Finish(FALSE)
ClientLeft == Finish(TRUE)

(* join(), the end mark, and the wait for the processor. The exception of   *)
(* one that died comes out of that wait, if join() came back: what it never  *)
(* took or finished keeps join() waiting.                                  *)
JoinedEmpty ==
  /\ meeting = "joining" /\ backlog = <<>> /\ clerk # "died"
  /\ Meet(IF Summarizes THEN "evicting" ELSE "writing") /\ clerk' = "off"
  /\ UNCHANGED <<poolVars, wire, record, broke, left, filled, cuts, files, backlog, pending, item, segments>>

Joined ==
  /\ meeting = "joining" /\ pending = 0 /\ clerk # "died"
  /\ Meet(IF Summarizes THEN "evicting" ELSE "writing") /\ clerk' = "off"
  /\ UNCHANGED <<poolVars, wire, record, broke, left, filled, cuts, files, backlog, pending, item, segments>>

JoinBroken ==
  /\ meeting = "joining" /\ pending = 0 /\ clerk = "died"
  /\ Breaks
  /\ UNCHANGED poolVars

(* The minutes: the speech worker makes room, the hold is renewed and the   *)
(* language model asked, any number of times.                               *)
MinutesCall ==
  /\ \/ meeting = "evicting" /\ Evict("asr")
     \/ meeting = "holding" /\ EnsureHold
  /\ UNCHANGED meetVars

MinutesGoOn ==
  /\ \/ /\ meeting \in {"evicting", "holding"} /\ op.step = "returned"
        /\ op' = NoOp
        /\ IF op.result = "ok" \/ meeting = "evicting"
           THEN /\ Meet(IF meeting = "evicting" THEN "holding" ELSE "minutes")
                /\ UNCHANGED <<wire, record, broke, left, filled, cuts, files, backlog, pending,
                               clerk, item, segments>>
           ELSE Breaks
     \/ /\ meeting = "minutes" /\ op = NoOp /\ Meet("writing")
        /\ UNCHANGED <<op, wire, record, broke, left, filled, cuts, files, backlog, pending,
                       clerk, item, segments>>
  /\ UNCHANGED <<faults, misled, hostVars, holdVars, workVars>>

Written ==
  /\ meeting = "writing" /\ Meet("closing")
  /\ record' = IF left THEN "interrupted" ELSE "completed"
  /\ UNCHANGED <<poolVars, wire, broke, left, filled, cuts, files, backlog, pending, clerk, item, segments>>

(* The clean-up: the processor is cancelled, then the pool and the Host     *)
(* session are closed. Files of segments still queued stay on disk.         *)
ClerkStopped ==
  /\ meeting = "closing" /\ clerk # "off"
  /\ \/ op.step \in {"none", "returned"} /\ op' = NoOp
        /\ UNCHANGED <<faults, misled, hostVars, holdVars, workVars>>
     \/ op.step \notin {"none", "returned"} /\ Abandon
  /\ clerk' = "off"
  /\ files' = files \ {item.seq} /\ item' = NoItem
  /\ UNCHANGED <<meeting, wire, record, broke, left, filled, cuts, backlog, pending, segments>>

MeetingShut ==
  /\ meeting = "closing" /\ clerk = "off" /\ poolOpen /\ op = NoOp /\ ShutPool
  /\ UNCHANGED <<faults, misled, hostVars, holdVars, op, meetVars>>

MeetingEvicts ==
  /\ meeting = "closing"
  /\ \E k \in Keys : CloseOne(k)
  /\ UNCHANGED meetVars

MeetingClosed ==
  /\ meeting = "closing" /\ ~poolOpen /\ pooled = {} /\ CloseSession(broke)
  /\ Meet("over")
  /\ UNCHANGED <<wire, record, broke, left, filled, cuts, files, backlog, pending, clerk, item, segments>>

(* A cancellation of the socket's coroutine skips to the clean-up, without  *)
(* a word in the row; in the clean-up it skips the rest.                    *)
MeetingStruck ==
  /\ meeting \notin {"over", "abandoned"}
  /\ faults < MaxFaults
  /\ Meet(IF meeting = "closing" THEN "abandoned" ELSE "closing")
  /\ \/ clerk = "off" /\ op.step \notin {"none", "returned"} /\ Abandon
     \/ /\ clerk # "off" \/ op.step \in {"none", "returned"}
        /\ faults' = faults + 1
        /\ op' = IF clerk = "off" THEN NoOp ELSE op
        /\ UNCHANGED <<misled, hostVars, holdVars, workVars>>
  /\ UNCHANGED <<wire, record, broke, left, filled, cuts, files, backlog, pending, clerk, item, segments>>

-----------------------------------------------------------------------------
(* The processor: one segment after the other, each on its own.             *)
ClerkTakes ==
  /\ clerk = "get" /\ backlog # <<>> /\ meeting # "closing"
  /\ Execute("asr", FALSE)
  /\ clerk' = "asr" /\ item' = [NoItem EXCEPT !.seq = Head(backlog)] /\ backlog' = Tail(backlog)
  /\ UNCHANGED <<meeting, wire, record, broke, left, filled, cuts, files, pending, segments>>

(* Its working directory lies outside the try: the processor dies, and the  *)
(* item is never done.                                                     *)
ClerkDies ==
  /\ clerk = "get" /\ backlog # <<>> /\ meeting # "closing"
  /\ Fault
  /\ clerk' = "died" /\ backlog' = Tail(backlog)
  /\ UNCHANGED <<hostVars, holdVars, workVars, op, meeting, wire, record, broke, left, filled, cuts,
                 files, pending, item, segments>>

(* The row of the segment, its files and task_done, whatever happened.      *)
Enter(state) ==
  /\ segments' = Append(segments, [seq |-> item.seq, state |-> state, id |-> item'.id, answer |-> item'.answer])
  /\ files' = files \ {item.seq} /\ pending' = pending - 1 /\ clerk' = "get"
  /\ UNCHANGED <<meeting, wire, record, broke, left, filled, cuts, backlog>>

(* A row that cannot be written is written as failed; where that fails too  *)
(* the processor dies, after its files are gone and the item is done.       *)
EntryLost ==
  /\ files' = files \ {item.seq} /\ pending' = pending - 1 /\ clerk' = "died"
  /\ UNCHANGED <<meeting, wire, record, broke, left, filled, cuts, backlog, segments>>

EnterFailed == (Enter("failed") /\ Well) \/ (EntryLost /\ Fault)
EnterFinal  == (Enter("final") /\ Well) \/ ((Enter("failed") \/ EntryLost) /\ Fault)

Pass(c) == clerk' = c /\ UNCHANGED <<meeting, wire, record, broke, left, filled, cuts, files, backlog,
                                     pending, segments>>

Transcribed ==
  /\ clerk = "asr" /\ op.step = "returned" /\ meeting # "closing" /\ op' = NoOp
  /\ item' = [item EXCEPT !.id = op.id, !.answer = op.answer]
  /\ IF op.result # "ok" THEN EnterFailed
     ELSE \/ Translates /\ Pass("hold") /\ Well
          \/ EnterFinal             \* also a blank text of a meeting that translates
  /\ UNCHANGED <<hostVars, holdVars, workVars>>

TranslationHold ==
  /\ clerk = "hold" /\ meeting # "closing" /\ EnsureHold /\ Pass("held") /\ UNCHANGED item

TranslationAsked ==
  /\ clerk = "held" /\ op.step = "returned" /\ meeting # "closing" /\ op' = NoOp
  /\ UNCHANGED item
  /\ IF op.result = "ok" THEN Pass("translating") /\ Well ELSE EnterFailed
  /\ UNCHANGED <<hostVars, holdVars, workVars>>

Translated ==
  /\ clerk = "translating" /\ meeting # "closing"
  /\ UNCHANGED item
  /\ EnterFinal \/ ((Enter("failed") \/ EntryLost) /\ HostFault)
  /\ UNCHANGED <<hostVars, holdVars, workVars, op>>

-----------------------------------------------------------------------------
MeetingSocket == MeetingReady \/ MeetingFails \/ BadFrame \/ Record \/ StopSent \/ ClientLeft \/ Joined \/ JoinBroken
                 \/ MinutesCall \/ MinutesGoOn \/ Written
                 \/ ClerkStopped \/ MeetingShut \/ MeetingEvicts \/ MeetingClosed

MeetingNext ==
  \/ MeetingSocket \/ MeetingStruck
  \/ ClerkTakes \/ ClerkDies \/ Transcribed \/ TranslationHold \/ TranslationAsked \/ Translated
  \/ (Background \/ Operation) /\ UNCHANGED meetVars

MeetingSpec == MeetingInit /\ [][MeetingNext]_meetingVars

(* Segments are written in the order they were cut, each once, each with    *)
(* the worker's answer to its own request; a meeting that ended by itself   *)
(* has them all and leaves no spool file.                                   *)
MeetingWhole ==
  /\ \A i \in DOMAIN segments :
       /\ segments[i].seq = i
       /\ segments[i].state = "final" => segments[i].answer = segments[i].id
  /\ record = "completed" \/ (record = "interrupted" /\ ~broke) =>
       Len(segments) = cuts /\ files = {}

=============================================================================
