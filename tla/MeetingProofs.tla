---------------------------- MODULE MeetingProofs -----------------------------
(***************************************************************************)
(* Proofs about a meeting, for any number of segments: its workers run     *)
(* under their leases and the session gives everything back (by PoolInv,   *)
(* which every operation of its pool keeps), and its record is whole, which*)
(* needs to say of every moment where each segment is: written, in the     *)
(* processor's hands, or queued.                                           *)
(*                                                                         *)
(* Then about a sonic-live/2 socket, whose workers know no request ids: what*)
(* a worker has printed and nobody read answers the request under way as   *)
(* long as anybody asks (Wire, Asking), so every answer is the right one; and*)
(* a meeting's segments are in its transcript, in its processor's hands or *)
(* queued, in this order, the end mark last (V2Placed).                    *)
(***************************************************************************)
EXTENDS Meeting, LiveV2, LivePoolProofs, Integers

\* Which suspensions may meet a closed pool or session.
ClosesLast ==
  /\ ~open => meeting = "over"
  /\ ~poolOpen => op = NoOp /\ clerk = "off" /\ meeting \in {"closing", "over", "abandoned"}
  /\ broke \in BOOLEAN

LeaseInv == PoolInv /\ ClosesLast

\* A meeting that has not begun.
LEMMA MeetingInitLeases == MeetingInit => LeaseInv
  BY PoolInitInv DEF MeetingInit, PoolInit, LeaseInv, ClosesLast

\* Every step of a meeting takes its pool from one state of PoolInv to another.
LEMMA MeetingPool == ASSUME LeaseInv, [MeetingNext]_meetingVars PROVE PoolInv'
<1> USE DEF LeaseInv
<1>1. "asr" \in Keys /\ FALSE \in BOOLEAN BY DEF Keys
<1>2. poolOpen => open BY DEF PoolInv, ClosedIsEmpty
<1>3. ASSUME MeetingReady PROVE PoolInv' BY <1>3, StartSessionKeeps DEF MeetingReady, ClosesLast
<1>4. ASSUME MeetingFails \/ BadFrame PROVE PoolInv'
  BY <1>4, FaultKeeps DEF MeetingFails, BadFrame, HostFault, Fault
<1>5. ASSUME Record \/ StopSent \/ ClientLeft \/ Joined \/ JoinBroken \/ Written
             \/ UNCHANGED meetingVars PROVE PoolInv'
  BY <1>5, StillKeeps DEF Record, StopSent, ClientLeft, Finish, Joined, JoinBroken, Written,
       meetingVars
<1>6. ASSUME MinutesCall PROVE PoolInv'
  BY <1>1, <1>6, EvictKeeps, EnsureHoldKeeps DEF MinutesCall, ClosesLast
<1>7. ASSUME MinutesGoOn \/ Transcribed \/ TranslationAsked PROVE PoolInv'
  <2>1. UNCHANGED <<misled, hostVars, holdVars, workVars>>
    BY <1>7 DEF MinutesGoOn, Transcribed, TranslationAsked, EnterFailed, EnterFinal, Well, Fault
  <2>2. \/ op.step = "returned" /\ op' = NoOp
        \/ op = NoOp /\ op' = op
    BY <1>7 DEF MinutesGoOn, Transcribed, TranslationAsked
  <2> QED BY <2>1, <2>2, TakeKeeps, FaultKeeps
<1>8. ASSUME ClerkStopped PROVE PoolInv'
  BY <1>8, TakeKeeps, AbandonKeeps DEF ClerkStopped
<1>9. ASSUME MeetingShut PROVE PoolInv' BY <1>9, ShutPoolKeeps DEF MeetingShut
<1>10. ASSUME MeetingEvicts PROVE PoolInv' BY <1>10, CloseOneKeeps DEF MeetingEvicts, ClosesLast
<1>11. ASSUME MeetingClosed PROVE PoolInv'
  BY <1>11, CloseSessionKeeps DEF MeetingClosed, ClosesLast
<1>12. ASSUME MeetingStruck PROVE PoolInv'
  <2>1. CASE Abandon BY <2>1, AbandonKeeps
  <2>2. CASE ~Abandon
    <3>1. UNCHANGED <<misled, hostVars, holdVars, workVars>> /\ op' \in {NoOp, op}
          /\ (op' # op => op.step \in {"none", "returned"})
      BY <1>12, <2>2 DEF MeetingStruck
    <3> QED BY <3>1, TakeKeeps, FaultKeeps
  <2> QED BY <2>1, <2>2
<1>13. ASSUME ClerkTakes PROVE PoolInv'
  BY <1>1, <1>2, <1>13, ExecuteKeeps DEF ClerkTakes, ClosesLast
<1>14. ASSUME TranslationHold PROVE PoolInv'
  BY <1>2, <1>14, EnsureHoldKeeps DEF TranslationHold, ClosesLast
<1>15. ASSUME Translated \/ ClerkDies PROVE PoolInv'
  BY <1>15, FaultKeeps DEF Translated, ClerkDies, EnterFinal, Well, Fault, HostFault
<1>16. ASSUME Background \/ Operation PROVE PoolInv'
  BY <1>16, BackgroundKeeps, OperationKeeps
<1> QED
  BY <1>3, <1>4, <1>5, <1>6, <1>7, <1>8, <1>9, <1>10, <1>11, <1>12, <1>13, <1>14, <1>15, <1>16
        DEF MeetingNext, MeetingSocket

\* Nothing is asked of a closed pool, and the session is closed last.
LEMMA MeetingCloses == ASSUME LeaseInv, [MeetingNext]_meetingVars PROVE ClosesLast'
<1> USE DEF LeaseInv
<1>1. CASE MeetingSocket
  BY <1>1 DEF ClosesLast, MeetingSocket, MeetingReady, StartSession, MeetingFails, BadFrame,
       Breaks,
     Record, StopSent, ClientLeft, Finish, Joined, JoinBroken, MinutesCall, Evict, EnsureHold, MinutesGoOn,
     Written, ClerkStopped, Abandon, MeetingShut, ShutPool, MeetingEvicts, CloseOne, MeetingClosed,
     CloseSession, poolVars, meetVars, workVars, Meet
<1>2. CASE \/ MeetingStruck \/ ClerkTakes \/ ClerkDies \/ Transcribed
           \/ TranslationHold \/ TranslationAsked \/ Translated
  <2>1. poolOpen' = poolOpen /\ open' = open
    BY <1>2 DEF MeetingStruck, Abandon, ClerkTakes, ClerkDies, Execute, Transcribed, TranslationHold,
         EnsureHold,
           TranslationAsked, Translated, workVars
  <2>2. open \/ op.step = "none" BY DEF PoolInv, ClosedIsEmpty, NoOp
  <2> QED
    BY <1>2, <2>1, <2>2 DEF ClosesLast, MeetingStruck, Abandon, ClerkTakes, ClerkDies, Transcribed,
         TranslationHold, TranslationAsked, Translated, EnterFinal, EnterFailed, Meet, Enter,
         EntryLost, Pass, NoOp
<1>3. CASE (Background \/ Operation) /\ UNCHANGED meetVars
  <2>1. poolOpen' = poolOpen /\ open' = open
    <3>1. CASE Background
      BY <3>1 DEF Background, Answers, Refuses, Babbles, Emit, Dies, Lapses, HoldLost,
           HoldRecreated, workVars
    <3>2. CASE Evicted \/ Cleared \/ Admitting \/ Granted \/ Queued \/ Rejected \/ RoomMade
      BY <3>2 DEF Evicted, Cleared, Admitting, Granted, Queued, Rejected, RoomMade, workVars
    <3>3. CASE \/ AdmissionLost \/ Activated \/ Spawned \/ SpawnFailed \/ Read \/ ReportFailed
               \/ EndOfOutput \/ HoldCreated \/ HoldRefused \/ HoldDropped
      BY <3>3 DEF AdmissionLost, Activated, Spawned, SpawnFailed, Read, ReportFailed,
           EndOfOutput, HoldCreated, HoldRefused, HoldDropped, workVars
    <3> QED BY <1>3, <3>1, <3>2, <3>3 DEF Operation
  <2>2. op = NoOp => op' = op
    <3>1. Background => op' = op
      BY DEF Background, Answers, Refuses, Babbles, Emit, Dies, Lapses, HoldLost, HoldRecreated
    <3>2. Operation => op.step # "none"
      BY DEF Operation, Evicted, Cleared, Admitting, Granted, Queued, Rejected, RoomMade,
           AdmissionLost,
             Activated, Spawned, SpawnFailed, Read, ReportFailed, EndOfOutput, HoldCreated,
             HoldRefused, HoldDropped
    <3> QED BY <1>3, <3>1, <3>2 DEF NoOp
  <2> QED BY <1>3, <2>1, <2>2 DEF ClosesLast, meetVars
<1>4. CASE UNCHANGED meetingVars
  BY <1>4 DEF ClosesLast, meetingVars, poolVars, workVars, meetVars
<1> QED BY <1>1, <1>2, <1>3, <1>4 DEF MeetingNext

\* The workers of a meeting run under their leases, for every choice of the keys
\* that need the GPU, every number of segments and every fault.
THEOREM MeetingUnderLease == MeetingSpec => []WorkerUnderLease
<1>1. LeaseInv /\ [MeetingNext]_meetingVars => LeaseInv'
  BY MeetingPool, MeetingCloses DEF LeaseInv
<1>2. LeaseInv => WorkerUnderLease BY PoolInvSuffices DEF LeaseInv
<1> QED BY MeetingInitLeases, <1>1, <1>2, PTL DEF MeetingSpec

\* A meeting that closed its session has given everything back.
THEOREM MeetingGivesBack == MeetingSpec => []GivesBack
<1>1. LeaseInv /\ [MeetingNext]_meetingVars => LeaseInv'
  BY MeetingPool, MeetingCloses DEF LeaseInv
<1>2. LeaseInv => GivesBack BY PoolInvSuffices DEF LeaseInv
<1> QED BY MeetingInitLeases, <1>1, <1>2, PTL DEF MeetingSpec

-----------------------------------------------------------------------------

Busy   == IF clerk \in {"asr", "hold", "held", "translating"} THEN 1 ELSE 0
Rows   == [seq : Nat, state : {"final", "failed"}, id : Nat, answer : Nat]
\* The row says that the meeting ended by itself.
Settled == record = "completed" \/ (record = "interrupted" /\ ~broke)

MeetTyped ==
  /\ cuts \in Nat /\ pending \in Int /\ backlog \in Seq(Nat) /\ segments \in Seq(Rows)
  /\ item \in [seq : Nat, id : Nat, answer : Nat]
  /\ clerk \in {"off", "get", "asr", "hold", "held", "translating", "died"}

\* While the processor lives, every segment that was cut is written, in its hands or
\* queued, in this order.
Placed ==
  clerk \notin {"off", "died"} =>
    /\ cuts = (Len(segments) + Busy) + Len(backlog) /\ pending = Busy + Len(backlog)
    /\ Busy = 1 => item.seq = Len(segments) + 1
    /\ \A i \in 1..Len(backlog) : backlog[i] = (Len(segments) + Busy) + i
    /\ files = (Len(segments) + 1)..cuts

\* A text that is being translated is the answer to its own request.
ItemAnswered == clerk \in {"hold", "held", "translating"} => item.answer = item.id

\* Where the meeting is decides what is known of its segments.
Course ==
  /\ meeting = "starting" =>
       clerk = "off" /\ cuts = 0 /\ segments = <<>> /\ backlog = <<>> /\ files = {} /\ pending = 0
  /\ meeting \in {"recording", "joining"} => clerk # "off"
  /\ meeting \in {"evicting", "holding", "minutes", "writing"} =>
       clerk = "off" /\ Len(segments) = cuts /\ files = {}
  /\ Settled => meeting \in {"closing", "over", "abandoned"} /\ clerk = "off"

WholeInv == MeetTyped /\ Placed /\ ItemAnswered /\ Course /\ MeetingWhole

\* A meeting that has not begun has no segments.
LEMMA WholeInit == MeetingInit => WholeInv
  BY DEF MeetingInit, WholeInv, MeetTyped, Placed, ItemAnswered, Course, MeetingWhole,
       Settled, NoItem, Busy

\* An interval and its next number.
LEMMA OneMore ==
  ASSUME NEW m \in Nat, NEW n \in Nat, m <= n
  PROVE  ((m + 1)..n) \cup {n + 1} = (m + 1)..(n + 1)
OBVIOUS

\* A segment is cut: it is the last of the queue.
LEMMA FlushKeeps ==
  ASSUME WholeInv, clerk # "off", Flush, UNCHANGED <<clerk, item, segments>>
  PROVE  MeetTyped' /\ Placed' /\ ItemAnswered'
<1>1. Busy' = Busy /\ Busy \in {0, 1} /\ clerk' = clerk BY DEF Busy
<1>2. /\ cuts \in Nat /\ pending \in Int /\ backlog \in Seq(Nat) /\ Len(segments) \in Nat
      /\ Len(backlog) \in Nat
  BY DEF WholeInv, MeetTyped
<1>3. /\ backlog' = Append(backlog, cuts + 1) /\ Len(backlog') = Len(backlog) + 1
      /\ \A i \in 1..Len(backlog) : backlog'[i] = backlog[i]
      /\ backlog'[Len(backlog) + 1] = cuts + 1
  BY <1>2 DEF Flush
<1>4. MeetTyped' BY <1>2, <1>3 DEF Flush, WholeInv, MeetTyped
<1>5. ASSUME clerk # "died" PROVE Placed'
  <2>1. /\ cuts = (Len(segments) + Busy) + Len(backlog) /\ pending = Busy + Len(backlog)
        /\ Busy = 1 => item.seq = Len(segments) + 1
        /\ \A i \in 1..Len(backlog) : backlog[i] = (Len(segments) + Busy) + i
        /\ files = (Len(segments) + 1)..cuts
    BY <1>5 DEF WholeInv, Placed
  <2>2. ASSUME NEW i \in 1..Len(backlog') PROVE backlog'[i] = (Len(segments) + Busy) + i
    <3>1. i \in 1..(Len(backlog) + 1) BY <1>3
    <3>2. CASE i = Len(backlog) + 1
      <4>1. cuts + 1 = (Len(segments) + Busy) + (Len(backlog) + 1) BY <1>1, <1>2, <2>1
      <4> QED BY <1>3, <3>2, <4>1
    <3>3. CASE i # Len(backlog) + 1
      <4>1. i \in 1..Len(backlog) BY <1>2, <3>1, <3>3
      <4> QED BY <1>3, <2>1, <4>1
    <3> QED BY <3>2, <3>3
  <2>3. files' = (Len(segments) + 1)..cuts' /\ cuts' = cuts + 1 /\ pending' = pending + 1
    <3>1. files' = ((Len(segments) + 1)..cuts) \cup {cuts + 1} /\ cuts' = cuts + 1
          /\ pending' = pending + 1
      BY <2>1 DEF Flush
    <3>2. Len(segments) <= cuts BY <1>1, <1>2, <2>1
    <3> QED BY <1>2, <3>1, <3>2, OneMore
  <2> QED BY <1>1, <1>2, <1>3, <2>1, <2>2, <2>3 DEF Placed
<1>6. clerk = "died" => Placed' BY <1>1 DEF Placed
<1>7. ItemAnswered' BY DEF WholeInv, ItemAnswered
<1> QED BY <1>4, <1>5, <1>6, <1>7

\* A segment is written: it was the one in the processor's hands.
LEMMA EnterKeeps ==
  ASSUME WholeInv, Busy = 1, NEW state \in {"final", "failed"}, Enter(state),
         item' \in [seq : Nat, id : Nat, answer : Nat], item'.seq = item.seq,
         state = "final" => item'.answer = item'.id
  PROVE  WholeInv'
<1>1. clerk \notin {"off", "died"} /\ clerk' = "get" /\ Busy' = 0 BY DEF Busy, Enter
<1> DEFINE row == [seq |-> item.seq, state |-> state, id |-> item'.id, answer |-> item'.answer]
<1>2. /\ cuts \in Nat /\ backlog \in Seq(Nat) /\ segments \in Seq(Rows) /\ pending \in Int
      /\ item.seq = Len(segments) + 1 /\ item.seq \in Nat
  BY <1>1 DEF WholeInv, MeetTyped, Placed
<1>3. row \in Rows /\ row.seq = item.seq /\ (row.state = "final" => row.answer = row.id)
  BY <1>2 DEF Rows
<1>4. segments' = Append(segments, row) BY DEF Enter
<1> HIDE DEF row
<1>5. /\ segments' \in Seq(Rows) /\ Len(segments') = Len(segments) + 1 /\ Len(segments) \in Nat
      /\ \A i \in 1..Len(segments) : segments'[i] = segments[i]
      /\ segments'[Len(segments) + 1] = row
      /\ DOMAIN segments' = 1..(Len(segments) + 1) /\ DOMAIN segments = 1..Len(segments)
  BY <1>2, <1>3, <1>4
<1>6. /\ files' = files \ {item.seq} /\ pending' = pending - 1
      /\ UNCHANGED <<meeting, wire, record, broke, left, filled, cuts, backlog>>
  BY DEF Enter
<1>7. MeetTyped' BY <1>1, <1>2, <1>5, <1>6 DEF WholeInv, MeetTyped
<1>8. Placed' BY <1>1, <1>2, <1>5, <1>6 DEF WholeInv, Placed
<1>9. ItemAnswered' BY <1>1 DEF ItemAnswered
<1>10. ~Settled /\ Settled' = Settled BY <1>1, <1>6 DEF WholeInv, Course, Settled
<1>11. Course' BY <1>1, <1>6, <1>10 DEF WholeInv, Course
<1>12. MeetingWhole'
  <2>1. \A i \in DOMAIN segments' :
          segments'[i].seq = i /\ (segments'[i].state = "final" => segments'[i].answer = segments'[i].id)
    <3> SUFFICES ASSUME NEW i \in 1..(Len(segments) + 1)
                 PROVE  segments'[i].seq = i /\ (segments'[i].state = "final" => segments'[i].answer = segments'[i].id)
      BY <1>5
    <3>1. CASE i = Len(segments) + 1 BY <1>2, <1>3, <1>5, <3>1
    <3>2. CASE i # Len(segments) + 1
      <4>1. i \in DOMAIN segments /\ segments'[i] = segments[i] BY <1>5, <3>2
      <4> QED BY <4>1 DEF WholeInv, MeetingWhole
    <3> QED BY <3>1, <3>2
  <2> QED BY <1>10, <2>1 DEF MeetingWhole, Settled
<1> QED BY <1>7, <1>8, <1>9, <1>11, <1>12 DEF WholeInv

\* A segment is lost with its processor, and no longer follows from where it is.
LEMMA LostKeeps ==
  ASSUME WholeInv, Busy = 1, EntryLost, item' \in [seq : Nat, id : Nat, answer : Nat]
  PROVE  WholeInv'
<1>1. /\ clerk # "off" /\ clerk' = "died" /\ pending' = pending - 1
      /\ UNCHANGED <<meeting, record, broke, cuts, backlog, segments>>
  BY DEF Busy, EntryLost
<1>2. ~Settled /\ ~Settled' BY <1>1 DEF WholeInv, Course, Settled
<1>3. MeetTyped' /\ ItemAnswered' /\ Placed'
  BY <1>1 DEF WholeInv, MeetTyped, ItemAnswered, Placed
<1>4. Course'
  <2>1. meeting \notin {"starting", "evicting", "holding", "minutes", "writing"}
    BY <1>1 DEF WholeInv, Course
  <2> QED BY <1>1, <1>2, <2>1 DEF Course
<1>5. MeetingWhole' BY <1>1, <1>2 DEF WholeInv, MeetingWhole, Settled
<1> QED BY <1>3, <1>4, <1>5 DEF WholeInv

\* Segments and answers stay, the processor is between two of its awaits.
LEMMA PassKeeps ==
  ASSUME WholeInv, Busy = 1, Busy' = 1, NEW c, Pass(c), clerk' \in {"hold", "held", "translating"},
         item' \in [seq : Nat, id : Nat, answer : Nat], item'.seq = item.seq, item'.answer = item'.id
  PROVE  WholeInv'
<1>1. UNCHANGED <<meeting, record, broke, cuts, files, backlog, pending, segments>>
      /\ clerk \notin {"off", "died"}
  BY DEF Pass, Busy
<1>2. MeetTyped' /\ ItemAnswered' BY <1>1 DEF WholeInv, MeetTyped, ItemAnswered
<1>3. Placed' BY <1>1 DEF WholeInv, Placed
<1>4. Course' /\ MeetingWhole' BY <1>1 DEF WholeInv, Course, MeetingWhole, Settled
<1> QED BY <1>2, <1>3, <1>4 DEF WholeInv

\* Nothing of the record changes but how far the socket is.
LEMMA SocketKeeps ==
  ASSUME WholeInv, UNCHANGED <<cuts, files, backlog, pending, item, segments>>,
         clerk' = clerk \/ clerk' = "off",
         meeting' \in {"closing", "over", "abandoned"} \/ (clerk' = "off" /\ Len(segments) = cuts /\ files = {})
           \/ meeting' = meeting,
         meeting' = meeting => clerk' = clerk,
         meeting' \notin {"starting", "recording", "joining"} \/ meeting' = meeting,
         Settled' => \/ Settled
                     \/ /\ clerk' = "off" /\ Len(segments) = cuts /\ files = {} 
                        /\ meeting' \in {"closing", "over", "abandoned"},
         Settled /\ meeting' # meeting => meeting' \in {"closing", "over", "abandoned"}
  PROVE  WholeInv'
<1>1. Busy' = Busy \/ clerk' = "off" BY DEF Busy
<1>2. MeetTyped' /\ ItemAnswered' BY DEF WholeInv, MeetTyped, ItemAnswered
<1>3. Placed' BY <1>1 DEF WholeInv, Placed, Busy
<1>4. Course' BY DEF WholeInv, Course
<1>5. MeetingWhole' BY DEF WholeInv, MeetingWhole, Settled
<1> QED BY <1>2, <1>3, <1>4, <1>5 DEF WholeInv

\* The steps of the socket.
LEMMA SocketWhole == ASSUME LeaseInv, WholeInv, MeetingSocket \/ MeetingStruck PROVE WholeInv'
<1>1. CASE MeetingReady
  <2>1. /\ meeting = "starting" /\ meeting' = "recording" /\ clerk' = "get"
        /\ UNCHANGED <<record, broke, cuts, files, backlog, pending, item, segments>>
    BY <1>1 DEF MeetingReady, Meet
  <2>2. cuts = 0 /\ segments = <<>> /\ backlog = <<>> /\ files = {} /\ pending = 0 /\ ~Settled /\ ~Settled'
    BY <2>1 DEF WholeInv, Course, Settled
  <2>3. MeetTyped' /\ ItemAnswered' BY <2>1 DEF WholeInv, MeetTyped, ItemAnswered
  <2>4. Placed' BY <2>1, <2>2 DEF Placed, Busy
  <2>5. Course' /\ MeetingWhole' BY <2>1, <2>2 DEF WholeInv, Course, MeetingWhole, Settled
  <2> QED BY <2>3, <2>4, <2>5 DEF WholeInv
<1>2. CASE MeetingFails \/ BadFrame \/ JoinBroken
  <2>1. /\ broke' = TRUE /\ record' = "interrupted" /\ meeting' = "closing"
        /\ UNCHANGED <<cuts, files, backlog, pending, clerk, item, segments>>
    BY <1>2 DEF MeetingFails, BadFrame, JoinBroken, Breaks, Meet
  <2>2. ~Settled' BY <2>1 DEF Settled
  <2> QED BY <2>1, <2>2, SocketKeeps
<1>3. CASE Record
  <2>1. /\ meeting = "recording" /\ meeting' = meeting /\ clerk # "off"
        /\ UNCHANGED <<record, broke, clerk, item, segments>> /\ ~Settled
        /\ Flush \/ UNCHANGED <<cuts, files, backlog, pending>>
    BY <1>3 DEF Record, WholeInv, Course
  <2>2. MeetTyped' /\ Placed' /\ ItemAnswered'
    <3>1. CASE Flush BY <2>1, <3>1, FlushKeeps
    <3>2. CASE UNCHANGED <<cuts, files, backlog, pending>>
      BY <2>1, <3>2 DEF WholeInv, MeetTyped, Placed, ItemAnswered, Busy
    <3> QED BY <2>1, <3>1, <3>2
  <2>3. Course' /\ MeetingWhole' BY <2>1 DEF WholeInv, Course, MeetingWhole, Settled
  <2> QED BY <2>2, <2>3 DEF WholeInv
<1>4. CASE StopSent \/ ClientLeft
  <2>1. /\ meeting = "recording" /\ meeting' = "joining" /\ record' = "processing"
        /\ clerk # "off"
        /\ UNCHANGED <<broke, clerk, item, segments>>
        /\ Flush \/ UNCHANGED <<cuts, files, backlog, pending>>
    BY <1>4 DEF StopSent, ClientLeft, Finish, Keep, Meet, WholeInv, Course
  <2>2. MeetTyped' /\ Placed' /\ ItemAnswered'
    <3>1. CASE Flush BY <2>1, <3>1, FlushKeeps
    <3>2. CASE UNCHANGED <<cuts, files, backlog, pending>>
      BY <2>1, <3>2 DEF WholeInv, MeetTyped, Placed, ItemAnswered, Busy
    <3> QED BY <2>1, <3>1, <3>2
  <2>3. Course' /\ MeetingWhole' BY <2>1 DEF WholeInv, Course, MeetingWhole, Settled
  <2> QED BY <2>2, <2>3 DEF WholeInv
<1>5. CASE Joined
  <2>1. /\ meeting = "joining" /\ meeting' \in {"evicting", "writing"} /\ clerk' = "off"
        /\ pending = 0 /\ clerk # "died"
        /\ UNCHANGED <<record, broke, cuts, files, backlog, pending, item, segments>>
    BY <1>5 DEF Joined, Meet
  <2>2. Len(segments) = cuts /\ files = {} /\ ~Settled /\ ~Settled'
    <3>1. clerk # "off" /\ ~Settled BY <2>1 DEF WholeInv, Course
    <3>2. /\ cuts = (Len(segments) + Busy) + Len(backlog) /\ 0 = Busy + Len(backlog)
          /\ files = (Len(segments) + 1)..cuts
      BY <2>1, <3>1 DEF WholeInv, Placed
    <3>3. Len(segments) \in Nat /\ Len(backlog) \in Nat /\ Busy \in {0, 1}
      BY DEF WholeInv, MeetTyped, Busy
    <3>4. Len(segments) = cuts BY <3>2, <3>3
    <3>5. files = {} BY <3>2, <3>3, <3>4
    <3> QED BY <2>1, <3>1, <3>4, <3>5 DEF Settled
  <2> QED BY <2>1, <2>2, SocketKeeps
<1>6. CASE MinutesCall \/ MinutesGoOn
  <2>1. /\ meeting \in {"evicting", "holding", "minutes"}
        /\ \/ meeting' \in {"evicting", "holding", "minutes", "writing"} /\ UNCHANGED <<record, broke>>
           \/ meeting' = "closing" /\ broke' = TRUE /\ record' = "interrupted"
        /\ UNCHANGED <<cuts, files, backlog, pending, clerk, item, segments>>
    BY <1>6 DEF MinutesCall, MinutesGoOn, meetVars, Breaks, Meet
  <2>2. clerk = "off" /\ Len(segments) = cuts /\ files = {} /\ ~Settled /\ ~Settled'
    BY <2>1 DEF WholeInv, Course, Settled
  <2> QED BY <2>1, <2>2, SocketKeeps
<1>7. CASE Written
  <2>1. /\ meeting = "writing" /\ meeting' = "closing"
        /\ UNCHANGED <<broke, cuts, files, backlog, pending, clerk, item, segments>>
    BY <1>7 DEF Written, Meet
  <2>2. clerk = "off" /\ Len(segments) = cuts /\ files = {} /\ ~Settled
    BY <2>1 DEF WholeInv, Course
  <2> QED BY <2>1, <2>2, SocketKeeps
<1>8. CASE ClerkStopped
  <2>1. /\ clerk # "off" /\ clerk' = "off" /\ item' = NoItem /\ meeting = "closing"
        /\ UNCHANGED <<meeting, record, broke, cuts, backlog, pending, segments>>
    BY <1>8 DEF ClerkStopped
  <2>2. ~Settled /\ ~Settled' BY <2>1 DEF WholeInv, Course, Settled
  <2>3. MeetTyped' /\ ItemAnswered' BY <2>1 DEF WholeInv, MeetTyped, ItemAnswered, NoItem
  <2>4. Placed' BY <2>1 DEF Placed
  <2>5. Course' /\ MeetingWhole' BY <2>1, <2>2 DEF WholeInv, Course, MeetingWhole, Settled
  <2> QED BY <2>3, <2>4, <2>5 DEF WholeInv
<1>9. CASE MeetingShut \/ MeetingEvicts \/ MeetingClosed \/ MeetingStruck
  <2>1. /\ meeting' \in {"closing", "over", "abandoned"}
        /\ UNCHANGED <<record, broke, cuts, files, backlog, pending, clerk, item, segments>>
    BY <1>9 DEF MeetingShut, MeetingEvicts, MeetingClosed, MeetingStruck, meetVars, Meet
  <2>2. Settled' = Settled BY <2>1 DEF Settled
  <2> QED BY <2>1, <2>2, SocketKeeps
<1> QED BY <1>1, <1>2, <1>3, <1>4, <1>5, <1>6, <1>7, <1>8, <1>9 DEF MeetingSocket

\* The steps of the processor.
LEMMA ClerkWhole ==
  ASSUME LeaseInv, WholeInv,
         \/ ClerkTakes \/ ClerkDies \/ Transcribed
         \/ TranslationHold \/ TranslationAsked \/ Translated
  PROVE  WholeInv'
<1>1. CASE ClerkTakes
  <2>1. /\ clerk = "get" /\ clerk' = "asr" /\ backlog # <<>> /\ backlog' = Tail(backlog)
        /\ item' = [NoItem EXCEPT !.seq = Head(backlog)]
        /\ UNCHANGED <<meeting, record, broke, cuts, files, pending, segments>>
    BY <1>1 DEF ClerkTakes
  <2>2. Busy = 0 /\ Busy' = 1 BY <2>1 DEF Busy
  <2>3. /\ backlog \in Seq(Nat) /\ Len(segments) \in Nat /\ cuts = Len(segments) + Len(backlog)
        /\ pending = Len(backlog) /\ files = (Len(segments) + 1)..cuts
        /\ \A i \in 1..Len(backlog) : backlog[i] = Len(segments) + i
    BY <2>1, <2>2 DEF WholeInv, MeetTyped, Placed
  <2>4. /\ Tail(backlog) \in Seq(Nat) /\ Len(Tail(backlog)) = Len(backlog) - 1
        /\ Len(backlog) \in Nat \ {0}
        /\ Head(backlog) = backlog[1]
        /\ \A i \in 1..(Len(backlog) - 1) : Tail(backlog)[i] = backlog[i + 1]
    BY <2>1, <2>3
  <2>5. item'.seq = Len(segments) + 1 /\ item' \in [seq : Nat, id : Nat, answer : Nat]
    <3>1. Head(backlog) = Len(segments) + 1 /\ Head(backlog) \in Nat BY <2>3, <2>4
    <3> QED BY <2>1, <3>1 DEF NoItem
  <2>6. MeetTyped' /\ ItemAnswered' BY <2>1, <2>4, <2>5 DEF WholeInv, MeetTyped, ItemAnswered
  <2>7. Placed'
    <3>1. \A i \in 1..Len(backlog') : backlog'[i] = (Len(segments) + 1) + i
      <4> SUFFICES ASSUME NEW i \in 1..(Len(backlog) - 1)
                   PROVE  Tail(backlog)[i] = (Len(segments) + 1) + i
        BY <2>1, <2>4
      <4>1. i + 1 \in 1..Len(backlog) BY <2>4
      <4> QED BY <2>3, <2>4, <4>1
    <3>2. cuts' = (Len(segments') + 1) + Len(backlog') /\ pending' = 1 + Len(backlog')
      BY <2>1, <2>3, <2>4
    <3> QED BY <2>1, <2>2, <2>3, <2>5, <3>1, <3>2 DEF Placed
  <2>8. ~Settled /\ Settled' = Settled BY <2>1 DEF WholeInv, Course, Settled
  <2>9. Course' /\ MeetingWhole' BY <2>1, <2>8 DEF WholeInv, Course, MeetingWhole, Settled
  <2> QED BY <2>6, <2>7, <2>9 DEF WholeInv
<1>2. CASE Transcribed
  <2>1. /\ clerk = "asr" /\ Busy = 1 /\ item' = [item EXCEPT !.id = op.id, !.answer = op.answer]
        /\ op.id \in Nat /\ op.answer \in Nat /\ (op.result = "ok" => op.answer = op.id)
    BY <1>2 DEF Transcribed, Busy, LeaseInv, PoolInv, PoolTyped, Operations, Correlated
  <2>2. /\ item' \in [seq : Nat, id : Nat, answer : Nat] /\ item'.seq = item.seq
        /\ item'.id = op.id /\ item'.answer = op.answer
    BY <2>1 DEF WholeInv, MeetTyped
  <2>3. CASE op.result # "ok"
    <3>1. Enter("failed") \/ EntryLost BY <1>2, <2>3 DEF Transcribed, EnterFailed
    <3> QED BY <2>1, <2>2, <3>1, EnterKeeps, LostKeeps
  <2>4. CASE op.result = "ok"
    <3>1. CASE EnterFinal
      <4>1. Enter("final") \/ Enter("failed") \/ EntryLost BY <3>1 DEF EnterFinal
      <4> QED BY <2>1, <2>2, <2>4, <4>1, EnterKeeps, LostKeeps
    <3>2. CASE Pass("hold")
      <4>1. clerk' = "hold" /\ Busy' = 1 BY <3>2 DEF Pass, Busy
      <4> QED BY <2>1, <2>2, <2>4, <3>2, <4>1, PassKeeps
    <3> QED BY <1>2, <2>4, <3>1, <3>2 DEF Transcribed
  <2> QED BY <2>3, <2>4
<1>3. CASE TranslationHold \/ TranslationAsked \/ Translated
  <2>1. /\ clerk \in {"hold", "held", "translating"} /\ Busy = 1 /\ item' = item
        /\ item \in [seq : Nat, id : Nat, answer : Nat] /\ item.answer = item.id
    BY <1>3 DEF TranslationHold, TranslationAsked, Translated, Busy, WholeInv, MeetTyped,
         ItemAnswered
  <2>2. Enter("final") \/ Enter("failed") \/ EntryLost \/ Pass("held") \/ Pass("translating")
    BY <1>3 DEF TranslationHold, TranslationAsked, Translated, EnterFailed, EnterFinal
  <2>3. CASE Enter("final") \/ Enter("failed") \/ EntryLost BY <2>1, <2>3, EnterKeeps, LostKeeps
  <2>4. CASE Pass("held") \/ Pass("translating")
    <3>1. clerk' \in {"held", "translating"} /\ Busy' = 1 BY <2>4 DEF Pass, Busy
    <3> QED BY <2>1, <2>4, <3>1, PassKeeps
  <2> QED BY <2>2, <2>3, <2>4
<1>4. CASE ClerkDies
  <2>1. /\ clerk = "get" /\ clerk' = "died" /\ backlog # <<>> /\ backlog' = Tail(backlog)
        /\ UNCHANGED <<meeting, record, broke, cuts, files, pending, item, segments>>
    BY <1>4 DEF ClerkDies
  <2>2. ~Settled /\ ~Settled' BY <2>1 DEF WholeInv, Course, Settled
  <2>3. Tail(backlog) \in Seq(Nat) BY <2>1 DEF WholeInv, MeetTyped
  <2>4. MeetTyped' /\ ItemAnswered' /\ Placed'
    BY <2>1, <2>3 DEF WholeInv, MeetTyped, ItemAnswered, Placed
  <2>5. Course'
    <3>1. meeting \notin {"starting", "evicting", "holding", "minutes", "writing"}
      BY <2>1 DEF WholeInv, Course
    <3> QED BY <2>1, <2>2, <3>1 DEF Course
  <2>6. MeetingWhole' BY <2>1, <2>2 DEF WholeInv, MeetingWhole, Settled
  <2> QED BY <2>4, <2>5, <2>6 DEF WholeInv
<1> QED BY <1>1, <1>2, <1>3, <1>4

\* The rows of a meeting are in the order its segments were cut, each has the answer
\* to its own request, and a meeting that ended by itself has them all, for any number
\* of segments, whatever fails.
THEOREM MeetingWholeHolds == MeetingSpec => []MeetingWhole
<1> DEFINE Inv == LeaseInv /\ WholeInv
<1>1. MeetingInit => Inv BY MeetingInitLeases, WholeInit
<1>2. Inv /\ [MeetingNext]_meetingVars => Inv'
  <2> SUFFICES ASSUME Inv, [MeetingNext]_meetingVars PROVE Inv' OBVIOUS
  <2>1. LeaseInv' BY MeetingPool, MeetingCloses DEF LeaseInv
  <2>2. ASSUME UNCHANGED meetVars PROVE WholeInv'
    BY <2>2 DEF meetVars, WholeInv, MeetTyped, Placed, ItemAnswered, Course, MeetingWhole,
         Settled, Busy
  <2>3. WholeInv' BY <2>2, SocketWhole, ClerkWhole DEF MeetingNext, meetingVars
  <2> QED BY <2>1, <2>3
<1>3. Inv => MeetingWhole BY DEF WholeInv
<1> QED BY <1>1, <1>2, <1>3, PTL DEF MeetingSpec

-----------------------------------------------------------------------------
(* A sonic-live/2 socket.                                                 *)

Preparing == {"hello", "holding", "opening", "leasing", "loading"}
Serving   == {"receiving", "segment", "queueing", "minutes", "finished"} \cup Joining
Closing   == {"closing", "unloading", "returning"} \cup Final
Marked    == {"awaiting"} \cup Closing
Living    == {"get", "busy"}

\* Segments in the hands of the meeting's processor.
Held == IF scribe = "busy" THEN 1 ELSE 0

Segs   == [n : Nat, id : Nat, answer : Nat, chunks : Nat, next : Nat]
Spokes == [text : Nat, id : Nat, answer : Nat]

V2Typed ==
  /\ preset \in {"chat", "dictation", "meeting"}
  /\ proc \in [Keys -> Processes] /\ op \in Operations /\ asked \in Nat
  /\ commits \in Nat /\ unfinished \in Int /\ line \in Seq(Nat)
  /\ seg \in Segs /\ said \in Seq(Spokes) /\ transcript \in Seq(Segs)

\* Where the socket, its processor and the segment under way may be at once.
V2Course ==
  /\ v2 \in Preparing \cup Serving \cup {"marking"} \cup Marked
  /\ after \in {"receiving"} \cup Joining
  /\ scribe \in Living \cup {"off", "done", "died", "cut"}
  /\ scribe # "off" => preset = "meeting"
  /\ v2 \in Preparing =>
       /\ scribe = "off" /\ commits = 0 /\ line = <<>> /\ transcript = <<>> /\ minuted = {}
       /\ unfinished = 0
  /\ v2 \in Serving =>
       IF preset = "meeting" THEN v2 # "segment" /\ scribe \in Living \cup {"died"}
       ELSE v2 \in {"receiving", "segment"}
  /\ v2 \in Closing => scribe \notin Living
  /\ work \in {"none", "asr", "text", "voice", "done"}
  /\ work # "none" => IF preset = "meeting" THEN scribe = "busy" ELSE v2 = "segment"

\* Who has an operation under way: the start takes leases, a segment reads answers.
Reader ==
  \/ op.step = "none"
  \/ op.step # "reading" /\ v2 = "leasing"
  \/ op.step \in {"reading", "returned"} /\ work \in {"asr", "voice"}

\* Somebody may still ask a worker.
Asking == IF preset = "meeting" /\ scribe # "off" THEN scribe \in Living
          ELSE v2 \notin {"marking"} \cup Marked

Message(i, kind) == [id |-> i, kind |-> kind]
Shapes(i) == {<<>>, <<Message(i, "progress"), Message(i, "result")>>, <<Message(i, "result")>>,
              <<Message(i, "error")>>, <<Message(i, "noise"), Message(i, "result")>>}
Unread(k) == proc[k].lines # <<>> \/ proc[k].todo # <<>>

\* What a worker has printed and nobody read answers the request under way.
Wire ==
  /\ op.result = "ok" => op.step = "returned" /\ op.answer = op.id
  /\ op.step = "reading" =>
       /\ proc[op.key].lines \in Shapes(op.id)
       /\ proc[op.key].todo = <<>> \/ (proc[op.key].todo = <<op.id>> /\ proc[op.key].lines = <<>>)
  /\ Asking => \A k \in Keys : Unread(k) =>
       op.key = k /\ (op.step = "reading" \/ (op.step = "returned" /\ op.result = "error"))

\* While the processor lives, every segment is in the transcript, in its hands or
\* queued, in this order, and only the end mark comes after them.
V2Placed ==
  scribe \in Living =>
    /\ \A i \in 1..Len(line) :
         line[i] = (Len(transcript) + Held) + i \/ (line[i] = Mark /\ i = Len(line) /\ v2 \in Marked)
    /\ v2 \notin Marked =>
         commits = (Len(transcript) + Held) + Len(line) /\ unfinished = Held + Len(line)
    /\ scribe = "busy" => seg.n = Len(transcript) + 1
    /\ v2 \in {"minutes", "finished"} => line = <<>> /\ scribe = "get"

\* How much of the segment was said.
Spelt ==
  /\ work \in {"asr", "text"} => said = <<>> /\ seg.next = 1
  /\ work = "voice" => seg.next = Len(said) + 1
  /\ work \in {"text", "voice", "done"} => seg.answer = seg.id

V2Inv == V2Typed /\ V2Course /\ Reader /\ Wire /\ V2Placed /\ Spelt /\ V2Whole

-----------------------------------------------------------------------------

\* A socket that has not said hello.
LEMMA V2InitInv == V2Init => V2Inv
<1> SUFFICES ASSUME V2Init PROVE V2Inv OBVIOUS
<1>1. NoProc \in Processes BY DEF NoProc, Processes
<1>2. NoOp \in Operations BY DEF NoOp, Operations, Steps, Keys, Results
<1>3. V2Typed BY <1>1, <1>2, V2Assumption DEF V2Init, PoolInit, V2Typed, NoSeg, Segs
<1>4. V2Course /\ Reader
  BY V2Assumption
     DEF V2Init, PoolInit, V2Course, Reader, Preparing, Serving, Marked, Closing, Living, NoOp,
         Joining, Final
<1>5. Wire /\ V2Placed /\ Spelt /\ V2Whole
  BY DEF V2Init, PoolInit, Wire, Unread, NoProc, NoOp, V2Placed, Living, Spelt, V2Whole
<1> QED BY <1>3, <1>4, <1>5 DEF V2Inv

\* Where the release begins.
LEMMA ReleaseGoes ==
  ASSUME NEW status, Release(status)
  PROVE  /\ v2' = IF scribe = "off" THEN "closing" ELSE "marking"
         /\ UNCHANGED <<preset, after, here, shaken>>
  BY DEF Release

\* The steps of the start keep the course.
LEMMA StartCourse == ASSUME V2Course, Start PROVE V2Course'
<1> USE DEF V2Course, Preparing, Serving, Marked, Closing, Living, Joining, Final
<1>1. CASE V2Hello BY <1>1 DEF V2Hello, V2To, v2In, v2Line, v2Seg
<1>2. CASE TakeHold BY <1>2 DEF TakeHold, V2To, Release, v2In, v2Line, v2Seg
<1>3. CASE OpenJob BY <1>3 DEF OpenJob, V2To, Release, v2In, v2Line, v2Seg
<1>4. CASE AskLease BY <1>4 DEF AskLease, V2To, v2Sock, v2In, v2Line, v2Seg
<1>5. CASE Admission BY <1>5 DEF Admission, v2State, v2Sock, v2In, v2Line, v2Seg
<1>6. CASE LeaseTaken BY <1>6 DEF LeaseTaken, Release, v2Sock, v2In, v2Line, v2Seg
<1>7. CASE LoadWorker BY <1>7 DEF LoadWorker, V2To, Release, v2Sock, v2In, v2Seg
<1> QED BY <1>1, <1>2, <1>3, <1>4, <1>5, <1>6, <1>7 DEF Start

\* The head of the queue is the segment after those in hand, unless the release has put
\* the end mark there.
LEMMA NextInLine ==
  ASSUME V2Typed, V2Placed, scribe = "get", line # <<>>
  PROVE  /\ Len(line) \in Nat \ {0} /\ Head(line) = line[1]
         /\ IF Head(line) = Mark THEN v2 \in Marked /\ Len(line) = 1
            ELSE Head(line) = Len(transcript) + 1
<1>1. Len(line) \in Nat \ {0} /\ Head(line) = line[1] /\ 1 \in 1..Len(line) BY DEF V2Typed
<1>2. Len(transcript) \in Nat BY DEF V2Typed
<1>3. \/ line[1] = (Len(transcript) + 0) + 1
      \/ line[1] = Mark /\ 1 = Len(line) /\ v2 \in Marked
  BY <1>1 DEF V2Placed, Living, Held
<1> QED BY <1>1, <1>2, <1>3 DEF Mark

\* A segment that fails leaves the socket or ends the processor.
LEMMA SegmentCourse ==
  ASSUME V2Typed, V2Course, V2Placed, Segment \/ ScribeTakes \/ ReadLine PROVE V2Course'
<1> USE DEF V2Course, Preparing, Serving, Marked, Closing, Living, Joining, Final
<1>1. ASSUME SegFails, UNCHANGED v2In, work # "none" PROVE V2Course'
  BY <1>1 DEF SegFails, Leaves, Release, v2Sock, v2In
<1>2. ASSUME NEW w, Moves(w), w \in {"text", "voice", "done"}, work # "none",
             UNCHANGED v2In
      PROVE  V2Course'
  BY <1>2 DEF Moves, v2Sock, v2Line, v2In
<1>3. CASE Heard BY <1>1, <1>2, <1>3 DEF Heard
<1>4. CASE Answered BY <1>1, <1>2, <1>4 DEF Answered
<1>5. CASE SayChunk BY <1>5 DEF SayChunk, v2State, v2Sock, v2In, v2Line, v2Seg
<1>6. CASE Said BY <1>1, <1>2, <1>6 DEF Said
<1>7. CASE Complete
  <2>1. CASE ~here BY <1>1, <1>7, <2>1 DEF Complete
  <2>2. CASE here /\ preset = "meeting" BY <1>7, <2>2 DEF Complete, v2Sock, v2In
  <2>3. CASE here /\ preset # "meeting" BY <1>7, <2>3 DEF Complete, V2To, v2In, v2Line
  <2> QED BY <2>1, <2>2, <2>3
<1>8. CASE ScribeTakes
  <2>1. v2 \notin Preparing /\ UNCHANGED <<v2Sock, v2In>> BY <1>8 DEF ScribeTakes
  <2>2. CASE Head(line) = Mark
    <3>1. v2 \in Marked BY <1>8, <2>2, NextInLine DEF ScribeTakes
    <3> QED BY <1>8, <2>1, <2>2, <3>1 DEF ScribeTakes, v2Sock, v2In, v2Seg
  <2>3. CASE Head(line) # Mark BY <1>8, <2>1, <2>3 DEF ScribeTakes, Begin, v2Sock, v2In
  <2> QED BY <2>2, <2>3
<1>9. CASE ReadLine BY <1>9 DEF ReadLine, v2State, v2Sock, v2In, v2Line, v2Seg
<1> QED BY <1>3, <1>4, <1>5, <1>6, <1>7, <1>8, <1>9 DEF Segment

\* The receive loop, the release and what happens to them.
LEMMA ReceiveCourse == ASSUME V2Course, Receive PROVE V2Course'
<1> USE DEF V2Course, Preparing, Serving, Marked, Closing, Living, Joining, Final
<1>1. ASSUME NEW then \in {"receiving"} \cup Joining, v2 = "receiving", Commit(then),
             UNCHANGED <<v2Line, v2Seg>>,
             then # "receiving" => preset = "meeting"
      PROVE V2Course'
  BY <1>1 DEF Commit, v2Line, v2Seg
<1>2. CASE StartInput BY <1>2 DEF StartInput, v2Sock, v2Line, v2Seg
<1>3. CASE BadInput BY <1>3 DEF BadInput, Release, v2In, v2Line, v2Seg
<1>4. CASE HearFrame
  <2>1. CASE Commit("receiving") BY <1>1, <1>4, <2>1 DEF HearFrame
  <2>2. CASE UNCHANGED <<v2Sock, rec, commits>> BY <1>4, <2>2 DEF HearFrame, v2Sock, v2Line, v2Seg
  <2> QED BY <1>4, <2>1, <2>2 DEF HearFrame
<1>5. CASE StopInput BY <1>1, <1>5 DEF StopInput
<1>6. CASE OwnSegment BY <1>6 DEF OwnSegment, Begin, v2Sock, v2Line
<1>7. CASE QueuePut BY <1>7 DEF QueuePut, V2To, v2Seg
<1>8. CASE FinishMeeting BY <1>1, <1>8 DEF FinishMeeting
<1>9. CASE JoinMeeting BY <1>9 DEF JoinMeeting, v2In, v2Line, v2Seg
<1>10. CASE Minutes BY <1>10 DEF Minutes, V2To, Release, v2In, v2Line, v2Seg
<1>11. CASE MeetingFinished BY <1>11 DEF MeetingFinished, V2To, Release, v2In, v2Line
<1>12. CASE V2Leave BY <1>12 DEF V2Leave, Release, v2In, v2Line, v2Seg
<1> QED BY <1>2, <1>3, <1>4, <1>5, <1>6, <1>7, <1>8, <1>9, <1>10, <1>11, <1>12 DEF Receive

\* The release, and what may strike it.
LEMMA CleanupCourse ==
  ASSUME V2Course, Cleanup \/ ClientGone \/ V2Struck \/ BeatStops PROVE V2Course'
<1> USE DEF V2Course, Preparing, Serving, Marked, Closing, Living, Joining, Final
<1>1. ASSUME v2 \in {"marking", "awaiting"}, StopScribe PROVE V2Course'
  BY <1>1 DEF StopScribe, V2To, v2In
<1>2. CASE PutMark BY <1>2 DEF PutMark, V2To, v2In, v2Seg
<1>3. CASE ScribeOver BY <1>3 DEF ScribeOver, V2To, v2In, v2Line, v2Seg
<1>4. CASE TimedOut BY <1>1, <1>4 DEF TimedOut
<1>5. CASE CloseHold \/ CloseWorkers \/ CloseJob
  BY <1>5 DEF CloseHold, CloseWorkers, CloseJob, V2To, v2In, v2Line, v2Seg
<1>6. CASE ReturnLease BY <1>6 DEF ReturnLease, v2State, v2Sock, v2In, v2Line, v2Seg
<1>7. CASE ClientGone BY <1>7 DEF ClientGone, v2In, v2Line, v2Seg
<1>8. CASE BeatStops BY <1>8 DEF BeatStops, v2State, v2Sock, v2In, v2Line, v2Seg
<1>9. CASE V2Struck
  <2>1. CASE v2 \in Releasing /\ ~shaken
    BY <1>9, <2>1 DEF V2Struck, Releasing, v2In, v2Line, v2Seg
  <2>2. CASE v2 \in Releasing /\ shaken
    <3>1. CASE v2 \in {"marking", "awaiting"}
      BY <1>1, <1>9, <2>2, <3>1 DEF V2Struck, Releasing
    <3>2. CASE v2 \notin {"marking", "awaiting"}
      BY <1>9, <2>2, <3>2 DEF V2Struck, Releasing, V2To, v2In, v2Line, v2Seg
    <3> QED BY <3>1, <3>2
  <2>3. CASE v2 \notin Releasing
    <3>1. /\ v2' = (IF scribe = "off" THEN "closing" ELSE "marking")
          /\ UNCHANGED <<preset, after>>
          /\ UNCHANGED <<line, unfinished, scribe, transcript, minuted, commits>>
          /\ IF scribe # "busy" THEN work' = "none" ELSE work' = work
      BY <1>9, <2>3 DEF V2Struck, Releasing, Release, v2In, v2Line
    <3> QED BY <1>9, <2>3, <3>1 DEF V2Struck, Releasing
  <2> QED BY <2>1, <2>2, <2>3
<1> QED BY <1>2, <1>3, <1>4, <1>5, <1>6, <1>7, <1>8, <1>9 DEF Cleanup

\* Every step keeps the course.
LEMMA CourseKeeps == ASSUME V2Typed, V2Course, V2Placed, [V2Next]_v2Vars PROVE V2Course'
<1>1. ASSUME UNCHANGED v2State PROVE V2Course'
  BY <1>1 DEF V2Course, v2State, v2Sock, v2In, v2Line, v2Seg
<1>2. CASE UNCHANGED v2Vars BY <1>1, <1>2 DEF v2Vars
<1> QED BY <1>1, <1>2, StartCourse, SegmentCourse, ReceiveCourse, CleanupCourse DEF V2Next

-----------------------------------------------------------------------------
(* The variables keep their types.                                          *)

\* A worker and its pipes.
LEMMA ProcTyped ==
  ASSUME proc \in [Keys -> Processes], NEW k \in Keys
  PROVE  /\ proc[k] \in Processes /\ proc[k].todo \in Seq(Nat) /\ proc[k].lines \in Seq(Lines)
         /\ NoProc \in Processes
  BY DEF Processes, NoProc

\* What asking a worker does to it and to the operation.
LEMMA Asks ==
  ASSUME V2Typed, NEW k \in Keys, Ask(k)
  PROVE  /\ op = NoOp /\ op' \in Operations /\ op'.step = "reading" /\ op'.key = k
         /\ op'.id = asked + 1 /\ op'.result = "none" /\ asked' = asked + 1
         /\ proc' \in [Keys -> Processes] /\ \A j \in Keys \ {k} : proc'[j] = proc[j]
         /\ ~Unread(k) => proc'[k].lines = <<>> /\ proc'[k].todo \in {<<>>, <<asked + 1>>}
<1>1. /\ op = NoOp /\ op' = [NoOp EXCEPT !.step = "reading", !.key = k, !.id = asked + 1]
      /\ asked' = asked + 1 /\ asked + 1 \in Nat /\ NoOp \in Operations
  BY DEF Ask, V2Typed, NoOp, Operations, Steps, Results, Keys
<1>2. /\ op' \in Operations /\ op'.step = "reading" /\ op'.key = k
      /\ op'.id = asked + 1 /\ op'.result = "none"
  BY <1>1 DEF Operations, Steps, NoOp
<1>3. proc[k] \in Processes /\ proc[k].todo \in Seq(Nat) /\ proc[k].lines \in Seq(Lines)
  BY ProcTyped DEF V2Typed
<1>4. CASE proc' = [proc EXCEPT ![k].todo = Append(@, asked + 1)]
  <2>1. Append(proc[k].todo, asked + 1) \in Seq(Nat) BY <1>1, <1>3
  <2>2. [proc[k] EXCEPT !.todo = Append(proc[k].todo, asked + 1)] \in Processes
    BY <1>3, <2>1 DEF Processes
  <2>3. proc' \in [Keys -> Processes] /\ \A j \in Keys \ {k} : proc'[j] = proc[j]
    BY <1>4, <2>2 DEF V2Typed
  <2>4. proc'[k] = [proc[k] EXCEPT !.todo = Append(proc[k].todo, asked + 1)]
    BY <1>4 DEF V2Typed
  <2>5. proc'[k].lines = proc[k].lines /\ proc'[k].todo = Append(proc[k].todo, asked + 1)
    BY <1>3, <2>4 DEF Processes
  <2>6. proc[k].todo = <<>> => Append(proc[k].todo, asked + 1) = <<asked + 1>> BY <1>1
  <2> QED BY <1>1, <1>2, <2>3, <2>5, <2>6 DEF Unread
<1>5. CASE Fresh(k, <<asked + 1>>)
  <2>1. <<asked + 1>> \in Seq(Nat) /\ <<>> \in Seq(Lines) BY <1>1
  <2>2. [alive |-> TRUE, todo |-> <<asked + 1>>, lines |-> <<>>] \in Processes
    BY <2>1 DEF Processes
  <2> QED BY <1>1, <1>2, <1>5, <2>2 DEF Fresh, V2Typed
<1>6. CASE proc' = proc
  BY <1>1, <1>2, <1>3, <1>6 DEF V2Typed, Unread
<1> QED BY <1>4, <1>5, <1>6 DEF Ask

-----------------------------------------------------------------------------
(* What each kind of step does to the operation and to the workers.         *)

PoolTypes == proc \in [Keys -> Processes] /\ op \in Operations /\ asked \in Nat

WireKept == PoolTypes' /\ ((Asking' => Asking) => Wire')

\* Neither changes.
LEMMA Untouched == ASSUME V2Typed, Wire, UNCHANGED <<proc, op, asked>> PROVE WireKept
  BY DEF V2Typed, Wire, WireKept, PoolTypes, Unread

\* An operation of the start goes on.
LEMMA Admits ==
  ASSUME V2Typed, Wire, UNCHANGED <<proc, asked>>, op' \in Operations,
         op.step \notin {"reading", "returned"}, op'.step # "reading",
         op'.result \in {op.result, "rejected", "error"}
  PROVE  WireKept
<1>1. op.result # "ok" BY DEF Wire
<1>2. Asking => \A k \in Keys : ~Unread(k) BY DEF Wire
<1> QED BY <1>1, <1>2 DEF V2Typed, Wire, WireKept, PoolTypes, Unread

\* An operation is over: nobody asks any more, or nothing of it is left unread.
LEMMA Dropped ==
  ASSUME V2Typed, Wire, UNCHANGED <<proc, asked>>, op' = NoOp, op.step # "reading",
         op.step = "returned" /\ op.result = "error" => ~Asking'
  PROVE  WireKept
<1>1. NoOp \in Operations /\ NoOp.step = "none" /\ NoOp.result = "none"
  BY DEF NoOp, Operations, Steps, Results, Keys
<1>2. Asking /\ Asking' => \A k \in Keys : ~Unread(k) BY DEF Wire
<1> QED BY <1>1, <1>2 DEF V2Typed, Wire, WireKept, PoolTypes, Unread

\* An operation is cancelled.
LEMMA Canceled ==
  ASSUME V2Typed, Wire, Cancel, op.step = "returned" /\ op.result = "error" => ~Asking'
  PROVE  WireKept
<1>1. CASE op.step # "reading" BY <1>1, Dropped DEF Cancel
<1>2. CASE op.step = "reading"
  <2>1. /\ op' = NoOp /\ asked' = asked /\ proc' = [proc EXCEPT ![op.key] = NoProc]
    BY <1>2 DEF Cancel
  <2>2. NoOp \in Operations /\ NoOp.step = "none" /\ NoOp.result = "none"
    BY DEF NoOp, Operations, Steps, Results, Keys
  <2>3. NoProc \in Processes /\ NoProc.lines = <<>> /\ NoProc.todo = <<>> BY DEF NoProc, Processes
  <2>4. PoolTypes' BY <2>1, <2>2, <2>3 DEF PoolTypes, V2Typed
  <2>5. \A k \in Keys : proc'[k] = IF k = op.key THEN NoProc ELSE proc[k] BY <2>1 DEF V2Typed
  <2>6. Asking => \A k \in Keys : Unread(k) => k = op.key BY <1>2 DEF Wire
  <2>7. Asking => \A k \in Keys : ~Unread(k)' BY <2>3, <2>5, <2>6 DEF Unread
  <2> QED BY <2>1, <2>2, <2>4, <2>7 DEF Wire, WireKept
<1> QED BY <1>1, <1>2

\* A worker is asked by somebody who still asks.
LEMMA Asked ==
  ASSUME V2Typed, Wire, NEW k \in Keys, Ask(k), Asking PROVE WireKept
<1>1. /\ op = NoOp /\ op' \in Operations /\ op'.step = "reading" /\ op'.key = k
      /\ op'.id = asked + 1 /\ op'.result = "none" /\ asked' = asked + 1
      /\ proc' \in [Keys -> Processes] /\ \A j \in Keys \ {k} : proc'[j] = proc[j]
      /\ ~Unread(k) => proc'[k].lines = <<>> /\ proc'[k].todo \in {<<>>, <<asked + 1>>}
  BY Asks
<1>2. \A j \in Keys : ~Unread(j) BY <1>1 DEF Wire, NoOp
<1>3. PoolTypes' BY <1>1 DEF PoolTypes, V2Typed
<1>4. proc'[k].lines = <<>> /\ proc'[k].todo \in {<<>>, <<op'.id>>} BY <1>1, <1>2
<1>5. \A j \in Keys : Unread(j)' => j = k BY <1>1, <1>2 DEF Unread
<1>6. <<>> \in Shapes(op'.id) BY DEF Shapes
<1> QED BY <1>1, <1>3, <1>4, <1>5, <1>6 DEF Wire, WireKept

\* A worker is started.
LEMMA Started ==
  ASSUME V2Typed, Wire, NEW k \in Keys, Fresh(k, <<>>), UNCHANGED <<op, asked>>, op.step # "reading"
  PROVE  WireKept
<1>1. [alive |-> TRUE, todo |-> <<>>, lines |-> <<>>] \in Processes BY DEF Processes
<1>2. proc' \in [Keys -> Processes] /\ \A j \in Keys \ {k} : proc'[j] = proc[j]
  BY <1>1 DEF Fresh, V2Typed
<1>3. proc'[k].todo = <<>> /\ proc'[k].lines = <<>> BY DEF Fresh, V2Typed
<1>4. \A j \in Keys : Unread(j)' => Unread(j) BY <1>2, <1>3 DEF Unread
<1> QED BY <1>2, <1>4 DEF Wire, WireKept, PoolTypes, V2Typed

\* All workers are stopped.
LEMMA Stopped ==
  ASSUME V2Typed, Wire, proc' = [k \in Keys |-> NoProc], UNCHANGED <<op, asked>>
  PROVE  WireKept
<1>1. NoProc \in Processes /\ NoProc.lines = <<>> /\ NoProc.todo = <<>> BY DEF NoProc, Processes
<1>2. proc' \in [Keys -> Processes] BY <1>1
<1>3. \A j \in Keys : proc'[j].lines = <<>> /\ proc'[j].todo = <<>> BY <1>1
<1>4. op.key \in Keys BY DEF V2Typed, Operations
<1>5. <<>> \in Shapes(op.id) BY DEF Shapes
<1> QED BY <1>2, <1>3, <1>4, <1>5 DEF Wire, WireKept, PoolTypes, V2Typed, Unread

\* What is left of an answer after its first line.
LEMMA ShapeRead ==
  ASSUME NEW i \in Nat, NEW ls \in Shapes(i), ls # <<>>
  PROVE  /\ Head(ls).id = i /\ Head(ls).kind \in Kinds
         /\ Tail(ls) \in Shapes(i)
         /\ Head(ls).kind = "result" => Tail(ls) = <<>>
<1> DEFINE P == Message(i, "progress")
           R == Message(i, "result")
           E == Message(i, "error")
           N == Message(i, "noise")
<1>1. /\ P.id = i /\ R.id = i /\ E.id = i /\ N.id = i
      /\ P.kind = "progress" /\ R.kind = "result" /\ E.kind = "error" /\ N.kind = "noise"
  BY DEF Message
<1>2. ls \in {<<P, R>>, <<R>>, <<E>>, <<N, R>>} BY DEF Shapes
<1>3. {<<>>, <<R>>} \subseteq Shapes(i) BY DEF Shapes
<1> HIDE DEF P, R, E, N
<1>4. CASE ls = <<P, R>> BY <1>1, <1>3, <1>4 DEF Kinds
<1>5. CASE ls = <<R>> BY <1>1, <1>3, <1>5 DEF Kinds
<1>6. CASE ls = <<E>> BY <1>1, <1>3, <1>6 DEF Kinds
<1>7. CASE ls = <<N, R>> BY <1>1, <1>3, <1>7 DEF Kinds
<1> QED BY <1>2, <1>4, <1>5, <1>6, <1>7

\* A line is read, or the end of the output.
LEMMA Reads == ASSUME V2Typed, Wire, ReadLine PROVE WireKept
<1>1. op.step = "reading" /\ op \in Operations /\ op.key \in Keys /\ op.id \in Nat
  BY DEF ReadLine, V2Typed, Operations
<1>2. proc[op.key] \in Processes /\ proc[op.key].lines \in Seq(Lines)
  BY <1>1, ProcTyped DEF V2Typed
<1>3. asked' = asked BY DEF ReadLine
<1>4. op.result # "ok" BY <1>1 DEF Wire
<1>5. CASE proc[op.key].lines = <<>>
  <2>1. op' = [op EXCEPT !.step = "returned", !.result = "error"] /\ proc' = proc
    BY <1>5 DEF ReadLine, Return
  <2>2. op' \in Operations /\ op'.step = "returned" /\ op'.result = "error" /\ op'.key = op.key
    BY <1>1, <2>1 DEF Operations, Steps, Results
  <2> QED BY <1>1, <1>3, <2>1, <2>2 DEF Wire, WireKept, PoolTypes, V2Typed, Unread
<1>6. CASE proc[op.key].lines # <<>>
  <2> DEFINE ls   == proc[op.key].lines
             kind == Head(ls).kind
  <2>1. /\ proc' = [proc EXCEPT ![op.key].lines = Tail(@)]
        /\ op' = CASE kind = "progress" -> op
                    [] kind = "result" ->
                         [op EXCEPT !.step = "returned", !.result = "ok", !.answer = Head(ls).id]
                    [] OTHER -> [op EXCEPT !.step = "returned", !.result = "error"]
    BY <1>6 DEF ReadLine
  <2>2. /\ Head(ls).id = op.id /\ Tail(ls) \in Shapes(op.id)
        /\ kind = "result" => Tail(ls) = <<>>
        /\ proc[op.key].todo = <<>>
    BY <1>1, <1>6, ShapeRead DEF Wire
  <2>3. Tail(ls) \in Seq(Lines) BY <1>2, <1>6
  <2>4. proc' \in [Keys -> Processes]
    BY <1>2, <2>1, <2>3 DEF V2Typed, Processes
  <2>5. proc'[op.key].lines = Tail(ls) /\ proc'[op.key].todo = <<>>
    BY <1>1, <1>2, <2>1, <2>2 DEF V2Typed, Processes
  <2>6. \A j \in Keys \ {op.key} : proc'[j] = proc[j] BY <2>1 DEF V2Typed
  <2>7. Asking => \A j \in Keys : Unread(j)' => j = op.key
    BY <1>1, <2>6 DEF Wire, Unread
  <2> HIDE DEF ls, kind
  <2>8. CASE kind = "progress"
    BY <1>1, <1>3, <1>4, <2>1, <2>2, <2>4, <2>5, <2>7, <2>8 DEF Wire, WireKept, PoolTypes, V2Typed
  <2>9. CASE kind = "result"
    <3>1. op' = [op EXCEPT !.step = "returned", !.result = "ok", !.answer = op.id]
      BY <2>1, <2>2, <2>9
    <3>2. /\ op' \in Operations /\ op'.step = "returned" /\ op'.result = "ok" /\ op'.key = op.key
          /\ op'.answer = op'.id
      BY <1>1, <3>1 DEF Operations, Steps, Results
    <3>3. proc'[op.key].lines = <<>> /\ proc'[op.key].todo = <<>> BY <2>2, <2>5, <2>9
    <3>4. Asking => \A j \in Keys : ~Unread(j)' BY <2>7, <3>3 DEF Unread
    <3> QED BY <1>3, <2>4, <3>2, <3>4 DEF Wire, WireKept, PoolTypes, V2Typed
  <2>10. CASE kind \notin {"progress", "result"}
    <3>1. op' = [op EXCEPT !.step = "returned", !.result = "error"] BY <2>1, <2>10
    <3>2. op' \in Operations /\ op'.step = "returned" /\ op'.result = "error" /\ op'.key = op.key
      BY <1>1, <3>1 DEF Operations, Steps, Results
    <3> QED BY <1>3, <2>4, <2>7, <3>2 DEF Wire, WireKept, PoolTypes, V2Typed
  <2> QED BY <2>8, <2>9, <2>10
<1> QED BY <1>5, <1>6

\* A worker answers the only request it has, or dies.
LEMMA Printed ==
  ASSUME V2Typed, Wire, NEW k \in Keys, NEW ls \in Seq(Lines), Emit(k, ls),
         ls \in Shapes(Head(proc[k].todo)), op.step = "reading" => Asking
  PROVE  WireKept
<1>1. proc[k] \in Processes /\ proc[k].todo \in Seq(Nat) /\ proc[k].lines \in Seq(Lines)
  BY ProcTyped DEF V2Typed
<1>2. /\ proc[k].todo # <<>> /\ UNCHANGED <<op, asked>>
      /\ proc' = [proc EXCEPT ![k].lines = @ \o ls, ![k].todo = Tail(@)]
  BY DEF Emit
<1> DEFINE all  == proc[k].lines \o ls
           rest == Tail(proc[k].todo)
<1>3. all \in Seq(Lines) /\ rest \in Seq(Nat) BY <1>1, <1>2
<1>4. [proc[k] EXCEPT !.lines = all, !.todo = rest] \in Processes
      /\ [proc[k] EXCEPT !.lines = all, !.todo = rest].lines = all
      /\ [proc[k] EXCEPT !.lines = all, !.todo = rest].todo = rest
  BY <1>1, <1>3 DEF Processes
<1>5. proc' = [proc EXCEPT ![k] = [proc[k] EXCEPT !.lines = all, !.todo = rest]] BY <1>2
<1> HIDE DEF all, rest
<1>6. /\ proc' \in [Keys -> Processes] /\ proc'[k].lines = all /\ proc'[k].todo = rest
      /\ \A j \in Keys \ {k} : proc'[j] = proc[j]
  BY <1>4, <1>5 DEF V2Typed
<1>7. Unread(k) BY <1>2 DEF Unread
<1>8. \A j \in Keys : Unread(j)' => j = k \/ Unread(j) BY <1>6 DEF Unread
<1>9. CASE op.step = "reading"
  <2>1. op.key = k BY <1>7, <1>9 DEF Wire
  <2>2. proc[k].todo = <<op.id>> /\ proc[k].lines = <<>> BY <1>2, <1>9, <2>1 DEF Wire
  <2>3. op.id \in Nat BY DEF V2Typed, Operations
  <2>4. all = ls /\ rest = <<>> /\ Head(proc[k].todo) = op.id BY <2>2, <2>3 DEF all, rest
  <2>5. proc'[op.key].lines \in Shapes(op.id) /\ proc'[op.key].todo = <<>> BY <1>6, <2>1, <2>4
  <2>6. \A j \in Keys : Unread(j)' => j = op.key BY <1>8, <1>9, <2>1 DEF Wire
  <2>7. PoolTypes' BY <1>2, <1>6 DEF PoolTypes, V2Typed
  <2>8. Wire' BY <1>2, <1>9, <2>5, <2>6 DEF Wire
  <2> QED BY <2>7, <2>8 DEF WireKept
<1>10. CASE op.step # "reading"
  BY <1>2, <1>6, <1>7, <1>8, <1>10 DEF Wire, WireKept, PoolTypes, V2Typed
<1> QED BY <1>9, <1>10

\* A worker dies; what it printed stays to be read.
LEMMA Died ==
  ASSUME V2Typed, Wire, NEW k \in Keys, Dies(k) PROVE WireKept
<1>1. proc[k] \in Processes /\ <<>> \in Seq(Nat) BY ProcTyped DEF V2Typed
<1>2. UNCHANGED <<op, asked>> /\ proc' = [proc EXCEPT ![k].alive = FALSE, ![k].todo = <<>>]
  BY DEF Dies
<1>3. /\ [proc[k] EXCEPT !.alive = FALSE, !.todo = <<>>] \in Processes
      /\ [proc[k] EXCEPT !.alive = FALSE, !.todo = <<>>].todo = <<>>
      /\ [proc[k] EXCEPT !.alive = FALSE, !.todo = <<>>].lines = proc[k].lines
  BY <1>1 DEF Processes
<1>4. proc' = [proc EXCEPT ![k] = [proc[k] EXCEPT !.alive = FALSE, !.todo = <<>>]] BY <1>2
<1>5. /\ proc' \in [Keys -> Processes] /\ proc'[k].todo = <<>> /\ proc'[k].lines = proc[k].lines
      /\ \A j \in Keys \ {k} : proc'[j] = proc[j]
  BY <1>3, <1>4 DEF V2Typed
<1>6. \A j \in Keys : Unread(j)' => Unread(j) BY <1>5 DEF Unread
<1>7. op.key \in Keys BY DEF V2Typed, Operations
<1> QED BY <1>2, <1>5, <1>6, <1>7 DEF Wire, WireKept, PoolTypes, V2Typed

\* What happens in the workers and at the Broker, whoever reads.
LEMMA BackgroundWire ==
  ASSUME V2Typed, Wire, V2Background, op.step = "reading" => Asking PROVE WireKept
<1>1. ASSUME NEW k \in Keys, Answers(k) \/ Refuses(k) \/ Babbles(k) PROVE WireKept
  <2>1. proc[k].todo \in Seq(Nat) /\ proc[k].todo # <<>>
    BY <1>1, ProcTyped DEF V2Typed, Answers, Refuses, Babbles, Emit
  <2>2. Head(proc[k].todo) \in Nat BY <2>1
  <2> DEFINE i == Head(proc[k].todo)
  <2>3. /\ Line(k, "progress") = Message(i, "progress")
        /\ Line(k, "result") = Message(i, "result")
        /\ Line(k, "error") = Message(i, "error") /\ Line(k, "noise") = Message(i, "noise")
    BY DEF Line, Message
  <2>4. {Message(i, "progress"), Message(i, "result"), Message(i, "error"), Message(i, "noise")}
          \subseteq Lines
    BY <2>2 DEF Message, Lines, Kinds
  <2> HIDE DEF i
  <2>5. PICK ls : /\ Emit(k, ls)
                  /\ ls \in {<<Line(k, "progress"), Line(k, "result")>>, <<Line(k, "error")>>,
                             <<Line(k, "noise"), Line(k, "result")>>}
    BY <1>1 DEF Answers, Refuses, Babbles
  <2>6. ls \in Seq(Lines)
    <3> DEFINE P == Message(i, "progress")
               R == Message(i, "result")
               E == Message(i, "error")
               N == Message(i, "noise")
    <3>1. ls \in {<<P, R>>, <<E>>, <<N, R>>} /\ {P, R, E, N} \subseteq Lines BY <2>3, <2>4, <2>5
    <3> HIDE DEF P, R, E, N
    <3>2. <<P, R>> \in Seq(Lines) BY <3>1
    <3>3. <<E>> \in Seq(Lines) BY <3>1
    <3>4. <<N, R>> \in Seq(Lines) BY <3>1
    <3> QED BY <3>1, <3>2, <3>3, <3>4
  <2>7. ls \in Shapes(i) BY <2>3, <2>5 DEF Shapes
  <2> QED BY <2>5, <2>6, <2>7, Printed DEF i
<1>2. ASSUME NEW k \in Keys, Lapses(k) PROVE WireKept
  BY <1>2, Untouched DEF Lapses, workVars
<1> QED BY <1>1, <1>2, Died DEF V2Background

-----------------------------------------------------------------------------

\* Who stopped asking does not begin again: a processor that is over stays over, and a
\* release goes on.
EndsStay ==
  /\ preset' = preset
  /\ scribe \notin Living => scribe' = scribe \/ v2 \in Preparing
  /\ scribe = "off" /\ v2 \in {"marking"} \cup Marked => v2' \in {"marking"} \cup Marked

\* No step makes one ask again that had stopped.
LEMMA EndsStayEnds == ASSUME V2Course, [V2Next]_v2Vars PROVE EndsStay
<1> USE DEF EndsStay, V2Course, Preparing, Serving, Marked, Closing, Living, Joining, Final
<1>1. ASSUME UNCHANGED v2State PROVE EndsStay
  BY <1>1 DEF v2State, v2Sock, v2Line
<1>2. ASSUME NEW status, Release(status), scribe' = scribe PROVE EndsStay BY <1>2 DEF Release
<1>3. ASSUME UNCHANGED <<preset, scribe>>, v2 \notin {"marking"} \cup Marked \/ v2' \in Closing
      PROVE  EndsStay
  BY <1>3
<1>4. ASSUME work # "none", preset' = preset, preset = "meeting" \/ scribe' = scribe PROVE EndsStay
  BY <1>4
<1>5. CASE Start
  <2>1. CASE V2Hello BY <1>3, <2>1 DEF V2Hello, V2To, v2Line
  <2>2. CASE TakeHold BY <1>2, <1>3, <2>2 DEF TakeHold, V2To, v2Line
  <2>3. CASE OpenJob BY <1>2, <1>3, <2>3 DEF OpenJob, V2To, v2Line
  <2>4. CASE AskLease BY <1>3, <2>4 DEF AskLease, V2To, v2Sock, v2Line
  <2>5. CASE Admission BY <1>1, <2>5 DEF Admission
  <2>6. CASE LeaseTaken BY <1>2, <1>3, <2>6 DEF LeaseTaken, v2Sock, v2Line
  <2>7. CASE LoadWorker BY <2>7 DEF LoadWorker, V2To, Release, v2Sock
  <2> QED BY <1>5, <2>1, <2>2, <2>3, <2>4, <2>5, <2>6, <2>7 DEF Start
<1>6. CASE Segment \/ ReadLine
  <2>1. SegFails => preset' = preset /\ (preset = "meeting" \/ scribe' = scribe)
    BY DEF SegFails, Leaves, Release, v2Sock
  <2>2. CASE Heard BY <1>4, <2>1, <2>2 DEF Heard, Moves, v2Sock, v2Line
  <2>3. CASE Answered BY <1>4, <2>1, <2>3 DEF Answered, Moves, v2Sock, v2Line
  <2>4. CASE SayChunk \/ ReadLine BY <1>1, <2>4 DEF SayChunk, ReadLine
  <2>5. CASE Said BY <1>4, <2>1, <2>5 DEF Said, Moves, v2Sock, v2Line
  <2>6. CASE Complete BY <1>4, <2>1, <2>6 DEF Complete, V2To, v2Sock, v2Line
  <2> QED BY <1>6, <2>2, <2>3, <2>4, <2>5, <2>6 DEF Segment
<1>7. CASE ScribeTakes BY <1>7 DEF ScribeTakes, v2Sock
<1>8. CASE Receive
  <2>1. CASE StartInput BY <1>3, <2>1 DEF StartInput, v2Sock, v2Line
  <2>2. CASE BadInput \/ V2Leave BY <1>2, <2>2 DEF BadInput, V2Leave, v2Line
  <2>3. CASE HearFrame \/ StopInput \/ FinishMeeting
    BY <1>3, <2>3 DEF HearFrame, StopInput, FinishMeeting, Commit, v2Sock, v2Line
  <2>4. CASE OwnSegment BY <1>3, <2>4 DEF OwnSegment, v2Sock, v2Line
  <2>5. CASE QueuePut BY <1>3, <2>5 DEF QueuePut, V2To
  <2>6. CASE JoinMeeting BY <1>3, <2>6 DEF JoinMeeting, v2Line
  <2>7. CASE Minutes BY <1>2, <1>3, <2>7 DEF Minutes, V2To, v2Line
  <2>8. CASE MeetingFinished BY <1>2, <1>3, <2>8 DEF MeetingFinished, V2To, v2Line
  <2> QED BY <1>8, <2>1, <2>2, <2>3, <2>4, <2>5, <2>6, <2>7, <2>8 DEF Receive
<1>9. ASSUME v2 \in {"marking", "awaiting"}, StopScribe PROVE EndsStay
  BY <1>9 DEF StopScribe, V2To
<1>10. CASE Cleanup \/ ClientGone \/ BeatStops
  <2>1. CASE PutMark BY <2>1 DEF PutMark, V2To
  <2>2. CASE ScribeOver BY <1>3, <2>2 DEF ScribeOver, V2To, v2Line
  <2>3. CASE TimedOut BY <1>9, <2>3 DEF TimedOut
  <2>4. CASE CloseHold \/ CloseWorkers \/ CloseJob
    BY <1>3, <2>4 DEF CloseHold, CloseWorkers, CloseJob, V2To, v2Line
  <2>5. CASE ReturnLease \/ BeatStops BY <1>1, <2>5 DEF ReturnLease, BeatStops
  <2>6. CASE ClientGone BY <2>6 DEF ClientGone, v2Line
  <2> QED BY <1>10, <2>1, <2>2, <2>3, <2>4, <2>5, <2>6 DEF Cleanup
<1>11. CASE V2Struck
  <2>1. CASE v2 \in Releasing /\ ~shaken BY <1>11, <2>1 DEF V2Struck, v2Line
  <2>2. CASE v2 \in {"marking", "awaiting"} /\ shaken
    BY <1>9, <1>11, <2>2 DEF V2Struck, Releasing
  <2>3. CASE v2 \in {"closing", "unloading", "returning"} /\ shaken
    BY <1>3, <1>11, <2>3 DEF V2Struck, Releasing, V2To, v2Line
  <2>4. CASE v2 \notin Releasing
    <3>1. Release(verdict) /\ scribe' = scribe BY <1>11, <2>4 DEF V2Struck, Releasing, v2Line
    <3> QED BY <1>2, <3>1
  <2> QED BY <2>1, <2>2, <2>3, <2>4 DEF Releasing
<1>12. CASE UNCHANGED v2Vars BY <1>1, <1>12 DEF v2Vars
<1> QED BY <1>1, <1>5, <1>6, <1>7, <1>8, <1>10, <1>11, <1>12 DEF V2Next

\* If somebody asks after a step, somebody asked before it.
LEMMA AskingEnds ==
  ASSUME V2Typed, V2Course, V2Placed, [V2Next]_v2Vars PROVE Asking' => Asking
<1>1. V2Course' /\ EndsStay BY CourseKeeps, EndsStayEnds
<1> QED BY <1>1 DEF EndsStay, Asking, V2Course, Preparing, Marked, Closing, Living, Final

-----------------------------------------------------------------------------
(* Every step is one of these kinds.                                        *)

\* Whoever reads an answer still asks.
LEMMA ReaderAsks == ASSUME V2Course, Reader, op.step = "reading" PROVE Asking
  BY DEF V2Course, Reader, Asking, Preparing, Serving, Marked, Closing, Living, Joining, Final

\* The Host's answers to the start.
LEMMA AdmissionMoves ==
  ASSUME V2Typed, Wire, Admission PROVE WireKept /\ UNCHANGED v2State
<1>1. op \in Operations /\ UNCHANGED v2State BY DEF V2Typed, Admission
<1>2. /\ op.step \in {"asking", "polling", "activating"} /\ UNCHANGED <<proc, asked>>
      /\ \/ \E s \in {"activating", "spawning", "room"} : op' = [op EXCEPT !.step = s]
         \/ \E r \in {"rejected", "error"} : op' = [op EXCEPT !.step = "returned", !.result = r]
  BY DEF Admission, Granted, Rejected, AdmissionLost, Activated, Return, workVars
<1>3. /\ op' \in Operations /\ op'.step # "reading"
      /\ op'.result \in {op.result, "rejected", "error"}
  BY <1>1, <1>2 DEF Operations, Steps, Results
<1> QED BY <1>1, <1>2, <1>3, Admits

\* The steps of the start.
LEMMA StartWire ==
  ASSUME V2Typed, V2Course, Reader, Wire, Start, Asking' => Asking PROVE WireKept
<1>1. CASE V2Hello BY <1>1, Untouched DEF V2Hello, poolVars, workVars
<1>2. CASE TakeHold BY <1>2, Untouched DEF TakeHold, workVars
<1>3. CASE OpenJob BY <1>3, Untouched DEF OpenJob, workVars
<1>4. CASE AskLease
  <2>1. CASE op' = op BY <1>4, <2>1, Untouched DEF AskLease, workVars
  <2>2. CASE op' # op
    <3>1. /\ op = NoOp /\ First(Unleased) \in Keys /\ UNCHANGED <<proc, asked>>
          /\ Acquire([NoOp EXCEPT !.key = First(Unleased), !.fast = TRUE])
      BY <1>4, <2>2 DEF AskLease, First, Keys, workVars
    <3>2. [NoOp EXCEPT !.key = First(Unleased), !.fast = TRUE] \in Operations
          /\ [NoOp EXCEPT !.key = First(Unleased), !.fast = TRUE].result = "none"
      BY <3>1 DEF NoOp, Operations, Steps, Results, Keys
    <3>3. op' \in Operations /\ op'.step \in {"spawning", "asking"} /\ op'.result = "none"
      BY <3>1, <3>2 DEF Acquire, Operations, Steps
    <3> QED BY <3>1, <3>3, Admits DEF NoOp
  <2> QED BY <2>1, <2>2
<1>5. CASE Admission BY <1>5, AdmissionMoves
<1>6. CASE LeaseTaken
  <2>1. op' = NoOp /\ UNCHANGED <<proc, asked>> /\ op.step \in {"spawning", "returned"} /\ v2 = "leasing"
        /\ (op.step = "returned" => v2' = IF scribe = "off" THEN "closing" ELSE "marking")
        /\ scribe' = scribe /\ scribe = "off"
    BY <1>6 DEF LeaseTaken, Release, workVars, v2Line, V2Course, Preparing
  <2>2. op.step = "returned" => ~Asking' BY <2>1 DEF Asking, Marked, Closing
  <2> QED BY <2>1, <2>2, Dropped
<1>7. CASE LoadWorker
  <2>1. CASE UNCHANGED workVars BY <1>7, <2>1, Untouched DEF LoadWorker, workVars
  <2>2. CASE ~UNCHANGED workVars
    <3>1. CASE UNCHANGED <<pooled, proc, asked>> BY <1>7, <3>1, Untouched DEF LoadWorker
    <3>2. CASE Fresh(First(Unloaded), <<>>) /\ asked' = asked
      <4>1. op' = op /\ v2 = "loading" BY <1>7 DEF LoadWorker
      <4>2. First(Unloaded) \in Keys BY DEF First, Keys
      <4>3. op.step # "reading" BY <4>1 DEF Reader, V2Course, Preparing
      <4> QED BY <3>2, <4>1, <4>2, <4>3, Started
    <3> QED BY <1>7, <2>2, <3>1, <3>2 DEF LoadWorker
  <2> QED BY <2>1, <2>2
<1> QED BY <1>1, <1>2, <1>3, <1>4, <1>5, <1>6, <1>7 DEF Start

\* The steps of a segment.
LEMMA SegmentWire ==
  ASSUME V2Typed, V2Course, Reader, Wire, Segment \/ ScribeTakes \/ ReadLine, Asking' => Asking
  PROVE  WireKept
<1>1. SegFails => ~Asking' \/ work = "none"
  BY DEF SegFails, Leaves, Release, v2Sock, Asking, V2Course, Marked, Closing, Living,
         Preparing, Serving, Joining, Final
<1>2. ASSUME Heard \/ Said PROVE WireKept
  <2>1. op' = NoOp /\ UNCHANGED <<proc, asked>> /\ op.step = "returned" /\ work # "none"
        /\ (op.result = "error" => SegFails)
    BY <1>2 DEF Heard, Said, workVars
  <2> QED BY <1>1, <2>1, Dropped
<1>3. CASE Answered BY <1>3, Untouched DEF Answered, workVars
<1>4. CASE SayChunk
  <2>1. "tts" \in Keys /\ Ask("tts") /\ work = "voice" BY <1>4 DEF SayChunk, Keys
  <2>2. Asking
    BY <2>1 DEF V2Course, Asking, Preparing, Serving, Marked, Closing, Living, Joining, Final
  <2> QED BY <2>1, <2>2, Asked
<1>5. CASE Complete BY <1>5, Untouched DEF Complete, poolVars, workVars
<1>6. CASE ScribeTakes
  <2>1. CASE UNCHANGED poolVars BY <2>1, Untouched DEF poolVars, workVars
  <2>2. CASE ~UNCHANGED poolVars
    <3>1. "asr" \in Keys /\ Ask("asr") /\ scribe = "get" BY <1>6, <2>2 DEF ScribeTakes, Begin,
    Keys
    <3>2. Asking BY <3>1 DEF V2Course, Asking, Living
    <3> QED BY <3>1, <3>2, Asked
  <2> QED BY <2>1, <2>2
<1> QED BY <1>2, <1>3, <1>4, <1>5, <1>6, Reads DEF Segment

\* The steps of the receive loop.
LEMMA ReceiveWire ==
  ASSUME V2Typed, V2Course, Wire, Receive, Asking' => Asking PROVE WireKept
<1>1. CASE OwnSegment
  <2>1. "asr" \in Keys /\ Ask("asr") /\ v2 = "segment" BY <1>1 DEF OwnSegment, Begin, Keys
  <2>2. Asking
    BY <2>1 DEF V2Course, Asking, Preparing, Serving, Marked, Closing, Living, Joining, Final
  <2> QED BY <2>1, <2>2, Asked
<1>2. CASE BadInput \/ Minutes BY <1>2, Untouched DEF BadInput, Minutes, workVars
<1>3. ASSUME UNCHANGED poolVars PROVE WireKept BY <1>3, Untouched DEF poolVars, workVars
<1>4. StartInput \/ HearFrame \/ StopInput \/ QueuePut \/ FinishMeeting \/ JoinMeeting
      \/ MeetingFinished \/ V2Leave => UNCHANGED poolVars
  BY DEF StartInput, HearFrame, StopInput, QueuePut, FinishMeeting, JoinMeeting, MeetingFinished,
         V2Leave
<1> QED BY <1>1, <1>2, <1>3, <1>4 DEF Receive

\* The processor is stopped in whatever it does.
LEMMA StopScribeWire ==
  ASSUME V2Typed, V2Course, Wire, StopScribe PROVE WireKept
<1>1. CASE scribe = "busy"
  <2>1. Cancel /\ scribe' = "cut" /\ preset' = preset /\ preset = "meeting"
    BY <1>1 DEF StopScribe, V2To, V2Course
  <2>2. ~Asking' BY <2>1 DEF Asking, Living
  <2> QED BY <2>1, <2>2, Canceled
<1>2. CASE scribe # "busy" BY <1>2, Untouched DEF StopScribe, workVars
<1> QED BY <1>1, <1>2

\* The steps of the release.
LEMMA CleanupWire ==
  ASSUME V2Typed, V2Course, Reader, Wire, Cleanup \/ ClientGone \/ V2Struck \/ BeatStops,
         Asking' => Asking
  PROVE  WireKept
<1>1. CASE PutMark \/ ScribeOver BY <1>1, Untouched DEF PutMark, ScribeOver, poolVars, workVars
<1>2. CASE TimedOut BY <1>2, StopScribeWire DEF TimedOut
<1>3. CASE CloseHold
  <2>1. op' = NoOp /\ UNCHANGED <<proc, asked>> /\ op.step # "reading" /\ v2 = "closing"
    BY <1>3 DEF CloseHold, workVars
  <2>2. ~Asking BY <2>1 DEF Asking, V2Course, Marked, Closing
  <2> QED BY <2>1, <2>2, Dropped
<1>4. CASE CloseWorkers BY <1>4, Stopped DEF CloseWorkers
<1>5. CASE ReturnLease \/ CloseJob \/ ClientGone \/ BeatStops
  BY <1>5, Untouched DEF ReturnLease, CloseJob, ClientGone, BeatStops, workVars
<1>6. CASE V2Struck
  <2>1. CASE UNCHANGED <<hostVars, holdVars, workVars, op>> BY <2>1, Untouched DEF workVars
  <2>2. CASE StopScribe BY <2>2, StopScribeWire
  <2>3. CASE v2 \notin Releasing /\ scribe # "busy"
    <3>1. Cancel /\ Release(verdict) /\ scribe' = scribe
      BY <1>6, <2>3 DEF V2Struck, Releasing, Final, v2Line
    <3>2. op.step = "returned" => ~Asking'
      BY <2>3, <3>1
         DEF Reader, Release, Asking, V2Course, Preparing, Serving, Marked, Closing, Living,
                  Joining, Final
    <3> QED BY <3>1, <3>2, Canceled
  <2> QED BY <1>6, <2>1, <2>2, <2>3 DEF V2Struck, Releasing
<1> QED BY <1>1, <1>2, <1>3, <1>4, <1>5, <1>6 DEF Cleanup

\* Whatever happens, what is unread answers the request under way.
LEMMA WireKeeps ==
  ASSUME V2Typed, V2Course, V2Placed, Reader, Wire, [V2Next]_v2Vars
  PROVE  PoolTypes' /\ Wire'
<1>1. Asking' => Asking BY AskingEnds
<1>2. ASSUME UNCHANGED v2Vars PROVE WireKept BY <1>2, Untouched DEF v2Vars, poolVars, workVars
<1>3. ASSUME V2Background PROVE WireKept BY <1>3, BackgroundWire, ReaderAsks
<1>4. WireKept
  BY <1>1, <1>2, <1>3, StartWire, SegmentWire, ReceiveWire, CleanupWire DEF V2Next
<1> QED BY <1>1, <1>4 DEF WireKept

\* An operation is the start's or a segment's.
LEMMA ReaderKeeps == ASSUME V2Typed, V2Course, Reader, [V2Next]_v2Vars PROVE Reader'
<1>1. ASSUME op' = NoOp PROVE Reader' BY <1>1 DEF Reader, NoOp
<1>2. ASSUME UNCHANGED <<op, work>>, v2 # "leasing" PROVE Reader' BY <1>2 DEF Reader
<1>3. ASSUME UNCHANGED <<op, v2, work>> PROVE Reader' BY <1>3 DEF Reader
<1>4. ASSUME NEW k \in Keys, Ask(k), work' \in {"asr", "voice"} PROVE Reader'
  BY <1>4, Asks DEF Reader
<1>5. op \in Operations BY DEF V2Typed
<1>6. CASE Start
  <2>1. CASE V2Hello \/ TakeHold \/ OpenJob \/ LoadWorker
    BY <1>2, <2>1 DEF V2Hello, TakeHold, OpenJob, LoadWorker, poolVars, v2Seg
  <2>2. CASE AskLease
    <3>1. CASE op' = op
      <4>1. op = NoOp BY <2>2 DEF AskLease
      <4> QED BY <1>1, <3>1, <4>1
    <3>2. CASE op' # op
      <4>1. v2' = "leasing" BY <2>2, <3>2 DEF AskLease, v2Sock
      <4>2. Acquire([NoOp EXCEPT !.key = First(Unleased), !.fast = TRUE])
        BY <2>2, <3>2 DEF AskLease
      <4>3. op'.step \in {"spawning", "asking"} BY <4>2 DEF Acquire, NoOp
      <4> QED BY <4>1, <4>3 DEF Reader
    <3> QED BY <3>1, <3>2
  <2>3. CASE Admission
    <3>1. UNCHANGED <<v2, work>> /\ op.step \in {"asking", "polling", "activating"}
          /\ op'.step \in {"activating", "spawning", "room", "returned"}
      BY <1>5, <2>3
         DEF Admission, Granted, Rejected, AdmissionLost, Activated, Return, v2State, v2Sock,
           v2Seg, Operations
    <3> QED BY <3>1 DEF Reader
  <2>4. CASE LeaseTaken BY <1>1, <2>4 DEF LeaseTaken
  <2> QED BY <1>6, <2>1, <2>2, <2>3, <2>4 DEF Start
<1>7. CASE ReadLine
  <2>1. op.step = "reading" /\ UNCHANGED <<v2, work>> /\ op'.step \in {"reading", "returned"}
    BY <1>5, <1>7 DEF ReadLine, Return, v2State, v2Sock, v2Seg, Operations
  <2> QED BY <2>1 DEF Reader
<1>8. CASE Segment
  <2>1. CASE Heard \/ Said BY <1>1, <2>1 DEF Heard, Said
  <2>2. CASE Answered
    <3>1. op' = op /\ work = "text" /\ v2 # "leasing"
      BY <2>2 DEF Answered, V2Course, Preparing
    <3> QED BY <3>1 DEF Reader
  <2>3. CASE SayChunk
    <3>1. "tts" \in Keys /\ Ask("tts") /\ work' = "voice" BY <2>3 DEF SayChunk, Keys, v2State,
    v2Seg
    <3> QED BY <1>4, <3>1
  <2>4. CASE Complete
    <3>1. op' = op /\ work = "done" /\ v2 # "leasing"
      BY <2>4 DEF Complete, V2Course, Preparing, poolVars
    <3> QED BY <3>1 DEF Reader
  <2> QED BY <1>8, <2>1, <2>2, <2>3, <2>4 DEF Segment
<1>9. CASE ScribeTakes
  <2>1. CASE UNCHANGED <<poolVars, v2Seg>>
    BY <1>3, <1>9, <2>1 DEF ScribeTakes, poolVars, v2Seg, v2Sock
  <2>2. CASE Begin(Head(line))
    <3>1. "asr" \in Keys /\ Ask("asr") /\ work' = "asr" BY <2>2 DEF Begin, Keys
    <3> QED BY <1>4, <3>1
  <2> QED BY <1>9, <2>1, <2>2 DEF ScribeTakes
<1>10. CASE Receive
  <2>1. CASE OwnSegment
    <3>1. "asr" \in Keys /\ Ask("asr") /\ work' = "asr" BY <2>1 DEF OwnSegment, Begin, Keys
    <3> QED BY <1>4, <3>1
  <2>2. ASSUME StartInput \/ BadInput \/ HearFrame \/ StopInput \/ QueuePut \/ FinishMeeting \/ JoinMeeting
               \/ Minutes \/ MeetingFinished \/ V2Leave
        PROVE  Reader'
    <3>1. UNCHANGED <<op, work>>
      BY <2>2
         DEF StartInput, BadInput, HearFrame, StopInput, QueuePut, FinishMeeting, JoinMeeting,
           Minutes, MeetingFinished, V2Leave, poolVars, v2Seg
    <3>2. v2 # "leasing"
      BY <2>2
         DEF StartInput, BadInput, HearFrame, StopInput, QueuePut, FinishMeeting, JoinMeeting,
           Minutes, MeetingFinished, V2Leave, Joining
    <3> QED BY <1>2, <3>1, <3>2
  <2> QED BY <1>10, <2>1, <2>2 DEF Receive
<1>11. ASSUME v2 \in {"marking", "awaiting"}, StopScribe PROVE Reader'
  <2>1. CASE scribe = "busy" BY <1>1, <1>11, <2>1 DEF StopScribe, Cancel
  <2>2. CASE scribe # "busy"
    <3>1. op.step = "none" /\ op' = op
      BY <1>11, <2>2 DEF StopScribe, Reader, V2Course, Preparing, Serving, Joining
    <3> QED BY <3>1 DEF Reader
  <2> QED BY <2>1, <2>2
<1>12. CASE Cleanup
  <2>1. CASE PutMark \/ ScribeOver \/ CloseWorkers \/ ReturnLease \/ CloseJob
    <3>1. UNCHANGED <<op, work>> /\ v2 # "leasing"
      BY <2>1
         DEF PutMark, ScribeOver, CloseWorkers, ReturnLease, CloseJob, poolVars, v2Seg, v2State
    <3> QED BY <1>2, <3>1
  <2>2. CASE TimedOut BY <1>11, <2>2 DEF TimedOut
  <2>3. CASE CloseHold BY <1>1, <2>3 DEF CloseHold
  <2> QED BY <1>12, <2>1, <2>2, <2>3 DEF Cleanup
<1>13. CASE ClientGone \/ BeatStops
  BY <1>3, <1>13 DEF ClientGone, BeatStops, v2State, v2Sock, v2Seg
<1>14. CASE V2Struck
  <2>1. CASE v2 \in Releasing
    <3>1. CASE StopScribe /\ v2 \in {"marking", "awaiting"} BY <1>11, <3>1
    <3>2. CASE ~(StopScribe /\ v2 \in {"marking", "awaiting"})
      BY <1>2, <1>14, <2>1, <3>2 DEF V2Struck, Releasing, V2To, v2Seg
    <3> QED BY <3>1, <3>2
  <2>2. CASE v2 \notin Releasing /\ scribe # "busy"
    BY <1>1, <1>14, <2>2 DEF V2Struck, Cancel, Releasing
  <2>3. CASE v2 \notin Releasing /\ scribe = "busy"
    <3>1. UNCHANGED <<op, work>> /\ v2 # "leasing"
      BY <1>14, <2>3 DEF V2Struck, Releasing, V2Course, Preparing
    <3> QED BY <1>2, <3>1
  <2> QED BY <2>1, <2>2, <2>3
<1>15. CASE V2Background /\ UNCHANGED v2State
  <2>1. UNCHANGED <<op, v2, work>>
    BY <1>15
       DEF V2Background, Answers, Refuses, Babbles, Emit, Dies, Lapses, v2State, v2Sock, v2Seg
  <2> QED BY <1>3, <2>1
<1>16. CASE UNCHANGED v2Vars
  BY <1>3, <1>16 DEF v2Vars, poolVars, v2State, v2Sock, v2Seg
<1> QED
  BY <1>6, <1>7, <1>8, <1>9, <1>10, <1>12, <1>13, <1>14, <1>15, <1>16 DEF V2Next

-----------------------------------------------------------------------------
(* What the segments and the queue hold.                                    *)

\* The types of the segments and the queue.
DataTypes ==
  /\ commits \in Nat /\ unfinished \in Int /\ line \in Seq(Nat)
  /\ seg \in Segs /\ said \in Seq(Spokes) /\ transcript \in Seq(Segs)

\* A segment begins.
LEMMA BeginsFields ==
  ASSUME NEW n \in Nat, Begin(n)
  PROVE  /\ seg' \in Segs /\ seg'.n = n /\ seg'.next = 1 /\ said' = <<>> /\ said' \in Seq(Spokes)
         /\ work' = "asr" /\ transcript' = transcript /\ minuted' = minuted
<1>1. <<>> \in Seq(Spokes) OBVIOUS
<1> QED BY <1>1 DEF Begin, NoSeg, Segs

\* A recording is transcribed, or fails.
LEMMA HeardFields ==
  ASSUME V2Typed, Wire, Heard
  PROVE  /\ work = "asr" /\ seg' \in Segs /\ seg'.n = seg.n /\ seg'.next = seg.next
         /\ said' = said
         /\ UNCHANGED <<line, transcript, minuted, commits>>
         /\ \/ SegFails
            \/ /\ work' = (IF UsesAi THEN "text" ELSE "done") /\ UNCHANGED <<unfinished, v2, scribe>>
               /\ seg'.answer = seg'.id
<1>1. seg' = [seg EXCEPT !.id = op.id, !.answer = op.answer] /\ op.id \in Nat /\ op.answer \in Nat
  BY DEF Heard, V2Typed, Operations
<1>2. /\ seg' \in Segs /\ seg'.n = seg.n /\ seg'.next = seg.next
      /\ seg'.answer = op.answer /\ seg'.id = op.id
  BY <1>1 DEF V2Typed, Segs
<1>3. work = "asr" /\ said' = said /\ commits' = commits
      /\ \/ op.result = "ok" /\ Moves(IF UsesAi THEN "text" ELSE "done")
         \/ SegFails
  BY DEF Heard, v2In
<1>4. UNCHANGED <<line, transcript, minuted>> BY <1>3 DEF SegFails, Moves, v2Line
<1> QED BY <1>2, <1>3, <1>4 DEF Moves, v2Sock, v2Line, Wire

\* An answer is there, or the model failed.
LEMMA AnsweredFields ==
  ASSUME V2Typed, Answered
  PROVE  /\ work = "text" /\ seg' \in Segs /\ seg'.n = seg.n /\ seg'.next = seg.next
         /\ seg'.answer = seg.answer /\ seg'.id = seg.id /\ said' = said
         /\ UNCHANGED <<line, transcript, minuted, commits>>
         /\ \/ SegFails
            \/ /\ \/ work' = "voice" /\ preset = "chat"
                  \/ work' = "done" /\ (preset = "chat" => seg'.chunks = 0)
               /\ UNCHANGED <<unfinished, v2, scribe>>
<1>1. work = "text" /\ said' = said /\ commits' = commits BY DEF Answered, v2In
<1>2. CASE SegFails /\ UNCHANGED seg BY <1>1, <1>2 DEF SegFails, V2Typed
<1>3. ASSUME NEW c \in 0..MaxReplies, seg' = [seg EXCEPT !.chunks = c],
             Moves(IF preset = "chat" /\ c > 0 THEN "voice" ELSE "done")
      PROVE  /\ seg' \in Segs /\ seg'.n = seg.n /\ seg'.next = seg.next
             /\ seg'.answer = seg.answer /\ seg'.id = seg.id
             /\ UNCHANGED <<line, transcript, minuted>>
             /\ \/ work' = "voice" /\ preset = "chat"
                \/ work' = "done" /\ (preset = "chat" => seg'.chunks = 0)
             /\ UNCHANGED <<unfinished, v2, scribe>>
  <2>1. c \in Nat /\ (c > 0 \/ c = 0) BY <1>3, V2Assumption
  <2>2. /\ seg' \in Segs /\ seg'.n = seg.n /\ seg'.next = seg.next
        /\ seg'.answer = seg.answer /\ seg'.id = seg.id /\ seg'.chunks = c
    BY <1>3, <2>1 DEF V2Typed, Segs
  <2> QED BY <1>3, <2>1, <2>2 DEF Moves, v2Sock, v2Line
<1> QED BY <1>1, <1>2, <1>3 DEF Answered

\* A chunk was spoken, or failed.
LEMMA SaidFields ==
  ASSUME V2Typed, Wire, Said
  PROVE  /\ work = "voice" /\ UNCHANGED <<line, transcript, minuted, commits>>
         /\ \/ SegFails /\ UNCHANGED <<said, seg>>
            \/ /\ UNCHANGED <<unfinished, v2, scribe>>
               /\ \E s \in Spokes :
                    said' = Append(said, s) /\ s.text = seg.next /\ s.answer = s.id
               /\ seg' \in Segs /\ seg'.n = seg.n /\ seg'.next = seg.next + 1
               /\ seg'.chunks = seg.chunks
               /\ seg'.answer = seg.answer /\ seg'.id = seg.id
               /\ work' = (IF seg.next = seg.chunks THEN "done" ELSE "voice")
<1>1. work = "voice" /\ commits' = commits BY DEF Said, v2In
<1>2. CASE SegFails /\ UNCHANGED <<said, seg>> BY <1>1, <1>2 DEF SegFails
<1>3. CASE ~(SegFails /\ UNCHANGED <<said, seg>>)
  <2>1. /\ op.result = "ok" /\ seg' = [seg EXCEPT !.next = @ + 1]
        /\ said' = Append(said, [text |-> seg.next, id |-> op.id, answer |-> op.answer])
        /\ Moves(IF seg.next = seg.chunks THEN "done" ELSE "voice")
    BY <1>3 DEF Said
  <2>2. op.id \in Nat /\ op.answer = op.id /\ seg.next \in Nat
    BY <2>1 DEF Wire, V2Typed, Operations, Segs
  <2>3. [text |-> seg.next, id |-> op.id, answer |-> op.answer] \in Spokes
    BY <2>2 DEF Spokes
  <2>4. /\ seg' \in Segs /\ seg'.n = seg.n /\ seg'.next = seg.next + 1 /\ seg'.chunks = seg.chunks
        /\ seg'.answer = seg.answer /\ seg'.id = seg.id
    <3>1. seg \in Segs /\ seg.next + 1 \in Nat BY <2>2 DEF V2Typed
    <3> DEFINE m == seg.next + 1
    <3>2. seg' = [seg EXCEPT !.next = m] /\ m \in Nat BY <2>1, <3>1
    <3> HIDE DEF m
    <3>3. /\ seg' \in Segs /\ seg'.n = seg.n /\ seg'.next = m /\ seg'.chunks = seg.chunks
          /\ seg'.answer = seg.answer /\ seg'.id = seg.id
      BY <3>1, <3>2 DEF Segs
    <3> QED BY <3>3 DEF m
  <2>5. UNCHANGED <<line, transcript, minuted, unfinished, v2, scribe>>
        /\ work' = (IF seg.next = seg.chunks THEN "done" ELSE "voice")
    BY <2>1 DEF Moves, v2Sock, v2Line
  <2> QED BY <1>1, <2>1, <2>2, <2>3, <2>4, <2>5
<1> QED BY <1>2, <1>3

\* The segment is over, well or not.
LEMMA CompleteFields ==
  ASSUME V2Typed, Complete
  PROVE  /\ work = "done" /\ work' = "none" /\ UNCHANGED <<line, minuted, commits, seg, said>>
         /\ \/ SegFails
            \/ /\ preset = "meeting" /\ transcript' = Append(transcript, seg) /\ scribe' = "get"
               /\ unfinished' = unfinished - 1 /\ v2' = v2
            \/ /\ preset # "meeting" /\ v2' = "receiving" /\ UNCHANGED <<transcript, unfinished, scribe>>
<1>1. work = "done" /\ work' = "none" /\ UNCHANGED <<line, minuted, commits, seg, said>>
  BY DEF Complete, SegFails, v2In, v2Line
<1> QED BY <1>1 DEF Complete, V2To, v2Sock, v2Line

\* What a segment that fails leaves.
LEMMA FailsFields ==
  ASSUME V2Typed, V2Course, SegFails, work # "none"
  PROVE  /\ work' = "none" /\ scribe' \notin Living /\ unfinished' \in Int
         /\ UNCHANGED <<line, transcript, minuted>>
<1>1. work' = "none" /\ UNCHANGED <<line, transcript, minuted>>
      /\ scribe' = (IF preset = "meeting" THEN "died" ELSE scribe)
      /\ unfinished' = (IF preset = "meeting" THEN unfinished - 1 ELSE unfinished)
  BY DEF SegFails, Leaves
<1>2. scribe' \notin Living BY <1>1 DEF V2Course, Living
<1> QED BY <1>1, <1>2 DEF V2Typed

\* A step that leaves the segments and the queue as they are.
Plain ==
  /\ UNCHANGED <<commits, unfinished, line, seg, said, transcript, minuted, scribe, preset>>
  /\ work' \in {work, "none"}
  /\ v2 \in Marked => v2' \in Marked
  /\ v2' \in {"minutes", "finished"} => v2 \in {"minutes", "finished"}

\* Every other step is one of these.
LEMMA PlainSteps ==
  ASSUME V2Typed, V2Course, [V2Next]_v2Vars
  PROVE  \/ Plain \/ Heard \/ Answered \/ Said \/ Complete \/ ScribeTakes \/ OwnSegment \/ QueuePut
         \/ JoinMeeting \/ MeetingFinished \/ PutMark \/ LoadWorker
         \/ StopScribe /\ v2 \in {"marking", "awaiting"}
<1> USE DEF Plain
<1>1. ASSUME UNCHANGED v2State PROVE Plain BY <1>1 DEF v2State, v2Sock, v2In, v2Line, v2Seg
<1>2. ASSUME UNCHANGED <<v2In, v2Line, v2Seg, preset>>,
             v2' = v2 \/ v2' \notin {"minutes", "finished"} \/ v2 = "minutes",
             v2 \in Marked => v2' \in Marked
      PROVE  Plain
  BY <1>2 DEF v2In, v2Line, v2Seg
<1>3. ASSUME NEW status, Release(status), UNCHANGED <<v2In, v2Line, v2Seg>>, v2 \notin Marked PROVE Plain
  BY <1>2, <1>3 DEF Release
<1> USE DEF Marked, Closing, Final
<1>4. ASSUME V2Hello \/ TakeHold \/ OpenJob \/ AskLease \/ LeaseTaken PROVE Plain
  <2>1. UNCHANGED <<v2In, v2Line, v2Seg>> /\ v2 \notin Marked
        /\ (v2' \in {v2, "holding", "opening", "leasing", "loading", "closing", "marking"})
        /\ preset' = preset
    BY <1>4 DEF V2Hello, TakeHold, OpenJob, AskLease, LeaseTaken, V2To, Release, v2Sock
  <2> QED BY <1>2, <2>1
<1>5. ASSUME Admission \/ SayChunk \/ ReadLine \/ ReturnLease \/ BeatStops \/ UNCHANGED v2Vars
             \/ (V2Background /\ UNCHANGED v2State)
      PROVE  Plain
  BY <1>1, <1>5 DEF Admission, SayChunk, ReadLine, ReturnLease, BeatStops, v2Vars
<1>6. ASSUME StartInput \/ BadInput \/ HearFrame \/ StopInput \/ FinishMeeting \/ Minutes \/ V2Leave PROVE Plain
  <2>1. CASE BadInput \/ V2Leave BY <1>3, <2>1 DEF BadInput, V2Leave
  <2>2. CASE Minutes BY <1>2, <2>2 DEF Minutes, V2To, Release
  <2>3. CASE StartInput \/ HearFrame \/ StopInput \/ FinishMeeting
    <3>1. UNCHANGED <<commits, v2Line, v2Seg, preset>> /\ v2 = "receiving"
          /\ v2' \notin {"minutes", "finished"}
      BY <2>3 DEF StartInput, HearFrame, StopInput, FinishMeeting, Commit, v2Sock
    <3> QED BY <3>1 DEF v2Line, v2Seg
  <2> QED BY <1>6, <2>1, <2>2, <2>3
<1>7. ASSUME ScribeOver \/ CloseHold \/ CloseWorkers \/ CloseJob \/ ClientGone PROVE Plain
  <2>1. UNCHANGED <<v2In, v2Line, v2Seg, preset>> /\ (v2' = v2 \/ v2' \in Closing)
    BY <1>7 DEF ScribeOver, CloseHold, CloseWorkers, CloseJob, ClientGone, V2To
  <2> QED BY <1>2, <2>1
<1>8. ASSUME V2Struck, ~(StopScribe /\ v2 \in {"marking", "awaiting"}) PROVE Plain
  <2>1. CASE v2 \in Releasing
    <3>1. CASE ~shaken
      <4>1. UNCHANGED <<v2In, v2Line, v2Seg, preset, v2>> BY <1>8, <2>1, <3>1 DEF V2Struck
      <4> QED BY <1>2, <4>1
    <3>2. CASE shaken
      <4>1. CASE v2 \in {"marking", "awaiting"}
        <5>1. StopScribe BY <1>8, <2>1, <3>2, <4>1 DEF V2Struck
        <5> QED BY <1>8, <4>1, <5>1
      <4>2. CASE v2 \notin {"marking", "awaiting"}
        <5>1. v2 \in {"closing", "unloading", "returning"} BY <2>1, <4>2 DEF Releasing
        <5>2. UNCHANGED <<v2In, v2Line, v2Seg>> /\ V2To("cut")
          BY <1>8, <2>1, <3>2, <5>1 DEF V2Struck
        <5>3. v2' = "cut" /\ preset' = preset BY <5>2 DEF V2To
        <5> QED BY <1>2, <5>1, <5>2, <5>3
      <4> QED BY <4>1, <4>2
    <3> QED BY <3>1, <3>2
  <2>2. CASE v2 \notin Releasing
    <3>1. /\ Release(verdict) /\ UNCHANGED <<v2In, v2Line, seg, rows, said, transcript, minuted>>
          /\ work' \in {work, "none"}
      BY <1>8, <2>2 DEF V2Struck, Releasing
    <3>2. v2 \notin Marked BY <1>8, <2>2 DEF V2Struck, Releasing
    <3> QED BY <3>1, <3>2 DEF Release, v2In, v2Line
  <2> QED BY <2>1, <2>2
<1> QED
  BY <1>4, <1>5, <1>6, <1>7, <1>8 DEF V2Next, Start, Segment, Receive, Cleanup, TimedOut

\* The types of the segments and the queue are kept.
LEMMA DataKeeps ==
  ASSUME V2Typed, V2Course, Wire, V2Placed, [V2Next]_v2Vars PROVE DataTypes'
<1> USE DEF DataTypes
<1>1. DataTypes BY DEF V2Typed
<1>2. ASSUME SegFails, work # "none", UNCHANGED <<commits, said>>, seg' \in Segs PROVE DataTypes'
  BY <1>1, <1>2, FailsFields
<1>3. CASE Plain BY <1>1, <1>3 DEF Plain
<1>4. CASE Heard
  <2>1. commits' \in Nat /\ seg' \in Segs /\ said' \in Seq(Spokes) /\ line' \in Seq(Nat)
        /\ transcript' \in Seq(Segs) /\ work # "none" /\ UNCHANGED <<commits, said>>
    BY <1>1, <1>4, HeardFields
  <2>2. CASE SegFails BY <1>2, <2>1, <2>2
  <2>3. CASE ~SegFails BY <1>1, <1>4, <2>1, <2>3, HeardFields
  <2> QED BY <2>2, <2>3
<1>5. CASE Answered
  <2>1. commits' \in Nat /\ seg' \in Segs /\ said' \in Seq(Spokes) /\ line' \in Seq(Nat)
        /\ transcript' \in Seq(Segs) /\ work # "none" /\ UNCHANGED <<commits, said>>
    BY <1>1, <1>5, AnsweredFields
  <2>2. CASE SegFails BY <1>2, <2>1, <2>2
  <2>3. CASE ~SegFails BY <1>1, <1>5, <2>1, <2>3, AnsweredFields
  <2> QED BY <2>2, <2>3
<1>6. CASE Said
  <2>1. work # "none" /\ UNCHANGED <<line, transcript, commits>> BY <1>6, SaidFields
  <2>2. CASE SegFails /\ UNCHANGED <<said, seg>> BY <1>1, <1>2, <2>1, <2>2
  <2>3. CASE ~(SegFails /\ UNCHANGED <<said, seg>>)
    <3>1. unfinished' = unfinished /\ seg' \in Segs /\ \E s \in Spokes : said' = Append(said, s)
      BY <1>6, <2>3, SaidFields
    <3>2. said' \in Seq(Spokes) BY <1>1, <3>1
    <3> QED BY <1>1, <2>1, <3>1, <3>2
  <2> QED BY <2>2, <2>3
<1>7. CASE Complete
  <2>1. work # "none" /\ UNCHANGED <<line, commits, seg, said>> BY <1>7, CompleteFields
  <2>2. CASE SegFails BY <1>1, <1>2, <2>1, <2>2
  <2>3. CASE ~SegFails
    <3>1. \/ transcript' = Append(transcript, seg) /\ unfinished' = unfinished - 1
          \/ UNCHANGED <<transcript, unfinished>>
      BY <1>7, <2>3, CompleteFields
    <3>2. transcript' \in Seq(Segs)
      <4>1. seg \in Segs /\ transcript \in Seq(Segs) BY <1>1
      <4>2. CASE transcript' = Append(transcript, seg) BY <4>1, <4>2
      <4> QED BY <3>1, <4>1, <4>2
    <3>3. unfinished' \in Int BY <1>1, <3>1
    <3> QED BY <1>1, <2>1, <3>2, <3>3
  <2> QED BY <2>2, <2>3
<1>8. CASE ScribeTakes
  <2>1. /\ scribe = "get" /\ line # <<>> /\ line' = Tail(line) /\ commits' = commits
        /\ unfinished' \in {unfinished, unfinished - 1}
        /\ \/ UNCHANGED <<seg, said, transcript>>
           \/ Begin(Head(line))
    BY <1>8 DEF ScribeTakes, v2In, v2Seg
  <2>2. line' \in Seq(Nat) /\ Head(line) \in Nat BY <1>1, <2>1
  <2>3. unfinished' \in Int BY <1>1, <2>1
  <2>4. seg' \in Segs /\ said' \in Seq(Spokes) /\ transcript' \in Seq(Segs)
    BY <1>1, <2>1, <2>2, BeginsFields
  <2> QED BY <1>1, <2>1, <2>2, <2>3, <2>4
<1>9. CASE OwnSegment
  <2>1. Begin(commits + 1) /\ commits' = commits + 1 /\ UNCHANGED <<line, unfinished>>
    BY <1>9 DEF OwnSegment, v2Line
  <2>2. commits + 1 \in Nat BY <1>1
  <2>3. seg' \in Segs /\ said' \in Seq(Spokes) /\ transcript' = transcript
    BY <2>1, <2>2, BeginsFields
  <2> QED BY <1>1, <2>1, <2>2, <2>3
<1>10. CASE QueuePut
  <2>1. line' = Append(line, commits + 1) /\ unfinished' = unfinished + 1 /\ commits' = commits + 1
        /\ UNCHANGED <<seg, said, transcript>>
    BY <1>10 DEF QueuePut, v2Seg
  <2>2. commits' \in Nat /\ unfinished' \in Int /\ line' \in Seq(Nat) BY <1>1, <2>1
  <2> QED BY <1>1, <2>1, <2>2
<1>11. CASE JoinMeeting \/ MeetingFinished
  BY <1>1, <1>11 DEF JoinMeeting, MeetingFinished, v2In, v2Line, v2Seg
<1>12. CASE PutMark
  <2>1. line' = Append(line, Mark) /\ unfinished' = unfinished + 1
        /\ UNCHANGED <<commits, seg, said, transcript>>
    BY <1>12 DEF PutMark, v2In, v2Seg
  <2>2. unfinished' \in Int /\ line' \in Seq(Nat) BY <1>1, <2>1 DEF Mark
  <2> QED BY <1>1, <2>1, <2>2
<1>13. CASE LoadWorker BY <1>1, <1>13 DEF LoadWorker, v2In, v2Seg
<1>14. CASE StopScribe
  <2>1. UNCHANGED <<commits, line, seg, said, transcript>>
        /\ unfinished' \in {unfinished, unfinished - 1}
    BY <1>14 DEF StopScribe, v2In
  <2>2. unfinished' \in Int BY <1>1, <2>1
  <2> QED BY <1>1, <2>1, <2>2
<1> QED
  BY <1>3, <1>4, <1>5, <1>6, <1>7, <1>8, <1>9, <1>10, <1>11, <1>12, <1>13, <1>14, PlainSteps

-----------------------------------------------------------------------------
(* The queue of a meeting.                                                  *)

\* Nothing that places a segment changed.
LEMMA PlacedStill ==
  ASSUME V2Placed, UNCHANGED <<scribe, transcript, line, commits, unfinished>>, seg'.n = seg.n,
         v2 \in Marked => v2' \in Marked,
         v2' \in {"minutes", "finished"} => v2 \in {"minutes", "finished"}
  PROVE  V2Placed'
<1>1. Held' = Held BY DEF Held
<1> QED BY <1>1 DEF V2Placed

\* Every segment stays in its place: the transcript, the processor's hands, the queue.
LEMMA PlacedKeeps ==
  ASSUME V2Typed, V2Course, Wire, V2Placed, [V2Next]_v2Vars PROVE V2Placed'
<1>1. ASSUME scribe' \notin Living PROVE V2Placed' BY <1>1 DEF V2Placed
<1>2. ASSUME SegFails, work # "none" PROVE V2Placed' BY <1>1, <1>2, FailsFields
<1>3. CASE Plain BY <1>3, PlacedStill DEF Plain
<1>4. CASE Heard
  <2>1. CASE SegFails BY <1>2, <1>4, <2>1, HeardFields
  <2>2. CASE ~SegFails BY <1>4, <2>2, HeardFields, PlacedStill
  <2> QED BY <2>1, <2>2
<1>5. CASE Answered
  <2>1. CASE SegFails BY <1>2, <1>5, <2>1, AnsweredFields
  <2>2. CASE ~SegFails BY <1>5, <2>2, AnsweredFields, PlacedStill
  <2> QED BY <2>1, <2>2
<1>6. CASE Said
  <2>1. CASE SegFails BY <1>2, <1>6, <2>1, SaidFields
  <2>2. CASE ~SegFails BY <1>6, <2>2, SaidFields, PlacedStill
  <2> QED BY <2>1, <2>2
<1>7. CASE Complete
  <2>1. CASE SegFails BY <1>2, <1>7, <2>1, CompleteFields
  <2>2. CASE ~SegFails /\ preset = "meeting"
    <3>1. /\ transcript' = Append(transcript, seg) /\ scribe' = "get"
          /\ unfinished' = unfinished - 1
          /\ UNCHANGED <<line, commits, seg, v2>> /\ scribe = "busy"
      BY <1>7, <2>2, CompleteFields DEF V2Course
    <3>2. Len(transcript) \in Nat /\ Len(transcript') = Len(transcript) + 1 /\ Len(line) \in Nat
      BY <3>1 DEF V2Typed
    <3>3. Held = 1 /\ Held' = 0 BY <3>1 DEF Held
    <3>4. Len(transcript') + Held' = Len(transcript) + Held BY <3>2, <3>3
    <3>5. \A i \in 1..Len(line) :
            line[i] = (Len(transcript') + Held') + i \/ (line[i] = Mark /\ i = Len(line) /\ v2 \in Marked)
      BY <3>1, <3>4 DEF V2Placed, Living
    <3>6. v2 \notin Marked =>
            commits = (Len(transcript') + Held') + Len(line) /\ unfinished = 1 + Len(line)
      BY <3>1, <3>3, <3>4 DEF V2Placed, Living
    <3>7. v2 \notin Marked => unfinished' = Held' + Len(line) BY <3>1, <3>2, <3>3, <3>6
    <3>8. v2 \notin {"minutes", "finished"} BY <3>1 DEF V2Placed, Living
    <3> QED BY <3>1, <3>5, <3>6, <3>7, <3>8 DEF V2Placed
  <2>3. CASE ~SegFails /\ preset # "meeting"
    BY <1>1, <1>7, <2>3, CompleteFields DEF V2Course, Living
  <2> QED BY <2>1, <2>2, <2>3
<1>8. CASE ScribeTakes
  <2>1. /\ scribe = "get" /\ line # <<>> /\ line' = Tail(line) /\ commits' = commits /\ v2' = v2
        /\ IF Head(line) = Mark THEN scribe' = "done"
           ELSE scribe' = "busy" /\ Begin(Head(line)) /\ unfinished' = unfinished
    BY <1>8 DEF ScribeTakes, v2In, v2Sock
  <2>2. CASE Head(line) = Mark BY <1>1, <2>1, <2>2 DEF Living
  <2>3. CASE Head(line) # Mark
    <3>1. /\ Len(line) \in Nat \ {0} /\ Head(line) = Len(transcript) + 1
          /\ Len(transcript) \in Nat
      BY <2>1, <2>3, NextInLine DEF V2Typed
    <3>2. seg'.n = Len(transcript) + 1 /\ transcript' = transcript
      BY <2>1, <2>3, <3>1, BeginsFields
    <3>3. Len(line') = Len(line) - 1 /\ \A i \in 1..Len(line') : line'[i] = line[i + 1]
      BY <2>1, <3>1 DEF V2Typed
    <3>4. Held = 0 /\ Held' = 1 BY <2>1, <2>3 DEF Held
    <3>5. \A i \in 1..Len(line) :
            line[i] = Len(transcript) + i \/ (line[i] = Mark /\ i = Len(line) /\ v2 \in Marked)
      BY <2>1, <3>1, <3>4 DEF V2Placed, Living
    <3>6. ASSUME NEW i \in 1..Len(line')
          PROVE  line'[i] = (Len(transcript) + 1) + i \/ (line'[i] = Mark /\ i = Len(line') /\ v2 \in Marked)
      <4>1. i + 1 \in 1..Len(line) /\ line'[i] = line[i + 1] BY <3>1, <3>3
      <4>2. \/ line[i + 1] = Len(transcript) + (i + 1)
            \/ line[i + 1] = Mark /\ i + 1 = Len(line) /\ v2 \in Marked
        BY <3>5, <4>1
      <4> QED BY <3>1, <3>3, <4>1, <4>2
    <3>7. v2 \notin Marked => commits = Len(transcript) + Len(line) /\ unfinished = Len(line)
      BY <2>1, <3>1, <3>4 DEF V2Placed, Living
    <3>8. v2 \notin Marked =>
            commits' = (Len(transcript) + 1) + Len(line') /\ unfinished' = 1 + Len(line')
      BY <2>1, <2>3, <3>1, <3>3, <3>7
    <3>9. v2 \notin {"minutes", "finished"} BY <2>1 DEF V2Placed, Living
    <3> QED BY <2>1, <2>3, <3>2, <3>4, <3>6, <3>8, <3>9 DEF V2Placed
  <2> QED BY <2>2, <2>3
<1>9. CASE OwnSegment
  <2>1. scribe' \notin Living
    BY <1>9 DEF OwnSegment, v2Line, V2Course, Serving, Living
  <2> QED BY <1>1, <2>1
<1>10. CASE QueuePut
  <2>1. /\ v2 = "queueing" /\ line' = Append(line, commits + 1) /\ unfinished' = unfinished + 1
        /\ commits' = commits + 1 /\ v2' = after /\ UNCHANGED <<scribe, seg, transcript>>
    BY <1>10 DEF QueuePut, V2To, v2Seg
  <2>2. SUFFICES ASSUME scribe \in Living PROVE V2Placed' BY <1>1, <2>1
  <2>3. v2 \notin Marked /\ v2' \notin {"minutes", "finished"}
    BY <2>1 DEF Marked, Closing, Final, V2Course, Joining
  <2>4. Held' = Held /\ Held \in Nat BY <2>1 DEF Held
  <2>5. Len(line) \in Nat /\ Len(transcript) \in Nat /\ commits \in Nat BY DEF V2Typed
  <2>6. commits = (Len(transcript) + Held) + Len(line) /\ unfinished = Held + Len(line)
    BY <2>2, <2>3 DEF V2Placed
  <2>7. /\ Len(line') = Len(line) + 1 /\ line'[Len(line) + 1] = commits + 1
        /\ \A i \in 1..Len(line) : line'[i] = line[i]
    BY <2>1, <2>5 DEF V2Typed
  <2>8. \A i \in 1..Len(line) : line[i] = (Len(transcript) + Held) + i
    BY <2>2, <2>3 DEF V2Placed
  <2>9. ASSUME NEW i \in 1..Len(line') PROVE line'[i] = (Len(transcript) + Held) + i
    <3>1. CASE i \in 1..Len(line) BY <2>7, <2>8, <3>1
    <3>2. CASE i = Len(line) + 1 BY <2>4, <2>5, <2>6, <2>7, <3>2
    <3> QED BY <2>5, <2>7, <3>1, <3>2
  <2>10. commits' = (Len(transcript) + Held) + Len(line') /\ unfinished' = Held + Len(line')
    BY <2>1, <2>4, <2>5, <2>6, <2>7
  <2>11. scribe = "busy" => seg.n = Len(transcript) + 1 BY <2>2 DEF V2Placed
  <2> QED BY <2>1, <2>3, <2>4, <2>9, <2>10, <2>11 DEF V2Placed
<1>11. CASE JoinMeeting
  <2>1. /\ v2 \in Joining /\ unfinished = 0
        /\ UNCHANGED <<scribe, seg, transcript, line, commits, unfinished>>
    BY <1>11 DEF JoinMeeting, v2In, v2Line, v2Seg
  <2>2. v2 \notin Marked BY <2>1 DEF Marked, Closing, Final, Joining
  <2>3. Held' = Held /\ Held \in Nat /\ Len(line) \in Nat BY <2>1 DEF Held, V2Typed
  <2>4. ASSUME scribe \in Living PROVE line = <<>> /\ scribe = "get"
    <3>1. Held = 0 /\ Len(line) = 0 BY <2>1, <2>2, <2>3, <2>4 DEF V2Placed
    <3>2. line = <<>> BY <3>1 DEF V2Typed
    <3> QED BY <2>4, <3>1, <3>2 DEF Held, Living
  <2> QED BY <2>1, <2>2, <2>3, <2>4 DEF V2Placed
<1>12. CASE MeetingFinished
  <2>1. /\ UNCHANGED <<scribe, seg, transcript, line, commits, unfinished>>
        /\ v2 = "finished" /\ v2' \in {"receiving", "closing", "marking"}
    BY <1>12 DEF MeetingFinished, V2To, Release, v2In, v2Line
  <2>2. v2 \notin Marked BY <2>1 DEF Marked, Closing, Final
  <2> QED BY <2>1, <2>2, PlacedStill
<1>13. CASE PutMark
  <2>1. /\ v2 = "marking" /\ v2' = "awaiting" /\ line' = Append(line, Mark)
        /\ UNCHANGED <<scribe, seg, transcript>>
    BY <1>13 DEF PutMark, V2To, v2Seg
  <2>2. SUFFICES ASSUME scribe \in Living PROVE V2Placed' BY <1>1, <2>1
  <2>3. v2 \notin Marked /\ v2' \in Marked BY <2>1 DEF Marked, Closing, Final
  <2>4. Held' = Held BY <2>1 DEF Held
  <2>5. Len(line) \in Nat /\ Mark \in Nat BY DEF V2Typed, Mark
  <2>6. /\ Len(line') = Len(line) + 1 /\ line'[Len(line) + 1] = Mark
        /\ \A i \in 1..Len(line) : line'[i] = line[i]
    BY <2>1, <2>5 DEF V2Typed
  <2>7. \A i \in 1..Len(line) : line[i] = (Len(transcript) + Held) + i
    BY <2>2, <2>3 DEF V2Placed
  <2>8. ASSUME NEW i \in 1..Len(line')
        PROVE  line'[i] = (Len(transcript) + Held) + i \/ (line'[i] = Mark /\ i = Len(line'))
    <3>1. CASE i \in 1..Len(line) BY <2>6, <2>7, <3>1
    <3>2. CASE i = Len(line) + 1 BY <2>6, <3>2
    <3> QED BY <2>5, <2>6, <3>1, <3>2
  <2>9. scribe = "busy" => seg.n = Len(transcript) + 1 BY <2>2 DEF V2Placed
  <2> QED BY <2>1, <2>3, <2>4, <2>8, <2>9 DEF V2Placed
<1>14. CASE LoadWorker
  <2>1. /\ v2 = "loading" /\ UNCHANGED <<seg, transcript, line, commits, unfinished>>
        /\ scribe' \in {"get", "off"} /\ line = <<>> /\ transcript = <<>> /\ commits = 0
        /\ unfinished = 0
    BY <1>14 DEF LoadWorker, v2In, v2Seg, V2Course, Preparing
  <2>2. v2' \notin {"minutes", "finished"}
    BY <1>14 DEF LoadWorker, V2To, Release, v2Sock
  <2>3. Held' = 0 /\ Len(line') = 0 /\ Len(transcript') = 0 BY <2>1 DEF Held
  <2> QED BY <2>1, <2>2, <2>3 DEF V2Placed
<1>15. CASE StopScribe
  <2>1. scribe' \notin Living BY <1>15 DEF StopScribe, Living
  <2> QED BY <1>1, <2>1
<1> QED
  BY <1>3, <1>4, <1>5, <1>6, <1>7, <1>8, <1>9, <1>10, <1>11, <1>12, <1>13, <1>14, <1>15,
     PlainSteps

-----------------------------------------------------------------------------
(* What was said, and what the meeting's record holds.                      *)

\* The parts of V2Whole.
SaidInOrder  == \A i \in DOMAIN said : said[i].text = i /\ said[i].answer = said[i].id
Scripted     ==
  \A i \in DOMAIN transcript : transcript[i].n = i /\ transcript[i].answer = transcript[i].id
AllSaid      == work = "done" /\ preset = "chat" => Len(said) = seg.chunks
AllMinuted   == scribe # "died" => \A m \in minuted : m[1] = m[2]

\* V2Whole is these four.
LEMMA WholeParts == V2Whole <=> SaidInOrder /\ Scripted /\ AllSaid /\ AllMinuted
  BY DEF V2Whole, SaidInOrder, Scripted, AllSaid, AllMinuted

\* The other steps leave the segment under way as it is, or drop it.
LEMMA QuietSteps ==
  ASSUME QueuePut \/ JoinMeeting \/ MeetingFinished \/ PutMark \/ LoadWorker \/ StopScribe
  PROVE  UNCHANGED <<seg, said, transcript>> /\ work' \in {work, "none"}
         /\ (minuted' = minuted \/ MeetingFinished)
  BY DEF QueuePut, JoinMeeting, MeetingFinished, PutMark, LoadWorker, StopScribe, v2Seg

\* Audio stays in the order of its text, and none is missing when the turn is complete.
LEMMA SaidKeeps ==
  ASSUME V2Typed, V2Course, Wire, Spelt, SaidInOrder, AllSaid, [V2Next]_v2Vars
  PROVE  Spelt' /\ SaidInOrder' /\ AllSaid'
<1> DEFINE Goal == Spelt' /\ SaidInOrder' /\ AllSaid'
<1>1. preset' = preset BY EndsStayEnds DEF EndsStay
<1>2. ASSUME UNCHANGED <<seg, said>>, work' \in {work, "none"} PROVE Goal
  BY <1>1, <1>2 DEF Spelt, SaidInOrder, AllSaid
<1>3. ASSUME said' = said, work' = "none" PROVE Goal
  BY <1>3 DEF Spelt, SaidInOrder, AllSaid
<1>4. SegFails => work' = "none" BY DEF SegFails
<1>5. ASSUME NEW n \in Nat, Begin(n) PROVE Goal
  <2>1. seg'.next = 1 /\ said' = <<>> /\ work' = "asr" BY <1>5, BeginsFields
  <2> QED BY <2>1 DEF Spelt, SaidInOrder, AllSaid
<1>6. CASE Plain BY <1>2, <1>6 DEF Plain
<1>7. CASE Heard
  <2>1. CASE SegFails BY <1>3, <1>4, <1>7, <2>1, HeardFields
  <2>2. CASE ~SegFails
    <3>1. /\ work = "asr" /\ seg'.next = seg.next /\ said' = said /\ seg'.answer = seg'.id
          /\ work' = (IF UsesAi THEN "text" ELSE "done")
      BY <1>7, <2>2, HeardFields
    <3>2. said = <<>> /\ seg.next = 1 BY <3>1 DEF Spelt
    <3>3. work' = "done" => preset # "chat" BY <3>1 DEF UsesAi
    <3>4. work' \in {"text", "done"} BY <3>1
    <3> QED BY <1>1, <3>1, <3>2, <3>3, <3>4 DEF Spelt, SaidInOrder, AllSaid
  <2> QED BY <2>1, <2>2
<1>8. CASE Answered
  <2>1. CASE SegFails BY <1>3, <1>4, <1>8, <2>1, AnsweredFields
  <2>2. CASE ~SegFails
    <3>1. /\ work = "text" /\ seg'.next = seg.next /\ said' = said
          /\ seg'.answer = seg.answer /\ seg'.id = seg.id
          /\ \/ work' = "voice" /\ preset = "chat"
             \/ work' = "done" /\ (preset = "chat" => seg'.chunks = 0)
      BY <1>8, <2>2, AnsweredFields
    <3>2. said = <<>> /\ seg.next = 1 /\ seg.answer = seg.id BY <3>1 DEF Spelt
    <3>3. Len(said') = 0 BY <3>1, <3>2
    <3>4. seg'.answer = seg'.id BY <3>1, <3>2
    <3>5. seg'.next = Len(said') + 1 BY <3>1, <3>2, <3>3
    <3>6. Spelt' BY <3>1, <3>4, <3>5 DEF Spelt
    <3>7. AllSaid' BY <1>1, <3>1, <3>3 DEF AllSaid
    <3>8. SaidInOrder' BY <3>1 DEF SaidInOrder
    <3> QED BY <3>6, <3>7, <3>8
  <2> QED BY <2>1, <2>2
<1>9. CASE Said
  <2>1. CASE SegFails /\ UNCHANGED <<said, seg>> BY <1>2, <1>4, <2>1
  <2>2. CASE ~(SegFails /\ UNCHANGED <<said, seg>>)
    <3>1. work = "voice" BY <1>9, SaidFields
    <3>2. PICK s \in Spokes : said' = Append(said, s) /\ s.text = seg.next /\ s.answer = s.id
      BY <1>9, <2>2, SaidFields
    <3>3. /\ seg'.next = seg.next + 1 /\ seg'.chunks = seg.chunks
          /\ seg'.answer = seg.answer /\ seg'.id = seg.id
          /\ work' = (IF seg.next = seg.chunks THEN "done" ELSE "voice")
      BY <1>9, <2>2, SaidFields
    <3>4. seg.next = Len(said) + 1 /\ seg.answer = seg.id BY <3>1 DEF Spelt
    <3>5. /\ Len(said) \in Nat /\ Len(said') = Len(said) + 1 /\ DOMAIN said' = 1..(Len(said) + 1)
          /\ \A i \in 1..Len(said) : said'[i] = said[i]
          /\ said'[Len(said) + 1] = s /\ DOMAIN said = 1..Len(said)
      <4>1. said \in Seq(Spokes) /\ s \in Spokes BY DEF V2Typed
      <4> QED BY <3>2, <4>1
    <3>6. SaidInOrder'
      <4>1. ASSUME NEW i \in DOMAIN said' PROVE said'[i].text = i /\ said'[i].answer = said'[i].id
        <5>1. CASE i \in 1..Len(said) BY <3>5, <5>1 DEF SaidInOrder
        <5>2. CASE i = Len(said) + 1
          <6>1. said'[i] = s BY <3>5, <5>2
          <6>2. s.text = i /\ s.answer = s.id BY <3>2, <3>4, <5>2
          <6> QED BY <6>1, <6>2
        <5> QED BY <3>5, <4>1, <5>1, <5>2
      <4> QED BY <4>1 DEF SaidInOrder
    <3>7. seg'.answer = seg'.id BY <3>3, <3>4
    <3>8. seg'.next = Len(said') + 1 BY <3>3, <3>4, <3>5
    <3>9. work' \in {"done", "voice"} /\ (work' = "done" => seg.next = seg.chunks) BY <3>3
    <3>10. work' = "done" => Len(said') = seg'.chunks BY <3>3, <3>4, <3>5, <3>9
    <3>11. Spelt' BY <3>7, <3>8, <3>9 DEF Spelt
    <3> QED BY <3>6, <3>10, <3>11 DEF AllSaid
  <2> QED BY <2>1, <2>2
<1>10. CASE Complete BY <1>3, <1>10, CompleteFields
<1>11. CASE ScribeTakes
  <2>1. CASE UNCHANGED v2Seg BY <1>2, <2>1 DEF v2Seg
  <2>2. CASE ~UNCHANGED v2Seg
    <3>1. Begin(Head(line)) /\ line # <<>> BY <1>11, <2>2 DEF ScribeTakes
    <3>2. Head(line) \in Nat BY <3>1 DEF V2Typed
    <3> QED BY <1>5, <3>1, <3>2
  <2> QED BY <2>1, <2>2
<1>12. CASE OwnSegment
  <2>1. commits + 1 \in Nat /\ Begin(commits + 1) BY <1>12 DEF OwnSegment, V2Typed
  <2> QED BY <1>5, <2>1
<1>13. CASE QueuePut \/ JoinMeeting \/ MeetingFinished \/ PutMark \/ LoadWorker \/ StopScribe
  BY <1>2, <1>13, QuietSteps
<1> QED BY <1>6, <1>7, <1>8, <1>9, <1>10, <1>11, <1>12, <1>13, PlainSteps

\* A segment enters the transcript next after the one before it, with its own answer.
LEMMA ScriptKeeps ==
  ASSUME V2Typed, V2Course, Wire, V2Placed, Spelt, Scripted, [V2Next]_v2Vars PROVE Scripted'
<1>1. ASSUME transcript' = transcript PROVE Scripted' BY <1>1 DEF Scripted
<1>2. CASE Complete
  <2>1. CASE ~SegFails /\ preset = "meeting"
    <3>1. work = "done" /\ transcript' = Append(transcript, seg) BY <1>2, <2>1, CompleteFields
    <3>2. seg.n = Len(transcript) + 1 /\ seg.answer = seg.id
      BY <2>1, <3>1 DEF V2Course, V2Placed, Living, Spelt
    <3>3. /\ Len(transcript) \in Nat /\ DOMAIN transcript = 1..Len(transcript)
          /\ DOMAIN transcript' = 1..(Len(transcript) + 1)
          /\ \A i \in 1..Len(transcript) : transcript'[i] = transcript[i]
          /\ transcript'[Len(transcript) + 1] = seg
      <4>1. transcript \in Seq(Segs) /\ seg \in Segs BY DEF V2Typed
      <4> QED BY <3>1, <4>1
    <3>4. ASSUME NEW i \in DOMAIN transcript'
          PROVE  transcript'[i].n = i /\ transcript'[i].answer = transcript'[i].id
      <4>1. CASE i \in 1..Len(transcript) BY <3>3, <4>1 DEF Scripted
      <4>2. CASE i = Len(transcript) + 1
        <5>1. transcript'[i] = seg BY <3>3, <4>2
        <5>2. seg.n = i /\ seg.answer = seg.id BY <3>2, <4>2
        <5> QED BY <5>1, <5>2
      <4> QED BY <3>3, <3>4, <4>1, <4>2
    <3> QED BY <3>4 DEF Scripted
  <2>2. CASE SegFails BY <1>1, <2>2 DEF SegFails
  <2>3. CASE preset # "meeting" /\ ~SegFails BY <1>1, <1>2, <2>3, CompleteFields
  <2> QED BY <2>1, <2>2, <2>3
<1>3. CASE ScribeTakes \/ OwnSegment
  BY <1>1, <1>3 DEF ScribeTakes, OwnSegment, Begin, v2Seg
<1> QED
  BY <1>1, <1>2, <1>3, PlainSteps, HeardFields, AnsweredFields, SaidFields, QuietSteps DEF Plain

\* The minutes of a meeting whose processor lives cover all that was committed.
LEMMA MinutesKeep ==
  ASSUME V2Typed, V2Course, Wire, V2Placed, AllMinuted, [V2Next]_v2Vars PROVE AllMinuted'
<1>1. scribe = "died" => scribe' = "died"
  BY EndsStayEnds DEF EndsStay, Living, V2Course
<1>2. ASSUME minuted' = minuted PROVE AllMinuted' BY <1>1, <1>2 DEF AllMinuted
<1>3. CASE MeetingFinished
  <2>1. /\ v2 = "finished" /\ scribe' = scribe
        /\ \/ minuted' = minuted
           \/ minuted' = minuted \cup {<<Len(transcript), commits>>}
    BY <1>3 DEF MeetingFinished, v2Line
  <2>2. scribe \in Living \/ scribe = "died"
    BY <2>1 DEF V2Course, Serving
  <2>3. CASE scribe = "died" BY <2>1, <2>3 DEF AllMinuted
  <2>4. CASE scribe \in Living
    <3>1. line = <<>> /\ scribe = "get" /\ v2 \notin Marked
      BY <2>1, <2>4 DEF V2Placed, Marked, Closing, Final
    <3>2. Held = 0 /\ Len(line) = 0 /\ Len(transcript) \in Nat BY <3>1 DEF Held, V2Typed
    <3>3. commits = (Len(transcript) + Held) + Len(line) BY <2>4, <3>1 DEF V2Placed
    <3>4. commits = Len(transcript) BY <3>2, <3>3
    <3> QED BY <1>2, <2>1, <3>1, <3>4 DEF AllMinuted
  <2> QED BY <2>2, <2>3, <2>4
<1>4. CASE ScribeTakes \/ OwnSegment
  BY <1>2, <1>4 DEF ScribeTakes, OwnSegment, Begin, v2Seg
<1> QED
  BY <1>2, <1>3, <1>4, PlainSteps, HeardFields, AnsweredFields, SaidFields, CompleteFields,
     QuietSteps
  DEF Plain

\* The invariant is inductive.
LEMMA V2NextInv == ASSUME V2Inv, [V2Next]_v2Vars PROVE V2Inv'
<1>1. V2Typed /\ V2Course /\ Reader /\ Wire /\ V2Placed /\ Spelt /\ V2Whole BY DEF V2Inv
<1>2. SaidInOrder /\ Scripted /\ AllSaid /\ AllMinuted BY <1>1, WholeParts
<1>3. V2Course' BY <1>1, CourseKeeps
<1>4. Reader' BY <1>1, ReaderKeeps
<1>5. PoolTypes' /\ Wire' BY <1>1, WireKeeps
<1>6. DataTypes' BY <1>1, DataKeeps
<1>7. preset' = preset BY <1>1, EndsStayEnds DEF EndsStay
<1>8. V2Typed' BY <1>1, <1>5, <1>6, <1>7 DEF V2Typed, PoolTypes, DataTypes
<1>9. V2Placed' BY <1>1, PlacedKeeps
<1>10. Spelt' /\ SaidInOrder' /\ AllSaid' BY <1>1, <1>2, SaidKeeps
<1>11. Scripted' BY <1>1, <1>2, ScriptKeeps
<1>12. AllMinuted' BY <1>1, <1>2, MinutesKeep
<1>13. V2Whole' BY <1>10, <1>11, <1>12 DEF V2Whole, SaidInOrder, Scripted, AllSaid, AllMinuted
<1> QED BY <1>3, <1>4, <1>5, <1>8, <1>9, <1>10, <1>13 DEF V2Inv

\* For every bound and for every queue: of a sonic-live/2 socket every answer is the one
\* that was asked for, its audio comes in the order of its text and all of it before the
\* turn is complete, and a meeting's transcript holds the segments in the order they were
\* committed; minutes written while the processor lived cover them all (live_v2.live_v2:
\* process_segment, meeting_processor, _release; PersistentWorker.execute).
THEOREM V2WholeHolds == V2Spec => []V2Whole
<1>1. V2Init => V2Inv BY V2InitInv
<1>2. V2Inv /\ [V2Next]_v2Vars => V2Inv' BY V2NextInv
<1>3. V2Inv => V2Whole BY DEF V2Inv
<1> QED BY <1>1, <1>2, <1>3, PTL DEF V2Spec

=============================================================================
