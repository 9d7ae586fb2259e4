------------------------------ MODULE EdgeFrames ------------------------------
(***************************************************************************)
(* Framed audio (edge_protocol): a sender numbers its frames modulo Width,  *)
(* starting anywhere; frames are lost, repeated or late; the receiver's     *)
(* SequenceTracker tells a gap from a frame that is old, and its callers    *)
(* drop what is old and report gaps. The tracker sees numbers modulo Width  *)
(* only; the model also counts frames without a modulus, to say what the    *)
(* tracker should have seen.                                               *)
(*                                                                         *)
(* One stream of one recording: each recording has a tracker of its own.    *)
(* Payload, sample clock and flags are left out, and so are frames that     *)
(* decode refuses: they end the socket.                                    *)
(***************************************************************************)
EXTENDS Naturals, Sequences

CONSTANTS
  Half,      \* half the width of the numbers: 2^31
  MaxFrames  \* bound: frames sent

ASSUME EdgeAssumption == Half \in Nat \ {0} /\ MaxFrames \in Nat

Width == 2 * Half
None  == Width

VARIABLES
  first,    \* where the numbering started
  sent,     \* frames sent
  flight,   \* frames that may still arrive
  next,     \* _next of the stream
  seen,     \* frames the tracker let through, in the order it did
  missing   \* the gaps it reported, summed

edgeVars == <<first, sent, flight, next, seen, missing>>

EdgeInit ==
  /\ first \in 0..(Width - 1)
  /\ sent = 0 /\ flight = {}
  /\ next = None /\ seen = <<>> /\ missing = 0

(* The number of frame i, and the newest frame the tracker knows of.        *)
Number(i) == (first + i) % Width
Newest == IF seen = <<>> THEN 0 ELSE seen[Len(seen)]

SendFrame ==
  /\ sent < MaxFrames
  /\ sent' = sent + 1 /\ flight' = flight \cup {sent + 1}
  /\ UNCHANGED <<first, next, seen, missing>>

Lose ==
  /\ \E i \in flight : flight' = flight \ {i}
  /\ UNCHANGED <<first, sent, next, seen, missing>>

(* SequenceTracker.observe.                                                 *)
Delta(number) == (number + (Width - next)) % Width
IsOldBeyond(number) == next # None /\ Delta(number) > Half

IsOld(number) == next # None /\ Delta(number) >= Half

Gap(number) == IF next = None THEN 0 ELSE Delta(number)

Observe(i) ==
  IF IsOld(Number(i))
  THEN UNCHANGED <<next, seen, missing>>
  ELSE /\ next' = (Number(i) + 1) % Width
       /\ seen' = Append(seen, i)
       /\ missing' = missing + Gap(Number(i))

(* Numbers tell frames apart within half the width only: one that is        *)
(* further ahead or behind is taken for lost.                              *)
InReach(i) == seen # <<>> => i <= Newest + Half /\ Newest < i + Half

Arrive ==
  \E i \in flight :
    /\ InReach(i)
    /\ Observe(i)
    /\ flight' \in {flight, flight \ {i}}
    /\ UNCHANGED <<first, sent>>

EdgeNext == SendFrame \/ Lose \/ Arrive

EdgeSpec == EdgeInit /\ [][EdgeNext]_edgeVars

-----------------------------------------------------------------------------
(* What is let through is in the order it was sent and nothing twice, and   *)
(* what is reported missing is exactly what was skipped between, across the *)
(* wrap of the numbers and wherever they started.                           *)
GapsAccounted ==
  /\ \A i \in 1..(Len(seen) - 1) : seen[i] < seen[i + 1]
  /\ seen # <<>> => Len(seen) + missing = (Newest - seen[1]) + 1

=============================================================================
