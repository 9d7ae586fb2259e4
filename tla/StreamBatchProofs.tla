-------------------------- MODULE StreamBatchProofs --------------------------
(***************************************************************************)
(* Proofs about two components that stand by themselves.                    *)
(*                                                                         *)
(* The tracker of framed audio, for every width of the numbers. The heart  *)
(* of it is arithmetic: within half the width, the difference of two       *)
(* numbers modulo the width says how far two frames are apart and which    *)
(* came first (AheadIsGap, BehindIsOld). TrackInv then ties `next` to the   *)
(* newest frame that was let through.                                      *)
(*                                                                         *)
(* What the rows of a localization batch say is true, for every set of     *)
(* lines, locales and settings and any number of jobs. LocInv adds what is *)
(* known in the middle of a job: the batch says so, and of a job in mode    *)
(* pending what is not left to do has succeeded while nothing failed.       *)
(***************************************************************************)
EXTENDS EdgeFrames, Localization, Integers, TLAPS

-----------------------------------------------------------------------------
(* Framed audio.                                                            *)

USE EdgeAssumption DEF Width, None

\* A number has one quotient and one remainder.
LEMMA Division ==
  ASSUME NEW a \in Nat, NEW w \in Nat \ {0}
  PROVE  (a % w) \in 0..(w - 1) /\ (a \div w) \in Nat /\ a = (w * (a \div w)) + (a % w)
  BY SMT

\* Two ways to divide the same number have the same remainder.
LEMMA OneRemainder ==
  ASSUME NEW w \in Nat \ {0}, NEW q \in Int, NEW p \in Int,
         NEW r \in 0..(w - 1), NEW s \in 0..(w - 1), w * q + r = w * p + s
  PROVE  r = s
<1>1. CASE q < p
  <2>1. w * (p - q) >= w BY <1>1, SMT
  <2>2. r - s = w * (p - q) BY SMT
  <2> QED BY <2>1, <2>2
<1>2. CASE q > p
  <2>1. w * (q - p) >= w BY <1>2, SMT
  <2>2. s - r = w * (q - p) BY SMT
  <2> QED BY <2>1, <2>2
<1>3. CASE q = p BY <1>3, SMT
<1> QED BY <1>1, <1>2, <1>3

\* Going on by less than the width wraps at most once.
LEMMA WrapsOnce ==
  ASSUME NEW w \in Nat \ {0}, NEW a \in Nat, NEW b \in Nat, NEW d \in 0..(w - 1), b = a + d
  PROVE  (b % w) \in {(a % w) + d, (a % w) + d - w}
<1> DEFINE q == a \div w
           p == b \div w
           r == a % w
           s == b % w
<1>1. /\ a = w * q + r /\ r \in 0..(w - 1) /\ q \in Nat
      /\ b = w * p + s /\ s \in 0..(w - 1) /\ p \in Nat
  BY Division
<1> HIDE DEF q, p, r, s
<1>2. CASE r + d < w
  <2> DEFINE t == r + d
  <2>1. w * q + t = w * p + s /\ t \in 0..(w - 1) /\ q \in Int /\ p \in Int BY <1>1, <1>2
  <2> HIDE DEF t
  <2>2. t = s BY <2>1, <1>1, OneRemainder
  <2> QED BY <2>2 DEF r, s, t
<1>3. CASE r + d >= w
  <2> DEFINE t == r + d - w
             u == q + 1
  <2>1. w * (q + 1) = w * q + w BY <1>1
  <2>2. w * u + t = w * p + s /\ t \in 0..(w - 1) /\ u \in Int /\ p \in Int BY <1>1, <1>3, <2>1
  <2> HIDE DEF t, u
  <2>3. t = s BY <2>2, <1>1, OneRemainder
  <2> QED BY <2>3 DEF r, s, t
<1> QED BY <1>1, <1>2, <1>3

\* A number below the width is its own remainder, and one below twice the width less it.
LEMMA SmallRemainder ==
  ASSUME NEW w \in Nat \ {0}, NEW x \in 0..(2 * w - 1)
  PROVE  (x % w) = IF x < w THEN x ELSE x - w
<1>1. (0 % w) = 0 BY SMT
<1>2. CASE x < w
  <2>1. (x % w) \in {(0 % w) + x, (0 % w) + x - w} BY <1>2, WrapsOnce
  <2>2. (x % w) \in 0..(w - 1) BY Division
  <2> QED BY <1>1, <1>2, <2>1, <2>2
<1>3. CASE x >= w
  <2> DEFINE y == x - w
  <2>1. y \in 0..(w - 1) /\ w \in Nat BY <1>3
  <2>2. (w % w) = 0 BY SMT
  <2>3. (x % w) \in {(w % w) + y, (w % w) + y - w}
    <3>1. x = w + y BY <2>1
    <3> HIDE DEF y
    <3> QED BY <2>1, <3>1, WrapsOnce
  <2>4. (x % w) \in 0..(w - 1) BY Division
  <2> QED BY <1>3, <2>2, <2>3, <2>4
<1> QED BY <1>2, <1>3

-----------------------------------------------------------------------------

\* A frame up to half the width ahead of the one expected: the difference of the
\* numbers is what was skipped.
LEMMA AheadIsGap ==
  ASSUME first \in Nat, NEW e \in Nat, NEW i \in Nat, e <= i, i < e + Half, next = Number(e)
  PROVE  Delta(Number(i)) = i - e /\ ~IsOld(Number(i)) /\ Gap(Number(i)) = i - e
<1> DEFINE a == first + e
           b == first + i
           d == i - e
<1>1. a \in Nat /\ b \in Nat /\ d \in 0..(Width - 1) /\ b = a + d /\ Width \in Nat \ {0} BY SMT
<1>2. (a % Width) \in 0..(Width - 1) /\ (b % Width) \in 0..(Width - 1)
  BY <1>1, Division DEF a, b
<1>3. (b % Width) \in {(a % Width) + d, (a % Width) + d - Width}
  <2> HIDE DEF a, b, d
  <2> QED BY <1>1, WrapsOnce
<1>4. Delta(Number(i)) = d
  <2> DEFINE x == (b % Width) + (Width - (a % Width))
  <2>1. x \in {d, d + Width} /\ x \in 0..(2 * Width - 1) BY <1>1, <1>2, <1>3
  <2>2. (x % Width) = IF x < Width THEN x ELSE x - Width
    <3> HIDE DEF x
    <3> QED BY <1>1, <2>1, SmallRemainder
  <2>3. Delta(Number(i)) = (x % Width) BY DEF Delta, Number
  <2> QED BY <1>1, <2>1, <2>2, <2>3
<1>5. next # None BY <1>2 DEF Number
<1> QED BY <1>4, <1>5 DEF IsOld, Gap

\* A frame up to half the width behind the one expected is old.
LEMMA BehindIsOld ==
  ASSUME first \in Nat, NEW e \in Nat, NEW i \in Nat, i < e, e <= i + Half, next = Number(e)
  PROVE  IsOld(Number(i))
<1> DEFINE a == first + i
           b == first + e
           d == e - i
<1>1. a \in Nat /\ b \in Nat /\ d \in 1..Half /\ d \in 0..(Width - 1) /\ b = a + d
      /\ Width \in Nat \ {0}
  BY SMT
<1>2. (a % Width) \in 0..(Width - 1) /\ (b % Width) \in 0..(Width - 1)
  BY <1>1, Division DEF a, b
<1>3. (b % Width) \in {(a % Width) + d, (a % Width) + d - Width}
  <2> HIDE DEF a, b, d
  <2> QED BY <1>1, WrapsOnce
<1>4. Delta(Number(i)) = Width - d
  <2> DEFINE x == (a % Width) + (Width - (b % Width))
  <2>1. x \in {Width - d, 2 * Width - d} /\ x \in 0..(2 * Width - 1) BY <1>1, <1>2, <1>3
  <2>2. (x % Width) = IF x < Width THEN x ELSE x - Width
    <3> HIDE DEF x
    <3> QED BY <1>1, <2>1, SmallRemainder
  <2>3. Delta(Number(i)) = (x % Width) BY DEF Delta, Number
  <2> QED BY <1>1, <2>1, <2>2, <2>3
<1>5. next # None BY <1>2 DEF Number
<1> QED BY <1>1, <1>4, <1>5 DEF IsOld

\* The number after that of frame i is that of the next frame.
LEMMA NumberSucceeds ==
  ASSUME first \in Nat, NEW i \in Nat
  PROVE  (Number(i) + 1) % Width = Number(i + 1)
<1> DEFINE a == first + i
           b == first + (i + 1)
<1>1. a \in Nat /\ b \in Nat /\ b = a + 1 /\ Width \in Nat \ {0} /\ 1 \in 0..(Width - 1) BY SMT
<1>2. (a % Width) \in 0..(Width - 1) /\ (b % Width) \in 0..(Width - 1)
  BY <1>1, Division DEF a, b
<1>3. (b % Width) \in {(a % Width) + 1, (a % Width) + 1 - Width}
  <2> HIDE DEF a, b
  <2> QED BY <1>1, WrapsOnce
<1> DEFINE x == (a % Width) + 1
<1>4. x \in 0..(2 * Width - 1) BY <1>2
<1>5. (x % Width) = IF x < Width THEN x ELSE x - Width
  <2> HIDE DEF x
  <2> QED BY <1>1, <1>4, SmallRemainder
<1> QED BY <1>1, <1>2, <1>3, <1>5 DEF Number

-----------------------------------------------------------------------------

\* The types, and what `next` stands for.
Tracked ==
  /\ first \in 0..(Width - 1) /\ sent \in Nat /\ flight \in SUBSET (Nat \ {0})
  /\ next \in 0..None /\ seen \in Seq(Nat \ {0}) /\ missing \in Nat
  /\ seen = <<>> => next = None /\ missing = 0
  /\ seen # <<>> => next = Number(Newest + 1)

TrackInv == Tracked /\ GapsAccounted

\* The invariant holds of a stream that has not begun.
LEMMA EdgeInitInv == EdgeInit => TrackInv
  BY DEF EdgeInit, TrackInv, Tracked, GapsAccounted

\* A frame that is let through.
LEMMA Lets ==
  ASSUME TrackInv, NEW i \in Nat \ {0}, InReach(i), ~IsOld(Number(i)), Observe(i),
         UNCHANGED <<first, sent>>, flight' \in SUBSET (Nat \ {0})
  PROVE  TrackInv'
<1>1. /\ next' = (Number(i) + 1) % Width /\ seen' = Append(seen, i)
      /\ missing' = missing + Gap(Number(i))
  BY DEF Observe
<1>2. /\ seen' \in Seq(Nat \ {0}) /\ seen' # <<>> /\ Newest' = i /\ Len(seen') = Len(seen) + 1
      /\ \A n \in 1..Len(seen) : seen'[n] = seen[n]
  BY <1>1 DEF TrackInv, Tracked, Newest
<1>3. next' = Number(i + 1) /\ next' = Number(i + 1)'
  BY <1>1, NumberSucceeds DEF TrackInv, Tracked, Number
<1>4. next' \in 0..(Width - 1)
  <2>1. first + (i + 1) \in Nat /\ Width \in Nat \ {0} BY DEF TrackInv, Tracked
  <2>2. ((first + (i + 1)) % Width) \in 0..(Width - 1)
    <3> HIDE DEF Width
    <3> QED BY <2>1, Division
  <2> QED BY <1>3, <2>2 DEF Number
<1>5. CASE seen = <<>>
  <2>1. missing' = 0 BY <1>1, <1>5 DEF TrackInv, Tracked, Gap
  <2>2. seen' = <<i>> /\ Len(seen') = 1 /\ seen'[1] = i BY <1>1, <1>5
  <2> QED BY <1>2, <1>3, <1>4, <2>1, <2>2 DEF TrackInv, Tracked, GapsAccounted
<1>6. CASE seen # <<>>
  <2>1. /\ Newest \in Nat \ {0} /\ next = Number(Newest + 1) /\ first \in Nat
        /\ Newest = seen[Len(seen)] /\ Len(seen) \in Nat \ {0} /\ seen[1] \in Nat /\ missing \in Nat
    BY <1>6 DEF TrackInv, Tracked, Newest
  <2>2. Newest < i
    <3>1. SUFFICES ASSUME i <= Newest PROVE FALSE BY <2>1
    <3>2. i < Newest + 1 /\ Newest + 1 <= i + Half /\ Newest + 1 \in Nat
      BY <1>6, <2>1, <3>1 DEF InReach
    <3> QED BY <2>1, <3>2, BehindIsOld
  <2>3. Gap(Number(i)) = i - (Newest + 1)
    <3>1. Newest + 1 <= i /\ i < (Newest + 1) + Half /\ Newest + 1 \in Nat
      BY <1>6, <2>1, <2>2 DEF InReach
    <3> QED BY <2>1, <3>1, AheadIsGap
  <2>4. missing' \in Nat /\ missing' = missing + (i - (Newest + 1))
    BY <1>1, <2>1, <2>2, <2>3
  <2>5. \A n \in 1..(Len(seen') - 1) : seen'[n] < seen'[n + 1]
    <3>1. SUFFICES ASSUME NEW n \in 1..Len(seen) PROVE seen'[n] < seen'[n + 1] BY <1>2, <2>1
    <3>2. CASE n = Len(seen) BY <1>1, <1>2, <2>1, <2>2, <3>2 DEF TrackInv, Tracked
    <3>3. CASE n < Len(seen)
      <4>1. n \in 1..(Len(seen) - 1) /\ n + 1 \in 1..Len(seen) BY <2>1, <3>3
      <4> QED BY <1>2, <4>1 DEF TrackInv, GapsAccounted
    <3> QED BY <2>1, <3>2, <3>3
  <2>6. Len(seen') + missing' = (Newest' - seen'[1]) + 1
    <3>1. Len(seen) + missing = (Newest - seen[1]) + 1 BY <1>6 DEF TrackInv, GapsAccounted
    <3>2. seen'[1] = seen[1] BY <1>2, <2>1
    <3>3. (Newest' - seen'[1]) + 1 = (i - seen[1]) + 1 BY <1>2, <3>2
    <3>4. Len(seen') + missing' = (Len(seen) + 1) + (missing + (i - (Newest + 1)))
      BY <1>2, <2>4
    <3>5. (Len(seen) + 1) + (missing + (i - (Newest + 1))) = (i - seen[1]) + 1
      <4>1. \A l, m, n, k, j \in Int : l + m = (n - k) + 1 => (l + 1) + (m + (j - (n + 1))) = (j - k) + 1
        BY SMT
      <4>2. /\ Len(seen) \in Int /\ missing \in Int /\ Newest \in Int /\ seen[1] \in Int
            /\ i \in Int
        BY <2>1
      <4> QED BY <3>1, <4>1, <4>2
    <3> QED BY <3>3, <3>4, <3>5
  <2>7. Tracked'
    <3>1. next' = Number(Newest + 1)' BY <1>2, <1>3 DEF Number
    <3> QED BY <1>2, <1>4, <2>4, <3>1 DEF TrackInv, Tracked
  <2>8. GapsAccounted' BY <2>5, <2>6 DEF GapsAccounted
  <2> QED BY <2>7, <2>8 DEF TrackInv
<1> QED BY <1>5, <1>6

\* Every step keeps it.
LEMMA EdgeStep == TrackInv /\ [EdgeNext]_edgeVars => TrackInv'
<1> SUFFICES ASSUME TrackInv, [EdgeNext]_edgeVars PROVE TrackInv' OBVIOUS
<1>1. ASSUME UNCHANGED <<first, next, seen, missing>>, sent' \in Nat, flight' \in SUBSET (Nat \ {0})
      PROVE  TrackInv'
  BY <1>1 DEF TrackInv, Tracked, GapsAccounted, Newest, Number
<1>2. CASE SendFrame BY <1>1, <1>2 DEF SendFrame, TrackInv, Tracked
<1>3. CASE Lose BY <1>1, <1>3 DEF Lose, TrackInv, Tracked
<1>4. CASE Arrive
  <2>1. PICK i \in flight : InReach(i) /\ Observe(i) /\ flight' \in {flight, flight \ {i}}
                            /\ UNCHANGED <<first, sent>>
    BY <1>4 DEF Arrive
  <2>2. i \in Nat \ {0} /\ flight' \in SUBSET (Nat \ {0}) BY <2>1 DEF TrackInv, Tracked
  <2>3. CASE IsOld(Number(i)) BY <1>1, <2>1, <2>2, <2>3 DEF Observe, TrackInv, Tracked
  <2>4. CASE ~IsOld(Number(i)) BY <2>1, <2>2, <2>4, Lets
  <2> QED BY <2>3, <2>4
<1>5. CASE UNCHANGED edgeVars BY <1>1, <1>5 DEF edgeVars, TrackInv, Tracked
<1> QED BY <1>2, <1>3, <1>4, <1>5 DEF EdgeNext

\* What the tracker lets through is in order, and the gaps it reports are the
\* frames that were skipped, for every width, start and loss.
THEOREM GapsAccountedHolds == EdgeSpec => []GapsAccounted
<1>1. TrackInv => GapsAccounted BY DEF TrackInv
<1> QED BY EdgeInitInv, EdgeStep, <1>1, PTL DEF EdgeSpec

-----------------------------------------------------------------------------
(* Localization batches.                                                    *)

HIDE EdgeAssumption DEF Width, None

LocTypeOK ==
  /\ entries \in [Items -> [state : {"none", "succeeded", "failed"}, input : Nat, output : Nat]]
  /\ render \in [phase : {"idle", "rendering"}, mode : Modes, settings : Nat,
                 picks : SUBSET Items, todo : SUBSET Items]
  /\ tally \in [generated : Nat, failed : Nat]

\* While a job is under way its batch says so, and its settings are those of a request.
MidJob ==
  render.phase = "rendering" => batch = "rendering" /\ render.settings \in Settings

\* What a job in mode pending passed over or has done, unless something failed.
PendingDone ==
  render.phase = "rendering" /\ render.mode = "pending" /\ tally.failed = 0 =>
    \A i \in render.picks \ render.todo : entries[i].state = "succeeded"

LocInv == LocTypeOK /\ MidJob /\ PendingDone /\ BatchTellsTruth

\* The invariant holds of a batch nothing was rendered of.
LEMMA LocInitInv == LocInit => LocInv
  BY DEF LocInit, LocInv, LocTypeOK, MidJob, PendingDone, BatchTellsTruth, NoEntry, NoRender, Modes

\* A job begins: it leaves out only what mode pending may leave out.
LEMMA SnapshotKeeps == ASSUME LocInv, Snapshot PROVE LocInv'
<1>1. PICK mode \in Modes, settings \in Settings, lines \in SUBSET Lines,
           locales \in SUBSET Locales \ {{}} :
        render' = [phase |-> "rendering", mode |-> mode, settings |-> settings,
                   picks |-> Texts \cap (lines \X locales),
                   todo |-> {i \in Texts \cap (lines \X locales) :
                               Wanted(entries[i], mode, settings)}]
  BY DEF Snapshot
<1>2. /\ batch' = "rendering" /\ tally' = [generated |-> 0, failed |-> 0] /\ entries' = entries
      /\ Texts \cap (lines \X locales) \subseteq Items /\ settings \in Nat
  BY LocalizationAssumption DEF Snapshot, Items
<1>3. LocTypeOK' BY <1>1, <1>2 DEF LocInv, LocTypeOK
<1>4. MidJob' BY <1>1, <1>2 DEF MidJob
<1>5. PendingDone' BY <1>1, <1>2 DEF PendingDone, Wanted
<1>6. BatchTellsTruth' BY <1>2 DEF LocInv, BatchTellsTruth
<1> QED BY <1>3, <1>4, <1>5, <1>6 DEF LocInv

\* An item was rendered or failed.
LEMMA ItemKeeps == ASSUME LocInv, ItemRendered \/ ItemFailed PROVE LocInv'
<1>1. PICK i, entry :
        /\ i \in render.todo
        /\ ItemDone(i, entry)
        /\ entry.input = render.settings
        /\ \/ /\ entry = [state |-> "succeeded", input |-> render.settings, output |-> render.settings]
              /\ tally' = [tally EXCEPT !.generated = @ + 1]
           \/ /\ entry = [state |-> "failed", input |-> render.settings, output |-> entries[i].output]
              /\ tally' = [tally EXCEPT !.failed = @ + 1]
  BY DEF ItemRendered, ItemFailed
<1>2. /\ i \in Items /\ render.phase = "rendering" /\ batch = "rendering" /\ batch' = batch
      /\ render.settings \in Settings /\ render.settings \in Nat /\ render.settings # 0
      /\ entries' = [entries EXCEPT ![i] = entry] /\ render' = [render EXCEPT !.todo = @ \ {i}]
  BY <1>1, LocalizationAssumption DEF LocInv, LocTypeOK, MidJob, ItemDone
<1>3. entry \in [state : {"none", "succeeded", "failed"}, input : Nat, output : Nat]
  BY <1>1, <1>2 DEF LocInv, LocTypeOK
<1>4. LocTypeOK' BY <1>1, <1>2, <1>3 DEF LocInv, LocTypeOK
<1>5. MidJob' BY <1>2 DEF LocInv, LocTypeOK, MidJob
<1>6. PendingDone'
  <2>1. CASE entry.state = "succeeded"
    BY <1>1, <1>2, <2>1 DEF LocInv, LocTypeOK, PendingDone
  <2>2. CASE entry.state = "failed"
    <3>1. tally'.failed # 0 BY <1>1, <2>2 DEF LocInv, LocTypeOK
    <3> QED BY <3>1 DEF PendingDone
  <2> QED BY <1>1, <2>1, <2>2
<1>7. BatchTellsTruth'
  <2>1. ASSUME NEW k \in Items, entries'[k].state = "succeeded"
        PROVE  entries'[k].output = entries'[k].input /\ entries'[k].output # 0
    BY <1>1, <1>2, <2>1 DEF LocInv, LocTypeOK, BatchTellsTruth
  <2> QED BY <1>2, <2>1 DEF BatchTellsTruth
<1> QED BY <1>4, <1>5, <1>6, <1>7 DEF LocInv

\* The last item is done: the batch is judged by all its lines.
LEMMA EndKeeps == ASSUME LocInv, BatchEnds PROVE LocInv'
<1>1. /\ render.phase = "rendering" /\ render.todo = {} /\ render' = [render EXCEPT !.phase = "idle"]
      /\ batch' = IF \E line \in Lines : LineFailed(line) THEN "partial" ELSE "complete"
      /\ entries' = entries /\ tally' = tally
  BY DEF BatchEnds
<1>2. \A line : LineFailed(line)' <=> LineFailed(line) BY <1>1 DEF LineFailed
<1>3. LocTypeOK' /\ MidJob' /\ PendingDone'
  BY <1>1 DEF LocInv, LocTypeOK, MidJob, PendingDone
<1>4. render'.mode = render.mode /\ render'.picks = render.picks BY <1>1 DEF LocInv, LocTypeOK
<1>5. BatchTellsTruth'
  <2>1. render'.mode = "pending" /\ render'.picks = Texts /\ tally'.failed = 0 =>
          \A i \in Texts : entries'[i].state = "succeeded"
    BY <1>1, <1>4 DEF LocInv, PendingDone
  <2> QED BY <1>1, <1>2, <2>1 DEF LocInv, BatchTellsTruth
<1> QED BY <1>3, <1>5 DEF LocInv

\* A job that is cut leaves a batch that says rendering.
LEMMA AbortKeeps == ASSUME LocInv, BatchAborts PROVE LocInv'
<1>1. render.phase = "rendering" /\ render' = NoRender /\ batch = "rendering"
      /\ batch' = batch /\ entries' = entries /\ tally' = tally
  BY DEF BatchAborts, LocInv, MidJob
<1>2. LocTypeOK' BY <1>1 DEF LocInv, LocTypeOK, NoRender, Modes
<1>3. MidJob' /\ PendingDone' BY <1>1 DEF MidJob, PendingDone, NoRender
<1>4. BatchTellsTruth' BY <1>1 DEF LocInv, BatchTellsTruth
<1> QED BY <1>2, <1>3, <1>4 DEF LocInv

\* What the rows of a batch say is true after any sequence of jobs that ended,
\* failed or were cut, for every set of lines, locales and settings.
THEOREM BatchTellsTruthHolds == LocSpec => []BatchTellsTruth
<1>1. LocInv /\ [LocNext]_locVars => LocInv'
  <2> SUFFICES ASSUME LocInv, [LocNext]_locVars PROVE LocInv' OBVIOUS
  <2>1. CASE UNCHANGED locVars
    BY <2>1 DEF locVars, LocInv, LocTypeOK, MidJob, PendingDone, BatchTellsTruth, LineFailed
  <2> QED BY <2>1, SnapshotKeeps, ItemKeeps, EndKeeps, AbortKeeps DEF LocNext
<1>2. LocInv => BatchTellsTruth BY DEF LocInv
<1> QED BY LocInitInv, <1>1, <1>2, PTL DEF LocSpec

=============================================================================
