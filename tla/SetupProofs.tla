----------------------------- MODULE SetupProofs ------------------------------
(***************************************************************************)
(* What is reported of the runtimes is true, for any components, any setups *)
(* side by side and any ends of the process. The invariant adds what each   *)
(* setup relies on where it awaits: a component without a runtime in place  *)
(* is not called available while a setup is about to replace it (else its   *)
(* swap would discard the backup that makes the report true), what a setup  *)
(* has passed over is in place, and a staging directory is its setup's.     *)
(***************************************************************************)
EXTENDS Setup, TLAPS

USE SetupAssumption

Rows == [row : {"none", "queued", "running", "succeeded", "failed", "canceled"},
         at : {"none", "new", "control", "report", "build", "swap", "stopping", "success",
               "ending", "over"},
         hosted : BOOLEAN, asked : Seq(Components), todo : Seq(Components),
         listed : BOOLEAN, posted : BOOLEAN, adrift : BOOLEAN]

SetupTyped ==
  /\ setup \in [Setups -> Rows]
  /\ component \in [Components -> {"none", "installing", "available", "missing", "error"}]
  /\ active \in [Components -> Nat] /\ backup \in [Components -> Nat]
  /\ wanted \in Nat \ {0} /\ restarts \in Nat /\ torn \in Nat

\* Only what a setup is installing is built or swapped, and a setup that succeeded has
\* nothing left to do.
Course ==
  \A s \in Setups :
    /\ setup[s].at \in {"build", "swap", "stopping"} => setup[s].todo # <<>>
    /\ setup[s].row = "succeeded" => setup[s].todo = <<>> /\ setup[s].at \in {"success", "over"}

OneSwap == \A s, t \in Setups : At(s, "swap") /\ At(t, "swap") => s = t

Renamed(c) == \E s \in Setups : At(s, "swap") /\ Part(s) = c

Replacing(s, c) ==
  setup[s].at \in {"control", "report", "build", "stopping"} /\ setup[s].todo # <<>> /\ Part(s) = c

\* Without a runtime in place an available component has its backup, which no setup is
\* about to replace.
Backed ==
  \A c \in Components : component[c] = "available" /\ active[c] = 0 =>
    /\ backup[c] # 0
    /\ Renamed(c) \/ \A s \in Setups : ~Replacing(s, c)

\* What a setup was asked for is left to do or in place, or being swapped.
StillToDo(s, c) == \E j \in 1..Len(setup[s].todo) : setup[s].todo[j] = c

PassedInPlace ==
  torn = 0 =>
    \A s \in Setups : \A i \in 1..Len(setup[s].asked) :
      LET c == setup[s].asked[i] IN StillToDo(s, c) \/ active[c] # 0 \/ Renamed(c)

\* A staging directory is that of the component its setup is installing, or of one whose
\* command was left running.
StagedOwned ==
  restarts = 0 => \A d \in staged :
    /\ d[1] \in Setups /\ d = <<d[1], d[2]>>
    /\ \/ setup[d[1]].adrift
       \/ setup[d[1]].at \in {"build", "swap", "stopping"} /\ d[2] = Part(d[1])

SetupInv == SetupTyped /\ Course /\ OneSwap /\ Backed /\ PassedInPlace /\ StagedOwned

\* The invariant is what the property asks for.
LEMMA SetupInvSuffices == SetupInv => SetupTellsTruth
<1> SUFFICES ASSUME SetupInv PROVE SetupTellsTruth OBVIOUS
<1>1. \A c \in Components : component[c] = "available" => active[c] # 0 \/ backup[c] # 0
  BY DEF SetupInv, Backed
<1>2. ASSUME torn = 0, ~Swapping, NEW s \in Setups, setup[s].row = "succeeded",
             NEW i \in DOMAIN setup[s].asked
      PROVE  active[setup[s].asked[i]] # 0
  <2>1. setup[s].todo = <<>> /\ i \in 1..Len(setup[s].asked)
    BY <1>2 DEF SetupInv, Course, SetupTyped, Rows
  <2>2. ~StillToDo(s, setup[s].asked[i]) BY <2>1 DEF StillToDo
  <2>3. ~Renamed(setup[s].asked[i]) BY <1>2 DEF Swapping, Renamed
  <2> QED BY <1>2, <2>1, <2>2, <2>3 DEF SetupInv, PassedInPlace
<1>3. restarts = 0 => \A d \in staged :
        setup[d[1]].at \in {"build", "swap", "stopping"} \/ setup[d[1]].adrift
  BY DEF SetupInv, StagedOwned
<1> QED BY <1>1, <1>2, <1>3 DEF SetupTellsTruth

\* Nothing is set up in the beginning.
LEMMA SetupInitInv == SetupInit => SetupInv
<1> SUFFICES ASSUME SetupInit PROVE SetupInv OBVIOUS
<1>1. SetupTyped BY DEF SetupInit, SetupTyped, NoSetup, Rows
<1>2. \A s \in Setups : setup[s].at = "none" /\ setup[s].row = "none" /\ setup[s].asked = <<>>
  BY DEF SetupInit, NoSetup
<1>3. Course /\ OneSwap BY <1>2 DEF Course, OneSwap, At
<1>4. Backed BY DEF SetupInit, Backed
<1>5. PassedInPlace BY <1>2 DEF PassedInPlace
<1>6. StagedOwned BY DEF SetupInit, StagedOwned
<1> QED BY <1>1, <1>3, <1>4, <1>5, <1>6 DEF SetupInv

-----------------------------------------------------------------------------

\* What is left to do after the first part.
LEMMA TakenFirst ==
  ASSUME NEW q \in Seq(Components), q # <<>>
  PROVE  /\ Head(q) \in Components /\ Tail(q) \in Seq(Components)
         /\ \A j \in 1..Len(q) : q[j] = Head(q) \/ \E k \in 1..Len(Tail(q)) : Tail(q)[k] = q[j]
<1>1. Head(q) \in Components /\ Tail(q) \in Seq(Components) /\ Head(q) = q[1] OBVIOUS
<1>2. ASSUME NEW j \in 1..Len(q), j # 1 PROVE (j - 1) \in 1..Len(Tail(q)) /\ Tail(q)[j - 1] = q[j]
  BY <1>2
<1>3. ASSUME NEW j \in 1..Len(q)
      PROVE  q[j] = Head(q) \/ \E k \in 1..Len(Tail(q)) : Tail(q)[k] = q[j]
  BY <1>1, <1>2
<1> QED BY <1>1, <1>3

\* A step of one setup that does no more than move on: it does not come to a swap and
\* leaves the disk and the components.
Quiet(s, s2) ==
  /\ setup' = [setup EXCEPT ![s] = s2]
  /\ s2.todo = setup[s].todo /\ s2.asked = setup[s].asked /\ s2.adrift = setup[s].adrift
  /\ s2.at # "swap" /\ setup[s].at # "swap"
  /\ s2.at \in {"control", "report"} => setup[s].at \in {"control", "report"}
  /\ s2.at \in {"build", "stopping"} => setup[s].at \in {"build", "stopping"}
  /\ setup[s].at \in {"build", "stopping"} => s2.at \in {"build", "stopping"}
  /\ s2.row = "succeeded" => setup[s].todo = <<>> /\ s2.at \in {"success", "over"}
  /\ UNCHANGED <<component, diskVars, wanted, restarts, torn>>

\* Such a step keeps the invariant: it adds nothing to replace and nothing to swap.
LEMMA QuietKeeps ==
  ASSUME SetupInv, NEW s \in Setups, NEW s2 \in Rows, Quiet(s, s2)
  PROVE  SetupInv'
<1>1. /\ setup'[s] = s2 /\ \A t \in Setups \ {s} : setup'[t] = setup[t]
      /\ setup' \in [Setups -> Rows]
      /\ \A t \in Setups : setup'[t].todo = setup[t].todo /\ setup'[t].asked = setup[t].asked
      /\ \A t \in Setups : At(t, "swap")' <=> At(t, "swap")
  BY DEF SetupInv, SetupTyped, Quiet, At
<1>2. SetupTyped' BY <1>1 DEF SetupInv, SetupTyped, Quiet, diskVars
<1>3. Course' BY <1>1 DEF SetupInv, Course, Quiet
<1>4. OneSwap' BY <1>1 DEF SetupInv, OneSwap
<1>5. \A c : Renamed(c)' <=> Renamed(c) BY <1>1 DEF Renamed, Part
<1>6. \A c, t : t \in Setups /\ Replacing(t, c)' => Replacing(t, c)
  BY <1>1 DEF Quiet, Replacing, Part
<1>7. Backed' BY <1>5, <1>6 DEF SetupInv, Backed, Quiet, diskVars
<1>8. \A t \in Setups : \A c : StillToDo(t, c)' <=> StillToDo(t, c) BY <1>1 DEF StillToDo
<1>9. PassedInPlace' BY <1>1, <1>5, <1>8 DEF SetupInv, PassedInPlace, Quiet, diskVars
<1>10. StagedOwned'
  BY <1>1 DEF SetupInv, StagedOwned, Quiet, diskVars, Part
<1> QED BY <1>2, <1>3, <1>4, <1>7, <1>9, <1>10 DEF SetupInv

-----------------------------------------------------------------------------

\* A setup announces its next component.
LEMMA AnnouncedFields ==
  ASSUME SetupInv, NEW s \in Setups, NEW q \in Seq(Components), Announced(s, q),
         setup[s].row # "succeeded"
  PROVE  /\ setup' \in [Setups -> Rows]
         /\ setup'[s].at = "control" /\ setup'[s].todo = q
         /\ setup'[s].asked = setup[s].asked /\ setup'[s].row = setup[s].row
         /\ setup'[s].adrift = setup[s].adrift
         /\ \A t \in Setups \ {s} : setup'[t] = setup[t]
         /\ component' \in [Components -> {"none", "installing", "available", "missing", "error"}]
         /\ \A c \in Components : component'[c] = "available" =>
              /\ q = <<>> \/ c # Head(q)
              /\ component[c] = "available" \/ (setup[s].at \in {"swap", "report"} /\ c = Part(s))
         /\ Course'
<1>1. /\ setup'[s] = [setup[s] EXCEPT !.at = "control", !.todo = q]
      /\ \A t \in Setups \ {s} : setup'[t] = setup[t]
      /\ DOMAIN setup' = Setups /\ setup' = [t \in Setups |-> setup'[t]]
  BY DEF SetupInv, SetupTyped, Announced
<1>2. setup[s] \in Rows /\ setup'[s] \in Rows BY <1>1 DEF SetupInv, SetupTyped, Rows
<1>3. setup' \in [Setups -> Rows] BY <1>1, <1>2 DEF SetupInv, SetupTyped
<1>4. /\ setup'[s].at = "control" /\ setup'[s].todo = q
      /\ setup'[s].asked = setup[s].asked /\ setup'[s].row = setup[s].row
      /\ setup'[s].adrift = setup[s].adrift
  BY <1>1, <1>2 DEF Rows
<1>5. /\ component' \in [Components -> {"none", "installing", "available", "missing", "error"}]
      /\ \A c \in Components : component'[c] = "available" =>
           /\ q = <<>> \/ c # Head(q)
           /\ component[c] = "available" \/ (setup[s].at \in {"swap", "report"} /\ c = Part(s))
  BY DEF SetupInv, SetupTyped, Announced
<1>6. Course' BY <1>1, <1>4 DEF SetupInv, Course
<1> QED BY <1>1, <1>3, <1>4, <1>5, <1>6

\* The first component.
LEMMA BegunKeeps ==
  ASSUME SetupInv, NEW s \in Setups, At(s, "new"), setup[s].todo # <<>>,
         Announced(s, setup[s].todo), UNCHANGED <<diskVars, wanted, restarts, torn>>
  PROVE  SetupInv'
<1> DEFINE q == setup[s].todo
<1>1. q \in Seq(Components) /\ setup[s].row # "succeeded" /\ setup[s].at = "new"
  BY DEF SetupInv, SetupTyped, Rows, Course, At
<1>2. /\ setup' \in [Setups -> Rows] /\ Course'
      /\ setup'[s].at = "control" /\ setup'[s].todo = q /\ setup'[s].asked = setup[s].asked
      /\ setup'[s].adrift = setup[s].adrift
      /\ \A t \in Setups \ {s} : setup'[t] = setup[t]
      /\ component' \in [Components -> {"none", "installing", "available", "missing", "error"}]
      /\ \A c \in Components : component'[c] = "available" =>
           component[c] = "available" /\ c # Head(q)
  <2>1. Announced(s, q) /\ q # <<>> OBVIOUS
  <2> HIDE DEF q
  <2> QED BY <1>1, <2>1, AnnouncedFields
<1>3. SetupTyped' BY <1>2 DEF SetupInv, SetupTyped, diskVars
<1>4. \A t \in Setups : (At(t, "swap")' <=> At(t, "swap")) /\ setup'[t].todo = setup[t].todo
      /\ setup'[t].asked = setup[t].asked
  BY <1>1, <1>2 DEF At
<1>5. OneSwap' BY <1>4 DEF SetupInv, OneSwap
<1>6. \A c : Renamed(c)' <=> Renamed(c) BY <1>4 DEF Renamed, Part
<1>7. Backed'
  <2> SUFFICES ASSUME NEW c \in Components, component'[c] = "available", active'[c] = 0
               PROVE  backup'[c] # 0 /\ (Renamed(c)' \/ \A t \in Setups : ~Replacing(t, c)')
    BY DEF Backed
  <2>1. backup[c] # 0 /\ (Renamed(c) \/ \A t \in Setups : ~Replacing(t, c))
    BY <1>2 DEF SetupInv, Backed, diskVars
  <2>2. \A t \in Setups : Replacing(t, c)' => Replacing(t, c)
    BY <1>2 DEF Replacing, Part
  <2> QED BY <1>6, <2>1, <2>2 DEF diskVars
<1>8. PassedInPlace' BY <1>4, <1>6 DEF SetupInv, PassedInPlace, StillToDo, diskVars
<1>9. StagedOwned' BY <1>1, <1>2 DEF SetupInv, StagedOwned, diskVars, Part
<1> QED BY <1>2, <1>3, <1>5, <1>7, <1>8, <1>9 DEF SetupInv

\* A runtime of the wanted version is kept, or the staged one was swapped in: the part is
\* available and the next one is announced.
LEMMA PartDoneKeeps ==
  ASSUME SetupInv, NEW s \in Setups, setup[s].at \in {"report", "swap"}, setup[s].todo # <<>>,
         At(s, "report") => active[Part(s)] # 0 /\ ~Swapping /\ UNCHANGED <<active, staged>>,
         At(s, "swap") => /\ active' = [active EXCEPT ![Part(s)] = wanted]
                          /\ staged' = staged \ {<<s, Part(s)>>},
         Announced(s, Tail(setup[s].todo)), UNCHANGED <<backup, wanted, restarts, torn>>
  PROVE  SetupInv'
<1> DEFINE q == Tail(setup[s].todo)
           p == Part(s)
<1>1. /\ q \in Seq(Components) /\ p \in Components /\ setup[s].row # "succeeded"
      /\ setup[s].todo \in Seq(Components)
      /\ \A j \in 1..Len(setup[s].todo) : setup[s].todo[j] = p \/ \E k \in 1..Len(q) : q[k] = setup[s].todo[j]
  BY TakenFirst DEF SetupInv, SetupTyped, Rows, Course, Part
<1>2. /\ setup' \in [Setups -> Rows] /\ Course'
      /\ setup'[s].at = "control" /\ setup'[s].todo = q /\ setup'[s].asked = setup[s].asked
      /\ setup'[s].adrift = setup[s].adrift
      /\ \A t \in Setups \ {s} : setup'[t] = setup[t]
      /\ component' \in [Components -> {"none", "installing", "available", "missing", "error"}]
      /\ \A c \in Components : component'[c] = "available" =>
           (q = <<>> \/ c # Head(q)) /\ (component[c] = "available" \/ c = p)
  <2>1. Announced(s, q) OBVIOUS
  <2> HIDE DEF q
  <2> QED BY <1>1, <2>1, AnnouncedFields
<1>3. /\ active' \in [Components -> Nat] /\ active'[p] # 0
      /\ \A c \in Components \ {p} : active'[c] = active[c]
      /\ staged' \subseteq staged
  BY <1>1 DEF SetupInv, SetupTyped, At
<1>4. SetupTyped' BY <1>2, <1>3 DEF SetupInv, SetupTyped
<1>5. \A t \in Setups : ~At(t, "swap")'
  BY <1>2 DEF SetupInv, OneSwap, At, Swapping
<1>6. OneSwap' BY <1>5 DEF OneSwap
<1>7. \A c : Renamed(c) => c = p BY DEF Renamed, SetupInv, OneSwap, Swapping, At
<1>8. Backed'
  <2> SUFFICES ASSUME NEW c \in Components, component'[c] = "available", active'[c] = 0
               PROVE  backup'[c] # 0 /\ \A t \in Setups : ~Replacing(t, c)'
    BY DEF Backed
  <2>1. c # p /\ component[c] = "available" /\ active[c] = 0 /\ (q = <<>> \/ c # Head(q))
    BY <1>2, <1>3
  <2>2. backup[c] # 0 /\ \A t \in Setups : ~Replacing(t, c)
    BY <1>7, <2>1 DEF SetupInv, Backed
  <2>3. \A t \in Setups \ {s} : ~Replacing(t, c)' BY <1>2, <2>2 DEF Replacing, Part
  <2>4. ~Replacing(s, c)' BY <1>2, <2>1 DEF Replacing, Part
  <2> QED BY <2>2, <2>3, <2>4
<1>9. PassedInPlace'
  <2>a. \A t \in Setups : setup'[t].asked = setup[t].asked BY <1>2
  <2> SUFFICES ASSUME torn = 0, NEW t \in Setups, NEW i \in 1..Len(setup[t].asked),
                      NEW c, c = setup[t].asked[i], active'[c] = 0
               PROVE  StillToDo(t, c)'
    BY <2>a DEF PassedInPlace
  <2>1. c \in Components BY DEF SetupInv, SetupTyped, Rows
  <2>b. c # p BY <1>3
  <2>2. StillToDo(t, c)
    <3>1. active[c] = 0 /\ ~Renamed(c) BY <1>3, <1>7, <2>1, <2>b
    <3> QED BY <3>1 DEF SetupInv, PassedInPlace
  <2>3. CASE t # s BY <1>2, <2>2, <2>3 DEF StillToDo
  <2>4. CASE t = s
    <3>1. PICK j \in 1..Len(setup[s].todo) : setup[s].todo[j] = c BY <2>2, <2>4 DEF StillToDo
    <3>2. PICK k \in 1..Len(q) : q[k] = c BY <1>1, <2>b, <3>1
    <3> HIDE DEF q
    <3> QED BY <1>2, <2>4, <3>2 DEF StillToDo
  <2> QED BY <2>3, <2>4
<1>10. StagedOwned'
  <2> SUFFICES ASSUME restarts = 0, NEW d \in staged'
               PROVE  /\ d[1] \in Setups /\ d = <<d[1], d[2]>>
                      /\ \/ setup'[d[1]].adrift
                         \/ setup'[d[1]].at \in {"build", "swap", "stopping"} /\ d[2] = Part(d[1])'
    BY DEF StagedOwned
  <2>1. /\ d[1] \in Setups /\ d = <<d[1], d[2]>>
        /\ \/ setup[d[1]].adrift
           \/ setup[d[1]].at \in {"build", "swap", "stopping"} /\ d[2] = Part(d[1])
    BY <1>3 DEF SetupInv, StagedOwned
  <2>2. CASE setup[d[1]].adrift BY <1>2, <2>1, <2>2
  <2>3. CASE ~setup[d[1]].adrift
    <3>1. d[1] # s BY <2>1, <2>3 DEF At
    <3> QED BY <1>2, <2>1, <2>3, <3>1 DEF Part
  <2> QED BY <2>2, <2>3
<1> QED BY <1>2, <1>4, <1>6, <1>8, <1>9, <1>10 DEF SetupInv

\* A staging directory is made and its commands run.
LEMMA BuildKeeps ==
  ASSUME SetupInv, NEW s \in Setups, At(s, "report"), setup[s].todo # <<>>, Moved(s, "build"),
         staged' = staged \cup {<<s, Part(s)>>},
         UNCHANGED <<component, active, backup, wanted, restarts, torn>>
  PROVE  SetupInv'
<1>1. /\ setup'[s] = [setup[s] EXCEPT !.at = "build"] /\ setup[s] \in Rows
      /\ \A t \in Setups \ {s} : setup'[t] = setup[t]
      /\ DOMAIN setup' = Setups /\ setup' = [t \in Setups |-> setup'[t]]
  BY DEF SetupInv, SetupTyped, Moved
<1>2. /\ setup'[s] \in Rows /\ setup'[s].at = "build" /\ setup'[s].row = setup[s].row
      /\ setup[s].at = "report" /\ setup[s].row # "succeeded"
      /\ \A t \in Setups : /\ setup'[t].todo = setup[t].todo /\ setup'[t].asked = setup[t].asked
                          /\ setup'[t].adrift = setup[t].adrift
      /\ \A t \in Setups \ {s} : setup'[t].at = setup[t].at /\ setup'[t].row = setup[t].row
  BY <1>1 DEF Rows, At, SetupInv, Course
<1>3. SetupTyped'
  <2>1. setup' \in [Setups -> Rows]
    <3>1. setup'[s] \in Rows BY <1>2
    <3> QED BY <1>1, <3>1 DEF SetupInv, SetupTyped
  <2> QED BY <2>1 DEF SetupInv, SetupTyped
<1>4. \A t \in Setups : At(t, "swap")' <=> At(t, "swap") BY <1>2 DEF At
<1>5. Course' BY <1>2 DEF SetupInv, Course
<1>6. OneSwap' BY <1>4 DEF SetupInv, OneSwap
<1>7. \A c : Renamed(c)' <=> Renamed(c) BY <1>2, <1>4 DEF Renamed, Part
<1>8. \A t \in Setups : \A c : Replacing(t, c)' => Replacing(t, c)
  BY <1>2 DEF Replacing, Part
<1>9. Backed' BY <1>7, <1>8 DEF SetupInv, Backed
<1>10. PassedInPlace'
  <2>1. \A t \in Setups : \A c : StillToDo(t, c)' <=> StillToDo(t, c) BY <1>2 DEF StillToDo
  <2>2. \A t \in Setups : setup'[t].asked = setup[t].asked BY <1>2
  <2> QED BY <1>7, <2>1, <2>2 DEF SetupInv, PassedInPlace
<1>11. StagedOwned'
  <2> SUFFICES ASSUME restarts = 0, NEW d \in staged'
               PROVE  /\ d[1] \in Setups /\ d = <<d[1], d[2]>>
                      /\ \/ setup'[d[1]].adrift
                         \/ setup'[d[1]].at \in {"build", "swap", "stopping"} /\ d[2] = Part(d[1])'
    BY DEF StagedOwned
  <2>1. CASE d = <<s, Part(s)>> BY <1>2, <2>1 DEF Part
  <2>2. CASE d \in staged BY <1>2, <2>2 DEF SetupInv, StagedOwned, Part
  <2> QED BY <2>1, <2>2
<1> QED BY <1>3, <1>5, <1>6, <1>9, <1>10, <1>11 DEF SetupInv

\* The first rename of a swap.
LEMMA BuiltKeeps ==
  ASSUME SetupInv, NEW s \in Setups, Built(s), ~Swapping
  PROVE  SetupInv'
<1> DEFINE p == Part(s)
<1>1. /\ setup'[s] = [setup[s] EXCEPT !.at = "swap"] /\ setup[s] \in Rows
      /\ \A t \in Setups \ {s} : setup'[t] = setup[t]
      /\ DOMAIN setup' = Setups /\ setup' = [t \in Setups |-> setup'[t]]
  BY DEF SetupInv, SetupTyped, Built, Moved
<1>2. /\ setup'[s] \in Rows /\ setup'[s].at = "swap" /\ setup'[s].row = setup[s].row
      /\ setup[s].at = "build" /\ setup[s].todo # <<>> /\ setup[s].row # "succeeded"
      /\ \A t \in Setups : /\ setup'[t].todo = setup[t].todo /\ setup'[t].asked = setup[t].asked
                          /\ setup'[t].adrift = setup[t].adrift
      /\ \A t \in Setups \ {s} : setup'[t].at = setup[t].at /\ setup'[t].row = setup[t].row
  BY <1>1 DEF Rows, Built, At, SetupInv, Course
<1>3. p \in Components /\ Part(s)' = p BY <1>1, <1>2, TakenFirst DEF Part, Rows
<1>4. /\ backup' = [backup EXCEPT ![p] = active[p]] /\ active' = [active EXCEPT ![p] = 0]
      /\ UNCHANGED <<component, staged, wanted, restarts, torn>>
  BY DEF Built
<1>5. SetupTyped'
  <2>1. setup' \in [Setups -> Rows]
    <3>1. setup'[s] \in Rows BY <1>2
    <3> QED BY <1>1, <3>1 DEF SetupInv, SetupTyped
  <2>2. active' \in [Components -> Nat] /\ backup' \in [Components -> Nat]
    BY <1>3, <1>4 DEF SetupInv, SetupTyped
  <2> QED BY <1>4, <2>1, <2>2 DEF SetupInv, SetupTyped
<1>6. \A t \in Setups : ~At(t, "swap") BY DEF Swapping
<1>7. \A t \in Setups \ {s} : ~At(t, "swap")' BY <1>2, <1>6 DEF At
<1>8. Course' BY <1>2 DEF SetupInv, Course
<1>9. OneSwap' BY <1>7 DEF OneSwap
<1>10. \A c : c = p => Renamed(c)' BY <1>2, <1>3 DEF Renamed, At
<1>11. \A c : ~Renamed(c) BY <1>6 DEF Renamed
<1>12. Backed'
  <2> SUFFICES ASSUME NEW c \in Components, component[c] = "available", active'[c] = 0
               PROVE  backup'[c] # 0 /\ (Renamed(c)' \/ \A t \in Setups : ~Replacing(t, c)')
    BY <1>4 DEF Backed
  <2>1. CASE c = p
    <3>1. Replacing(s, p) BY <1>2 DEF Replacing
    <3>2. active[p] # 0 BY <1>3, <1>11, <2>1, <3>1 DEF SetupInv, Backed
    <3>3. p \in Components /\ backup' = [backup EXCEPT ![p] = active[p]] BY <1>3, <1>4
    <3>4. backup'[p] = active[p]
      <4> HIDE DEF p
      <4> QED BY <3>3 DEF SetupInv, SetupTyped
    <3>5. Renamed(c)' BY <1>10, <2>1
    <3>6. backup'[c] # 0
      <4> HIDE DEF p
      <4> QED BY <2>1, <3>2, <3>4
    <3> QED BY <3>5, <3>6
  <2>2. CASE c # p
    <3>1. active[c] = 0 /\ backup'[c] = backup[c] BY <1>4, <2>2 DEF SetupInv, SetupTyped
    <3>2. backup[c] # 0 /\ \A t \in Setups : ~Replacing(t, c)
      BY <1>11, <3>1 DEF SetupInv, Backed
    <3>3. \A t \in Setups : Replacing(t, c)' => Replacing(t, c)
      BY <1>2 DEF Replacing, Part
    <3> QED BY <3>1, <3>2, <3>3
  <2> QED BY <2>1, <2>2
<1>13. PassedInPlace'
  <2>1. ASSUME torn = 0, NEW t \in Setups, NEW i \in 1..Len(setup[t].asked),
               NEW c, c = setup[t].asked[i]
        PROVE  StillToDo(t, c)' \/ active'[c] # 0 \/ Renamed(c)'
    <3>1. CASE c = p BY <1>10, <3>1
    <3>2. CASE c # p
      <4>1. c \in Components BY <2>1 DEF SetupInv, SetupTyped, Rows
      <4>2. active'[c] = active[c] BY <1>3, <1>4, <3>2, <4>1 DEF SetupInv, SetupTyped
      <4>3. StillToDo(t, c) \/ active[c] # 0 BY <1>11, <2>1 DEF SetupInv, PassedInPlace
      <4>4. StillToDo(t, c)' <=> StillToDo(t, c) BY <1>2 DEF StillToDo
      <4> QED BY <4>2, <4>3, <4>4
    <3> QED BY <3>1, <3>2
  <2>2. torn' = torn /\ \A t \in Setups : setup'[t].asked = setup[t].asked BY <1>2, <1>4
  <2> HIDE DEF p
  <2> QED BY <2>1, <2>2 DEF PassedInPlace
<1>14. StagedOwned' BY <1>2, <1>4 DEF SetupInv, StagedOwned, Part
<1> QED BY <1>5, <1>8, <1>9, <1>12, <1>13, <1>14 DEF SetupInv

\* A setup that ends as failed or canceled.
LEMMA EndsAsFields ==
  ASSUME SetupInv, NEW s \in Setups, NEW row \in {"failed", "canceled"}, EndsAs(s, row)
  PROVE  \E s2 \in Rows :
           /\ setup' = [setup EXCEPT ![s] = s2] /\ s2.at = "ending" /\ s2.row # "succeeded"
           /\ s2.todo = setup[s].todo /\ s2.asked = setup[s].asked /\ s2.adrift = setup[s].adrift
<1> DEFINE s2 == [setup[s] EXCEPT !.row = row, !.at = "ending"]
<1>1. setup[s] \in Rows BY DEF SetupInv, SetupTyped
<1>2. setup' = [setup EXCEPT ![s] = s2] BY <1>1 DEF EndsAs, Rows, SetupInv, SetupTyped
<1>3. /\ s2 \in Rows /\ s2.at = "ending" /\ s2.row # "succeeded"
      /\ s2.todo = setup[s].todo /\ s2.asked = setup[s].asked /\ s2.adrift = setup[s].adrift
  BY <1>1 DEF Rows
<1> HIDE DEF s2
<1> QED BY <1>2, <1>3

\* The part under way fails or is withdrawn: its staging directory goes.
LEMMA PartLostKeeps ==
  ASSUME SetupInv, NEW s \in Setups, NEW s2 \in Rows, NEW says \in {"error", "missing"},
         setup[s].at \in {"build", "swap", "stopping"}, At(s, "swap") \/ ~Swapping,
         setup' = [setup EXCEPT ![s] = s2], s2.at = "ending", s2.row # "succeeded",
         s2.todo = setup[s].todo, s2.asked = setup[s].asked, setup[s].adrift => s2.adrift,
         Says(Part(s), says),
         \/ staged' = staged \ {<<s, Part(s)>>}
         \/ staged' = staged /\ s2.adrift,
         torn' = IF At(s, "swap") THEN torn + 1 ELSE torn,
         UNCHANGED <<active, backup, wanted, restarts>>
  PROVE  SetupInv'
<1> DEFINE p == Part(s)
<1>1. /\ setup'[s] = s2 /\ setup[s] \in Rows
      /\ \A t \in Setups \ {s} : setup'[t] = setup[t]
      /\ DOMAIN setup' = Setups /\ setup' = [t \in Setups |-> setup'[t]]
  BY DEF SetupInv, SetupTyped
<1>2. /\ setup'[s] \in Rows /\ setup'[s].at = "ending" /\ setup'[s].row # "succeeded"
      /\ \A t \in Setups : setup'[t].todo = setup[t].todo /\ setup'[t].asked = setup[t].asked
      /\ \A t \in Setups \ {s} : /\ setup'[t].at = setup[t].at /\ setup'[t].row = setup[t].row
                                /\ setup'[t].adrift = setup[t].adrift
      /\ setup[s].adrift \/ staged' = staged => setup'[s].adrift \/ staged' = staged \ {<<s, p>>}
      /\ setup[s].adrift => setup'[s].adrift
      /\ setup'[s].adrift \/ <<s, p>> \notin staged'
  BY <1>1
<1>3. p \in Components BY <1>1, TakenFirst DEF SetupInv, Course, Part, Rows
<1>4. component' = [component EXCEPT ![p] = says] BY DEF Says
<1>5. SetupTyped'
  <2>1. setup' \in [Setups -> Rows]
    <3>1. setup'[s] \in Rows BY <1>2
    <3> QED BY <1>1, <3>1 DEF SetupInv, SetupTyped
  <2>2. component' \in [Components -> {"none", "installing", "available", "missing", "error"}]
    BY <1>3, <1>4 DEF SetupInv, SetupTyped
  <2>3. torn' \in Nat BY DEF SetupInv, SetupTyped
  <2> QED BY <2>1, <2>2, <2>3 DEF SetupInv, SetupTyped
<1>6. Course' BY <1>2 DEF SetupInv, Course
<1>7. \A t \in Setups : ~At(t, "swap")' BY <1>2 DEF SetupInv, OneSwap, At, Swapping
<1>8. OneSwap' BY <1>7 DEF OneSwap
<1>9. \A c : Renamed(c) => c = p /\ At(s, "swap") BY DEF Renamed, SetupInv, OneSwap, Swapping
<1>10. Backed'
  <2> SUFFICES ASSUME NEW c \in Components, component'[c] = "available", active[c] = 0
               PROVE  backup[c] # 0 /\ \A t \in Setups : ~Replacing(t, c)'
    BY DEF Backed
  <2>1. c # p /\ component[c] = "available"
    <3> HIDE DEF p
    <3> QED BY <1>3, <1>4 DEF SetupInv, SetupTyped
  <2>2. backup[c] # 0 /\ \A t \in Setups : ~Replacing(t, c) BY <1>9, <2>1 DEF SetupInv, Backed
  <2>3. \A t \in Setups : Replacing(t, c)' => Replacing(t, c) BY <1>2 DEF Replacing, Part
  <2> QED BY <2>2, <2>3
<1>11. PassedInPlace'
  <2>1. CASE At(s, "swap") BY <2>1 DEF PassedInPlace, SetupInv, SetupTyped
  <2>2. CASE ~At(s, "swap")
    <3>1. \A c : ~Renamed(c) BY <1>9, <2>2
    <3>2. \A t \in Setups : \A c : StillToDo(t, c)' <=> StillToDo(t, c) BY <1>2 DEF StillToDo
    <3>3. torn' = torn /\ \A t \in Setups : setup'[t].asked = setup[t].asked BY <1>2, <2>2
    <3> QED BY <3>1, <3>2, <3>3 DEF SetupInv, PassedInPlace
  <2> QED BY <2>1, <2>2
<1>12. StagedOwned'
  <2> SUFFICES ASSUME restarts = 0, NEW d \in staged'
               PROVE  /\ d[1] \in Setups /\ d = <<d[1], d[2]>>
                      /\ \/ setup'[d[1]].adrift
                         \/ setup'[d[1]].at \in {"build", "swap", "stopping"} /\ d[2] = Part(d[1])'
    BY DEF StagedOwned
  <2>1. /\ d[1] \in Setups /\ d = <<d[1], d[2]>>
        /\ \/ setup[d[1]].adrift
           \/ setup[d[1]].at \in {"build", "swap", "stopping"} /\ d[2] = Part(d[1])
    BY DEF SetupInv, StagedOwned
  <2>2. CASE d[1] # s BY <1>2, <2>1, <2>2 DEF Part
  <2>3. CASE d[1] = s BY <1>2, <2>1, <2>3
  <2> QED BY <2>2, <2>3
<1> QED BY <1>5, <1>6, <1>8, <1>10, <1>11, <1>12 DEF SetupInv

\* A new setup has everything it was asked for to do.
LEMMA StartKeeps == ASSUME SetupInv, NEW s \in Setups, StartSetup(s) PROVE SetupInv'
<1>1. PICK parts \in Profiles, hosted \in BOOLEAN :
        setup' = [setup EXCEPT ![s] = [row |-> "queued", at |-> "new", hosted |-> hosted, asked |-> parts,
                                       todo |-> parts, listed |-> TRUE, posted |-> FALSE, adrift |-> FALSE]]
  BY DEF StartSetup
<1>2. /\ setup'[s].at = "new" /\ setup'[s].todo = setup'[s].asked /\ setup'[s].row = "queued"
      /\ setup'[s] \in Rows /\ setup[s].at = "none" /\ ~setup[s].adrift
      /\ \A t \in Setups \ {s} : setup'[t] = setup[t]
      /\ setup' \in [Setups -> Rows]
  BY <1>1 DEF SetupInv, SetupTyped, StartSetup, NoSetup, Rows
<1>3. UNCHANGED <<component, active, backup, staged, wanted, restarts, torn>>
  BY DEF StartSetup, diskVars
<1>4. SetupTyped' BY <1>2, <1>3 DEF SetupInv, SetupTyped
<1>5. \A t \in Setups : (At(t, "swap")' <=> At(t, "swap")) /\ (At(t, "swap") => setup'[t] = setup[t])
  BY <1>2 DEF At
<1>6. Course' BY <1>2 DEF SetupInv, Course
<1>7. OneSwap' BY <1>5 DEF SetupInv, OneSwap
<1>8. \A c : Renamed(c)' <=> Renamed(c) BY <1>5 DEF Renamed, Part
<1>9. \A t \in Setups : \A c : Replacing(t, c)' => Replacing(t, c) BY <1>2 DEF Replacing, Part
<1>10. Backed' BY <1>3, <1>8, <1>9 DEF SetupInv, Backed
<1>11. PassedInPlace'
  <2>1. ASSUME torn = 0, NEW t \in Setups, NEW i \in 1..Len(setup'[t].asked),
               NEW c, c = setup'[t].asked[i]
        PROVE  StillToDo(t, c)' \/ active[c] # 0 \/ Renamed(c)
    <3>1. CASE t = s BY <1>2, <2>1, <3>1 DEF StillToDo
    <3>2. CASE t # s
      <4>1. setup'[t] = setup[t] BY <1>2, <3>2
      <4>2. StillToDo(t, c) \/ active[c] # 0 \/ Renamed(c)
        BY <2>1, <4>1 DEF SetupInv, PassedInPlace
      <4> QED BY <4>1, <4>2 DEF StillToDo
    <3> QED BY <3>1, <3>2
  <2> QED BY <1>3, <1>8, <2>1 DEF PassedInPlace
<1>12. StagedOwned' BY <1>2, <1>3 DEF SetupInv, StagedOwned, Part
<1> QED BY <1>4, <1>6, <1>7, <1>10, <1>11, <1>12 DEF SetupInv

\* The end of the process: no setup is under way any more, and a swap that was cut is counted.
LEMMA RestartKeeps == ASSUME SetupInv, Restart PROVE SetupInv'
<1>1. \A s \in Setups :
        /\ setup'[s] \in Rows /\ setup'[s].at \in {"none", "over"}
        /\ setup'[s].todo = setup[s].todo /\ setup'[s].asked = setup[s].asked
        /\ setup'[s].row = "succeeded" => setup[s].row = "succeeded" /\ setup'[s].at = "over"
  <2> SUFFICES ASSUME NEW s \in Setups
               PROVE  /\ setup'[s] \in Rows /\ setup'[s].at \in {"none", "over"}
                      /\ setup'[s].todo = setup[s].todo /\ setup'[s].asked = setup[s].asked
                      /\ setup'[s].row = "succeeded" => setup[s].row = "succeeded" /\ setup'[s].at = "over"
    OBVIOUS
  <2>1. setup[s] \in Rows BY DEF SetupInv, SetupTyped
  <2>2. CASE setup[s] = NoSetup
    <3>1. setup'[s] = NoSetup BY <2>2 DEF Restart
    <3> QED BY <2>1, <2>2, <3>1 DEF NoSetup
  <2>3. CASE setup[s] # NoSetup
    <3>1. setup'[s] = [setup[s] EXCEPT !.at = "over", !.listed = FALSE, !.posted = FALSE,
                         !.row = IF setup[s].row \in {"queued", "running"} THEN "failed" ELSE setup[s].row]
      BY <2>3 DEF Restart
    <3> QED BY <2>1, <3>1 DEF Rows
  <2> QED BY <2>2, <2>3
<1>2. /\ wanted' \in Nat \ {0} /\ restarts' \in Nat \ {0}
      /\ UNCHANGED <<component, active, backup, staged>>
  <2>1. wanted \in Nat \ {0} /\ restarts \in Nat BY DEF SetupInv, SetupTyped
  <2>2. /\ restarts' = restarts + 1 /\ wanted' \in {wanted, wanted + 1}
        /\ UNCHANGED <<component, active, backup, staged>>
    BY DEF Restart, diskVars
  <2> QED BY <2>1, <2>2
<1> DEFINE swapping == \E s \in Setups : At(s, "swap")
<1>10. torn' \in Nat /\ (torn' = 0 => torn = 0 /\ ~swapping)
  <2>1. torn \in Nat /\ torn' = IF swapping THEN torn + 1 ELSE torn
    BY DEF SetupInv, SetupTyped, Restart
  <2> HIDE DEF swapping
  <2> QED BY <2>1
<1>3. SetupTyped'
  <2>1. setup' \in [Setups -> Rows]
    <3>1. DOMAIN setup' = Setups /\ setup' = [s \in Setups |-> setup'[s]] BY DEF Restart
    <3> QED BY <1>1, <3>1
  <2> QED BY <1>2, <1>10, <2>1 DEF SetupInv, SetupTyped
<1>4. Course' BY <1>1 DEF SetupInv, Course
<1>5. OneSwap' BY <1>1 DEF OneSwap, At
<1>6. \A s \in Setups : \A c : ~Replacing(s, c)' BY <1>1 DEF Replacing
<1>7. Backed' BY <1>2, <1>6 DEF SetupInv, Backed
<1>8. PassedInPlace'
  <2> SUFFICES ASSUME torn' = 0 PROVE PassedInPlace' BY DEF PassedInPlace
  <2>1. \A c : ~Renamed(c) BY <1>10 DEF Renamed
  <2>2. \A s \in Setups : \A c : StillToDo(s, c)' <=> StillToDo(s, c) BY <1>1 DEF StillToDo
  <2>3. torn = 0 /\ \A s \in Setups : setup'[s].asked = setup[s].asked BY <1>1, <1>10
  <2> QED BY <1>2, <2>1, <2>2, <2>3 DEF SetupInv, PassedInPlace
<1>9. StagedOwned' BY <1>2 DEF StagedOwned
<1> QED BY <1>3, <1>4, <1>5, <1>7, <1>8, <1>9 DEF SetupInv

-----------------------------------------------------------------------------

\* Progress, reports, cancellations and ends.
LEMMA MovesOnKeeps ==
  ASSUME SetupInv, NEW s \in Setups, ~Swapping,
         \/ At(s, "new") /\ ~setup[s].posted /\ UNCHANGED <<component, diskVars, wanted, restarts, torn>>
            /\ (EndsAs(s, "failed") \/ (setup[s].todo = <<>> /\ EndsAs(s, "succeeded")))
         \/ ControlAnswered(s) \/ ReportFails(s)
         \/ At(s, "report") /\ setup[s].todo = <<>> /\ EndsAs(s, "succeeded")
            /\ UNCHANGED <<component, diskVars, wanted, restarts, torn>>
         \/ SetupEnds(s) \/ CancelSetup(s) \/ SetupStruck(s)
  PROVE  SetupInv'
<1>1. setup[s] \in Rows /\ setup[s].at # "swap" BY DEF SetupInv, SetupTyped, Swapping, At
<1>2. setup[s].row = "succeeded" => setup[s].todo = <<>> /\ setup[s].at \in {"success", "over"}
  BY DEF SetupInv, Course
<1>3. \E s2 \in Rows : Quiet(s, s2)
  <2>1. ASSUME NEW row \in {"failed", "canceled", "succeeded"}, EndsAs(s, row),
               row = "succeeded" => setup[s].todo = <<>>,
               setup[s].at \notin {"build", "stopping"},
               UNCHANGED <<component, diskVars, wanted, restarts, torn>>
        PROVE  \E s2 \in Rows : Quiet(s, s2)
    <3> DEFINE s2 == [setup[s] EXCEPT !.row = row, !.at = IF row = "succeeded" THEN "success" ELSE "ending"]
    <3>1. s2 \in Rows /\ setup' = [setup EXCEPT ![s] = s2]
      BY <1>1, <2>1 DEF EndsAs, Rows, SetupInv, SetupTyped
    <3>2. /\ s2.todo = setup[s].todo /\ s2.asked = setup[s].asked /\ s2.row = row
          /\ s2.adrift = setup[s].adrift
          /\ s2.at = IF row = "succeeded" THEN "success" ELSE "ending"
      BY <1>1 DEF Rows
    <3>3. Quiet(s, s2)
      <4> HIDE DEF s2
      <4> QED BY <1>1, <2>1, <3>1, <3>2 DEF Quiet
    <3> QED BY <3>1, <3>3
  <2>2. ASSUME NEW row \in {"running", "canceled", setup[s].row},
               NEW label \in {"report", "over", "ending", "stopping", setup[s].at},
               NEW listed \in BOOLEAN, NEW posted \in BOOLEAN,
               setup' = [setup EXCEPT ![s] =
                 [setup[s] EXCEPT !.row = row, !.at = label, !.listed = listed, !.posted = posted]],
               row = "succeeded" => label \in {"success", "over"},
               label = "report" => setup[s].at \in {"control", "report"},
               setup[s].at \in {"build", "stopping"} <=> label \in {"build", "stopping"},
               UNCHANGED <<component, diskVars, wanted, restarts, torn>>
        PROVE  \E s2 \in Rows : Quiet(s, s2)
    <3> DEFINE s2 == [setup[s] EXCEPT !.row = row, !.at = label, !.listed = listed, !.posted = posted]
    <3>1. s2 \in Rows /\ setup' = [setup EXCEPT ![s] = s2] BY <1>1, <2>2 DEF Rows
    <3>2. /\ s2.todo = setup[s].todo /\ s2.asked = setup[s].asked /\ s2.row = row /\ s2.at = label
          /\ s2.adrift = setup[s].adrift
      BY <1>1 DEF Rows
    <3>3. /\ row = "succeeded" => setup[s].todo = <<>>
          /\ label # "swap"
          /\ label \in {"control", "report"} => setup[s].at \in {"control", "report"}
      BY <1>1, <1>2, <2>2
    <3>4. Quiet(s, s2)
      <4> HIDE DEF s2
      <4> QED BY <1>1, <2>2, <3>1, <3>2, <3>3 DEF Quiet
    <3> QED BY <3>1, <3>4
  <2>3. CASE /\ At(s, "new") /\ UNCHANGED <<component, diskVars, wanted, restarts, torn>>
             /\ EndsAs(s, "failed") \/ (setup[s].todo = <<>> /\ EndsAs(s, "succeeded"))
    BY <2>1, <2>3 DEF At
  <2>4. CASE ControlAnswered(s)
    <3>1. CASE \E row \in {"canceled", "failed"} : EndsAs(s, row)
      BY <2>1, <2>4, <3>1 DEF ControlAnswered, At
    <3>2. CASE setup' = [setup EXCEPT ![s].at = "report", ![s].row = "running"]
      <4>1. setup' = [setup EXCEPT ![s] = [setup[s] EXCEPT !.row = "running", !.at = "report",
                        !.listed = setup[s].listed, !.posted = setup[s].posted]]
        BY <1>1, <3>2 DEF Rows, SetupInv, SetupTyped
      <4> QED BY <1>1, <2>2, <2>4, <4>1 DEF ControlAnswered, At, Rows
    <3> QED BY <2>4, <3>1, <3>2 DEF ControlAnswered
  <2>5. CASE ReportFails(s) BY <2>1, <2>5 DEF ReportFails, At
  <2>6. CASE /\ At(s, "report") /\ setup[s].todo = <<>> /\ EndsAs(s, "succeeded")
             /\ UNCHANGED <<component, diskVars, wanted, restarts, torn>>
    BY <2>1, <2>6 DEF At
  <2>7. ASSUME Left(s), setup[s].at \in {"success", "ending"},
               UNCHANGED <<component, diskVars, wanted, restarts, torn>>
        PROVE  \E s2 \in Rows : Quiet(s, s2)
    <3>1. setup' = [setup EXCEPT ![s] = [setup[s] EXCEPT !.row = setup[s].row, !.at = "over",
                      !.listed = FALSE, !.posted = FALSE]]
      BY <1>1, <2>7 DEF Left, Rows, SetupInv, SetupTyped
    <3> QED BY <1>1, <2>2, <2>7, <3>1
  <2>8. CASE SetupEnds(s) BY <2>1, <2>7, <2>8 DEF SetupEnds, At
  <2>9. CASE CancelSetup(s)
    <3>1. setup' = [setup EXCEPT ![s] = [setup[s] EXCEPT !.row = setup[s].row, !.at = setup[s].at,
                      !.listed = setup[s].listed, !.posted = TRUE]]
      BY <1>1, <2>9 DEF CancelSetup, Rows, SetupInv, SetupTyped
    <3>2. setup[s].listed \in BOOLEAN BY <1>1 DEF Rows
    <3>3. UNCHANGED <<component, diskVars, wanted, restarts, torn>> BY <2>9 DEF CancelSetup
    <3> QED BY <1>1, <1>2, <2>2, <3>1, <3>2, <3>3
  <2>10. CASE SetupStruck(s)
    <3>1. ASSUME NEW label, NEW row, Withdrawn(s, label, row)
          PROVE  setup' = [setup EXCEPT ![s] = [setup[s] EXCEPT !.row = row, !.at = label,
                             !.listed = setup[s].listed, !.posted = FALSE]]
      BY <1>1, <3>1 DEF Withdrawn, Rows, SetupInv, SetupTyped
    <3>2. setup[s].listed \in BOOLEAN BY <1>1 DEF Rows
    <3>3. UNCHANGED <<component, diskVars, wanted, restarts, torn>> BY <2>10 DEF SetupStruck
    <3>4. CASE At(s, "new") /\ Withdrawn(s, "over", setup[s].row)
      <4>1. setup[s].at = "new" /\ setup[s].row # "succeeded" BY <1>2, <3>4 DEF At
      <4>2. setup' = [setup EXCEPT ![s] = [setup[s] EXCEPT !.row = setup[s].row, !.at = "over",
                        !.listed = setup[s].listed, !.posted = FALSE]]
        BY <3>1, <3>4
      <4> QED BY <2>2, <3>2, <3>3, <4>1, <4>2
    <3>5. CASE setup[s].at \in {"control", "report", "success"} /\ Withdrawn(s, "ending", "canceled")
      <4>1. setup' = [setup EXCEPT ![s] = [setup[s] EXCEPT !.row = "canceled", !.at = "ending",
                        !.listed = setup[s].listed, !.posted = FALSE]]
        BY <3>1, <3>5
      <4> QED BY <2>2, <3>2, <3>3, <3>5, <4>1
    <3>6. CASE At(s, "build") /\ Withdrawn(s, "stopping", setup[s].row)
      <4>1. setup[s].at = "build" /\ setup[s].row # "succeeded" BY <1>2, <3>6 DEF At
      <4>2. setup' = [setup EXCEPT ![s] = [setup[s] EXCEPT !.row = setup[s].row, !.at = "stopping",
                        !.listed = setup[s].listed, !.posted = FALSE]]
        BY <3>1, <3>6
      <4> QED BY <2>2, <3>2, <3>3, <3>6, <4>1, <4>2
    <3>7. CASE At(s, "ending") /\ Left(s) BY <2>7, <3>3, <3>7 DEF At
    <3> QED BY <2>10, <3>4, <3>5, <3>6, <3>7 DEF SetupStruck
  <2> QED BY <2>3, <2>4, <2>5, <2>6, <2>8, <2>9, <2>10
<1> QED BY <1>3, QuietKeeps

\* Every step keeps the invariant.
LEMMA SetupStep == ASSUME SetupInv, [SetupNext]_setupVars PROVE SetupInv'
<1>1. CASE Restart BY <1>1, RestartKeeps
<1>2. ASSUME NEW s \in Setups, Swapped(s) PROVE SetupInv'
  <2>1. setup[s].at = "swap" /\ setup[s].todo # <<>> BY <1>2 DEF Swapped, At, SetupInv, Course
  <2> QED BY <1>2, <2>1, PartDoneKeeps DEF Swapped, At
<1>3. ASSUME NEW s \in Setups, BuildFails(s), At(s, "swap") \/ ~Swapping PROVE SetupInv'
  <2>1. PICK s2 \in Rows :
          /\ setup' = [setup EXCEPT ![s] = s2] /\ s2.at = "ending" /\ s2.row # "succeeded"
          /\ s2.todo = setup[s].todo /\ s2.asked = setup[s].asked /\ s2.adrift = setup[s].adrift
    BY <1>3, EndsAsFields DEF BuildFails
  <2> QED BY <1>3, <2>1, PartLostKeeps DEF BuildFails
<1>4. ASSUME NEW s \in Setups, CommandStopped(s), ~Swapping PROVE SetupInv'
  <2>1. setup[s].at = "stopping" /\ ~At(s, "swap") BY <1>4 DEF CommandStopped, At
  <2>2. PICK s2 \in Rows :
          /\ setup' = [setup EXCEPT ![s] = s2] /\ s2.at = "ending" /\ s2.row # "succeeded"
          /\ s2.todo = setup[s].todo /\ s2.asked = setup[s].asked /\ s2.adrift = setup[s].adrift
    BY <1>4, EndsAsFields DEF CommandStopped
  <2> QED BY <1>4, <2>1, <2>2, PartLostKeeps DEF CommandStopped
<1>9. ASSUME NEW s \in Setups, CommandLeft(s), ~Swapping PROVE SetupInv'
  <2> DEFINE s2 == [setup[s] EXCEPT !.posted = FALSE, !.adrift = TRUE, !.at = "ending",
                                    !.row = "canceled"]
  <2>1. setup[s] \in Rows BY DEF SetupInv, SetupTyped
  <2>2. setup[s].at = "stopping" /\ ~At(s, "swap") BY <1>9 DEF CommandLeft, At
  <2>3. setup' = [setup EXCEPT ![s] = s2]
    BY <1>9, <2>1 DEF CommandLeft, Rows, SetupInv, SetupTyped
  <2>4. /\ s2 \in Rows /\ s2.at = "ending" /\ s2.row = "canceled" /\ s2.adrift = TRUE
        /\ s2.todo = setup[s].todo /\ s2.asked = setup[s].asked
    BY <2>1 DEF Rows
  <2> HIDE DEF s2
  <2> QED BY <1>9, <2>2, <2>3, <2>4, PartLostKeeps DEF CommandLeft
<1>5. ASSUME NEW s \in Setups, BeginSetup(s), ~Swapping PROVE SetupInv'
  <2>1. CASE setup[s].todo # <<>> /\ Announced(s, setup[s].todo)
    BY <1>5, <2>1, BegunKeeps DEF BeginSetup
  <2>2. CASE /\ UNCHANGED component
             /\ EndsAs(s, "failed") \/ (setup[s].todo = <<>> /\ EndsAs(s, "succeeded"))
    BY <1>5, <2>2, MovesOnKeeps DEF BeginSetup
  <2> QED BY <1>5, <2>1, <2>2 DEF BeginSetup
<1>6. ASSUME NEW s \in Setups, Reported(s), ~Swapping PROVE SetupInv'
  <2>1. At(s, "report") /\ setup[s].at = "report" /\ UNCHANGED <<active, backup, wanted, restarts, torn>>
    BY <1>6 DEF Reported, At
  <2>2. CASE setup[s].todo = <<>> /\ EndsAs(s, "succeeded") /\ UNCHANGED <<component, staged>>
    BY <1>6, <2>1, <2>2, MovesOnKeeps DEF diskVars
  <2>3. CASE /\ setup[s].todo # <<>> /\ active[Part(s)] = wanted
             /\ Announced(s, Tail(setup[s].todo)) /\ UNCHANGED staged
    <3>1. wanted # 0 /\ ~At(s, "swap") BY <2>1 DEF SetupInv, SetupTyped, At
    <3> QED BY <1>6, <2>1, <2>3, <3>1, PartDoneKeeps
  <2>4. CASE /\ setup[s].todo # <<>> /\ Moved(s, "build") /\ UNCHANGED component
             /\ staged' = staged \cup {<<s, Part(s)>>}
    BY <2>1, <2>4, BuildKeeps
  <2> QED BY <1>6, <2>2, <2>3, <2>4 DEF Reported
<1>7. CASE UNCHANGED setupVars
  BY <1>7 DEF setupVars, diskVars, SetupInv, SetupTyped, Course, OneSwap, Backed, PassedInPlace,
              StagedOwned, Renamed, Replacing, StillToDo, At, Part
<1>8. ASSUME NEW s \in Setups, ~Swapping,
             ControlAnswered(s) \/ ReportFails(s) \/ SetupEnds(s) \/ CancelSetup(s) \/ SetupStruck(s)
      PROVE  SetupInv'
  BY <1>8, MovesOnKeeps
<1> QED
  BY <1>1, <1>2, <1>3, <1>4, <1>5, <1>6, <1>7, <1>8, <1>9, StartKeeps, BuiltKeeps DEF SetupNext

\* After any sequence of setups, cancellations, failures and ends of the process, what is
\* reported available is there, what a setup that succeeded installed stays in place as
\* long as no swap was cut, and no staging directory is left but by the end of the process.
THEOREM SetupTellsTruthHolds == SetupSpec => []SetupTellsTruth
<1>1. SetupInv /\ [SetupNext]_setupVars => SetupInv' BY SetupStep
<1> QED BY SetupInitInv, <1>1, SetupInvSuffices, PTL DEF SetupSpec

=============================================================================
