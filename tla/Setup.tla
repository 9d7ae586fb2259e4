-------------------------------- MODULE Setup --------------------------------
(***************************************************************************)
(* The provisioning of worker runtimes (setup.apply as run by              *)
(* app._run_setup_job). Setups run side by side, nothing keeps two of them  *)
(* from the same component: each builds its runtime in a staging directory  *)
(* of its own and then swaps it in, keeping the one before as a backup.     *)
(* What a component's row says is written by whoever came last.             *)
(*                                                                         *)
(* A runtime is the fingerprint it was built for; what is installed in it   *)
(* is left out, and so are credentials and test mode. A setup without a     *)
(* Host Job does not suspend at its progress; that others may step there    *)
(* in the model is more than the event loop allows.                         *)
(***************************************************************************)
EXTENDS Naturals, Sequences, FiniteSets

CONSTANTS
  Components,
  Profiles,     \* sequences of components a setup may ask for
  MaxSetups,    \* bound: setups
  MaxRestarts   \* bound: ends of the process

ASSUME SetupAssumption ==
  /\ Profiles \subseteq Seq(Components)
  /\ MaxSetups \in Nat /\ MaxRestarts \in Nat

Setups == 1..MaxSetups

VARIABLES
  setup,      \* per setup: its durable row, what its task awaits, what is left to do, and
              \* whether a command of it was left running
  component,  \* SetupComponent.state
  active,     \* the runtime in place, by fingerprint; 0 if none
  backup,     \* `.previous`
  staged,     \* staging directories on disk
  wanted,     \* the fingerprint this version of the service asks for
  restarts,
  torn        \* swaps that were cut between their two renames

diskVars  == <<active, backup, staged>>
setupVars == <<setup, component, diskVars, wanted, restarts, torn>>

NoSetup == [row |-> "none", at |-> "none", hosted |-> FALSE, asked |-> <<>>, todo |-> <<>>,
            listed |-> FALSE, posted |-> FALSE, adrift |-> FALSE]

SetupInit ==
  /\ setup = [s \in Setups |-> NoSetup]
  /\ component = [c \in Components |-> "none"]
  /\ active = [c \in Components |-> 0] /\ backup = [c \in Components |-> 0] /\ staged = {}
  /\ wanted = 1 /\ restarts = 0 /\ torn = 0

At(s, label)    == setup[s].at = label
Part(s)         == Head(setup[s].todo)
Moved(s, label) == setup' = [setup EXCEPT ![s].at = label]
Says(c, state)  == component' = [component EXCEPT ![c] = state]

(* jobs._set with an end, and the suspension of its report.                 *)
EndsAs(s, row) ==
  setup' = [setup EXCEPT ![s].row = row, ![s].at = IF row = "succeeded" THEN "success" ELSE "ending"]

(* The next component is announced, or nothing is left: progress follows,   *)
(* whose first await asks the Host whether the Job is to be cancelled.      *)
Announced(s, todo) ==
  /\ setup' = [setup EXCEPT ![s].at = "control", ![s].todo = todo]
  /\ component' = [c \in Components |->
       IF todo # <<>> /\ c = Head(todo) THEN "installing"
       ELSE IF setup[s].at \in {"swap", "report"} /\ c = Part(s) THEN "available"
       ELSE component[c]]

-----------------------------------------------------------------------------
(* _start_setup.                                                            *)
StartSetup(s) ==
  /\ setup[s] = NoSetup
  /\ \A other \in 1..(s - 1) : setup[other] # NoSetup
  /\ \E parts \in Profiles, hosted \in BOOLEAN :
       setup' = [setup EXCEPT ![s] = [row |-> "queued", at |-> "new", hosted |-> hosted, asked |-> parts,
                                      todo |-> parts, listed |-> TRUE, posted |-> FALSE,
                                      adrift |-> FALSE]]
  /\ UNCHANGED <<component, diskVars, wanted, restarts, torn>>

(* apply up to its first await: refused (blockers, terms, disk space),      *)
(* nothing to do, or the first component.                                   *)
BeginSetup(s) ==
  /\ At(s, "new") /\ ~setup[s].posted
  /\ \/ EndsAs(s, "failed") /\ UNCHANGED component
     \/ setup[s].todo = <<>> /\ EndsAs(s, "succeeded") /\ UNCHANGED component
     \/ setup[s].todo # <<>> /\ Announced(s, setup[s].todo)
  /\ UNCHANGED <<diskVars, wanted, restarts, torn>>

(* progress: the Host may say canceled, or fail: both end the setup, and the *)
(* component that was announced stays announced.                            *)
ControlAnswered(s) ==
  /\ At(s, "control")
  /\ \/ setup' = [setup EXCEPT ![s].at = "report", ![s].row = "running"]
     \/ setup[s].hosted /\ \E row \in {"canceled", "failed"} : EndsAs(s, row)
  /\ UNCHANGED <<component, diskVars, wanted, restarts, torn>>

ReportFails(s) ==
  /\ At(s, "report") /\ setup[s].hosted /\ EndsAs(s, "failed")
  /\ UNCHANGED <<component, diskVars, wanted, restarts, torn>>

(* _build_runtime: a runtime of the same fingerprint is kept, else a staging *)
(* directory is made and its commands run.                                  *)
Reported(s) ==
  /\ At(s, "report")
  /\ \/ /\ setup[s].todo = <<>> /\ EndsAs(s, "succeeded")
        /\ UNCHANGED <<component, staged>>
     \/ /\ setup[s].todo # <<>> /\ active[Part(s)] = wanted
        /\ Announced(s, Tail(setup[s].todo)) /\ UNCHANGED staged
     \/ /\ setup[s].todo # <<>> /\ active[Part(s)] # wanted
        /\ Moved(s, "build") /\ staged' = staged \cup {<<s, Part(s)>>}
        /\ UNCHANGED component
  /\ UNCHANGED <<active, backup, wanted, restarts, torn>>

(* The last command returned: the backup goes, the active runtime becomes   *)
(* the backup, the staging directory becomes active. Nothing awaits between, *)
(* but the process may end there and the second rename may fail.            *)
BuiltDiscarding(s) ==
  /\ At(s, "build") /\ Moved(s, "swap")
  /\ backup' = [backup EXCEPT ![Part(s)] = 0]
  /\ active' = [active EXCEPT ![Part(s)] = 0]
  /\ UNCHANGED <<component, staged, wanted, restarts, torn>>

Built(s) ==
  /\ At(s, "build") /\ Moved(s, "swap")
  /\ backup' = [backup EXCEPT ![Part(s)] = active[Part(s)]]
  /\ active' = [active EXCEPT ![Part(s)] = 0]
  /\ UNCHANGED <<component, staged, wanted, restarts, torn>>

Swapped(s) ==
  /\ At(s, "swap")
  /\ active' = [active EXCEPT ![Part(s)] = wanted]
  /\ staged' = staged \ {<<s, Part(s)>>}
  /\ Announced(s, Tail(setup[s].todo))
  /\ UNCHANGED <<backup, wanted, restarts, torn>>

(* A command or a rename fails: the staging directory is removed.           *)
BuildFails(s) ==
  /\ setup[s].at \in {"build", "swap"}
  /\ staged' = staged \ {<<s, Part(s)>>}
  /\ Says(Part(s), "error") /\ EndsAs(s, "failed")
  /\ torn' = IF At(s, "swap") THEN torn + 1 ELSE torn
  /\ UNCHANGED <<active, backup, wanted, restarts>>

-----------------------------------------------------------------------------
(* The ends: reports that may fail, then the finally block.                 *)
Left(s) == setup' = [setup EXCEPT ![s].at = "over", ![s].listed = FALSE, ![s].posted = FALSE]

SetupEnds(s) ==
  /\ \/ setup[s].at \in {"success", "ending"} /\ Left(s)
     \/ At(s, "success") /\ setup[s].hosted /\ EndsAs(s, "failed")
  /\ UNCHANGED <<component, diskVars, wanted, restarts, torn>>

(* setup_cancel, cancel_job and the shutdown: whoever is listed, which they  *)
(* find where it awaits.                                                    *)
CancelSetup(s) ==
  /\ setup[s].listed /\ ~setup[s].posted
  /\ \/ setup[s].at \in {"new", "build", "stopping"}
     \/ setup[s].hosted /\ setup[s].at \in {"control", "report", "success", "ending"}
  /\ setup' = [setup EXCEPT ![s].posted = TRUE]
  /\ UNCHANGED <<component, diskVars, wanted, restarts, torn>>

(* The delivery. A task that has not begun ends without a word: its row     *)
(* stays queued and it stays listed. A command that runs is stopped first.  *)
Withdrawn(s, label, row) ==
  setup' = [setup EXCEPT ![s].posted = FALSE, ![s].at = label, ![s].row = row]

SetupStruck(s) ==
  /\ setup[s].posted
  /\ \/ At(s, "new") /\ Withdrawn(s, "over", setup[s].row)
     \/ setup[s].at \in {"control", "report", "success"}
        /\ Withdrawn(s, "ending", "canceled")
     \/ At(s, "build") /\ Withdrawn(s, "stopping", setup[s].row)
     \/ At(s, "ending") /\ Left(s)
  /\ UNCHANGED <<component, diskVars, wanted, restarts, torn>>

CommandStopped(s) ==
  /\ At(s, "stopping")
  /\ staged' = staged \ {<<s, Part(s)>>}
  /\ Says(Part(s), "missing") /\ EndsAs(s, "canceled")
  /\ UNCHANGED <<active, backup, wanted, restarts, torn>>

(* A second cancellation meets a command that is being stopped: the setup   *)
(* leaves at once and the command may still run in the staging directory,   *)
(* which is removed from under it or not altogether.                       *)
CommandLeft(s) ==
  /\ At(s, "stopping") /\ setup[s].posted
  /\ setup' = [setup EXCEPT ![s].posted = FALSE, ![s].adrift = TRUE, ![s].at = "ending",
                            ![s].row = "canceled"]
  /\ staged' \in {staged, staged \ {<<s, Part(s)>>}}
  /\ Says(Part(s), "missing")
  /\ UNCHANGED <<active, backup, wanted, restarts, torn>>

(* The process ends anywhere, and the next one, possibly of a newer version, *)
(* fails the rows that had no end. Components and directories stay.         *)
Restart ==
  /\ restarts < MaxRestarts /\ restarts' = restarts + 1
  /\ setup' = [s \in Setups |->
       IF setup[s] = NoSetup THEN NoSetup
       ELSE [setup[s] EXCEPT !.at = "over", !.listed = FALSE, !.posted = FALSE,
               !.row = IF setup[s].row \in {"queued", "running"} THEN "failed" ELSE setup[s].row]]
  /\ wanted' \in {wanted, wanted + 1}
  /\ torn' = IF \E s \in Setups : At(s, "swap") THEN torn + 1 ELSE torn
  /\ UNCHANGED <<component, diskVars>>

Swapping == \E s \in Setups : At(s, "swap")

SetupNext ==
  \/ \E s \in Setups : Swapped(s) \/ (At(s, "swap") /\ BuildFails(s))
  \/ Restart
  \/ ~Swapping /\ \E s \in Setups :
       \/ StartSetup(s) \/ BeginSetup(s) \/ ControlAnswered(s) \/ ReportFails(s) \/ Reported(s)
       \/ Built(s) \/ BuildFails(s) \/ CommandStopped(s) \/ CommandLeft(s) \/ SetupEnds(s)
       \/ CancelSetup(s) \/ SetupStruck(s)

SetupSpec == SetupInit /\ [][SetupNext]_setupVars

-----------------------------------------------------------------------------
(* A component that is reported available has a complete runtime in place,  *)
(* or at least in the backup when a swap was cut; as long as none was cut,  *)
(* what a setup that succeeded installed stays in place, whatever later     *)
(* setups of the same component do, fail or leave; and a staging directory  *)
(* outlives its setup only when the process ended, or when a second         *)
(* cancellation left its command running.                                  *)
SetupTellsTruth ==
  /\ \A c \in Components : component[c] = "available" => active[c] # 0 \/ backup[c] # 0
  /\ torn = 0 /\ ~Swapping =>
       \A s \in Setups : setup[s].row = "succeeded" =>
         \A i \in DOMAIN setup[s].asked : active[setup[s].asked[i]] # 0
  /\ restarts = 0 => \A d \in staged :
       setup[d[1]].at \in {"build", "swap", "stopping"} \/ setup[d[1]].adrift

=============================================================================
