----------------------------- MODULE Localization -----------------------------
(***************************************************************************)
(* The lines of a localization batch and the jobs that render them          *)
(* (JobManager._run_localization_batch). Of the lines and locales it is      *)
(* given a job picks what has a text and what its mode asks for, and renders *)
(* one item after the other; an item that fails is recorded and the next    *)
(* one is rendered, while a cancellation, a Host error of a progress report *)
(* or a voice that does not resolve ends the job where it is. Jobs of one   *)
(* batch run one at a time: they hold the process lock.                     *)
(*                                                                         *)
(* The text of a line never changes once the batch was created: what enters *)
(* the hash of an item is what the request says, here a number of settings. *)
(* JobLifecycle has the job's row, lease and lock.                          *)
(***************************************************************************)
EXTENDS Naturals, FiniteSets

CONSTANTS
  Lines, Locales,
  Texts,      \* the items that have a text
  Settings,   \* voice preferences, quality, routing and seed of a request
  MaxJobs     \* bound: jobs on the batch

ASSUME LocalizationAssumption ==
  /\ IsFiniteSet(Lines) /\ IsFiniteSet(Locales)
  /\ Texts \subseteq Lines \X Locales
  /\ Settings \subseteq Nat \ {0} /\ MaxJobs \in Nat

Items == Lines \X Locales
Modes == {"all", "failed", "changed", "pending"}

VARIABLES
  batch,    \* batch.state
  entries,  \* per item: qa.locales' state, input_hashes and what outputs was rendered from
  render,   \* the job under way: phase, mode, settings, what it may pick and what is left
  tally,    \* generated and failed of the job, or of the last one
  jobs      \* jobs so far

locVars == <<batch, entries, render, tally, jobs>>

NoEntry  == [state |-> "none", input |-> 0, output |-> 0]
NoRender == [phase |-> "idle", mode |-> "all", settings |-> 0, picks |-> {}, todo |-> {}]

LocInit ==
  /\ batch = "draft" /\ entries = [i \in Items |-> NoEntry]
  /\ render = NoRender /\ tally = [generated |-> 0, failed |-> 0] /\ jobs = 0

(* should_render.                                                           *)
Wanted(entry, mode, settings) ==
  \/ mode = "all"
  \/ mode = "failed" /\ entry.state = "failed"
  \/ mode = "changed" /\ (entry.output = 0 \/ entry.input # settings)
  \/ mode = "pending" /\ (entry.output = 0 \/ entry.state # "succeeded")

Snapshot ==
  /\ render.phase = "idle" /\ jobs < MaxJobs
  /\ \E mode \in Modes, settings \in Settings, lines \in SUBSET Lines,
        locales \in SUBSET Locales \ {{}} :
       LET picks == Texts \cap (lines \X locales) IN
       render' = [phase |-> "rendering", mode |-> mode, settings |-> settings, picks |-> picks,
                  todo |-> {i \in picks : Wanted(entries[i], mode, settings)}]
  /\ batch' = "rendering" /\ jobs' = jobs + 1 /\ tally' = [generated |-> 0, failed |-> 0]
  /\ UNCHANGED entries

(* An item: the line's row is read afresh, changed and committed without an *)
(* await between. A failure keeps the asset of an earlier render. The order *)
(* of the items is left open.                                              *)
ItemDone(i, entry) ==
  /\ render.phase = "rendering"
  /\ entries' = [entries EXCEPT ![i] = entry]
  /\ render' = [render EXCEPT !.todo = @ \ {i}]
  /\ UNCHANGED <<batch, jobs>>

ItemRendered ==
  \E i \in render.todo :
    /\ ItemDone(i, [state |-> "succeeded", input |-> render.settings, output |-> render.settings])
    /\ tally' = [tally EXCEPT !.generated = @ + 1]

ItemFailed ==
  \E i \in render.todo :
    /\ ItemDone(i, [state |-> "failed", input |-> render.settings, output |-> entries[i].output])
    /\ tally' = [tally EXCEPT !.failed = @ + 1]

(* The last session: the batch is judged by all of its lines.               *)
LineFailed(line) == \E c \in Locales : entries[<<line, c>>].state = "failed"

BatchEndsByTally ==
  /\ render.phase = "rendering" /\ render.todo = {}
  /\ batch' = IF tally.failed > 0 THEN "partial" ELSE "complete"
  /\ render' = [render EXCEPT !.phase = "idle"]
  /\ UNCHANGED <<entries, tally, jobs>>

BatchEnds ==
  /\ render.phase = "rendering" /\ render.todo = {}
  /\ batch' = IF \E line \in Lines : LineFailed(line) THEN "partial" ELSE "complete"
  /\ render' = [render EXCEPT !.phase = "idle"]
  /\ UNCHANGED <<entries, tally, jobs>>

(* A cancellation, an error that is not the item's, or the end of the       *)
(* process: the batch keeps saying rendering.                              *)
BatchAborts ==
  /\ render.phase = "rendering"
  /\ render' = NoRender
  /\ UNCHANGED <<batch, entries, tally, jobs>>

LocNext == Snapshot \/ ItemRendered \/ ItemFailed \/ BatchEnds \/ BatchAborts

LocSpec == LocInit /\ [][LocNext]_locVars

-----------------------------------------------------------------------------
(* What the rows of a batch say is true of its assets after any sequence of *)
(* jobs that ended, failed or were cut: an item that succeeded has an asset *)
(* rendered from the settings on record; a batch is partial exactly when an *)
(* item failed; and once a job in mode pending went through every line and  *)
(* locale without a failure, every item that has a text has succeeded.     *)
BatchTellsTruth ==
  /\ \A i \in Items : entries[i].state = "succeeded" =>
       entries[i].output = entries[i].input /\ entries[i].output # 0
  /\ batch = "partial" => \E line \in Lines : LineFailed(line)
  /\ batch = "complete" => \A line \in Lines : ~LineFailed(line)
  /\ batch \in {"partial", "complete"} /\ render.mode = "pending" /\ render.picks = Texts
       /\ tally.failed = 0 =>
       \A i \in Texts : entries[i].state = "succeeded"

=============================================================================
