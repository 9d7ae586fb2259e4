------------------------------- MODULE LivePool -------------------------------
(***************************************************************************)
(* What one live or meeting socket owns while it is open: the Host side of  *)
(* it (LiveHostSession: a Host Job, a lease per loaded worker, a hold on    *)
(* the Host's language model) and its loaded workers (LiveWorkerPool).      *)
(*                                                                         *)
(* A socket uses its pool from one task at a time, so there is one call     *)
(* under way, `op`; LiveTurn and Meeting are the two callers. A step is     *)
(* what the caller runs between two suspensions, an answer of the Host, or  *)
(* a step of a worker process. Lines of a worker carry the request they     *)
(* answer; what they say is left out. Identities, credentials and the Job's *)
(* credential heartbeat are left out: they decide no branch but errors,     *)
(* which are there.                                                        *)
(***************************************************************************)
EXTENDS Naturals, Sequences, FiniteSets

CONSTANTS
  Gpu,        \* worker keys whose engine needs the GPU: they take a lease
  WantsHold,  \* keep_llm_warm of the session
  MaxFaults   \* bound: failures of any kind injected into one behaviour

Keys == {"asr", "tts"}

ASSUME PoolAssumption == /\ Gpu \subseteq Keys
                         /\ WantsHold \in BOOLEAN
                         /\ MaxFaults \in Nat

VARIABLES
  faults,    \* failures so far
  misled,    \* a Host call failed, or the Host took a lease or a hold away
  hostJob,   \* the Host Job of the session
  leases,    \* keys in `_leases`
  broker,    \* the Broker's record of a key's request, as far as the session knows of it
  hold,      \* `hold_id` is set
  holds,     \* holds of this session at the Host
  beat,      \* the hold's heartbeat task
  pooled,    \* keys in `_workers`
  proc,      \* the worker process of a key
  op,        \* the pool or hold operation under way, or "stranded": a close was cut off
  asked,     \* requests written so far: the last request id
  poolOpen,  \* ~_closed of the pool
  open       \* ~_closed of the session

hostVars == <<hostJob, leases, broker>>
holdVars == <<hold, holds, beat>>
workVars == <<pooled, proc, poolOpen, open, asked>>
poolVars == <<faults, misled, hostVars, holdVars, workVars, op>>

NoProc == [alive |-> FALSE, todo |-> <<>>, lines |-> <<>>]
NoOp   == [step |-> "none", key |-> "asr", fast |-> FALSE, again |-> FALSE,
           id |-> 0, result |-> "none", answer |-> 0]

Requested == {"queued", "granted", "active"}

PoolTypeOK ==
  /\ faults \in 0..MaxFaults /\ misled \in BOOLEAN
  /\ hostJob \in {"none", "open", "succeeded", "failed", "canceled"}
  /\ leases \subseteq Gpu
  /\ broker \in [Keys -> Requested \cup {"none", "lapsed"}]
  /\ hold \in BOOLEAN /\ holds \in Nat /\ beat \in {"off", "on", "recreating"}
  /\ pooled \subseteq Keys
  /\ op.step \in {"none", "asking", "polling", "activating", "room", "clearing", "evicting",
                  "admitting", "spawning", "reading", "holding", "dropping", "returned",
                  "stranded"}

PoolInit ==
  /\ faults = 0 /\ misled = FALSE
  /\ hostJob = "none" /\ leases = {}
  /\ broker = [k \in Keys |-> "none"]
  /\ hold = FALSE /\ holds = 0 /\ beat = "off"
  /\ pooled = {} /\ proc = [k \in Keys |-> NoProc] /\ asked = 0
  /\ op = NoOp /\ poolOpen = TRUE /\ open = TRUE

(* A failure of a Host call, and one of anything else.                     *)
HostFault == faults < MaxFaults /\ faults' = faults + 1 /\ misled' = TRUE
Fault     == faults < MaxFaults /\ faults' = faults + 1 /\ UNCHANGED misled
Well      == UNCHANGED <<faults, misled>>

Return(result) == op' = [op EXCEPT !.step = "returned", !.result = result]

-----------------------------------------------------------------------------
(* release_worker_lease: the lease is forgotten, its renewal cancelled and  *)
(* the Broker told. An error of that call is swallowed: the Broker then     *)
(* keeps the lease until it runs out, which the session does not know.      *)
ReleaseLease(k) ==
  /\ leases' = leases \ {k}
  /\ UNCHANGED hostJob
  /\ IF k \notin leases
     THEN UNCHANGED broker /\ Well
     ELSE /\ broker' = [broker EXCEPT ![k] = "none"]
          /\ Well \/ HostFault

(* acquire_worker_lease up to its first await. A key that is leased or needs *)
(* no GPU is admitted at once.                                              *)
Acquire(o) ==
  IF o.key \in leases \/ o.key \notin Gpu
  THEN op' = [o EXCEPT !.step = "spawning"] /\ UNCHANGED broker
  ELSE /\ op' = [o EXCEPT !.step = "asking"]
       /\ broker' = [broker EXCEPT ![o.key] = "queued"]

(* _admit: a key is asked for with fail_fast while any worker is loaded.    *)
Admit(o) == Acquire([o EXCEPT !.fast = o.fast \/ pooled # {}])

(* execute() up to its first await: _start returns a worker that lives and  *)
(* runs the wanted engine, evicts another, else asks for admission. The     *)
(* request is written under the worker's lock, which is free: one call is   *)
(* under way. Writing to one that died may fail; it stays loaded.           *)
Write(k, o) ==
  /\ asked' = asked + 1
  /\ op' = [o EXCEPT !.step = "reading", !.id = asked + 1]
  /\ proc' = [proc EXCEPT ![k].todo = Append(@, asked + 1)]

Execute(k, fast) ==
  LET o == [NoOp EXCEPT !.key = k, !.fast = fast] IN
  /\ op = NoOp
  /\ UNCHANGED <<faults, misled, hostJob, leases, holdVars, poolOpen, open>>
  /\ \/ /\ ~poolOpen
        /\ op' = [o EXCEPT !.step = "returned", !.result = "error"]
        /\ UNCHANGED <<broker, pooled, proc, asked>>
     \/ /\ poolOpen /\ k \in pooled /\ proc[k].alive
        /\ Write(k, o) /\ UNCHANGED <<broker, pooled>>
     \/ /\ poolOpen /\ k \in pooled /\ ~proc[k].alive     \* it died, and is not reaped yet
        /\ asked' = asked + 1
        /\ \/ op' = [o EXCEPT !.step = "reading", !.id = asked + 1]
           \/ op' = [o EXCEPT !.step = "returned", !.id = asked + 1, !.result = "error"]
        /\ UNCHANGED <<broker, pooled, proc>>
     \/ /\ poolOpen /\ k \in pooled     \* it is dead, or of another engine
        /\ op' = [o EXCEPT !.step = "clearing"] /\ pooled' = pooled \ {k}
        /\ UNCHANGED <<broker, proc, asked>>
     \/ /\ poolOpen /\ k \notin pooled
        /\ Admit(o) /\ UNCHANGED <<pooled, proc, asked>>

(* evict() and _evict up to the wait for the process: the worker leaves the *)
(* pool first. With none loaded only the lease is released.                 *)
Evict(k) ==
  /\ op = NoOp
  /\ op' = [NoOp EXCEPT !.step = "evicting", !.key = k]
  /\ pooled' = pooled \ {k}
  /\ UNCHANGED <<faults, misled, hostVars, holdVars, proc, asked, poolOpen, open>>

(* The rest of _evict: the process ended or was terminated, then its lease  *)
(* is released.                                                            *)
Gone(k) == proc' = [proc EXCEPT ![k] = NoProc] /\ ReleaseLease(k)

Evicted ==
  /\ op.step = "evicting" /\ Gone(op.key) /\ Return("ok")
  /\ UNCHANGED <<holdVars, pooled, asked, poolOpen, open>>

(* The worker of the same key was evicted: ask for admission afresh.        *)
Cleared ==
  /\ op.step = "clearing"
  /\ Gone(op.key)
  /\ op' = [op EXCEPT !.step = "admitting"]
  /\ UNCHANGED <<holdVars, pooled, asked, poolOpen, open>>

Admitting ==
  /\ op.step = "admitting" /\ Admit(op)
  /\ UNCHANGED <<faults, misled, hostJob, leases, holdVars, workVars>>

-----------------------------------------------------------------------------
(* The answers to request_resource and resource_status.                     *)
Granted ==
  /\ op.step \in {"asking", "polling"}
  /\ broker' = [broker EXCEPT ![op.key] = "granted"]
  /\ op' = [op EXCEPT !.step = "activating"]
  /\ Well /\ UNCHANGED <<hostJob, leases, holdVars, workVars>>

Queued ==
  /\ op.step = "asking" /\ ~op.fast
  /\ op' = [op EXCEPT !.step = "polling"]
  /\ Well /\ UNCHANGED <<hostVars, holdVars, workVars>>

(* "rejected" with a loaded peer: the first attempt stops the peer before   *)
(* its lease is released and asks again, patiently. Else it is an error.    *)
Peers == pooled \ {op.key}

RejectedReleasing ==
  /\ op.step \in {"asking", "polling"}
  /\ IF op.again \/ pooled = {}
     THEN /\ Return("rejected") /\ UNCHANGED <<leases, pooled>>
          /\ broker' = [broker EXCEPT ![op.key] = "none"]
     ELSE /\ op' = [op EXCEPT !.step = "room"] /\ pooled' = pooled \ Peers
          /\ leases' = leases \ Peers
          /\ broker' = [k \in Keys |-> IF k \in Peers \cup {op.key} THEN "none" ELSE broker[k]]
  /\ Well /\ UNCHANGED <<hostJob, holdVars, proc, asked, poolOpen, open>>

Rejected ==
  /\ op.step \in {"asking", "polling"}
  /\ broker' = [broker EXCEPT ![op.key] = "none"]
  /\ IF op.again \/ pooled = {}
     THEN Return("rejected") /\ UNCHANGED pooled
     ELSE op' = [op EXCEPT !.step = "room"] /\ pooled' = pooled \ Peers
  /\ Well /\ UNCHANGED <<hostJob, leases, holdVars, proc, asked, poolOpen, open>>

RoomMade ==
  /\ op.step = "room"
  /\ \E p \in Keys \ {op.key} : Gone(p)
  /\ op' = [op EXCEPT !.step = "admitting", !.again = TRUE, !.fast = FALSE]
  /\ UNCHANGED <<holdVars, pooled, asked, poolOpen, open>>

(* "canceled" or "expired", or the call itself fails; the Broker may keep   *)
(* the request of a call that failed.                                      *)
Forget(k) ==
  /\ broker' = [broker EXCEPT ![k] = "none"]
  /\ UNCHANGED <<hostJob, leases>>

AdmissionLost ==
  /\ op.step \in {"asking", "polling", "activating"}
  /\ Forget(op.key)
  /\ HostFault
  /\ Return("error")
  /\ UNCHANGED <<holdVars, workVars>>

Activated ==
  /\ op.step = "activating"
  /\ broker' = [broker EXCEPT ![op.key] = "active"]
  /\ leases' = leases \cup {op.key}
  /\ op' = [op EXCEPT !.step = "spawning"]
  /\ Well /\ UNCHANGED <<hostJob, holdVars, workVars>>

(* create_subprocess_exec: a worker that does not start gives its lease back. *)
Spawned ==
  /\ op.step = "spawning"
  /\ pooled' = pooled \cup {op.key}
  /\ asked' = asked + 1
  /\ proc' = [proc EXCEPT ![op.key] = [alive |-> TRUE, todo |-> <<asked + 1>>, lines |-> <<>>]]
  /\ op' = [op EXCEPT !.step = "reading", !.id = asked + 1]
  /\ Well /\ UNCHANGED <<hostVars, holdVars, poolOpen, open>>

SpawnFailed ==
  /\ op.step = "spawning"
  /\ faults < MaxFaults /\ faults' = faults + 1 /\ UNCHANGED misled
  /\ leases' = leases \ {op.key}
  /\ broker' = [broker EXCEPT ![op.key] = "none"]
  /\ Return("error")
  /\ UNCHANGED <<hostJob, holdVars, workVars>>

-----------------------------------------------------------------------------
(* A worker process: it answers its requests in order, reports progress, may *)
(* print a line that is no event, and may die.                              *)
Line(k, kind) == [id |-> Head(proc[k].todo), kind |-> kind]

Emit(k, lines) ==
  /\ proc[k].alive /\ proc[k].todo # <<>>
  /\ proc' = [proc EXCEPT ![k].lines = @ \o lines, ![k].todo = Tail(@)]
  /\ UNCHANGED <<hostVars, holdVars, pooled, asked, poolOpen, open, op>>

Answers(k)   == Emit(k, <<Line(k, "progress"), Line(k, "result")>>) /\ Well
Refuses(k)   == Emit(k, <<Line(k, "error")>>) /\ Fault
Babbles(k)   == Emit(k, <<Line(k, "noise"), Line(k, "result")>>) /\ Fault

Dies(k) ==
  /\ proc[k].alive /\ Fault
  /\ proc' = [proc EXCEPT ![k].alive = FALSE, ![k].todo = <<>>]
  /\ UNCHANGED <<hostVars, holdVars, pooled, asked, poolOpen, open, op>>

(* One line of the answer. A line that is no event, or that answers another *)
(* request, is an error; the worker stays loaded.                           *)
NextLine == Head(proc[op.key].lines)

OwnUnchecked == NextLine.kind # "noise"

Own == NextLine.id = op.id /\ NextLine.kind # "noise"

Read ==
  /\ op.step = "reading" /\ proc[op.key].lines # <<>>
  /\ proc' = [proc EXCEPT ![op.key].lines = Tail(@)]
  /\ op' = CASE ~Own -> [op EXCEPT !.step = "returned", !.result = "error"]
             [] Own /\ NextLine.kind = "progress" -> op
             [] Own /\ NextLine.kind = "error" -> [op EXCEPT !.step = "returned", !.result = "error"]
             [] Own /\ NextLine.kind = "result" ->
                  [op EXCEPT !.step = "returned", !.result = "ok", !.answer = NextLine.id]
  /\ Well /\ UNCHANGED <<hostVars, holdVars, pooled, asked, poolOpen, open>>

(* The caller's progress callback raises: execute() ends between two lines. *)
ReportFailed ==
  /\ op.step = "reading" /\ proc[op.key].lines # <<>> /\ Own /\ NextLine.kind = "progress"
  /\ HostFault
  /\ proc' = [proc EXCEPT ![op.key].lines = Tail(@)]
  /\ Return("error")
  /\ UNCHANGED <<hostVars, holdVars, pooled, asked, poolOpen, open>>

(* End of output: the worker leaves the pool and its lease is released.     *)
EndOfOutput ==
  /\ op.step = "reading" /\ proc[op.key].lines = <<>> /\ ~proc[op.key].alive
  /\ pooled' = pooled \ {op.key}
  /\ Gone(op.key)
  /\ Return("error")
  /\ UNCHANGED <<holdVars, asked, poolOpen, open>>

(* The renewal task of a lease ends at its first error and nobody notices:  *)
(* the lease runs out.                                                     *)
Lapses(k) ==
  /\ broker[k] = "active" /\ HostFault
  /\ broker' = [broker EXCEPT ![k] = "lapsed"]
  /\ UNCHANGED <<hostJob, leases, holdVars, workVars, op>>

-----------------------------------------------------------------------------
(* LiveHostSession.start: the Host Job of the session.                      *)
StartSession ==
  /\ hostJob = "none" /\ hostJob' = "open"
  /\ UNCHANGED <<faults, misled, leases, broker, holdVars, workVars, op>>

(* ensure_llm_hold / _start_llm_hold, called by the owner of the socket.    *)
EnsureHold ==
  /\ op = NoOp
  /\ op' = IF WantsHold /\ ~hold THEN [NoOp EXCEPT !.step = "holding"]
           ELSE [NoOp EXCEPT !.step = "returned", !.result = "ok"]
  /\ UNCHANGED <<faults, misled, hostVars, holdVars, workVars>>

Created == /\ hold' = TRUE /\ beat' = "on" /\ holds' = holds + 1

HoldCreated ==
  /\ op.step = "holding" /\ Created /\ Return("ok")
  /\ Well /\ UNCHANGED <<hostVars, workVars>>

HoldRefused ==
  /\ op.step = "holding" /\ HostFault
  /\ \/ Return("ok")       \* 404, 409, 503 or not held: go on without one
     \/ Return("error")
  /\ UNCHANGED <<hostVars, holdVars, workVars>>

(* _hold_heartbeat: the Host lost the hold and it is created again, or the  *)
(* heartbeat ends and the id stays.                                         *)
HoldLost ==
  /\ beat = "on" /\ hold /\ holds > 0 /\ HostFault
  /\ holds' = holds - 1
  /\ \/ hold' = FALSE /\ beat' = "recreating"
     \/ beat' = "off" /\ UNCHANGED hold
  /\ UNCHANGED <<hostVars, workVars, op>>

HoldRecreated ==
  /\ beat = "recreating"
  /\ \/ Created
     \/ beat' = "off" /\ UNCHANGED <<hold, holds>>
  /\ Well /\ UNCHANGED <<hostVars, workVars, op>>

(* release_llm_hold: the heartbeat is cancelled, the id forgotten, the Host *)
(* told; an error of the release is swallowed. A heartbeat that was creating *)
(* the hold again may have done so at the Host.                            *)
BeatEnds ==
  /\ beat' = "off"
  /\ holds' \in {holds} \cup (IF beat = "recreating" THEN {holds + 1} ELSE {})

DropHold ==
  /\ hold' = FALSE
  /\ IF hold /\ holds > 0
     THEN /\ beat' = "off"
          /\ \/ holds' = holds - 1 /\ Well
             \/ UNCHANGED holds /\ HostFault
     ELSE BeatEnds /\ Well

ReleaseHold ==
  /\ op = NoOp
  /\ BeatEnds
  /\ op' = [NoOp EXCEPT !.step = "dropping"]
  /\ UNCHANGED <<faults, misled, hold, hostVars, workVars>>

HoldDropped ==
  /\ op.step = "dropping" /\ DropHold /\ Return("ok")
  /\ UNCHANGED <<hostVars, workVars>>

-----------------------------------------------------------------------------
(* A cancellation is thrown into the operation: what it leaves behind.      *)
(* Before a lease is in `_leases` the Broker's record is forgotten; in      *)
(* _evict the finally block kills the process and releases the lease, or    *)
(* the release itself is cut off; a worker that was asked stays loaded; the  *)
(* id of a hold is forgotten before the Host is told.                       *)
Abandon ==
  /\ op' = NoOp
  /\ \/ /\ op.step \in {"asking", "polling", "activating"}
        /\ Forget(op.key)
        /\ Well /\ UNCHANGED <<holdVars, workVars>>
     \/ /\ op.step \in {"clearing", "evicting", "room"}
        /\ \E k \in (IF op.step = "room" THEN Keys \ {op.key} ELSE {op.key}) :
             /\ proc' = [proc EXCEPT ![k] = NoProc]
             /\ leases' = leases \ {k}
             /\ broker' = [broker EXCEPT ![k] = "none"]
        /\ Well /\ UNCHANGED <<hostJob, holdVars, pooled, asked, poolOpen, open>>
     \/ /\ op.step = "spawning"
        /\ leases' = leases \ {op.key}
        /\ broker' = [broker EXCEPT ![op.key] = "none"]
        /\ Well /\ UNCHANGED <<hostJob, holdVars, workVars>>
     \/ /\ op.step = "reading"
        /\ Well /\ UNCHANGED <<hostVars, holdVars, workVars>>
     \/ /\ op.step = "holding"
        /\ holds' \in {holds, holds + 1}
        /\ misled' = TRUE
        /\ UNCHANGED <<faults, hostVars, hold, beat, workVars>>
     \/ /\ op.step = "dropping"            \* the heartbeat stopped, the id is kept
        /\ Well /\ UNCHANGED <<hostVars, holdVars, workVars>>
     \/ /\ op.step = "dropping"            \* the call was cut, and may have reached the Host
        /\ hold' = FALSE /\ misled' = TRUE
        /\ holds' \in {holds} \cup (IF hold /\ holds > 0 THEN {holds - 1} ELSE {})
        /\ UNCHANGED <<faults, hostVars, beat, workVars>>

-----------------------------------------------------------------------------
(* LiveWorkerPool.close: no new worker from here on, and each is evicted.   *)
ShutPool == poolOpen' = FALSE /\ UNCHANGED <<pooled, proc, open, asked>>

CloseOne(k) ==
  /\ ~poolOpen /\ k \in pooled /\ op = NoOp
  /\ pooled' = pooled \ {k}
  /\ Gone(k)
  /\ UNCHANGED <<holdVars, asked, poolOpen, open, op>>

(* LiveHostSession.close: tasks cancelled, what leases are left released,   *)
(* the hold released, the Host Job ended; errors of the Host are swallowed. *)
CloseSession(failed) ==
  /\ open /\ open' = FALSE
  /\ leases' = {}
  /\ broker' = [k \in Keys |-> IF k \in leases THEN "none" ELSE broker[k]]
  /\ DropHold
  /\ hostJob' \in (IF hostJob # "open" THEN {hostJob}
                   ELSE {IF failed THEN "failed" ELSE "succeeded"}
                        \cup (IF misled' THEN {"open"} ELSE {}))
  /\ UNCHANGED <<pooled, proc, poolOpen, asked, op>>

-----------------------------------------------------------------------------
(* Steps no caller takes: answers, processes, heartbeats.                   *)
Background ==
  \/ \E k \in Keys : Answers(k) \/ Refuses(k) \/ Babbles(k) \/ Dies(k)
  \/ \E k \in Keys : Lapses(k)
  \/ HoldLost \/ HoldRecreated

Operation ==
  \/ Evicted \/ Cleared \/ Admitting
  \/ Granted \/ Queued \/ Rejected \/ RoomMade \/ AdmissionLost \/ Activated
  \/ Spawned \/ SpawnFailed
  \/ Read \/ ReportFailed \/ EndOfOutput
  \/ HoldCreated \/ HoldRefused \/ HoldDropped

-----------------------------------------------------------------------------
(* A worker that lives on the GPU has its lease: it is admitted before it   *)
(* starts and its lease goes back only after it is gone. Only the Host, or  *)
(* a renewal that failed, takes the lease from under a living worker, and   *)
(* a cancellation that cuts close() off where nobody takes it up again.     *)
WorkerUnderLease ==
  op.step # "stranded" =>
    \A k \in Gpu : proc[k].alive => broker[k] = "active" \/ (misled /\ broker[k] = "lapsed")

(* A closed session has no worker and no lease, and if the Host answered    *)
(* every call, no hold and no open Host Job.                                *)
GivesBack ==
  ~open =>
    /\ leases = {} /\ \A k \in Keys : broker[k] \notin {"granted", "active"}
    /\ op.step # "stranded" => pooled = {} /\ \A k \in Keys : ~proc[k].alive
    /\ ~misled => holds = 0 /\ hostJob # "open"

=============================================================================
