---------------------------- MODULE JobContract ----------------------------
(***************************************************************************)
(* What SonicForge promises of a durable job, without its tasks, Host and  *)
(* Broker: it is accepted, starts at most once, ends once, and the state   *)
(* it ended in is final.  The rows db.py keeps, and the states cancel(),   *)
(* wait() and start-up of the code distinguish.                            *)
(***************************************************************************)
CONSTANT Jobs
VARIABLE state

Final == {"succeeded", "failed", "canceled"}

Init == state = [j \in Jobs |-> "absent"]

Becomes(j, from, to) == state[j] = from /\ state' = [state EXCEPT ![j] = to]

Accept(j)   == Becomes(j, "absent", "queued")
Start(j)    == Becomes(j, "queued", "running")
Withdraw(j) == Becomes(j, "queued", "canceled")
Finish(j)   == \E s \in Final : Becomes(j, "running", s)

\* A restart fails everything that was unfinished at once.
Abandon ==
  \E lost \in SUBSET {j \in Jobs : state[j] \in {"queued", "running"}} :
    state' = [j \in Jobs |-> IF j \in lost THEN "failed" ELSE state[j]]

Next == (\E j \in Jobs : Accept(j) \/ Start(j) \/ Withdraw(j) \/ Finish(j)) \/ Abandon

Spec == Init /\ [][Next]_state
=============================================================================
