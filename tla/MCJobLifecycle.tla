--------------------------- MODULE MCJobLifecycle ---------------------------
(* Instances of JobLifecycle for TLC; the .cfg files choose the jobs.      *)
EXTENDS JobLifecycle, TLC

\* bound: in one behaviour cancel() is called for one job only
OneCanceled == \A i, j \in Jobs : cancels'[i] > 0 /\ cancels'[j] > 0 => i = j

FairOneCanceled == Init /\ [][Next /\ OneCanceled]_vars /\ Fairness
=============================================================================
