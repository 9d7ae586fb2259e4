--------------------------- MODULE MCWarmWorkers ---------------------------
(* Instances of WarmWorkers for TLC; the .cfg files choose the engines.    *)
EXTENDS WarmWorkers, TLC

ProcSymmetry == Permutations(Procs)
=============================================================================
