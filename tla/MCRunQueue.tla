----------------------------- MODULE MCRunQueue -----------------------------
(* RunQueue on instances TLC can exhaust; the cfgs give the constants.     *)
EXTENDS RunQueue, TLC

(* Processes and callers are compared only for equality.                   *)
Symmetry == Permutations(Proc) \cup Permutations(Caller)
=============================================================================
