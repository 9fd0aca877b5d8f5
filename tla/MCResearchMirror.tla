-------------------------- MODULE MCResearchMirror --------------------------
(* ResearchMirror on instances TLC can exhaust.                            *)
EXTENDS ResearchMirror, TLC

(* Sweeps, drivers and requests are compared only for equality.            *)
Symmetry == Permutations(Driver) \cup Permutations(Sweeper)
            \cup Permutations(Caller)
=============================================================================
