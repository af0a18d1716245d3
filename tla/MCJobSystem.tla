---------------------------- MODULE MCJobSystem -----------------------------
(* The job system for TLC: model values for every set, with symmetry.      *)
EXTENDS JobSystem, TLC

Symmetry ==
  Permutations(Jobs) \cup Permutations(Workers) \cup Permutations(Requests)
    \cup Permutations(Addresses) \cup Permutations(Uploads)
=============================================================================
