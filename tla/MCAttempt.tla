----------------------------- MODULE MCAttempt ------------------------------
(* An attempt for TLC: every hundredth as a fraction, one below zero and   *)
(* one above one.                                                          *)
EXTENDS Attempt, TLC

EveryFraction == -1..101

Symmetry == Permutations(Attempts)
=============================================================================
