-------------------------------- MODULE Rules --------------------------------
(* A chain of ifs that return: rules of a condition and what it gives.     *)
EXTENDS Naturals, Sequences

(* What the first rule whose condition holds gives.                        *)
FirstOf(rules) ==
  rules[CHOOSE i \in DOMAIN rules :
          rules[i][1] /\ \A k \in 1..(i - 1) : ~rules[k][1]][2]
=============================================================================
