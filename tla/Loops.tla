------------------------------- MODULE Loops --------------------------------
(***************************************************************************)
(* Loops that go through a list: one that appends for some of its places,  *)
(* a filter and a map in one, and one that adds up; and a sort.  The       *)
(* recursion is over a function, which TLC evaluates and the provers can   *)
(* reason about.                                                           *)
(***************************************************************************)
EXTENDS Integers, Sequences, FiniteSets

(* value at the places among 1..n, in their order.                         *)
Picked(n, places, value) ==
  LET picked[k \in 0..n] ==
        IF k = 0 THEN <<>>
        ELSE IF k \in places THEN Append(picked[k - 1], value[k])
        ELSE picked[k - 1]
  IN  picked[n]

(* The sum of value at 1..n.                                               *)
Summed(n, value) ==
  LET summed[k \in 0..n] == IF k = 0 THEN 0 ELSE summed[k - 1] + value[k]
  IN  summed[n]

(* A set as a sequence: of each of its elements, the ones before it, in a  *)
(* strict total order.                                                     *)
InOrder(before) ==
  [k \in 1..Cardinality(DOMAIN before) |->
     CHOOSE x \in DOMAIN before : Cardinality(before[x]) = k - 1]
=============================================================================
