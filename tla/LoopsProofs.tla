---------------------------- MODULE LoopsProofs -----------------------------
(***************************************************************************)
(* What the loops of Loops compute, for lists of any length, and what      *)
(* InOrder gives of a set: facts that the theorems about the stages and    *)
(* the views rest on.  What holds of every prefix of a list is shown by    *)
(* the induction of Everywhere, over a set of numbers.                     *)
(***************************************************************************)
EXTENDS Loops, FiniteSetsExt, FiniteSetTheorems, TLAPS, WellFoundedInduction,
        SequenceTheorems

-----------------------------------------------------------------------------
(* Induction over the natural numbers, for a set of them.                  *)
LEMMA Everywhere ==
  ASSUME NEW T, 0 \in T,
         \A n \in Nat : n \in T => (n + 1) \in T
  PROVE  Nat \subseteq T
<1> DEFINE R == Nat \ T
<1> SUFFICES ASSUME R # {} PROVE FALSE
  OBVIOUS
<1>1. R \subseteq Nat
  OBVIOUS
<1>2. PICK i \in R : \A k \in R : ~(<<k, i>> \in OpToRel(<, Nat))
  <2> HIDE DEF R
  <2> QED
    BY <1>1, NatLessThanWellFounded, WFMin, Zenon
<1>3. \A k \in R : ~(k < i)
  BY <1>1, <1>2 DEF OpToRel
<1>4. CASE i = 0
  BY <1>4
<1>5. CASE i # 0
  <2>1. i - 1 \in Nat /\ i - 1 < i /\ (i - 1) + 1 = i
    BY <1>5
  <2>2. i - 1 \in T
    BY <1>3, <2>1
  <2> QED
    BY <2>1, <2>2
<1> QED
  BY <1>4, <1>5

-----------------------------------------------------------------------------
(* The greatest and the least of a set of numbers.                         *)
LEMMA LeastOf ==
  ASSUME NEW S, S \subseteq Nat, S # {}
  PROVE  \E i \in S : \A x \in S : i <= x
<1>0. S \subseteq Nat /\ S # {}
  OBVIOUS
<1>1. PICK i \in S : \A k \in S : ~(<<k, i>> \in OpToRel(<, Nat))
  BY <1>0, NatLessThanWellFounded, WFMin, Zenon
<1>2. \A k \in S : ~(k < i)
  BY <1>0, <1>1 DEF OpToRel
<1>3. i \in Nat
  BY <1>0
<1> QED
  BY <1>0, <1>2, <1>3

LEMMA LeastIs ==
  ASSUME NEW S, S \subseteq Nat, S # {}
  PROVE  /\ Min(S) \in S
         /\ \A x \in S : Min(S) <= x
<1>1. PICK i \in S : \A x \in S : i <= x
  BY LeastOf, Zenon
<1>2. Min(S) \in S /\ \A x \in S : Min(S) =< x
  BY <1>1, Zenon DEF Min
<1> QED
  BY <1>2

LEMMA GreatestOf ==
  ASSUME NEW S \in SUBSET Int, S # {}, NEW top \in Int, \A x \in S : x <= top
  PROVE  \E i \in S : \A x \in S : x <= i
<1> DEFINE R == {top - x : x \in S}
<1>1. R \subseteq Nat /\ R # {}
  <2>1. \A x \in S : top - x \in Nat
    OBVIOUS
  <2>2. PICK x \in S : TRUE
    OBVIOUS
  <2> QED
    BY <2>1, <2>2
<1> HIDE DEF R
<1>2. PICK d \in R : \A e \in R : d <= e
  BY <1>1, LeastOf
<1>3. PICK i \in S : d = top - i
  BY DEF R
<1>4. \A x \in S : x <= i
  <2> SUFFICES ASSUME NEW x \in S PROVE x <= i
    OBVIOUS
  <2>1. top - x \in R
    BY DEF R
  <2>2. top - i <= top - x
    BY <1>2, <1>3, <2>1
  <2> QED
    BY <2>2
<1> QED
  BY <1>4

LEMMA GreatestIs ==
  ASSUME NEW S \in SUBSET Int, S # {}, NEW top \in Int, \A x \in S : x <= top
  PROVE  /\ Max(S) \in S
         /\ \A x \in S : x <= Max(S)
<1>1. PICK i \in S : \A x \in S : x <= i
  BY GreatestOf
<1>2. \A x \in S : i >= x
  BY <1>1
<1>3. Max(S) \in S /\ \A x \in S : Max(S) >= x
  BY <1>2, Zenon DEF Max
<1> QED
  BY <1>3

(* A finite set of whole numbers has a least one.                          *)
LEMMA FiniteLeast ==
  ASSUME NEW S, IsFiniteSet(S), S \subseteq Int, S # {}
  PROVE  \E i \in S : \A x \in S : i <= x
<1> DEFINE T == {n \in Nat : \A R \in SUBSET Int :
                   IsFiniteSet(R) /\ Cardinality(R) = n /\ R # {} =>
                     \E i \in R : \A x \in R : i <= x}
<1>1. 0 \in T
  BY FS_EmptySet
<1>2. ASSUME NEW n \in Nat, n \in T PROVE (n + 1) \in T
  <2> SUFFICES ASSUME NEW R \in SUBSET Int, IsFiniteSet(R), Cardinality(R) = n + 1, R # {}
               PROVE  \E i \in R : \A x \in R : i <= x
    OBVIOUS
  <2>1. PICK y \in R : TRUE
    OBVIOUS
  <2> DEFINE Q == R \ {y}
  <2>2. IsFiniteSet(Q) /\ Cardinality(Q) = n /\ Q \in SUBSET Int
    <3>1. IsFiniteSet(R \ {y}) /\ Cardinality(R \ {y}) = Cardinality(R) - 1
      BY FS_RemoveElement
    <3> QED
      BY <3>1
  <2>3. CASE Q = {}
    <3>1. \A x \in R : x = y
      BY <2>3
    <3> QED
      BY <3>1
  <2>4. CASE Q # {}
    <3>1. PICK i \in Q : \A x \in Q : i <= x
      BY <1>2, <2>2, <2>4
    <3>2. CASE i <= y
      BY <3>1, <3>2
    <3>3. CASE ~(i <= y)
      BY <3>1, <3>3
    <3> QED
      BY <3>2, <3>3
  <2> QED
    BY <2>3, <2>4
<1> HIDE DEF T
<1>3. Cardinality(S) \in T
  BY <1>1, <1>2, Everywhere, FS_CardinalityType
<1> QED
  BY <1>3 DEF T

(* The values of a function on a finite set are finitely many.             *)
LEMMA ImageFinite ==
  ASSUME NEW S, IsFiniteSet(S), NEW f, NEW T, T = {f[x] : x \in S}
  PROVE  IsFiniteSet(T)
<1> DEFINE g == [x \in S |-> f[x]]
<1>1. g \in Surjection(S, T)
  BY DEF Surjection
<1> QED
  BY <1>1, FS_Surjection

(* A finite set of whole numbers has a greatest one, which Max is.         *)
LEMMA FiniteGreatest ==
  ASSUME NEW S, IsFiniteSet(S), S \subseteq Int, S # {}
  PROVE  Max(S) \in S /\ \A x \in S : x <= Max(S)
<1> DEFINE minus == [x \in S |-> 0 - x]
           R == {minus[x] : x \in S}
<1>1. IsFiniteSet(R) /\ R \subseteq Int /\ R # {}
  <2>1. IsFiniteSet(R)
    <3> HIDE DEF minus
    <3> QED
      BY ImageFinite
  <2>2. \A x \in S : minus[x] \in Int
    OBVIOUS
  <2> HIDE DEF minus
  <2> QED
    BY <2>1, <2>2
<1> HIDE DEF R
<1>2. PICK r \in R : \A x \in R : r <= x
  BY <1>1, FiniteLeast
<1>3. PICK i \in S : r = 0 - i
  BY DEF R
<1>4. \A x \in S : i >= x
  <2> SUFFICES ASSUME NEW x \in S PROVE i >= x
    OBVIOUS
  <2>1. 0 - x \in R
    BY DEF R
  <2> QED
    BY <1>2, <1>3, <2>1
<1>5. Max(S) \in S /\ \A x \in S : Max(S) >= x
  BY <1>4, Zenon DEF Max
<1> QED
  BY <1>5

-----------------------------------------------------------------------------
(* Sorting: a strict total order of a finite set, given for each element   *)
(* by what comes before it.                                                *)
Sorts(before, S) ==
  /\ before \in [S -> SUBSET S]
  /\ \A x \in S : x \notin before[x]
  /\ \A x, y \in S : x \in before[y] => before[x] \subseteq before[y]
  /\ \A x, y \in S : x = y \/ x \in before[y] \/ y \in before[x]

LEMMA RankIs ==
  ASSUME NEW S, IsFiniteSet(S), NEW before, Sorts(before, S),
         NEW x \in S
  PROVE  /\ IsFiniteSet(before[x])
         /\ Cardinality(before[x]) \in 0..(Cardinality(S) - 1)
<1>1. before[x] \in SUBSET S /\ x \notin before[x]
  BY DEF Sorts
<1>2. before[x] \in SUBSET (S \ {x})
  BY <1>1
<1>3. IsFiniteSet(S \ {x}) /\ Cardinality(S \ {x}) = Cardinality(S) - 1
  BY FS_RemoveElement
<1>4. IsFiniteSet(before[x]) /\ Cardinality(before[x]) <= Cardinality(S \ {x})
  BY <1>2, <1>3, FS_Subset
<1>5. Cardinality(before[x]) \in Nat /\ Cardinality(S) \in Nat
  BY <1>4, FS_CardinalityType
<1> QED
  BY <1>3, <1>4, <1>5

LEMMA RankRises ==
  ASSUME NEW S, IsFiniteSet(S), NEW before, Sorts(before, S),
         NEW x \in S, NEW y \in S, x \in before[y]
  PROVE  Cardinality(before[x]) < Cardinality(before[y])
<1>1. before[x] \subseteq before[y] /\ x \notin before[x]
  BY DEF Sorts
<1>2. IsFiniteSet(before[y]) /\ IsFiniteSet(before[x])
  BY RankIs
<1>3. before[x] \in SUBSET (before[y] \ {x})
  BY <1>1
<1>4. /\ IsFiniteSet(before[y] \ {x})
      /\ Cardinality(before[y] \ {x}) = Cardinality(before[y]) - 1
  BY <1>2, FS_RemoveElement
<1>5. Cardinality(before[x]) <= Cardinality(before[y] \ {x})
  BY <1>3, <1>4, FS_Subset
<1>6. Cardinality(before[x]) \in Nat /\ Cardinality(before[y]) \in Nat
  BY <1>2, FS_CardinalityType
<1> QED
  BY <1>4, <1>5, <1>6

(* Every rank is somebody's.                                               *)
LEMMA RankTaken ==
  ASSUME NEW S, IsFiniteSet(S), NEW before, Sorts(before, S),
         NEW k \in 0..(Cardinality(S) - 1)
  PROVE  \E x \in S : Cardinality(before[x]) = k
<1> DEFINE n == Cardinality(S)
           R == 0..(n - 1)
           f == [x \in S |-> Cardinality(before[x])]
<1>n. n \in Nat
  BY FS_CardinalityType
<1>1. f \in [S -> R]
  BY RankIs
<1>2. \A x, y \in S : f[x] = f[y] => x = y
  <2> SUFFICES ASSUME NEW x \in S, NEW y \in S, x # y PROVE f[x] # f[y]
    OBVIOUS
  <2>1. x \in before[y] \/ y \in before[x]
    BY DEF Sorts
  <2>2. f[x] \in Nat /\ f[y] \in Nat
    BY <1>1, <1>n
  <2>3. f[x] < f[y] \/ f[y] < f[x]
    BY <2>1, RankRises
  <2> HIDE DEF f
  <2> QED
    BY <2>2, <2>3
<1>3. IsFiniteSet(R) /\ Cardinality(R) = n
  <2>1. PICK last \in Int : last = n - 1
    BY <1>n
  <2>2. IsFiniteSet(0..last) /\ Cardinality(0..last) = IF 0 > last THEN 0 ELSE last - 0 + 1
    BY FS_Interval
  <2> QED
    BY <1>n, <2>1, <2>2
<1> HIDE DEF f
<1>4. f \in Injection(S, R)
  BY <1>1, <1>2 DEF Injection, IsInjective
<1>5. f \in Surjection(S, R)
  BY <1>3, <1>4, FS_Injection
<1>6. PICK x \in S : f[x] = k
  BY <1>5 DEF Surjection
<1> QED
  BY <1>6 DEF f

(* What sorting gives.                                                     *)
SortedOut(seq, before, S) ==
  /\ DOMAIN seq = 1..Cardinality(S) /\ Cardinality(S) \in Nat
  /\ \A k \in DOMAIN seq : seq[k] \in S
  /\ \A x \in S : \E k \in DOMAIN seq : seq[k] = x
  /\ \A i, j \in DOMAIN seq : i < j => seq[i] \in before[seq[j]] /\ seq[i] # seq[j]

LEMMA InOrderIs ==
  ASSUME NEW S, IsFiniteSet(S), NEW before, Sorts(before, S)
  PROVE  SortedOut(InOrder(before), before, S)
<1> DEFINE seq == InOrder(before)
           n == Cardinality(S)
<1>n. n \in Nat
  BY FS_CardinalityType
<1>d. DOMAIN before = S
  BY DEF Sorts
<1>1. seq = [k \in 1..n |-> CHOOSE x \in S : Cardinality(before[x]) = k - 1]
  BY <1>d DEF InOrder
<1> HIDE DEF seq
<1>2. ASSUME NEW k \in 1..n
      PROVE  seq[k] \in S /\ Cardinality(before[seq[k]]) = k - 1
  <2>1. k - 1 \in 0..(n - 1)
    BY <1>n
  <2>2. \E x \in S : Cardinality(before[x]) = k - 1
    BY <2>1, RankTaken
  <2>3. seq[k] = CHOOSE x \in S : Cardinality(before[x]) = k - 1
    BY <1>1
  <2> QED
    BY <2>2, <2>3, Zenon
<1>3. ASSUME NEW x \in S
      PROVE  \E k \in 1..n : seq[k] = x
  <2>1. Cardinality(before[x]) \in 0..(n - 1)
    BY RankIs
  <2> DEFINE k == Cardinality(before[x]) + 1
  <2>2. k \in 1..n /\ k - 1 = Cardinality(before[x])
    BY <1>n, <2>1
  <2> HIDE DEF k
  <2>3. seq[k] \in S /\ Cardinality(before[seq[k]]) = Cardinality(before[x])
    BY <1>2, <2>2
  <2>4. seq[k] = x
    <3> SUFFICES ASSUME seq[k] # x PROVE FALSE
      OBVIOUS
    <3>1. seq[k] \in before[x] \/ x \in before[seq[k]]
      BY <2>3 DEF Sorts
    <3>2. \/ Cardinality(before[seq[k]]) < Cardinality(before[x])
          \/ Cardinality(before[x]) < Cardinality(before[seq[k]])
      BY <2>3, <3>1, RankRises
    <3> QED
      BY <2>1, <2>3, <3>2
  <2> QED
    BY <2>2, <2>4
<1>4. ASSUME NEW i \in 1..n, NEW j \in 1..n, i < j
      PROVE  seq[i] \in before[seq[j]] /\ seq[i] # seq[j]
  <2>1. /\ seq[i] \in S /\ Cardinality(before[seq[i]]) = i - 1
        /\ seq[j] \in S /\ Cardinality(before[seq[j]]) = j - 1
    BY <1>2
  <2>2. seq[i] # seq[j]
    BY <1>4, <2>1
  <2>3. seq[j] \notin before[seq[i]]
    <3> SUFFICES ASSUME seq[j] \in before[seq[i]] PROVE FALSE
      OBVIOUS
    <3>1. Cardinality(before[seq[j]]) < Cardinality(before[seq[i]])
      BY <2>1, RankRises
    <3> QED
      BY <1>4, <2>1, <3>1
  <2> QED
    BY <2>1, <2>2, <2>3 DEF Sorts
<1>5. DOMAIN seq = 1..n
  BY <1>1
<1> QED
  BY <1>n, <1>2, <1>3, <1>4, <1>5 DEF SortedOut, seq

-----------------------------------------------------------------------------
(* Picked: the loop's own equations.                                       *)

(* What a step of the loop adds.                                           *)
Step(f, k, places, value) ==
  IF k = 0 THEN <<>>
  ELSE IF k \in places THEN Append(f[k - 1], value[k])
  ELSE f[k - 1]

IsLoop(f, n, places, value) == f = [k \in 0..n |-> Step(f, k, places, value)]

Loop(n, places, value) == CHOOSE f : IsLoop(f, n, places, value)

LEMMA LoopIs ==
  ASSUME NEW n, NEW places, NEW value
  PROVE  Picked(n, places, value) = Loop(n, places, value)[n]
  BY DEF Picked, Loop, IsLoop, Step

(* The function of the loop exists, for any number of rounds.              *)
LEMMA LoopExists ==
  ASSUME NEW places, NEW value, NEW n \in Nat
  PROVE  \E f : IsLoop(f, n, places, value)
<1> DEFINE T == {m \in Nat : \E f : IsLoop(f, m, places, value)}
<1>1. 0 \in T
  <2> DEFINE f == [k \in 0..0 |-> Step(<<>>, k, places, value)]
  <2>1. f = [k \in 0..0 |-> Step(f, k, places, value)]
    <3>1. \A k \in 0..0 : k = 0
      OBVIOUS
    <3> QED
      BY <3>1 DEF Step
  <2> HIDE DEF f
  <2> QED
    BY <2>1 DEF IsLoop
<1>2. ASSUME NEW m \in Nat, m \in T PROVE (m + 1) \in T
  <2>0. PICK f : IsLoop(f, m, places, value)
    BY <1>2
  <2>1. f = [k \in 0..m |-> Step(f, k, places, value)]
    BY <2>0 DEF IsLoop
  <2> DEFINE g == [k \in 0..(m + 1) |-> Step(f, k, places, value)]
  <2>2. \A k \in 0..m : g[k] = f[k]
    <3>1. \A k \in 0..m : k \in 0..(m + 1)
      OBVIOUS
    <3> QED
      BY <2>1, <3>1
  <2>3. ASSUME NEW k \in 0..(m + 1)
        PROVE  Step(f, k, places, value) = Step(g, k, places, value)
    <3>1. k # 0 => k - 1 \in 0..m
      OBVIOUS
    <3>2. k # 0 => g[k - 1] = f[k - 1]
      BY <2>2, <3>1
    <3> HIDE DEF g
    <3> QED
      BY <3>2 DEF Step
  <2>4. g = [k \in 0..(m + 1) |-> Step(g, k, places, value)]
    BY <2>3
  <2> HIDE DEF g
  <2> QED
    BY <2>4 DEF IsLoop
<1> HIDE DEF T
<1>3. n \in T
  BY <1>1, <1>2, Everywhere
<1> QED
  BY <1>3 DEF T

LEMMA LoopEquation ==
  ASSUME NEW places, NEW value, NEW n \in Nat
  PROVE  Loop(n, places, value) = [k \in 0..n |-> Step(Loop(n, places, value), k, places, value)]
<1>1. IsLoop(Loop(n, places, value), n, places, value)
  BY LoopExists, Zenon DEF Loop
<1> QED
  BY <1>1 DEF IsLoop

(* A longer loop goes through what a shorter one does.                     *)
LEMMA LoopStable ==
  ASSUME NEW places, NEW value, NEW n \in Nat, NEW m \in Nat
  PROVE  m <= n => Loop(n, places, value)[m] = Loop(m, places, value)[m]
<1> DEFINE f == Loop(n, places, value)
           g == Loop(m, places, value)
           T == {k \in Nat : k <= n /\ k <= m => f[k] = g[k]}
<1>f. f = [k \in 0..n |-> Step(f, k, places, value)]
  BY LoopEquation
<1>g. g = [k \in 0..m |-> Step(g, k, places, value)]
  BY LoopEquation
<1> HIDE DEF f, g
<1>1. 0 \in T
  <2>1. f[0] = Step(f, 0, places, value)
    BY <1>f
  <2>2. g[0] = Step(g, 0, places, value)
    BY <1>g
  <2> QED
    BY <2>1, <2>2 DEF Step
<1>2. ASSUME NEW k \in Nat, k \in T PROVE (k + 1) \in T
  <2> SUFFICES ASSUME k + 1 <= n, k + 1 <= m
               PROVE  f[k + 1] = g[k + 1]
    OBVIOUS
  <2>1. f[k] = g[k]
    BY <1>2
  <2>2. f[k + 1] = Step(f, k + 1, places, value)
    <3>1. k + 1 \in 0..n
      OBVIOUS
    <3> QED
      BY <1>f, <3>1
  <2>3. g[k + 1] = Step(g, k + 1, places, value)
    <3>1. k + 1 \in 0..m
      OBVIOUS
    <3> QED
      BY <1>g, <3>1
  <2>4. (k + 1) - 1 = k
    OBVIOUS
  <2> QED
    BY <2>1, <2>2, <2>3, <2>4 DEF Step
<1> HIDE DEF T
<1>3. m \in T
  BY <1>1, <1>2, Everywhere
<1> QED
  BY <1>3 DEF T, f, g

(* Before its first round the loop has nothing.                            *)
LEMMA PickedNone ==
  ASSUME NEW places, NEW value
  PROVE  Picked(0, places, value) = <<>>
<1>1. Loop(0, places, value)[0] = Step(Loop(0, places, value), 0, places, value)
  BY LoopEquation
<1> QED
  BY <1>1, LoopIs DEF Step

(* One more round.                                                         *)
LEMMA PickedNext ==
  ASSUME NEW n \in Nat, NEW places, NEW value
  PROVE  Picked(n + 1, places, value) =
           IF n + 1 \in places THEN Append(Picked(n, places, value), value[n + 1])
           ELSE Picked(n, places, value)
<1> DEFINE f == Loop(n + 1, places, value)
<1>1. n + 1 \in Nat /\ (n + 1) - 1 = n /\ n + 1 # 0 /\ n + 1 \in 0..(n + 1) /\ n <= n + 1
  OBVIOUS
<1>2. f = [k \in 0..(n + 1) |-> Step(f, k, places, value)]
  BY <1>1, LoopEquation
<1>3. f[n] = Loop(n, places, value)[n]
  BY <1>1, LoopStable
<1>4. Picked(n, places, value) = f[n] /\ Picked(n + 1, places, value) = f[n + 1]
  BY <1>3, LoopIs
<1> HIDE DEF f
<1>5. f[n + 1] = Step(f, n + 1, places, value)
  BY <1>1, <1>2
<1> QED
  BY <1>1, <1>4, <1>5 DEF Step

(* What is picked are values at places.                                    *)
LEMMA PickedSeq ==
  ASSUME NEW V, NEW n \in Nat, NEW places, NEW value,
         \A k \in 1..n : k \in places => value[k] \in V
  PROVE  Picked(n, places, value) \in Seq(V)
<1> DEFINE T == {m \in Nat : m <= n => Picked(m, places, value) \in Seq(V)}
<1>1. 0 \in T
  BY PickedNone, EmptySeq
<1>2. ASSUME NEW m \in Nat, m \in T PROVE (m + 1) \in T
  <2> SUFFICES ASSUME m + 1 <= n
               PROVE  Picked(m + 1, places, value) \in Seq(V)
    OBVIOUS
  <2>1. Picked(m, places, value) \in Seq(V)
    BY <1>2
  <2>2. CASE m + 1 \in places
    <3>1. value[m + 1] \in V
      BY <2>2
    <3>2. Append(Picked(m, places, value), value[m + 1]) \in Seq(V)
      BY <2>1, <3>1, AppendProperties
    <3> QED
      BY <2>2, <3>2, PickedNext
  <2>3. CASE m + 1 \notin places
    BY <2>1, <2>3, PickedNext
  <2> QED
    BY <2>2, <2>3
<1> HIDE DEF T
<1>3. n \in T
  BY <1>1, <1>2, Everywhere
<1> QED
  BY <1>3 DEF T

(* Only the places up to n, and what is there, matter.                     *)
LEMMA PickedSame ==
  ASSUME NEW n \in Nat, NEW places, NEW value, NEW others, NEW other,
         \A k \in 1..n : k \in places <=> k \in others,
         \A k \in 1..n : k \in places => value[k] = other[k]
  PROVE  Picked(n, places, value) = Picked(n, others, other)
<1> DEFINE T == {m \in Nat : m <= n => Picked(m, places, value) = Picked(m, others, other)}
<1>1. 0 \in T
  BY PickedNone
<1>2. ASSUME NEW m \in Nat, m \in T PROVE (m + 1) \in T
  <2> SUFFICES ASSUME m + 1 <= n
               PROVE  Picked(m + 1, places, value) = Picked(m + 1, others, other)
    OBVIOUS
  <2>1. Picked(m, places, value) = Picked(m, others, other)
    BY <1>2
  <2>2. /\ m + 1 \in places <=> m + 1 \in others
        /\ m + 1 \in places => value[m + 1] = other[m + 1]
    <3>1. m + 1 \in 1..n
      OBVIOUS
    <3> QED
      BY <3>1
  <2> QED
    BY <2>1, <2>2, PickedNext
<1> HIDE DEF T
<1>3. n \in T
  BY <1>1, <1>2, Everywhere
<1> QED
  BY <1>3 DEF T

AppendJoins(s, t, e) == Append(s \o t, e) = s \o Append(t, e)

LEMMA AppendOfConcat ==
  ASSUME NEW V, NEW s \in Seq(V), NEW t \in Seq(V), NEW e \in V
  PROVE  AppendJoins(s, t, e)
<1>1. s \o t \in Seq(V) /\ Append(t, e) \in Seq(V)
  OBVIOUS
<1>2. Append(s \o t, e) \in Seq(V) /\ s \o Append(t, e) \in Seq(V)
  BY <1>1
<1>3. Len(Append(s \o t, e)) = Len(s \o Append(t, e))
  BY <1>1
<1>4. ASSUME NEW i \in 1..Len(Append(s \o t, e))
      PROVE  Append(s \o t, e)[i] = (s \o Append(t, e))[i]
  <2>1. CASE i <= Len(s)
    BY <2>1
  <2>2. CASE Len(s) < i /\ i <= Len(s) + Len(t)
    BY <2>2
  <2>3. CASE i = Len(s) + Len(t) + 1
    BY <2>3
  <2> QED
    BY <1>1, <2>1, <2>2, <2>3
<1> QED
  BY <1>2, <1>3, <1>4, SeqEqual DEF AppendJoins

(* A loop may be cut in two.                                               *)
Continues(m, n, places, value, others, other) ==
  /\ \A k \in 1..n : m + k \in places <=> k \in others
  /\ \A k \in 1..n : k \in others => value[m + k] = other[k]

LEMMA PickedJoin ==
  ASSUME NEW m \in Nat, NEW n \in Nat,
         NEW places, NEW value, NEW others, NEW other,
         Continues(m, n, places, value, others, other)
  PROVE  Picked(m + n, places, value)
           = Picked(m, places, value) \o Picked(n, others, other)
<1>c. /\ \A k \in 1..n : m + k \in places <=> k \in others
      /\ \A k \in 1..n : k \in others => value[m + k] = other[k]
  BY DEF Continues
<1>r. PICK range : range = {value[k] : k \in 1..m} \cup {other[k] : k \in 1..n}
  OBVIOUS
<1>a. \A k \in 1..m : k \in places => value[k] \in range
  BY <1>r
<1>b. \A k \in 1..n : k \in others => other[k] \in range
  BY <1>r
<1> DEFINE head == Picked(m, places, value)
           T == {k \in Nat : k <= n => Picked(m + k, places, value)
                                        = head \o Picked(k, others, other)}
<1>h. head \in Seq(range)
  BY <1>a, PickedSeq
<1>1. 0 \in T
  <2>1. head \o <<>> = head
    BY <1>h, ConcatEmptySeq
  <2>2. m + 0 = m
    OBVIOUS
  <2> QED
    BY <2>1, <2>2, PickedNone
<1>2. ASSUME NEW k \in Nat, k \in T PROVE (k + 1) \in T
  <2> SUFFICES ASSUME k + 1 <= n
               PROVE  Picked(m + (k + 1), places, value)
                        = head \o Picked(k + 1, others, other)
    OBVIOUS
  <2> DEFINE tail == Picked(k, others, other)
  <2>1. Picked(m + k, places, value) = head \o tail
    BY <1>2
  <2>2. tail \in Seq(range)
    <3>1. \A i \in 1..k : i \in others => other[i] \in range
      BY <1>b
    <3> QED
      BY <3>1, PickedSeq
  <2>3. /\ m + (k + 1) \in places <=> k + 1 \in others
        /\ k + 1 \in others => /\ other[k + 1] \in range
                               /\ value[m + (k + 1)] = other[k + 1]
    <3>1. k + 1 \in 1..n
      OBVIOUS
    <3> QED
      BY <1>b, <1>c, <3>1
  <2>4. m + (k + 1) = (m + k) + 1 /\ m + k \in Nat
    OBVIOUS
  <2>5. Picked((m + k) + 1, places, value) =
          IF (m + k) + 1 \in places
          THEN Append(Picked(m + k, places, value), value[(m + k) + 1])
          ELSE Picked(m + k, places, value)
    BY <2>4, PickedNext
  <2>6. Picked(k + 1, others, other) =
          IF k + 1 \in others THEN Append(tail, other[k + 1]) ELSE tail
    BY PickedNext
  <2> HIDE DEF head, tail
  <2>7. \A e \in range : AppendJoins(head, tail, e)
    BY <1>h, <2>2, AppendOfConcat
  <2>8. k + 1 \in others => Append(head \o tail, other[k + 1])
                            = head \o Append(tail, other[k + 1])
    BY <2>3, <2>7 DEF AppendJoins
  <2> QED
    BY <2>1, <2>3, <2>4, <2>5, <2>6, <2>8
<1> HIDE DEF T
<1>3. n \in T
  BY <1>1, <1>2, Everywhere
<1> QED
  BY <1>3 DEF T

(* What is picked comes from the places, in their order, from each once.   *)
ComesFrom(at, n, places, value) ==
  /\ at \in Seq(Nat)
  /\ Len(at) = Len(Picked(n, places, value))
  /\ \A j \in 1..Len(at) : /\ at[j] \in 1..n /\ at[j] \in places
                          /\ Picked(n, places, value)[j] = value[at[j]]
  /\ \A j \in 1..Len(at), k \in 1..Len(at) : j < k => at[j] < at[k]
  /\ \A i \in 1..n : i \in places => \E j \in 1..Len(at) : at[j] = i

LEMMA PickedFrom ==
  ASSUME NEW n \in Nat, NEW places, NEW value
  PROVE  \E at : ComesFrom(at, n, places, value)
<1>r. PICK V : V = {value[k] : k \in 1..n}
  OBVIOUS
<1>a. \A k \in 1..n : k \in places => value[k] \in V
  BY <1>r
<1> DEFINE T == {m \in Nat : m <= n => \E at : ComesFrom(at, m, places, value)}
<1>1. 0 \in T
  <2>1. ComesFrom(<<>>, 0, places, value)
    <3>1. Picked(0, places, value) = <<>>
      BY PickedNone
    <3>2. <<>> \in Seq(Nat) /\ Len(<<>>) = 0
      BY EmptySeq
    <3> QED
      BY <3>1, <3>2 DEF ComesFrom
  <2> QED
    BY <2>1
<1>2. ASSUME NEW m \in Nat, m \in T PROVE (m + 1) \in T
  <2> SUFFICES ASSUME m + 1 <= n
               PROVE  \E at : ComesFrom(at, m + 1, places, value)
    OBVIOUS
  <2>0. PICK at : ComesFrom(at, m, places, value)
    BY <1>2
  <2> DEFINE was == Picked(m, places, value)
             new == Picked(m + 1, places, value)
  <2>a. /\ at \in Seq(Nat)
        /\ Len(at) = Len(was)
        /\ \A j \in 1..Len(at) : at[j] \in 1..m /\ at[j] \in places /\ was[j] = value[at[j]]
        /\ \A j \in 1..Len(at), k \in 1..Len(at) : j < k => at[j] < at[k]
        /\ \A i \in 1..m : i \in places => \E j \in 1..Len(at) : at[j] = i
    BY <2>0 DEF ComesFrom
  <2>s. was \in Seq(V)
    <3>1. \A k \in 1..m : k \in places => value[k] \in V
      BY <1>a
    <3> QED
      BY <3>1, PickedSeq
  <2>n. new = IF m + 1 \in places THEN Append(was, value[m + 1]) ELSE was
    BY PickedNext
  <2> HIDE DEF was, new
  <2>1. CASE m + 1 \notin places
    <3>1. new = was
      BY <2>1, <2>n
    <3>2. ComesFrom(at, m + 1, places, value)
      <4>1. ASSUME NEW j \in 1..Len(at) PROVE at[j] \in 1..(m + 1)
        <5>1. at[j] \in 1..m
          BY <2>a
        <5> QED
          BY <1>2, <5>1
      <4>2. ASSUME NEW i \in 1..(m + 1), i \in places
            PROVE  \E j \in 1..Len(at) : at[j] = i
        <5>1. i \in 1..m
          BY <2>1, <4>2
        <5> QED
          BY <2>a, <4>2, <5>1
      <4> QED
        BY <2>a, <3>1, <4>1, <4>2 DEF ComesFrom, was, new
    <3> QED
      BY <3>2
  <2>2. CASE m + 1 \in places
    <3> DEFINE to == Append(at, m + 1)
    <3>1. new = Append(was, value[m + 1])
      BY <2>2, <2>n
    <3>2. value[m + 1] \in V
      <4>1. m + 1 \in 1..n
        OBVIOUS
      <4> QED
        BY <1>a, <2>2, <4>1
    <3>3. /\ to \in Seq(Nat)
          /\ Len(to) = Len(at) + 1
          /\ \A j \in 1..Len(at) : to[j] = at[j]
          /\ to[Len(at) + 1] = m + 1
          /\ Len(at) \in Nat
      BY <2>a
    <3>4. /\ Len(new) = Len(was) + 1
          /\ \A j \in 1..Len(was) : new[j] = was[j]
          /\ new[Len(was) + 1] = value[m + 1]
      BY <2>s, <3>1, <3>2
    <3> HIDE DEF to
    <3>5. ComesFrom(to, m + 1, places, value)
      <4>1. Len(to) = Len(new)
        BY <2>a, <3>3, <3>4
      <4>2. ASSUME NEW j \in 1..Len(to)
            PROVE  to[j] \in 1..(m + 1) /\ to[j] \in places /\ new[j] = value[to[j]]
        <5>1. CASE j \in 1..Len(at)
          <6>1. /\ at[j] \in 1..m
                /\ at[j] \in places
                /\ was[j] = value[at[j]]
            BY <2>a, <5>1
          <6>2. to[j] = at[j] /\ new[j] = was[j]
            BY <2>a, <3>3, <3>4, <5>1
          <6> QED
            BY <6>1, <6>2
        <5>2. CASE j = Len(at) + 1
          BY <2>2, <2>a, <3>3, <3>4, <5>2
        <5> QED
          BY <3>3, <5>1, <5>2
      <4>3. ASSUME NEW j \in 1..Len(to), NEW k \in 1..Len(to), j < k
            PROVE  to[j] < to[k]
        <5>1. j \in 1..Len(at)
          BY <3>3, <4>3
        <5>2. at[j] \in 1..m /\ to[j] = at[j]
          BY <2>a, <3>3, <5>1
        <5>3. CASE k \in 1..Len(at)
          BY <2>a, <3>3, <4>3, <5>1, <5>3
        <5>4. CASE k = Len(at) + 1
          BY <3>3, <5>2, <5>4
        <5> QED
          BY <3>3, <5>3, <5>4
      <4>4. ASSUME NEW i \in 1..(m + 1), i \in places
            PROVE  \E j \in 1..Len(to) : to[j] = i
        <5>1. CASE i = m + 1
          <6>1. Len(at) + 1 \in 1..Len(to)
            BY <3>3
          <6> QED
            BY <3>3, <5>1, <6>1
        <5>2. CASE i \in 1..m
          <6>1. PICK j \in 1..Len(at) : at[j] = i
            BY <2>a, <4>4, <5>2
          <6>2. j \in 1..Len(to)
            BY <3>3
          <6> QED
            BY <3>3, <6>1, <6>2
        <5> QED
          BY <5>1, <5>2
      <4> QED
        BY <3>3, <4>1, <4>2, <4>3, <4>4 DEF ComesFrom, new
    <3> QED
      BY <3>5
  <2> QED
    BY <2>1, <2>2
<1> HIDE DEF T
<1>3. n \in T
  BY <1>1, <1>2, Everywhere
<1> QED
  BY <1>3 DEF T

(* With no place there is nothing, and with one the value there.           *)
LEMMA PickedEmpty ==
  ASSUME NEW n \in Nat, NEW places, NEW value,
         \A k \in 1..n : k \notin places
  PROVE  Picked(n, places, value) = <<>>
<1> DEFINE T == {m \in Nat : m <= n => Picked(m, places, value) = <<>>}
<1>1. 0 \in T
  BY PickedNone
<1>2. ASSUME NEW m \in Nat, m \in T PROVE (m + 1) \in T
  BY <1>2, PickedNext
<1> HIDE DEF T
<1>3. n \in T
  BY <1>1, <1>2, Everywhere
<1> QED
  BY <1>3 DEF T

OnlyPlace(n, places, only) ==
  /\ only \in 1..n /\ only \in places
  /\ \A k \in 1..n : k \in places => k = only

PicksOne(n, places, value, only) == Picked(n, places, value) = <<value[only]>>

LEMMA PickedOne ==
  ASSUME NEW n \in Nat, NEW places, NEW value, NEW only, OnlyPlace(n, places, only)
  PROVE  PicksOne(n, places, value, only)
<1>0. /\ only \in 1..n /\ only \in places
      /\ \A k \in 1..n : k \in places => k = only
  BY DEF OnlyPlace
<1> DEFINE T == {m \in Nat : m <= n => Picked(m, places, value)
                                       = IF only <= m THEN <<value[only]>> ELSE <<>>}
<1>1. 0 \in T
  BY <1>0, PickedNone
<1>2. ASSUME NEW m \in Nat, m \in T PROVE (m + 1) \in T
  <2> SUFFICES ASSUME m + 1 <= n
               PROVE  Picked(m + 1, places, value)
                        = IF only <= m + 1 THEN <<value[only]>> ELSE <<>>
    OBVIOUS
  <2>1. Picked(m, places, value) = IF only <= m THEN <<value[only]>> ELSE <<>>
    BY <1>2
  <2>2. m + 1 \in places <=> m + 1 = only
    BY <1>0
  <2>3. CASE m + 1 = only
    <3>1. Picked(m, places, value) = <<>>
      BY <1>0, <2>1, <2>3
    <3>2. Append(<<>>, value[only]) = <<value[only]>>
      OBVIOUS
    <3>3. Picked(m + 1, places, value) = Append(<<>>, value[only])
      BY <1>0, <2>2, <2>3, <3>1, PickedNext
    <3> QED
      BY <1>0, <2>3, <3>2, <3>3
  <2>4. CASE m + 1 # only
    BY <1>0, <2>1, <2>2, <2>4, PickedNext
  <2> QED
    BY <2>3, <2>4
<1> HIDE DEF T
<1>3. n \in T
  BY <1>1, <1>2, Everywhere
<1> QED
  BY <1>0, <1>3 DEF T, PicksOne

-----------------------------------------------------------------------------
(* Adding up.                                                              *)
SumStep(f, k, value) == IF k = 0 THEN 0 ELSE f[k - 1] + value[k]

IsSum(f, n, value) == f = [k \in 0..n |-> SumStep(f, k, value)]

Sums(n, value) == CHOOSE f : IsSum(f, n, value)

LEMMA SummedIs ==
  ASSUME NEW n, NEW value
  PROVE  Summed(n, value) = Sums(n, value)[n]
  BY DEF Summed, Sums, IsSum, SumStep

LEMMA SumExists ==
  ASSUME NEW value, NEW n \in Nat
  PROVE  \E f : IsSum(f, n, value)
<1> DEFINE T == {m \in Nat : \E f : IsSum(f, m, value)}
<1>1. 0 \in T
  <2> DEFINE f == [k \in 0..0 |-> SumStep(<<>>, k, value)]
  <2>1. f = [k \in 0..0 |-> SumStep(f, k, value)]
    <3>1. \A k \in 0..0 : k = 0
      OBVIOUS
    <3> QED
      BY <3>1 DEF SumStep
  <2> HIDE DEF f
  <2> QED
    BY <2>1 DEF IsSum
<1>2. ASSUME NEW m \in Nat, m \in T PROVE (m + 1) \in T
  <2>0. PICK f : IsSum(f, m, value)
    BY <1>2
  <2>1. f = [k \in 0..m |-> SumStep(f, k, value)]
    BY <2>0 DEF IsSum
  <2> DEFINE g == [k \in 0..(m + 1) |-> SumStep(f, k, value)]
  <2>2. \A k \in 0..m : g[k] = f[k]
    <3>1. \A k \in 0..m : k \in 0..(m + 1)
      OBVIOUS
    <3> QED
      BY <2>1, <3>1
  <2>3. ASSUME NEW k \in 0..(m + 1)
        PROVE  SumStep(f, k, value) = SumStep(g, k, value)
    <3>1. k # 0 => k - 1 \in 0..m
      OBVIOUS
    <3>2. k # 0 => g[k - 1] = f[k - 1]
      BY <2>2, <3>1
    <3> HIDE DEF g
    <3> QED
      BY <3>2 DEF SumStep
  <2>4. g = [k \in 0..(m + 1) |-> SumStep(g, k, value)]
    BY <2>3
  <2> HIDE DEF g
  <2> QED
    BY <2>4 DEF IsSum
<1> HIDE DEF T
<1>3. n \in T
  BY <1>1, <1>2, Everywhere
<1> QED
  BY <1>3 DEF T

LEMMA SumEquation ==
  ASSUME NEW value, NEW n \in Nat
  PROVE  /\ Sums(n, value)[0] = 0
         /\ \A k \in 1..n : Sums(n, value)[k] = Sums(n, value)[k - 1] + value[k]
<1> DEFINE f == Sums(n, value)
<1>1. IsSum(f, n, value)
  BY SumExists, Zenon DEF Sums
<1> HIDE DEF f
<1>2. f = [k \in 0..n |-> SumStep(f, k, value)]
  BY <1>1 DEF IsSum
<1>3. f[0] = SumStep(f, 0, value)
  BY <1>2
<1>4. ASSUME NEW k \in 1..n PROVE f[k] = f[k - 1] + value[k]
  <2>1. k \in 0..n /\ k # 0
    OBVIOUS
  <2>2. f[k] = SumStep(f, k, value)
    BY <1>2, <2>1
  <2> QED
    BY <2>1, <2>2 DEF SumStep
<1> QED
  BY <1>3, <1>4 DEF f, SumStep

LEMMA SummedInt ==
  ASSUME NEW n \in Nat, NEW value, \A k \in 1..n : value[k] \in Int
  PROVE  Summed(n, value) \in Int
<1> DEFINE f == Sums(n, value)
           T == {m \in Nat : m <= n => f[m] \in Int}
<1>0. f[0] = 0 /\ \A k \in 1..n : f[k] = f[k - 1] + value[k]
  BY SumEquation
<1> HIDE DEF f
<1>1. 0 \in T
  BY <1>0
<1>2. ASSUME NEW m \in Nat, m \in T PROVE (m + 1) \in T
  <2> SUFFICES ASSUME m + 1 <= n PROVE f[m + 1] \in Int
    OBVIOUS
  <2>1. m + 1 \in 1..n /\ (m + 1) - 1 = m /\ f[m] \in Int
    BY <1>2
  <2>2. f[m + 1] = f[m] + value[m + 1] /\ value[m + 1] \in Int
    BY <1>0, <2>1
  <2> QED
    BY <2>1, <2>2
<1> HIDE DEF T
<1>3. n \in T
  BY <1>1, <1>2, Everywhere
<1> QED
  BY <1>3, SummedIs DEF T, f

=============================================================================
