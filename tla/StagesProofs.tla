---------------------------- MODULE StagesProofs ----------------------------
(***************************************************************************)
(* Theorems of the worker's stages, for inputs of any length: what the     *)
(* page is told of demucs' progress (Separation), for every stream the     *)
(* child writes; what becomes of the beat tracker's chords (Structure),    *)
(* for every grid that rises and every labelling of it; and what becomes   *)
(* of each note of a song, and that the search finds the cheapest          *)
(* fingerings (Fretboard), for every song, tuning and price list.          *)
(***************************************************************************)
EXTENDS Separation, Structure, Fretboard, LoopsProofs

-----------------------------------------------------------------------------
(* Separation.  A text, and what it says; a character at a time.           *)
Chars == 0..12

LEMMA MatchEndIs ==
  ASSUME NEW t \in Seq(Chars), NEW e \in Int
  PROVE  e \in MatchEnds(t) <=>
           e \in 3..Len(t) /\ t[e] = 11 /\ t[e - 1] = 10 /\ t[e - 2] \in 0..9
  BY DEF MatchEnds, BAR, PERCENT, Digit

(* The number of the characters before the end, from the last.             *)
Number(e, x, y, z) ==
  x + (IF e >= 4 /\ y \in 0..9 THEN 10 * y ELSE 0)
    + (IF e >= 5 /\ y \in 0..9 /\ z \in 0..9 THEN 100 * z ELSE 0)

LEMMA ValueIs ==
  ASSUME NEW t, NEW e \in Int
  PROVE  ValueAt(t, e) = Number(e, t[e - 1 - 1], t[e - 1 - 2], t[e - 1 - 3])
<1>1. e >= 5 => e >= 4
  OBVIOUS
<1> QED
  BY <1>1 DEF ValueAt, Number, Digit

(* A character further back than the number reaches says nothing.          *)
LEMMA NumberSame ==
  ASSUME NEW e \in Int, NEW d \in Int, NEW x, NEW y, NEW z, NEW v, NEW w,
         e >= 4 /\ y \in 0..9 <=> d >= 4 /\ v \in 0..9,
         e >= 4 /\ y \in 0..9 => y = v,
         e >= 5 /\ y \in 0..9 /\ z \in 0..9 <=> d >= 5 /\ v \in 0..9 /\ w \in 0..9,
         e >= 5 /\ y \in 0..9 /\ z \in 0..9 => z = w
  PROVE  Number(e, x, y, z) = Number(d, x, v, w)
  BY DEF Number

(* A percentage ends in a text where it ends in a longer one.              *)
LEMMA PrefixMatch ==
  ASSUME NEW t \in Seq(Chars), NEW u \in Seq(Chars), Len(u) <= Len(t),
         \A i \in 1..Len(u) : u[i] = t[i], NEW e \in 1..Len(u)
  PROVE  /\ e \in MatchEnds(u) <=> e \in MatchEnds(t)
         /\ e \in MatchEnds(u) => ValueAt(u, e) = ValueAt(t, e)
<1>1. e \in MatchEnds(u) <=> e \in MatchEnds(t)
  <2>1. CASE e < 3
    BY <2>1, MatchEndIs
  <2>2. CASE e >= 3
    <3>1. e \in 1..Len(u) /\ e - 1 \in 1..Len(u) /\ e - 2 \in 1..Len(u)
      BY <2>2
    <3>2. u[e] = t[e] /\ u[e - 1] = t[e - 1] /\ u[e - 2] = t[e - 2]
      BY <3>1
    <3>3. e \in 3..Len(u) /\ e \in 3..Len(t) /\ e \in Int
      BY <2>2
    <3> QED
      BY <3>2, <3>3, MatchEndIs
  <2> QED
    BY <2>1, <2>2
<1>2. ASSUME e \in MatchEnds(u) PROVE ValueAt(u, e) = ValueAt(t, e)
  <2>1. e \in 3..Len(u)
    BY <1>2, MatchEndIs
  <2>2. u[e - 1 - 1] = t[e - 1 - 1]
    <3>1. e - 1 - 1 \in 1..Len(u)
      BY <2>1
    <3> QED
      BY <3>1
  <2>3. e >= 4 => u[e - 1 - 2] = t[e - 1 - 2]
    <3>1. e >= 4 => e - 1 - 2 \in 1..Len(u)
      BY <2>1
    <3> QED
      BY <3>1
  <2>4. e >= 5 => u[e - 1 - 3] = t[e - 1 - 3]
    <3>1. e >= 5 => e - 1 - 3 \in 1..Len(u)
      BY <2>1
    <3> QED
      BY <3>1
  <2> DEFINE y == u[e - 1 - 2]
             z == u[e - 1 - 3]
             v == t[e - 1 - 2]
             w == t[e - 1 - 3]
  <2>5. ValueAt(u, e) = Number(e, u[e - 1 - 1], y, z)
    BY ValueIs
  <2>6. ValueAt(t, e) = Number(e, u[e - 1 - 1], v, w)
    BY <2>2, ValueIs
  <2>7. (e >= 4 => y = v) /\ (e >= 5 => z = w) /\ e \in Int
    BY <2>3, <2>4
  <2> HIDE DEF y, z, v, w
  <2> QED
    BY <2>5, <2>6, <2>7, NumberSame
<1> QED
  BY <1>1, <1>2

(* And in one that begins where no percentage is cut.                      *)
Uncut(t, p, e) == p = 0 \/ (p \in 1..Len(t) /\ t[p] = 11) \/ p + 4 < e

LEMMA SuffixMatch ==
  ASSUME NEW t \in Seq(Chars), NEW u \in Seq(Chars), NEW p \in 0..Len(t),
         Len(u) = Len(t) - p, \A i \in 1..Len(u) : u[i] = t[p + i],
         NEW e \in 1..Len(u), Uncut(t, p, p + e)
  PROVE  /\ p + e \in MatchEnds(t) <=> e \in MatchEnds(u)
         /\ e \in MatchEnds(u) => ValueAt(t, p + e) = ValueAt(u, e)
<1>0. p \in Int /\ e \in Int /\ p + e \in Int /\ Len(t) \in Nat
  OBVIOUS
<1>a. u[e] = t[p + e]
  OBVIOUS
<1>b. e >= 2 => u[e - 1] = t[p + e - 1]
  <2>1. e >= 2 => e - 1 \in 1..Len(u) /\ p + (e - 1) = p + e - 1
    OBVIOUS
  <2> QED
    BY <2>1
<1>c. e >= 3 => u[e - 2] = t[p + e - 2]
  <2>1. e >= 3 => e - 2 \in 1..Len(u) /\ p + (e - 2) = p + e - 2
    OBVIOUS
  <2> QED
    BY <2>1
<1>1. p + e \in MatchEnds(t) <=> e \in MatchEnds(u)
  <2>1. CASE e >= 3
    <3>1. e \in 3..Len(u) /\ p + e \in 3..Len(t)
      BY <2>1
    <3>2. e \in MatchEnds(u) <=> u[e] = 11 /\ u[e - 1] = 10 /\ u[e - 2] \in 0..9
      BY <1>0, <3>1, MatchEndIs
    <3>3. p + e \in MatchEnds(t) <=>
            t[p + e] = 11 /\ t[p + e - 1] = 10 /\ t[p + e - 2] \in 0..9
      <4> DEFINE f == p + e
      <4>1. f \in Int /\ f \in 3..Len(t)
        BY <1>0, <3>1
      <4> HIDE DEF f
      <4>2. f \in MatchEnds(t) <=> t[f] = 11 /\ t[f - 1] = 10 /\ t[f - 2] \in 0..9
        BY <4>1, MatchEndIs
      <4> QED
        BY <4>2 DEF f
    <3> QED
      BY <1>a, <1>b, <1>c, <2>1, <3>2, <3>3, SMTT(40)
  <2>2. CASE e = 2
    <3>1. e \notin MatchEnds(u)
      BY <1>0, <2>2, MatchEndIs
    <3>2. CASE p = 0
      BY <1>0, <2>2, <3>1, <3>2, MatchEndIs
    <3>3. CASE p \in 1..Len(t) /\ t[p] = 11
      <4>1. p + e - 2 = p
        BY <2>2
      <4>2. ~(t[p + e - 2] \in 0..9)
        BY <3>3, <4>1
      <4> QED
        BY <1>0, <3>1, <4>2, MatchEndIs
    <3> QED
      BY <2>2, <3>2, <3>3 DEF Uncut
  <2>3. CASE e = 1
    <3>1. e \notin MatchEnds(u)
      BY <1>0, <2>3, MatchEndIs
    <3>2. CASE p = 0
      BY <1>0, <2>3, <3>1, <3>2, MatchEndIs
    <3>3. CASE p \in 1..Len(t) /\ t[p] = 11
      <4>1. p + e - 1 = p
        BY <2>3
      <4>2. t[p + e - 1] # 10
        BY <3>3, <4>1
      <4> QED
        BY <1>0, <3>1, <4>2, MatchEndIs
    <3> QED
      BY <2>3, <3>2, <3>3 DEF Uncut
  <2> QED
    BY <2>1, <2>2, <2>3
<1>2. ASSUME e \in MatchEnds(u) PROVE ValueAt(t, p + e) = ValueAt(u, e)
  <2>1. e \in 3..Len(u)
    BY <1>0, <1>2, MatchEndIs
  <2>2. u[e - 1 - 1] = t[p + e - 1 - 1]
    <3>1. e - 1 - 1 = e - 2 /\ p + e - 1 - 1 = p + e - 2
      OBVIOUS
    <3> QED
      BY <1>c, <2>1, <3>1
  <2>3. e >= 4 => u[e - 1 - 2] = t[p + e - 1 - 2]
    <3>1. e >= 4 => e - 1 - 2 \in 1..Len(u) /\ p + (e - 1 - 2) = p + e - 1 - 2
      BY <2>1
    <3> QED
      BY <3>1
  <2>4. e >= 5 => u[e - 1 - 3] = t[p + e - 1 - 3]
    <3>1. e >= 5 => e - 1 - 3 \in 1..Len(u) /\ p + (e - 1 - 3) = p + e - 1 - 3
      BY <2>1
    <3> QED
      BY <3>1
  <2> DEFINE y == u[e - 1 - 2]
             z == u[e - 1 - 3]
             v == t[p + e - 1 - 2]
             w == t[p + e - 1 - 3]
  <2>8. ValueAt(u, e) = Number(e, u[e - 1 - 1], y, z)
    BY <1>0, ValueIs
  <2>9. ValueAt(t, p + e) = Number(p + e, u[e - 1 - 1], v, w)
    BY <1>0, <2>2, ValueIs, SMTT(40)
  <2>10. /\ e >= 4 /\ y \in 0..9 <=> p + e >= 4 /\ v \in 0..9
         /\ e >= 4 /\ y \in 0..9 => y = v
         /\ e >= 5 /\ y \in 0..9 /\ z \in 0..9 <=> p + e >= 5 /\ v \in 0..9 /\ w \in 0..9
         /\ e >= 5 /\ y \in 0..9 /\ z \in 0..9 => z = w
    <3>1. e >= 4 => y = v
      BY <2>3
    <3>2. e >= 5 => z = w
      BY <2>4
    <3>3. e = 3 /\ p # 0 => ~(v \in 0..9)
      <4>1. e = 3 => p + e - 1 - 2 = p
        OBVIOUS
      <4> HIDE DEF v
      <4>2. e = 3 => v = t[p]
        BY <4>1 DEF v
      <4>3. e = 3 /\ p # 0 => t[p] = 11
        BY DEF Uncut
      <4> QED
        BY <4>2, <4>3
    <3>4. e = 4 /\ p # 0 => ~(w \in 0..9)
      <4>1. e = 4 => p + e - 1 - 3 = p
        OBVIOUS
      <4> HIDE DEF w
      <4>2. e = 4 => w = t[p]
        BY <4>1 DEF w
      <4>3. e = 4 /\ p # 0 => t[p] = 11
        BY DEF Uncut
      <4> QED
        BY <4>2, <4>3
    <3> HIDE DEF y, z, v, w
    <3> QED
      BY <2>1, <3>1, <3>2, <3>3, <3>4
  <2> HIDE DEF y, z, v, w
  <2> QED
    BY <1>0, <2>8, <2>9, <2>10, NumberSame
<1> QED
  BY <1>1, <1>2

(* The end of a sequence, and of its end.                                  *)
LEMMA TailIs ==
  ASSUME NEW V, NEW t \in Seq(V), NEW p \in 0..Len(t)
  PROVE  /\ SubSeq(t, p + 1, Len(t)) \in Seq(V)
         /\ Len(SubSeq(t, p + 1, Len(t))) = Len(t) - p
         /\ \A i \in 1..(Len(t) - p) : SubSeq(t, p + 1, Len(t))[i] = t[p + i]
<1>1. /\ p + 1 \in Int /\ Len(t) \in Int
      /\ \A i \in (p + 1)..Len(t) : t[i] \in V
  OBVIOUS
<1>2. /\ SubSeq(t, p + 1, Len(t)) \in Seq(V)
      /\ Len(SubSeq(t, p + 1, Len(t))) = IF p + 1 <= Len(t) THEN Len(t) - (p + 1) + 1 ELSE 0
      /\ \A i \in 1..(Len(t) - (p + 1) + 1) : SubSeq(t, p + 1, Len(t))[i] = t[p + 1 + i - 1]
  BY <1>1, SubSeqProperties
<1>3. Len(t) - (p + 1) + 1 = Len(t) - p
  OBVIOUS
<1>4. \A i \in Int : p + 1 + i - 1 = p + i
  OBVIOUS
<1>5. ASSUME NEW i \in 1..(Len(t) - p)
      PROVE  SubSeq(t, p + 1, Len(t))[i] = t[p + i]
  <2>1. i \in Int /\ i \in 1..(Len(t) - (p + 1) + 1)
    BY <1>3
  <2>2. p + 1 + i - 1 = p + i
    BY <1>4, <2>1
  <2>3. SubSeq(t, p + 1, Len(t))[i] = t[p + 1 + i - 1]
    BY <1>2, <2>1
  <2> QED
    BY <2>2, <2>3
<1>6. (IF p + 1 <= Len(t) THEN Len(t) - (p + 1) + 1 ELSE 0) = Len(t) - p
  OBVIOUS
<1> QED
  BY <1>2, <1>5, <1>6

LEMMA TailOfTail ==
  ASSUME NEW V, NEW t \in Seq(V), NEW c \in 0..Len(t), NEW m \in 0..(Len(t) - c)
  PROVE  LET rest == SubSeq(t, c + 1, Len(t))
         IN  SubSeq(rest, m + 1, Len(rest)) = SubSeq(t, c + m + 1, Len(t))
<1> DEFINE rest == SubSeq(t, c + 1, Len(t))
           one == SubSeq(rest, m + 1, Len(rest))
           two == SubSeq(t, c + m + 1, Len(t))
<1>1. /\ rest \in Seq(V)
      /\ Len(rest) = Len(t) - c
      /\ \A i \in 1..(Len(t) - c) : rest[i] = t[c + i]
  BY TailIs
<1> HIDE DEF rest
<1>2. /\ one \in Seq(V)
      /\ Len(one) = Len(rest) - m
      /\ \A i \in 1..(Len(rest) - m) : one[i] = rest[m + i]
  BY <1>1, TailIs
<1>3. c + m \in 0..Len(t)
  OBVIOUS
<1>4. /\ two \in Seq(V)
      /\ Len(two) = Len(t) - (c + m)
      /\ \A i \in 1..(Len(t) - (c + m)) : two[i] = t[(c + m) + i]
  BY <1>3, TailIs
<1> HIDE DEF one, two
<1>5. Len(one) = Len(two)
  BY <1>1, <1>2, <1>4
<1>6. ASSUME NEW i \in 1..Len(one) PROVE one[i] = two[i]
  <2>1. i \in 1..(Len(rest) - m) /\ m + i \in 1..(Len(t) - c) /\ i \in 1..(Len(t) - (c + m))
    BY <1>1, <1>2
  <2>2. one[i] = rest[m + i]
    BY <1>2, <2>1
  <2>3. rest[m + i] = t[c + (m + i)]
    BY <1>1, <2>1
  <2>4. two[i] = t[(c + m) + i]
    BY <1>4, <2>1
  <2>5. c + (m + i) = (c + m) + i
    BY <2>1
  <2> QED
    BY <2>2, <2>3, <2>4, <2>5
<1>7. one = two
  BY <1>2, <1>4, <1>5, <1>6, SeqEqual
<1> QED
  BY <1>7 DEF one, two, rest

(* What is carried is the end of the text, from a place where no           *)
(* percentage is cut.                                                      *)
Cut(t, p) ==
  /\ p \in 0..Len(t)
  /\ Carry(t) = SubSeq(t, p + 1, Len(t))
  /\ \A e \in MatchEnds(t) : e <= p
  /\ p = 0 \/ (p \in 1..Len(t) /\ t[p] = 11) \/ p + 8 <= Len(t)

LEMMA CarryCut ==
  ASSUME NEW t \in Seq(Chars)
  PROVE  \E p : Cut(t, p)
<1> DEFINE consumed == Max({0} \cup MatchEnds(t))
           rest == SubSeq(t, consumed + 1, Len(t))
           from == Max({1, Len(rest) - 8 + 1})
<1>1. /\ consumed \in {0} \cup MatchEnds(t)
      /\ \A e \in MatchEnds(t) : e <= consumed
  <2>1. {0} \cup MatchEnds(t) \in SUBSET Int
    BY DEF MatchEnds
  <2>2. \A e \in {0} \cup MatchEnds(t) : e <= Len(t)
    BY DEF MatchEnds
  <2>3. {0} \cup MatchEnds(t) # {}
    OBVIOUS
  <2>4. Len(t) \in Int
    OBVIOUS
  <2> QED
    BY <2>1, <2>2, <2>3, <2>4, GreatestIs
<1>2. consumed \in 0..Len(t)
  BY <1>1 DEF MatchEnds
<1>3. consumed # 0 => consumed \in 1..Len(t) /\ t[consumed] = 11
  <2>1. consumed # 0 => consumed \in MatchEnds(t)
    BY <1>1
  <2> HIDE DEF consumed
  <2> QED
    BY <1>2, <2>1 DEF MatchEnds, BAR
<1>4. Carry(t) = SubSeq(rest, from, Len(rest))
  BY DEF Carry, CARRY
<1>5. \A e \in MatchEnds(t) : e <= consumed
  BY <1>1
<1> HIDE DEF consumed
<1>6. Len(rest) = Len(t) - consumed /\ Len(rest) \in Nat
  BY <1>2, TailIs
<1>7. from = IF Len(rest) >= 9 THEN Len(rest) - 7 ELSE 1
  <2> HIDE DEF rest
  <2>1. {1, Len(rest) - 8 + 1} \in SUBSET Int
    BY <1>6
  <2>2. \A x \in {1, Len(rest) - 8 + 1} : x <= Len(rest) + 1
    BY <1>6
  <2>3. /\ from \in {1, Len(rest) - 8 + 1}
        /\ \A x \in {1, Len(rest) - 8 + 1} : x <= from
    <3>1. Len(rest) + 1 \in Int /\ {1, Len(rest) - 8 + 1} # {}
      BY <1>6
    <3> QED
      BY <2>1, <2>2, <3>1, GreatestIs
  <2> HIDE DEF from
  <2> QED
    BY <1>6, <2>3
<1> DEFINE m == from - 1
           p == consumed + m
<1>8. m \in 0..(Len(t) - consumed) /\ from = m + 1
  <2> HIDE DEF from, rest
  <2> QED
    BY <1>6, <1>7
<1>9. Carry(t) = SubSeq(t, p + 1, Len(t))
  <2> HIDE DEF from
  <2> HIDE DEF m
  <2>1. SubSeq(rest, m + 1, Len(rest)) = SubSeq(t, consumed + m + 1, Len(t))
    BY <1>2, <1>8, TailOfTail
  <2> QED
    BY <1>4, <1>8, <2>1
<1>10. p \in 0..Len(t) /\ consumed <= p /\ (p = consumed \/ p + 8 <= Len(t))
  <2> HIDE DEF from, rest
  <2> QED
    BY <1>2, <1>6, <1>7, <1>8
<1> HIDE DEF p
<1>11. Cut(t, p)
  <2>1. \A e \in MatchEnds(t) : e <= p
    BY <1>2, <1>5, <1>10 DEF MatchEnds
  <2>2. p = 0 \/ (p \in 1..Len(t) /\ t[p] = 11) \/ p + 8 <= Len(t)
    BY <1>3, <1>10
  <2> QED
    BY <1>9, <1>10, <2>1, <2>2 DEF Cut
<1> QED
  BY <1>11

LEMMA ValueNat ==
  ASSUME NEW t \in Seq(Chars), NEW e \in MatchEnds(t)
  PROVE  ValueAt(t, e) \in Nat
<1>1. e \in Int /\ e \in 3..Len(t)
  BY DEF MatchEnds
<1>2. t[e - 2] \in 0..9
  BY <1>1, MatchEndIs
<1>3. e - 1 - 1 = e - 2
  BY <1>1
<1> DEFINE x == t[e - 1 - 1]
           y == t[e - 1 - 2]
           z == t[e - 1 - 3]
<1>4. x \in 0..9
  BY <1>2, <1>3
<1>5. ValueAt(t, e) = Number(e, x, y, z)
  BY <1>1, ValueIs
<1> HIDE DEF x, y, z
<1>6. Number(e, x, y, z) \in Nat
  <2>1. (IF e >= 4 /\ y \in 0..9 THEN 10 * y ELSE 0) \in Nat
    <3>1. y \in 0..9 => 10 * y \in Nat
      OBVIOUS
    <3> QED
      BY <3>1
  <2>2. (IF e >= 5 /\ y \in 0..9 /\ z \in 0..9 THEN 100 * z ELSE 0) \in Nat
    <3>1. z \in 0..9 => 100 * z \in Nat
      OBVIOUS
    <3> QED
      BY <3>1
  <2>3. \A i \in 0..9, j \in Nat, k \in Nat : i + j + k \in Nat
    OBVIOUS
  <2> QED
    BY <1>4, <2>1, <2>2, <2>3 DEF Number
<1> QED
  BY <1>5, <1>6

Places(t) == {e \in MatchEnds(t) : ValueAt(t, e) <= 100}
Values(t) == [e \in MatchEnds(t) |-> ValueAt(t, e)]

LEMMA PercentagesAre ==
  ASSUME NEW t
  PROVE  Percentages(t) = Picked(Len(t), Places(t), Values(t))
  BY DEF Percentages, Places, Values

LEMMA ValuesNat ==
  ASSUME NEW t \in Seq(Chars), NEW e \in Places(t)
  PROVE  Values(t)[e] \in Nat
  BY ValueNat DEF Places, Values

LEMMA PercentagesSeq ==
  ASSUME NEW t \in Seq(Chars)
  PROVE  Percentages(t) \in Seq(Nat)
<1>1. \A k \in 1..Len(t) : k \in Places(t) => Values(t)[k] \in Nat
  BY ValuesNat
<1>2. Len(t) \in Nat
  OBVIOUS
<1> QED
  BY <1>1, <1>2, PickedSeq, PercentagesAre

(* The carried end holds no percentage of its own.                         *)
LEMMA CarryHolds ==
  ASSUME NEW a \in Seq(Chars), NEW p, Cut(a, p)
  PROVE  /\ Carry(a) \in Seq(Chars)
         /\ Len(Carry(a)) = Len(a) - p
         /\ \A i \in 1..(Len(a) - p) : Carry(a)[i] = a[p + i]
         /\ MatchEnds(Carry(a)) = {}
<1> DEFINE c == Carry(a)
<1>p. p \in 0..Len(a) /\ p \in Int
  BY DEF Cut
<1>1. /\ c \in Seq(Chars)
      /\ Len(c) = Len(a) - p
      /\ \A i \in 1..(Len(a) - p) : c[i] = a[p + i]
  BY <1>p, TailIs DEF Cut
<1> HIDE DEF c
<1>2. ASSUME NEW e \in MatchEnds(c) PROVE FALSE
  <2>1. e \in 3..Len(c) /\ e \in Int
    BY DEF MatchEnds
  <2>2. c[e] = 11 /\ c[e - 1] = 10 /\ c[e - 2] \in 0..9
    BY <1>1, <2>1, MatchEndIs
  <2>3. /\ e \in 1..(Len(a) - p) /\ e - 1 \in 1..(Len(a) - p) /\ e - 2 \in 1..(Len(a) - p)
        /\ p + (e - 1) = (p + e) - 1 /\ p + (e - 2) = (p + e) - 2
    BY <1>p, <1>1, <2>1
  <2>4. c[e] = a[p + e] /\ c[e - 1] = a[(p + e) - 1] /\ c[e - 2] = a[(p + e) - 2]
    <3>1. c[e - 1] = a[p + (e - 1)] /\ c[e - 2] = a[p + (e - 2)] /\ c[e] = a[p + e]
      BY <1>1, <2>3
    <3> QED
      BY <2>3, <3>1
  <2> DEFINE f == p + e
  <2>5. f \in Int /\ f \in 3..Len(a) /\ f > p
    BY <1>p, <1>1, <2>1
  <2>6. a[f] = 11 /\ a[f - 1] = 10 /\ a[f - 2] \in 0..9
    BY <2>2, <2>4
  <2> HIDE DEF f
  <2>7. f \in MatchEnds(a)
    BY <2>5, <2>6, MatchEndIs
  <2> QED
    BY <1>p, <2>5, <2>7 DEF Cut
<1> QED
  BY <1>1, <1>2 DEF c

(* TqdmPercent loses and repeats nothing: however a text is cut in two, of *)
(* any characters, the percentages of the first part and those of what is  *)
(* carried of it, with the second part, are those of the whole.            *)
THEOREM Stream ==
  ASSUME NEW a \in Seq(Chars), NEW b \in Seq(Chars)
  PROVE  Percentages(a \o b) = Percentages(a) \o Percentages(Carry(a) \o b)
<1> DEFINE t == a \o b
           c == Carry(a)
           u == c \o b
           n == Len(a)
           m == Len(b)
<1>0. PICK p : Cut(a, p)
  BY CarryCut
<1> DEFINE q == n - p
<1>p. p \in 0..n /\ p \in Int /\ n \in Nat /\ m \in Nat /\ q \in Nat /\ p + q = n
  BY <1>0 DEF Cut
<1>c. /\ c \in Seq(Chars)
      /\ Len(c) = q
      /\ \A i \in 1..q : c[i] = a[p + i]
      /\ MatchEnds(c) = {}
  BY <1>0, CarryHolds
<1>k. p = 0 \/ (p \in 1..n /\ a[p] = 11) \/ p + 8 <= n
  BY <1>0 DEF Cut
<1> HIDE DEF c
<1>t. /\ t \in Seq(Chars) /\ Len(t) = n + m
      /\ \A i \in 1..n : t[i] = a[i]
      /\ \A i \in 1..m : t[n + i] = b[i]
  OBVIOUS
<1>u. /\ u \in Seq(Chars) /\ Len(u) = q + m
      /\ \A i \in 1..q : u[i] = c[i]
      /\ \A i \in 1..m : u[q + i] = b[i]
  <2>1. u \in Seq(Chars) /\ Len(u) = q + m
    BY <1>c, SMTT(40)
  <2>2. ASSUME NEW i \in 1..q PROVE u[i] = c[i]
    BY <1>p, <1>c, <2>2
  <2>3. ASSUME NEW i \in 1..m PROVE u[q + i] = b[i]
    <3>1. q + i \in 1..(q + m) /\ ~(q + i <= q) /\ (q + i) - q = i
      BY <1>p
    <3> HIDE DEF q, m
    <3>2. q + i \in 1..(Len(c) + Len(b))
      BY <1>c, <3>1 DEF m
    <3> QED
      BY <1>c, <3>1, <3>2, ConcatProperties
  <2> QED
    BY <2>1, <2>2, <2>3
<1>i. ASSUME NEW i \in 1..Len(u) PROVE u[i] = t[p + i]
  <2>1. CASE i \in 1..q
    <3>1. p + i \in 1..n
      BY <1>p, <2>1
    <3> QED
      BY <1>c, <1>t, <1>u, <2>1, <3>1
  <2>2. CASE i > q
    <3> DEFINE j == i - q
    <3>1. j \in 1..m /\ i = q + j /\ p + i = n + j
      BY <1>p, <1>u, <2>2
    <3> HIDE DEF j, t, u, q, n, m
    <3> QED
      BY <1>t, <1>u, <3>1
  <2> QED
    BY <1>p, <1>u, <2>1, <2>2
<1> HIDE DEF t, u
<1>1. ASSUME NEW e \in 1..m
      PROVE  /\ n + e \in MatchEnds(t) <=> q + e \in MatchEnds(u)
             /\ q + e \in MatchEnds(u) => ValueAt(t, n + e) = ValueAt(u, q + e)
  <2> DEFINE f == q + e
  <2>1. /\ p \in 0..Len(t) /\ Len(u) = Len(t) - p /\ f \in 1..Len(u)
        /\ n + e = p + f /\ f > n - p /\ f \in Int
    BY <1>p, <1>t, <1>u, SMTT(40)
  <2> HIDE DEF f
  <2>2. Uncut(t, p, p + f)
    <3>1. p \in 1..n => p \in 1..Len(t) /\ t[p] = a[p]
      BY <1>p, <1>t
    <3>2. p + 8 <= n => p + 4 < p + f
      BY <1>p, <2>1
    <3> HIDE DEF n
    <3> QED
      BY <1>k, <3>1, <3>2 DEF Uncut
  <2>3. /\ p + f \in MatchEnds(t) <=> f \in MatchEnds(u)
        /\ f \in MatchEnds(u) => ValueAt(t, p + f) = ValueAt(u, f)
    BY <1>t, <1>u, <1>i, <2>1, <2>2, SuffixMatch
  <2> QED
    BY <2>1, <2>3 DEF f
<1> DEFINE T == {e \in 1..m : q + e \in Places(u)}
           g == [e \in T |-> Values(u)[q + e]]
<1> HIDE DEF n, m, q
<1>2. Percentages(t) = Picked(n, Places(t), Values(t)) \o Picked(m, T, g)
  <2>1. \A e \in 1..m : n + e \in Places(t) <=> e \in T
    BY <1>1 DEF Places
  <2>2. \A e \in 1..m : e \in T => Values(t)[n + e] = g[e]
    BY <1>1 DEF Places, Values
  <2>3. n \in Nat /\ m \in Nat /\ q \in Nat
    BY <1>p
  <2> HIDE DEF T, g
  <2>5. Continues(n, m, Places(t), Values(t), T, g)
    BY <2>1, <2>2 DEF Continues
  <2>4. Picked(n + m, Places(t), Values(t))
          = Picked(n, Places(t), Values(t)) \o Picked(m, T, g)
    BY <2>3, <2>5, PickedJoin
  <2> QED
    BY <1>t, <2>4, PercentagesAre
<1>3. Percentages(u) = Picked(q, Places(u), Values(u)) \o Picked(m, T, g)
  <2>1. \A e \in 1..m : q + e \in Places(u) <=> e \in T
    OBVIOUS
  <2>2. \A e \in 1..m : e \in T => Values(u)[q + e] = g[e]
    OBVIOUS
  <2>3. n \in Nat /\ m \in Nat /\ q \in Nat
    BY <1>p
  <2> HIDE DEF T, g
  <2>5. Continues(q, m, Places(u), Values(u), T, g)
    BY <2>1, <2>2 DEF Continues
  <2>4. Picked(q + m, Places(u), Values(u))
          = Picked(q, Places(u), Values(u)) \o Picked(m, T, g)
    BY <2>3, <2>5, PickedJoin
  <2> QED
    BY <1>u, <2>4, PercentagesAre
<1>4. Picked(n, Places(t), Values(t)) = Percentages(a)
  <2>1. ASSUME NEW e \in 1..n
        PROVE  /\ e \in Places(t) <=> e \in Places(a)
               /\ e \in Places(t) => Values(t)[e] = Values(a)[e]
    <3>1. /\ e \in MatchEnds(a) <=> e \in MatchEnds(t)
          /\ e \in MatchEnds(a) => ValueAt(a, e) = ValueAt(t, e)
      <4>1. Len(a) <= Len(t)
        BY <1>p, <1>t DEF n
      <4> QED
        BY <1>t, <4>1, PrefixMatch DEF n
    <3> QED
      BY <3>1 DEF Places, Values
  <2>2. \A e \in 1..n : e \in Places(t) <=> e \in Places(a)
    BY <2>1
  <2>3. \A e \in 1..n : e \in Places(t) => Values(t)[e] = Values(a)[e]
    BY <2>1
  <2> QED
    BY <1>p, <2>2, <2>3, PickedSame, PercentagesAre DEF n
<1>5. Picked(q, Places(u), Values(u)) = <<>>
  <2>1. ASSUME NEW e \in 1..q PROVE e \notin Places(u)
    <3>1. Len(c) <= Len(u) /\ e \in 1..Len(c) /\ \A i \in 1..Len(c) : c[i] = u[i]
      BY <1>p, <1>c, <1>u
    <3>2. e \in MatchEnds(c) <=> e \in MatchEnds(u)
      BY <1>c, <1>u, <3>1, PrefixMatch
    <3> QED
      BY <1>c, <3>2 DEF Places
  <2> QED
    BY <1>p, <2>1, PickedEmpty
<1>6. Picked(m, T, g) \in Seq(Nat)
  <2>1. \A e \in 1..m : e \in T => g[e] \in Nat
    BY <1>u, ValuesNat
  <2> HIDE DEF T, g
  <2> QED
    BY <1>p, <2>1, PickedSeq
<1>7. Percentages(u) = Picked(m, T, g)
  <2> HIDE DEF T, g
  <2> QED
    BY <1>3, <1>5, <1>6, ConcatEmptySeq
<1> HIDE DEF T, g
<1> QED
  BY <1>2, <1>4, <1>7 DEF t, u, c

(* What the child draws, a character at a time.                            *)
Drawable == 0..999
Hundredths == 0..100

LEMMA DigitsAre ==
  ASSUME NEW n \in Drawable
  PROVE  LET d == Digits(n) IN
         /\ d \in Seq(0..9)
         /\ \/ Len(d) = 1 /\ d[1] = n
            \/ Len(d) = 2 /\ n = d[2] + 10 * d[1]
            \/ Len(d) = 3 /\ n = d[3] + 10 * d[2] + 100 * d[1]
<1>0. n \in 0..999
  BY DEF Drawable
<1>1. CASE n < 10
  <2>1. Digits(n) = <<n>> /\ n \in 0..9
    BY <1>0, <1>1 DEF Digits
  <2> QED
    BY <2>1
<1>2. CASE n >= 10 /\ n < 100
  <2>1. Digits(n) = <<n \div 10, n % 10>>
    BY <1>0, <1>2 DEF Digits
  <2>2. n \div 10 \in 0..9 /\ n % 10 \in 0..9 /\ n = (n % 10) + 10 * (n \div 10)
    BY <1>0, <1>2
  <2>3. \A y \in 0..9, x \in 0..9 :
          /\ <<y, x>> \in Seq(0..9) /\ Len(<<y, x>>) = 2
          /\ <<y, x>>[1] = y /\ <<y, x>>[2] = x
    OBVIOUS
  <2> QED
    BY <2>1, <2>2, <2>3
<1>3. CASE n >= 100
  <2>1. Digits(n) = <<n \div 100, (n \div 10) % 10, n % 10>>
    BY <1>0, <1>3 DEF Digits
  <2>2. n \div 100 \in 0..9 /\ (n \div 10) % 10 \in 0..9 /\ n % 10 \in 0..9
    BY <1>0, <1>3
  <2>3. n = (n % 10) + 10 * ((n \div 10) % 10) + 100 * (n \div 100)
    BY <1>0, <1>3
  <2>4. \A z \in 0..9, y \in 0..9, x \in 0..9 :
          /\ <<z, y, x>> \in Seq(0..9) /\ Len(<<z, y, x>>) = 3
          /\ <<z, y, x>>[1] = z /\ <<z, y, x>>[2] = y /\ <<z, y, x>>[3] = x
    OBVIOUS
  <2> QED
    BY <2>1, <2>2, <2>3, <2>4
<1> QED
  BY <1>0, <1>1, <1>2, <1>3

LEMMA CharsAt ==
  ASSUME NEW a \in Seq(Chars), NEW b \in Seq(Chars), NEW i \in 1..(Len(a) + Len(b))
  PROVE  (a \o b)[i] = IF i <= Len(a) THEN a[i] ELSE b[i - Len(a)]
  OBVIOUS

LEMMA RedrawIs ==
  ASSUME NEW n \in Drawable, NEW length \in Nat
  PROVE  LET d == Digits(n)
             r == Redraw(n, length)
         IN  /\ d \in Seq(0..9) /\ Len(d) \in 1..3
             /\ r \in Seq(Chars)
             /\ Len(r) = Len(d) + 2 + length
             /\ \A i \in 1..Len(d) : r[i] = d[i]
             /\ r[Len(d) + 1] = 10 /\ r[Len(d) + 2] = 11
             /\ \A i \in Len(d) + 3..Len(r) : r[i] = 12
<1> DEFINE d == Digits(n)
           m == <<PERCENT, BAR>>
           g == [k \in 1..length |-> GLYPH]
           r == Redraw(n, length)
<1>1. d \in Seq(0..9) /\ Len(d) \in 1..3
  <2>1. d \in Seq(0..9) /\ (Len(d) = 1 \/ Len(d) = 2 \/ Len(d) = 3)
    BY DigitsAre, Zenon
  <2> HIDE DEF d
  <2> QED
    BY <2>1
<1>2. m \in Seq(Chars) /\ Len(m) = 2 /\ m[1] = 10 /\ m[2] = 11
  BY DEF PERCENT, BAR, Chars
<1>3. g \in Seq(Chars) /\ Len(g) = length /\ \A i \in 1..length : g[i] = 12
  BY DEF GLYPH, Chars
<1>4. r = (d \o m) \o g
  BY DEF Redraw
<1>5. d \in Seq(Chars)
  BY <1>1 DEF Chars
<1> HIDE DEF d, m, g, r
<1> DEFINE h == d \o m
<1>6. /\ h \in Seq(Chars) /\ Len(h) = Len(d) + 2
      /\ \A i \in 1..Len(d) : h[i] = d[i]
      /\ h[Len(d) + 1] = 10 /\ h[Len(d) + 2] = 11
  <2>1. h \in Seq(Chars) /\ Len(h) = Len(d) + 2
    <3>1. d \in Seq(Chars) /\ m \in Seq(Chars) /\ Len(m) = 2
      BY <1>2, <1>5
    <3>2. h \in Seq(Chars) /\ Len(h) = Len(d) + Len(m)
      BY <3>1, ConcatProperties, Zenon
    <3> HIDE DEF h
    <3> QED
      BY <3>1, <3>2
  <2>2. \A i \in 1..Len(d) : h[i] = d[i]
    BY <1>2, <1>5
  <2>3. ASSUME NEW i \in 1..2 PROVE h[Len(d) + i] = m[i]
    <3>1. /\ Len(d) + i \in 1..(Len(d) + Len(m)) /\ ~(Len(d) + i <= Len(d))
          /\ (Len(d) + i) - Len(d) = i
      BY <1>1, <1>2
    <3> QED
      BY <1>2, <1>5, <3>1, CharsAt
  <2> QED
    BY <1>2, <2>1, <2>2, <2>3
<1> HIDE DEF h
<1>7. r = h \o g
  BY <1>4 DEF h
<1>8. r \in Seq(Chars) /\ Len(r) = Len(d) + 2 + length
  <2>1. g \in Seq(Chars) /\ h \in Seq(Chars) /\ Len(g) = length /\ Len(h) = Len(d) + 2
    BY <1>3, <1>6
  <2>2. r \in Seq(Chars) /\ Len(r) = Len(h) + Len(g)
    BY <1>7, <2>1, ConcatProperties, Zenon
  <2> QED
    BY <2>1, <2>2
<1>9. \A i \in 1..Len(h) : r[i] = h[i]
  BY <1>3, <1>6, <1>7
<1>10. ASSUME NEW i \in Len(d) + 3..Len(r) PROVE r[i] = 12
  <2>1. i \in Len(h) + 1..Len(h) + Len(g) /\ i - Len(h) \in 1..length
    BY <1>1, <1>3, <1>6, <1>8
  <2>2. r[i] = g[i - Len(h)]
    BY <1>1, <1>3, <1>6, <1>7, <2>1
  <2> QED
    BY <1>3, <2>1, <2>2
<1>11. Len(d) + 1 \in 1..Len(h) /\ Len(d) + 2 \in 1..Len(h) /\ \A i \in 1..Len(d) : i \in 1..Len(h)
  BY <1>1, <1>6
<1> QED
  BY <1>1, <1>6, <1>8, <1>9, <1>10, <1>11 DEF d, r

(* After a text that holds no percentage and ends in no digit, a redraw    *)
(* says its number, if it is a percentage.                                 *)
EndsPlain(t) == Len(t) > 0 => ~(t[Len(t)] \in Digit)

Says(c, n, length) ==
  Percentages(c \o Redraw(n, length)) = IF n <= 100 THEN <<n>> ELSE <<>>

LEMMA RedrawSays ==
  ASSUME NEW c \in Seq(Chars), MatchEnds(c) = {}, EndsPlain(c),
         NEW n \in Drawable, NEW length \in Nat
  PROVE  Says(c, n, length)
<1> DEFINE d == Digits(n)
           r == Redraw(n, length)
           t == c \o r
           l == Len(d)
           m == Len(c)
           only == m + l + 2
<1>r. /\ d \in Seq(0..9) /\ l \in 1..3
      /\ r \in Seq(Chars)
      /\ Len(r) = l + 2 + length
      /\ \A i \in 1..l : r[i] = d[i]
      /\ r[l + 1] = 10 /\ r[l + 2] = 11
      /\ \A i \in l + 3..Len(r) : r[i] = 12
  BY RedrawIs
<1>d. \/ l = 1 /\ d[1] = n
      \/ l = 2 /\ n = d[2] + 10 * d[1]
      \/ l = 3 /\ n = d[3] + 10 * d[2] + 100 * d[1]
  BY DigitsAre
<1> HIDE DEF d, r
<1>m. m \in Nat
  OBVIOUS
<1>t. /\ t \in Seq(Chars) /\ Len(t) = m + Len(r)
      /\ \A i \in 1..m : t[i] = c[i]
      /\ \A i \in 1..Len(r) : t[m + i] = r[i]
  <2>1. r \in Seq(Chars)
    BY <1>r
  <2> QED
    BY <2>1
<1> HIDE DEF t, l
<1>1. /\ \A i \in 1..l : t[m + i] = d[i] /\ d[i] \in 0..9
      /\ t[m + l + 1] = 10 /\ t[m + l + 2] = 11
  <2>1. \A i \in 1..l : i \in 1..Len(r)
    BY <1>r
  <2>2. l + 1 \in 1..Len(r) /\ l + 2 \in 1..Len(r)
    BY <1>r
  <2>3. m + (l + 1) = m + l + 1 /\ m + (l + 2) = m + l + 2
    BY <1>r, <1>m
  <2>4. \A i \in 1..l : d[i] \in 0..9
    BY <1>r DEF l
  <2>5. \A i \in 1..l : t[m + i] = d[i]
    BY <1>r, <1>t, <2>1
  <2>6. t[m + (l + 1)] = 10 /\ t[m + (l + 2)] = 11
    BY <1>r, <1>t, <2>2
  <2> QED
    BY <2>3, <2>4, <2>5, <2>6
<1>2. ASSUME NEW e \in MatchEnds(t) PROVE e = only
  <2>0. e \in Int /\ e \in 3..Len(t)
    BY DEF MatchEnds
  <2>1. t[e] = 11
    BY <1>t, <2>0, MatchEndIs
  <2>2. CASE e \in 1..m
    <3>1. Len(c) <= Len(t)
      BY <1>r, <1>t
    <3>2. e \in MatchEnds(c)
      BY <1>t, <2>2, <3>1, PrefixMatch DEF m
    <3> QED
      BY <3>2
  <2>3. CASE e > m
    <3> DEFINE i == e - m
    <3>1. i \in 1..Len(r) /\ e = m + i
      BY <1>m, <1>t, <2>0, <2>3
    <3> HIDE DEF i, m
    <3>2. r[i] = 11
      BY <1>t, <2>1, <3>1
    <3>3. ~(i \in 1..l)
      <4>1. \A k \in 1..l : r[k] \in 0..9
        BY <1>1, <1>r
      <4> QED
        BY <3>2, <4>1
    <3>4. i # l + 1 /\ ~(i \in l + 3..Len(r))
      BY <1>r, <3>2
    <3>5. i = l + 2
      BY <1>r, <3>1, <3>3, <3>4
    <3> QED
      BY <1>r, <1>m, <3>1, <3>5
  <2> QED
    BY <1>m, <2>0, <2>2, <2>3
<1> HIDE DEF m
<1>o. /\ only \in 3..Len(t) /\ only \in Int
      /\ only - 1 = m + l + 1 /\ only - 2 = m + l /\ only - 1 - 1 = m + l
      /\ only - 1 - 2 = m + (l - 1) /\ only - 1 - 3 = m + (l - 2)
  BY <1>r, <1>m, <1>t
<1>3. only \in MatchEnds(t)
  <2>1. t[only] = 11 /\ t[only - 1] = 10 /\ t[only - 2] \in 0..9
    <3>1. l \in 1..l
      BY <1>r
    <3>2. t[m + l] \in 0..9
      BY <1>1, <3>1
    <3>3. only = m + l + 2
      OBVIOUS
    <3> HIDE DEF only
    <3> QED
      BY <1>1, <1>o, <3>2, <3>3
  <2> HIDE DEF only
  <2> QED
    BY <1>t, <1>o, <2>1, MatchEndIs
<1>4. ValueAt(t, only) = n
  <2>1. ValueAt(t, only) = Number(only, t[m + l], t[m + (l - 1)], t[m + (l - 2)])
    <3> HIDE DEF only
    <3> QED
      BY <1>o, ValueIs
  <2>2. m > 0 => ~(t[m] \in 0..9)
    <3>1. m > 0 => m \in 1..m /\ t[m] = c[m] /\ ~(c[m] \in 0..9)
      BY <1>m, <1>t DEF EndsPlain, m, Digit
    <3> QED
      BY <3>1
  <2>3. CASE l = 1 /\ d[1] = n
    <3>1. t[m + l] = n /\ n \in 0..9 /\ m + (l - 1) = m /\ only = m + 3
      BY <1>1, <1>m, <2>3
    <3>2. ~(only >= 4 /\ t[m + (l - 1)] \in 0..9)
      BY <1>m, <2>2, <3>1
    <3> HIDE DEF only
    <3> QED
      BY <2>1, <3>1, <3>2 DEF Number
  <2>4. CASE l = 2 /\ n = d[2] + 10 * d[1]
    <3> DEFINE y == d[1]
               x == d[2]
    <3>1. /\ t[m + l] = x /\ t[m + (l - 1)] = y /\ m + (l - 2) = m /\ only = m + 4
          /\ x \in 0..9 /\ y \in 0..9
      <4>1. 1 \in 1..l /\ 2 \in 1..l /\ l - 1 = 1
        BY <2>4
      <4> QED
        BY <1>1, <1>m, <2>4, <4>1
    <3>2. ~(only >= 5 /\ t[m + (l - 2)] \in 0..9) /\ only >= 4
      BY <1>m, <2>2, <3>1
    <3>5. n = x + 10 * y
      BY <2>4
    <3> HIDE DEF only, x, y
    <3> DEFINE w == t[m + (l - 2)]
    <3>3. ValueAt(t, only) = Number(only, x, y, w)
      BY <2>1, <3>1
    <3>4. ~(only >= 5 /\ w \in 0..9)
      BY <3>2
    <3> HIDE DEF w
    <3> QED
      BY <3>1, <3>2, <3>3, <3>4, <3>5 DEF Number
  <2>5. CASE l = 3 /\ n = d[3] + 10 * d[2] + 100 * d[1]
    <3> DEFINE z == d[1]
               y == d[2]
               x == d[3]
    <3>1. /\ t[m + l] = x /\ t[m + (l - 1)] = y /\ t[m + (l - 2)] = z /\ only = m + 5
          /\ x \in 0..9 /\ y \in 0..9 /\ z \in 0..9
      <4>1. 1 \in 1..l /\ 2 \in 1..l /\ 3 \in 1..l /\ l - 1 = 2 /\ l - 2 = 1
        BY <2>5
      <4> QED
        BY <1>1, <1>m, <2>5, <4>1
    <3>2. only >= 5 /\ only >= 4
      BY <1>m, <3>1
    <3>4. n = x + 10 * y + 100 * z
      BY <2>5
    <3> HIDE DEF only, x, y, z
    <3>3. ValueAt(t, only) = Number(only, x, y, z)
      BY <2>1, <3>1
    <3> QED
      BY <3>1, <3>2, <3>3, <3>4 DEF Number
  <2> QED
    BY <1>d, <2>3, <2>4, <2>5
<1> HIDE DEF only
<1>5. Percentages(t) = Picked(Len(t), Places(t), Values(t)) /\ Len(t) \in Nat /\ only \in 1..Len(t)
  BY <1>t, <1>o, PercentagesAre
<1>6. \A e \in 1..Len(t) : e \in Places(t) => e = only
  BY <1>2 DEF Places
<1>7. CASE n <= 100
  <2>1. only \in Places(t) /\ Values(t)[only] = n
    BY <1>3, <1>4, <1>7 DEF Places, Values
  <2>2. Picked(Len(t), Places(t), Values(t)) = <<Values(t)[only]>>
    <3> DEFINE k == Len(t)
               P == Places(t)
               f == Values(t)
    <3>1. only \in 1..k /\ k \in Nat /\ only \in P
      BY <1>5, <2>1
    <3>2. \A e \in 1..k : e \in P => e = only
      BY <1>6
    <3> HIDE DEF k, P, f
    <3> HIDE DEF only
    <3>4. OnlyPlace(k, P, only)
      BY <3>1, <3>2 DEF OnlyPlace
    <3>5. PicksOne(k, P, f, only)
      BY <3>1, <3>4, PickedOne
    <3>3. Picked(k, P, f) = <<f[only]>>
      BY <3>5 DEF PicksOne
    <3> QED
      BY <3>3 DEF k, P, f
  <2> QED
    BY <1>5, <1>7, <2>1, <2>2 DEF t, r, Says
<1>8. CASE ~(n <= 100)
  <2>1. \A e \in 1..Len(t) : e \notin Places(t)
    BY <1>4, <1>6, <1>8 DEF Places
  <2>2. Picked(Len(t), Places(t), Values(t)) = <<>>
    BY <1>5, <2>1, PickedEmpty
  <2> QED
    BY <1>5, <1>8, <2>2 DEF t, r, Says
<1> QED
  BY <1>7, <1>8

LEMMA CharsJoin ==
  ASSUME NEW a \in Seq(Chars), NEW b \in Seq(Chars)
  PROVE  /\ a \o b \in Seq(Chars)
         /\ Len(a \o b) = Len(a) + Len(b)
         /\ \A i \in 1..Len(a) : (a \o b)[i] = a[i]
         /\ \A i \in 1..Len(b) : (a \o b)[Len(a) + i] = b[i]
  OBVIOUS

Regroups(a, b, c) == a \o (b \o c) = (a \o b) \o c

LEMMA Regroup ==
  ASSUME NEW V, NEW a \in Seq(V), NEW b \in Seq(V), NEW c \in Seq(V)
  PROVE  Regroups(a, b, c)
<1> DEFINE x == a \o (b \o c)
           y == (a \o b) \o c
<1>1. b \o c \in Seq(V) /\ a \o b \in Seq(V)
  OBVIOUS
<1>2. x \in Seq(V) /\ y \in Seq(V) /\ Len(x) = Len(y)
  BY <1>1
<1>3. ASSUME NEW i \in 1..Len(x) PROVE x[i] = y[i]
  BY <1>1
<1> HIDE DEF x, y
<1>4. x = y
  BY <1>2, <1>3, SeqEqual
<1> QED
  BY <1>4 DEF x, y, Regroups

LEMMA CharsRegroup ==
  ASSUME NEW a \in Seq(Chars), NEW b \in Seq(Chars), NEW c \in Seq(Chars)
  PROVE  a \o (b \o c) = (a \o b) \o c
<1> QED
  BY Regroup DEF Regroups

LEMMA NumbersRegroup ==
  ASSUME NEW a \in Seq(Nat), NEW b \in Seq(Nat), NEW c \in Seq(Nat)
  PROVE  a \o (b \o c) = (a \o b) \o c
<1> QED
  BY Regroup, SMTT(40) DEF Regroups

LEMMA NoDigit ==
  ASSUME NEW x, x = 11 \/ x = 12
  PROVE  ~(x \in Digit)
  BY DEF Digit

LEMMA Hundred ==
  ASSUME NEW x \in Drawable, x <= 100
  PROVE  x \in Hundredths
  BY DEF Drawable, Hundredths

(* The percentages among the numbers drawn.                                *)
Drawings(draws) ==
  Picked(Len(draws), {k \in DOMAIN draws : draws[k] <= 100}, draws)

LEMMA DrawingsSeq ==
  ASSUME NEW draws \in Seq(Drawable)
  PROVE  Drawings(draws) \in Seq(Hundredths)
<1> DEFINE P == {k \in DOMAIN draws : draws[k] <= 100}
<1>1. \A k \in 1..Len(draws) : k \in P => draws[k] \in Hundredths
  <2>1. \A k \in 1..Len(draws) : draws[k] \in Drawable
    BY ElementOfSeq
  <2>2. \A k \in P : draws[k] <= 100
    OBVIOUS
  <2> HIDE DEF P
  <2> SUFFICES ASSUME NEW k \in 1..Len(draws), k \in P
               PROVE  draws[k] \in Hundredths
    OBVIOUS
  <2>4. draws[k] \in Drawable /\ draws[k] <= 100
    BY <2>1, <2>2
  <2> QED
    BY <2>4, Hundred, Zenon
<1>2. Len(draws) \in Nat
  OBVIOUS
<1> HIDE DEF P
<1>3. Picked(Len(draws), P, draws) \in Seq(Hundredths)
  BY <1>1, <1>2, PickedSeq
<1> QED
  BY <1>3 DEF Drawings, P

DrawsNext(draws, n) ==
  Drawings(Append(draws, n)) =
    IF n <= 100 THEN Append(Drawings(draws), n) ELSE Drawings(draws)

LEMMA DrawingsNext ==
  ASSUME NEW draws \in Seq(Drawable), NEW n \in Drawable
  PROVE  DrawsNext(draws, n)
<1> DEFINE more == Append(draws, n)
           P == {k \in DOMAIN draws : draws[k] <= 100}
           Q == {k \in DOMAIN more : more[k] <= 100}
           m == Len(draws)
<1>1. /\ m \in Nat /\ Len(more) = m + 1 /\ more[m + 1] = n
      /\ \A k \in 1..m : more[k] = draws[k]
      /\ DOMAIN more = 1..(m + 1) /\ DOMAIN draws = 1..m
  OBVIOUS
<1> HIDE DEF more, m
<1>2. \A k \in 1..m : k \in Q <=> k \in P
  BY <1>1
<1>3. \A k \in 1..m : k \in Q => more[k] = draws[k]
  BY <1>1
<1>4. m + 1 \in Q <=> n <= 100
  BY <1>1
<1> HIDE DEF P, Q
<1>5. Picked(m, Q, more) = Picked(m, P, draws)
  BY <1>1, <1>2, <1>3, PickedSame
<1>6. Picked(m + 1, Q, more) =
        IF m + 1 \in Q THEN Append(Picked(m, Q, more), more[m + 1]) ELSE Picked(m, Q, more)
  BY <1>1, PickedNext
<1>7. Drawings(more) = Picked(m + 1, Q, more) /\ Drawings(draws) = Picked(m, P, draws)
  BY <1>1 DEF Drawings, P, Q, m
<1> QED
  BY <1>1, <1>4, <1>5, <1>6, <1>7 DEF more, DrawsNext

Rising(s) == \A j \in 1..Len(s), k \in 1..Len(s) : j < k => s[j] <= s[k]

LEMMA DrawingsRise ==
  ASSUME NEW draws \in Seq(Drawable), Rising(draws)
  PROVE  Rising(Drawings(draws))
<1> DEFINE P == {k \in DOMAIN draws : draws[k] <= 100}
           d == Picked(Len(draws), P, draws)
<1>0. Len(draws) \in Nat
  OBVIOUS
<1> HIDE DEF P
<1>1. PICK at : ComesFrom(at, Len(draws), P, draws)
  BY <1>0, PickedFrom
<1>2. /\ at \in Seq(Nat) /\ Len(at) = Len(d)
      /\ \A j \in 1..Len(at) : at[j] \in 1..Len(draws) /\ d[j] = draws[at[j]]
      /\ \A j \in 1..Len(at), k \in 1..Len(at) : j < k => at[j] < at[k]
  BY <1>1 DEF ComesFrom
<1> HIDE DEF d
<1>3. ASSUME NEW j \in 1..Len(d), NEW k \in 1..Len(d), j < k
      PROVE  d[j] <= d[k]
  BY <1>2, <1>3 DEF Rising
<1>4. Drawings(draws) = d
  BY DEF Drawings, d, P
<1> QED
  BY <1>3, <1>4 DEF Rising

(* What is found so far of them rises, too, and is no more than a hundred. *)
LEMMA FoundRises ==
  ASSUME NEW found \in Seq(Nat), NEW rest \in Seq(Nat),
         NEW draws \in Seq(Drawable), Rising(draws),
         found \o rest = Drawings(draws)
  PROVE  /\ Rising(found)
         /\ \A j \in 1..Len(found) : found[j] <= 100
<1> DEFINE d == Drawings(draws)
<1>1. d \in Seq(Hundredths) /\ Rising(d) /\ d = found \o rest
  BY DrawingsSeq, DrawingsRise
<1> HIDE DEF d
<1>2. ASSUME NEW j \in 1..Len(found) PROVE j \in 1..Len(d) /\ found[j] = d[j] /\ d[j] \in Hundredths
  <2>1. Len(d) = Len(found) + Len(rest) /\ j \in 1..Len(d)
    BY <1>1
  <2>2. d[j] = found[j]
    BY <1>1
  <2>3. d[j] \in Hundredths
    BY <1>1, <2>1, ElementOfSeq
  <2> QED
    BY <2>1, <2>2, <2>3
<1>3. \A j \in 1..Len(found) : found[j] <= 100
  <2>1. \A x \in Hundredths : x <= 100
    BY DEF Hundredths
  <2> QED
    BY <1>2, <2>1
<1>4. ASSUME NEW j \in 1..Len(found), NEW k \in 1..Len(found), j < k
      PROVE  found[j] <= found[k]
  BY <1>1, <1>2, <1>4 DEF Rising
<1> QED
  BY <1>3, <1>4 DEF Rising

(* The end of a text that ends plain ends plain.                           *)
EndOf(u, t, p) ==
  /\ p \in 0..Len(t) /\ Len(u) = Len(t) - p
  /\ \A i \in 1..Len(u) : u[i] = t[p + i]

LEMMA TailPlain ==
  ASSUME NEW t \in Seq(Chars), NEW u \in Seq(Chars), EndsPlain(t), NEW p, EndOf(u, t, p)
  PROVE  EndsPlain(u)
<1>0. /\ p \in 0..Len(t) /\ Len(u) = Len(t) - p
      /\ \A i \in 1..Len(u) : u[i] = t[p + i]
  BY DEF EndOf
<1>1. CASE Len(u) > 0
  <2>1. Len(u) \in 1..Len(u) /\ p + Len(u) = Len(t) /\ Len(t) > 0
    BY <1>0, <1>1
  <2>2. u[Len(u)] = t[Len(t)]
    BY <1>0, <2>1
  <2> QED
    BY <2>1, <2>2 DEF EndsPlain
<1> QED
  BY <1>1 DEF EndsPlain

(* The child draws: what is still to be read says what it drew.            *)
LEMMA DrawAccounted ==
  ASSUME NEW c \in Seq(Chars), NEW u \in Seq(Chars), NEW found \in Seq(Nat),
         NEW draws \in Seq(Drawable), NEW n \in Drawable, NEW length \in Nat,
         EndsPlain(c \o u),
         found \o Percentages(c \o u) = Drawings(draws)
  PROVE  /\ found \o Percentages(c \o (u \o Redraw(n, length))) = Drawings(Append(draws, n))
         /\ EndsPlain(c \o (u \o Redraw(n, length)))
<1> DEFINE r == Redraw(n, length)
           t == c \o u
           k == Carry(t)
           x == Percentages(t)
           y == Percentages(k \o r)
           d == Drawings(draws)
           e == IF n <= 100 THEN <<n>> ELSE <<>>
<1>1. r \in Seq(Chars) /\ t \in Seq(Chars)
  <2>1. r \in Seq(Chars)
    BY RedrawIs, Zenon
  <2> QED
    BY <2>1, CharsJoin
<1>2. c \o (u \o r) = t \o r
  <2>1. r \in Seq(Chars)
    BY <1>1
  <2> HIDE DEF r
  <2> QED
    BY <2>1, CharsRegroup
<1>r. Len(r) > 0 /\ ~(r[Len(r)] \in Digit)
  <2> DEFINE l == Len(Digits(n))
  <2>1. /\ l \in 1..3 /\ Len(r) = l + 2 + length /\ r[l + 2] = 11
        /\ \A i \in l + 3..Len(r) : r[i] = 12
    BY RedrawIs
  <2> HIDE DEF r, l
  <2>2. length = 0 => Len(r) = l + 2
    BY <2>1
  <2>3. length # 0 => Len(r) \in l + 3..Len(r)
    BY <2>1
  <2>4. length # 0 => r[Len(r)] = 12
    BY <2>1, <2>3
  <2>5. length = 0 => r[Len(r)] = 11
    BY <2>1, <2>2
  <2>6. Len(r) > 0
    BY <2>1
  <2>7. r[Len(r)] = 11 \/ r[Len(r)] = 12
    BY <2>4, <2>5
  <2> QED
    BY <2>6, <2>7, NoDigit, Zenon
<1>0. PICK p : Cut(t, p)
  BY <1>1, CarryCut
<1>3. p \in 0..Len(t)
  BY <1>0 DEF Cut
<1> HIDE DEF t, r
<1>4. /\ k \in Seq(Chars) /\ Len(k) = Len(t) - p
      /\ \A i \in 1..(Len(t) - p) : k[i] = t[p + i]
      /\ MatchEnds(k) = {}
  BY <1>0, <1>1, CarryHolds
<1> HIDE DEF k
<1>5. EndsPlain(k)
  <2>1. EndsPlain(t) /\ \A i \in 1..Len(k) : k[i] = t[p + i]
    BY <1>4 DEF t
  <2>2. t \in Seq(Chars) /\ k \in Seq(Chars) /\ Len(k) = Len(t) - p /\ EndsPlain(t)
    BY <1>1, <1>4, <2>1
  <2>3. EndOf(k, t, p)
    BY <1>3, <2>1, <2>2 DEF EndOf
  <2> QED
    BY <2>2, <2>3, TailPlain
<1>6. y = e
  <2>1. Says(k, n, length)
    BY <1>4, <1>5, RedrawSays
  <2> QED
    BY <2>1 DEF r, Says
<1>7. Percentages(t \o r) = x \o y
  BY <1>1, Stream DEF k
<1>8. x \in Seq(Nat) /\ e \in Seq(Nat) /\ d \in Seq(Hundredths)
  BY <1>1, PercentagesSeq, DrawingsSeq DEF Drawable
<1>9. found \o x = d
  BY DEF t
<1> HIDE DEF x, y
<1>10. found \o (x \o e) = d \o e
  <2> HIDE DEF d, e
  <2> QED
    BY <1>8, <1>9, NumbersRegroup
<1>11. Drawings(Append(draws, n)) = IF n <= 100 THEN Append(d, n) ELSE d
  BY DrawingsNext DEF DrawsNext
<1> HIDE DEF d
<1>12. Drawings(Append(draws, n)) = d \o e
  <2>1. CASE n <= 100
    <3>1. Append(d, n) = d \o <<n>>
      BY <1>8, <2>1, AppendIsConcat
    <3> QED
      BY <1>11, <2>1, <3>1
  <2>2. CASE ~(n <= 100)
    <3>1. d \o <<>> = d
      BY <1>8, ConcatEmptySeq
    <3> QED
      BY <1>11, <2>2, <3>1
  <2> QED
    BY <2>1, <2>2
<1>13. EndsPlain(t \o r)
  <2> DEFINE z == t \o r
  <2>1. z \in Seq(Chars) /\ Len(z) = Len(t) + Len(r)
    BY <1>1, CharsJoin
  <2>2. z[Len(t) + Len(r)] = r[Len(r)]
    <3>1. Len(r) \in 1..Len(r)
      BY <1>1, <1>r
    <3> QED
      BY <1>1, <3>1, CharsJoin
  <2> HIDE DEF z
  <2> QED
    BY <1>r, <2>1, <2>2 DEF EndsPlain, z
<1> QED
  BY <1>2, <1>6, <1>7, <1>10, <1>12, <1>13 DEF r

(* A chunk is read: what is found in it, and what is then still to be      *)
(* found, was to be found.                                                 *)
LEMMA ReadAccounted ==
  ASSUME NEW c \in Seq(Chars), NEW u \in Seq(Chars), NEW n \in 1..Len(u)
  PROVE  LET v == SubSeq(u, 1, n)
             w == SubSeq(u, n + 1, Len(u))
             k == Carry(c \o v)
         IN  /\ v \in Seq(Chars) /\ w \in Seq(Chars) /\ k \in Seq(Chars)
             /\ Percentages(c \o v) \in Seq(Nat)
             /\ Percentages(c \o v) \o Percentages(k \o w) = Percentages(c \o u)
             /\ MatchEnds(k) = {}
             /\ EndsPlain(c \o u) => EndsPlain(k \o w)
<1> DEFINE v == SubSeq(u, 1, n)
           w == SubSeq(u, n + 1, Len(u))
           t == c \o v
           k == Carry(t)
<1>1. v \in Seq(Chars) /\ Len(v) = n
  OBVIOUS
<1>2. w \in Seq(Chars) /\ Len(w) = Len(u) - n
  BY TailIs
<1>3. v \o w = u
  BY <1>1, <1>2
<1> HIDE DEF v, w
<1>4. t \in Seq(Chars)
  BY <1>1
<1>5. t \o w = c \o u
  <2>1. (c \o v) \o w = c \o (v \o w)
    BY <1>1, <1>2, CharsRegroup
  <2> QED
    BY <1>3, <2>1
<1> HIDE DEF t
<1>0. PICK p : Cut(t, p)
  BY <1>4, CarryCut
<1>p. p \in 0..Len(t)
  BY <1>0 DEF Cut
<1>6. /\ k \in Seq(Chars) /\ Len(k) = Len(t) - p
      /\ \A i \in 1..(Len(t) - p) : k[i] = t[p + i]
      /\ MatchEnds(k) = {}
  BY <1>0, <1>4, CarryHolds
<1>7. Percentages(t) \o Percentages(k \o w) = Percentages(c \o u)
  BY <1>2, <1>4, <1>5, Stream
<1>8. Percentages(t) \in Seq(Nat)
  BY <1>4, PercentagesSeq
<1> HIDE DEF k
<1>9. ASSUME EndsPlain(c \o u) PROVE EndsPlain(k \o w)
  <2> DEFINE a == t \o w
             b == k \o w
  <2>1. /\ a \in Seq(Chars) /\ Len(a) = Len(t) + Len(w) /\ EndsPlain(a)
        /\ b \in Seq(Chars) /\ Len(b) = Len(k) + Len(w)
    <3>1. EndsPlain(a)
      BY <1>5, <1>9
    <3> QED
      BY <1>2, <1>4, <1>6, <3>1, CharsJoin
  <2>2. ASSUME NEW i \in 1..Len(b) PROVE b[i] = a[p + i]
    <3>1. CASE i <= Len(k)
      <4>1. b[i] = k[i]
        BY <1>2, <1>6, <2>1, <3>1
      <4>2. i \in 1..(Len(t) - p) /\ p + i \in 1..Len(t)
        BY <1>4, <1>6, <1>p, <3>1
      <4>3. a[p + i] = t[p + i]
        BY <1>2, <1>4, <4>2
      <4> QED
        BY <1>6, <4>1, <4>2, <4>3
    <3>2. CASE i > Len(k)
      <4> DEFINE j == i - Len(k)
      <4>1. j \in 1..Len(w) /\ i = Len(k) + j /\ p + i = Len(t) + j
        BY <1>2, <1>4, <1>6, <1>p, <2>1, <3>2
      <4> HIDE DEF j
      <4>2. b[Len(k) + j] = w[j]
        BY <1>2, <1>6, <4>1, SMTT(20)
      <4>3. a[Len(t) + j] = w[j]
        BY <1>2, <1>4, <4>1
      <4> QED
        BY <4>1, <4>2, <4>3
    <3>3. i <= Len(k) \/ i > Len(k)
      <4>1. i \in Int /\ Len(k) \in Int
        BY <1>6
      <4> HIDE DEF b
      <4> QED
        BY <4>1
    <3> QED
      BY <3>1, <3>2, <3>3, Zenon
  <2>3. p \in 0..Len(a) /\ Len(b) = Len(a) - p
    BY <1>p, <1>2, <1>4, <1>6, <2>1
  <2> HIDE DEF a, b
  <2>5. EndOf(b, a, p)
    BY <2>2, <2>3 DEF EndOf
  <2>4. EndsPlain(b)
    BY <2>1, <2>5, TailPlain
  <2> QED
    BY <2>4 DEF b
<1> QED
  BY <1>1, <1>2, <1>6, <1>7, <1>8, <1>9 DEF v, w, k, t

-----------------------------------------------------------------------------
(* What stays true of a separation.                                        *)
SeparationTyped ==
  /\ demucs \in [state : {"none", "running", "exited", "killed"}, unread : Seq(Chars),
                 drawn : Seq(Drawable), code : {0, 1}]
  /\ reader \in [pass : {1, 2}, carry : Seq(Chars), found : Seq(Nat), told : Nat,
                 fractions : Seq(Nat)]

(* What was found, and what the carried and the unread text still say, is  *)
(* what was drawn.                                                         *)
Accounted ==
  reader.found \o Percentages(reader.carry \o demucs.unread) = Drawings(demucs.drawn)

Carried == MatchEnds(reader.carry) = {} /\ EndsPlain(reader.carry \o demucs.unread)

DrawnOn ==
  /\ Rising(demucs.drawn)
  /\ demucs.state = "none" => demucs.unread = <<>> /\ demucs.drawn = <<>>

Said(fraction) ==
  \/ reader.pass = 2 /\ fraction <= 300
  \/ \E j \in 1..reader.told : fraction = Span(reader.pass, reader.found[j])

ToldFound ==
  /\ reader.told <= Len(reader.found)
  /\ \A k \in 1..Len(reader.fractions) : Said(reader.fractions[k])

SeparationInv ==
  /\ SeparationTyped /\ Accounted /\ Carried /\ DrawnOn /\ ToldFound
  /\ Rising(reader.fractions) /\ ChildReaped

LEMMA EmptyText ==
  /\ <<>> \in Seq(Chars) /\ <<>> \in Seq(Nat) /\ <<>> \in Seq(Drawable)
  /\ <<>> \o <<>> = <<>>
  /\ Percentages(<<>>) = <<>> /\ MatchEnds(<<>>) = {}
  /\ EndsPlain(<<>>) /\ Drawings(<<>>) = <<>> /\ Rising(<<>>)
<1>1. /\ <<>> \in Seq(Chars) /\ <<>> \in Seq(Nat) /\ <<>> \in Seq(Drawable)
      /\ Len(<<>>) = 0 /\ <<>> \o <<>> = <<>>
  OBVIOUS
<1>2. MatchEnds(<<>>) = {}
  BY <1>1 DEF MatchEnds
<1>3. Percentages(<<>>) = <<>>
  BY <1>1, PickedNone DEF Percentages
<1>4. EndsPlain(<<>>) /\ Rising(<<>>)
  BY <1>1 DEF EndsPlain, Rising
<1>5. Drawings(<<>>) = <<>>
  BY <1>1, PickedNone DEF Drawings
<1> QED
  BY <1>1, <1>2, <1>3, <1>4, <1>5

LEMMA SeparationInitInv == SeparationInit => SeparationInv
<1> SUFFICES ASSUME SeparationInit PROVE SeparationInv
  OBVIOUS
<1>1. /\ demucs = [state |-> "none", unread |-> <<>>, drawn |-> <<>>, code |-> 0]
      /\ reader = [pass |-> 1, carry |-> <<>>, found |-> <<>>, told |-> 0, fractions |-> <<>>]
      /\ outcome = "none"
  BY DEF SeparationInit, NoChild, Reading
<1>2. SeparationTyped
  BY <1>1, EmptyText DEF SeparationTyped
<1>3. Accounted /\ Carried
  BY <1>1, EmptyText DEF Accounted, Carried
<1>4. DrawnOn /\ Rising(reader.fractions)
  BY <1>1, EmptyText DEF DrawnOn
<1>5. ToldFound
  BY <1>1, EmptySeq DEF ToldFound
<1>6. ChildReaped
  BY <1>1 DEF ChildReaped
<1> QED
  BY <1>2, <1>3, <1>4, <1>5, <1>6 DEF SeparationInv

LEMMA SeparationTypes ==
  SeparationTyped <=>
    /\ demucs = [state |-> demucs.state, unread |-> demucs.unread, drawn |-> demucs.drawn,
                 code |-> demucs.code]
    /\ demucs.state \in {"none", "running", "exited", "killed"}
    /\ demucs.unread \in Seq(Chars) /\ demucs.drawn \in Seq(Drawable)
    /\ demucs.code \in {0, 1}
    /\ reader = [pass |-> reader.pass, carry |-> reader.carry, found |-> reader.found,
                 told |-> reader.told, fractions |-> reader.fractions]
    /\ reader.pass \in {1, 2} /\ reader.carry \in Seq(Chars)
    /\ reader.found \in Seq(Nat) /\ reader.told \in Nat /\ reader.fractions \in Seq(Nat)
<1>1. ASSUME SeparationTyped
      PROVE  /\ demucs = [state |-> demucs.state, unread |-> demucs.unread,
                          drawn |-> demucs.drawn, code |-> demucs.code]
             /\ reader = [pass |-> reader.pass, carry |-> reader.carry,
                          found |-> reader.found, told |-> reader.told,
                          fractions |-> reader.fractions]
  BY <1>1 DEF SeparationTyped
<1> QED
  BY <1>1 DEF SeparationTyped

LEMMA SeparationKeeps ==
  SeparationInv /\ [SeparationNext]_separationVars => SeparationInv'
<1> SUFFICES ASSUME SeparationInv, [SeparationNext]_separationVars PROVE SeparationInv'
  OBVIOUS
<1>i. /\ SeparationTyped /\ Accounted /\ Carried /\ DrawnOn /\ ToldFound
      /\ Rising(reader.fractions) /\ ChildReaped
  BY DEF SeparationInv
<1>t. /\ demucs = [state |-> demucs.state, unread |-> demucs.unread, drawn |-> demucs.drawn,
                   code |-> demucs.code]
      /\ demucs.state \in {"none", "running", "exited", "killed"}
      /\ demucs.unread \in Seq(Chars) /\ demucs.drawn \in Seq(Drawable)
      /\ demucs.code \in {0, 1}
      /\ reader = [pass |-> reader.pass, carry |-> reader.carry, found |-> reader.found,
                   told |-> reader.told, fractions |-> reader.fractions]
      /\ reader.pass \in {1, 2} /\ reader.carry \in Seq(Chars)
      /\ reader.found \in Seq(Nat) /\ reader.told \in Nat /\ reader.fractions \in Seq(Nat)
  BY <1>i, SeparationTypes
<1>1. CASE Begins
  <2>1. /\ demucs.state = "none"
        /\ demucs' = [NoChild EXCEPT !.state = "running"] \/ demucs' = demucs
        /\ reader' = reader
        /\ demucs' = demucs \/ outcome' = "none"
        /\ demucs' = demucs => demucs'.state # "running"
    BY <1>1, <1>t DEF Begins, Running, Returns, NoChild
  <2>2. /\ demucs'.unread = demucs.unread /\ demucs'.drawn = demucs.drawn
        /\ demucs'.state \in {"none", "running"}
        /\ SeparationTyped'
    <3>1. demucs.unread = <<>> /\ demucs.drawn = <<>>
      BY <1>i, <2>1 DEF DrawnOn
    <3>2. CASE demucs' = demucs
      BY <1>i, <2>1, <3>2 DEF SeparationTyped
    <3>3. CASE demucs' = [NoChild EXCEPT !.state = "running"]
      BY <1>i, <2>1, <3>1, <3>3, EmptyText DEF SeparationTyped, NoChild
    <3> QED
      BY <2>1, <3>2, <3>3
  <2>3. Accounted' /\ Carried'
    BY <1>i, <2>1, <2>2 DEF Accounted, Carried
  <2>4. DrawnOn' /\ Rising(reader.fractions)'
    BY <1>i, <2>1, <2>2 DEF DrawnOn, Rising
  <2>5. ToldFound'
    BY <1>i, <2>1 DEF ToldFound, Said
  <2>6. ChildReaped'
    BY <2>1 DEF ChildReaped
  <2> QED
    BY <2>2, <2>3, <2>4, <2>5, <2>6 DEF SeparationInv
<1>2. CASE DemucsDraws
  <2>0. PICK n \in Percents, length \in BarLengths :
          /\ \A k \in DOMAIN demucs.drawn : demucs.drawn[k] <= n
          /\ demucs' = [demucs EXCEPT !.unread = @ \o Redraw(n, length),
                                      !.drawn = Append(@, n)]
    BY <1>2 DEF DemucsDraws
  <2>1. reader' = reader /\ outcome' = outcome /\ demucs.state = "running"
    BY <1>2 DEF DemucsDraws
  <2>2. n \in Drawable /\ length \in Nat
    BY SeparationAssumption DEF SeparationAssumption, Drawable
  <2> DEFINE r == Redraw(n, length)
  <2>3. r \in Seq(Chars)
    BY <2>2, RedrawIs, Zenon
  <2> HIDE DEF r
  <2>4. /\ demucs'.unread = demucs.unread \o r /\ demucs'.drawn = Append(demucs.drawn, n)
        /\ demucs'.state = "running"
    BY <1>t, <2>0, <2>1 DEF r
  <2>5. demucs.unread \o r \in Seq(Chars)
    BY <1>t, <2>3, CharsJoin
  <2>6. Append(demucs.drawn, n) \in Seq(Drawable)
    BY <1>t, <2>2, AppendProperties
  <2>7. SeparationTyped'
    <3>1. demucs' = [state |-> demucs.state, unread |-> demucs.unread \o r,
                     drawn |-> Append(demucs.drawn, n), code |-> demucs.code]
      BY <1>t, <2>0 DEF r
    <3> QED
      BY <1>t, <2>1, <2>5, <2>6, <3>1 DEF SeparationTyped
  <2>8. Accounted' /\ Carried'
    <3> DEFINE c == reader.carry
               u == demucs.unread
               f == reader.found
               d == demucs.drawn
    <3>1. /\ c \in Seq(Chars) /\ u \in Seq(Chars) /\ f \in Seq(Nat) /\ d \in Seq(Drawable)
          /\ EndsPlain(c \o u) /\ f \o Percentages(c \o u) = Drawings(d)
          /\ MatchEnds(c) = {}
      BY <1>i, <1>t DEF Accounted, Carried
    <3>2. /\ c' = c /\ f' = f /\ u' = u \o r /\ d' = Append(d, n)
      BY <2>1, <2>4
    <3> HIDE DEF c, u, f, d
    <3>3. /\ f \o Percentages(c \o (u \o r)) = Drawings(Append(d, n))
          /\ EndsPlain(c \o (u \o r))
      BY <2>2, <3>1, DrawAccounted DEF r
    <3>4. /\ f' \o Percentages(c' \o u') = Drawings(d')
          /\ EndsPlain(c' \o u') /\ MatchEnds(c') = {}
      BY <3>1, <3>2, <3>3
    <3> QED
      BY <3>4 DEF Accounted, Carried, c, u, f, d
  <2>9. DrawnOn'
    <3>1. Rising(Append(demucs.drawn, n))
      BY <1>t, <1>i, <2>0 DEF DrawnOn, Rising, Drawable
    <3> QED
      BY <2>4, <3>1 DEF DrawnOn
  <2>10. ToldFound' /\ Rising(reader.fractions)'
    BY <1>i, <2>1 DEF ToldFound, Said, Rising
  <2>11. ChildReaped'
    BY <1>i, <2>1 DEF ChildReaped
  <2> QED
    BY <2>7, <2>8, <2>9, <2>10, <2>11 DEF SeparationInv
<1>3. CASE DemucsExits
  <2>1. /\ reader' = reader /\ outcome' = outcome
        /\ demucs'.unread = demucs.unread /\ demucs'.drawn = demucs.drawn
        /\ demucs'.state = "exited" /\ demucs'.code \in {0, 1}
        /\ SeparationTyped'
    BY <1>3, <1>t DEF DemucsExits, SeparationTyped
  <2>2. Accounted' /\ Carried'
    BY <1>i, <2>1 DEF Accounted, Carried
  <2>3. DrawnOn' /\ ChildReaped' /\ ToldFound' /\ Rising(reader.fractions)'
    BY <1>i, <2>1 DEF DrawnOn, ChildReaped, ToldFound, Said, Rising
  <2> QED
    BY <2>1, <2>2, <2>3 DEF SeparationInv
<1>4. CASE ReadsChunk
  <2>0. PICK n \in 1..Len(demucs.unread) :
          LET parsed == feed(reader.carry, SubSeq(demucs.unread, 1, n)) IN
          /\ demucs' = [demucs EXCEPT !.unread = SubSeq(@, n + 1, Len(@))]
          /\ reader' = [reader EXCEPT !.carry = parsed.carry, !.found = @ \o parsed.found]
    BY <1>4 DEF ReadsChunk
  <2> DEFINE c == reader.carry
             u == demucs.unread
             f == reader.found
             v == SubSeq(u, 1, n)
             w == SubSeq(u, n + 1, Len(u))
             k == Carry(c \o v)
             x == Percentages(c \o v)
  <2>1. /\ demucs' = [state |-> demucs.state, unread |-> w, drawn |-> demucs.drawn,
                      code |-> demucs.code]
        /\ reader' = [pass |-> reader.pass, carry |-> k, found |-> f \o x,
                      told |-> reader.told, fractions |-> reader.fractions]
        /\ outcome' = outcome
    <3>1. feed(c, v) = [found |-> x, carry |-> k]
      BY DEF feed
    <3>2. demucs' = [demucs EXCEPT !.unread = w]
      BY <2>0
    <3>3. reader' = [reader EXCEPT !.carry = feed(c, v).carry, !.found = f \o feed(c, v).found]
      BY <2>0
    <3>4. outcome' = outcome
      BY <1>4 DEF ReadsChunk
    <3> HIDE DEF c, u, v, w, k, x, f
    <3>5. reader' = [reader EXCEPT !.carry = k, !.found = f \o x]
      BY <3>1, <3>3
    <3>6. demucs' = [state |-> demucs.state, unread |-> w, drawn |-> demucs.drawn,
                     code |-> demucs.code]
      BY <1>t, <3>2
    <3>7. reader' = [pass |-> reader.pass, carry |-> k, found |-> f \o x,
                     told |-> reader.told, fractions |-> reader.fractions]
      BY <1>t, <3>5
    <3> QED
      BY <3>4, <3>6, <3>7
  <2>2. /\ v \in Seq(Chars) /\ w \in Seq(Chars) /\ k \in Seq(Chars)
        /\ x \in Seq(Nat)
        /\ x \o Percentages(k \o w) = Percentages(c \o u)
        /\ MatchEnds(k) = {}
        /\ EndsPlain(c \o u) => EndsPlain(k \o w)
    <3>1. c \in Seq(Chars) /\ u \in Seq(Chars) /\ n \in 1..Len(u)
      BY <1>t
    <3> HIDE DEF c, u
    <3> QED
      BY <3>1, ReadAccounted, Zenon
  <2>3. f \in Seq(Nat) /\ EndsPlain(c \o u) /\ f \o Percentages(c \o u) = Drawings(demucs.drawn)
    BY <1>i, <1>t DEF Accounted, Carried
  <2> HIDE DEF c, u, v, w, k, x, f
  <2>4. f \o x \in Seq(Nat) /\ Len(f \o x) = Len(f) + Len(x)
        /\ \A i \in 1..Len(f) : (f \o x)[i] = f[i]
    BY <2>2, <2>3
  <2>5. SeparationTyped'
    BY <1>t, <2>1, <2>2, <2>4 DEF SeparationTyped
  <2>6. Accounted'
    <3>1. Percentages(k \o w) \in Seq(Nat)
      BY <2>2, CharsJoin, PercentagesSeq
    <3>2. f \o (x \o Percentages(k \o w)) = (f \o x) \o Percentages(k \o w)
      BY <2>2, <2>3, <3>1, NumbersRegroup
    <3>3. (f \o x) \o Percentages(k \o w) = Drawings(demucs.drawn)
      BY <2>2, <2>3, <3>2
    <3>4. /\ reader'.found = f \o x /\ reader'.carry = k /\ demucs'.unread = w
          /\ demucs'.drawn = demucs.drawn
      BY <2>1
    <3> QED
      BY <3>3, <3>4 DEF Accounted
  <2>7. Carried'
    BY <2>1, <2>2, <2>3 DEF Carried
  <2>8. DrawnOn' /\ ChildReaped' /\ Rising(reader.fractions)'
    <3>1. demucs.state # "none"
      BY <1>4 DEF ReadsChunk, Streaming
    <3> QED
      BY <1>i, <2>1, <3>1 DEF DrawnOn, ChildReaped, Rising
  <2>9. ToldFound'
    <3>1. reader.told <= Len(f) /\ \A i \in 1..reader.told : (f \o x)[i] = f[i]
      <4>1. reader.told <= Len(f)
        BY <1>i DEF ToldFound, f
      <4> QED
        BY <1>t, <2>3, <2>4, <4>1
    <3>2. reader.told <= Len(f \o x)
      BY <1>t, <2>2, <2>3, <2>4, <3>1
    <3>3. \A g \in Nat : Said(g) => Said(g)'
      BY <2>1, <3>1 DEF Said, f
    <3>4. \A i \in 1..Len(reader.fractions) : Said(reader.fractions[i])'
      <4>1. \A i \in 1..Len(reader.fractions) : Said(reader.fractions[i]) /\ reader.fractions[i] \in Nat
        BY <1>i, <1>t, ElementOfSeq DEF ToldFound
      <4>2. reader'.fractions = reader.fractions
        BY <2>1
      <4> QED
        BY <3>3, <4>1, <4>2 DEF Said
    <3> QED
      BY <2>1, <3>2, <3>4 DEF ToldFound
  <2> QED
    BY <2>5, <2>6, <2>7, <2>8, <2>9 DEF SeparationInv

<1>5. CASE TellsProgress
  <2> DEFINE f == reader.found
             m == reader.told
             s == reader.fractions
             e == Span(reader.pass, f[m + 1])
  <2>1. /\ demucs' = demucs /\ outcome' = outcome
        /\ SubSeq(f, m + 1, Len(f)) # <<>>
        /\ reader' = [reader EXCEPT !.told = @ + 1,
                                    !.fractions = Append(@, Span(reader.pass, Head(Untold)))]
    BY <1>5 DEF TellsProgress, Untold
  <2>2. m + 1 \in 1..Len(f) /\ Head(Untold) = f[m + 1]
    <3>1. m \in Nat /\ f \in Seq(Nat)
      BY <1>t
    <3>2. m <= Len(f)
      BY <1>i DEF ToldFound
    <3> HIDE DEF m, f
    <3>3. m \in 0..Len(f)
      BY <3>1, <3>2
    <3> DEFINE z == SubSeq(f, m + 1, Len(f))
    <3>4. z \in Seq(Nat) /\ Len(z) = Len(f) - m /\ \A i \in 1..(Len(f) - m) : z[i] = f[m + i]
      BY <3>1, <3>3, TailIs
    <3>5. z # <<>> /\ Untold = z
      BY <2>1 DEF Untold, f, m
    <3> HIDE DEF z
    <3>6. Len(z) > 0 /\ Head(z) = z[1]
      BY <3>4, <3>5
    <3> QED
      BY <3>1, <3>3, <3>4, <3>5, <3>6
  <2>3. reader' = [pass |-> reader.pass, carry |-> reader.carry, found |-> f,
                   told |-> m + 1, fractions |-> Append(s, e)]
    <3>1. reader' = [reader EXCEPT !.told = @ + 1, !.fractions = Append(@, e)]
      BY <2>1, <2>2
    <3> HIDE DEF e
    <3> QED
      BY <1>t, <3>1
  <2>4. /\ Rising(f)
        /\ \A j \in 1..Len(f) : f[j] <= 100
    <3> DEFINE rest == Percentages(reader.carry \o demucs.unread)
               d == demucs.drawn
    <3>1. f \in Seq(Nat) /\ rest \in Seq(Nat) /\ d \in Seq(Drawable) /\ Rising(d)
          /\ f \o rest = Drawings(d)
      BY <1>i, <1>t, CharsJoin, PercentagesSeq DEF Accounted, DrawnOn
    <3> HIDE DEF f, rest, d
    <3> QED
      BY <3>1, FoundRises
  <2>5. \A j \in 1..Len(f) : f[j] \in Nat
    BY <1>t, ElementOfSeq
  <2>6. e \in Nat
    BY <2>2, <2>5, <1>t, SMTT(40) DEF Span
  <2>7. \A j \in 1..Len(s) : s[j] \in Nat /\ s[j] <= e
    <3> SUFFICES ASSUME NEW j \in 1..Len(s)
                 PROVE  s[j] \in Nat /\ s[j] <= e
      OBVIOUS
    <3>1. s[j] \in Nat
      BY <1>t, ElementOfSeq
    <3>2. Said(s[j])
      BY <1>i DEF ToldFound
    <3>3. m \in Nat /\ f[m + 1] \in Nat /\ reader.pass \in {1, 2}
      BY <1>t, <2>2, <2>5
    <3>4. CASE reader.pass = 2 /\ s[j] <= 300
      <4>1. e = 300 + f[m + 1]
        BY <3>4 DEF Span
      <4> HIDE DEF e, s, f, m
      <4> QED
        BY <3>1, <3>3, <3>4, <4>1
    <3>5. CASE \E i \in 1..m : s[j] = Span(reader.pass, f[i])
      <4>1. PICK i \in 1..m : s[j] = Span(reader.pass, f[i])
        BY <3>5
      <4>2. f[i] \in Nat /\ f[i] <= f[m + 1]
        <5>1. i \in 1..Len(f) /\ i < m + 1
          BY <2>2, <3>3
        <5> HIDE DEF f, m
        <5> QED
          BY <2>2, <2>4, <2>5, <5>1 DEF Rising
      <4> DEFINE a == f[i]
                 b == f[m + 1]
      <4>3. a \in Nat /\ b \in Nat /\ a <= b
        BY <3>3, <4>2
      <4>4. s[j] = Span(reader.pass, a) /\ e = Span(reader.pass, b)
        BY <4>1
      <4> HIDE DEF a, b, e, s, f, m
      <4> QED
        BY <3>1, <3>3, <4>3, <4>4 DEF Span
    <3> QED
      BY <3>1, <3>2, <3>4, <3>5 DEF Said
  <2>8. s \in Seq(Nat) /\ f \in Seq(Nat) /\ m \in Nat
    BY <1>t
  <2>h. /\ reader'.pass = reader.pass /\ reader'.carry = reader.carry /\ reader'.found = f
        /\ reader'.told = m + 1 /\ reader'.fractions = Append(s, e)
    BY <2>3
  <2>9. SeparationTyped'
    <3>1. Append(s, e) \in Seq(Nat) /\ m + 1 \in Nat
      <4> HIDE DEF s, e, m
      <4> QED
        BY <2>6, <2>8, AppendProperties
    <3>2. demucs' \in [state : {"none", "running", "exited", "killed"},
                       unread : Seq(Chars), drawn : Seq(Drawable), code : {0, 1}]
      BY <1>i, <2>1 DEF SeparationTyped
    <3>3. reader.pass \in {1, 2} /\ reader.carry \in Seq(Chars)
      BY <1>t
    <3> HIDE DEF s, e, f, m
    <3>4. reader' \in [pass : {1, 2}, carry : Seq(Chars), found : Seq(Nat), told : Nat,
                       fractions : Seq(Nat)]
      BY <2>3, <2>8, <3>1, <3>3
    <3> QED
      BY <3>2, <3>4 DEF SeparationTyped
  <2>10. Accounted' /\ Carried' /\ DrawnOn' /\ ChildReaped'
    BY <1>i, <2>1, <2>h DEF Accounted, Carried, DrawnOn, ChildReaped
  <2>11. Rising(reader.fractions)'
    <3> HIDE DEF s, e
    <3> DEFINE z == Append(s, e)
    <3>1. /\ Len(z) = Len(s) + 1 /\ Len(s) \in Nat
          /\ \A j \in 1..Len(s) : z[j] = s[j]
          /\ z[Len(s) + 1] = e
      BY <2>8, <2>6
    <3> HIDE DEF z
    <3>2. Rising(s)
      BY <1>i DEF s
    <3>3. Rising(z)
      <4> SUFFICES ASSUME NEW j \in 1..Len(z), NEW k \in 1..Len(z), j < k
                   PROVE  z[j] <= z[k]
        BY DEF Rising
      <4>1. j \in 1..Len(s)
        BY <3>1
      <4>2. CASE k \in 1..Len(s)
        BY <3>1, <3>2, <4>1, <4>2 DEF Rising
      <4>3. CASE k = Len(s) + 1
        BY <2>7, <3>1, <4>1, <4>3
      <4> QED
        BY <3>1, <4>2, <4>3
    <3> QED
      BY <2>h, <3>3 DEF Rising, z
  <2>12. ToldFound'
    <3>1. m + 1 <= Len(f)
      BY <2>2
    <3> HIDE DEF s, e, f, m
    <3>2. /\ Len(Append(s, e)) = Len(s) + 1 /\ Len(s) \in Nat
          /\ \A j \in 1..Len(s) : Append(s, e)[j] = s[j]
          /\ Append(s, e)[Len(s) + 1] = e
      BY <2>6, <2>8
    <3>3. ASSUME NEW g, Said(g) PROVE Said(g)'
      <4>1. \A j \in 1..m : j \in 1..(m + 1)
        BY <2>8
      <4>2. \/ reader.pass = 2 /\ g <= 300
            \/ \E j \in 1..m : g = Span(reader.pass, f[j])
        BY <3>3 DEF Said, f, m
      <4>3. \/ reader'.pass = 2 /\ g <= 300
            \/ \E j \in 1..(m + 1) : g = Span(reader'.pass, reader'.found[j])
        BY <2>h, <4>1, <4>2
      <4> QED
        BY <2>h, <4>3 DEF Said
    <3>4. ASSUME NEW g, g = e PROVE Said(g)'
      <4>1. m + 1 \in 1..(m + 1)
        BY <2>8
      <4>2. g = Span(reader'.pass, reader'.found[m + 1])
        BY <2>h, <3>4 DEF e
      <4>3. \E j \in 1..reader'.told : g = Span(reader'.pass, reader'.found[j])
        BY <2>h, <4>1, <4>2
      <4> QED
        BY <4>3 DEF Said
    <3>5. ASSUME NEW j \in 1..Len(reader'.fractions), NEW g, g = reader'.fractions[j]
          PROVE  Said(g)'
      <4>1. CASE j \in 1..Len(s)
        <5>1. g = s[j]
          BY <2>h, <3>2, <3>5, <4>1
        <5>2. Said(s[j])
          BY <1>i, <4>1 DEF ToldFound, s
        <5>3. Said(g)
          BY <5>1, <5>2
        <5> QED
          BY <3>3, <5>3
      <4>2. CASE j = Len(s) + 1
        BY <2>h, <3>2, <3>4, <3>5, <4>2
      <4> QED
        BY <2>h, <3>2, <4>1, <4>2
    <3>6. \A j \in 1..Len(reader'.fractions) : Said(reader.fractions[j])'
      BY <3>5 DEF Said
    <3> QED
      BY <2>h, <3>1, <3>6 DEF ToldFound
  <2> QED
    BY <2>9, <2>10, <2>11, <2>12 DEF SeparationInv
<1>6. CASE ReaderRaises
  <2>1. /\ reader' = reader /\ outcome' = "raised"
        /\ demucs.state \in {"running", "exited"}
        /\ demucs' = IF demucs.state = "running" THEN [demucs EXCEPT !.state = "killed"]
                     ELSE demucs
    BY <1>6 DEF ReaderRaises, Streaming, Returns, Spawned
  <2>2. /\ demucs'.unread = demucs.unread /\ demucs'.drawn = demucs.drawn
        /\ demucs'.state \in {"killed", "exited"}
        /\ SeparationTyped'
    BY <1>t, <2>1 DEF SeparationTyped
  <2>3. Accounted' /\ Carried'
    BY <1>i, <2>1, <2>2 DEF Accounted, Carried
  <2>4. DrawnOn' /\ ToldFound' /\ Rising(reader.fractions)' /\ ChildReaped'
    BY <1>i, <2>1, <2>2 DEF DrawnOn, ToldFound, Said, ChildReaped, Rising
  <2> QED
    BY <2>2, <2>3, <2>4 DEF SeparationInv
<1>7. CASE PassEnds
  <2>1. /\ demucs.state = "exited"
        /\ \/ demucs' = demucs /\ reader' = reader
           \/ /\ reader.pass = 1 /\ outcome' = "none"
              /\ demucs' = NoChild
              /\ reader' = [Reading(2) EXCEPT !.fractions = reader.fractions]
    BY <1>7 DEF PassEnds, Streaming, Returns
  <2>2. CASE demucs' = demucs /\ reader' = reader
    BY <1>i, <2>1, <2>2
       DEF SeparationInv, SeparationTyped, Accounted, Carried, DrawnOn, ToldFound, Said,
           ChildReaped, Rising
  <2>3. CASE /\ reader.pass = 1 /\ outcome' = "none"
             /\ demucs' = NoChild
             /\ reader' = [Reading(2) EXCEPT !.fractions = reader.fractions]
    <3>1. /\ demucs' = [state |-> "none", unread |-> <<>>, drawn |-> <<>>, code |-> 0]
          /\ reader' = [pass |-> 2, carry |-> <<>>, found |-> <<>>, told |-> 0,
                        fractions |-> reader.fractions]
      BY <2>3 DEF NoChild, Reading
    <3>2. SeparationTyped'
      BY <1>t, <3>1, EmptyText DEF SeparationTyped
    <3>3. Accounted' /\ Carried' /\ DrawnOn'
      BY <3>1, EmptyText DEF Accounted, Carried, DrawnOn
    <3>4. ChildReaped' /\ Rising(reader.fractions)'
      BY <1>i, <2>3, <3>1 DEF ChildReaped, Rising
    <3>5. ToldFound'
      <4> DEFINE f == reader.found
                 rest == Percentages(reader.carry \o demucs.unread)
                 d == demucs.drawn
      <4>1. f \in Seq(Nat) /\ rest \in Seq(Nat) /\ d \in Seq(Drawable) /\ Rising(d)
            /\ f \o rest = Drawings(d)
        BY <1>i, <1>t, CharsJoin, PercentagesSeq DEF Accounted, DrawnOn
      <4>2. \A j \in 1..Len(f) : f[j] <= 100
        <5> HIDE DEF f, rest, d
        <5> QED
          BY <4>1, FoundRises
      <4>3. \A j \in 1..Len(f) : f[j] \in Nat
        BY <1>t, ElementOfSeq
      <4>4. reader.told \in Nat /\ reader.told <= Len(f)
        BY <1>i, <1>t DEF ToldFound
      <4>5. ASSUME NEW k \in 1..Len(reader.fractions)
            PROVE  reader.fractions[k] <= 300
        <5>1. PICK j \in 1..reader.told : reader.fractions[k] = Span(1, f[j])
          BY <1>i, <2>3 DEF ToldFound, Said
        <5>2. f[j] \in Nat /\ f[j] <= 100
          BY <4>2, <4>3, <4>4
        <5> HIDE DEF f
        <5> QED
          BY <5>1, <5>2 DEF Span
      <4>6. reader'.pass = 2 /\ reader'.fractions = reader.fractions /\ reader'.told = 0
            /\ reader'.found = <<>> /\ Len(<<>>) = 0
        BY <3>1
      <4> QED
        BY <4>5, <4>6 DEF ToldFound, Said
    <3> QED
      BY <3>2, <3>3, <3>4, <3>5 DEF SeparationInv
  <2> QED
    BY <2>1, <2>2, <2>3
<1>8. CASE UNCHANGED separationVars
  BY <1>i, <1>8
     DEF separationVars, SeparationInv, SeparationTyped, Accounted, Carried, DrawnOn,
         ToldFound, Said, ChildReaped, Rising
<1> QED
  BY <1>1, <1>2, <1>3, <1>4, <1>5, <1>6, <1>7, <1>8 DEF SeparationNext

(* Read to its end, the output has said what was drawn.                    *)
LEMMA SeparationHolds == SeparationInv => SeparationRight
<1> SUFFICES ASSUME SeparationInv PROVE SeparationRight
  OBVIOUS
<1>i. /\ SeparationTyped /\ Accounted /\ Carried /\ Rising(reader.fractions) /\ ChildReaped
  BY DEF SeparationInv
<1>t. /\ reader.carry \in Seq(Chars) /\ reader.found \in Seq(Nat)
      /\ reader.fractions \in Seq(Nat)
  BY <1>i DEF SeparationTyped
<1>1. ASSUME demucs.unread = <<>> PROVE reader.found = Drawings(demucs.drawn)
  <2> DEFINE c == reader.carry
  <2>1. c \o <<>> = c
    BY <1>t, ConcatEmptySeq
  <2>2. c \in Seq(Chars) /\ MatchEnds(c) = {}
    BY <1>i, <1>t DEF Carried
  <2> HIDE DEF c
  <2>3. Percentages(c) = <<>>
    <3>1. \A k \in 1..Len(c) : k \notin Places(c)
      BY <2>2 DEF Places
    <3>2. Len(c) \in Nat
      BY <2>2
    <3>3. Picked(Len(c), Places(c), Values(c)) = <<>>
      BY <3>1, <3>2, PickedEmpty
    <3> QED
      BY <3>3, PercentagesAre
  <2>4. reader.found \o <<>> = reader.found
    BY <1>t, ConcatEmptySeq
  <2>5. reader.found \o Percentages(c \o <<>>) = Drawings(demucs.drawn)
    BY <1>1, <1>i DEF Accounted, c
  <2> QED
    BY <2>1, <2>3, <2>4, <2>5
<1>2. \A k \in 2..Len(reader.fractions) : reader.fractions[k - 1] <= reader.fractions[k]
  <2> DEFINE s == reader.fractions
  <2>1. Len(s) \in Nat /\ Rising(s)
    BY <1>i, <1>t
  <2> HIDE DEF s
  <2>2. \A k \in 2..Len(s) : k - 1 \in 1..Len(s) /\ k \in 1..Len(s) /\ k - 1 < k
    BY <2>1
  <2> QED
    BY <2>1, <2>2 DEF Rising, s
<1>3. ProgressFollows
  BY <1>1, <1>2 DEF ProgressFollows, Drawings
<1> QED
  BY <1>3, <1>i DEF SeparationRight

(* However the pipe cuts the child's output into chunks, the percentages   *)
(* _stream finds are those drawn, each once and in order; the fractions    *)
(* told never fall, through both passes; and isolate leaves no running     *)
(* Demucs behind.  For every bar Demucs may draw.                          *)
THEOREM SeparationSafe == SeparationSpec => []SeparationRight
<1>1. SeparationInv /\ [SeparationNext]_separationVars => SeparationInv'
  BY SeparationKeeps
<1> QED
  BY <1>1, SeparationInitInv, SeparationHolds, PTL DEF SeparationSpec

-----------------------------------------------------------------------------
(* Structure.  What divides a whole number by another.                     *)
LEMMA Divided ==
  ASSUME NEW t \in Nat, NEW s \in Nat \ {0}
  PROVE  /\ t \div s \in Nat
         /\ s * (t \div s) <= t
         /\ t < s * (t \div s) + s
  BY SMTT(30)

LEMMA DividedUp ==
  ASSUME NEW q \in Nat, NEW r \in Nat, NEW s \in Nat \ {0}, s * q < s * r
  PROVE  q < r
  BY SMTT(30)

Climbs(s) == \A j \in 1..Len(s), k \in 1..Len(s) : j < k => s[j] < s[k]

LEMMA ClimbsAll ==
  ASSUME NEW s \in Seq(Nat), \A k \in 2..Len(s) : s[k - 1] < s[k]
  PROVE  Climbs(s)
<1>0. \A i \in 1..Len(s) : s[i] \in Nat
  OBVIOUS
<1> SUFFICES ASSUME NEW j \in 1..Len(s), NEW k \in 1..Len(s), j < k
             PROVE  s[j] < s[k]
  BY DEF Climbs
<1> DEFINE T == {i \in Nat : (j + i) + 1 <= Len(s) => s[j] < s[(j + i) + 1]}
<1>1. 0 \in T
  <2> SUFFICES ASSUME j + 1 <= Len(s) PROVE s[j] < s[j + 1]
    BY SMT
  <2> DEFINE f == j + 1
  <2>1. f \in 2..Len(s) /\ f - 1 = j
    OBVIOUS
  <2> HIDE DEF f
  <2>2. s[f - 1] < s[f]
    BY <2>1
  <2> QED
    BY <2>1, <2>2 DEF f
<1>2. ASSUME NEW i \in Nat, i \in T PROVE (i + 1) \in T
  <2> SUFFICES ASSUME (j + (i + 1)) + 1 <= Len(s)
               PROVE  s[j] < s[(j + (i + 1)) + 1]
    OBVIOUS
  <2> DEFINE e == (j + i) + 1
             f == (j + (i + 1)) + 1
  <2>1. f \in 2..Len(s) /\ f - 1 = e /\ e \in 1..Len(s)
    OBVIOUS
  <2>2. s[j] < s[e]
    BY <1>2, <2>1
  <2> HIDE DEF e, f
  <2>3. s[f - 1] < s[f]
    BY <2>1
  <2>4. s[j] < s[f]
    BY <1>0, <2>1, <2>2, <2>3, SMTT(40)
  <2> QED
    BY <2>4 DEF f
<1> HIDE DEF T
<1> DEFINE i == k - j - 1
<1>3. i \in Nat /\ (j + i) + 1 = k
  OBVIOUS
<1> HIDE DEF i
<1>4. i \in T
  BY <1>1, <1>2, <1>3, Everywhere
<1> QED
  BY <1>3, <1>4 DEF T

(* The segments' starts climb, with a grid or without.                     *)
LEMMA SecondsClimb ==
  ASSUME NEW count \in Nat, NEW s \in Nat \ {0}
  PROVE  LET t == [k \in 1..count |-> s * (k - 1)]
         IN  t \in Seq(Nat) /\ Len(t) = count /\ Climbs(t)
<1> DEFINE t == [k \in 1..count |-> s * (k - 1)]
<1>1. \A k \in 1..count : s * (k - 1) \in Nat
  OBVIOUS
<1>2. t \in Seq(Nat) /\ Len(t) = count /\ \A k \in 1..count : t[k] = s * (k - 1)
  <2>1. t \in [1..count -> Nat]
    BY <1>1
  <2> HIDE DEF t
  <2>2. t \in Seq(Nat) /\ Len(t) = count
    BY <2>1, SeqDef
  <2> QED
    BY <2>2 DEF t
<1> HIDE DEF t
<1>3. ASSUME NEW j \in 1..Len(t), NEW k \in 1..Len(t), j < k
      PROVE  t[j] < t[k]
  <2>1. j \in 1..count /\ k \in 1..count
    BY <1>2
  <2>2. s * (j - 1) < s * (k - 1)
    <3>1. k - 1 = (j - 1) + (k - j) /\ k - j >= 1 /\ j - 1 \in Nat /\ k - j \in Nat
      BY <1>3, <2>1
    <3>2. \A a \in Nat, b \in Nat : b >= 1 => s * a < s * (a + b)
      <4>1. ASSUME NEW a \in Nat, NEW b \in Nat, b >= 1
            PROVE  s * a < s * (a + b)
        <5>1. s * (a + b) = s * a + s * b
          OBVIOUS
        <5>2. s * b >= 1 /\ s * a \in Nat /\ s * b \in Nat
          BY <4>1
        <5> QED
          BY <5>1, <5>2
      <4> QED
        BY <4>1
    <3> QED
      BY <3>1, <3>2
  <2> QED
    BY <1>2, <2>1, <2>2
<1> QED
  BY <1>2, <1>3 DEF Climbs, t

Count == (duration + Second - 1) \div Second

LEMMA SegmentsClimb ==
  ASSUME duration \in Nat, NEW times \in Grids \cup {<<>>}
  PROVE  /\ Segments(times) \in Seq(Nat) /\ Climbs(Segments(times))
         /\ Len(times) < 2 => /\ Segments(times) = [k \in 1..Count |-> Second * (k - 1)]
                              /\ Count \in Nat
<1>1. times \in Seq(Nat) /\ \A k \in 2..Len(times) : times[k - 1] < times[k]
  <2>1. CASE times \in Grids
    BY <2>1, StructureAssumption DEF StructureAssumption
  <2>2. CASE times = <<>>
    BY <2>2
  <2> QED
    BY <2>1, <2>2
<1>2. Climbs(times)
  BY <1>1, ClimbsAll
<1>3. Second \in Nat \ {0} /\ Count \in Nat
  <2>1. Second \in Nat \ {0}
    BY StructureAssumption DEF StructureAssumption
  <2>2. duration + Second - 1 \in Nat
    BY <2>1
  <2> QED
    BY <2>1, <2>2, Divided DEF Count
<1>4. CASE Len(times) >= 2
  BY <1>1, <1>2, <1>4 DEF Segments
<1>5. CASE ~(Len(times) >= 2)
  <2>1. Segments(times) = [k \in 1..Count |-> Second * (k - 1)]
    BY <1>5 DEF Segments, Count
  <2>2. Segments(times) \in Seq(Nat) /\ Climbs(Segments(times))
    BY <1>3, <2>1, SecondsClimb
  <2> QED
    BY <1>3, <2>1, <2>2
<1>6. Len(times) \in Nat
  BY <1>1
<1> QED
  BY <1>4, <1>5, <1>6

(* A run of equal labels: from where it begins to where the next does.     *)
IsRun(s, k, stop) ==
  /\ k \in 1..Len(s) /\ stop \in (k + 1)..(Len(s) + 1)
  /\ \A j \in k..(stop - 1) : s[j] = s[k]
  /\ stop <= Len(s) => stop \in RunStarts(s) /\ s[stop] # s[k]
  /\ \A j \in RunStarts(s) : j > k => stop <= j

LEMMA RunIs ==
  ASSUME NEW V, NEW s \in Seq(V), NEW k \in RunStarts(s)
  PROVE  IsRun(s, k, RunStop(s, k))
<1> DEFINE n == Len(s)
           S == {j \in RunStarts(s) : j > k} \cup {n + 1}
           stop == RunStop(s, k)
<1>1. n \in Nat /\ DOMAIN s = 1..n /\ k \in 1..n
  BY DEF RunStarts
<1>2. \A j \in RunStarts(s) : j \in 1..n
  BY <1>1 DEF RunStarts
<1>3. stop \in S /\ \A x \in S : stop <= x
  <2>1. S \subseteq Nat
    <3>1. n + 1 \in Nat /\ \A j \in RunStarts(s) : j \in Nat
      BY <1>1, <1>2
    <3> HIDE DEF n
    <3> QED
      BY <3>1
  <2>2. S # {}
    OBVIOUS
  <2>3. stop = Min(S)
    BY DEF RunStop
  <2> HIDE DEF S, stop
  <2> QED
    BY <2>1, <2>2, <2>3, LeastIs
<1> HIDE DEF stop
<1>4. stop \in (k + 1)..(n + 1)
  BY <1>1, <1>2, <1>3
<1>5. \A j \in RunStarts(s) : j > k => stop <= j
  BY <1>3
<1>6. stop <= n => stop \in RunStarts(s)
  BY <1>1, <1>3
<1> DEFINE T == {i \in Nat : k + i < stop => s[k + i] = s[k]}
<1>7. 0 \in T
  BY <1>1, SMT
<1>8. ASSUME NEW i \in Nat, i \in T PROVE (i + 1) \in T
  <2> SUFFICES ASSUME k + (i + 1) < stop PROVE s[k + (i + 1)] = s[k]
    OBVIOUS
  <2> DEFINE e == k + i
             f == k + (i + 1)
  <2>1. e \in 1..n /\ f \in 1..n /\ f - 1 = e /\ f > k /\ f < stop /\ f # 1 /\ e < stop
    BY <1>1, <1>4
  <2>2. s[e] = s[k]
    BY <1>8, <2>1
  <2> HIDE DEF e, f
  <2>3. f \notin RunStarts(s)
    BY <1>1, <1>4, <1>5, <2>1
  <2>4. s[f] = s[f - 1]
    BY <1>1, <2>1, <2>3 DEF RunStarts
  <2>5. s[f] = s[k]
    BY <2>1, <2>2, <2>4
  <2> QED
    BY <2>5 DEF f
<1>9. ASSUME NEW j \in k..(stop - 1) PROVE s[j] = s[k]
  <2> DEFINE i == j - k
  <2>1. i \in Nat /\ k + i = j /\ j < stop
    BY <1>1, <1>4
  <2> HIDE DEF i, T
  <2>2. i \in T
    BY <1>7, <1>8, <2>1, Everywhere
  <2> QED
    BY <2>1, <2>2 DEF T
<1>10. ASSUME stop <= n PROVE s[stop] # s[k]
  <2>1. stop - 1 \in k..(stop - 1) /\ stop # 1
    BY <1>1, <1>4
  <2>2. s[stop - 1] = s[k]
    BY <1>9, <2>1
  <2>3. s[stop] # s[stop - 1]
    BY <1>6, <1>10, <2>1 DEF RunStarts
  <2> QED
    BY <2>2, <2>3
<1>11. IsRun(s, k, stop)
  BY <1>1, <1>4, <1>5, <1>6, <1>9, <1>10 DEF IsRun
<1> QED
  BY <1>11 DEF stop

(* Every place is in a run.                                                *)
LEMMA RunOf ==
  ASSUME NEW V, NEW s \in Seq(V), NEW j \in 1..Len(s)
  PROVE  \E k \in RunStarts(s) : k <= j /\ j < RunStop(s, k)
<1> DEFINE n == Len(s)
           S == {i \in RunStarts(s) : i <= j}
           k == Max(S)
<1>1. n \in Nat /\ DOMAIN s = 1..n /\ 1 \in RunStarts(s) /\ RunStarts(s) \subseteq 1..n
  BY DEF RunStarts
<1>2. k \in S /\ \A x \in S : x <= k
  <2>1. S \in SUBSET Int
    BY <1>1
  <2>2. 1 \in S
    BY <1>1
  <2>3. \A x \in S : x <= j
    OBVIOUS
  <2>4. S # {} /\ j \in Int
    BY <2>2
  <2> HIDE DEF S
  <2> QED
    BY <2>1, <2>3, <2>4, GreatestIs
<1> HIDE DEF k
<1>3. k \in RunStarts(s) /\ k <= j
  BY <1>2
<1>4. IsRun(s, k, RunStop(s, k))
  BY <1>3, RunIs
<1> DEFINE stop == RunStop(s, k)
<1> HIDE DEF stop
<1>5. /\ k \in 1..Len(s) /\ stop \in (k + 1)..(Len(s) + 1)
      /\ stop <= Len(s) => stop \in RunStarts(s)
  BY <1>4 DEF IsRun, stop
<1>6. ASSUME stop <= j PROVE FALSE
  <2>1. stop \in S
    BY <1>1, <1>5, <1>6
  <2> QED
    BY <1>2, <1>5, <2>1
<1>7. j < stop
  BY <1>5, <1>6
<1> QED
  BY <1>3, <1>7 DEF stop

(* What merge_chords is given: a label for every segment, and none for one *)
(* in which no frame falls.                                                *)
Labelled(s, t) ==
  /\ s \in Seq(Symbols \cup {None}) /\ t \in Seq(Nat)
  /\ Len(s) = Len(t) /\ Climbs(t) /\ duration \in Nat
  /\ \A k \in 1..Len(s) : s[k] # None => Scored(t, k)

StopTime(s, t, k) ==
  IF RunStop(s, k) <= Len(t) THEN t[RunStop(s, k)] ELSE duration

Sounds(s, t, k, time) == t[k] <= time /\ time < StopTime(s, t, k)

LEMMA HeldIs ==
  ASSUME NEW s, NEW t, Labelled(s, t), NEW k \in RunStarts(s)
  PROVE  LET e == StopTime(s, t, k)
         IN  /\ k \in 1..Len(t) /\ t[k] \in Nat /\ e \in Nat
             /\ HeldFor(s, t, k) \in Nat
             /\ t[k] + HeldFor(s, t, k) = IF e >= t[k] THEN e ELSE t[k]
<1> DEFINE stop == RunStop(s, k)
           e == StopTime(s, t, k)
<1>1. /\ t \in Seq(Nat) /\ Len(s) = Len(t) /\ duration \in Nat
      /\ s \in Seq(Symbols \cup {None})
  BY DEF Labelled
<1>2. k \in 1..Len(s) /\ stop \in (k + 1)..(Len(s) + 1)
  BY <1>1, RunIs DEF IsRun
<1>3. t[k] \in Nat
  BY <1>1, <1>2
<1>4. e \in Nat
  <2> HIDE DEF stop
  <2>1. stop <= Len(t) => stop \in 1..Len(t)
    BY <1>1, <1>2
  <2>2. e = IF stop <= Len(t) THEN t[stop] ELSE duration
    BY DEF StopTime, stop
  <2> HIDE DEF e
  <2> QED
    BY <1>1, <2>1, <2>2, ElementOfSeq
<1>5. HeldFor(s, t, k) = Max({0, e - t[k]})
  BY DEF HeldFor, StopTime
<1> HIDE DEF e
<1> DEFINE x == e - t[k]
           h == Max({0, x})
<1>6. x \in Int
  BY <1>3, <1>4
<1> HIDE DEF x
<1>7. h \in {0, x} /\ \A y \in {0, x} : y <= h
  <2>1. {0, x} \in SUBSET Int /\ {0, x} # {}
    BY <1>6
  <2>2. \E top \in Int : \A y \in {0, x} : y <= top
    BY <1>6
  <2> QED
    BY <2>1, <2>2, GreatestIs
<1> HIDE DEF h
<1>8. h = IF x >= 0 THEN x ELSE 0
  BY <1>6, <1>7
<1>9. h \in Nat /\ t[k] + h = IF e >= t[k] THEN e ELSE t[k]
  BY <1>3, <1>4, <1>8 DEF x
<1>10. HeldFor(s, t, k) = h
  BY <1>5 DEF h, x
<1> QED
  BY <1>1, <1>2, <1>3, <1>4, <1>9, <1>10 DEF e

(* Where a chord sounds a segment has its label.                           *)
LEMMA SoundsLabelled ==
  ASSUME NEW s, NEW t, Labelled(s, t), NEW k \in RunStarts(s), NEW time \in Nat,
         Sounds(s, t, k, time)
  PROVE  \E j \in 1..Len(s) : /\ t[j] <= time /\ time < SegmentEnd(t, j)
                              /\ s[j] = s[k]
<1> DEFINE n == Len(s)
           stop == RunStop(s, k)
           S == {i \in k..(stop - 1) : t[i] <= time}
           j == Max(S)
<1>1. /\ t \in Seq(Nat) /\ n = Len(t) /\ duration \in Nat /\ n \in Nat
      /\ s \in Seq(Symbols \cup {None})
  BY DEF Labelled
<1>2. /\ k \in 1..n /\ stop \in (k + 1)..(n + 1)
      /\ \A i \in k..(stop - 1) : s[i] = s[k]
  BY <1>1, RunIs DEF IsRun
<1>3. /\ t[k] <= time
      /\ time < IF stop <= n THEN t[stop] ELSE duration
  BY <1>1 DEF Sounds, StopTime
<1> HIDE DEF stop, n
<1>4. j \in S /\ \A x \in S : x <= j
  <2>1. S \in SUBSET Int
    BY <1>2
  <2>2. k \in S
    BY <1>2, <1>3
  <2>3. \A x \in S : x <= stop
    BY <1>2
  <2>4. S # {} /\ stop \in Int
    BY <1>2, <2>2
  <2> HIDE DEF S
  <2> QED
    BY <2>1, <2>3, <2>4, GreatestIs
<1> HIDE DEF j
<1>5. j \in k..(stop - 1) /\ t[j] <= time /\ j \in 1..n /\ j \in Int /\ stop \in Int
  <2>1. j \in k..(stop - 1) /\ t[j] <= time
    BY <1>4
  <2> HIDE DEF S
  <2> QED
    BY <1>1, <1>2, <2>1
<1>6. time < SegmentEnd(t, j)
  <2>1. CASE j < n
    <3>1. SegmentEnd(t, j) = t[j + 1]
      BY <1>1, <2>1 DEF SegmentEnd
    <3>2. CASE j + 1 = stop
      <4>1. stop <= n
        BY <1>1, <1>5, <2>1, <3>2
      <4>2. time < t[stop]
        BY <1>3, <4>1
      <4> QED
        BY <3>1, <3>2, <4>2
    <3>3. CASE j + 1 # stop
      <4>1. j + 1 \in k..(stop - 1) /\ j + 1 > j /\ j + 1 \in 1..n
        <5> HIDE DEF S
        <5> QED
          BY <1>1, <1>2, <1>5, <2>1, <3>3
      <4>2. ~(t[j + 1] <= time)
        BY <1>4, <1>5, <4>1
      <4>3. t[j + 1] \in Nat
        BY <1>1, <4>1
      <4> QED
        BY <3>1, <4>2, <4>3
    <3> QED
      BY <3>2, <3>3
  <2>2. CASE ~(j < n)
    <3>1. SegmentEnd(t, j) = duration
      BY <1>1, <2>2 DEF SegmentEnd
    <3>2. stop = n + 1
      BY <1>1, <1>2, <1>5, <2>2
    <3> QED
      BY <1>1, <1>3, <3>1, <3>2
  <2> QED
    BY <2>1, <2>2
<1> QED
  BY <1>2, <1>5, <1>6 DEF n

(* A label sounds until the next segment begins.                           *)
LEMMA LabelledSounds ==
  ASSUME NEW s, NEW t, Labelled(s, t), NEW j \in 1..Len(s), s[j] # None,
         NEW time \in Nat, time <= duration, t[j] <= time, time < SegmentEnd(t, j)
  PROVE  \E k \in RunStarts(s) : s[k] = s[j] /\ Sounds(s, t, k, time)
<1> DEFINE n == Len(s)
<1>1. /\ t \in Seq(Nat) /\ n = Len(t) /\ duration \in Nat /\ n \in Nat
      /\ s \in Seq(Symbols \cup {None}) /\ Climbs(t)
      /\ \A i \in 1..n : s[i] # None => Scored(t, i)
  BY DEF Labelled
<1>2. PICK k \in RunStarts(s) : k <= j /\ j < RunStop(s, k)
  BY <1>1, RunOf
<1> DEFINE stop == RunStop(s, k)
<1>3. /\ k \in 1..n /\ stop \in (k + 1)..(n + 1)
      /\ \A i \in k..(stop - 1) : s[i] = s[k]
  BY <1>1, RunIs DEF IsRun
<1>4. k <= j /\ j < stop /\ j \in 1..n
  BY <1>2
<1> HIDE DEF stop, n
<1>5. s[j] = s[k]
  BY <1>3, <1>4
<1>6. \A i \in 1..n : t[i] \in Nat
  BY <1>1
<1>7. \A i \in 1..n, l \in 1..n : i <= l => t[i] <= t[l]
  BY <1>1, <1>6 DEF Climbs
<1>8. t[k] <= time
  BY <1>3, <1>4, <1>6, <1>7
<1>9. time < IF stop <= n THEN t[stop] ELSE duration
  <2>1. CASE stop <= n
    <3>1. j + 1 \in 1..n /\ stop \in 1..n /\ j + 1 <= stop
      BY <1>1, <1>3, <1>4, <2>1
    <3>2. SegmentEnd(t, j) = t[j + 1]
      BY <1>1, <1>4, <2>1, <3>1 DEF SegmentEnd
    <3> QED
      BY <1>6, <1>7, <2>1, <3>1, <3>2
  <2>2. CASE ~(stop <= n)
    <3>1. n \in k..(stop - 1) /\ n \in 1..n
      BY <1>1, <1>3, <2>2
    <3>2. Scored(t, n)
      BY <1>1, <1>3, <1>5, <3>1
    <3>3. t[n] < duration
      <4>1. SegmentEnd(t, n) = duration
        BY <1>1 DEF SegmentEnd
      <4>2. PICK f \in 0..(duration \div FrameStep) :
              t[n] <= f * FrameStep /\ f * FrameStep < duration
        BY <3>2, <4>1 DEF Scored
      <4>3. FrameStep \in Nat \ {0}
        BY StructureAssumption DEF StructureAssumption
      <4>4. f \in Nat
        BY <1>1, <4>3, Divided
      <4>5. f * FrameStep \in Nat
        BY <4>3, <4>4
      <4> DEFINE y == f * FrameStep
      <4>6. y \in Nat /\ t[n] <= y /\ y < duration /\ t[n] \in Nat
        BY <1>6, <3>1, <4>2, <4>5
      <4> HIDE DEF y
      <4> QED
        BY <1>1, <4>6
    <3>4. CASE j < n
      <4>1. SegmentEnd(t, j) = t[j + 1] /\ j + 1 \in 1..n /\ j + 1 <= n
        BY <1>1, <1>4, <3>4 DEF SegmentEnd
      <4>2. t[j + 1] <= t[n] /\ t[j + 1] \in Nat /\ t[n] \in Nat
        BY <1>6, <1>7, <3>1, <4>1
      <4> QED
        BY <1>1, <2>2, <3>3, <4>1, <4>2
    <3>5. CASE ~(j < n)
      <4>1. SegmentEnd(t, j) = duration
        BY <1>1, <3>5 DEF SegmentEnd
      <4> QED
        BY <2>2, <4>1
    <3> QED
      BY <3>4, <3>5
  <2> QED
    BY <2>1, <2>2
<1>10. Sounds(s, t, k, time)
  BY <1>1, <1>8, <1>9 DEF Sounds, StopTime, stop
<1> QED
  BY <1>5, <1>10

(* Each chord is of a labelled run, and each labelled run has its chord.   *)
ChordIs(chord, s, t, k) ==
  /\ chord.t = t[k] /\ chord.dur = HeldFor(s, t, k) /\ chord.symbol = s[k]

Picks(at, chords, s, t) ==
  /\ at \in Seq(Nat) /\ Len(at) = Len(chords) /\ DOMAIN chords = 1..Len(chords)
  /\ \A j \in 1..Len(at) : /\ at[j] \in RunStarts(s) /\ s[at[j]] # None
                          /\ ChordIs(chords[j], s, t, at[j])
  /\ \A i \in 1..Len(at), j \in 1..Len(at) : i < j => at[i] < at[j]
  /\ \A k \in RunStarts(s) : s[k] # None => \E j \in 1..Len(at) : at[j] = k

LEMMA ChordsFrom ==
  ASSUME NEW s, NEW t, Labelled(s, t)
  PROVE  \E at : Picks(at, merge_chords(s, t), s, t)
<1> DEFINE n == Len(s)
           P == {k \in RunStarts(s) : s[k] # None}
           value == [k \in DOMAIN s |->
                       [t |-> t[k], dur |-> HeldFor(s, t, k), symbol |-> s[k]]]
           chords == Picked(n, P, value)
<1>1. s \in Seq(Symbols \cup {None})
  BY DEF Labelled
<1>2. n \in Nat /\ DOMAIN s = 1..n /\ RunStarts(s) \subseteq 1..n
  BY <1>1 DEF RunStarts
<1>3. merge_chords(s, t) = chords
  BY DEF merge_chords
<1>4. \A k \in 1..n : ChordIs(value[k], s, t, k)
  BY <1>2 DEF ChordIs
<1>5. \A k \in P : k \in 1..n
  BY <1>2
<1>6. PICK V : V = {value[k] : k \in 1..n}
  OBVIOUS
<1>7. \A k \in 1..n : k \in P => value[k] \in V
  BY <1>6
<1> HIDE DEF value
<1>8. chords \in Seq(V)
  <2> HIDE DEF P, n
  <2> QED
    BY <1>2, <1>7, PickedSeq
<1>9. PICK at : ComesFrom(at, n, P, value)
  <2> HIDE DEF P, n
  <2> QED
    BY <1>2, PickedFrom
<1>10. /\ at \in Seq(Nat) /\ Len(at) = Len(chords)
       /\ \A j \in 1..Len(at) : at[j] \in 1..n /\ at[j] \in P /\ chords[j] = value[at[j]]
       /\ \A i \in 1..Len(at), j \in 1..Len(at) : i < j => at[i] < at[j]
       /\ \A k \in 1..n : k \in P => \E j \in 1..Len(at) : at[j] = k
  BY <1>9 DEF ComesFrom
<1>11. DOMAIN chords = 1..Len(chords)
  BY <1>8
<1> HIDE DEF chords, n
<1>12. \A j \in 1..Len(at) : /\ at[j] \in RunStarts(s) /\ s[at[j]] # None
                             /\ ChordIs(chords[j], s, t, at[j])
  BY <1>4, <1>10
<1>13. \A k \in RunStarts(s) : s[k] # None => \E j \in 1..Len(at) : at[j] = k
  BY <1>2, <1>10
<1>14. Picks(at, chords, s, t)
  BY <1>10, <1>11, <1>12, <1>13 DEF Picks
<1> QED
  BY <1>3, <1>14

HeldAt(chords, time) ==
  {n \in DOMAIN chords : chords[n].t <= time /\ time < chords[n].t + chords[n].dur}

SegmentsAt(t, time) ==
  {k \in DOMAIN t : t[k] <= time /\ time < SegmentEnd(t, k)}

(* A chord is held just when it sounds.                                    *)
LEMMA HeldSounds ==
  ASSUME NEW s, NEW t, Labelled(s, t), NEW k \in RunStarts(s), NEW time \in Nat,
         NEW chord, ChordIs(chord, s, t, k)
  PROVE  chord.t <= time /\ time < chord.t + chord.dur <=> Sounds(s, t, k, time)
<1> DEFINE a == t[k]
           h == HeldFor(s, t, k)
           e == StopTime(s, t, k)
<1>1. a \in Nat /\ e \in Nat /\ h \in Nat /\ a + h = IF e >= a THEN e ELSE a
  BY HeldIs
<1>2. chord.t = a /\ chord.dur = h
  BY DEF ChordIs
<1>3. Sounds(s, t, k, time) <=> a <= time /\ time < e
  BY DEF Sounds
<1> HIDE DEF a, h, e
<1> QED
  BY <1>1, <1>2, <1>3

LEMMA ChordsSound ==
  ASSUME NEW s, NEW t, Labelled(s, t), NEW time \in 0..duration,
         NEW at, NEW chords, Picks(at, chords, s, t)
  PROVE  {chords[n].symbol : n \in HeldAt(chords, time)}
           = {s[k] : k \in SegmentsAt(t, time)} \ {None}
<1>1. /\ DOMAIN t = 1..Len(s) /\ duration \in Nat
  BY DEF Labelled
<1>2. time \in Nat /\ time <= duration
  BY <1>1
<1>3. /\ Len(at) = Len(chords) /\ DOMAIN chords = 1..Len(at)
      /\ \A j \in 1..Len(at) : /\ at[j] \in RunStarts(s) /\ s[at[j]] # None
                               /\ ChordIs(chords[j], s, t, at[j])
      /\ \A k \in RunStarts(s) : s[k] # None => \E j \in 1..Len(at) : at[j] = k
  BY DEF Picks
<1>4. ASSUME NEW n \in HeldAt(chords, time)
      PROVE  \E k \in SegmentsAt(t, time) : chords[n].symbol = s[k] /\ s[k] # None
  <2>1. /\ n \in 1..Len(at) /\ chords[n].t <= time
        /\ time < chords[n].t + chords[n].dur
    BY <1>3 DEF HeldAt
  <2> DEFINE i == at[n]
  <2>2. i \in RunStarts(s) /\ s[i] # None /\ ChordIs(chords[n], s, t, i)
    BY <1>3, <2>1
  <2> HIDE DEF i
  <2>3. Sounds(s, t, i, time)
    BY <1>2, <2>1, <2>2, HeldSounds
  <2>4. PICK j \in 1..Len(s) : t[j] <= time /\ time < SegmentEnd(t, j) /\ s[j] = s[i]
    BY <1>2, <2>2, <2>3, SoundsLabelled
  <2>5. j \in SegmentsAt(t, time)
    BY <1>1, <2>4 DEF SegmentsAt
  <2>6. chords[n].symbol = s[i]
    BY <2>2 DEF ChordIs
  <2> QED
    BY <2>2, <2>4, <2>5, <2>6
<1>5. ASSUME NEW k \in SegmentsAt(t, time), s[k] # None
      PROVE  \E n \in HeldAt(chords, time) : chords[n].symbol = s[k]
  <2>1. k \in 1..Len(s) /\ t[k] <= time /\ time < SegmentEnd(t, k)
    BY <1>1 DEF SegmentsAt
  <2>2. PICK i \in RunStarts(s) : s[i] = s[k] /\ Sounds(s, t, i, time)
    BY <1>2, <1>5, <2>1, LabelledSounds
  <2>3. PICK n \in 1..Len(at) : at[n] = i
    BY <1>3, <1>5, <2>2
  <2>4. ChordIs(chords[n], s, t, i)
    BY <1>3, <2>3
  <2>5. chords[n].t <= time /\ time < chords[n].t + chords[n].dur
    BY <1>2, <2>2, <2>4, HeldSounds
  <2>6. n \in HeldAt(chords, time)
    BY <1>3, <2>3, <2>5 DEF HeldAt
  <2> QED
    BY <2>2, <2>4, <2>6 DEF ChordIs
<1> QED
  BY <1>4, <1>5

(* One chord ends before the next, and two of a name are not neighbours    *)
(* without a segment that has none.                                        *)
LEMMA ChordsFollow ==
  ASSUME NEW s, NEW t, Labelled(s, t), NEW at, NEW chords, Picks(at, chords, s, t),
         NEW n \in 2..Len(chords)
  PROVE  /\ chords[n - 1].t + chords[n - 1].dur <= chords[n].t
         /\ chords[n - 1].symbol = chords[n].symbol =>
              \E k \in DOMAIN s : /\ s[k] = None
                                  /\ chords[n - 1].t < t[k]
                                  /\ t[k] < chords[n].t
<1> DEFINE a == at[n - 1]
           b == at[n]
           stop == RunStop(s, a)
<1>1. /\ t \in Seq(Nat) /\ Len(s) = Len(t) /\ duration \in Nat
      /\ s \in Seq(Symbols \cup {None}) /\ Climbs(t)
  BY DEF Labelled
<1>2. /\ at \in Seq(Nat) /\ Len(at) = Len(chords)
      /\ \A j \in 1..Len(at) : /\ at[j] \in RunStarts(s) /\ s[at[j]] # None
                               /\ ChordIs(chords[j], s, t, at[j])
      /\ \A i \in 1..Len(at), j \in 1..Len(at) : i < j => at[i] < at[j]
      /\ \A k \in RunStarts(s) : s[k] # None => \E j \in 1..Len(at) : at[j] = k
  BY DEF Picks
<1>3. n - 1 \in 1..Len(at) /\ n \in 1..Len(at) /\ n - 1 < n /\ Len(at) \in Nat
  BY <1>2
<1>4. /\ a \in RunStarts(s) /\ b \in RunStarts(s) /\ a < b
      /\ ChordIs(chords[n - 1], s, t, a) /\ ChordIs(chords[n], s, t, b)
      /\ s[a] # None /\ s[b] # None
  BY <1>2, <1>3
<1>5. \A j \in 1..Len(at) : ~(a < at[j] /\ at[j] < b)
  <2> SUFFICES ASSUME NEW j \in 1..Len(at), a < at[j], at[j] < b PROVE FALSE
    OBVIOUS
  <2>1. \A i \in 1..Len(at) : at[i] \in Nat
    BY <1>2
  <2>2. j <= n - 1 \/ n <= j
    BY <1>3
  <2>3. CASE j <= n - 1
    <3>1. at[j] <= a
      BY <1>2, <1>3, <2>1, <2>3
    <3> QED
      BY <1>3, <2>1, <3>1
  <2>4. CASE n <= j
    <3>1. b <= at[j]
      BY <1>2, <1>3, <2>1, <2>4
    <3> QED
      BY <1>3, <2>1, <3>1
  <2> QED
    BY <2>2, <2>3, <2>4
<1> HIDE DEF a, b
<1>6. RunStarts(s) \subseteq 1..Len(s) /\ DOMAIN s = 1..Len(s) /\ Len(s) \in Nat
  BY <1>1 DEF RunStarts
<1>7. IsRun(s, a, stop)
  BY <1>1, <1>4, RunIs
<1> HIDE DEF stop
<1>8. /\ stop \in (a + 1)..(Len(s) + 1) /\ stop <= b
      /\ stop <= Len(s) => stop \in RunStarts(s) /\ s[stop] # s[a]
  BY <1>4, <1>7 DEF IsRun
<1>9. a \in 1..Len(s) /\ b \in 1..Len(s) /\ stop \in 1..Len(s) /\ a < stop
  BY <1>4, <1>6, <1>8
<1>10. \A i \in 1..Len(s) : t[i] \in Nat
  BY <1>1
<1>11. \A i \in 1..Len(s), j \in 1..Len(s) : i < j => t[i] < t[j]
  BY <1>1 DEF Climbs
<1>12. chords[n - 1].t + chords[n - 1].dur <= chords[n].t
  <2> DEFINE e == StopTime(s, t, a)
             h == HeldFor(s, t, a)
  <2>1. h \in Nat /\ t[a] + h = IF e >= t[a] THEN e ELSE t[a]
    BY <1>4, HeldIs
  <2>2. e = t[stop]
    BY <1>1, <1>9 DEF StopTime, stop
  <2>3. t[stop] <= t[b] /\ t[a] <= t[b]
    BY <1>4, <1>8, <1>9, <1>10, <1>11
  <2> HIDE DEF e, h
  <2>4. t[a] + h <= t[b]
    BY <2>1, <2>2, <2>3
  <2>5. chords[n - 1].t = t[a] /\ chords[n - 1].dur = h /\ chords[n].t = t[b]
    BY <1>4 DEF ChordIs, h
  <2> QED
    BY <2>4, <2>5
<1>13. ASSUME chords[n - 1].symbol = chords[n].symbol
       PROVE  \E k \in DOMAIN s : /\ s[k] = None
                                  /\ chords[n - 1].t < t[k]
                                  /\ t[k] < chords[n].t
  <2>1. s[a] = s[b]
    BY <1>4, <1>13 DEF ChordIs
  <2>2. stop \in RunStarts(s) /\ s[stop] # s[a]
    BY <1>8, <1>9
  <2>3. stop < b
    BY <1>8, <1>9, <2>1, <2>2
  <2>4. s[stop] = None
    <3>1. ASSUME s[stop] # None PROVE FALSE
      <4>1. PICK j \in 1..Len(at) : at[j] = stop
        BY <1>2, <2>2, <3>1
      <4> QED
        BY <1>5, <1>9, <2>3, <4>1
    <3> QED
      BY <3>1
  <2>5. t[a] < t[stop] /\ t[stop] < t[b]
    BY <1>9, <1>11, <2>3
  <2>6. chords[n - 1].t = t[a] /\ chords[n].t = t[b]
    BY <1>4 DEF ChordIs
  <2>7. stop \in DOMAIN s
    BY <1>6, <1>9
  <2> QED
    BY <2>4, <2>5, <2>6, <2>7
<1> QED
  BY <1>12, <1>13

(* Without a grid, every time before the end is in some second.            *)
LEMMA SecondsCover ==
  ASSUME duration \in Nat, NEW t, t = [k \in 1..Count |-> Second * (k - 1)],
         NEW time \in 0..(duration - 1)
  PROVE  SegmentsAt(t, time) # {}
<1> DEFINE q == time \div Second
           k == q + 1
<1>1. Second \in Nat \ {0} /\ time \in Nat /\ time < duration
  BY StructureAssumption DEF StructureAssumption
<1>2. q \in Nat /\ Second * q <= time /\ time < Second * q + Second
  BY <1>1, Divided
<1>3. /\ duration + Second - 1 \in Nat /\ Count \in Nat
      /\ duration + Second - 1 < Second * Count + Second
  <2>1. duration + Second - 1 \in Nat
    BY <1>1
  <2> QED
    BY <1>1, <2>1, Divided DEF Count
<1> HIDE DEF q
<1>4. Second * q < Second * Count
  <2> DEFINE x == Second * q
             y == Second * Count
  <2>1. x \in Nat /\ y \in Nat /\ x <= time /\ duration + Second - 1 < y + Second
    BY <1>1, <1>2, <1>3
  <2> HIDE DEF x, y
  <2>2. x < y
    BY <1>1, <2>1
  <2> QED
    BY <2>2 DEF x, y
<1>5. q < Count
  BY <1>1, <1>2, <1>3, <1>4, DividedUp
<1>6. k \in 1..Count /\ k - 1 = q /\ k \in Nat
  BY <1>2, <1>3, <1>5
<1>7. DOMAIN t = 1..Count /\ Len(t) = Count /\ \A i \in 1..Count : t[i] = Second * (i - 1)
  <2>1. Len(t) = Count
    BY <1>1, <1>3, SecondsClimb
  <2> QED
    BY <2>1
<1> HIDE DEF k
<1>8. t[k] <= time
  BY <1>2, <1>6, <1>7
<1>9. time < SegmentEnd(t, k)
  <2>1. CASE k < Count
    <3>1. SegmentEnd(t, k) = t[k + 1]
      BY <1>7, <2>1 DEF SegmentEnd
    <3>2. k + 1 \in 1..Count /\ (k + 1) - 1 = q + 1
      BY <1>3, <1>6, <2>1
    <3>3. t[k + 1] = Second * (q + 1)
      BY <1>7, <3>2
    <3>4. Second * (q + 1) = Second * q + Second
      BY <1>1, <1>2
    <3> QED
      BY <1>2, <3>1, <3>3, <3>4
  <2>2. CASE ~(k < Count)
    BY <1>1, <1>7, <2>2 DEF SegmentEnd
  <2> QED
    BY <2>1, <2>2
<1> QED
  BY <1>6, <1>7, <1>8, <1>9 DEF SegmentsAt

(* What stays true of an analysis.                                         *)
StructureTyped ==
  /\ duration \in Nat /\ grid \in Grids \cup {<<>>}
  /\ labels \in Seq(Symbols \cup {None})
  /\ analysis = [beats |-> analysis.beats, chords |-> analysis.chords,
                 warnings |-> analysis.warnings]
  /\ analysis.warnings \subseteq {"beats", "chords"}
  /\ step \in {"beats", "chords", "done"}

Scoring ==
  /\ Len(labels) <= Len(Segments(grid))
  /\ \A k \in 1..Len(labels) : labels[k] # None => Scored(Segments(grid), k)
  /\ step = "beats" => labels = <<>>

Merged ==
  step = "done" /\ "chords" \notin analysis.warnings =>
    /\ Len(labels) = Len(Segments(grid))
    /\ analysis.chords = merge_chords(labels, Segments(grid))

StructureInv == StructureTyped /\ Scoring /\ Merged

LEMMA StructureInitInv == StructureInit => StructureInv
<1> SUFFICES ASSUME StructureInit PROVE StructureInv
  OBVIOUS
<1>1. /\ duration \in Nat /\ grid = <<>> /\ labels = <<>> /\ step = "beats"
      /\ analysis = [beats |-> <<>>, chords |-> <<>>, warnings |-> {}]
  BY StructureAssumption DEF StructureInit, StructureAssumption
<1>2. labels \in Seq(Symbols \cup {None}) /\ Len(labels) = 0
  BY <1>1
<1>3. StructureTyped
  BY <1>1, <1>2 DEF StructureTyped
<1>4. Len(Segments(grid)) \in Nat
  <2>1. Segments(grid) \in Seq(Nat)
    BY <1>3, SegmentsClimb DEF StructureTyped
  <2> QED
    BY <2>1
<1>5. Scoring
  BY <1>1, <1>2, <1>4 DEF Scoring
<1>6. Merged
  BY <1>1 DEF Merged
<1> QED
  BY <1>3, <1>5, <1>6 DEF StructureInv

LEMMA StructureKeeps ==
  StructureInv /\ [StructureNext]_structureVars => StructureInv'
<1> SUFFICES ASSUME StructureInv, [StructureNext]_structureVars PROVE StructureInv'
  OBVIOUS
<1>i. StructureTyped /\ Scoring /\ Merged
  BY DEF StructureInv
<1>t. /\ duration \in Nat /\ grid \in Grids \cup {<<>>}
      /\ labels \in Seq(Symbols \cup {None})
      /\ analysis = [beats |-> analysis.beats, chords |-> analysis.chords,
                     warnings |-> analysis.warnings]
      /\ analysis.warnings \subseteq {"beats", "chords"}
  BY <1>i DEF StructureTyped
<1>1. CASE TracksBeats
  <2>1. /\ step = "beats" /\ step' = "chords" /\ duration' = duration /\ labels' = labels
        /\ grid' \in Grids \cup {<<>>}
        /\ \/ \E times \in Grids : analysis' = [analysis EXCEPT !.beats = beats_to_events(times)]
           \/ analysis' = [analysis EXCEPT !.warnings = {"beats"}]
    BY <1>1 DEF TracksBeats
  <2>2. /\ analysis' = [beats |-> analysis'.beats, chords |-> analysis'.chords,
                        warnings |-> analysis'.warnings]
        /\ analysis'.warnings \subseteq {"beats", "chords"}
    <3>1. ASSUME NEW times \in Grids,
                 analysis' = [analysis EXCEPT !.beats = beats_to_events(times)]
          PROVE  analysis' = [beats |-> beats_to_events(times), chords |-> analysis.chords,
                              warnings |-> analysis.warnings]
      BY <1>t, <3>1
    <3>2. ASSUME analysis' = [analysis EXCEPT !.warnings = {"beats"}]
          PROVE  analysis' = [beats |-> analysis.beats, chords |-> analysis.chords,
                              warnings |-> {"beats"}]
      BY <1>t, <3>2
    <3> QED
      BY <1>t, <2>1, <3>1, <3>2
  <2>3. StructureTyped'
    BY <1>t, <2>1, <2>2 DEF StructureTyped
  <2>4. labels' = <<>> /\ Len(<<>>) = 0
    BY <1>i, <2>1 DEF Scoring
  <2>5. Len(Segments(grid)') \in Nat
    <3>1. Segments(grid)' \in Seq(Nat)
      <4>1. duration' \in Nat /\ grid' \in Grids \cup {<<>>}
        BY <1>t, <2>1
      <4>2. ASSUME NEW times \in Grids \cup {<<>>}
            PROVE  Segments(times)' \in Seq(Nat)
        <5>1. Segments(times)' = Segments(times)
          BY <2>1 DEF Segments
        <5> QED
          BY <1>t, <5>1, SegmentsClimb
      <4>3. Segments(grid)' = IF Len(grid') >= 2 THEN grid'
                              ELSE [k \in 1..((duration' + Second - 1) \div Second)
                                      |-> Second * (k - 1)]
        BY DEF Segments
      <4>4. ASSUME NEW times \in Grids \cup {<<>>}, times = grid'
            PROVE  Segments(grid)' \in Seq(Nat)
        <5>1. Segments(grid)' = Segments(times)'
          BY <4>3, <4>4 DEF Segments
        <5> QED
          BY <4>2, <5>1
      <4> QED
        BY <4>1, <4>4
    <3> QED
      BY <3>1
  <2>6. Scoring'
    BY <2>1, <2>4, <2>5 DEF Scoring
  <2>7. Merged'
    BY <2>1 DEF Merged
  <2> QED
    BY <2>3, <2>6, <2>7 DEF StructureInv
<1>2. CASE Labels
  <2> DEFINE segments == Segments(grid)
             m == Len(labels)
  <2>1. /\ step = "chords" /\ m + 1 <= Len(segments)
        /\ duration' = duration /\ grid' = grid /\ analysis' = analysis /\ step' = step
    BY <1>2 DEF Labels
  <2>2. PICK symbol \in Symbols \cup {None} :
          /\ symbol # None => Scored(segments, m + 1)
          /\ labels' = Append(labels, symbol)
    <3>1. \E symbol \in (IF Scored(segments, m + 1) THEN Symbols ELSE {}) \cup {None} :
            labels' = Append(labels, symbol)
      BY <1>2 DEF Labels
    <3> HIDE DEF segments, m
    <3> QED
      BY <3>1
  <2>3. /\ labels' \in Seq(Symbols \cup {None}) /\ Len(labels') = m + 1
        /\ \A k \in 1..m : labels'[k] = labels[k]
        /\ labels'[m + 1] = symbol
        /\ m \in Nat
    BY <1>t, <2>2
  <2>4. Segments(grid)' = segments /\ \A k : Scored(segments, k) => Scored(Segments(grid), k)'
    BY <2>1 DEF Segments, Scored, SegmentEnd
  <2>5. StructureTyped'
    BY <1>i, <2>1, <2>3 DEF StructureTyped
  <2>6. Scoring'
    <3>1. \A k \in 1..m : labels[k] # None => Scored(segments, k)
      BY <1>i DEF Scoring
    <3> HIDE DEF segments, m
    <3>2. \A k \in 1..(m + 1) : labels'[k] # None => Scored(segments, k)
      <4> SUFFICES ASSUME NEW k \in 1..(m + 1), labels'[k] # None
                   PROVE  Scored(segments, k)
        OBVIOUS
      <4>1. CASE k \in 1..m
        BY <2>3, <3>1, <4>1
      <4>2. CASE k = m + 1
        BY <2>2, <2>3, <4>2
      <4> QED
        BY <2>3, <4>1, <4>2
    <3>3. \A k \in 1..Len(labels') : labels'[k] # None => Scored(Segments(grid), k)'
      BY <2>3, <2>4, <3>2
    <3> QED
      BY <2>1, <2>3, <2>4, <3>3 DEF Scoring
  <2>7. Merged'
    BY <2>1 DEF Merged
  <2> QED
    BY <2>5, <2>6, <2>7 DEF StructureInv
<1>3. CASE DetectsChords
  <2>1. /\ step' = "done" /\ duration' = duration /\ grid' = grid /\ labels' = labels
        /\ \/ /\ Len(labels) = Len(Segments(grid))
              /\ analysis' = [analysis EXCEPT !.chords = merge_chords(labels, Segments(grid))]
           \/ analysis' = [analysis EXCEPT !.warnings = @ \cup {"chords"}]
    BY <1>3 DEF DetectsChords
  <2>2. /\ Segments(grid)' = Segments(grid)
        /\ \A k : Scored(Segments(grid), k)' <=> Scored(Segments(grid), k)
        /\ merge_chords(labels, Segments(grid))' = merge_chords(labels, Segments(grid))
    BY <2>1 DEF Segments, Scored, SegmentEnd, merge_chords, HeldFor
  <2>3. CASE /\ Len(labels) = Len(Segments(grid))
             /\ analysis' = [analysis EXCEPT !.chords = merge_chords(labels, Segments(grid))]
    <3> DEFINE chords == merge_chords(labels, Segments(grid))
    <3>1. analysis' = [analysis EXCEPT !.chords = chords]
      BY <2>3
    <3> HIDE DEF chords
    <3>2. analysis' = [beats |-> analysis.beats, chords |-> chords,
                       warnings |-> analysis.warnings]
      BY <1>t, <3>1
    <3>3. StructureTyped'
      BY <1>t, <2>1, <3>2 DEF StructureTyped
    <3>4. Merged'
      BY <2>1, <2>2, <2>3, <3>2 DEF Merged, chords
    <3>5. Scoring'
      BY <1>i, <2>1, <2>2 DEF Scoring
    <3> QED
      BY <3>3, <3>4, <3>5 DEF StructureInv
  <2>4. CASE analysis' = [analysis EXCEPT !.warnings = @ \cup {"chords"}]
    <3>1. analysis' = [beats |-> analysis.beats, chords |-> analysis.chords,
                       warnings |-> analysis.warnings \cup {"chords"}]
      BY <1>t, <2>4
    <3>2. StructureTyped'
      BY <1>t, <2>1, <3>1 DEF StructureTyped
    <3>3. Merged'
      BY <3>1 DEF Merged
    <3>4. Scoring'
      BY <1>i, <2>1, <2>2 DEF Scoring
    <3> QED
      BY <3>2, <3>3, <3>4 DEF StructureInv
  <2> QED
    BY <2>1, <2>3, <2>4
<1>4. CASE UNCHANGED structureVars
  BY <1>i, <1>4
     DEF structureVars, StructureInv, StructureTyped, Scoring, Merged, Segments, Scored,
         SegmentEnd, merge_chords, HeldFor
<1> QED
  BY <1>1, <1>2, <1>3, <1>4 DEF StructureNext

(* The merged chords sound what the segments were labelled.                *)
LEMMA StructureHolds == StructureInv => ChordsHold
<1> SUFFICES ASSUME StructureInv, step = "done", "chords" \notin analysis.warnings
             PROVE  ChordsHold
  BY DEF ChordsHold
<1> DEFINE t == Segments(grid)
           s == labels
           chords == analysis.chords
<1>1. /\ duration \in Nat /\ grid \in Grids \cup {<<>>}
      /\ s \in Seq(Symbols \cup {None})
      /\ Len(s) = Len(t) /\ chords = merge_chords(s, t)
      /\ \A k \in 1..Len(s) : s[k] # None => Scored(t, k)
  BY DEF StructureInv, StructureTyped, Scoring, Merged
<1>2. /\ t \in Seq(Nat) /\ Climbs(t)
      /\ Len(grid) < 2 => t = [k \in 1..Count |-> Second * (k - 1)]
  BY <1>1, SegmentsClimb
<1> HIDE DEF t, s, chords
<1>3. Labelled(s, t)
  BY <1>1, <1>2 DEF Labelled
<1>4. PICK at : Picks(at, chords, s, t)
  BY <1>1, <1>3, ChordsFrom
<1>5. \A time \in 0..duration :
        {chords[n].symbol : n \in HeldAt(chords, time)}
          = {s[k] : k \in SegmentsAt(t, time)} \ {None}
  BY <1>3, <1>4, ChordsSound
<1>6. \A n \in 2..Len(chords) :
        /\ chords[n - 1].t + chords[n - 1].dur <= chords[n].t
        /\ chords[n - 1].symbol = chords[n].symbol =>
             \E k \in DOMAIN s : /\ s[k] = None
                                 /\ chords[n - 1].t < t[k]
                                 /\ t[k] < chords[n].t
  BY <1>3, <1>4, ChordsFollow
<1>7. Len(grid) < 2 => \A time \in 0..(duration - 1) : SegmentsAt(t, time) # {}
  BY <1>1, <1>2, SecondsCover
<1> QED
  BY <1>5, <1>6, <1>7 DEF ChordsHold, HeldAt, SegmentsAt, t, s, chords

(* The chord track merge_chords makes says at every time what the segment  *)
(* there was labelled, from where its label began to where it ended, with  *)
(* a grid of beats or without.  For every grid, duration and frame step.   *)
THEOREM StructureSafe == StructureSpec => []ChordsHold
<1>1. StructureInv /\ [StructureNext]_structureVars => StructureInv'
  BY StructureKeeps
<1> QED
  BY <1>1, StructureInitInv, StructureHolds, PTL DEF StructureSpec

-----------------------------------------------------------------------------
(* Strings before strings, the first that differs deciding.                *)
Lower(s, t) ==
  \E i \in DOMAIN s : s[i] < t[i] /\ \A j \in 1..(i - 1) : s[j] = t[j]

LEMMA LowerNot ==
  ASSUME NEW n \in Nat, NEW s \in [1..n -> Int]
  PROVE  ~Lower(s, s)
  BY DEF Lower

LEMMA LowerThrough ==
  ASSUME NEW n \in Nat, NEW s \in [1..n -> Int], NEW t \in [1..n -> Int],
         NEW u \in [1..n -> Int], Lower(s, t), Lower(t, u)
  PROVE  Lower(s, u)
<1>1. PICK i \in 1..n : s[i] < t[i] /\ \A j \in 1..(i - 1) : s[j] = t[j]
  BY DEF Lower
<1>2. PICK k \in 1..n : t[k] < u[k] /\ \A j \in 1..(k - 1) : t[j] = u[j]
  BY DEF Lower
<1>3. CASE i < k
  <2>1. t[i] = u[i]
    BY <1>2, <1>3
  <2>2. \A j \in 1..(i - 1) : s[j] = u[j]
    BY <1>1, <1>2, <1>3
  <2> QED
    BY <1>1, <2>1, <2>2 DEF Lower
<1>4. CASE i = k
  <2>1. s[i] < u[i]
    BY <1>1, <1>2, <1>4
  <2>2. \A j \in 1..(i - 1) : s[j] = u[j]
    BY <1>1, <1>2, <1>4
  <2> QED
    BY <2>1, <2>2 DEF Lower
<1>5. CASE k < i
  <2>1. s[k] = t[k]
    BY <1>1, <1>5
  <2>2. \A j \in 1..(k - 1) : s[j] = u[j]
    BY <1>1, <1>2, <1>5
  <2> QED
    BY <1>2, <2>1, <2>2 DEF Lower
<1> QED
  BY <1>3, <1>4, <1>5

LEMMA LowerTotal ==
  ASSUME NEW n \in Nat, NEW s \in [1..n -> Int], NEW t \in [1..n -> Int], s # t
  PROVE  Lower(s, t) \/ Lower(t, s)
<1> DEFINE D == {i \in 1..n : s[i] # t[i]}
<1>1. D \subseteq Nat /\ D # {}
  OBVIOUS
<1>2. PICK i \in D : \A x \in D : i <= x
  BY <1>1, LeastOf
<1>3. \A j \in 1..(i - 1) : s[j] = t[j]
  BY <1>2
<1>4. s[i] < t[i] \/ t[i] < s[i]
  OBVIOUS
<1> QED
  BY <1>3, <1>4 DEF Lower

(* Functions on 1..n into a finite set are finitely many.                  *)
LEMMA FunctionsFinite ==
  ASSUME NEW S, IsFiniteSet(S), NEW n \in Nat
  PROVE  IsFiniteSet([1..n -> S])
<1> DEFINE T == {m \in Nat : IsFiniteSet([1..m -> S])}
<1>1. 0 \in T
  <2> DEFINE e == [i \in 1..0 |-> i]
  <2>1. [1..0 -> S] = {e}
    <3>1. 1..0 = {}
      OBVIOUS
    <3>2. \A f \in [1..0 -> S] : f = e
      BY <3>1
    <3>3. e \in [1..0 -> S]
      BY <3>1
    <3> QED
      BY <3>2, <3>3
  <2> HIDE DEF e
  <2>2. IsFiniteSet([1..0 -> S])
    BY <2>1, FS_Singleton
  <2> QED
    BY <2>2
<1>2. ASSUME NEW m \in Nat, m \in T PROVE (m + 1) \in T
  <2> DEFINE A == [1..m -> S]
             B == [1..(m + 1) -> S]
             P == A \X S
             g == [p \in P |-> [i \in 1..(m + 1) |-> IF i <= m THEN p[1][i] ELSE p[2]]]
  <2>1. IsFiniteSet(P)
    BY <1>2, FS_Product
  <2>2. g \in [P -> B]
    <3>1. ASSUME NEW p \in P, NEW i \in 1..(m + 1)
          PROVE  (IF i <= m THEN p[1][i] ELSE p[2]) \in S
      OBVIOUS
    <3> QED
      BY <3>1
  <2>3. ASSUME NEW f \in B PROVE \E p \in P : g[p] = f
    <3> DEFINE h == [i \in 1..m |-> f[i]]
               p == <<h, f[m + 1]>>
    <3>1. m + 1 \in 1..(m + 1) /\ \A i \in 1..m : i \in 1..(m + 1)
      OBVIOUS
    <3>2. p \in P /\ p[1] = h /\ p[2] = f[m + 1]
      BY <3>1
    <3>3. \A i \in 1..(m + 1) : (IF i <= m THEN h[i] ELSE f[m + 1]) = f[i]
      <4>1. \A i \in 1..(m + 1) : i <= m \/ i = m + 1
        OBVIOUS
      <4> QED
        BY <4>1
    <3> HIDE DEF p, h
    <3>4. g[p] = [i \in 1..(m + 1) |-> IF i <= m THEN h[i] ELSE f[m + 1]]
      BY <3>2
    <3>5. g[p] = f
      BY <3>3, <3>4
    <3> QED
      BY <3>2, <3>5
  <2> HIDE DEF g, P
  <2>4. g \in Surjection(P, B)
    BY <2>2, <2>3 DEF Surjection
  <2> QED
    BY <2>1, <2>4, FS_Surjection
<1> HIDE DEF T
<1>3. n \in T
  BY <1>1, <1>2, Everywhere
<1> QED
  BY <1>3 DEF T

(* The image of a finite set.                                              *)
-----------------------------------------------------------------------------
(* The fingerings of a voicing.                                            *)
LEMMA Board ==
  /\ Tuning \in Seq(Int) /\ Strings = 1..Len(Tuning) /\ Len(Tuning) \in Nat
  /\ IsFiniteSet(Strings)
  /\ \A s \in Strings : s \in Nat /\ Tuning[s] \in Int
<1>1. Tuning \in Seq(Int)
  BY FretboardAssumption
<1>2. Strings = 1..Len(Tuning) /\ Len(Tuning) \in Nat
  BY <1>1 DEF Strings
<1>3. IsFiniteSet(1..Len(Tuning))
  BY <1>2, FS_Interval
<1> QED
  BY <1>1, <1>2, <1>3

LEMMA CostsAre ==
  /\ costs.move_weight \in Nat /\ costs.span_weight \in Nat /\ costs.height_weight \in Nat
  /\ costs.open_reach \in Nat /\ costs.open_weight \in Nat /\ costs.ring_weight \in Nat
  /\ costs.ring_tolerance \in Nat /\ costs.gap_weight \in Nat /\ costs.max_fret \in Nat
  /\ costs.max_span \in Nat /\ costs.hand_window \in Nat \ {0} /\ costs.beam \in Nat \ {0}
  BY FretboardAssumption

Placing(shape, voicing) ==
  /\ shape \in [1..Len(voicing) -> Strings]
  /\ Frets(voicing, shape) \in [1..Len(voicing) -> 0..costs.max_fret]
  /\ \A i \in 1..Len(voicing) :
       Tuning[shape[i]] + Frets(voicing, shape)[i] = voicing[i].midi
  /\ \A i, j \in 1..Len(voicing) : shape[i] = shape[j] => i = j

LEMMA NoteIs ==
  ASSUME NEW note \in NoteEvents
  PROVE  /\ note.onset \in Int /\ note.duration \in Int
         /\ note.midi \in Int /\ note.confidence \in Int
  BY DEF NoteEvents

LEMMA CandidateIs ==
  ASSUME NEW note, NEW s \in Candidates(note)
  PROVE  s \in Strings /\ note.midi - Tuning[s] \in 0..costs.max_fret
  BY DEF Candidates

LEMMA ShapeIs ==
  ASSUME NEW voicing \in Seq(NoteEvents), NEW shape \in Shapes(voicing)
  PROVE  Placing(shape, voicing)
<1>1. DOMAIN voicing = 1..Len(voicing) /\ Len(voicing) \in Nat
  OBVIOUS
<1>2. /\ shape \in [1..Len(voicing) -> Strings] /\ IsInjective(shape)
      /\ \A i \in 1..Len(voicing) : shape[i] \in Candidates(voicing[i])
  BY <1>1 DEF Shapes
<1>3. ASSUME NEW i \in 1..Len(voicing)
      PROVE  /\ voicing[i].midi - Tuning[shape[i]] \in 0..costs.max_fret
             /\ Tuning[shape[i]] + (voicing[i].midi - Tuning[shape[i]]) = voicing[i].midi
  <2>0. shape[i] \in Candidates(voicing[i])
    BY <1>2
  <2>1. voicing[i].midi - Tuning[shape[i]] \in 0..costs.max_fret
    BY <2>0, CandidateIs
  <2>2. voicing[i].midi \in Int
    <3>1. voicing[i] \in NoteEvents
      BY <1>1, ElementOfSeq
    <3> QED
      BY <3>1, NoteIs
  <2>3. Tuning[shape[i]] \in Int
    BY <1>2, Board
  <2> QED
    BY <2>1, <2>2, <2>3
<1>4. Frets(voicing, shape) = [i \in 1..Len(voicing) |-> voicing[i].midi - Tuning[shape[i]]]
  BY <1>2 DEF Frets
<1> QED
  BY <1>2, <1>3, <1>4 DEF Placing, IsInjective

LEMMA ShapesFinite ==
  ASSUME NEW voicing \in Seq(NoteEvents)
  PROVE  IsFiniteSet(Shapes(voicing)) /\ IsFiniteSet(Playable(voicing))
<1>1. DOMAIN voicing = 1..Len(voicing) /\ Len(voicing) \in Nat
  OBVIOUS
<1>2. IsFiniteSet([1..Len(voicing) -> Strings])
  BY <1>1, Board, FunctionsFinite
<1>3. Shapes(voicing) \in SUBSET [1..Len(voicing) -> Strings]
  BY <1>1 DEF Shapes
<1>4. IsFiniteSet(Shapes(voicing))
  BY <1>2, <1>3, FS_Subset
<1>5. Playable(voicing) \in SUBSET Shapes(voicing)
  BY DEF Playable
<1> QED
  BY <1>4, <1>5, FS_Subset

LEMMA LowHigh ==
  ASSUME NEW n \in Nat, NEW top \in Nat, NEW frets \in [1..n -> 0..top]
  PROVE  Low(frets) \in Nat /\ High(frets) \in Nat
<1> DEFINE fretted == Range(frets) \ {0}
<1>1. fretted \subseteq Nat /\ fretted \in SUBSET Int /\ \A x \in fretted : x <= top
  BY DEF Range
<1> HIDE DEF fretted
<1>2. CASE fretted = {}
  BY <1>2 DEF Low, High, fretted, Nowhere
<1>3. CASE fretted # {}
  <2>1. Min(fretted) \in fretted
    BY <1>1, <1>3, LeastIs
  <2>2. Max(fretted) \in fretted
    <3>1. top \in Int
      OBVIOUS
    <3> QED
      BY <1>1, <1>3, <3>1, GreatestIs
  <2>3. Low(frets) = Min(fretted) /\ High(frets) = Max(fretted)
    BY <1>3 DEF Low, High, fretted
  <2> QED
    BY <1>1, <2>1, <2>2, <2>3
<1> QED
  BY <1>2, <1>3

LEMMA GapInt ==
  ASSUME NEW n \in Nat, NEW shape \in [1..n -> Strings]
  PROVE  Gap(shape) \in Int
<1>1. shape \in Seq(Strings) /\ Len(shape) = n /\ DOMAIN shape = 1..n
  OBVIOUS
<1>2. CASE n < 3
  BY <1>1, <1>2 DEF Gap
<1>3. CASE ~(n < 3)
  <2> DEFINE R == Range(shape)
  <2>1. R \subseteq Nat /\ R \in SUBSET Int /\ \A x \in R : x <= Len(Tuning)
    BY Board DEF Range
  <2>2. R # {}
    <3>1. 1 \in DOMAIN shape
      BY <1>1, <1>3
    <3> QED
      BY <3>1 DEF Range
  <2> HIDE DEF R
  <2>3. Min(R) \in R
    BY <2>1, <2>2, LeastIs
  <2>4. Len(Tuning) \in Int
    BY Board
  <2>5. Max(R) \in R
    BY <2>1, <2>2, <2>4, GreatestIs
  <2>6. Gap(shape) = Max(R) - Min(R) + 1 - n
    BY <1>1, <1>3 DEF Gap, R
  <2>7. Max(R) \in Int /\ Min(R) \in Int
    BY <2>1, <2>3, <2>5
  <2> QED
    BY <2>6, <2>7
<1> QED
  BY <1>2, <1>3

(* What a fingering is made of.                                            *)
Found(voicing) == {Fingering(voicing, Exempt(voicing), s) : s \in Playable(voicing)}

Plays(f, voicing) ==
  /\ f.strings \in [1..Len(voicing) -> Strings]
  /\ f.frets = Frets(voicing, f.strings)
  /\ Placing(f.strings, voicing)
  /\ Low(f.frets) \in Nat /\ High(f.frets) \in Nat
  /\ f.opens \in Nat /\ f.cost \in Int
  /\ f = Fingering(voicing, Exempt(voicing), f.strings)

LEMMA FingeringIs ==
  ASSUME NEW voicing \in Seq(NoteEvents), NEW f \in Found(voicing)
  PROVE  Plays(f, voicing)
<1>1. PICK s \in Playable(voicing) : f = Fingering(voicing, Exempt(voicing), s)
  BY DEF Found
<1> DEFINE frets == Frets(voicing, s)
           exempt == Exempt(voicing)
           opens == Cardinality({i \in DOMAIN frets : frets[i] = 0} \ exempt)
           cost == costs.span_weight * (High(frets) - Low(frets))
                     + costs.height_weight * Low(frets) + costs.gap_weight * Gap(s)
<1>2. s \in Shapes(voicing)
  BY DEF Playable
<1>3. Placing(s, voicing)
  BY <1>2, ShapeIs
<1>4. /\ s \in [1..Len(voicing) -> Strings] /\ Len(voicing) \in Nat
      /\ frets \in [1..Len(voicing) -> 0..costs.max_fret]
  BY <1>3 DEF Placing
<1>5. f = [strings |-> s, frets |-> frets, opens |-> opens, cost |-> cost]
  BY <1>1 DEF Fingering
<1> HIDE DEF frets, exempt
<1>6. Low(frets) \in Nat /\ High(frets) \in Nat
  BY <1>4, LowHigh, CostsAre
<1>7. Gap(s) \in Int
  BY <1>4, GapInt
<1>8. cost \in Int
  <2>1. costs.span_weight * (High(frets) - Low(frets)) \in Int
    BY <1>6, CostsAre
  <2>2. costs.height_weight * Low(frets) \in Int
    BY <1>6, CostsAre
  <2>3. costs.gap_weight * Gap(s) \in Int
    BY <1>7, CostsAre
  <2> QED
    BY <2>1, <2>2, <2>3
<1>9. opens \in Nat
  <2> DEFINE O == {i \in DOMAIN frets : frets[i] = 0} \ exempt
  <2>1. O \in SUBSET (1..Len(voicing))
    BY <1>4
  <2>2. IsFiniteSet(1..Len(voicing))
    BY <1>4, FS_Interval
  <2> HIDE DEF O
  <2>3. IsFiniteSet(O)
    BY <2>1, <2>2, FS_Subset
  <2>4. Cardinality(O) \in Nat
    BY <2>3, FS_CardinalityType
  <2> QED
    BY <2>4 DEF O
<1> HIDE DEF opens, cost
<1>10. /\ f.strings = s /\ f.frets = frets /\ f.opens = opens /\ f.cost = cost
  BY <1>5
<1> QED
  BY <1>1, <1>3, <1>4, <1>6, <1>8, <1>9, <1>10 DEF Plays, frets

LEMMA FoundFinite ==
  ASSUME NEW voicing \in Seq(NoteEvents)
  PROVE  IsFiniteSet(Found(voicing))
<1> DEFINE g == [s \in Playable(voicing) |-> Fingering(voicing, Exempt(voicing), s)]
<1>1. IsFiniteSet(Playable(voicing))
  BY ShapesFinite
<1>2. Found(voicing) = {g[s] : s \in Playable(voicing)}
  BY DEF Found
<1> HIDE DEF g
<1> QED
  BY <1>1, <1>2, ImageFinite

(* The two orders of fingerings.                                           *)
Height(f) == Summed(Len(f.frets), f.frets)

LEMMA TieIs ==
  ASSUME NEW f, NEW g
  PROVE  TieBefore(f, g) <=>
           \/ Height(f) < Height(g)
           \/ Height(f) = Height(g) /\ Lower(f.strings, g.strings)
  BY DEF TieBefore, Height, Lower

LEMMA HeightInt ==
  ASSUME NEW voicing \in Seq(NoteEvents), NEW f \in Found(voicing)
  PROVE  /\ Height(f) \in Int /\ f.cost \in Int /\ Len(voicing) \in Nat
         /\ f.strings \in [1..Len(voicing) -> Int]
<1>1. Plays(f, voicing)
  BY FingeringIs
<1>2. f.frets \in [1..Len(voicing) -> 0..costs.max_fret] /\ Len(voicing) \in Nat
  BY <1>1 DEF Plays, Placing
<1>3. Len(f.frets) = Len(voicing) /\ \A k \in 1..Len(voicing) : f.frets[k] \in Int
  BY <1>2, CostsAre
<1>4. Height(f) \in Int
  BY <1>2, <1>3, SummedInt DEF Height
<1>5. f.strings \in [1..Len(voicing) -> Int]
  <2>1. f.strings \in [1..Len(voicing) -> Strings]
    BY <1>1 DEF Plays
  <2>2. Strings \subseteq Int
    BY Board
  <2> QED
    BY <2>1, <2>2
<1> QED
  BY <1>1, <1>2, <1>4, <1>5 DEF Plays

LEMMA Distinct ==
  ASSUME NEW voicing \in Seq(NoteEvents), NEW f \in Found(voicing), NEW g \in Found(voicing),
         f.strings = g.strings
  PROVE  f = g
<1>1. Plays(f, voicing) /\ Plays(g, voicing)
  BY FingeringIs
<1> QED
  BY <1>1 DEF Plays

LEMMA TieOrder ==
  ASSUME NEW voicing \in Seq(NoteEvents), NEW f \in Found(voicing), NEW g \in Found(voicing),
         NEW h \in Found(voicing)
  PROVE  /\ ~TieBefore(f, f)
         /\ TieBefore(f, g) /\ TieBefore(g, h) => TieBefore(f, h)
         /\ f = g \/ TieBefore(f, g) \/ TieBefore(g, f)
<1> DEFINE n == Len(voicing)
<1>1. /\ n \in Nat
      /\ Height(f) \in Int /\ Height(g) \in Int /\ Height(h) \in Int
      /\ f.strings \in [1..n -> Int] /\ g.strings \in [1..n -> Int]
      /\ h.strings \in [1..n -> Int]
  BY HeightInt
<1>2. ~Lower(f.strings, f.strings)
  BY <1>1, LowerNot
<1>3. Lower(f.strings, g.strings) /\ Lower(g.strings, h.strings) =>
        Lower(f.strings, h.strings)
  BY <1>1, LowerThrough
<1>4. f = g \/ Lower(f.strings, g.strings) \/ Lower(g.strings, f.strings)
  BY <1>1, LowerTotal, Distinct
<1> HIDE DEF n
<1> QED
  BY <1>1, <1>2, <1>3, <1>4, TieIs

LEMMA CostOrder ==
  ASSUME NEW voicing \in Seq(NoteEvents), NEW f \in Found(voicing), NEW g \in Found(voicing),
         NEW h \in Found(voicing)
  PROVE  /\ ~OrderBefore(f, f)
         /\ OrderBefore(f, g) /\ OrderBefore(g, h) => OrderBefore(f, h)
         /\ f = g \/ OrderBefore(f, g) \/ OrderBefore(g, f)
<1>1. f.cost \in Int /\ g.cost \in Int /\ h.cost \in Int
  BY HeightInt
<1>2. /\ ~TieBefore(f, f)
      /\ TieBefore(f, g) /\ TieBefore(g, h) => TieBefore(f, h)
      /\ f = g \/ TieBefore(f, g) \/ TieBefore(g, f)
  BY TieOrder
<1> QED
  BY <1>1, <1>2 DEF OrderBefore

(* What the beam keeps: of what was found, and something of it.            *)
LEMMA BeamKeeps ==
  ASSUME NEW voicing \in Seq(NoteEvents)
  PROVE  /\ Beamed(voicing) \subseteq Found(voicing)
         /\ IsFiniteSet(Beamed(voicing))
         /\ Playable(voicing) # {} => Beamed(voicing) # {}
<1> DEFINE found == Found(voicing)
           before == [f \in found |-> {g \in found : OrderBefore(g, f)}]
<1>1. Beamed(voicing)
        = {f \in found : Cardinality({g \in found : OrderBefore(g, f)}) < costs.beam}
  BY DEF Beamed, Found
<1>2. IsFiniteSet(found)
  BY FoundFinite
<1>3. Sorts(before, found)
  <2>1. before \in [found -> SUBSET found]
    OBVIOUS
  <2>2. \A x \in found : x \notin before[x]
    BY CostOrder
  <2>3. \A x, y \in found : x \in before[y] => before[x] \subseteq before[y]
    BY CostOrder
  <2>4. \A x, y \in found : x = y \/ x \in before[y] \/ y \in before[x]
    BY CostOrder
  <2> HIDE DEF found, before
  <2> QED
    BY <2>1, <2>2, <2>3, <2>4 DEF Sorts
<1>4. IsFiniteSet(Beamed(voicing))
  <2>1. Beamed(voicing) \in SUBSET found
    BY <1>1
  <2> HIDE DEF found
  <2> QED
    BY <1>2, <2>1, FS_Subset
<1>5. ASSUME Playable(voicing) # {}
      PROVE  Beamed(voicing) # {}
  <2>1. found # {}
    BY <1>5 DEF Found
  <2> HIDE DEF found, before
  <2>2. Cardinality(found) \in Nat /\ Cardinality(found) # 0
    BY <1>2, <2>1, FS_CardinalityType, FS_EmptySet
  <2>3. 0 \in 0..(Cardinality(found) - 1)
    BY <2>2
  <2>4. PICK f \in found : Cardinality(before[f]) = 0
    BY <1>2, <1>3, <2>3, RankTaken
  <2>5. f \in Beamed(voicing)
    BY <1>1, <2>4, CostsAre DEF before
  <2> QED
    BY <2>5
<1> QED
  BY <1>1, <1>4, <1>5

(* The fingerings a voicing is searched with, in tie order.                *)
Options(opts, voicing) ==
  /\ Len(opts) \in Nat /\ DOMAIN opts = 1..Len(opts)
  /\ \A i \in DOMAIN opts : opts[i] \in Found(voicing)
  /\ \A i, j \in DOMAIN opts : i < j => TieBefore(opts[i], opts[j])
  /\ \A i, j \in DOMAIN opts : opts[i] = opts[j] => i = j
  /\ Playable(voicing) # {} => Len(opts) # 0

LEMMA FingeringsAre ==
  ASSUME NEW voicing \in Seq(NoteEvents)
  PROVE  Options(Fingerings(voicing), voicing)
<1> DEFINE kept == Beamed(voicing)
           before == [f \in kept |-> {g \in kept : TieBefore(g, f)}]
           opts == Fingerings(voicing)
<1>1. /\ kept \subseteq Found(voicing) /\ IsFiniteSet(kept)
      /\ Playable(voicing) # {} => kept # {}
  BY BeamKeeps
<1>2. Sorts(before, kept)
  <2>1. before \in [kept -> SUBSET kept]
    OBVIOUS
  <2>2. \A x \in kept : x \notin before[x]
    BY <1>1, TieOrder
  <2>3. \A x, y \in kept : x \in before[y] => before[x] \subseteq before[y]
    BY <1>1, TieOrder
  <2>4. \A x, y \in kept : x = y \/ x \in before[y] \/ y \in before[x]
    BY <1>1, TieOrder
  <2> HIDE DEF kept, before
  <2> QED
    BY <2>1, <2>2, <2>3, <2>4 DEF Sorts
<1>3. opts = InOrder(before)
  BY DEF Fingerings
<1>4. \A x, y \in kept : x \in before[y] => TieBefore(x, y)
  OBVIOUS
<1> HIDE DEF kept, before, opts
<1>5. SortedOut(opts, before, kept)
  BY <1>1, <1>2, <1>3, InOrderIs
<1>6. /\ DOMAIN opts = 1..Cardinality(kept) /\ Cardinality(kept) \in Nat
      /\ \A k \in DOMAIN opts : opts[k] \in kept
      /\ \A i, j \in DOMAIN opts : i < j => opts[i] \in before[opts[j]] /\ opts[i] # opts[j]
  BY <1>5 DEF SortedOut
<1>7. Len(opts) = Cardinality(kept)
  <2>1. opts = InOrder(before)
    BY <1>3
  <2>2. opts = [k \in 1..Cardinality(kept) |-> opts[k]]
    BY <1>2, <1>6, <2>1 DEF InOrder, Sorts
  <2> QED
    BY <1>6, <2>2
<1>8. Playable(voicing) # {} => Cardinality(kept) # 0
  BY <1>1, FS_EmptySet
<1>9. \A i, j \in DOMAIN opts : opts[i] = opts[j] => i = j
  <2> SUFFICES ASSUME NEW i \in DOMAIN opts, NEW j \in DOMAIN opts, opts[i] = opts[j], i # j
               PROVE  FALSE
    OBVIOUS
  <2>1. i < j \/ j < i
    BY <1>6
  <2> QED
    BY <1>6, <2>1
<1>10. \A i, j \in DOMAIN opts : i < j => TieBefore(opts[i], opts[j])
  BY <1>4, <1>6
<1> QED
  BY <1>1, <1>6, <1>7, <1>8, <1>9, <1>10 DEF Options, opts

-----------------------------------------------------------------------------
(* Where the hand lands, and what a step of the search adds.               *)
LEMMA MinTwo ==
  ASSUME NEW a \in Int, NEW b \in Int
  PROVE  /\ Min({a, b}) \in Int
         /\ a >= 0 /\ b >= 0 => Min({a, b}) >= 0
<1>1. \E x \in {a, b} : \A y \in {a, b} : x =< y
  <2>1. CASE a <= b
    BY <2>1
  <2>2. CASE b <= a
    BY <2>2
  <2> QED
    BY <2>1, <2>2
<1>2. Min({a, b}) \in {a, b}
  BY <1>1, Zenon DEF Min
<1> HIDE DEF Min
<1> QED
  BY <1>2

LEMMA MaxTwo ==
  ASSUME NEW a \in Int, NEW b \in Int
  PROVE  /\ Max({a, b}) \in Int
         /\ a >= 0 => Max({a, b}) >= 0
<1>1. \E x \in {a, b} : \A y \in {a, b} : x >= y
  <2>1. CASE a <= b
    BY <2>1
  <2>2. CASE b <= a
    BY <2>2
  <2> QED
    BY <2>1, <2>2
<1>2. Max({a, b}) \in {a, b} /\ \A y \in {a, b} : Max({a, b}) >= y
  BY <1>1, Zenon DEF Max
<1>3. Max({a, b}) >= a
  BY <1>2
<1> QED
  BY <1>2, <1>3

LEMMA LandingNat ==
  ASSUME NEW hand \in Nat, NEW f, Low(f.frets) \in Nat, High(f.frets) \in Nat
  PROVE  Landing(hand, f) \in Nat
<1> DEFINE low == Low(f.frets)
           reach == High(f.frets) - (costs.hand_window - 1)
           near == Min({reach, low})
           far == Max({hand, near})
<1>1. low \in Int /\ low >= 0 /\ reach \in Int /\ hand \in Int /\ hand >= 0
  BY CostsAre
<1>2. Landing(hand, f) = IF low = Nowhere THEN hand
                         ELSE IF hand = Nowhere THEN low
                         ELSE Min({far, low})
  BY DEF Landing
<1> HIDE DEF low, reach
<1>3. near \in Int
  BY <1>1, MinTwo
<1> HIDE DEF near
<1>4. far \in Int /\ far >= 0
  BY <1>1, <1>3, MaxTwo
<1> HIDE DEF far
<1>5. Min({far, low}) \in Int /\ Min({far, low}) >= 0
  BY <1>1, <1>4, MinTwo
<1> QED
  BY <1>1, <1>2, <1>5

LEMMA MoveInt ==
  ASSUME NEW hand \in Nat, NEW f, Low(f.frets) \in Nat, High(f.frets) \in Nat,
         f.opens \in Nat
  PROVE  Move(hand, f) \in Int
<1> DEFINE landing == Landing(hand, f)
           away == Max({hand - landing, landing - hand})
           above == Max({0, landing - costs.open_reach})
<1>1. landing \in Nat
  BY LandingNat
<1>2. Move(hand, f) = (IF hand = Nowhere THEN 0 ELSE costs.move_weight * away)
                         + costs.open_weight * f.opens * above
  BY DEF Move
<1> HIDE DEF landing
<1>3. hand - landing \in Int /\ landing - hand \in Int /\ landing - costs.open_reach \in Int
  BY <1>1, CostsAre
<1>4. away \in Int /\ above \in Int
  BY <1>3, MaxTwo
<1> HIDE DEF away, above
<1>5. costs.move_weight * away \in Int
  BY <1>4, CostsAre
<1>6. costs.open_weight * f.opens \in Int
  BY CostsAre
<1>7. costs.open_weight * f.opens * above \in Int
  BY <1>4, <1>6
<1> QED
  BY <1>2, <1>5, <1>7

LEMMA RingInt ==
  ASSUME NEW before \in Seq(NoteEvents), NEW held, NEW voicing, NEW f
  PROVE  Ring(before, held, voicing, f) \in Int
<1> DEFINE limit == voicing[1].onset + costs.ring_tolerance
           ringing == {i \in DOMAIN before :
                         /\ held.strings[i] \in Range(f.strings)
                         /\ before[i].onset + before[i].duration > limit}
<1>1. Ring(before, held, voicing, f) = costs.ring_weight * Cardinality(ringing)
  BY DEF Ring
<1>2. ringing \in SUBSET (1..Len(before)) /\ Len(before) \in Nat
  OBVIOUS
<1> HIDE DEF ringing
<1>3. IsFiniteSet(1..Len(before))
  BY <1>2, FS_Interval
<1>4. IsFiniteSet(ringing)
  BY <1>2, <1>3, FS_Subset
<1>5. Cardinality(ringing) \in Nat
  BY <1>4, FS_CardinalityType
<1> QED
  BY <1>1, <1>5, CostsAre

-----------------------------------------------------------------------------
(* The search.  All voicings have their fingerings.                        *)
Ready ==
  /\ voicings \in Seq(Seq(NoteEvents))
  /\ Len(options) = Len(voicings)
  /\ \A k \in 1..Len(voicings) :
       options[k] = Fingerings(voicings[k]) /\ Playable(voicings[k]) # {}

States == Nat \X Nat

LEMMA OptionsAre ==
  ASSUME Ready, NEW k \in 1..Len(voicings)
  PROVE  /\ voicings[k] \in Seq(NoteEvents)
         /\ Options(options[k], voicings[k])
         /\ DOMAIN options[k] = 1..Len(options[k]) /\ Len(options[k]) \in Nat \ {0}
         /\ \A i \in DOMAIN options[k] : Plays(options[k][i], voicings[k])
<1>1. voicings[k] \in Seq(NoteEvents)
  BY ElementOfSeq DEF Ready
<1>2. options[k] = Fingerings(voicings[k]) /\ Playable(voicings[k]) # {}
  BY DEF Ready
<1>3. Options(options[k], voicings[k])
  BY <1>1, <1>2, FingeringsAre
<1>4. \A i \in DOMAIN options[k] : options[k][i] \in Found(voicings[k])
  BY <1>3 DEF Options
<1> QED
  BY <1>1, <1>2, <1>3, <1>4, FingeringIs DEF Options

LEMMA IntoState ==
  ASSUME Ready, NEW k \in 1..Len(voicings), NEW s \in States, NEW i \in DOMAIN options[k]
  PROVE  /\ Into(k, s, i) \in States
         /\ Into(k, s, i)[1] = i
         /\ Into(k, s, i)[2] = Landing(s[2], options[k][i])
<1>1. Plays(options[k][i], voicings[k]) /\ i \in Nat
  BY OptionsAre
<1>2. s[2] \in Nat
  BY DEF States
<1>3. Landing(s[2], options[k][i]) \in Nat
  BY <1>1, <1>2, LandingNat DEF Plays
<1> QED
  BY <1>1, <1>3 DEF Into, States

LEMMA AddedInt ==
  ASSUME Ready, NEW k \in 1..Len(voicings), NEW s \in States, NEW i \in DOMAIN options[k]
  PROVE  Added(k, s, i) \in Int
<1> DEFINE f == options[k][i]
           ring == Ring(voicings[k - 1], options[k - 1][s[1]], voicings[k], f)
<1>1. Plays(f, voicings[k])
  BY OptionsAre
<1>2. s[2] \in Nat
  BY DEF States
<1>3. f.cost \in Int /\ Move(s[2], f) \in Int
  BY <1>1, <1>2, MoveInt DEF Plays
<1>4. Added(k, s, i) = f.cost + Move(s[2], f) + (IF k = 1 THEN 0 ELSE ring)
  BY DEF Added
<1>5. k # 1 => ring \in Int
  <2> SUFFICES ASSUME k # 1 PROVE ring \in Int
    OBVIOUS
  <2>1. k - 1 \in 1..Len(voicings)
    BY DEF Ready
  <2>2. voicings[k - 1] \in Seq(NoteEvents)
    BY <2>1, OptionsAre
  <2> QED
    BY <2>2, RingInt
<1> HIDE DEF f, ring
<1> QED
  BY <1>3, <1>4, <1>5

(* Of finitely many states one is preferred to all.                        *)
LEMMA BestExists ==
  ASSUME NEW D, IsFiniteSet(D), D # {}, D \subseteq States,
         NEW total, DOMAIN total = D, \A s \in D : total[s] \in Int
  PROVE  /\ Best(total) \in D
         /\ \A r \in D : Preferred(total[Best(total)], Best(total), total[r], r)
<1> DEFINE all == {total[s] : s \in D}
<1>1. IsFiniteSet(all)
  BY ImageFinite
<1>2. all \subseteq Int /\ all # {}
  OBVIOUS
<1>3. PICK m \in all : \A x \in all : m <= x
  <2> HIDE DEF all
  <2> QED
    BY <1>1, <1>2, FiniteLeast
<1> DEFINE D1 == {s \in D : total[s] = m}
           firsts == {s[1] : s \in D1}
<1>4. firsts \subseteq Nat /\ firsts # {}
  BY <1>3 DEF States
<1>5. PICK a \in firsts : \A x \in firsts : a <= x
  <2> HIDE DEF firsts
  <2> QED
    BY <1>4, LeastOf
<1> DEFINE D2 == {s \in D1 : s[1] = a}
           seconds == {s[2] : s \in D2}
<1>6. seconds \subseteq Nat /\ seconds # {}
  BY <1>5 DEF States
<1>7. PICK b \in seconds : \A x \in seconds : b <= x
  <2> HIDE DEF seconds
  <2> QED
    BY <1>6, LeastOf
<1>8. PICK s \in D2 : s[2] = b
  BY <1>7
<1>9. s \in D /\ total[s] = m /\ s[1] = a
  BY <1>8
<1>10. ASSUME NEW r \in D PROVE Preferred(total[s], s, total[r], r)
  <2>1. /\ total[r] \in Int /\ m \in Int /\ m <= total[r]
        /\ r \in States /\ s \in States /\ r[1] \in Nat /\ r[2] \in Nat
        /\ a \in Nat /\ b \in Nat
    BY <1>2, <1>3, <1>4, <1>5, <1>6, <1>7, <1>9 DEF States
  <2>2. total[r] = m => a <= r[1]
    BY <1>5
  <2>3. total[r] = m /\ r[1] = a => b <= r[2]
    BY <1>7
  <2>4. r[1] = s[1] /\ r[2] = s[2] => s = r
    BY <2>1 DEF States
  <2> HIDE DEF D1, D2, firsts, seconds, all
  <2>5. \/ m < total[r]
        \/ m = total[r] /\ (a < r[1] \/ (a = r[1] /\ (b < r[2] \/ b = r[2])))
    BY <2>1, <2>2, <2>3
  <2> QED
    BY <1>8, <1>9, <2>4, <2>5 DEF Preferred, StateBefore
<1>11. \E w \in DOMAIN total : \A r \in DOMAIN total : Preferred(total[w], w, total[r], r)
  BY <1>9, <1>10
<1>12. /\ Best(total) \in DOMAIN total
       /\ \A r \in DOMAIN total : Preferred(total[Best(total)], Best(total), total[r], r)
  BY <1>11, Zenon DEF Best
<1> QED
  BY <1>12

(* The states of a voicing, or the empty hand before the first.            *)
Layer(k, states) ==
  /\ DOMAIN states \subseteq States /\ IsFiniteSet(DOMAIN states) /\ DOMAIN states # {}
  /\ \A s \in DOMAIN states : /\ states[s].total \in Int
                              /\ k = 0 => s = Start
                              /\ k # 0 => s[1] \in DOMAIN options[k]

(* How the states of voicing k are reached from those before.              *)
BestInto(k, earlier, b, total, t) ==
  /\ b \in DOMAIN earlier /\ t[1] \in DOMAIN options[k]
  /\ Into(k, b, t[1]) = t
  /\ total = earlier[b].total + Added(k, b, t[1])
  /\ \A r \in DOMAIN earlier :
       Into(k, r, t[1]) = t =>
         Preferred(total, b, earlier[r].total + Added(k, r, t[1]), r)

Extends(k, earlier, states) ==
  /\ \A t \in DOMAIN states :
       BestInto(k, earlier, states[t].before, states[t].total, t)
  /\ \A s \in DOMAIN earlier, i \in DOMAIN options[k] : Into(k, s, i) \in DOMAIN states

OfPairs(T, A, B, g) == \A t \in T : \E a \in A, b \in B : t = g[<<a, b>>]

LEMMA PairsFinite ==
  ASSUME NEW A, NEW B, IsFiniteSet(A), IsFiniteSet(B), NEW g, NEW T,
         OfPairs(T, A, B, g)
  PROVE  IsFiniteSet(T)
<1> USE DEF OfPairs
<1> DEFINE P == A \X B
<1>1. IsFiniteSet(P)
  BY FS_Product
<1>2. \A t \in T : \E p \in P : t = g[p]
  BY Zenon
<1> HIDE DEF P
<1> DEFINE G == {g[p] : p \in P}
<1>3. IsFiniteSet(G)
  BY <1>1, ImageFinite
<1>4. T \in SUBSET G
  BY <1>2
<1> HIDE DEF G
<1> QED
  BY <1>3, <1>4, FS_Subset

LEMMA ReachedIs ==
  ASSUME Ready, NEW k \in 1..Len(voicings), NEW earlier, Layer(k - 1, earlier)
  PROVE  Layer(k, Reached(k, earlier)) /\ Extends(k, earlier, Reached(k, earlier))
<1> DEFINE current == DOMAIN options[k]
           states == Reached(k, earlier)
           E == DOMAIN earlier
           T == {Into(k, s, i) : s \in E, i \in current}
           ways(t) == {s \in E : Into(k, s, t[1]) = t}
           total(s, i) == earlier[s].total + Added(k, s, i)
           tot(t) == [s \in ways(t) |-> total(s, t[1])]
           best(t) == Best(tot(t))
<1>1. states = [t \in T |-> [total |-> total(best(t), t[1]), before |-> best(t)]]
  BY DEF Reached
<1>2. /\ E \subseteq States /\ IsFiniteSet(E) /\ E # {}
      /\ \A s \in E : earlier[s].total \in Int
  BY DEF Layer
<1>3. PICK n \in Nat \ {0} : current = 1..n
  BY OptionsAre
<1>4. IsFiniteSet(current) /\ 1 \in current
  BY <1>3, FS_Interval
<1>5. IsFiniteSet(T)
  <2> DEFINE g == [p \in E \X current |-> Into(k, p[1], p[2])]
  <2>1. \A s \in E, i \in current : g[<<s, i>>] = Into(k, s, i)
    OBVIOUS
  <2>2. \A t \in T : \E s \in E, i \in current : t = Into(k, s, i)
    OBVIOUS
  <2> HIDE DEF g, T, E, current
  <2>3. OfPairs(T, E, current, g)
    BY <2>1, <2>2 DEF OfPairs
  <2>4. IsFiniteSet(E) /\ IsFiniteSet(current)
    BY <1>2, <1>4
  <2> HIDE DEF Ready
  <2> QED
    BY <2>3, <2>4, PairsFinite
<1>6. /\ T \subseteq States /\ T # {}
      /\ \A t \in T : t[1] \in current
  <2>1. \A s \in E, i \in current : Into(k, s, i) \in States /\ Into(k, s, i)[1] = i
    BY <1>2, IntoState
  <2>2. \E s \in E, i \in current : TRUE
    BY <1>2, <1>4
  <2> HIDE DEF E, current
  <2> QED
    BY <2>1, <2>2
<1>7. ASSUME NEW t \in T
      PROVE  BestInto(k, earlier, best(t), total(best(t), t[1]), t)
  <2>1. PICK s \in E, i \in current : t = Into(k, s, i)
    OBVIOUS
  <2>2. t[1] = i
    BY <1>2, <2>1, IntoState
  <2>3. ways(t) # {} /\ ways(t) \subseteq States /\ ways(t) \in SUBSET E
    BY <1>2, <2>1, <2>2
  <2>4. IsFiniteSet(ways(t))
    BY <1>2, <2>3, FS_Subset
  <2>5. \A r \in ways(t) : tot(t)[r] \in Int
    <3>1. ASSUME NEW r \in ways(t) PROVE total(r, t[1]) \in Int
      <4>1. r \in E /\ r \in States
        BY <1>2
      <4>2. Added(k, r, t[1]) \in Int
        BY <2>2, <4>1, AddedInt
      <4> QED
        BY <1>2, <4>1, <4>2
    <3> QED
      BY <3>1
  <2>6. DOMAIN tot(t) = ways(t) /\ \A r \in ways(t) : tot(t)[r] = total(r, t[1])
    OBVIOUS
  <2>7. /\ best(t) \in ways(t)
        /\ \A r \in ways(t) : Preferred(tot(t)[best(t)], best(t), tot(t)[r], r)
    <3> HIDE DEF ways, tot
    <3> QED
      BY <2>3, <2>4, <2>5, <2>6, BestExists
  <2> HIDE DEF best, tot
  <2>8. \A r \in ways(t) :
          Preferred(total(best(t), t[1]), best(t), total(r, t[1]), r)
    <3> HIDE DEF ways, total
    <3> QED
      BY <2>6, <2>7
  <2>9. best(t) \in E /\ Into(k, best(t), t[1]) = t
    BY <2>7
  <2> QED
    BY <2>2, <2>8, <2>9 DEF BestInto
<1>8. DOMAIN states = T
  BY <1>1
<1>9. \A t \in T : states[t].before = best(t) /\ states[t].total = total(best(t), t[1])
  <2> HIDE DEF T, best, total
  <2> QED
    BY <1>1
<1> HIDE DEF states, T, best, tot
<1>10. \A t \in T : BestInto(k, earlier, states[t].before, states[t].total, t)
  <2> HIDE DEF total
  <2> QED
    BY <1>7, <1>9
<1>11. \A s \in E, i \in current : Into(k, s, i) \in T
  BY DEF T
<1>12. Extends(k, earlier, states)
  BY <1>8, <1>10, <1>11 DEF Extends
<1>13. \A t \in T : states[t].total \in Int
  <2> SUFFICES ASSUME NEW t \in T PROVE states[t].total \in Int
    OBVIOUS
  <2> DEFINE b == states[t].before
  <2>1. /\ b \in E /\ t[1] \in current
        /\ states[t].total = earlier[b].total + Added(k, b, t[1])
    BY <1>10 DEF BestInto
  <2> HIDE DEF b
  <2>2. Added(k, b, t[1]) \in Int /\ earlier[b].total \in Int
    BY <1>2, <2>1, AddedInt
  <2> QED
    BY <2>1, <2>2
<1>14. Layer(k, states)
  <2>1. k # 0
    BY DEF Ready
  <2> QED
    BY <1>5, <1>6, <1>8, <1>13, <2>1 DEF Layer
<1> QED
  BY <1>12, <1>14 DEF states

-----------------------------------------------------------------------------
(* The states along a choice of fingerings.                                *)
AlongStep(f, k, c) ==
  IF k = 0 THEN Start ELSE <<c[k], Landing(f[k - 1][2], options[k][c[k]])>>

IsAlong(f, n, c) == f = [k \in 0..n |-> AlongStep(f, k, c)]

LEMMA AlongExists ==
  ASSUME NEW c, NEW n \in Nat
  PROVE  \E f : IsAlong(f, n, c)
<1> DEFINE T == {m \in Nat : \E f : IsAlong(f, m, c)}
<1>1. 0 \in T
  <2> DEFINE f == [k \in 0..0 |-> AlongStep(<<>>, k, c)]
  <2>1. f = [k \in 0..0 |-> AlongStep(f, k, c)]
    <3>1. \A k \in 0..0 : k = 0
      OBVIOUS
    <3> QED
      BY <3>1 DEF AlongStep
  <2> HIDE DEF f
  <2> QED
    BY <2>1 DEF IsAlong
<1>2. ASSUME NEW m \in Nat, m \in T PROVE (m + 1) \in T
  <2>0. PICK f : IsAlong(f, m, c)
    BY <1>2
  <2>1. f = [k \in 0..m |-> AlongStep(f, k, c)]
    BY <2>0 DEF IsAlong
  <2> DEFINE g == [k \in 0..(m + 1) |-> AlongStep(f, k, c)]
  <2>2. \A k \in 0..m : g[k] = f[k]
    <3>1. \A k \in 0..m : k \in 0..(m + 1)
      OBVIOUS
    <3> QED
      BY <2>1, <3>1
  <2>3. ASSUME NEW k \in 0..(m + 1)
        PROVE  AlongStep(f, k, c) = AlongStep(g, k, c)
    <3>1. k # 0 => k - 1 \in 0..m
      OBVIOUS
    <3>2. k # 0 => g[k - 1] = f[k - 1]
      BY <2>2, <3>1
    <3> HIDE DEF g
    <3> QED
      BY <3>2 DEF AlongStep
  <2>4. g = [k \in 0..(m + 1) |-> AlongStep(g, k, c)]
    BY <2>3
  <2> HIDE DEF g
  <2> QED
    BY <2>4 DEF IsAlong
<1> HIDE DEF T
<1>3. n \in T
  BY <1>1, <1>2, Everywhere
<1> QED
  BY <1>3 DEF T

(* A choice of a fingering for every voicing.                              *)
Choice(c) ==
  /\ DOMAIN c = 1..Len(voicings) /\ Len(c) = Len(voicings)
  /\ \A k \in 1..Len(voicings) : c[k] \in DOMAIN options[k]

(* The states a choice goes through.                                       *)
Walks(at, c) ==
  /\ at[0] = Start
  /\ \A k \in 1..Len(voicings) : at[k] = Into(k, at[k - 1], c[k])
  /\ \A k \in 0..Len(voicings) : at[k] \in States

LEMMA AlongIs ==
  ASSUME Ready, NEW c, Choice(c)
  PROVE  Walks(StatesAlong(c), c)
<1> DEFINE at == StatesAlong(c)
<1>0. PICK n \in Nat : n = Len(voicings)
  BY DEF Ready
<1>1. IsAlong(at, n, c)
  <2>1. at = CHOOSE f : IsAlong(f, Len(c), c)
    BY DEF StatesAlong, IsAlong, AlongStep
  <2>2. at = CHOOSE f : IsAlong(f, n, c)
    BY <1>0, <2>1 DEF Choice
  <2> HIDE DEF at
  <2> QED
    BY <2>2, AlongExists, Zenon
<1> HIDE DEF at
<1>2. at = [k \in 0..n |-> AlongStep(at, k, c)]
  BY <1>1 DEF IsAlong
<1>3. at[0] = Start
  BY <1>2 DEF AlongStep
<1>4. ASSUME NEW k \in 1..n PROVE at[k] = Into(k, at[k - 1], c[k])
  <2>1. k \in 0..n /\ k # 0
    OBVIOUS
  <2>2. at[k] = AlongStep(at, k, c)
    BY <1>2, <2>1
  <2> QED
    BY <2>1, <2>2 DEF AlongStep, Into
<1> DEFINE T == {m \in Nat : m <= n => at[m] \in States}
<1>5. 0 \in T
  BY <1>3 DEF States, Start, Nowhere
<1>6. ASSUME NEW m \in Nat, m \in T PROVE (m + 1) \in T
  <2> SUFFICES ASSUME m + 1 <= n PROVE at[m + 1] \in States
    OBVIOUS
  <2>1. m + 1 \in 1..n /\ (m + 1) - 1 = m /\ at[m] \in States
    BY <1>6
  <2>2. at[m + 1] = Into(m + 1, at[m], c[m + 1])
    BY <1>4, <2>1
  <2>3. c[m + 1] \in DOMAIN options[m + 1]
    BY <1>0, <2>1 DEF Choice
  <2> QED
    BY <1>0, <2>1, <2>2, <2>3, IntoState
<1> HIDE DEF T
<1>7. Nat \subseteq T
  BY <1>5, <1>6, Everywhere
<1>8. \A k \in 0..n : at[k] \in States
  BY <1>7 DEF T
<1> QED
  BY <1>0, <1>3, <1>4, <1>8 DEF Walks, at

(* What it has cost to go along, so far.                                   *)
Costs(p, at, c) ==
  /\ p[0] = 0
  /\ \A k \in 1..Len(voicings) : p[k] = p[k - 1] + Added(k, at[k - 1], c[k])
  /\ \A k \in 1..Len(voicings) : Added(k, at[k - 1], c[k]) \in Int
  /\ \A k \in 0..Len(voicings) : p[k] \in Int

LEMMA CostIs ==
  ASSUME Ready, NEW c, Choice(c)
  PROVE  \E p : Costs(p, StatesAlong(c), c) /\ CostAlong(c) = p[Len(voicings)]
<1> DEFINE at == StatesAlong(c)
<1>0. PICK n \in Nat : n = Len(voicings)
  BY DEF Ready
<1> DEFINE value == [k \in DOMAIN c |-> Added(k, at[k - 1], c[k])]
           p == Sums(n, value)
<1>1. CostAlong(c) = Summed(n, value)
  BY <1>0 DEF CostAlong, Choice
<1>2. Walks(at, c)
  BY AlongIs
<1> HIDE DEF at
<1>3. ASSUME NEW k \in 1..n
      PROVE  value[k] = Added(k, at[k - 1], c[k]) /\ value[k] \in Int
  <2>1. k - 1 \in 0..n
    OBVIOUS
  <2>2. at[k - 1] \in States /\ c[k] \in DOMAIN options[k] /\ k \in DOMAIN c
    BY <1>0, <1>2, <2>1 DEF Walks, Choice
  <2> QED
    BY <1>0, <2>2, AddedInt
<1> HIDE DEF value
<1>4. p[0] = 0 /\ \A k \in 1..n : p[k] = p[k - 1] + value[k]
  BY SumEquation
<1>5. CostAlong(c) = p[n]
  BY <1>1, SummedIs
<1> HIDE DEF p
<1> DEFINE T == {m \in Nat : m <= n => p[m] \in Int}
<1>6. 0 \in T
  BY <1>4
<1>7. ASSUME NEW m \in Nat, m \in T PROVE (m + 1) \in T
  <2> SUFFICES ASSUME m + 1 <= n PROVE p[m + 1] \in Int
    OBVIOUS
  <2>1. m + 1 \in 1..n /\ (m + 1) - 1 = m /\ p[m] \in Int
    BY <1>7
  <2>2. p[m + 1] = p[m] + value[m + 1] /\ value[m + 1] \in Int
    BY <1>3, <1>4, <2>1
  <2> QED
    BY <2>1, <2>2
<1> HIDE DEF T
<1>8. Nat \subseteq T
  BY <1>6, <1>7, Everywhere
<1>9. \A k \in 0..n : p[k] \in Int
  BY <1>8 DEF T
<1>10. Costs(p, at, c)
  BY <1>0, <1>3, <1>4, <1>9 DEF Costs
<1> QED
  BY <1>0, <1>5, <1>10 DEF at

-----------------------------------------------------------------------------
(* What the search has found so far.                                       *)
Chained(states) ==
  /\ Len(states) \in Nat \ {0} /\ DOMAIN states = 1..Len(states)
  /\ Len(states) <= Len(voicings) + 1
  /\ states[1] = [s \in {Start} |-> [total |-> 0, before |-> Start]]
  /\ \A k \in 1..Len(states) : Layer(k - 1, states[k])
  /\ \A k \in 1..(Len(states) - 1) : Extends(k, states[k], states[k + 1])

BackStep(f, j, states, final) ==
  IF j = 0 THEN final ELSE states[Len(states) - j + 1][f[j - 1]].before

IsBack(f, n, states, final) == f = [j \in 0..n |-> BackStep(f, j, states, final)]

Back(n, states, final) == CHOOSE f : IsBack(f, n, states, final)

LEMMA BackExists ==
  ASSUME NEW states, NEW final, NEW n \in Nat
  PROVE  \E f : IsBack(f, n, states, final)
<1> DEFINE T == {m \in Nat : \E f : IsBack(f, m, states, final)}
<1>1. 0 \in T
  <2> DEFINE f == [k \in 0..0 |-> BackStep(<<>>, k, states, final)]
  <2>1. f = [k \in 0..0 |-> BackStep(f, k, states, final)]
    <3>1. \A k \in 0..0 : k = 0
      OBVIOUS
    <3> QED
      BY <3>1 DEF BackStep
  <2> HIDE DEF f
  <2> QED
    BY <2>1 DEF IsBack
<1>2. ASSUME NEW m \in Nat, m \in T PROVE (m + 1) \in T
  <2>0. PICK f : IsBack(f, m, states, final)
    BY <1>2
  <2>1. f = [k \in 0..m |-> BackStep(f, k, states, final)]
    BY <2>0 DEF IsBack
  <2> DEFINE g == [k \in 0..(m + 1) |-> BackStep(f, k, states, final)]
  <2>2. \A k \in 0..m : g[k] = f[k]
    <3>1. \A k \in 0..m : k \in 0..(m + 1)
      OBVIOUS
    <3> QED
      BY <2>1, <3>1
  <2>3. ASSUME NEW k \in 0..(m + 1)
        PROVE  BackStep(f, k, states, final) = BackStep(g, k, states, final)
    <3>1. k # 0 => k - 1 \in 0..m
      OBVIOUS
    <3>2. k # 0 => g[k - 1] = f[k - 1]
      BY <2>2, <3>1
    <3> HIDE DEF g
    <3> QED
      BY <3>2 DEF BackStep
  <2>4. g = [k \in 0..(m + 1) |-> BackStep(g, k, states, final)]
    BY <2>3
  <2> HIDE DEF g
  <2> QED
    BY <2>4 DEF IsBack
<1> HIDE DEF T
<1>3. n \in T
  BY <1>1, <1>2, Everywhere
<1> QED
  BY <1>3 DEF T

Final(states) ==
  LET last == states[Len(states)]
  IN  Best([s \in DOMAIN last |-> last[s].total])

LEMMA BacktrackIs ==
  ASSUME NEW states, NEW n \in Nat \ {0}, Len(states) = n
  PROVE  /\ Backtrack(states)[n] = Final(states)
         /\ \A k \in 1..(n - 1) :
              Backtrack(states)[k] = states[k + 1][Backtrack(states)[k + 1]].before
<1> DEFINE final == Final(states)
           back == Back(n - 1, states, final)
           B == Backtrack(states)
<1>1. B = [k \in 1..n |-> back[n - k]]
  BY DEF Backtrack, Final, Back, IsBack, BackStep
<1> HIDE DEF final
<1>2. IsBack(back, n - 1, states, final)
  <2>1. PICK m \in Nat : m = n - 1
    OBVIOUS
  <2>2. \E f : IsBack(f, m, states, final)
    BY BackExists
  <2> QED
    BY <2>1, <2>2, Zenon DEF Back
<1> HIDE DEF back
<1>3. back = [j \in 0..(n - 1) |-> BackStep(back, j, states, final)]
  BY <1>2 DEF IsBack
<1>4. back[0] = final
  BY <1>3 DEF BackStep
<1>5. B[n] = final
  <2>1. n \in 1..n /\ n - n = 0
    OBVIOUS
  <2> HIDE DEF B
  <2> QED
    BY <1>1, <1>4, <2>1
<1> HIDE DEF B
<1>6. ASSUME NEW k \in 1..(n - 1) PROVE B[k] = states[k + 1][B[k + 1]].before
  <2>1. /\ n - k \in 0..(n - 1) /\ n - k # 0 /\ n - (n - k) + 1 = k + 1
        /\ (n - k) - 1 = n - (k + 1) /\ k \in 1..n /\ k + 1 \in 1..n
    OBVIOUS
  <2>2. B[k] = back[n - k] /\ B[k + 1] = back[n - (k + 1)]
    BY <1>1, <2>1
  <2>3. back[n - k] = BackStep(back, n - k, states, final)
    BY <1>3, <2>1
  <2>4. BackStep(back, n - k, states, final) = states[n - (n - k) + 1][back[(n - k) - 1]].before
    BY <2>1 DEF BackStep
  <2> QED
    BY <2>1, <2>2, <2>3, <2>4
<1> QED
  BY <1>5, <1>6 DEF B, final

(* The search is over.                                                     *)
Whole == Ready /\ Chained(history) /\ Len(history) = Len(voicings) + 1

(* The states back from the best of the last voicing.                      *)
LEMMA BackIs ==
  ASSUME Whole, NEW n \in Nat, n = Len(voicings), NEW B, B = Backtrack(history)
  PROVE  /\ \A k \in 0..n : B[k + 1] \in DOMAIN history[k + 1]
         /\ \A r \in DOMAIN history[n + 1] :
              Preferred(history[n + 1][B[n + 1]].total, B[n + 1],
                        history[n + 1][r].total, r)
         /\ \A k \in 1..n :
              BestInto(k, history[k], B[k], history[k + 1][B[k + 1]].total, B[k + 1])
<1> DEFINE last == history[n + 1]
           total == [s \in DOMAIN last |-> last[s].total]
<1>1. /\ Len(history) = n + 1 /\ DOMAIN history = 1..(n + 1)
      /\ \A k \in 1..(n + 1) : Layer(k - 1, history[k])
      /\ \A k \in 1..n : Extends(k, history[k], history[k + 1])
  BY DEF Whole, Chained
<1>2. /\ B[n + 1] = Final(history)
      /\ \A k \in 1..n : B[k] = history[k + 1][B[k + 1]].before
  <2>1. PICK m \in Nat \ {0} : m = n + 1
    OBVIOUS
  <2>2. m - 1 = n /\ Len(history) = m
    BY <1>1, <2>1
  <2> QED
    BY <2>1, <2>2, BacktrackIs
<1>3. B[n + 1] = Best(total)
  BY <1>1, <1>2 DEF Final
<1>4. Layer(n, last)
  <2>1. n + 1 \in 1..(n + 1) /\ (n + 1) - 1 = n
    OBVIOUS
  <2> QED
    BY <1>1, <2>1
<1>5. /\ DOMAIN total = DOMAIN last
      /\ \A s \in DOMAIN last : total[s] = last[s].total
  OBVIOUS
<1> HIDE DEF total, last
<1>6. /\ B[n + 1] \in DOMAIN last
      /\ \A r \in DOMAIN last : Preferred(total[B[n + 1]], B[n + 1], total[r], r)
  BY <1>3, <1>4, <1>5, BestExists DEF Layer
<1>7. \A r \in DOMAIN last : Preferred(last[B[n + 1]].total, B[n + 1], last[r].total, r)
  BY <1>5, <1>6
<1> DEFINE T == {m \in Nat : m <= n => B[n + 1 - m] \in DOMAIN history[n + 1 - m]}
<1>8. 0 \in T
  BY <1>6 DEF last
<1>9. ASSUME NEW k \in 1..n, B[k + 1] \in DOMAIN history[k + 1]
      PROVE  BestInto(k, history[k], B[k], history[k + 1][B[k + 1]].total, B[k + 1])
  BY <1>1, <1>2, <1>9 DEF Extends
<1>10. ASSUME NEW m \in Nat, m \in T PROVE (m + 1) \in T
  <2> SUFFICES ASSUME m + 1 <= n
               PROVE  B[n + 1 - (m + 1)] \in DOMAIN history[n + 1 - (m + 1)]
    OBVIOUS
  <2>1. PICK k \in 1..n : k = n + 1 - (m + 1) /\ k + 1 = n + 1 - m
    OBVIOUS
  <2>2. B[k + 1] \in DOMAIN history[k + 1]
    BY <1>10, <2>1
  <2>3. B[k] \in DOMAIN history[k]
    BY <1>9, <2>2 DEF BestInto
  <2> QED
    BY <2>1, <2>3
<1> HIDE DEF T
<1>11. Nat \subseteq T
  BY <1>8, <1>10, Everywhere
<1>12. ASSUME NEW k \in 0..n PROVE B[k + 1] \in DOMAIN history[k + 1]
  <2>1. n - k \in Nat /\ n - k <= n /\ n + 1 - (n - k) = k + 1
    OBVIOUS
  <2>2. n - k \in T
    BY <1>11, <2>1
  <2> QED
    BY <2>1, <2>2 DEF T
<1>13. \A k \in 1..n : k \in 0..n
  OBVIOUS
<1> QED
  BY <1>7, <1>9, <1>12, <1>13 DEF last

-----------------------------------------------------------------------------
(* No choice gets anywhere for less than the search has found.             *)
LEMMA LowerBound ==
  ASSUME Whole, NEW n \in Nat, n = Len(voicings), NEW c, Choice(c),
         NEW at, Walks(at, c), NEW p, Costs(p, at, c), NEW k \in 0..n
  PROVE  /\ at[k] \in DOMAIN history[k + 1]
         /\ history[k + 1][at[k]].total \in Int
         /\ history[k + 1][at[k]].total <= p[k]
<1> DEFINE Here(m) == /\ at[m] \in DOMAIN history[m + 1]
                      /\ history[m + 1][at[m]].total \in Int
                      /\ history[m + 1][at[m]].total <= p[m]
           T == {m \in Nat : m <= n => Here(m)}
<1>1. /\ history[1] = [s \in {Start} |-> [total |-> 0, before |-> Start]]
      /\ \A m \in 1..(n + 1) : Layer(m - 1, history[m])
      /\ \A m \in 1..n : Extends(m, history[m], history[m + 1])
  <2>1. /\ Len(history) = n + 1
        /\ history[1] = [s \in {Start} |-> [total |-> 0, before |-> Start]]
        /\ \A m \in 1..Len(history) : Layer(m - 1, history[m])
        /\ \A m \in 1..(Len(history) - 1) : Extends(m, history[m], history[m + 1])
    BY DEF Whole, Chained
  <2>2. Len(history) - 1 = n
    BY <2>1
  <2> QED
    BY <2>1, <2>2
<1>2. 0 \in T
  <2>1. at[0] = Start /\ p[0] = 0
    BY DEF Walks, Costs
  <2>2. history[1][Start].total = 0 /\ Start \in DOMAIN history[1]
    BY <1>1
  <2> QED
    BY <2>1, <2>2
<1>3. ASSUME NEW m \in Nat, m \in T PROVE (m + 1) \in T
  <2> SUFFICES ASSUME m + 1 <= n PROVE Here(m + 1)
    OBVIOUS
  <2>1. PICK j \in 1..n : j = m + 1 /\ j - 1 = m
    OBVIOUS
  <2>2. /\ at[m] \in DOMAIN history[j] /\ history[j][at[m]].total \in Int
        /\ history[j][at[m]].total <= p[m]
    BY <1>3, <2>1
  <2>3. /\ at[j] = Into(j, at[m], c[j]) /\ c[j] \in DOMAIN options[j]
        /\ p[j] = p[m] + Added(j, at[m], c[j]) /\ Added(j, at[m], c[j]) \in Int
        /\ p[m] \in Int /\ at[m] \in States
    <3>1. m \in 0..n
      BY <2>1
    <3> QED
      BY <2>1, <3>1 DEF Walks, Costs, Choice
  <2>4. at[j][1] = c[j]
    BY <2>3, IntoState DEF Whole
  <2>5. at[j] \in DOMAIN history[j + 1]
    BY <1>1, <2>2, <2>3 DEF Extends
  <2>6. BestInto(j, history[j], history[j + 1][at[j]].before,
                 history[j + 1][at[j]].total, at[j])
    BY <1>1, <2>5 DEF Extends
  <2>7. history[j + 1][at[j]].total \in Int
    <3>1. j + 1 \in 1..(n + 1)
      OBVIOUS
    <3>2. Layer((j + 1) - 1, history[j + 1])
      BY <1>1, <3>1
    <3> QED
      BY <2>5, <3>2 DEF Layer
  <2>8. Preferred(history[j + 1][at[j]].total, history[j + 1][at[j]].before,
                  history[j][at[m]].total + Added(j, at[m], c[j]), at[m])
    BY <2>2, <2>3, <2>4, <2>6 DEF BestInto
  <2>9. history[j + 1][at[j]].total <= history[j][at[m]].total + Added(j, at[m], c[j])
    BY <2>2, <2>3, <2>7, <2>8 DEF Preferred
  <2>10. history[j + 1][at[j]].total <= p[j]
    BY <2>2, <2>3, <2>7, <2>9
  <2> HIDE DEF T
  <2> QED
    BY <2>1, <2>5, <2>7, <2>10
<1> HIDE DEF T
<1>4. Nat \subseteq T
  BY <1>2, <1>3, Everywhere
<1> QED
  BY <1>4 DEF T

(* The choice made goes through the states back from the best, at the      *)
(* totals the search has found.                                            *)
LEMMA ChosenIs ==
  ASSUME Whole, NEW n \in Nat, n = Len(voicings), NEW B, B = Backtrack(history)
  PROVE  /\ Choice(Chosen)
         /\ \A at : Walks(at, Chosen) =>
              /\ \A k \in 0..n : at[k] = B[k + 1]
              /\ \A p : Costs(p, at, Chosen) =>
                   \A k \in 0..n : p[k] = history[k + 1][B[k + 1]].total
<1>0. DOMAIN voicings = 1..n
  BY DEF Whole, Ready
<1>1. Chosen = [k \in 1..n |-> B[k + 1][1]]
  BY <1>0 DEF Chosen
<1>2. /\ \A k \in 0..n : B[k + 1] \in DOMAIN history[k + 1]
      /\ \A k \in 1..n :
           BestInto(k, history[k], B[k], history[k + 1][B[k + 1]].total, B[k + 1])
  BY BackIs
<1>3. Choice(Chosen)
  <2>1. DOMAIN Chosen = 1..n /\ Len(Chosen) = n
    BY <1>1
  <2>2. \A k \in 1..n : Chosen[k] \in DOMAIN options[k]
    BY <1>1, <1>2 DEF BestInto
  <2> QED
    BY <2>1, <2>2 DEF Choice
<1>4. history[1] = [s \in {Start} |-> [total |-> 0, before |-> Start]]
  BY DEF Whole, Chained
<1>5. B[1] = Start
  <2>1. 0 \in 0..n /\ 0 + 1 = 1
    OBVIOUS
  <2>2. B[1] \in DOMAIN history[1]
    BY <1>2, <2>1
  <2> QED
    BY <1>4, <2>2
<1>6. ASSUME NEW at, Walks(at, Chosen)
      PROVE  \A k \in 0..n : at[k] = B[k + 1]
  <2> DEFINE T == {m \in Nat : m <= n => at[m] = B[m + 1]}
  <2>1. 0 \in T
    BY <1>5, <1>6 DEF Walks
  <2>2. ASSUME NEW m \in Nat, m \in T PROVE (m + 1) \in T
    <3> SUFFICES ASSUME m + 1 <= n PROVE at[m + 1] = B[(m + 1) + 1]
      OBVIOUS
    <3>1. PICK j \in 1..n : j = m + 1 /\ j - 1 = m
      OBVIOUS
    <3>2. at[m] = B[j]
      BY <2>2, <3>1
    <3>3. at[j] = Into(j, B[j], Chosen[j])
      BY <1>6, <3>1, <3>2 DEF Walks
    <3>4. Chosen[j] = B[j + 1][1]
      BY <1>1
    <3>5. Into(j, B[j], B[j + 1][1]) = B[j + 1]
      BY <1>2 DEF BestInto
    <3> QED
      BY <3>1, <3>3, <3>4, <3>5
  <2> HIDE DEF T
  <2>3. Nat \subseteq T
    BY <2>1, <2>2, Everywhere
  <2> QED
    BY <2>3 DEF T
<1>7. ASSUME NEW at, Walks(at, Chosen), NEW p, Costs(p, at, Chosen)
      PROVE  \A k \in 0..n : p[k] = history[k + 1][B[k + 1]].total
  <2> DEFINE T == {m \in Nat : m <= n => p[m] = history[m + 1][B[m + 1]].total}
  <2>1. 0 \in T
    <3>1. p[0] = 0
      BY <1>7 DEF Costs
    <3>2. history[1][B[1]].total = 0
      BY <1>4, <1>5
    <3> QED
      BY <3>1, <3>2
  <2>2. ASSUME NEW m \in Nat, m \in T PROVE (m + 1) \in T
    <3> SUFFICES ASSUME m + 1 <= n PROVE p[m + 1] = history[(m + 1) + 1][B[(m + 1) + 1]].total
      OBVIOUS
    <3>1. PICK j \in 1..n : j = m + 1 /\ j - 1 = m /\ m \in 0..n
      OBVIOUS
    <3>2. p[m] = history[j][B[j]].total
      BY <2>2, <3>1
    <3>3. at[m] = B[j]
      BY <1>6, <1>7, <3>1
    <3>4. p[j] = p[m] + Added(j, B[j], Chosen[j])
      BY <1>7, <3>1, <3>3 DEF Costs
    <3>5. Chosen[j] = B[j + 1][1]
      BY <1>1
    <3>6. history[j + 1][B[j + 1]].total = history[j][B[j]].total + Added(j, B[j], B[j + 1][1])
      BY <1>2 DEF BestInto
    <3> QED
      BY <3>1, <3>2, <3>4, <3>5, <3>6
  <2> HIDE DEF T
  <2>3. Nat \subseteq T
    BY <2>1, <2>2, Everywhere
  <2> QED
    BY <2>3 DEF T
<1> QED
  BY <1>3, <1>6, <1>7

(* Two choices of one cost that go the same way after k have cost the same *)
(* from k on.                                                              *)
LEMMA SameAfter ==
  ASSUME Ready, NEW n \in Nat, n = Len(voicings), NEW k \in 1..n,
         NEW c, Choice(c), NEW at, Walks(at, c), NEW p, Costs(p, at, c),
         NEW d, Choice(d), NEW du, Walks(du, d), NEW q, Costs(q, du, d),
         p[n] = q[n], \A m \in (k + 1)..n : at[m] = du[m], k < n
  PROVE  p[k + 1] = q[k + 1]
<1> DEFINE T == {m \in Nat : n - m > k => p[n - m] = q[n - m]}
<1>1. 0 \in T
  OBVIOUS
<1>2. ASSUME NEW m \in Nat, m \in T PROVE (m + 1) \in T
  <2> SUFFICES ASSUME n - (m + 1) > k PROVE p[n - (m + 1)] = q[n - (m + 1)]
    OBVIOUS
  <2>0. n - m \in 1..n /\ (n - m) - 1 = n - (m + 1)
    OBVIOUS
  <2>1. PICK j \in 1..n : j = n - m /\ j - 1 = n - (m + 1)
    BY <2>0
  <2>2. j > k + 1 /\ p[j] = q[j]
    BY <1>2, <2>1
  <2>3. at[j] = du[j] /\ at[j - 1] = du[j - 1] /\ j - 1 \in 0..n
    <3>1. j \in (k + 1)..n /\ j - 1 \in (k + 1)..n
      BY <2>2
    <3> QED
      BY <3>1
  <2>4. c[j] = d[j]
    <3>1. /\ at[j] = Into(j, at[j - 1], c[j]) /\ du[j] = Into(j, du[j - 1], d[j])
          /\ at[j - 1] \in States /\ du[j - 1] \in States
          /\ c[j] \in DOMAIN options[j] /\ d[j] \in DOMAIN options[j]
      BY <2>3 DEF Walks, Choice
    <3>2. at[j][1] = c[j] /\ du[j][1] = d[j]
      BY <3>1, IntoState
    <3> QED
      BY <2>3, <3>2
  <2>5. /\ p[j] = p[j - 1] + Added(j, at[j - 1], c[j])
        /\ q[j] = q[j - 1] + Added(j, du[j - 1], d[j])
        /\ Added(j, at[j - 1], c[j]) \in Int
        /\ p[j - 1] \in Int /\ q[j - 1] \in Int
    BY <2>3 DEF Costs
  <2> DEFINE added == Added(j, at[j - 1], c[j])
  <2>6. p[j] = p[j - 1] + added /\ q[j] = q[j - 1] + added /\ added \in Int
    BY <2>3, <2>4, <2>5
  <2> HIDE DEF added
  <2> DEFINE before == p[j - 1]
             beside == q[j - 1]
  <2>7. /\ before \in Int /\ beside \in Int
        /\ before + added = beside + added
    BY <2>2, <2>5, <2>6
  <2>8. before = beside
    <3> HIDE DEF before, beside
    <3> QED
      BY <2>6, <2>7
  <2> QED
    BY <2>1, <2>8
<1> HIDE DEF T
<1>3. Nat \subseteq T
  BY <1>1, <1>2, Everywhere
<1>4. n - (k + 1) \in Nat /\ n - (n - (k + 1)) = k + 1 /\ k + 1 > k
  OBVIOUS
<1>5. n - (k + 1) \in T
  BY <1>3, <1>4
<1> QED
  BY <1>4, <1>5 DEF T

LEMMA Cheapest ==
  ASSUME Whole
  PROVE  CheapestPath
<1>0. PICK n \in Nat : n = Len(voicings) /\ DOMAIN voicings = 1..n
  BY DEF Whole, Ready
<1> DEFINE chosen == StatesAlong(Chosen)
           cost == CostAlong(Chosen)
           B == Backtrack(history)
           lower(f, g) == f # g => TieBefore(f, g)
<1>1. Choice(Chosen)
  BY <1>0, ChosenIs
<1>2. Walks(chosen, Chosen)
  BY <1>1, AlongIs DEF Whole
<1>3. PICK p : Costs(p, chosen, Chosen) /\ cost = p[n]
  BY <1>0, <1>1, CostIs DEF Whole
<1>4. \A k \in 0..n : chosen[k] = B[k + 1] /\ p[k] = history[k + 1][B[k + 1]].total
  <2> HIDE DEF chosen, B
  <2> QED
    BY <1>0, <1>2, <1>3, ChosenIs DEF B
<1>5. /\ \A r \in DOMAIN history[n + 1] :
           Preferred(history[n + 1][B[n + 1]].total, B[n + 1],
                     history[n + 1][r].total, r)
      /\ \A k \in 1..n :
           BestInto(k, history[k], B[k], history[k + 1][B[k + 1]].total, B[k + 1])
  BY <1>0, BackIs
<1> HIDE DEF chosen, cost, B
<1>6. ASSUME NEW c \in Alternatives \ {Chosen}
      PROVE  \/ cost < CostAlong(c)
             \/ LET other == StatesAlong(c)
                    k == Max({j \in DOMAIN c : chosen[j] # other[j]})
                IN /\ cost = CostAlong(c)
                   /\ lower(options[k][chosen[k][1]], options[k][other[k][1]])
                   /\ chosen[k][1] = other[k][1] => chosen[k][2] < other[k][2]
  <2> DEFINE other == StatesAlong(c)
             D == {j \in DOMAIN c : chosen[j] # other[j]}
  <2>1. /\ DOMAIN c = 1..n /\ c = [j \in 1..n |-> c[j]]
        /\ \A j \in 1..n : c[j] \in DOMAIN options[j]
    BY <1>0 DEF Alternatives
  <2>2. Choice(c)
    <3>1. Len(c) = n
      BY <2>1
    <3> QED
      BY <1>0, <2>1, <3>1 DEF Choice
  <2>3. Walks(other, c)
    BY <2>2, AlongIs DEF Whole
  <2>4. PICK q : Costs(q, other, c) /\ CostAlong(c) = q[n]
    BY <1>0, <2>2, CostIs DEF Whole
  <2> HIDE DEF other
  <2>5. p[n] \in Int /\ q[n] \in Int /\ n \in 0..n
    BY <1>0, <1>3, <2>4 DEF Costs
  <2>6. \A k \in 0..n : /\ other[k] \in DOMAIN history[k + 1]
                        /\ history[k + 1][other[k]].total \in Int
                        /\ history[k + 1][other[k]].total <= q[k]
    BY <1>0, <2>2, <2>3, <2>4, LowerBound
  <2>7. Preferred(p[n], B[n + 1], history[n + 1][other[n]].total, other[n])
    BY <1>4, <1>5, <2>5, <2>6
  <2>8. p[n] <= q[n]
    <3>1. p[n] <= history[n + 1][other[n]].total
      BY <2>5, <2>6, <2>7 DEF Preferred
    <3> QED
      BY <2>5, <2>6, <3>1
  <2>9. CASE p[n] < q[n]
    BY <1>3, <2>4, <2>9
  <2>10. CASE p[n] = q[n]
    <3>1. D # {} /\ D \subseteq 1..n
      <4>1. PICK j \in 1..n : c[j] # Chosen[j]
        <5>1. Chosen = [j \in 1..n |-> Chosen[j]]
          BY <1>0 DEF Chosen
        <5> QED
          BY <2>1, <5>1
      <4>2. /\ chosen[j] = Into(j, chosen[j - 1], Chosen[j])
            /\ other[j] = Into(j, other[j - 1], c[j])
        BY <1>0, <1>2, <2>3 DEF Walks
      <4>3. chosen[j][1] = Chosen[j] /\ other[j][1] = c[j]
        BY <4>2 DEF Into
      <4>4. j \in D
        BY <2>1, <4>1, <4>3
      <4> QED
        BY <2>1, <4>4
    <3> DEFINE k == Max(D)
    <3>2. k \in D /\ \A j \in D : j <= k
      <4> HIDE DEF D
      <4> QED
        BY <3>1, GreatestIs
    <3>3. k \in 1..n /\ chosen[k] # other[k] /\ \A j \in (k + 1)..n : chosen[j] = other[j]
      <4>1. k \in 1..n
        BY <3>1, <3>2
      <4> HIDE DEF k
      <4>2. \A j \in (k + 1)..n : j \in 1..n /\ ~(j <= k)
        BY <4>1
      <4>3. \A j \in (k + 1)..n : chosen[j] = other[j]
        BY <2>1, <3>2, <4>2
      <4> QED
        BY <3>2, <4>1, <4>3
    <3> HIDE DEF D
    <3> HIDE DEF k
    <3>4. /\ chosen[k] \in States /\ other[k] \in States
          /\ chosen[k][1] \in DOMAIN options[k] /\ other[k][1] \in DOMAIN options[k]
      <4>1. /\ chosen[k] = Into(k, chosen[k - 1], Chosen[k])
            /\ other[k] = Into(k, other[k - 1], c[k])
            /\ chosen[k] \in States /\ other[k] \in States
        BY <1>0, <1>2, <2>3, <3>3 DEF Walks
      <4>2. chosen[k][1] = Chosen[k] /\ other[k][1] = c[k]
        BY <4>1 DEF Into
      <4> QED
        BY <1>0, <1>1, <2>1, <3>3, <4>1, <4>2 DEF Choice
    <3>5. \E x \in Int, y \in Int : Preferred(x, chosen[k], y, other[k]) /\ y <= x
      <4>1. CASE k = n
        <5>1. chosen[k] = B[n + 1]
          BY <1>4, <2>5, <4>1
        <5> QED
          BY <2>5, <2>6, <2>7, <2>10, <4>1, <5>1
      <4>2. CASE k < n
        <5> DEFINE j == k + 1
        <5>0. j \in 1..n /\ j - 1 = k /\ k \in 0..n /\ j \in 0..n /\ j \in (k + 1)..n
          BY <3>3, <4>2
        <5>1. p[j] = q[j]
          BY <1>0, <1>1, <1>2, <1>3, <2>2, <2>3, <2>4, <2>10, <3>3, <4>2, SameAfter
             DEF Whole
        <5> HIDE DEF j
        <5>2. BestInto(j, history[j], chosen[k], p[j], chosen[j])
          <6>1. chosen[k] = B[k + 1] /\ k + 1 = j /\ chosen[j] = B[j + 1]
                /\ p[j] = history[j + 1][B[j + 1]].total
            BY <1>4, <5>0 DEF j
          <6> QED
            BY <1>5, <5>0, <6>1
        <5>3. other[j] = Into(j, other[k], c[j]) /\ chosen[j] = other[j]
          BY <1>0, <2>3, <3>3, <5>0 DEF Walks
        <5>4. other[j][1] = c[j]
          BY <5>3 DEF Into
        <5> DEFINE y == history[j][other[k]].total + Added(j, other[k], c[j])
        <5>5. other[k] \in DOMAIN history[j]
          BY <2>6, <5>0 DEF j
        <5>6. Preferred(p[j], chosen[k], y, other[k])
          BY <5>2, <5>3, <5>4, <5>5 DEF BestInto
        <5>7. /\ q[j] = q[k] + Added(j, other[k], c[j]) /\ Added(j, other[k], c[j]) \in Int
              /\ q[k] \in Int /\ q[j] \in Int
          BY <1>0, <2>4, <5>0 DEF Costs
        <5>8. history[j][other[k]].total \in Int /\ history[j][other[k]].total <= q[k]
          BY <2>6, <5>0 DEF j
        <5>9. y \in Int /\ y <= q[j]
          BY <5>7, <5>8
        <5> HIDE DEF y
        <5> QED
          BY <5>1, <5>6, <5>7, <5>9
      <4> QED
        BY <3>3, <4>1, <4>2
    <3>6. StateBefore(chosen[k], other[k])
      BY <3>3, <3>5 DEF Preferred
    <3>7. /\ DOMAIN options[k] \subseteq Nat
          /\ \A i, j \in DOMAIN options[k] : i < j => TieBefore(options[k][i], options[k][j])
      BY <1>0, <3>3, OptionsAre DEF Whole, Options
    <3>8. lower(options[k][chosen[k][1]], options[k][other[k][1]])
      BY <3>4, <3>6, <3>7 DEF StateBefore
    <3>9. chosen[k][1] = other[k][1] => chosen[k][2] < other[k][2]
      BY <3>4, <3>6, <3>7 DEF StateBefore
    <3>10. cost = CostAlong(c)
      BY <1>3, <2>4, <2>10
    <3> HIDE DEF lower
    <3> QED
      BY <3>8, <3>9, <3>10 DEF k, D, other
  <2> QED
    BY <2>5, <2>8, <2>9, <2>10
<1> QED
  BY <1>6 DEF CheapestPath, chosen, cost

-----------------------------------------------------------------------------
(* The notes that can be placed, in the order of their onsets.             *)
LEMMA NoteAt ==
  ASSUME NEW notes \in Seq(NoteEvents), NEW n \in DOMAIN notes
  PROVE  /\ n \in Nat /\ notes[n] \in NoteEvents
         /\ notes[n].onset \in Int /\ notes[n].midi \in Int
<1>1. DOMAIN notes = 1..Len(notes) /\ Len(notes) \in Nat
  OBVIOUS
<1>2. notes[n] \in NoteEvents
  BY <1>1, ElementOfSeq
<1> QED
  BY <1>1, <1>2, NoteIs

Ahead(notes, i, j) ==
  \/ notes[i].onset < notes[j].onset
  \/ /\ notes[i].onset = notes[j].onset
     /\ \/ notes[i].midi < notes[j].midi
        \/ notes[i].midi = notes[j].midi /\ i < j

Mounting(notes) ==
  /\ notes \in Seq(NoteEvents)
  /\ \A i, j \in 1..Len(notes) : i <= j => notes[i].onset <= notes[j].onset

LEMMA SortedIs ==
  ASSUME NEW notes \in Seq(NoteEvents), NEW places \in SUBSET (DOMAIN notes)
  PROVE  /\ Mounting(Sorted(notes, places))
         /\ Len(Sorted(notes, places)) = Cardinality(places)
         /\ Cardinality(places) \in Nat
         /\ \A k \in 1..Len(Sorted(notes, places)) :
              \E n \in places : Sorted(notes, places)[k] = notes[n]
<1> DEFINE before == [j \in places |-> {i \in places : Ahead(notes, i, j)}]
           order == InOrder(before)
           sorted == Sorted(notes, places)
<1>1. sorted = [k \in DOMAIN order |-> notes[order[k]]]
  BY DEF Sorted, Ahead
<1>2. \A i \in places : /\ i \in Nat /\ notes[i] \in NoteEvents
                        /\ notes[i].onset \in Int /\ notes[i].midi \in Int
  BY NoteAt
<1>3. IsFiniteSet(places)
  <2>1. PICK m \in Nat : DOMAIN notes = 1..m
    OBVIOUS
  <2>2. IsFiniteSet(1..m)
    BY FS_Interval
  <2> QED
    BY <2>1, <2>2, FS_Subset
<1>4. Sorts(before, places)
  <2>1. before \in [places -> SUBSET places]
    OBVIOUS
  <2>2. \A x \in places : ~Ahead(notes, x, x)
    BY <1>2 DEF Ahead
  <2>3. \A x, y, z \in places : Ahead(notes, x, y) /\ Ahead(notes, y, z) => Ahead(notes, x, z)
    BY <1>2 DEF Ahead
  <2>4. \A x, y \in places : x = y \/ Ahead(notes, x, y) \/ Ahead(notes, y, x)
    BY <1>2 DEF Ahead
  <2>5. \A x, y \in places : x \in before[y] <=> Ahead(notes, x, y)
    OBVIOUS
  <2> HIDE DEF before
  <2>6. \A x, y \in places : x \in before[y] => before[x] \subseteq before[y]
    BY <2>1, <2>3, <2>5
  <2> QED
    BY <2>1, <2>2, <2>4, <2>5, <2>6 DEF Sorts
<1>5. \A x, y \in places : x \in before[y] => Ahead(notes, x, y)
  OBVIOUS
<1> HIDE DEF before
<1>6. SortedOut(order, before, places)
  BY <1>3, <1>4, InOrderIs
<1> HIDE DEF order
<1> DEFINE n == Cardinality(places)
<1>7. /\ DOMAIN order = 1..n /\ n \in Nat
      /\ \A k \in 1..n : order[k] \in places
      /\ \A i, j \in 1..n : i < j => Ahead(notes, order[i], order[j])
  BY <1>5, <1>6 DEF SortedOut
<1> HIDE DEF n
<1>8. sorted = [k \in 1..n |-> notes[order[k]]]
  BY <1>1, <1>7
<1> HIDE DEF sorted
<1>9. \A k \in 1..n : notes[order[k]] \in NoteEvents
  BY <1>2, <1>7
<1>10. sorted \in Seq(NoteEvents) /\ Len(sorted) = n
  BY <1>7, <1>8, <1>9
<1>11. \A i, j \in 1..n : i <= j => notes[order[i]].onset <= notes[order[j]].onset
  <2> SUFFICES ASSUME NEW i \in 1..n, NEW j \in 1..n, i <= j
               PROVE  notes[order[i]].onset <= notes[order[j]].onset
    OBVIOUS
  <2>1. notes[order[i]].onset \in Int /\ notes[order[j]].onset \in Int
    BY <1>2, <1>7
  <2>2. i = j \/ Ahead(notes, order[i], order[j])
    BY <1>7
  <2> QED
    BY <2>1, <2>2 DEF Ahead
<1>12. Mounting(sorted)
  BY <1>8, <1>10, <1>11 DEF Mounting
<1>13. \A k \in 1..n : \E m \in places : sorted[k] = notes[m]
  BY <1>7, <1>8
<1> QED
  BY <1>7, <1>10, <1>12, <1>13 DEF sorted, n

-----------------------------------------------------------------------------
(* A voicing's places, and what becomes of them.                           *)
Pairs(g) == UNION {{v} \X DOMAIN g[v] : v \in DOMAIN g}

LEMMA PairIn ==
  ASSUME NEW g
  PROVE  /\ \A v \in DOMAIN g : \A i \in DOMAIN g[v] : <<v, i>> \in Pairs(g)
         /\ \A n \in Pairs(g) : \E v \in DOMAIN g : \E i \in DOMAIN g[v] : n = <<v, i>>
<1>1. ASSUME NEW v \in DOMAIN g, NEW i \in DOMAIN g[v] PROVE <<v, i>> \in Pairs(g)
  BY DEF Pairs
<1>2. ASSUME NEW n \in Pairs(g)
      PROVE  \E v \in DOMAIN g : \E i \in DOMAIN g[v] : n = <<v, i>>
  <2>1. PICK v \in DOMAIN g : n \in {v} \X DOMAIN g[v]
    BY DEF Pairs
  <2> QED
    BY <2>1
<1> QED
  BY <1>1, <1>2

LEMMA PairIs ==
  ASSUME NEW g, NEW v, NEW i
  PROVE  <<v, i>> \in Pairs(g) <=> v \in DOMAIN g /\ i \in DOMAIN g[v]
<1>1. CASE <<v, i>> \in Pairs(g)
  <2>1. PICK w \in DOMAIN g : \E j \in DOMAIN g[w] : <<v, i>> = <<w, j>>
    BY <1>1, PairIn
  <2>2. v = w /\ i \in DOMAIN g[w]
    BY <2>1
  <2> QED
    BY <1>1, <2>2
<1>2. CASE v \in DOMAIN g /\ i \in DOMAIN g[v]
  BY <1>2, PairIn
<1> QED
  BY <1>1, <1>2

(* One more note, at the end of its voicing.                               *)
LEMMA PairMore ==
  ASSUME NEW g, NEW h, NEW w, NEW i, IsFiniteSet(Pairs(g)),
         \A v, j : v \in DOMAIN h /\ j \in DOMAIN h[v]
                     <=> (v \in DOMAIN g /\ j \in DOMAIN g[v]) \/ (v = w /\ j = i),
         ~(w \in DOMAIN g /\ i \in DOMAIN g[w])
  PROVE  IsFiniteSet(Pairs(h)) /\ Cardinality(Pairs(h)) = Cardinality(Pairs(g)) + 1
<1>1. <<w, i>> \notin Pairs(g)
  BY PairIs
<1>2. Pairs(h) \subseteq Pairs(g) \cup {<<w, i>>}
  <2> SUFFICES ASSUME NEW n \in Pairs(h), n \notin Pairs(g) PROVE n = <<w, i>>
    OBVIOUS
  <2>1. PICK v \in DOMAIN h : \E j \in DOMAIN h[v] : n = <<v, j>>
    BY PairIn
  <2>2. PICK j \in DOMAIN h[v] : n = <<v, j>>
    BY <2>1
  <2>3. ~(v \in DOMAIN g /\ j \in DOMAIN g[v])
    BY <2>2, PairIs
  <2> QED
    BY <2>2, <2>3
<1>3. Pairs(g) \cup {<<w, i>>} \subseteq Pairs(h)
  <2>1. <<w, i>> \in Pairs(h)
    BY PairIs
  <2>2. ASSUME NEW n \in Pairs(g) PROVE n \in Pairs(h)
    <3>1. PICK v \in DOMAIN g : \E j \in DOMAIN g[v] : n = <<v, j>>
      BY PairIn
    <3>2. PICK j \in DOMAIN g[v] : n = <<v, j>>
      BY <3>1
    <3> QED
      BY <3>2, PairIs
  <2> QED
    BY <2>1, <2>2
<1>4. Pairs(h) = Pairs(g) \cup {<<w, i>>}
  BY <1>2, <1>3
<1> QED
  BY <1>1, <1>4, FS_AddElement

(* Sequences with one more at the end, or their last one changed.          *)
LEMMA AppendIs ==
  ASSUME NEW V, NEW s \in Seq(V), NEW e \in V
  PROVE  /\ Append(s, e) \in Seq(V) /\ Len(Append(s, e)) = Len(s) + 1
         /\ DOMAIN Append(s, e) = 1..(Len(s) + 1)
         /\ \A i \in 1..Len(s) : Append(s, e)[i] = s[i]
         /\ Append(s, e)[Len(s) + 1] = e
  OBVIOUS

LEMMA LastChanged ==
  ASSUME NEW V, NEW s \in Seq(V), Len(s) # 0, NEW e \in V
  PROVE  /\ Append(Front(s), e) \in Seq(V) /\ Len(Append(Front(s), e)) = Len(s)
         /\ DOMAIN Append(Front(s), e) = 1..Len(s)
         /\ \A i \in 1..Len(s) : i # Len(s) => Append(Front(s), e)[i] = s[i]
         /\ Append(Front(s), e)[Len(s)] = e
<1> DEFINE f == Front(s)
<1>1. f = SubSeq(s, 1, Len(s) - 1)
  BY DEF Front
<1>2. /\ f \in Seq(V) /\ Len(f) = Len(s) - 1
      /\ \A i \in 1..(Len(s) - 1) : f[i] = s[i]
  <2>1. PICK n \in Nat : n = Len(s) - 1
    OBVIOUS
  <2>2. \A i \in 1..n : s[i] \in V
    BY <2>1
  <2>3. /\ SubSeq(s, 1, n) \in Seq(V)
        /\ Len(SubSeq(s, 1, n)) = (IF 1 <= n THEN n - 1 + 1 ELSE 0)
        /\ \A i \in 1..(n - 1 + 1) : SubSeq(s, 1, n)[i] = s[1 + i - 1]
    BY <2>2, SubSeqProperties
  <2>4. f = SubSeq(s, 1, n)
    BY <1>1, <2>1
  <2> HIDE DEF f
  <2> QED
    BY <2>1, <2>3, <2>4
<1> HIDE DEF f
<1>3. /\ Append(f, e) \in Seq(V) /\ Len(Append(f, e)) = Len(f) + 1
      /\ DOMAIN Append(f, e) = 1..(Len(f) + 1)
      /\ \A i \in 1..Len(f) : Append(f, e)[i] = f[i]
      /\ Append(f, e)[Len(f) + 1] = e
  BY <1>2, AppendIs
<1> QED
  BY <1>2, <1>3 DEF f

-----------------------------------------------------------------------------
(* Grouping.                                                               *)
GroupStep(f, k, notes) ==
  IF k = 0 THEN <<>>
  ELSE IF k > 1 /\ Joins(notes[k], Last(f[k - 1]))
  THEN Append(Front(f[k - 1]), Append(Last(f[k - 1]), notes[k]))
  ELSE Append(f[k - 1], <<notes[k]>>)

IsGroups(f, n, notes) == f = [k \in 0..n |-> GroupStep(f, k, notes)]

Groups(n, notes) == CHOOSE f : IsGroups(f, n, notes)

LEMMA GroupsExist ==
  ASSUME NEW notes, NEW n \in Nat
  PROVE  \E f : IsGroups(f, n, notes)
<1> DEFINE T == {m \in Nat : \E f : IsGroups(f, m, notes)}
<1>1. 0 \in T
  <2> DEFINE f == [k \in 0..0 |-> GroupStep(<<>>, k, notes)]
  <2>1. f = [k \in 0..0 |-> GroupStep(f, k, notes)]
    <3>1. \A k \in 0..0 : k = 0
      OBVIOUS
    <3> QED
      BY <3>1 DEF GroupStep
  <2> HIDE DEF f
  <2> QED
    BY <2>1 DEF IsGroups
<1>2. ASSUME NEW m \in Nat, m \in T PROVE (m + 1) \in T
  <2>0. PICK f : IsGroups(f, m, notes)
    BY <1>2
  <2>1. f = [k \in 0..m |-> GroupStep(f, k, notes)]
    BY <2>0 DEF IsGroups
  <2> DEFINE g == [k \in 0..(m + 1) |-> GroupStep(f, k, notes)]
  <2>2. \A k \in 0..m : g[k] = f[k]
    <3>1. \A k \in 0..m : k \in 0..(m + 1)
      OBVIOUS
    <3> QED
      BY <2>1, <3>1
  <2>3. ASSUME NEW k \in 0..(m + 1)
        PROVE  GroupStep(f, k, notes) = GroupStep(g, k, notes)
    <3>1. k # 0 => k - 1 \in 0..m
      OBVIOUS
    <3>2. k # 0 => g[k - 1] = f[k - 1]
      BY <2>2, <3>1
    <3> HIDE DEF g
    <3> QED
      BY <3>2 DEF GroupStep
  <2>4. g = [k \in 0..(m + 1) |-> GroupStep(g, k, notes)]
    BY <2>3
  <2> HIDE DEF g
  <2> QED
    BY <2>4 DEF IsGroups
<1> HIDE DEF T
<1>3. n \in T
  BY <1>1, <1>2, Everywhere
<1> QED
  BY <1>3 DEF T

LEMMA GroupEquation ==
  ASSUME NEW notes, NEW n \in Nat, Len(notes) = n
  PROVE  /\ Grouped(notes) = Groups(n, notes)[n]
         /\ Groups(n, notes)[0] = <<>>
         /\ \A k \in 1..n : Groups(n, notes)[k] =
              IF k > 1 /\ Joins(notes[k], Last(Groups(n, notes)[k - 1]))
              THEN Append(Front(Groups(n, notes)[k - 1]),
                          Append(Last(Groups(n, notes)[k - 1]), notes[k]))
              ELSE Append(Groups(n, notes)[k - 1], <<notes[k]>>)
<1> DEFINE f == Groups(n, notes)
<1>0. Grouped(notes) = f[n]
  BY DEF Grouped, Groups, IsGroups, GroupStep
<1>1. IsGroups(f, n, notes)
  BY GroupsExist, Zenon DEF Groups
<1> HIDE DEF f
<1>2. f = [k \in 0..n |-> GroupStep(f, k, notes)]
  BY <1>1 DEF IsGroups
<1>3. f[0] = GroupStep(f, 0, notes)
  BY <1>2
<1>4. ASSUME NEW k \in 1..n PROVE f[k] = GroupStep(f, k, notes) /\ k # 0
  <2>1. k \in 0..n /\ k # 0
    OBVIOUS
  <2> QED
    BY <1>2, <2>1
<1> QED
  BY <1>0, <1>3, <1>4 DEF f, GroupStep

(* The first k notes, in voicings.                                         *)
Within(a, b) == b.onset - a.onset \in 0..Window

InVoicings(g, notes, k) ==
  /\ g \in Seq(Seq(NoteEvents))
  /\ k = 0 <=> Len(g) = 0
  /\ \A v \in 1..Len(g) :
       /\ Len(g[v]) # 0
       /\ \A i \in 1..Len(g[v]) : \E m \in 1..k : g[v][i] = notes[m]
       /\ \A i, j \in 1..Len(g[v]) : i < j => Within(g[v][i], g[v][j])
  /\ \A v, w \in 1..Len(g) : v < w =>
       \A j \in 1..Len(g[w]) : g[w][j].onset - g[v][1].onset > Window
  /\ IsFiniteSet(Pairs(g)) /\ Cardinality(Pairs(g)) = k

LEMMA VoicingAt ==
  ASSUME NEW g \in Seq(Seq(NoteEvents))
  PROVE  /\ DOMAIN g = 1..Len(g) /\ Len(g) \in Nat
         /\ \A v \in 1..Len(g) :
              /\ g[v] \in Seq(NoteEvents)
              /\ DOMAIN g[v] = 1..Len(g[v]) /\ Len(g[v]) \in Nat
              /\ \A i \in 1..Len(g[v]) : /\ g[v][i] \in NoteEvents
                                         /\ g[v][i].onset \in Int
<1>1. DOMAIN g = 1..Len(g) /\ Len(g) \in Nat
  OBVIOUS
<1>2. ASSUME NEW v \in 1..Len(g)
      PROVE  /\ g[v] \in Seq(NoteEvents)
             /\ DOMAIN g[v] = 1..Len(g[v]) /\ Len(g[v]) \in Nat
             /\ \A i \in 1..Len(g[v]) : /\ g[v][i] \in NoteEvents
                                        /\ g[v][i].onset \in Int
  <2>1. g[v] \in Seq(NoteEvents)
    BY ElementOfSeq
  <2> DEFINE s == g[v]
  <2>2. DOMAIN s = 1..Len(s) /\ Len(s) \in Nat
    BY <2>1
  <2>3. \A i \in DOMAIN s : s[i] \in NoteEvents /\ s[i].onset \in Int
    BY <2>1, NoteAt
  <2> HIDE DEF s
  <2> QED
    BY <2>1, <2>2, <2>3 DEF s
<1> QED
  BY <1>1, <1>2

(* A note joins the last voicing.                                          *)
LEMMA GroupJoins ==
  ASSUME NEW notes, Mounting(notes), NEW k \in 2..Len(notes), NEW g,
         InVoicings(g, notes, k - 1), Joins(notes[k], Last(g))
  PROVE  InVoicings(Append(Front(g), Append(Last(g), notes[k])), notes, k)
<1> DEFINE x == notes[k]
           w == Len(g)
           last == g[w]
           more == Append(last, x)
           h == Append(Front(g), more)
<1>1. /\ notes \in Seq(NoteEvents) /\ Len(notes) \in Nat /\ k \in Int
      /\ DOMAIN notes = 1..Len(notes) /\ k \in 1..Len(notes)
      /\ \A m \in 1..k : notes[m].onset <= x.onset
      /\ \A m \in 1..k : notes[m].onset \in Int
  <2>1. notes \in Seq(NoteEvents) /\ DOMAIN notes = 1..Len(notes) /\ Len(notes) \in Nat
    BY DEF Mounting
  <2>2. k \in 1..Len(notes) /\ \A m \in 1..k : m \in 1..Len(notes) /\ m <= k
    BY <2>1
  <2>3. \A m \in 1..k : notes[m].onset <= x.onset
    BY <2>2 DEF Mounting
  <2>4. \A m \in 1..k : notes[m].onset \in Int
    BY <2>1, <2>2, NoteAt
  <2> QED
    BY <2>1, <2>2, <2>3, <2>4
<1>2. x \in NoteEvents /\ x.onset \in Int
  BY <1>1, NoteAt
<1>3. /\ g \in Seq(Seq(NoteEvents)) /\ w \in Nat /\ w # 0 /\ Len(g) = w
      /\ Last(g) = last /\ last \in Seq(NoteEvents) /\ Len(last) \in Nat /\ Len(last) # 0
      /\ \A v \in 1..w : \A i \in 1..Len(g[v]) : g[v][i].onset \in Int
      /\ \A v \in 1..w : Len(g[v]) \in Nat
  BY <1>1, VoicingAt DEF InVoicings, Last
<1> HIDE DEF last
<1> DEFINE l == Len(last)
<1>l. Len(last) = l /\ l \in Nat /\ l # 0
  BY <1>3
<1>4. /\ more \in Seq(NoteEvents) /\ Len(more) = l + 1
      /\ \A i \in 1..l : more[i] = last[i]
      /\ more[l + 1] = x
  BY <1>2, <1>3, AppendIs
<1> HIDE DEF more, x, w, l
<1>5. /\ h \in Seq(Seq(NoteEvents)) /\ Len(h) = w /\ DOMAIN h = 1..w
      /\ \A v \in 1..w : v # w => h[v] = g[v]
      /\ h[w] = more
  <2>1. /\ h \in Seq(Seq(NoteEvents)) /\ Len(h) = Len(g) /\ DOMAIN h = 1..Len(g)
        /\ \A i \in 1..Len(g) : i # Len(g) => h[i] = g[i]
        /\ h[Len(g)] = more
    <3>1. PICK V : V = Seq(NoteEvents)
      OBVIOUS
    <3>2. g \in Seq(V) /\ more \in V /\ Len(g) # 0
      BY <1>3, <1>4, <3>1
    <3>3. /\ h \in Seq(V) /\ Len(h) = Len(g) /\ DOMAIN h = 1..Len(g)
          /\ \A i \in 1..Len(g) : i # Len(g) => h[i] = g[i]
          /\ h[Len(g)] = more
      BY <3>2, LastChanged
    <3> HIDE DEF h
    <3> QED
      BY <3>1, <3>3
  <2> HIDE DEF h
  <2> QED
    BY <1>3, <2>1
<1>h. h = Append(Front(g), Append(Last(g), notes[k]))
  BY <1>3 DEF more, x, w, last
<1> HIDE DEF h
<1>g. /\ \A v \in 1..w :
           /\ Len(g[v]) # 0
           /\ \A i \in 1..Len(g[v]) : \E m \in 1..(k - 1) : g[v][i] = notes[m]
           /\ \A i, j \in 1..Len(g[v]) : i < j => Within(g[v][i], g[v][j])
      /\ \A v, u \in 1..w : v < u =>
           \A j \in 1..Len(g[u]) : g[u][j].onset - g[v][1].onset > Window
  BY <1>3 DEF InVoicings
<1>w. /\ w \in 1..w /\ g[w] = last /\ 1 \in 1..l
      /\ \A i \in 1..l : \E m \in 1..(k - 1) : last[i] = notes[m]
      /\ \A i, j \in 1..l : i < j => Within(last[i], last[j])
  <2>1. w \in 1..w /\ g[w] = last /\ 1 \in 1..l
    BY <1>3, <1>l DEF last
  <2> QED
    BY <1>g, <1>l, <2>1
<1>6. \A i \in 1..l : /\ last[i].onset <= x.onset
                      /\ last[i].onset - last[1].onset \in 0..Window
  <2> SUFFICES ASSUME NEW i \in 1..l
               PROVE  /\ last[i].onset <= x.onset
                      /\ last[i].onset - last[1].onset \in 0..Window
    OBVIOUS
  <2>2. PICK m \in 1..(k - 1) : last[i] = notes[m]
    BY <1>w
  <2>3. m \in 1..k
    OBVIOUS
  <2>4. last[i].onset <= x.onset
    BY <1>1, <2>2, <2>3
  <2>5. CASE i = 1
    <3>1. Window \in Nat
      BY FretboardAssumption
    <3>2. last[1].onset \in Int
      BY <1>1, <2>2, <2>3, <2>5
    <3> QED
      BY <2>4, <2>5, <3>1, <3>2
  <2>6. CASE i # 1
    <3>1. 1 < i
      BY <1>l, <2>6
    <3>2. Within(last[1], last[i])
      BY <1>w, <3>1
    <3> QED
      BY <2>4, <3>2 DEF Within
  <2> QED
    BY <2>5, <2>6
<1>7. x.onset - last[1].onset <= Window
  BY <1>3 DEF Joins, x
<1>8. \A i \in 1..l : last[i].onset \in Int
  BY <1>3, <1>l DEF last
<1>9. ASSUME NEW i \in 1..(l + 1), NEW j \in 1..(l + 1), i < j
      PROVE  Within(more[i], more[j])
  <2>1. i \in 1..l /\ more[i] = last[i] /\ 1 \in 1..l
    BY <1>3, <1>l, <1>4, <1>9
  <2>2. CASE j = l + 1
    <3>1. more[j] = x
      BY <1>4, <2>2
    <3>2. x.onset - last[i].onset \in 0..Window
      <4>1. /\ last[i].onset \in Int /\ last[1].onset \in Int /\ x.onset \in Int
            /\ last[i].onset <= x.onset /\ last[i].onset >= last[1].onset
        BY <1>2, <1>6, <1>8, <2>1
      <4>2. Window \in Nat
        BY FretboardAssumption
      <4> QED
        BY <1>7, <4>1, <4>2
    <3> QED
      BY <2>1, <3>1, <3>2 DEF Within
  <2>3. CASE j # l + 1
    <3>1. j \in 1..l /\ more[j] = last[j]
      BY <1>3, <1>l, <1>4, <2>3
    <3>2. Within(last[i], last[j])
      BY <1>9, <1>w, <2>1, <3>1
    <3> QED
      BY <2>1, <3>1, <3>2
  <2> QED
    BY <2>2, <2>3
<1>10. ASSUME NEW i \in 1..(l + 1) PROVE \E m \in 1..k : more[i] = notes[m]
  <2>1. CASE i = l + 1
    BY <1>1, <1>4, <2>1 DEF x
  <2>2. CASE i # l + 1
    <3>1. i \in 1..l /\ more[i] = last[i]
      BY <1>l, <1>4, <2>2
    <3>2. PICK m \in 1..(k - 1) : last[i] = notes[m]
      BY <1>w, <3>1
    <3>3. m \in 1..k
      OBVIOUS
    <3> QED
      BY <3>1, <3>2, <3>3
  <2> QED
    BY <2>1, <2>2
<1>11. ASSUME NEW v \in 1..w
       PROVE  /\ Len(h[v]) # 0
              /\ \A i \in 1..Len(h[v]) : \E m \in 1..k : h[v][i] = notes[m]
              /\ \A i, j \in 1..Len(h[v]) : i < j => Within(h[v][i], h[v][j])
  <2>1. CASE v = w
    <3>1. h[v] = more /\ Len(h[v]) = l + 1
      BY <1>4, <1>5, <2>1
    <3>2. Len(h[v]) # 0
      BY <1>l, <3>1
    <3> QED
      BY <1>9, <1>10, <3>1, <3>2
  <2>2. CASE v # w
    <3>1. h[v] = g[v]
      BY <1>5, <2>2
    <3>2. \A m \in 1..(k - 1) : m \in 1..k
      OBVIOUS
    <3>3. /\ Len(g[v]) # 0
          /\ \A i \in 1..Len(g[v]) : \E m \in 1..(k - 1) : g[v][i] = notes[m]
          /\ \A i, j \in 1..Len(g[v]) : i < j => Within(g[v][i], g[v][j])
      BY <1>g
    <3>4. \A i \in 1..Len(g[v]) : \E m \in 1..k : g[v][i] = notes[m]
      BY <3>2, <3>3
    <3> QED
      BY <3>1, <3>3, <3>4
  <2> QED
    BY <2>1, <2>2
<1>12. ASSUME NEW v \in 1..w, NEW u \in 1..w, v < u, NEW j \in 1..Len(h[u])
       PROVE  h[u][j].onset - h[v][1].onset > Window
  <2>1. h[v] = g[v] /\ v # w
    BY <1>5, <1>12
  <2>2. CASE u # w \/ j # l + 1
    <3>1. h[u][j] = g[u][j] /\ j \in 1..Len(g[u])
      <4>1. CASE u # w
        BY <1>5, <4>1
      <4>2. CASE u = w
        <5>1. h[u] = more /\ j \in 1..(l + 1) /\ j # l + 1
          BY <1>4, <1>5, <1>12, <2>2, <4>2
        <5>2. j \in 1..l /\ more[j] = last[j] /\ g[u] = last
          BY <1>l, <1>4, <4>2, <5>1 DEF last
        <5> QED
          BY <1>l, <5>1, <5>2
      <4> QED
        BY <4>1, <4>2
    <3> QED
      BY <1>12, <1>g, <2>1, <3>1
  <2>3. CASE u = w /\ j = l + 1
    <3>1. h[u][j] = x
      BY <1>4, <1>5, <2>3
    <3>2. 1 \in 1..l /\ 1 \in 1..Len(g[v])
      <4>1. Len(g[v]) # 0 /\ Len(g[v]) \in Nat
        BY <1>3, <1>g
      <4> QED
        BY <1>w, <4>1
    <3>3. last[1].onset - g[v][1].onset > Window
      <4>1. 1 \in 1..Len(g[u]) /\ g[u] = last
        BY <1>l, <1>w, <2>3
      <4>2. g[u][1].onset - g[v][1].onset > Window
        BY <1>12, <1>g, <4>1
      <4> QED
        BY <4>1, <4>2
    <3>4. /\ last[1].onset \in Int /\ x.onset \in Int /\ last[1].onset <= x.onset
          /\ g[v][1].onset \in Int /\ Window \in Nat
      BY <1>2, <1>3, <1>6, <1>8, <3>2, FretboardAssumption
    <3> QED
      BY <2>1, <3>1, <3>3, <3>4
  <2> QED
    BY <2>2, <2>3
<1>13. IsFiniteSet(Pairs(h)) /\ Cardinality(Pairs(h)) = k
  <2>1. \A v \in 1..w : DOMAIN g[v] = 1..Len(g[v])
    BY <1>3, VoicingAt
  <2>2. DOMAIN g = 1..w
    BY <1>3
  <2>3. DOMAIN more = 1..(l + 1) /\ DOMAIN last = 1..l
    BY <1>3, <1>l, <1>4
  <2>4. \A v, j : v \in DOMAIN h /\ j \in DOMAIN h[v]
                    <=> (v \in DOMAIN g /\ j \in DOMAIN g[v]) \/ (v = w /\ j = l + 1)
    <3> SUFFICES ASSUME NEW v, NEW j
                 PROVE  v \in DOMAIN h /\ j \in DOMAIN h[v]
                          <=> (v \in DOMAIN g /\ j \in DOMAIN g[v]) \/ (v = w /\ j = l + 1)
      OBVIOUS
    <3>1. CASE v \in 1..w /\ v # w
      BY <1>5, <2>2, <3>1
    <3>2. CASE v = w
      <4>1. j \in DOMAIN more <=> j \in DOMAIN last \/ j = l + 1
        BY <1>l, <2>3
      <4>2. w \in DOMAIN h /\ w \in DOMAIN g
        BY <1>3, <1>5, <2>2
      <4> QED
        BY <1>5, <3>2, <4>1, <4>2 DEF last
    <3>3. CASE v \notin 1..w
      <4>1. v # w
        BY <1>3, <3>3
      <4> QED
        BY <1>5, <2>2, <3>3, <4>1
    <3> QED
      BY <3>1, <3>2, <3>3
  <2>5. ~(w \in DOMAIN g /\ l + 1 \in DOMAIN g[w])
    BY <1>l, <2>3 DEF last
  <2>6. IsFiniteSet(Pairs(g)) /\ Cardinality(Pairs(g)) = k - 1
    BY DEF InVoicings
  <2>7. IsFiniteSet(Pairs(h)) /\ Cardinality(Pairs(h)) = Cardinality(Pairs(g)) + 1
    BY <2>4, <2>5, <2>6, PairMore
  <2> QED
    BY <1>1, <2>6, <2>7
<1>14. k # 0 /\ Len(h) # 0
  BY <1>3, <1>5
<1>15. InVoicings(h, notes, k)
  BY <1>5, <1>11, <1>12, <1>13, <1>14 DEF InVoicings
<1> QED
  BY <1>15, <1>h

(* A note begins a voicing.                                                *)
LEMMA GroupBegins ==
  ASSUME NEW notes, Mounting(notes), NEW k \in 1..Len(notes), NEW g,
         InVoicings(g, notes, k - 1), k > 1 => ~Joins(notes[k], Last(g))
  PROVE  InVoicings(Append(g, <<notes[k]>>), notes, k)
<1> DEFINE x == notes[k]
           n == Len(g)
           w == n + 1
           one == <<x>>
           h == Append(g, one)
<1>1. /\ notes \in Seq(NoteEvents) /\ Len(notes) \in Nat /\ k \in Int
      /\ DOMAIN notes = 1..Len(notes) /\ k \in 1..Len(notes)
  BY DEF Mounting
<1>2. x \in NoteEvents /\ x.onset \in Int
  BY <1>1, NoteAt
<1>3. /\ g \in Seq(Seq(NoteEvents)) /\ n \in Nat /\ Len(g) = n /\ DOMAIN g = 1..n
      /\ \A v \in 1..n : \A i \in 1..Len(g[v]) : g[v][i].onset \in Int
      /\ \A v \in 1..n : Len(g[v]) \in Nat /\ DOMAIN g[v] = 1..Len(g[v])
  BY VoicingAt DEF InVoicings
<1>g. /\ k - 1 = 0 <=> n = 0
      /\ \A v \in 1..n :
           /\ Len(g[v]) # 0
           /\ \A i \in 1..Len(g[v]) : \E m \in 1..(k - 1) : g[v][i] = notes[m]
           /\ \A i, j \in 1..Len(g[v]) : i < j => Within(g[v][i], g[v][j])
      /\ \A v, u \in 1..n : v < u =>
           \A j \in 1..Len(g[u]) : g[u][j].onset - g[v][1].onset > Window
  BY <1>3 DEF InVoicings
<1>4. one \in Seq(NoteEvents) /\ Len(one) = 1 /\ DOMAIN one = 1..1 /\ one[1] = x
  BY <1>2
<1>5. /\ h \in Seq(Seq(NoteEvents)) /\ Len(h) = w /\ DOMAIN h = 1..w
      /\ \A v \in 1..n : h[v] = g[v]
      /\ h[w] = one
  <2>1. PICK V : V = Seq(NoteEvents)
    OBVIOUS
  <2>2. g \in Seq(V) /\ one \in V
    BY <1>3, <1>4, <2>1
  <2>3. /\ h \in Seq(V) /\ Len(h) = n + 1 /\ DOMAIN h = 1..(n + 1)
        /\ \A i \in 1..n : h[i] = g[i]
        /\ h[n + 1] = one
    BY <1>3, <2>2, AppendIs
  <2> HIDE DEF h
  <2> QED
    BY <2>1, <2>3
<1>h. h = Append(g, <<notes[k]>>)
  OBVIOUS
<1> HIDE DEF h, one, n
<1>6. \A v \in 1..w : v \in 1..n \/ v = w
  BY <1>3
<1>7. ASSUME NEW v \in 1..w
      PROVE  /\ Len(h[v]) # 0
             /\ \A i \in 1..Len(h[v]) : \E m \in 1..k : h[v][i] = notes[m]
             /\ \A i, j \in 1..Len(h[v]) : i < j => Within(h[v][i], h[v][j])
  <2>1. CASE v = w
    <3>1. h[v] = one /\ k \in 1..k
      BY <1>1, <1>5, <2>1
    <3>2. \A i \in 1..1 : i = 1
      OBVIOUS
    <3>3. ~(1 < 1)
      OBVIOUS
    <3>4. Len(h[v]) = 1
      BY <1>4, <3>1
    <3>5. h[v][1] = notes[k]
      BY <1>4, <3>1
    <3>6. \A i \in 1..Len(h[v]) : \E m \in 1..k : h[v][i] = notes[m]
      BY <3>1, <3>2, <3>4, <3>5
    <3>7. \A i, j \in 1..Len(h[v]) : i < j => Within(h[v][i], h[v][j])
      BY <3>2, <3>3, <3>4
    <3> QED
      BY <3>4, <3>6, <3>7
  <2>2. CASE v \in 1..n
    <3>1. h[v] = g[v]
      BY <1>5, <2>2
    <3>2. \A m \in 1..(k - 1) : m \in 1..k
      OBVIOUS
    <3> QED
      BY <1>g, <2>2, <3>1, <3>2
  <2> QED
    BY <1>6, <2>1, <2>2
<1>8. ASSUME NEW v \in 1..w, NEW u \in 1..w, v < u, NEW j \in 1..Len(h[u])
      PROVE  h[u][j].onset - h[v][1].onset > Window
  <2>0. v \in 1..n
    BY <1>3, <1>8
  <2>1. v \in 1..n /\ h[v] = g[v]
    BY <1>5, <2>0
  <2>2. CASE u \in 1..n
    <3>1. h[u] = g[u]
      BY <1>5, <2>2
    <3> QED
      BY <1>8, <1>g, <2>1, <2>2, <3>1
  <2>3. CASE u = w
    <3>1. h[u] = one /\ j = 1
      <4>1. h[u] = one
        BY <1>5, <2>3
      <4>2. j \in 1..1
        BY <1>4, <4>1
      <4> QED
        BY <4>1, <4>2
    <3>2. h[u][j] = x
      BY <1>4, <3>1
    <3>3. k > 1 /\ n \in 1..n /\ n # 0
      BY <1>1, <1>3, <1>g, <2>1
    <3> DEFINE last == g[n]
    <3>4. Last(g) = last
      BY <1>3 DEF Last
    <3>5. ~(x.onset - last[1].onset <= Window)
      BY <3>3, <3>4 DEF Joins
    <3>6. 1 \in 1..Len(g[n]) /\ 1 \in 1..Len(g[v])
      BY <1>3, <1>g, <2>1, <3>3
    <3>7. /\ last[1].onset \in Int /\ g[v][1].onset \in Int
          /\ x.onset \in Int /\ Window \in Nat
      BY <1>2, <1>3, <2>1, <3>3, <3>6, FretboardAssumption
    <3>8. v = n \/ last[1].onset - g[v][1].onset > Window
      <4>1. v = n \/ v < n
        BY <1>3, <2>1
      <4> QED
        BY <1>g, <2>1, <3>3, <3>6, <4>1
    <3>9. v = n => g[v][1].onset = last[1].onset
      OBVIOUS
    <3> HIDE DEF last
    <3>10. x.onset - g[v][1].onset > Window
      <4> HIDE DEF x
      <4> QED
        BY <3>5, <3>7, <3>8, <3>9
    <3> QED
      BY <2>1, <3>2, <3>10
  <2> QED
    BY <1>6, <2>2, <2>3
<1>9. IsFiniteSet(Pairs(h)) /\ Cardinality(Pairs(h)) = k
  <2>1. \A v, j : v \in DOMAIN h /\ j \in DOMAIN h[v]
                    <=> (v \in DOMAIN g /\ j \in DOMAIN g[v]) \/ (v = w /\ j = 1)
    <3> SUFFICES ASSUME NEW v, NEW j
                 PROVE  v \in DOMAIN h /\ j \in DOMAIN h[v]
                          <=> (v \in DOMAIN g /\ j \in DOMAIN g[v]) \/ (v = w /\ j = 1)
      OBVIOUS
    <3>0. w \notin 1..n /\ w \in 1..w /\ 1..n \subseteq 1..w
      BY <1>3
    <3>1. CASE v \in 1..n
      BY <1>3, <1>5, <3>0, <3>1
    <3>2. CASE v = w
      <4>1. j \in DOMAIN one <=> j = 1
        BY <1>4
      <4> QED
        BY <1>3, <1>5, <3>0, <3>2, <4>1
    <3>3. CASE v \notin 1..n /\ v # w
      BY <1>3, <1>5, <1>6, <3>3
    <3> QED
      BY <3>1, <3>2, <3>3
  <2>2. ~(w \in DOMAIN g /\ 1 \in DOMAIN g[w])
    BY <1>3
  <2>3. IsFiniteSet(Pairs(g)) /\ Cardinality(Pairs(g)) = k - 1
    BY DEF InVoicings
  <2>4. IsFiniteSet(Pairs(h)) /\ Cardinality(Pairs(h)) = Cardinality(Pairs(g)) + 1
    BY <2>1, <2>2, <2>3, PairMore
  <2> QED
    BY <1>1, <2>3, <2>4
<1>10. k # 0 /\ Len(h) # 0
  BY <1>3, <1>5
<1>11. InVoicings(h, notes, k)
  BY <1>5, <1>7, <1>8, <1>9, <1>10 DEF InVoicings
<1> QED
  BY <1>11, <1>h

LEMMA GroupedIs ==
  ASSUME NEW notes, Mounting(notes)
  PROVE  InVoicings(Grouped(notes), notes, Len(notes))
<1>1. PICK n \in Nat : n = Len(notes)
  BY DEF Mounting
<1> DEFINE f == Groups(n, notes)
           T == {k \in Nat : k <= n => InVoicings(f[k], notes, k)}
<1>2. /\ Grouped(notes) = f[n]
      /\ f[0] = <<>>
      /\ \A k \in 1..n : f[k] =
           IF k > 1 /\ Joins(notes[k], Last(f[k - 1]))
           THEN Append(Front(f[k - 1]), Append(Last(f[k - 1]), notes[k]))
           ELSE Append(f[k - 1], <<notes[k]>>)
  BY <1>1, GroupEquation
<1> HIDE DEF f
<1>3. 0 \in T
  <2>1. /\ <<>> \in Seq(Seq(NoteEvents)) /\ Len(<<>>) = 0 /\ DOMAIN <<>> = {}
        /\ 1..0 = {}
    OBVIOUS
  <2>2. Pairs(<<>>) = {}
    <3>1. \A p \in Pairs(<<>>) : FALSE
      BY <2>1, PairIn
    <3> QED
      BY <3>1
  <2>3. IsFiniteSet(Pairs(<<>>)) /\ Cardinality(Pairs(<<>>)) = 0
    BY <2>2, FS_EmptySet
  <2>4. InVoicings(<<>>, notes, 0)
    BY <2>1, <2>3 DEF InVoicings
  <2> QED
    BY <1>2, <2>4
<1>4. ASSUME NEW m \in Nat, m \in T PROVE (m + 1) \in T
  <2> SUFFICES ASSUME m + 1 <= n PROVE InVoicings(f[m + 1], notes, m + 1)
    OBVIOUS
  <2>1. PICK k \in 1..n : k = m + 1 /\ k - 1 = m
    OBVIOUS
  <2>2. InVoicings(f[k - 1], notes, k - 1)
    BY <1>4, <2>1
  <2>3. CASE k > 1 /\ Joins(notes[k], Last(f[k - 1]))
    <3>1. k \in 2..Len(notes)
      BY <1>1, <2>3
    <3>2. f[k] = Append(Front(f[k - 1]), Append(Last(f[k - 1]), notes[k]))
      BY <1>2, <2>3
    <3> QED
      BY <2>1, <2>2, <2>3, <3>1, <3>2, GroupJoins
  <2>4. CASE ~(k > 1 /\ Joins(notes[k], Last(f[k - 1])))
    <3>1. k \in 1..Len(notes)
      BY <1>1
    <3>2. f[k] = Append(f[k - 1], <<notes[k]>>)
      BY <1>2, <2>4
    <3> QED
      BY <2>1, <2>2, <2>4, <3>1, <3>2, GroupBegins
  <2> QED
    BY <2>3, <2>4
<1> HIDE DEF T
<1>5. n \in T
  BY <1>3, <1>4, Everywhere
<1> QED
  BY <1>1, <1>2, <1>5 DEF T

-----------------------------------------------------------------------------
(* A voicing that loses a note.                                            *)
LEMMA RemoveAtIs ==
  ASSUME NEW V, NEW s \in Seq(V), NEW i \in 1..Len(s)
  PROVE  /\ RemoveAt(s, i) \in Seq(V) /\ Len(RemoveAt(s, i)) = Len(s) - 1
         /\ \A j \in 1..(Len(s) - 1) :
              RemoveAt(s, i)[j] = IF j < i THEN s[j] ELSE s[j + 1]
<1>1. PICK n \in Nat : n = Len(s) /\ i \in 1..n /\ \A j \in 1..n : s[j] \in V
  <2>1. \A j \in 1..Len(s) : s[j] \in V
    BY ElementOfSeq
  <2> QED
    BY <2>1
<1> DEFINE a == SubSeq(s, 1, i - 1)
           b == SubSeq(s, i + 1, n)
           r == a \o b
<1>2. PICK p \in Int : p = i - 1
  BY <1>1
<1>3. PICK q \in Int : q = i + 1
  BY <1>1
<1>4. RemoveAt(s, i) = r
  BY <1>1 DEF RemoveAt
<1>5. /\ a \in Seq(V) /\ Len(a) = i - 1
      /\ \A j \in 1..(i - 1) : a[j] = s[j]
  <2>1. \A j \in 1..p : s[j] \in V
    BY <1>1, <1>2
  <2>2. /\ SubSeq(s, 1, p) \in Seq(V)
        /\ Len(SubSeq(s, 1, p)) = (IF 1 <= p THEN p - 1 + 1 ELSE 0)
        /\ \A j \in 1..(p - 1 + 1) : SubSeq(s, 1, p)[j] = s[1 + j - 1]
    BY <2>1, SubSeqProperties
  <2>3. a = SubSeq(s, 1, p)
    BY <1>2
  <2> HIDE DEF a
  <2> QED
    BY <1>1, <1>2, <2>2, <2>3
<1>6. /\ b \in Seq(V) /\ Len(b) = n - i
      /\ \A j \in 1..(n - i) : b[j] = s[i + j]
  <2>1. \A j \in q..n : s[j] \in V
    BY <1>1, <1>3
  <2>2. /\ SubSeq(s, q, n) \in Seq(V)
        /\ Len(SubSeq(s, q, n)) = (IF q <= n THEN n - q + 1 ELSE 0)
        /\ \A j \in 1..(n - q + 1) : SubSeq(s, q, n)[j] = s[q + j - 1]
    BY <1>1, <2>1, SubSeqProperties
  <2>3. b = SubSeq(s, q, n)
    BY <1>3
  <2> HIDE DEF b
  <2> QED
    BY <1>1, <1>3, <2>2, <2>3
<1> HIDE DEF a, b
<1>7. /\ r \in Seq(V) /\ Len(r) = Len(a) + Len(b)
      /\ \A j \in 1..(Len(a) + Len(b)) :
           r[j] = IF j <= Len(a) THEN a[j] ELSE b[j - Len(a)]
  BY <1>5, <1>6, ConcatProperties
<1> HIDE DEF r
<1>8. Len(r) = n - 1
  BY <1>1, <1>5, <1>6, <1>7
<1>a. \A j \in 1..(n - 1) : r[j] = IF j <= i - 1 THEN a[j] ELSE b[j - (i - 1)]
  <2>1. Len(a) + Len(b) = n - 1
    BY <1>1, <1>5, <1>6
  <2>2. \A j \in 1..(n - 1) : r[j] = IF j <= Len(a) THEN a[j] ELSE b[j - Len(a)]
    BY <1>7, <2>1
  <2> QED
    BY <1>5, <2>2
<1>9. ASSUME NEW j \in 1..(n - 1) PROVE r[j] = IF j < i THEN s[j] ELSE s[j + 1]
  <2>1. CASE j < i
    <3>1. r[j] = a[j]
      BY <1>1, <1>a, <2>1
    <3> QED
      BY <1>1, <1>5, <2>1, <3>1
  <2>2. CASE ~(j < i)
    <3>1. r[j] = b[j - (i - 1)]
      BY <1>1, <1>a, <2>2
    <3>2. j - (i - 1) \in 1..(n - i) /\ i + (j - (i - 1)) = j + 1
      BY <1>1, <2>2
    <3> QED
      BY <1>6, <2>2, <3>1, <3>2
  <2> QED
    BY <2>1, <2>2
<1> QED
  BY <1>1, <1>4, <1>7, <1>8, <1>9

LEMMA WeakestIn ==
  ASSUME NEW voicing \in Seq(NoteEvents), Len(voicing) # 0
  PROVE  Weakest(voicing) \in 1..Len(voicing)
<1>1. PICK n \in Nat \ {0} : n = Len(voicing) /\ DOMAIN voicing = 1..n
  OBVIOUS
<1>2. \A i \in 1..n : voicing[i].confidence \in Int
  <2>1. \A i \in 1..n : voicing[i] \in NoteEvents
    BY <1>1, ElementOfSeq
  <2> QED
    BY <2>1, NoteIs
<1> DEFINE f == [i \in 1..n |-> voicing[i].confidence]
           C == {f[i] : i \in 1..n}
<1>3. IsFiniteSet(C)
  <2>1. IsFiniteSet(1..n)
    BY FS_Interval
  <2> DEFINE D == 1..n
  <2>2. C = {f[i] : i \in D}
    OBVIOUS
  <2> HIDE DEF C, f, D
  <2>3. IsFiniteSet(D)
    BY <2>1 DEF D
  <2> QED
    BY <2>2, <2>3, ImageFinite
<1>4. C \subseteq Int /\ C # {}
  BY <1>1, <1>2
<1>5. PICK m \in C : \A x \in C : m <= x
  <2> HIDE DEF C
  <2> QED
    BY <1>3, <1>4, FiniteLeast
<1> DEFINE S == {i \in 1..n : voicing[i].confidence = m}
<1>6. S # {} /\ S \in SUBSET Int /\ (\A i \in S : i <= n) /\ n \in Int
  BY <1>5
<1>7. PICK i \in S : \A j \in S : j <= i
  <2> HIDE DEF S
  <2> QED
    BY <1>6, GreatestOf
<1>8. \E e \in DOMAIN voicing : \A j \in DOMAIN voicing :
        \/ voicing[e].confidence < voicing[j].confidence
        \/ voicing[e].confidence = voicing[j].confidence /\ j <= e
  <2>1. i \in 1..n /\ voicing[i].confidence = m /\ m \in Int
    BY <1>4
  <2>2. ASSUME NEW j \in 1..n
        PROVE  \/ voicing[i].confidence < voicing[j].confidence
               \/ voicing[i].confidence = voicing[j].confidence /\ j <= i
    <3>1. m <= voicing[j].confidence /\ voicing[j].confidence \in Int
      BY <1>2, <1>5
    <3>2. voicing[j].confidence = m => j <= i
      BY <1>7
    <3> QED
      BY <2>1, <3>1, <3>2
  <2> QED
    BY <1>1, <2>1, <2>2
<1>9. Weakest(voicing) \in DOMAIN voicing
  BY <1>8, Zenon DEF Weakest
<1> QED
  BY <1>1, <1>9

(* A note alone, if it can be placed, can be played.                       *)
LEMMA AlonePlayable ==
  ASSUME NEW voicing \in Seq(NoteEvents), Len(voicing) = 1,
         Candidates(voicing[1]) # {}
  PROVE  Playable(voicing) # {}
<1>1. DOMAIN voicing = {1}
  OBVIOUS
<1>2. PICK s \in Candidates(voicing[1]) : s \in Strings
  BY CandidateIs
<1> DEFINE shape == [i \in {1} |-> s]
           frets == Frets(voicing, shape)
           fret == voicing[1].midi - Tuning[s]
<1>3. shape \in Shapes(voicing)
  <2>1. shape \in [DOMAIN voicing -> Strings]
    BY <1>1, <1>2
  <2>2. IsInjective(shape)
    BY DEF IsInjective
  <2>3. \A i \in DOMAIN voicing : shape[i] \in Candidates(voicing[i])
    BY <1>1
  <2> HIDE DEF shape
  <2> QED
    BY <2>1, <2>2, <2>3 DEF Shapes
<1>4. frets = [i \in {1} |-> fret]
  BY DEF Frets
<1>5. fret \in 0..costs.max_fret /\ fret \in Nat
  <2>1. fret \in 0..costs.max_fret
    BY CandidateIs
  <2> HIDE DEF fret
  <2> QED
    BY <2>1, CostsAre
<1> HIDE DEF frets, fret
<1>6. Low(frets) = High(frets) /\ Low(frets) \in Nat /\ ~(fret > Low(frets))
  <2> DEFINE fretted == Range(frets) \ {0}
  <2>0. Range(frets) = {fret}
    BY <1>4 DEF Range
  <2>1. CASE fret = 0
    <3>1. fretted = {}
      BY <2>0, <2>1
    <3> QED
      BY <2>1, <3>1 DEF Low, High, Nowhere
  <2>2. CASE fret # 0
    <3>1. fretted = {fret}
      BY <2>0, <2>2
    <3>2. Min({fret}) \in {fret}
      <4>1. {fret} \subseteq Nat /\ {fret} # {}
        BY <1>5
      <4> QED
        BY <4>1, LeastIs
    <3>3. Max({fret}) \in {fret}
      <4>1. {fret} \in SUBSET Int /\ {fret} # {} /\ fret \in Int
            /\ \A x \in {fret} : x <= fret
        BY <1>5
      <4> QED
        BY <4>1, GreatestIs
    <3>4. Low(frets) = Min({fret}) /\ High(frets) = Max({fret})
      BY <3>1 DEF Low, High
    <3> QED
      BY <1>5, <3>2, <3>3, <3>4
  <2> QED
    BY <2>1, <2>2
<1>7. Holdable(frets)
  <2>1. {i \in DOMAIN frets : frets[i] > Low(frets)} = {}
    BY <1>4, <1>6
  <2>2. Cardinality({i \in DOMAIN frets : frets[i] > Low(frets)}) = 0
    BY <2>1, FS_EmptySet
  <2>3. High(frets) - Low(frets) <= costs.max_span
    BY <1>6, CostsAre
  <2> QED
    BY <2>2, <2>3 DEF Holdable, FINGERS_BEYOND_BARRE
<1> QED
  BY <1>3, <1>7 DEF Playable, frets

(* The voicings: how their notes lie, and that none is lost but the d      *)
(* counted.                                                                *)
Voiced(g, d, notes) ==
  /\ g \in Seq(Seq(NoteEvents)) /\ d \in Nat
  /\ \A v \in 1..Len(g) :
       /\ Len(g[v]) # 0
       /\ \A i \in 1..Len(g[v]) : \E n \in Placeable(notes) : g[v][i] = notes[n]
       /\ \A i, j \in 1..Len(g[v]) : i < j => Within(g[v][i], g[v][j])
  /\ \A v, w \in 1..Len(g) : v < w =>
       /\ \A i \in 1..Len(g[v]), j \in 1..Len(g[w]) : g[v][i].onset < g[w][j].onset
       /\ d = 0 => g[w][1].onset - g[v][1].onset > Window
  /\ IsFiniteSet(Pairs(g)) /\ Cardinality(Pairs(g)) + d = Cardinality(Placeable(notes))

(* Grouping gives such voicings.                                           *)
LEMMA GroupVoiced ==
  ASSUME song \in Seq(NoteEvents)
  PROVE  Voiced(Grouped(Sorted(song, Placeable(song))), 0, song)
<1> DEFINE places == Placeable(song)
           notes == Sorted(song, places)
           g == Grouped(notes)
           n == Len(notes)
<1>1. places \in SUBSET (DOMAIN song)
  BY DEF Placeable
<1>2. /\ Mounting(notes) /\ n = Cardinality(places) /\ n \in Nat
      /\ \A k \in 1..n : \E m \in places : notes[k] = song[m]
  BY <1>1, SortedIs
<1> HIDE DEF places, notes, n
<1>3. InVoicings(g, notes, n)
  BY <1>2, GroupedIs DEF n
<1> HIDE DEF g
<1>4. /\ g \in Seq(Seq(NoteEvents))
      /\ \A v \in 1..Len(g) :
           /\ Len(g[v]) # 0
           /\ \A i \in 1..Len(g[v]) : \E m \in 1..n : g[v][i] = notes[m]
           /\ \A i, j \in 1..Len(g[v]) : i < j => Within(g[v][i], g[v][j])
      /\ \A v, w \in 1..Len(g) : v < w =>
           \A j \in 1..Len(g[w]) : g[w][j].onset - g[v][1].onset > Window
      /\ IsFiniteSet(Pairs(g)) /\ Cardinality(Pairs(g)) = n
  BY <1>3 DEF InVoicings
<1>5. \A v \in 1..Len(g) :
        /\ Len(g[v]) \in Nat
        /\ \A i \in 1..Len(g[v]) : g[v][i].onset \in Int
  BY <1>4, VoicingAt
<1>6. ASSUME NEW v \in 1..Len(g), NEW w \in 1..Len(g), v < w
      PROVE  /\ \A i \in 1..Len(g[v]), j \in 1..Len(g[w]) : g[v][i].onset < g[w][j].onset
             /\ g[w][1].onset - g[v][1].onset > Window
  <2>1. 1 \in 1..Len(g[v]) /\ 1 \in 1..Len(g[w])
    BY <1>4, <1>5
  <2>2. ASSUME NEW i \in 1..Len(g[v]), NEW j \in 1..Len(g[w])
        PROVE  g[v][i].onset < g[w][j].onset
    <3>1. g[w][j].onset - g[v][1].onset > Window
      BY <1>4, <1>6
    <3>2. /\ g[w][j].onset \in Int /\ g[v][1].onset \in Int /\ g[v][i].onset \in Int
          /\ Window \in Nat
      BY <1>5, <2>1, FretboardAssumption
    <3>3. i = 1 \/ Within(g[v][1], g[v][i])
      <4>1. i = 1 \/ 1 < i
        OBVIOUS
      <4>2. 1 < i => Within(g[v][1], g[v][i])
        <5>1. \A x, y \in 1..Len(g[v]) : x < y => Within(g[v][x], g[v][y])
          BY <1>4
        <5> QED
          BY <2>1, <5>1
      <4> QED
        BY <4>1, <4>2
    <3> DEFINE a == g[v][1].onset
               b == g[v][i].onset
               c == g[w][j].onset
    <3>4. a \in Int /\ b \in Int /\ c \in Int /\ Window \in Nat /\ c - a > Window
      BY <3>1, <3>2
    <3>5. b = a \/ b - a \in 0..Window
      BY <3>3 DEF Within
    <3> HIDE DEF a, b, c
    <3>6. b < c
      BY <3>4, <3>5
    <3> QED
      BY <3>6 DEF b, c
  <2>3. g[w][1].onset - g[v][1].onset > Window
    BY <1>4, <1>6, <2>1
  <2> QED
    BY <2>2, <2>3
<1>7. ASSUME NEW v \in 1..Len(g), NEW i \in 1..Len(g[v])
      PROVE  \E m \in places : g[v][i] = song[m]
  <2>1. PICK k \in 1..n : g[v][i] = notes[k]
    BY <1>4
  <2>2. PICK m \in places : notes[k] = song[m]
    BY <1>2
  <2> QED
    BY <2>1, <2>2
<1>8. Cardinality(Pairs(g)) + 0 = Cardinality(places)
  BY <1>2, <1>4
<1>9. Voiced(g, 0, song)
  BY <1>4, <1>6, <1>7, <1>8 DEF Voiced, places
<1> QED
  BY <1>9 DEF g, notes, places

(* A voicing no hand can play loses a note, and not its last.              *)
LEMMA DropVoiced ==
  ASSUME NEW g, NEW d, Voiced(g, d, song), NEW k \in 1..Len(g), Playable(g[k]) = {},
         song \in Seq(NoteEvents)
  PROVE  Voiced([g EXCEPT ![k] = RemoveAt(@, Weakest(@))], d + 1, song)
<1> DEFINE s == g[k]
           e == Weakest(s)
           r == RemoveAt(s, e)
           h == [g EXCEPT ![k] = RemoveAt(@, Weakest(@))]
           l == Len(s)
           w == Len(g)
           from(v, j) == IF v = k /\ ~(j < e) THEN j + 1 ELSE j
<1>1. /\ g \in Seq(Seq(NoteEvents)) /\ d \in Nat
      /\ \A v \in 1..w :
           /\ Len(g[v]) # 0
           /\ \A i \in 1..Len(g[v]) : \E n \in Placeable(song) : g[v][i] = song[n]
           /\ \A i, j \in 1..Len(g[v]) : i < j => Within(g[v][i], g[v][j])
      /\ \A v, u \in 1..w : v < u =>
           \A i \in 1..Len(g[v]), j \in 1..Len(g[u]) : g[v][i].onset < g[u][j].onset
      /\ IsFiniteSet(Pairs(g)) /\ Cardinality(Pairs(g)) + d = Cardinality(Placeable(song))
  BY DEF Voiced
<1>2. /\ w \in Nat /\ DOMAIN g = 1..w /\ w = Len(g)
      /\ s \in Seq(NoteEvents) /\ l \in Nat /\ l # 0 /\ l = Len(s)
      /\ \A v \in 1..w : g[v] \in Seq(NoteEvents) /\ DOMAIN g[v] = 1..Len(g[v])
                         /\ Len(g[v]) \in Nat
  BY <1>1, VoicingAt
<1>3. l # 1
  <2> SUFFICES ASSUME l = 1 PROVE FALSE
    OBVIOUS
  <2>1. PICK n \in Placeable(song) : s[1] = song[n]
    <3>1. 1 \in 1..Len(g[k])
      BY <1>2
    <3> QED
      BY <1>1, <3>1
  <2>2. Candidates(s[1]) # {}
    BY <2>1 DEF Placeable
  <2> QED
    BY <1>2, <2>2, AlonePlayable
<1>4. e \in 1..l
  BY <1>2, WeakestIn
<1>5. /\ r \in Seq(NoteEvents) /\ Len(r) = l - 1 /\ DOMAIN r = 1..(l - 1)
      /\ \A j \in 1..(l - 1) : r[j] = IF j < e THEN s[j] ELSE s[j + 1]
  <2>1. /\ r \in Seq(NoteEvents) /\ Len(r) = l - 1
        /\ \A j \in 1..(l - 1) : r[j] = IF j < e THEN s[j] ELSE s[j + 1]
    BY <1>2, <1>4, RemoveAtIs
  <2> HIDE DEF r
  <2> QED
    BY <2>1
<1>h. h = [g EXCEPT ![k] = r]
  BY <1>2
<1> HIDE DEF r, e, l, w
<1>6. /\ h \in Seq(Seq(NoteEvents)) /\ Len(h) = w /\ DOMAIN h = 1..w
      /\ \A v \in 1..w : v # k => h[v] = g[v]
      /\ h[k] = r /\ k \in 1..w
  <2>1. PICK V : V = Seq(NoteEvents)
    OBVIOUS
  <2>2. g \in Seq(V) /\ r \in V
    BY <1>1, <1>5, <2>1
  <2>3. /\ [g EXCEPT ![k] = r] \in Seq(V) /\ Len([g EXCEPT ![k] = r]) = Len(g)
        /\ \A j \in 1..Len(g) : [g EXCEPT ![k] = r][j] = IF j = k THEN r ELSE g[j]
    BY <2>2, ExceptSeq
  <2>4. /\ h \in Seq(V) /\ Len(h) = w
        /\ \A j \in 1..w : h[j] = IF j = k THEN r ELSE g[j]
    BY <1>2, <1>h, <2>3
  <2>5. k \in 1..w
    BY <1>2
  <2> HIDE DEF h
  <2>6. DOMAIN h = 1..w
    BY <2>4
  <2> QED
    BY <2>1, <2>4, <2>5, <2>6
<1> HIDE DEF h
<1>7. ASSUME NEW v \in 1..w, NEW j \in 1..Len(h[v])
      PROVE  /\ from(v, j) \in 1..Len(g[v])
             /\ h[v][j] = g[v][from(v, j)]
  <2>1. CASE v # k
    BY <1>6, <2>1
  <2>2. CASE v = k
    <3>1. h[v] = r /\ g[v] = s /\ Len(s) = l /\ j \in 1..(l - 1)
      BY <1>2, <1>5, <1>6, <2>2
    <3>2. r[j] = IF j < e THEN s[j] ELSE s[j + 1]
      BY <1>5, <3>1
    <3> HIDE DEF s
    <3>3. j \in 1..l /\ j + 1 \in 1..l
      BY <1>2, <3>1
    <3> QED
      BY <2>2, <3>1, <3>2, <3>3
  <2> QED
    BY <2>1, <2>2
<1>8. ASSUME NEW v \in 1..w, NEW i \in 1..Len(h[v]), NEW j \in 1..Len(h[v]), i < j
      PROVE  from(v, i) < from(v, j)
  <2>1. i \in Int /\ j \in Int /\ e \in Int
    BY <1>4
  <2> QED
    BY <1>8, <2>1
<1> HIDE DEF from
<1>9. ASSUME NEW v \in 1..w
      PROVE  /\ Len(h[v]) # 0
             /\ \A i \in 1..Len(h[v]) : \E n \in Placeable(song) : h[v][i] = song[n]
             /\ \A i, j \in 1..Len(h[v]) : i < j => Within(h[v][i], h[v][j])
  <2>1. Len(h[v]) # 0
    <3>1. CASE v = k
      BY <1>2, <1>3, <1>5, <1>6, <3>1
    <3>2. CASE v # k
      BY <1>1, <1>6, <3>2
    <3> QED
      BY <3>1, <3>2
  <2>2. ASSUME NEW i \in 1..Len(h[v])
        PROVE  \E n \in Placeable(song) : h[v][i] = song[n]
    <3>1. from(v, i) \in 1..Len(g[v]) /\ h[v][i] = g[v][from(v, i)]
      BY <1>7
    <3>2. \E n \in Placeable(song) : g[v][from(v, i)] = song[n]
      BY <1>1, <3>1
    <3> QED
      BY <3>1, <3>2
  <2>3. ASSUME NEW i \in 1..Len(h[v]), NEW j \in 1..Len(h[v]), i < j
        PROVE  Within(h[v][i], h[v][j])
    <3>1. from(v, i) < from(v, j)
      BY <1>8, <2>3
    <3>2. /\ from(v, i) \in 1..Len(g[v]) /\ h[v][i] = g[v][from(v, i)]
          /\ from(v, j) \in 1..Len(g[v]) /\ h[v][j] = g[v][from(v, j)]
      BY <1>7
    <3>3. \A x, y \in 1..Len(g[v]) : x < y => Within(g[v][x], g[v][y])
      BY <1>1
    <3>4. Within(g[v][from(v, i)], g[v][from(v, j)])
      BY <3>1, <3>2, <3>3
    <3> QED
      BY <3>2, <3>4
  <2> QED
    BY <2>1, <2>2, <2>3
<1>10. ASSUME NEW v \in 1..w, NEW u \in 1..w, v < u,
              NEW i \in 1..Len(h[v]), NEW j \in 1..Len(h[u])
       PROVE  h[v][i].onset < h[u][j].onset
  <2>1. /\ from(v, i) \in 1..Len(g[v]) /\ h[v][i] = g[v][from(v, i)]
        /\ from(u, j) \in 1..Len(g[u]) /\ h[u][j] = g[u][from(u, j)]
    BY <1>7
  <2>2. \A x \in 1..Len(g[v]), y \in 1..Len(g[u]) : g[v][x].onset < g[u][y].onset
    BY <1>1, <1>10
  <2>3. g[v][from(v, i)].onset < g[u][from(u, j)].onset
    BY <2>1, <2>2
  <2> QED
    BY <2>1, <2>3
<1>11. IsFiniteSet(Pairs(h)) /\ Cardinality(Pairs(g)) = Cardinality(Pairs(h)) + 1
  <2>1. DOMAIN s = 1..l /\ g[k] = s
    BY <1>2
  <2>2. \A v, j : v \in DOMAIN g /\ j \in DOMAIN g[v]
                    <=> (v \in DOMAIN h /\ j \in DOMAIN h[v]) \/ (v = k /\ j = l)
    <3> SUFFICES ASSUME NEW v, NEW j
                 PROVE  v \in DOMAIN g /\ j \in DOMAIN g[v]
                          <=> (v \in DOMAIN h /\ j \in DOMAIN h[v]) \/ (v = k /\ j = l)
      OBVIOUS
    <3>1. CASE v = k
      <4>1. j \in DOMAIN s <=> j \in DOMAIN r \/ j = l
        BY <1>2, <1>5, <2>1
      <4> QED
        BY <1>2, <1>6, <2>1, <3>1, <4>1
    <3>2. CASE v # k
      BY <1>2, <1>6, <3>2
    <3> QED
      BY <3>1, <3>2
  <2>3. ~(k \in DOMAIN h /\ l \in DOMAIN h[k])
    BY <1>2, <1>5, <1>6
  <2>4. IsFiniteSet(Pairs(h))
    <3>1. Pairs(h) \subseteq Pairs(g)
      <4> SUFFICES ASSUME NEW n \in Pairs(h) PROVE n \in Pairs(g)
        OBVIOUS
      <4>1. PICK v \in DOMAIN h : \E j \in DOMAIN h[v] : n = <<v, j>>
        BY PairIn
      <4>2. PICK j \in DOMAIN h[v] : n = <<v, j>>
        BY <4>1
      <4>3. v \in DOMAIN g /\ j \in DOMAIN g[v]
        BY <2>2
      <4> QED
        BY <4>2, <4>3, PairIs
    <3> QED
      BY <1>1, <3>1, FS_Subset
  <2> QED
    BY <2>2, <2>3, <2>4, PairMore
<1>12. Cardinality(Pairs(h)) + (d + 1) = Cardinality(Placeable(song))
  <2>1. Cardinality(Pairs(h)) \in Nat
    BY <1>11, FS_CardinalityType
  <2> QED
    BY <1>1, <1>11, <2>1
<1>13. d + 1 \in Nat /\ d + 1 # 0
  BY <1>1
<1>14. Voiced(h, d + 1, song)
  BY <1>6, <1>9, <1>10, <1>11, <1>12, <1>13 DEF Voiced
<1> QED
  BY <1>14 DEF h

-----------------------------------------------------------------------------
(* The result: every note of the voicings where the path puts it.          *)
Sounding(n) == TabNote(voicings[n[1]][n[2]], Path[n[1]], n[2])

Left(m, n) ==
  \/ Sounding(m).onset < Sounding(n).onset
  \/ Sounding(m).onset = Sounding(n).onset /\ Sounding(m).string < Sounding(n).string

LEMMA SoundingIs ==
  ASSUME Whole, NEW v \in 1..Len(voicings), NEW i \in 1..Len(voicings[v]),
         NEW n, n = <<v, i>>
  PROVE  /\ Sounding(n).onset = voicings[v][i].onset /\ Sounding(n).onset \in Int
         /\ Sounding(n).midi = voicings[v][i].midi
         /\ Sounding(n).string = Path[v].strings[i] /\ Sounding(n).string \in Nat
         /\ Tuning[Sounding(n).string] + Sounding(n).fret = Sounding(n).midi
         /\ \A j \in 1..Len(voicings[v]) :
              Path[v].strings[i] = Path[v].strings[j] => i = j
<1> DEFINE s == voicings[v]
           f == Path[v]
<1>1. Ready
  BY DEF Whole
<1>2. /\ s \in Seq(NoteEvents) /\ Len(s) \in Nat /\ DOMAIN s = 1..Len(s)
      /\ \A j \in DOMAIN options[v] : Plays(options[v][j], s)
  BY <1>1, OptionsAre
<1>3. Plays(f, s)
  <2>1. Choice(Chosen)
    <3>1. PICK m \in Nat : m = Len(voicings)
      BY <1>1 DEF Ready
    <3> QED
      BY <3>1, ChosenIs
  <2>2. v \in DOMAIN voicings
    BY <1>1 DEF Ready
  <2>3. f = options[v][Chosen[v]]
    BY <2>2 DEF Path, Chosen
  <2>4. Chosen[v] \in DOMAIN options[v]
    BY <2>1 DEF Choice
  <2> HIDE DEF f
  <2> QED
    BY <1>2, <2>3, <2>4
<1>4. Sounding(n) = [onset |-> s[i].onset, midi |-> s[i].midi,
                     string |-> f.strings[i], fret |-> f.frets[i]]
  BY DEF Sounding, TabNote
<1>5. s[i].onset \in Int
  BY <1>2, NoteAt
<1> HIDE DEF s, f
<1>6. i \in 1..Len(s)
  BY DEF s
<1>7. /\ Sounding(n).onset = s[i].onset /\ Sounding(n).midi = s[i].midi
      /\ Sounding(n).string = f.strings[i] /\ Sounding(n).fret = f.frets[i]
  BY <1>4
<1>8. f.strings[i] \in Strings /\ f.strings[i] \in Nat
  BY <1>3, <1>6, Board DEF Plays
<1>9. /\ Tuning[f.strings[i]] + f.frets[i] = s[i].midi
      /\ \A j \in 1..Len(s) : f.strings[i] = f.strings[j] => i = j
  BY <1>3, <1>6 DEF Plays, Placing
<1> QED
  BY <1>5, <1>7, <1>8, <1>9 DEF s, f

LEMMA PairAt ==
  ASSUME NEW g \in Seq(Seq(NoteEvents)), NEW n \in Pairs(g)
  PROVE  \E v \in 1..Len(g) : \E i \in 1..Len(g[v]) : n = <<v, i>>
<1>1. PICK v \in DOMAIN g : \E i \in DOMAIN g[v] : n = <<v, i>>
  BY PairIn
<1>2. PICK i \in DOMAIN g[v] : n = <<v, i>>
  BY <1>1
<1>3. v \in 1..Len(g) /\ DOMAIN g[v] = 1..Len(g[v])
  BY VoicingAt
<1> QED
  BY <1>2, <1>3

(* Two notes of the voicings are never at one place.                       *)
LEMMA LeftTotal ==
  ASSUME Whole, Voiced(voicings, dropped, song), NEW m \in Pairs(voicings), NEW n \in Pairs(voicings)
  PROVE  /\ Sounding(m).onset \in Int /\ Sounding(m).string \in Nat
         /\ m = n \/ Left(m, n) \/ Left(n, m)
<1>1. /\ voicings \in Seq(Seq(NoteEvents)) /\ DOMAIN voicings = 1..Len(voicings)
      /\ Len(voicings) \in Nat
      /\ \A v \in 1..Len(voicings) : DOMAIN voicings[v] = 1..Len(voicings[v])
  BY VoicingAt DEF Voiced
<1>2. PICK v \in 1..Len(voicings) : \E i \in 1..Len(voicings[v]) : m = <<v, i>>
  BY <1>1, PairAt
<1>3. PICK i \in 1..Len(voicings[v]) : m = <<v, i>>
  BY <1>2
<1>4. PICK w \in 1..Len(voicings) : \E j \in 1..Len(voicings[w]) : n = <<w, j>>
  BY <1>1, PairAt
<1>5. PICK j \in 1..Len(voicings[w]) : n = <<w, j>>
  BY <1>4
<1>6. /\ Sounding(m).onset = voicings[v][i].onset /\ Sounding(m).onset \in Int
      /\ Sounding(m).string = Path[v].strings[i] /\ Sounding(m).string \in Nat
      /\ \A u \in 1..Len(voicings[v]) : Path[v].strings[i] = Path[v].strings[u] => i = u
  BY <1>3, SoundingIs
<1>7. /\ Sounding(n).onset = voicings[w][j].onset /\ Sounding(n).onset \in Int
      /\ Sounding(n).string = Path[w].strings[j] /\ Sounding(n).string \in Nat
  BY <1>5, SoundingIs
<1>8. CASE v < w
  <2>1. voicings[v][i].onset < voicings[w][j].onset
    BY <1>8 DEF Voiced
  <2> QED
    BY <1>6, <1>7, <2>1 DEF Left
<1>9. CASE w < v
  <2>1. voicings[w][j].onset < voicings[v][i].onset
    BY <1>9 DEF Voiced
  <2> QED
    BY <1>6, <1>7, <2>1 DEF Left
<1>10. CASE v = w
  <2>1. i = j => m = n
    BY <1>3, <1>5, <1>10
  <2>2. i # j => Sounding(m).string # Sounding(n).string
    BY <1>6, <1>7, <1>10
  <2> DEFINE a == Sounding(m).onset
             b == Sounding(n).onset
             p == Sounding(m).string
             q == Sounding(n).string
  <2>3. a \in Int /\ b \in Int /\ p \in Nat /\ q \in Nat
    BY <1>6, <1>7
  <2>4. /\ Left(m, n) <=> a < b \/ (a = b /\ p < q)
        /\ Left(n, m) <=> b < a \/ (b = a /\ q < p)
    BY DEF Left
  <2>5. m = n \/ p # q
    BY <2>1, <2>2
  <2>6. m = n \/ Left(m, n) \/ Left(n, m)
    <3> HIDE DEF a, b, p, q
    <3> QED
      BY <2>3, <2>4, <2>5
  <2> QED
    BY <1>6, <2>6
<1> QED
  BY <1>1, <1>6, <1>8, <1>9, <1>10

LEMMA PlacedIs ==
  ASSUME Whole, Voiced(voicings, dropped, song), song \in Seq(NoteEvents), tab = Placed
  PROVE  /\ Len(tab) + dropped = Cardinality(Placeable(song))
         /\ DOMAIN tab = 1..Len(tab) /\ Len(tab) \in Nat
         /\ \A i \in 1..Len(tab) :
              /\ tab[i].onset \in Int /\ tab[i].string \in Nat
              /\ Tuning[tab[i].string] + tab[i].fret = tab[i].midi
              /\ \E n \in DOMAIN song : /\ song[n].onset = tab[i].onset
                                        /\ song[n].midi = tab[i].midi
         /\ \A i, j \in 1..Len(tab) : i < j =>
              \/ tab[i].onset < tab[j].onset
              \/ /\ tab[i].onset = tab[j].onset
                 /\ tab[i].string < tab[j].string
<1> DEFINE all == Pairs(voicings)
           placed == [n \in all |-> Sounding(n)]
           before == [n \in all |-> {m \in all : Left(m, n)}]
           order == InOrder(before)
<1>1. Placed = [j \in DOMAIN order |-> placed[order[j]]]
  <2>1. Placed = LET before0(m, n) ==
                       \/ placed[m].onset < placed[n].onset
                       \/ placed[m].onset = placed[n].onset /\ placed[m].string < placed[n].string
                     order0 == InOrder([n \in all |-> {m \in all : before0(m, n)}])
                 IN [j \in DOMAIN order0 |-> placed[order0[j]]]
    BY DEF Placed, Pairs, Sounding
  <2>2. [n \in all |-> {m \in all :
           \/ placed[m].onset < placed[n].onset
           \/ placed[m].onset = placed[n].onset /\ placed[m].string < placed[n].string}]
          = before
    <3> HIDE DEF all
    <3> QED
      BY DEF Left
  <2> HIDE DEF before, placed, all
  <2> QED
    BY <2>1, <2>2
<1>2. IsFiniteSet(all) /\ Cardinality(all) + dropped = Cardinality(Placeable(song))
  BY DEF Voiced
<1>3. \A m \in all : Sounding(m).onset \in Int /\ Sounding(m).string \in Nat
  BY LeftTotal
<1>4. \A m, n \in all : m = n \/ Left(m, n) \/ Left(n, m)
  BY LeftTotal
<1> HIDE DEF all
<1>5. Sorts(before, all)
  <2>1. before \in [all -> SUBSET all]
    OBVIOUS
  <2>2. \A x \in all : ~Left(x, x)
    BY <1>3 DEF Left
  <2>3. \A x, y, z \in all : Left(x, y) /\ Left(y, z) => Left(x, z)
    BY <1>3 DEF Left
  <2>4. \A x, y \in all : x \in before[y] <=> Left(x, y)
    OBVIOUS
  <2> HIDE DEF before
  <2>5. \A x, y \in all : x \in before[y] => before[x] \subseteq before[y]
    BY <2>1, <2>3, <2>4
  <2> QED
    BY <1>4, <2>1, <2>2, <2>4, <2>5 DEF Sorts
<1>6. \A x, y \in all : x \in before[y] => Left(x, y)
  OBVIOUS
<1>p. \A x \in all : placed[x] = Sounding(x)
  OBVIOUS
<1> HIDE DEF before, placed
<1>7. SortedOut(order, before, all)
  BY <1>2, <1>5, InOrderIs
<1> HIDE DEF order
<1>8. PICK n \in Nat : n = Cardinality(all)
  BY <1>2, FS_CardinalityType
<1>9. /\ DOMAIN order = 1..n
      /\ \A k \in 1..n : order[k] \in all
      /\ \A i, j \in 1..n : i < j => Left(order[i], order[j])
  BY <1>6, <1>7, <1>8 DEF SortedOut
<1>10. /\ tab = [j \in 1..n |-> placed[order[j]]]
  BY <1>1, <1>9
<1>11. Len(tab) = n /\ DOMAIN tab = 1..n
  BY <1>10
<1>12. \A j \in 1..n : tab[j] = Sounding(order[j])
  BY <1>9, <1>10, <1>p
<1>13. ASSUME NEW i \in 1..n
       PROVE  /\ tab[i].onset \in Int /\ tab[i].string \in Nat
              /\ Tuning[tab[i].string] + tab[i].fret = tab[i].midi
              /\ \E p \in DOMAIN song : /\ song[p].onset = tab[i].onset
                                        /\ song[p].midi = tab[i].midi
  <2>1. order[i] \in Pairs(voicings)
    BY <1>9 DEF all
  <2>2. voicings \in Seq(Seq(NoteEvents))
    BY DEF Voiced
  <2>3. PICK v \in 1..Len(voicings) : \E j \in 1..Len(voicings[v]) : order[i] = <<v, j>>
    BY <2>1, <2>2, PairAt
  <2>4. PICK j \in 1..Len(voicings[v]) : order[i] = <<v, j>>
    BY <2>3
  <2> DEFINE x == Sounding(order[i])
  <2>5. /\ x.onset = voicings[v][j].onset /\ x.onset \in Int
        /\ x.midi = voicings[v][j].midi /\ x.string \in Nat
        /\ Tuning[x.string] + x.fret = x.midi
    BY <2>4, SoundingIs
  <2>6. PICK p \in Placeable(song) : voicings[v][j] = song[p]
    BY DEF Voiced
  <2>7. p \in DOMAIN song
    BY DEF Placeable
  <2>8. tab[i] = x
    BY <1>12
  <2> HIDE DEF x
  <2> QED
    BY <2>5, <2>6, <2>7, <2>8
<1>14. \A i, j \in 1..n : i < j =>
         \/ tab[i].onset < tab[j].onset
         \/ tab[i].onset = tab[j].onset /\ tab[i].string < tab[j].string
  BY <1>9, <1>12 DEF Left
<1> QED
  BY <1>2, <1>8, <1>11, <1>13, <1>14

-----------------------------------------------------------------------------
(* The invariant.  What has been searched is what the search above finds;  *)
(* what has been fitted has the options of its voicing.                    *)
Fitted ==
  /\ Len(options) \in Nat /\ Len(options) <= Len(voicings)
  /\ (\E V : options \in Seq(V))
  /\ \A k \in 1..Len(options) :
       options[k] = Fingerings(voicings[k]) /\ Playable(voicings[k]) # {}

MapperInv ==
  /\ song \in Songs
  /\ stage \in {"group", "search", "done"}
  /\ stage = "group" => voicings = <<>> /\ options = <<>> /\ dropped = 0
  /\ stage # "group" => Voiced(voicings, dropped, song)
  /\ Fitted
  /\ Chained(history) /\ (\E V : history \in Seq(V))
  /\ Len(history) > 1 => Len(options) = Len(voicings)
  /\ stage = "done" => Searched /\ tab = Placed

LEMMA SongIs ==
  ASSUME song \in Songs
  PROVE  song \in Seq(NoteEvents)
  BY FretboardAssumption

LEMMA SearchedWhole ==
  ASSUME MapperInv, Searched
  PROVE  Whole
<1>1. /\ Voiced(voicings, dropped, song) /\ Fitted /\ Chained(history)
      /\ Len(history) = Len(voicings) + 1
      /\ Len(history) > 1 => Len(options) = Len(voicings)
  BY DEF MapperInv, Searched
<1>2. voicings \in Seq(Seq(NoteEvents)) /\ Len(voicings) \in Nat
  BY <1>1, VoicingAt DEF Voiced
<1>3. Len(options) = Len(voicings)
  BY <1>1, <1>2 DEF Fitted
<1>4. Ready
  BY <1>1, <1>2, <1>3 DEF Ready, Fitted
<1> QED
  BY <1>1, <1>4 DEF Whole

(* The invariant gives the property.                                       *)
LEMMA InvAccounted ==
  ASSUME MapperInv
  PROVE  NotesAccounted
<1>1. CASE stage = "group"
  <2>1. voicings = <<>> /\ DOMAIN voicings = {} /\ Len(voicings) = 0
    BY <1>1 DEF MapperInv
  <2>2. 2..Len(voicings) = {}
    BY <2>1
  <2> QED
    BY <1>1, <2>1, <2>2 DEF NotesAccounted
<1>2. CASE stage # "group"
  <2>1. Voiced(voicings, dropped, song) /\ song \in Seq(NoteEvents)
    BY <1>2, SongIs DEF MapperInv
  <2>2. /\ DOMAIN voicings = 1..Len(voicings) /\ Len(voicings) \in Nat
        /\ \A v \in 1..Len(voicings) :
             DOMAIN voicings[v] = 1..Len(voicings[v]) /\ Len(voicings[v]) \in Nat
    BY <2>1, VoicingAt DEF Voiced
  <2>3. /\ \A v \in 1..Len(voicings) :
             /\ Len(voicings[v]) # 0
             /\ \A i, j \in 1..Len(voicings[v]) : i < j => Within(voicings[v][i], voicings[v][j])
        /\ \A v, w \in 1..Len(voicings) : v < w =>
             /\ \A i \in 1..Len(voicings[v]), j \in 1..Len(voicings[w]) :
                  voicings[v][i].onset < voicings[w][j].onset
             /\ dropped = 0 => voicings[w][1].onset - voicings[v][1].onset > Window
    BY <2>1 DEF Voiced
  <2>4. \A k \in DOMAIN voicings : \A i, j \in DOMAIN voicings[k] :
          i < j => voicings[k][j].onset - voicings[k][i].onset \in 0..Window
    BY <2>2, <2>3 DEF Within
  <2>5. ASSUME NEW k \in 2..Len(voicings)
        PROVE  /\ voicings[k][1].onset > Last(voicings[k - 1]).onset
               /\ dropped = 0 => voicings[k][1].onset - voicings[k - 1][1].onset > Window
    <3>1. PICK v \in 1..Len(voicings) : v = k - 1
      BY <2>2
    <3>2. k \in 1..Len(voicings) /\ v < k
      BY <2>2, <3>1
    <3>3. 1 \in 1..Len(voicings[k]) /\ Len(voicings[v]) \in 1..Len(voicings[v])
      BY <2>2, <2>3, <3>2
    <3>4. voicings[v][Len(voicings[v])].onset < voicings[k][1].onset
      BY <2>3, <3>2, <3>3
    <3>5. /\ voicings[v][Len(voicings[v])].onset \in Int /\ voicings[k][1].onset \in Int
      BY <2>1, <3>2, <3>3, VoicingAt DEF Voiced
    <3>6. voicings[k][1].onset > Last(voicings[v]).onset
      BY <3>4, <3>5 DEF Last
    <3>7. dropped = 0 => voicings[k][1].onset - voicings[v][1].onset > Window
      BY <2>3, <3>2
    <3> QED
      BY <3>1, <3>6, <3>7
  <2>6. \A k \in DOMAIN voicings : voicings[k] # <<>>
    <3>1. Len(<<>>) = 0
      OBVIOUS
    <3> QED
      BY <2>2, <2>3, <3>1
  <2>7. ASSUME stage = "done"
        PROVE  /\ Len(tab) + dropped = Cardinality(Placeable(song))
               /\ \A i \in DOMAIN tab :
                    /\ Tuning[tab[i].string] + tab[i].fret = tab[i].midi
                    /\ Cardinality({j \in DOMAIN tab : tab[j] = tab[i]})
                         <= Cardinality({n \in DOMAIN song :
                              /\ song[n].onset = tab[i].onset
                              /\ song[n].midi = tab[i].midi})
                    /\ \A j \in (i + 1)..Len(tab) :
                         \/ tab[i].onset < tab[j].onset
                         \/ /\ tab[i].onset = tab[j].onset
                            /\ tab[i].string < tab[j].string
    <3>1. Whole /\ tab = Placed
      BY <2>7, SearchedWhole DEF MapperInv
    <3>2. /\ Len(tab) + dropped = Cardinality(Placeable(song))
          /\ DOMAIN tab = 1..Len(tab) /\ Len(tab) \in Nat
          /\ \A i \in 1..Len(tab) :
               /\ tab[i].onset \in Int /\ tab[i].string \in Nat
               /\ Tuning[tab[i].string] + tab[i].fret = tab[i].midi
               /\ \E n \in DOMAIN song : /\ song[n].onset = tab[i].onset
                                         /\ song[n].midi = tab[i].midi
          /\ \A i, j \in 1..Len(tab) : i < j =>
               \/ tab[i].onset < tab[j].onset
               \/ /\ tab[i].onset = tab[j].onset
                  /\ tab[i].string < tab[j].string
      BY <2>1, <3>1, PlacedIs
    <3>3. ASSUME NEW i \in 1..Len(tab)
          PROVE  Cardinality({j \in DOMAIN tab : tab[j] = tab[i]})
                   <= Cardinality({n \in DOMAIN song :
                        /\ song[n].onset = tab[i].onset
                        /\ song[n].midi = tab[i].midi})
      <4> DEFINE S == {n \in DOMAIN song :
                         song[n].onset = tab[i].onset /\ song[n].midi = tab[i].midi}
      <4>1. {j \in DOMAIN tab : tab[j] = tab[i]} = {i}
        <5>1. ASSUME NEW j \in 1..Len(tab), tab[j] = tab[i], j # i PROVE FALSE
          <6>1. j < i \/ i < j
            BY <5>1
          <6> QED
            BY <3>2, <5>1, <6>1
        <5> QED
          BY <3>2, <5>1
      <4>2. Cardinality({j \in DOMAIN tab : tab[j] = tab[i]}) = 1
        BY <4>1, FS_Singleton
      <4>3. IsFiniteSet(S)
        <5>1. PICK m \in Nat : DOMAIN song = 1..m
          BY <2>1
        <5>2. IsFiniteSet(1..m)
          BY <5>1, FS_Interval
        <5> QED
          BY <5>1, <5>2, FS_Subset
      <4>4. S # {}
        BY <3>2
      <4> HIDE DEF S
      <4>5. Cardinality(S) \in Nat /\ Cardinality(S) # 0
        BY <4>3, <4>4, FS_CardinalityType, FS_EmptySet
      <4>6. 1 <= Cardinality(S)
        BY <4>5
      <4> QED
        BY <4>2, <4>6 DEF S
    <3>4. \A i \in 1..Len(tab) : \A j \in (i + 1)..Len(tab) : j \in 1..Len(tab) /\ i < j
      BY <3>2
    <3> QED
      BY <3>2, <3>3, <3>4
  <2> QED
    BY <2>4, <2>5, <2>6, <2>7 DEF NotesAccounted
<1> QED
  BY <1>1, <1>2

LEMMA InvCheapest ==
  ASSUME MapperInv
  PROVE  CheapestPath
<1>1. CASE Searched
  BY <1>1, SearchedWhole, Cheapest
<1>2. CASE ~Searched
  BY <1>2 DEF CheapestPath
<1> QED
  BY <1>1, <1>2

-----------------------------------------------------------------------------
(* What a step leaves alone.                                               *)
LEMMA FittedSame ==
  ASSUME Fitted, voicings' = voicings, options' = options
  PROVE  Fitted'
  BY DEF Fitted

LEMMA PlacedSame ==
  ASSUME voicings' = voicings, options' = options, history' = history
  PROVE  Placed' = Placed
  BY DEF Placed, Path

LEMMA LayerSame ==
  ASSUME options' = options, NEW k, NEW states
  PROVE  Layer(k, states)' <=> Layer(k, states)
  BY DEF Layer

LEMMA ExtendsSame ==
  ASSUME options' = options, voicings' = voicings, NEW k, NEW earlier, NEW states
  PROVE  Extends(k, earlier, states)' <=> Extends(k, earlier, states)
  BY DEF Extends, BestInto, Into, Added

LEMMA ChainedSame ==
  ASSUME options' = options, voicings' = voicings, NEW states, Chained(states),
         history' = states
  PROVE  Chained(history)'
<1>1. \A k : Layer(k - 1, states[k])' <=> Layer(k - 1, states[k])
  BY LayerSame
<1>2. \A k : Extends(k, states[k], states[k + 1])' <=> Extends(k, states[k], states[k + 1])
  BY ExtendsSame
<1>3. Chained(states)'
  BY <1>1, <1>2 DEF Chained
<1> QED
  BY <1>3 DEF Chained

LEMMA ChainedStart ==
  ASSUME Chained(history), Len(history) = 1, history' = history, Len(voicings') \in Nat
  PROVE  Chained(history)'
<1>1. /\ DOMAIN history = 1..1
      /\ history[1] = [s \in {Start} |-> [total |-> 0, before |-> Start]]
      /\ Layer(0, history[1])
  <2>1. 1 \in 1..1 /\ 1 - 1 = 0
    OBVIOUS
  <2> QED
    BY <2>1 DEF Chained
<1>2. Layer(0, history[1])'
  BY <1>1 DEF Layer
<1>3. /\ \A k \in 1..Len(history) : k - 1 = 0 /\ k = 1
      /\ 1..(Len(history) - 1) = {}
      /\ Len(history) <= Len(voicings') + 1 /\ Len(history) \in Nat \ {0}
  OBVIOUS
<1> QED
  BY <1>1, <1>2, <1>3 DEF Chained

LEMMA MapperInit ==
  ASSUME Init
  PROVE  MapperInv
<1>1. /\ song \in Songs /\ stage = "group" /\ voicings = <<>> /\ options = <<>>
      /\ dropped = 0
      /\ history = <<[s \in {Start} |-> [total |-> 0, before |-> Start]]>>
  BY DEF Init
<1> DEFINE start == [s \in {Start} |-> [total |-> 0, before |-> Start]]
<1>2. Len(history) = 1 /\ DOMAIN history = 1..1 /\ history[1] = start
      /\ history \in Seq({start})
  BY <1>1
<1>3. Len(voicings) = 0 /\ Len(options) = 0 /\ 1..Len(options) = {}
      /\ options \in Seq({})
  BY <1>1
<1>4. Layer(0, start)
  <2>1. DOMAIN start = {Start} /\ start[Start].total = 0
    OBVIOUS
  <2>2. Start \in States
    BY DEF Start, States, Nowhere
  <2>3. IsFiniteSet({Start})
    BY FS_Singleton
  <2> HIDE DEF start
  <2> QED
    BY <2>1, <2>2, <2>3 DEF Layer
<1> HIDE DEF start
<1>5. Chained(history)
  <2>1. /\ \A k \in 1..1 : k - 1 = 0 /\ k = 1
        /\ 1..(1 - 1) = {}
    OBVIOUS
  <2> QED
    BY <1>2, <1>3, <1>4, <2>1 DEF Chained, start
<1>6. Fitted
  BY <1>3 DEF Fitted
<1>7. ~(Len(history) > 1)
  BY <1>2
<1>8. \E V : history \in Seq(V)
  BY <1>2
<1> QED
  BY <1>1, <1>5, <1>6, <1>7, <1>8 DEF MapperInv

LEMMA MapperGroup ==
  ASSUME MapperInv, Group
  PROVE  MapperInv'
<1>1. /\ stage = "group" /\ stage' = "search"
      /\ voicings' = Grouped(Sorted(song, Placeable(song)))
      /\ song' = song /\ options' = options /\ dropped' = dropped
      /\ history' = history /\ tab' = tab
  BY DEF Group
<1>2. /\ song \in Songs /\ voicings = <<>> /\ options = <<>> /\ dropped = 0
      /\ Chained(history) /\ (\E V : history \in Seq(V))
  BY <1>1 DEF MapperInv
<1>3. Len(history) = 1
  <2>1. Len(voicings) = 0
    BY <1>2
  <2> QED
    BY <1>2, <2>1 DEF Chained
<1>4. Voiced(voicings', dropped', song')
  BY <1>1, <1>2, SongIs, GroupVoiced
<1>5. Voiced(voicings, dropped, song)'
  BY <1>4
<1>6. Len(voicings') \in Nat
  <2>1. PICK g : g = voicings'
    OBVIOUS
  <2>2. Len(g) \in Nat
    BY <1>4, <2>1, VoicingAt DEF Voiced
  <2> QED
    BY <2>1, <2>2
<1>7. Chained(history)'
  BY <1>1, <1>2, <1>3, <1>6, ChainedStart
<1>8. Fitted'
  <2>1. Len(options') = 0 /\ 1..Len(options') = {} /\ options' \in Seq({})
    BY <1>1, <1>2
  <2> QED
    BY <1>6, <2>1 DEF Fitted
<1>9. song' \in Songs /\ ~(Len(history') > 1) /\ (\E V : history' \in Seq(V))
  BY <1>1, <1>2, <1>3
<1> QED
  BY <1>1, <1>5, <1>7, <1>8, <1>9 DEF MapperInv

LEMMA MapperFit ==
  ASSUME MapperInv, Fit
  PROVE  MapperInv'
<1> DEFINE k == Len(options) + 1
<1>1. /\ stage = "search" /\ k <= Len(voicings)
      /\ song' = song /\ stage' = stage /\ history' = history /\ tab' = tab
  BY DEF Fit
<1>2. /\ song \in Songs /\ Voiced(voicings, dropped, song) /\ Fitted
      /\ Chained(history) /\ (\E V : history \in Seq(V))
      /\ Len(history) > 1 => Len(options) = Len(voicings)
  BY <1>1 DEF MapperInv
<1>3. /\ voicings \in Seq(Seq(NoteEvents)) /\ Len(voicings) \in Nat
      /\ Len(options) \in Nat /\ k \in 1..Len(voicings)
  <2>1. voicings \in Seq(Seq(NoteEvents)) /\ Len(voicings) \in Nat
    BY <1>2, VoicingAt DEF Voiced
  <2> QED
    BY <1>1, <1>2, <2>1 DEF Fitted
<1>4. Len(history) = 1
  BY <1>1, <1>2, <1>3 DEF Chained
<1>5. CASE Playable(voicings[k]) # {}
  <2>1. /\ options' = Append(options, Fingerings(voicings[k]))
        /\ voicings' = voicings /\ dropped' = dropped
    BY <1>5 DEF Fit
  <2>2. Voiced(voicings, dropped, song)'
    BY <1>1, <1>2, <2>1
  <2>3. Chained(history)'
    BY <1>1, <1>2, <1>3, <1>4, <2>1, ChainedStart
  <2>4. Fitted'
    <3>1. PICK V : options \in Seq(V)
      BY <1>2 DEF Fitted
    <3> DEFINE W == V \cup {Fingerings(voicings[k])}
               f == Fingerings(voicings[k])
    <3>2. options \in Seq(W) /\ f \in W
      <4>1. V \subseteq W
        OBVIOUS
      <4>2. f \in W
        OBVIOUS
      <4> HIDE DEF W, f
      <4> QED
        BY <3>1, <4>1, <4>2
    <3> HIDE DEF W
    <3>3. /\ options' \in Seq(W) /\ Len(options') = k
          /\ \A i \in 1..Len(options) : options'[i] = options[i]
          /\ options'[k] = f
      <4> HIDE DEF f
      <4> QED
        BY <2>1, <3>2, AppendIs DEF f
    <3>4. ASSUME NEW i \in 1..Len(options')
          PROVE  options'[i] = Fingerings(voicings[i]) /\ Playable(voicings[i]) # {}
      <4>1. CASE i = k
        BY <1>5, <3>3, <4>1
      <4>2. CASE i # k
        <5>1. i \in 1..Len(options)
          BY <1>3, <3>3, <4>2
        <5> QED
          BY <1>2, <3>3, <5>1 DEF Fitted
      <4> QED
        BY <4>1, <4>2
    <3>5. Len(options') \in Nat /\ Len(options') <= Len(voicings')
      BY <1>1, <1>3, <2>1, <3>3
    <3>6. \E X : options' \in Seq(X)
      BY <3>3
    <3> QED
      BY <2>1, <3>4, <3>5, <3>6 DEF Fitted
  <2>5. song' \in Songs /\ ~(Len(history') > 1) /\ (\E V : history' \in Seq(V))
    BY <1>1, <1>2, <1>4
  <2> QED
    BY <1>1, <2>2, <2>3, <2>4, <2>5 DEF MapperInv
<1>6. CASE Playable(voicings[k]) = {}
  <2> DEFINE h == [voicings EXCEPT ![k] = RemoveAt(@, Weakest(@))]
  <2>1. /\ voicings' = h /\ dropped' = dropped + 1 /\ options' = options
    BY <1>6 DEF Fit
  <2>2. Voiced(h, dropped + 1, song)
    BY <1>2, <1>3, <1>6, SongIs, DropVoiced
  <2>3. /\ \A i \in 1..Len(options) : h[i] = voicings[i]
        /\ Len(h) = Len(voicings)
    <3>1. \A i \in 1..Len(options) : i # k /\ i \in DOMAIN voicings
      BY <1>3
    <3>2. Len(h) = Len(voicings)
      BY <1>3
    <3> QED
      BY <3>1, <3>2
  <2> HIDE DEF h
  <2>4. Voiced(voicings, dropped, song)'
    BY <1>1, <2>1, <2>2
  <2>5. Chained(history)'
    BY <1>1, <1>2, <1>3, <1>4, <2>1, <2>3, ChainedStart
  <2>6. Fitted'
    BY <1>2, <2>1, <2>3 DEF Fitted
  <2>7. song' \in Songs /\ ~(Len(history') > 1) /\ (\E V : history' \in Seq(V))
    BY <1>1, <1>2, <1>4
  <2> QED
    BY <1>1, <2>4, <2>5, <2>6, <2>7 DEF MapperInv
<1> QED
  BY <1>5, <1>6

LEMMA MapperSearch ==
  ASSUME MapperInv, Search
  PROVE  MapperInv'
<1> DEFINE k == Len(history)
           next == Reached(k, history[k])
<1>1. /\ stage = "search" /\ Len(options) = Len(voicings) /\ k <= Len(voicings)
      /\ history' = Append(history, next)
      /\ song' = song /\ stage' = stage /\ voicings' = voicings
      /\ options' = options /\ dropped' = dropped /\ tab' = tab
  BY DEF Search
<1>2. /\ song \in Songs /\ Voiced(voicings, dropped, song) /\ Fitted /\ Chained(history)
  BY <1>1 DEF MapperInv
<1>3. /\ Ready /\ Len(voicings) \in Nat
  <2>1. voicings \in Seq(Seq(NoteEvents)) /\ Len(voicings) \in Nat
    BY <1>2, VoicingAt DEF Voiced
  <2> QED
    BY <1>1, <1>2, <2>1 DEF Ready, Fitted
<1>4. /\ k \in 1..Len(voicings) /\ k \in Nat
      /\ history[1] = [s \in {Start} |-> [total |-> 0, before |-> Start]]
      /\ \A i \in 1..k : Layer(i - 1, history[i])
      /\ \A i \in 1..(k - 1) : Extends(i, history[i], history[i + 1])
  <2>1. /\ k \in Nat \ {0}
        /\ history[1] = [s \in {Start} |-> [total |-> 0, before |-> Start]]
        /\ \A i \in 1..k : Layer(i - 1, history[i])
        /\ \A i \in 1..(k - 1) : Extends(i, history[i], history[i + 1])
    BY <1>2 DEF Chained
  <2>2. k <= Len(voicings)
    BY <1>1
  <2> HIDE DEF k
  <2>3. k \in 1..Len(voicings)
    BY <1>3, <2>1, <2>2
  <2> QED
    BY <2>1, <2>3
<1>5. Layer(k - 1, history[k])
  BY <1>4
<1>6. Layer(k, next) /\ Extends(k, history[k], next)
  BY <1>3, <1>4, <1>5, ReachedIs
<1> HIDE DEF next
<1>7. PICK V : history \in Seq(V)
  BY DEF MapperInv
<1> DEFINE W == V \cup {next}
<1>8. history \in Seq(W) /\ next \in W
  <2>1. V \subseteq W /\ next \in W
    OBVIOUS
  <2> HIDE DEF W
  <2> QED
    BY <1>7, <2>1
<1> HIDE DEF W
<1> DEFINE more == Append(history, next)
<1>9. /\ more \in Seq(W) /\ Len(more) = k + 1 /\ DOMAIN more = 1..(k + 1)
      /\ \A i \in 1..k : more[i] = history[i]
      /\ more[k + 1] = next
  BY <1>8, AppendIs
<1>10. history' = more
  BY <1>1
<1> HIDE DEF more, k
<1>11. ASSUME NEW i \in 1..(k + 1) PROVE Layer(i - 1, more[i])
  <2>1. CASE i \in 1..k
    BY <1>4, <1>9, <2>1
  <2>2. CASE i = k + 1
    <3>1. i - 1 = k /\ more[i] = next
      BY <1>4, <1>9, <2>2
    <3> QED
      BY <1>6, <3>1
  <2> QED
    BY <1>4, <2>1, <2>2
<1>12. ASSUME NEW i \in 1..k PROVE Extends(i, more[i], more[i + 1])
  <2>1. CASE i \in 1..(k - 1)
    <3>1. i \in 1..k /\ i + 1 \in 1..k
      BY <1>4, <2>1
    <3> QED
      BY <1>4, <1>9, <2>1, <3>1
  <2>2. CASE i = k
    <3>1. more[i] = history[k] /\ more[i + 1] = next
      BY <1>9, <2>2
    <3> QED
      BY <1>6, <2>2, <3>1
  <2> QED
    BY <1>4, <2>1, <2>2
<1>13. Chained(more)
  <2>1. /\ Len(more) \in Nat \ {0} /\ Len(more) <= Len(voicings) + 1
        /\ Len(more) - 1 = k /\ 1 \in 1..k
    BY <1>3, <1>4, <1>9
  <2>2. more[1] = history[1]
    BY <1>9, <2>1
  <2> QED
    BY <1>4, <1>9, <1>11, <1>12, <2>1, <2>2 DEF Chained
<1>14. Chained(history)'
  BY <1>1, <1>10, <1>13, ChainedSame
<1>15. Voiced(voicings, dropped, song)' /\ Fitted'
  BY <1>1, <1>2, FittedSame
<1>16. song' \in Songs /\ (\E X : history' \in Seq(X))
  BY <1>1, <1>2, <1>9, <1>10
<1> QED
  BY <1>1, <1>14, <1>15, <1>16 DEF MapperInv

LEMMA MapperSame ==
  ASSUME MapperInv, song' = song, voicings' = voicings, options' = options,
         dropped' = dropped, history' = history,
         \/ stage' = stage /\ tab' = tab
         \/ Searched /\ stage' = "done" /\ tab' = Placed
  PROVE  MapperInv'
<1>1. /\ song \in Songs /\ Fitted /\ Chained(history) /\ (\E V : history \in Seq(V))
      /\ Len(history) > 1 => Len(options) = Len(voicings)
  BY DEF MapperInv
<1>2. Fitted' /\ Chained(history)' /\ Placed' = Placed
  BY <1>1, FittedSame, ChainedSame, PlacedSame
<1>3. Voiced(voicings, dropped, song) => Voiced(voicings, dropped, song)'
  OBVIOUS
<1>4. CASE stage' = stage /\ tab' = tab
  <2>1. Searched' <=> Searched
    BY <1>4 DEF Searched
  <2> QED
    BY <1>1, <1>2, <1>3, <1>4, <2>1 DEF MapperInv
<1>5. CASE Searched /\ stage' = "done" /\ tab' = Placed
  <2>1. Searched' /\ stage # "group"
    BY <1>5 DEF Searched
  <2> QED
    BY <1>1, <1>2, <1>3, <1>5, <2>1 DEF MapperInv
<1> QED
  BY <1>4, <1>5

LEMMA MapperStep ==
  ASSUME MapperInv, [Next]_vars
  PROVE  MapperInv'
<1>1. CASE Group
  BY <1>1, MapperGroup
<1>2. CASE Fit
  BY <1>2, MapperFit
<1>3. CASE Search
  BY <1>3, MapperSearch
<1>4. CASE Place
  <2>1. /\ Searched /\ stage' = "done" /\ tab' = Placed
        /\ song' = song /\ voicings' = voicings /\ options' = options
        /\ dropped' = dropped /\ history' = history
    BY <1>4 DEF Place
  <2> QED
    BY <2>1, MapperSame
<1>5. CASE Returned \/ UNCHANGED vars
  <2>1. /\ song' = song /\ voicings' = voicings /\ options' = options
        /\ dropped' = dropped /\ history' = history /\ stage' = stage /\ tab' = tab
    BY <1>5 DEF Returned, vars
  <2> QED
    BY <2>1, MapperSame
<1> QED
  BY <1>1, <1>2, <1>3, <1>4, <1>5 DEF Next

(* For every song, tuning and price list: the tab holds every note that    *)
(* can be played, once, where it sounds, or counts it as dropped, no       *)
(* voicing outlasts the window or loses its last note, and the fingerings  *)
(* are the cheapest there are, ties going where _viterbi's comment says.   *)
THEOREM MapperSafe == Spec => []MapperRight
<1>1. Init => MapperInv
  BY MapperInit
<1>2. MapperInv /\ [Next]_vars => MapperInv'
  BY MapperStep
<1>3. MapperInv => MapperRight
  BY InvAccounted, InvCheapest DEF MapperRight
<1> QED
  BY <1>1, <1>2, <1>3, PTL DEF Spec

=============================================================================
