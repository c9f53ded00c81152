---------------------------- MODULE NumberedSets ----------------------------
(***************************************************************************)
(* Facts about finite sets that the proofs about lists and sums need: the  *)
(* order that numbers give to the elements of a set, its greatest and its  *)
(* least number, lists that have every element once, and sums of numbers   *)
(* as counts of the units in them, which makes a sum over a set that is    *)
(* cut into parts a matter of disjoint unions.                             *)
(***************************************************************************)
EXTENDS Integers, FiniteSetsExt, SequencesExt, TLAPS, FiniteSetTheorems, FunctionTheorems

-----------------------------------------------------------------------------
(* Numberings: functions that give each element of a finite set a number   *)
(* of its own.                                                             *)
Numbering(number) ==
    /\ IsFiniteSet(DOMAIN number)
    /\ number \in [DOMAIN number -> Nat]
    /\ \A x, y \in DOMAIN number : number[x] = number[y] => x = y

Below(number, x) == {y \in DOMAIN number : number[y] < number[x]}

(* As many elements have a smaller number as the element has places before *)
(* it, and every place is taken.                                           *)
LEMMA BelowOrder ==
    ASSUME NEW number, Numbering(number)
    PROVE  /\ \A x \in DOMAIN number :
                 Cardinality(Below(number, x)) \in 0 .. Cardinality(DOMAIN number) - 1
           /\ \A x, y \in DOMAIN number :
                 number[x] < number[y] <=>
                    Cardinality(Below(number, x)) < Cardinality(Below(number, y))
           /\ \A n \in 0 .. Cardinality(DOMAIN number) - 1 :
                 \E x \in DOMAIN number : Cardinality(Below(number, x)) = n
<1> DEFINE S == DOMAIN number
           size == Cardinality(S)
           rank(x) == Cardinality(Below(number, x))
<1>1. /\ IsFiniteSet(S) /\ size \in Nat
      /\ \A x \in S : number[x] \in Nat
      /\ \A x, y \in S : number[x] = number[y] => x = y
  BY FS_CardinalityType DEF Numbering
<1>2. ASSUME NEW x \in S PROVE IsFiniteSet(Below(number, x)) /\ rank(x) \in 0 .. size - 1
  <2>1. Below(number, x) \subseteq S \ {x}
    BY <1>1 DEF Below
  <2>2. IsFiniteSet(S \ {x}) /\ Cardinality(S \ {x}) = size - 1
    BY <1>1, FS_RemoveElement
  <2>3. /\ IsFiniteSet(Below(number, x))
        /\ rank(x) <= Cardinality(S \ {x})
        /\ rank(x) \in Nat
    BY <2>1, <2>2, FS_Subset, FS_CardinalityType
  <2> QED BY <1>1, <2>2, <2>3
<1>3. ASSUME NEW x \in S, NEW y \in S, number[x] < number[y] PROVE rank(x) < rank(y)
  <2>1. x \notin Below(number, x)
    BY <1>1 DEF Below
  <2>2. Below(number, x) \cup {x} \subseteq Below(number, y)
    BY <1>1, <1>3 DEF Below
  <2>3. Cardinality(Below(number, x) \cup {x}) = rank(x) + 1
    BY <1>2, <2>1, FS_AddElement
  <2>4. Cardinality(Below(number, x) \cup {x}) <= rank(y)
    BY <1>2, <2>2, FS_Subset
  <2>5. rank(x) \in Int /\ rank(y) \in Int
    BY <1>2
  <2> QED BY <2>3, <2>4, <2>5
<1>4. ASSUME NEW x \in S, NEW y \in S PROVE number[x] < number[y] <=> rank(x) < rank(y)
  <2>1. number[x] < number[y] \/ number[y] < number[x] \/ x = y
    BY <1>1
  <2>2. rank(x) \in Int /\ rank(y) \in Int
    BY <1>2
  <2> QED BY <1>3, <2>1, <2>2
<1>5. \A n \in 0 .. size - 1 : \E x \in S : rank(x) = n
  <2> DEFINE F == [x \in S |-> rank(x)]
             places == 0 .. size - 1
  <2>1. F \in Injection(S, places)
    <3>1. \A x \in S : F[x] \in places
      BY <1>2
    <3>2. \A x, y \in S : F[x] = F[y] => x = y
      <4> SUFFICES ASSUME NEW x \in S, NEW y \in S, rank(x) = rank(y) PROVE x = y
        OBVIOUS
      <4>1. rank(x) \in Int
        BY <1>2
      <4>2. ~(number[x] < number[y]) /\ ~(number[y] < number[x])
        BY <4>1, <1>4
      <4> QED BY <4>2, <1>1
    <3> HIDE DEF rank
    <3> QED BY <3>1, <3>2, Fun_IsInj
  <2>2. IsFiniteSet(places) /\ Cardinality(places) = size
    BY <1>1, FS_Interval
  <2>3. F \in Surjection(S, places)
    BY <1>1, <2>1, <2>2, FS_Injection
  <2> QED BY <2>3 DEF Surjection
<1> QED BY <1>2, <1>4, <1>5

(* A finite set of numbers that is not empty has a greatest and a least.   *)
LEMMA Extremes ==
    ASSUME NEW T \in SUBSET Nat, IsFiniteSet(T), T # {}
    PROVE  /\ Max(T) \in T /\ \A y \in T : y <= Max(T)
           /\ Min(T) \in T /\ \A y \in T : Min(T) <= y
<1> DEFINE number == [x \in T |-> x]
           rank(x) == Cardinality(Below(number, x))
           size == Cardinality(T)
<1>1. /\ \A x \in T : rank(x) \in 0 .. size - 1
      /\ \A x, y \in T : x < y <=> rank(x) < rank(y)
      /\ \A n \in 0 .. size - 1 : \E x \in T : rank(x) = n
  <2>1. Numbering(number) /\ DOMAIN number = T /\ \A x \in T : number[x] = x
    BY DEF Numbering
  <2> HIDE DEF number
  <2>2. /\ \A x \in T : rank(x) \in 0 .. size - 1
        /\ \A x, y \in T : number[x] < number[y] <=> rank(x) < rank(y)
        /\ \A n \in 0 .. size - 1 : \E x \in T : rank(x) = n
    BY <2>1, BelowOrder
  <2> HIDE DEF rank
  <2> QED BY <2>1, <2>2
<1> HIDE DEF rank
<1>2. size \in Nat /\ 0 \in 0 .. size - 1 /\ size - 1 \in 0 .. size - 1
  <2>1. PICK x \in T : TRUE
    OBVIOUS
  <2>2. rank(x) \in 0 .. size - 1 /\ size \in Nat
    BY <1>1, FS_CardinalityType
  <2> QED BY <2>2
<1>3. PICK least \in T : rank(least) = 0
  BY <1>1, <1>2
<1>4. PICK greatest \in T : rank(greatest) = size - 1
  BY <1>1, <1>2
<1>5. \A y \in T : least <= y /\ y <= greatest
  <2> SUFFICES ASSUME NEW y \in T PROVE least <= y /\ y <= greatest
    OBVIOUS
  <2>1. ~(y < least) /\ ~(greatest < y)
    BY <1>1, <1>2, <1>3, <1>4
  <2> QED BY <2>1
<1>6. \E x \in T : \A y \in T : x >= y
  BY <1>5
<1>7. \E x \in T : \A y \in T : x <= y
  BY <1>5
<1>8. Max(T) \in T /\ \A y \in T : Max(T) >= y
  BY <1>6 DEF Max
<1>9. Min(T) \in T /\ \A y \in T : Min(T) <= y
  BY <1>7 DEF Min
<1> QED BY <1>8, <1>9

(* The values of a function on a finite set.                               *)
LEMMA ImageFinite ==
    ASSUME NEW S, IsFiniteSet(S), NEW f
    PROVE  /\ IsFiniteSet({f[x] : x \in S})
           /\ Cardinality({f[x] : x \in S}) <= Cardinality(S)
<1> DEFINE T == {f[x] : x \in S}
           g == [x \in S |-> f[x]]
<1>1. g \in Surjection(S, T)
  <2>1. g \in [S -> T] /\ \A t \in T : \E x \in S : g[x] = t
    OBVIOUS
  <2> QED BY <2>1 DEF Surjection
<1> HIDE DEF g, T
<1>2. IsFiniteSet(T) /\ Cardinality(T) <= Cardinality(S)
  BY <1>1, FS_Surjection
<1> QED BY <1>2 DEF T

(* A pair of places as one number, as JobNumbers counts them.              *)
LEMMA PairOfPlaces ==
    ASSUME NEW a \in Nat, NEW b \in Nat, NEW i \in Nat, NEW j \in Nat, NEW K \in Nat,
           i \in 1 .. K, j \in 1 .. K, a * (K + 1) + i = b * (K + 1) + j
    PROVE  a = b /\ i = j
<1>1. ASSUME NEW c \in Nat, NEW d \in Nat, c < d PROVE d * (K + 1) >= c * (K + 1) + (K + 1)
  <2>1. PICK n \in Nat : d = c + 1 + n
    <3>1. d - c - 1 \in Nat /\ d = c + 1 + (d - c - 1)
      BY <1>1
    <3> QED BY <3>1
  <2>2. d * (K + 1) = c * (K + 1) + (K + 1) + n * (K + 1)
    BY <2>1
  <2>3. n * (K + 1) \in Nat /\ c * (K + 1) \in Nat
    OBVIOUS
  <2> QED BY <2>2, <2>3
<1>2. a * (K + 1) \in Nat /\ b * (K + 1) \in Nat
  OBVIOUS
<1>3. ~(a < b)
  <2> SUFFICES ASSUME a < b PROVE FALSE
    OBVIOUS
  <2>1. b * (K + 1) >= a * (K + 1) + (K + 1)
    BY <1>1
  <2> QED BY <1>2, <2>1
<1>4. ~(b < a)
  <2> SUFFICES ASSUME b < a PROVE FALSE
    OBVIOUS
  <2>1. a * (K + 1) >= b * (K + 1) + (K + 1)
    BY <1>1
  <2> QED BY <1>2, <2>1
<1>5. a = b
  BY <1>3, <1>4
<1>6. i = j
  BY <1>2, <1>5
<1> QED BY <1>5, <1>6

-----------------------------------------------------------------------------
(* A list that has every element of a set once.                            *)
ListingOf(list, D) ==
    \E m \in Nat :
        /\ list \in [1 .. m -> D]
        /\ \A i, j \in 1 .. m : list[i] = list[j] => i = j
        /\ \A x \in D : \E i \in 1 .. m : list[i] = x

LEMMA ReverseListing ==
    ASSUME NEW list, NEW D, ListingOf(list, D)
    PROVE  ListingOf(Reverse(list), D)
<1>1. PICK m \in Nat :
        /\ list \in [1 .. m -> D]
        /\ \A i, j \in 1 .. m : list[i] = list[j] => i = j
        /\ \A x \in D : \E i \in 1 .. m : list[i] = x
  BY DEF ListingOf
<1>2. Len(list) = m
  BY <1>1
<1>3. Reverse(list) = [i \in 1 .. m |-> list[(m - i) + 1]]
  BY <1>2 DEF Reverse
<1> DEFINE back == Reverse(list)
<1>4. \A i \in 1 .. m : (m - i) + 1 \in 1 .. m /\ back[i] = list[(m - i) + 1]
  BY <1>3
<1>5. back \in [1 .. m -> D]
  BY <1>1, <1>3, <1>4
<1> HIDE DEF back
<1>6. ASSUME NEW i \in 1 .. m, NEW j \in 1 .. m, back[i] = back[j] PROVE i = j
  <2>1. (m - i) + 1 = (m - j) + 1
    BY <1>1, <1>4, <1>6
  <2> QED BY <2>1
<1>7. ASSUME NEW x \in D PROVE \E i \in 1 .. m : back[i] = x
  <2>1. PICK i \in 1 .. m : list[i] = x
    BY <1>1
  <2>2. (m - i) + 1 \in 1 .. m /\ (m - ((m - i) + 1)) + 1 = i
    OBVIOUS
  <2> QED BY <1>4, <2>1, <2>2
<1> QED BY <1>5, <1>6, <1>7 DEF ListingOf, back

-----------------------------------------------------------------------------
(* Sums: as many units as the scores of the elements have together.        *)
Column(score, x) == {x} \X (1 .. score[x])
Units(score, S) == UNION {Column(score, x) : x \in S}
Weight(score, S) == Cardinality(Units(score, S))

Weighted(score, S) == IsFiniteSet(S) /\ \A x \in S : score[x] \in Nat

(* Of the finite sets in a collection, one has fewest elements.            *)
LEMMA SmallestSubset ==
    ASSUME NEW S, IsFiniteSet(S), NEW W \in SUBSET SUBSET S, W # {}
    PROVE  \E T \in W : \A U \in W : ~(Cardinality(U) < Cardinality(T))
<1> DEFINE sizes == {n \in 0 .. Cardinality(S) : \E T \in W : n = Cardinality(T)}
           least == Min(sizes)
<1>1. Cardinality(S) \in Nat
  BY FS_CardinalityType
<1>2. \A T \in W : Cardinality(T) \in sizes
  <2> SUFFICES ASSUME NEW T \in W PROVE Cardinality(T) \in 0 .. Cardinality(S)
    OBVIOUS
  <2>1. IsFiniteSet(T) /\ Cardinality(T) <= Cardinality(S) /\ Cardinality(T) \in Nat
    BY FS_Subset, FS_CardinalityType
  <2> QED BY <1>1, <2>1
<1>3. sizes \in SUBSET Nat /\ sizes # {} /\ IsFiniteSet(sizes)
  <2>1. sizes \subseteq 0 .. Cardinality(S) /\ 0 .. Cardinality(S) \subseteq Nat
    BY <1>1
  <2>2. IsFiniteSet(0 .. Cardinality(S))
    BY <1>1, FS_Interval
  <2>3. sizes # {}
    BY <1>2
  <2> HIDE DEF sizes
  <2> QED BY <2>1, <2>2, <2>3, FS_Subset
<1>4. least \in sizes /\ \A n \in sizes : least <= n
  BY <1>3, Extremes
<1>5. least \in Nat /\ \A n \in sizes : n \in Nat
  BY <1>3, <1>4
<1> HIDE DEF least
<1>6. PICK T \in W : least = Cardinality(T)
  BY <1>4
<1> HIDE DEF sizes
<1>7. ASSUME NEW U \in W PROVE ~(Cardinality(U) < Cardinality(T))
  <2>1. least <= Cardinality(U) /\ Cardinality(U) \in Nat
    BY <1>2, <1>4, <1>5
  <2> QED BY <1>5, <1>6, <2>1
<1> QED BY <1>6, <1>7

LEMMA UnitsFinite ==
    ASSUME NEW score, NEW S, Weighted(score, S)
    PROVE  IsFiniteSet(Units(score, S)) /\ Weight(score, S) \in Nat
<1> DEFINE column == [x \in S |-> Column(score, x)]
<1>1. ASSUME NEW x \in S PROVE IsFiniteSet(Column(score, x))
  <2>1. PICK n \in Nat : n = score[x]
    BY DEF Weighted
  <2>2. IsFiniteSet(1 .. n)
    BY FS_Interval
  <2>3. IsFiniteSet({x})
    BY FS_Singleton
  <2>4. IsFiniteSet({x} \X (1 .. n))
    BY <2>2, <2>3, FS_Product
  <2> QED BY <2>1, <2>4 DEF Column
<1>2. IsFiniteSet({column[x] : x \in S})
  BY ImageFinite DEF Weighted
<1>3. {column[x] : x \in S} = {Column(score, x) : x \in S}
  OBVIOUS
<1>4. IsFiniteSet(Units(score, S))
  <2> DEFINE C == {Column(score, x) : x \in S}
  <2>1. IsFiniteSet(C) /\ \A T \in C : IsFiniteSet(T)
    BY <1>1, <1>2, <1>3
  <2> HIDE DEF C
  <2>2. IsFiniteSet(UNION C)
    BY <2>1, FS_UNION
  <2> QED BY <2>2 DEF C, Units
<1> QED BY <1>4, FS_CardinalityType DEF Weight

LEMMA WeightEmpty ==
    ASSUME NEW score
    PROVE  Weight(score, {}) = 0
<1>1. Units(score, {}) = {}
  BY DEF Units
<1> QED BY <1>1, FS_EmptySet DEF Weight

(* The sum over two sets that have nothing in common.                      *)
LEMMA WeightUnion ==
    ASSUME NEW score, NEW S, NEW T, Weighted(score, S), Weighted(score, T), S \cap T = {}
    PROVE  Weight(score, S \cup T) = Weight(score, S) + Weight(score, T)
<1>1. Units(score, S \cup T) = Units(score, S) \cup Units(score, T)
  BY DEF Units
<1>2. Units(score, S) \cap Units(score, T) = {}
  BY DEF Units, Column
<1>3. /\ IsFiniteSet(Units(score, S)) /\ IsFiniteSet(Units(score, T))
      /\ Weight(score, S) \in Nat /\ Weight(score, T) \in Nat
  BY UnitsFinite
<1>4. Cardinality(Units(score, S) \cap Units(score, T)) = 0
  BY <1>2, FS_EmptySet
<1>5. Weight(score, S \cup T) = Weight(score, S) + Weight(score, T) - 0
  BY <1>1, <1>3, <1>4, FS_Union DEF Weight
<1> QED BY <1>3, <1>5

LEMMA WeightSingle ==
    ASSUME NEW score, NEW x, score[x] \in Nat
    PROVE  Weighted(score, {x}) /\ Weight(score, {x}) = score[x]
<1>1. PICK n \in Nat : n = score[x]
  OBVIOUS
<1>2. IsFiniteSet({x}) /\ Cardinality({x}) = 1
  BY FS_Singleton
<1>3. IsFiniteSet(1 .. n) /\ Cardinality(1 .. n) = n
  BY FS_Interval
<1>4. Units(score, {x}) = {x} \X (1 .. n)
  BY <1>1 DEF Units, Column
<1>5. Cardinality({x} \X (1 .. n)) = 1 * n
  BY <1>2, <1>3, FS_Product
<1>6. Weight(score, {x}) = n
  BY <1>4, <1>5 DEF Weight
<1> QED BY <1>1, <1>2, <1>6 DEF Weighted

LEMMA WeightAdd ==
    ASSUME NEW score, NEW S, NEW x \in S, Weighted(score, S)
    PROVE  /\ Weighted(score, S \ {x})
           /\ Weight(score, S) = score[x] + Weight(score, S \ {x})
<1>1. Weighted(score, S \ {x}) /\ score[x] \in Nat
  BY FS_RemoveElement DEF Weighted
<1>2. Weighted(score, {x}) /\ Weight(score, {x}) = score[x]
  BY <1>1, WeightSingle
<1>3. Weight(score, {x} \cup (S \ {x})) = Weight(score, {x}) + Weight(score, S \ {x})
  BY <1>1, <1>2, WeightUnion
<1>4. {x} \cup (S \ {x}) = S
  OBVIOUS
<1> QED BY <1>1, <1>2, <1>3, <1>4

(* A part of a set weighs no more, and as much if the rest has no score.   *)
LEMMA WeightPart ==
    ASSUME NEW score, NEW S, NEW T \in SUBSET S, Weighted(score, S)
    PROVE  /\ Weight(score, T) <= Weight(score, S)
           /\ (\A x \in S \ T : score[x] = 0) => Weight(score, T) = Weight(score, S)
<1>1. Units(score, T) \subseteq Units(score, S) /\ IsFiniteSet(Units(score, S))
  BY UnitsFinite DEF Units
<1>2. Weight(score, T) <= Weight(score, S)
  BY <1>1, FS_Subset DEF Weight
<1>3. ASSUME \A x \in S \ T : score[x] = 0 PROVE Weight(score, T) = Weight(score, S)
  <2>1. \A x \in S \ T : Column(score, x) = {}
    BY <1>3 DEF Column
  <2>2. Units(score, T) = Units(score, S)
    BY <2>1 DEF Units
  <2> QED BY <2>2 DEF Weight
<1> QED BY <1>2, <1>3

-----------------------------------------------------------------------------
(* Total adds up the scores.                                               *)
Summed(score, S, f) ==
    f = [s \in SUBSET S |->
            IF s = {} THEN 0
            ELSE LET x == CHOOSE x \in s : TRUE IN score[x] + f[s \ {x}]]

LEMMA SumExists ==
    ASSUME NEW score, NEW S, Weighted(score, S)
    PROVE  Summed(score, S, [s \in SUBSET S |-> Weight(score, s)])
<1> DEFINE f == [s \in SUBSET S |-> Weight(score, s)]
           x(s) == CHOOSE x \in s : TRUE
<1>1. \A s \in SUBSET S : Weighted(score, s)
  BY FS_Subset DEF Weighted
<1>2. ASSUME NEW s \in SUBSET S, s # {} PROVE Weight(score, s) = score[x(s)] + f[s \ {x(s)}]
  <2>1. x(s) \in s
    BY <1>2
  <2> HIDE DEF x
  <2>2. s \ {x(s)} \in SUBSET S
    OBVIOUS
  <2>3. Weight(score, s) = score[x(s)] + Weight(score, s \ {x(s)})
    BY <1>1, <2>1, WeightAdd
  <2>4. f[s \ {x(s)}] = Weight(score, s \ {x(s)})
    BY <2>2
  <2> QED BY <2>3, <2>4
<1>3. \A s \in SUBSET S : f[s] = IF s = {} THEN 0 ELSE score[x(s)] + f[s \ {x(s)}]
  BY <1>2, WeightEmpty
<1>4. f = [s \in SUBSET S |-> f[s]]
  OBVIOUS
<1> HIDE DEF f
<1>5. Summed(score, S, f)
  BY <1>3, <1>4 DEF Summed
<1> QED BY <1>5 DEF f

LEMMA SumUnique ==
    ASSUME NEW score, NEW S, Weighted(score, S), NEW f, Summed(score, S, f)
    PROVE  f[S] = Weight(score, S)
<1> DEFINE Wrong == {s \in SUBSET S : f[s] # Weight(score, s)}
<1>1. ASSUME Wrong # {} PROVE FALSE
  <2>1. IsFiniteSet(S) /\ Wrong \in SUBSET SUBSET S
    BY DEF Weighted
  <2>2. PICK s \in Wrong : \A u \in Wrong : ~(Cardinality(u) < Cardinality(s))
    <3> HIDE DEF Wrong
    <3> QED BY <1>1, <2>1, SmallestSubset
  <2>3. s \in SUBSET S /\ IsFiniteSet(s) /\ Cardinality(s) \in Nat /\ Weighted(score, s)
    BY <2>1, FS_Subset, FS_CardinalityType DEF Weighted
  <2>4. f[s] = IF s = {} THEN 0
               ELSE LET x == CHOOSE x \in s : TRUE IN score[x] + f[s \ {x}]
    BY <2>3 DEF Summed
  <2>5. CASE s = {}
    BY <2>4, <2>5, WeightEmpty
  <2>6. CASE s # {}
    <3>1. PICK x \in s : f[s] = score[x] + f[s \ {x}]
      BY <2>4, <2>6
    <3>2. Weight(score, s) = score[x] + Weight(score, s \ {x})
      BY ONLY <2>3, x \in s, WeightAdd
    <3>3. Cardinality(s \ {x}) < Cardinality(s)
      <4>1. Cardinality(s \ {x}) = Cardinality(s) - 1
        BY <2>3, FS_RemoveElement
      <4> QED BY <2>3, <4>1
    <3>4. s \ {x} \in SUBSET S /\ s \ {x} \notin Wrong
      BY <2>2, <2>3, <3>3
    <3>5. f[s \ {x}] = Weight(score, s \ {x})
      BY <3>4
    <3> QED BY <3>1, <3>2, <3>5
  <2> QED BY <2>5, <2>6
<1>2. S \notin Wrong
  BY <1>1
<1> QED BY <1>2

(* The sum of the sums over the parts of a set.                            *)
Whole(part, I) == UNION {part[i] : i \in I}

LEMMA SumOfParts ==
    ASSUME NEW score, NEW I, IsFiniteSet(I), NEW part,
           \A i \in I : Weighted(score, part[i]),
           \A i, j \in I : i # j => part[i] \cap part[j] = {},
           NEW sum, \A i \in I : sum[i] = Weight(score, part[i])
    PROVE  /\ Weighted(sum, I)
           /\ Weight(sum, I) = Weight(score, Whole(part, I))
<1> DEFINE Wrong == {J \in SUBSET I : Weight(sum, J) # Weight(score, Whole(part, J))}
<1>1. Weighted(sum, I)
  BY UnitsFinite DEF Weighted
<1>2. ASSUME NEW J \in SUBSET I PROVE Weighted(sum, J) /\ Weighted(score, Whole(part, J))
  <2>1. IsFiniteSet(J)
    BY FS_Subset
  <2>2. IsFiniteSet({part[i] : i \in J})
    BY <2>1, ImageFinite
  <2>3. \A T \in {part[i] : i \in J} : IsFiniteSet(T)
    BY DEF Weighted
  <2>4. IsFiniteSet(Whole(part, J))
    BY <2>2, <2>3, FS_UNION DEF Whole
  <2> QED BY <1>1, <2>1, <2>4 DEF Weighted, Whole
<1>3. ASSUME Wrong # {} PROVE FALSE
  <2>1. PICK J \in Wrong : \A U \in Wrong : ~(Cardinality(U) < Cardinality(J))
    <3>1. Wrong \in SUBSET SUBSET I
      OBVIOUS
    <3> HIDE DEF Wrong
    <3> QED BY <1>3, <3>1, SmallestSubset
  <2>2. /\ J \in SUBSET I /\ IsFiniteSet(J) /\ Cardinality(J) \in Nat
        /\ Weight(sum, J) # Weight(score, Whole(part, J))
    BY <2>1, FS_Subset, FS_CardinalityType
  <2>3. CASE J = {}
    <3>1. Whole(part, J) = {}
      BY <2>3 DEF Whole
    <3> QED BY <2>2, <2>3, <3>1, WeightEmpty
  <2>4. CASE J # {}
    <3>1. PICK i \in J : TRUE
      BY <2>4
    <3>2. Cardinality(J \ {i}) < Cardinality(J)
      <4>1. Cardinality(J \ {i}) = Cardinality(J) - 1
        BY <2>2, FS_RemoveElement
      <4> QED BY <2>2, <4>1
    <3>3. J \ {i} \in SUBSET I /\ J \ {i} \notin Wrong
      BY <2>1, <2>2, <3>2
    <3>4. Weight(sum, J \ {i}) = Weight(score, Whole(part, J \ {i}))
      BY <3>3
    <3>5. Weight(sum, J) = sum[i] + Weight(sum, J \ {i})
      <4>1. Weighted(sum, J)
        BY <1>2, <2>2
      <4> HIDE DEF Wrong
      <4> QED BY ONLY <4>1, i \in J, WeightAdd
    <3>6. /\ Whole(part, J) = part[i] \cup Whole(part, J \ {i})
          /\ part[i] \cap Whole(part, J \ {i}) = {}
      BY <2>2 DEF Whole
    <3>7. Weight(score, Whole(part, J)) = Weight(score, part[i]) + Weight(score, Whole(part, J \ {i}))
      <4>1. Weighted(score, part[i]) /\ Weighted(score, Whole(part, J \ {i}))
        BY <1>2, <2>2, <3>3
      <4> QED BY ONLY <3>6, <4>1, WeightUnion
    <3>8. sum[i] = Weight(score, part[i])
      BY <2>2
    <3> QED BY <2>2, <3>4, <3>5, <3>7, <3>8
  <2> QED BY <2>3, <2>4
<1>4. I \notin Wrong
  BY <1>3
<1> QED BY <1>1, <1>4

(* SumFunction is such a sum, and a function that is 0 wherever another    *)
(* one has no value has the same.                                          *)
LEMMA SumIsWeight ==
    ASSUME NEW score, Weighted(score, DOMAIN score)
    PROVE  SumFunction(score) = Weight(score, DOMAIN score)
<1> DEFINE f == CHOOSE f : Summed(score, DOMAIN score, f)
<1>1. SumFunction(score) = f[DOMAIN score]
  BY Zenon DEF SumFunction, SumFunctionOnSet, FoldFunctionOnSet, MapThenFoldSet, Summed
<1>2. Summed(score, DOMAIN score, f)
  BY SumExists
<1> HIDE DEF f
<1> QED BY <1>1, <1>2, SumUnique

LEMMA SumExtended ==
    ASSUME NEW S, IsFiniteSet(S), NEW score \in [S -> Nat], NEW part, DOMAIN part \subseteq S,
           \A x \in S : score[x] = IF x \in DOMAIN part THEN part[x] ELSE 0
    PROVE  SumFunction(score) = SumFunction(part) /\ SumFunction(part) \in Nat
<1> DEFINE T == DOMAIN part
<1>1. /\ Weighted(score, S) /\ DOMAIN score = S
      /\ Weighted(score, T) /\ Weighted(part, T)
  BY FS_Subset DEF Weighted
<1>2. Weight(score, T) = Weight(score, S)
  BY <1>1, WeightPart
<1>3. Units(score, T) = Units(part, T)
  <2>1. \A x \in T : Column(score, x) = Column(part, x)
    BY DEF Column
  <2> QED BY <2>1 DEF Units
<1>4. Weight(part, T) = Weight(score, S)
  BY <1>2, <1>3 DEF Weight
<1> QED BY <1>1, <1>4, SumIsWeight, UnitsFinite
=============================================================================
