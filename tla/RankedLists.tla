---------------------------- MODULE RankedLists ----------------------------
(***************************************************************************)
(* Facts about listing a finite set in an order, which is how build_snapshot *)
(* and for_each walk a ladder: the element at position i is the one with   *)
(* i - 1 elements ahead of it.  Orders are sets of pairs, <<x, y>> when x  *)
(* comes before y.                                                         *)
(***************************************************************************)
EXTENDS Integers, FiniteSets, FiniteSetTheorems, TLAPS

StrictOrder(S, R) ==
    /\ \A x \in S : <<x, x>> \notin R
    /\ \A x, y \in S : x # y => <<x, y>> \in R \/ <<y, x>> \in R
    /\ \A x, y, z \in S : <<x, y>> \in R /\ <<y, z>> \in R => <<x, z>> \in R

AheadIn(S, R, x) == {y \in S : <<y, x>> \in R}
RankIn(S, R, x) == 1 + Cardinality(AheadIn(S, R, x))
Ranked(S, R) == [i \in 1..Cardinality(S) |-> CHOOSE x \in S : RankIn(S, R, x) = i]

(* Ranks grow along the order and stay within the size of the set. *)
LEMMA RankGrows ==
    ASSUME NEW S, IsFiniteSet(S), NEW R, StrictOrder(S, R)
    PROVE  /\ Cardinality(S) \in Nat
           /\ \A x \in S : RankIn(S, R, x) \in 1..Cardinality(S)
           /\ \A x, y \in S : <<x, y>> \in R => RankIn(S, R, x) < RankIn(S, R, y)
<1>1. Cardinality(S) \in Nat
  BY FS_CardinalityType
<1>2. ASSUME NEW x \in S
      PROVE  IsFiniteSet(AheadIn(S, R, x)) /\ Cardinality(AheadIn(S, R, x)) \in Nat
  <2>1. AheadIn(S, R, x) \in SUBSET S
    BY DEF AheadIn
  <2>2. QED
    BY <2>1, FS_Subset, FS_CardinalityType
<1>3. ASSUME NEW x \in S
      PROVE  RankIn(S, R, x) \in 1..Cardinality(S)
  <2>1. AheadIn(S, R, x) \in SUBSET (S \ {x})
    BY DEF AheadIn, StrictOrder
  <2>2. IsFiniteSet(S \ {x}) /\ Cardinality(S \ {x}) = Cardinality(S) - 1
    BY FS_RemoveElement
  <2>3. Cardinality(AheadIn(S, R, x)) <= Cardinality(S) - 1
    BY <2>1, <2>2, FS_Subset
  <2>4. QED
    BY <1>1, <1>2, <2>3 DEF RankIn
<1>4. ASSUME NEW x \in S, NEW y \in S, <<x, y>> \in R
      PROVE  RankIn(S, R, x) < RankIn(S, R, y)
  <2>1. AheadIn(S, R, x) \in SUBSET AheadIn(S, R, y)
    BY <1>4 DEF AheadIn, StrictOrder
  <2>2. x \in AheadIn(S, R, y) /\ x \notin AheadIn(S, R, x)
    BY <1>4 DEF AheadIn, StrictOrder
  <2>3. /\ Cardinality(AheadIn(S, R, x)) <= Cardinality(AheadIn(S, R, y))
        /\ Cardinality(AheadIn(S, R, x)) # Cardinality(AheadIn(S, R, y))
    BY <1>2, <2>1, <2>2, FS_Subset
  <2>4. QED
    BY <1>2, <2>3 DEF RankIn
<1>5. QED
  BY <1>1, <1>3, <1>4

(* The list has every element of the set, and has them in the order. *)
LEMMA RankedProperties ==
    ASSUME NEW S, IsFiniteSet(S), NEW R, StrictOrder(S, R)
    PROVE  LET list == Ranked(S, R)
               n == Cardinality(S)
           IN  /\ n \in Nat /\ DOMAIN list = 1..n
               /\ \A i \in 1..n : list[i] \in S /\ RankIn(S, R, list[i]) = i
               /\ \A x \in S : RankIn(S, R, x) \in 1..n /\ list[RankIn(S, R, x)] = x
               /\ \A i, j \in 1..n : i < j => <<list[i], list[j]>> \in R
<1> DEFINE n == Cardinality(S)
           rank == [x \in S |-> RankIn(S, R, x)]
           list == Ranked(S, R)
<1>1. /\ n \in Nat
      /\ rank \in [S -> 1..n]
      /\ \A x, y \in S : <<x, y>> \in R => rank[x] < rank[y]
  BY RankGrows
<1>2. \A x, y \in S : rank[x] = rank[y] => x = y
  <2> SUFFICES ASSUME NEW x \in S, NEW y \in S, x # y PROVE rank[x] # rank[y]
    OBVIOUS
  <2>1. rank[x] < rank[y] \/ rank[y] < rank[x]
    BY <1>1 DEF StrictOrder
  <2>2. rank[x] \in Int /\ rank[y] \in Int
    BY <1>1
  <2>3. QED
    BY <2>1, <2>2
<1>3. rank \in Injection(S, 1..n)
  BY <1>1, <1>2 DEF Injection, IsInjective
<1>4. IsFiniteSet(1..n) /\ Cardinality(1..n) = n
  BY <1>1, FS_Interval
<1>5. rank \in Surjection(S, 1..n)
  <2> HIDE DEF rank
  <2>1. QED
    BY <1>3, <1>4, FS_Injection
<1>6. \A i \in 1..n : \E x \in S : rank[x] = i
  BY <1>5 DEF Surjection
<1>7. DOMAIN list = 1..n
  BY DEF Ranked
<1>8. ASSUME NEW i \in 1..n
      PROVE  list[i] \in S /\ rank[list[i]] = i
  <2>1. \E x \in S : RankIn(S, R, x) = i
    BY <1>6
  <2>2. list[i] = CHOOSE x \in S : RankIn(S, R, x) = i
    BY DEF Ranked
  <2>3. list[i] \in S /\ RankIn(S, R, list[i]) = i
    BY <2>1, <2>2
  <2>4. QED
    BY <2>3
<1>9. ASSUME NEW x \in S
      PROVE  rank[x] \in 1..n /\ list[rank[x]] = x
  BY <1>1, <1>2, <1>8
<1>10. ASSUME NEW i \in 1..n, NEW j \in 1..n, i < j
       PROVE  <<list[i], list[j]>> \in R
  <2>1. list[i] \in S /\ list[j] \in S /\ rank[list[i]] = i /\ rank[list[j]] = j
    BY <1>8
  <2>2. list[i] # list[j]
    BY <2>1, <1>10
  <2>3. <<list[j], list[i]>> \notin R
    BY <2>1, <1>1, <1>10
  <2>4. QED
    BY <2>1, <2>2, <2>3 DEF StrictOrder
<1>11. QED
  BY <1>1, <1>7, <1>8, <1>9, <1>10

(* A list that is in order is the list of its elements. *)
LEMMA SortedIsRanked ==
    ASSUME NEW n \in Nat, NEW list, NEW S, NEW R, StrictOrder(S, R),
           \A i \in 1..n : list[i] \in S,
           \A x \in S : \E i \in 1..n : x = list[i],
           \A i, j \in 1..n : i < j => <<list[i], list[j]>> \in R
    PROVE  /\ IsFiniteSet(S) /\ Cardinality(S) = n
           /\ \A i \in 1..n : Ranked(S, R)[i] = list[i]
<1>1. \A i \in 1..n : list[i] \in S
  OBVIOUS
<1>2. ASSUME NEW i \in 1..n, NEW j \in 1..n
      PROVE  <<list[i], list[j]>> \in R <=> i < j
  <2>1. list[i] \in S /\ list[j] \in S
    BY <1>1
  <2>2. CASE i < j
    BY <2>2
  <2>3. CASE i = j
    BY <2>1, <2>3 DEF StrictOrder
  <2>4. CASE j < i
    <3>1. <<list[j], list[i]>> \in R
      BY <2>4
    <3>2. <<list[i], list[j]>> \notin R
      BY <3>1, <2>1 DEF StrictOrder
    <3>3. QED
      BY <2>4, <3>2
  <2>5. QED
    BY <2>2, <2>3, <2>4
<1>3. ASSUME NEW i \in 1..n, NEW j \in 1..n, list[i] = list[j]
      PROVE  i = j
  <2>1. <<list[i], list[j]>> \notin R /\ <<list[j], list[i]>> \notin R
    BY <1>1, <1>3 DEF StrictOrder
  <2>2. ~(i < j) /\ ~(j < i)
    BY <2>1, <1>2
  <2>3. QED
    BY <2>2
<1>4. IsFiniteSet(S) /\ Cardinality(S) = n
  <2> DEFINE all == [i \in 1..n |-> list[i]]
  <2>1. all \in [1..n -> S]
    BY <1>1
  <2>2. all \in Bijection(1..n, S)
    BY <2>1, <1>3 DEF Bijection, Injection, Surjection, IsInjective
  <2>3. ExistsBijection(1..n, S)
    BY <2>2 DEF ExistsBijection
  <2>4. QED
    BY <2>3, FS_NatBijection, FS_CountingElements
<1>5. ASSUME NEW i \in 1..n
      PROVE  RankIn(S, R, list[i]) = i
  <2> DEFINE ahead == AheadIn(S, R, list[i])
             before == [j \in 1..(i - 1) |-> list[j]]
  <2>a. \A j \in 1..(i - 1) : j \in 1..n /\ j < i
    OBVIOUS
  <2>b. \A j \in 1..n : j < i => j \in 1..(i - 1)
    OBVIOUS
  <2>1. ahead = {list[j] : j \in 1..(i - 1)}
    <3>1. \A x \in ahead : \E j \in 1..n : x = list[j] /\ j < i
      BY <1>2 DEF AheadIn
    <3>2. \A j \in 1..(i - 1) : list[j] \in ahead
      BY <1>1, <1>2, <2>a DEF AheadIn
    <3>3. QED
      BY <3>1, <3>2, <2>b
  <2>2. before \in Bijection(1..(i - 1), ahead)
    <3>1. before \in [1..(i - 1) -> ahead]
      BY <2>1
    <3>2. \A j, k \in 1..(i - 1) : before[j] = before[k] => j = k
      BY <1>3, <2>a
    <3>3. QED
      BY <2>1, <3>1, <3>2 DEF Bijection, Injection, Surjection, IsInjective
  <2>3. ExistsBijection(1..(i - 1), ahead)
    BY <2>2 DEF ExistsBijection
  <2>4. i - 1 \in Nat
    OBVIOUS
  <2>5. Cardinality(ahead) = i - 1
    BY <2>3, <2>4, FS_CountingElements
  <2>6. QED
    BY <2>5 DEF RankIn
<1>6. ASSUME NEW i \in 1..n
      PROVE  Ranked(S, R)[i] = list[i]
  <2>1. list[i] \in S /\ RankIn(S, R, list[i]) = i
    BY <1>5
  <2>2. DOMAIN Ranked(S, R) = 1..n /\ Ranked(S, R)[RankIn(S, R, list[i])] = list[i]
    BY <2>1, <1>4, RankedProperties
  <2>3. QED
    BY <2>1, <2>2
<1>7. QED
  BY <1>4, <1>6

============================================================================
