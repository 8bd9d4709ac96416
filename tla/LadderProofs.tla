---------------------------- MODULE LadderProofs ----------------------------
(***************************************************************************)
(* The three price ladders beside each other, for any prices, widths and   *)
(* callers: the sorted vector always answers as the map does, and the      *)
(* array's count and best index are right after any sequence of calls.     *)
(* The shares a slot shows are those of the orders whose prices fall into  *)
(* it, so on the grid the array answers as the map does.                   *)
(***************************************************************************)
EXTENDS LadderShootout, RankedLists, SequenceTheorems

(* "Best first" as a set of pairs. *)
Ahead == {z \in Nat \X Nat : Better(z[1], z[2])}

Level == [price : Nat, total_shares : Int, order_count : Int]

(* The vector is sorted, and has the levels of the map and no others. *)
Agree(list, levels, R) ==
    /\ list \in Seq(Level)
    /\ \A i, j \in 1..Len(list) : i < j => <<list[i].price, list[j].price>> \in R
    /\ DOMAIN levels = {list[i].price : i \in 1..Len(list)}
    /\ \A i \in 1..Len(list) : levels[list[i].price] = list[i]

(* A price belongs at position i of a sorted list. *)
Belongs(p, list, i, R) ==
    \A k \in 1..Len(list) : IF k < i THEN <<list[k].price, p>> \in R ELSE <<p, list[k].price>> \in R

(* The map has a level more. *)
HasAlso(levels2, levels, new) ==
    /\ DOMAIN levels2 = DOMAIN levels \cup {new.price}
    /\ levels2[new.price] = new
    /\ \A q \in DOMAIN levels : levels2[q] = levels[q]

FlatInv == Agree(flat, map, Ahead)

----------------------------------------------------------------------------
(* Prices and slots are strictly ordered on either side. *)
LEMMA AheadOrders ==
    ASSUME NEW S \in SUBSET Nat, side \in {"Bid", "Ask"}
    PROVE  /\ StrictOrder(S, Ahead)
           /\ \A a, b \in Nat : <<a, b>> \in Ahead <=> Better(a, b)
BY DEF StrictOrder, Ahead, Better

(* A set of positions that has with each all earlier ones is an interval. *)
LEMMA EarlierOnes ==
    ASSUME NEW n \in Nat, NEW A \in SUBSET (1..n),
           \A i \in A : \A j \in 1..n : j < i => j \in A
    PROVE  /\ Cardinality(A) \in 0..n
           /\ \A i \in 1..n : i \in A <=> i <= Cardinality(A)
<1>1. IsFiniteSet(1..n) /\ Cardinality(1..n) = n
  BY FS_Interval
<1>2. IsFiniteSet(A) /\ Cardinality(A) <= n /\ Cardinality(A) \in Nat
  BY <1>1, FS_Subset, FS_CardinalityType
<1>3. ASSUME NEW i \in 1..n, i \in A
      PROVE  i <= Cardinality(A)
  <2>1. 1..i \in SUBSET A
    BY <1>3
  <2>2. Cardinality(1..i) = i
    BY FS_Interval
  <2>3. QED
    BY <1>2, <2>1, <2>2, FS_Subset
<1>4. ASSUME NEW i \in 1..n, i \notin A
      PROVE  Cardinality(A) < i
  <2>1. A \in SUBSET (1..(i - 1))
    BY <1>4
  <2>2. IsFiniteSet(1..(i - 1)) /\ Cardinality(1..(i - 1)) = i - 1
    BY FS_Interval
  <2>3. Cardinality(A) <= i - 1
    BY <2>1, <2>2, FS_Subset
  <2>4. QED
    BY <1>2, <2>3
<1>5. QED
  BY <1>2, <1>3, <1>4

(* lower_bound on the sorted vector: what is before the position is        *)
(* better than p, what is from it on is not, and p is there if anywhere.   *)
LEMMA LowerBoundFinds ==
    ASSUME side \in {"Bid", "Ask"}, Agree(flat, map, Ahead), NEW p \in Nat
    PROVE  /\ LowerBound(p) \in 1..(Len(flat) + 1)
           /\ \A i \in 1..Len(flat) : <<flat[i].price, p>> \in Ahead <=> i < LowerBound(p)
           /\ Hit(p) <=> p \in DOMAIN map
           /\ ~Hit(p) => \A i \in 1..Len(flat) : i >= LowerBound(p) => <<p, flat[i].price>> \in Ahead
<1> DEFINE n == Len(flat)
           A == {i \in DOMAIN flat : Better(flat[i].price, p)}
<1>1. /\ n \in Nat /\ DOMAIN flat = 1..n
      /\ \A i \in 1..n : flat[i].price \in Nat
  <2>1. flat \in Seq(Level)
    BY DEF Agree
  <2>2. n \in Nat /\ DOMAIN flat = 1..n /\ \A i \in 1..n : flat[i] \in Level
    BY <2>1, LenProperties, ElementOfSeq
  <2>3. QED
    BY <2>2 DEF Level
<1>2. \A i, j \in 1..n : i < j => <<flat[i].price, flat[j].price>> \in Ahead
  BY DEF Agree
<1>3. \A i \in 1..n : i \in A <=> <<flat[i].price, p>> \in Ahead
  BY <1>1, AheadOrders
<1>4. A \in SUBSET (1..n)
  BY <1>1
<1>5. StrictOrder(Nat, Ahead)
  BY AheadOrders
<1>6. \A i \in A : \A j \in 1..n : j < i => j \in A
  <2> SUFFICES ASSUME NEW i \in 1..n, i \in A, NEW j \in 1..n, j < i
               PROVE  j \in A
    BY <1>4
  <2>1. <<flat[j].price, flat[i].price>> \in Ahead /\ <<flat[i].price, p>> \in Ahead
    BY <1>2, <1>3
  <2>2. <<flat[j].price, p>> \in Ahead
    BY <1>1, <1>5, <2>1 DEF StrictOrder
  <2>3. QED
    BY <1>3, <2>2
<1>7. LowerBound(p) = 1 + Cardinality(A)
  BY DEF LowerBound
<1> HIDE DEF A
<1>8. Cardinality(A) \in 0..n /\ \A i \in 1..n : i \in A <=> i <= Cardinality(A)
  BY <1>1, <1>4, <1>6, EarlierOnes
<1>9. /\ LowerBound(p) \in 1..(n + 1)
      /\ \A i \in 1..n : <<flat[i].price, p>> \in Ahead <=> i < LowerBound(p)
  BY <1>1, <1>3, <1>7, <1>8
<1>10. ASSUME Hit(p) PROVE p \in DOMAIN map
  BY <1>1, <1>9, <1>10 DEF Hit, Agree
<1>11. ASSUME p \in DOMAIN map PROVE Hit(p)
  <2>1. PICK k \in 1..n : flat[k].price = p
    BY <1>11 DEF Agree
  <2>2. <<p, p>> \notin Ahead
    BY <1>5 DEF StrictOrder
  <2>3. ~(k < LowerBound(p))
    BY <1>9, <2>1, <2>2
  <2>4. ~(LowerBound(p) < k)
    <3>1. SUFFICES ASSUME LowerBound(p) < k PROVE FALSE
      OBVIOUS
    <3>2. LowerBound(p) \in 1..n
      BY <1>1, <1>9, <3>1
    <3>3. <<flat[LowerBound(p)].price, p>> \in Ahead
      BY <1>2, <2>1, <3>1, <3>2
    <3>4. QED
      BY <1>1, <1>9, <3>2, <3>3
  <2>5. LowerBound(p) = k
    BY <1>1, <1>9, <2>3, <2>4
  <2>6. QED
    BY <1>1, <2>1, <2>5 DEF Hit
<1>12. ASSUME ~Hit(p), NEW i \in 1..n, i >= LowerBound(p)
       PROVE  <<p, flat[i].price>> \in Ahead
  <2>1. <<flat[i].price, p>> \notin Ahead
    BY <1>1, <1>9, <1>12
  <2>2. flat[i].price # p
    BY <1>11, <1>12 DEF Agree
  <2>3. QED
    BY <1>1, <1>5, <2>1, <2>2 DEF StrictOrder
<1>13. QED
  BY <1>9, <1>10, <1>11, <1>12

(* What insert does to a vector. *)
IsInsert(longer, list, i, e) ==
    /\ Len(longer) = Len(list) + 1
    /\ \A k \in 1..(Len(list) + 1) :
          /\ k < i => longer[k] = list[k]
          /\ k = i => longer[k] = e
          /\ k > i => longer[k] = list[k - 1]

(* std::vector::insert moves the tail up by one. *)
LEMMA Inserted ==
    ASSUME NEW L, NEW list \in Seq(L), NEW e \in L, NEW i \in 1..(Len(list) + 1)
    PROVE  LET longer == Vector!InsertAt(list, i, e)
           IN  longer \in Seq(L) /\ IsInsert(longer, list, i, e)
<1> DEFINE front == SubSeq(list, 1, i - 1)
           back == SubSeq(list, i, Len(list))
           n == Len(list)
<1>1. n \in Nat /\ DOMAIN list = 1..n
  OBVIOUS
<1>2. /\ front \in Seq(L) /\ Len(front) = i - 1
      /\ \A k \in 1..(i - 1) : front[k] = list[k]
  BY <1>1
<1>3. /\ back \in Seq(L) /\ Len(back) = n - i + 1
      /\ \A k \in 1..(n - i + 1) : back[k] = list[i + k - 1]
  BY <1>1
<1>4. <<e>> \in Seq(L) /\ Len(<<e>>) = 1 /\ <<e>>[1] = e
  OBVIOUS
<1>5. PICK one : one = <<e>>
  OBVIOUS
<1>6. Vector!InsertAt(list, i, e) = front \o one \o back
  BY <1>5 DEF Vector!InsertAt
<1> HIDE DEF front, back
<1>7. /\ front \o one \in Seq(L) /\ Len(front \o one) = i
      /\ \A k \in 1..i : (front \o one)[k] = IF k < i THEN list[k] ELSE e
  BY <1>1, <1>2, <1>4, <1>5
<1>8. PICK head : head = front \o one
  OBVIOUS
<1>9. /\ head \o back \in Seq(L) /\ Len(head \o back) = n + 1
      /\ \A k \in 1..(n + 1) : (head \o back)[k] = IF k <= i THEN head[k] ELSE back[k - i]
  <2>1. head \in Seq(L) /\ Len(head) = i
    BY <1>7, <1>8
  <2>2. Len(head) + Len(back) = n + 1
    BY <1>1, <1>3, <2>1
  <2>3. /\ head \o back \in Seq(L) /\ Len(head \o back) = Len(head) + Len(back)
        /\ \A k \in 1..(Len(head) + Len(back)) :
              (head \o back)[k] = IF k <= Len(head) THEN head[k] ELSE back[k - Len(head)]
    BY <1>3, <2>1, ConcatProperties
  <2>4. QED
    BY <2>1, <2>2, <2>3
<1>10. \A k \in 1..(n + 1) : k > i => back[k - i] = list[k - 1]
  BY <1>1, <1>3
<1> DEFINE longer == Vector!InsertAt(list, i, e)
<1>11. longer = head \o back
  BY <1>6, <1>8
<1> HIDE DEF longer
<1>12. ASSUME NEW k \in 1..(n + 1)
       PROVE  /\ k < i => longer[k] = list[k]
              /\ k = i => longer[k] = e
              /\ k > i => longer[k] = list[k - 1]
  <2>1. CASE k <= i
    <3>1. k \in 1..i /\ longer[k] = head[k]
      BY <1>9, <1>11, <2>1
    <3>2. QED
      BY <1>7, <1>8, <3>1
  <2>2. CASE k > i
    <3>1. ~(k <= i) /\ ~(k < i) /\ k # i
      BY <1>1, <2>2
    <3>2. longer[k] = back[k - i]
      BY <1>9, <1>11, <3>1
    <3>3. QED
      BY <1>10, <2>2, <3>1, <3>2
  <2>3. QED
    BY <1>1, <2>1, <2>2
<1>13. longer \in Seq(L) /\ IsInsert(longer, list, i, e)
  BY <1>9, <1>11, <1>12 DEF IsInsert
<1>14. QED
  BY <1>13 DEF longer

(* What erase does to a vector. *)
LEMMA Erased ==
    ASSUME NEW L, NEW list \in Seq(L), NEW i \in 1..Len(list)
    PROVE  LET new == Vector!RemoveAt(list, i)
           IN  /\ new \in Seq(L) /\ Len(new) = Len(list) - 1
               /\ \A k \in 1..(Len(list) - 1) : new[k] = IF k < i THEN list[k] ELSE list[k + 1]
<1> DEFINE front == SubSeq(list, 1, i - 1)
           back == SubSeq(list, i + 1, Len(list))
           n == Len(list)
<1>1. n \in Nat /\ DOMAIN list = 1..n
  OBVIOUS
<1>2. /\ front \in Seq(L) /\ Len(front) = i - 1
      /\ \A k \in 1..(i - 1) : front[k] = list[k]
  BY <1>1
<1>3. /\ back \in Seq(L) /\ Len(back) = n - i
      /\ \A k \in 1..(n - i) : back[k] = list[i + k]
  <2>1. /\ back \in Seq(L) /\ Len(back) = IF i + 1 <= n THEN n - (i + 1) + 1 ELSE 0
        /\ \A k \in 1..(n - (i + 1) + 1) : back[k] = list[i + 1 + k - 1]
    <3>1. i + 1 \in Int /\ n \in Int /\ \A k \in (i + 1)..n : list[k] \in L
      BY <1>1
    <3>2. QED
      BY <3>1, SubSeqProperties
  <2> HIDE DEF back
  <2>2. n - (i + 1) + 1 = n - i /\ \A k \in 1..(n - i) : i + 1 + k - 1 = i + k
    BY <1>1
  <2>3. Len(back) = n - i
    <3>1. Len(back) = IF i + 1 <= n THEN n - (i + 1) + 1 ELSE 0
      BY <2>1
    <3>2. n \in Int /\ i \in Int /\ i <= n
      BY <1>1
    <3> HIDE DEF n
    <3>3. QED
      BY <3>1, <3>2
  <2>4. ASSUME NEW k \in 1..(n - i) PROVE back[k] = list[i + k]
    BY <2>1, <2>2
  <2>5. QED
    BY <2>1, <2>3, <2>4
<1>4. Vector!RemoveAt(list, i) = front \o back
  BY DEF Vector!RemoveAt
<1> HIDE DEF front, back
<1>5. /\ front \o back \in Seq(L) /\ Len(front \o back) = n - 1
      /\ \A k \in 1..(n - 1) : (front \o back)[k] = IF k < i THEN front[k] ELSE back[k - (i - 1)]
  <2>1. Len(front) + Len(back) = n - 1
    BY <1>1, <1>2, <1>3
  <2>2. /\ front \o back \in Seq(L) /\ Len(front \o back) = Len(front) + Len(back)
        /\ \A k \in 1..(Len(front) + Len(back)) :
              (front \o back)[k] = IF k <= Len(front) THEN front[k] ELSE back[k - Len(front)]
    BY <1>2, <1>3, ConcatProperties
  <2>3. \A k \in 1..(n - 1) : k <= i - 1 <=> k < i
    BY <1>1
  <2>4. QED
    BY <1>2, <2>1, <2>2, <2>3
<1>6. \A k \in 1..(n - 1) : k >= i => back[k - (i - 1)] = list[k + 1]
  BY <1>1, <1>3
<1>7. \A k \in 1..(n - 1) : k < i => front[k] = list[k]
  BY <1>1, <1>2
<1>8. PICK new : new = front \o back
  OBVIOUS
<1>9. \A k \in 1..(n - 1) : new[k] = IF k < i THEN list[k] ELSE list[k + 1]
  <2> TAKE k \in 1..(n - 1)
  <2>1. CASE k < i
    BY <1>5, <1>7, <1>8, <2>1
  <2>2. CASE ~(k < i)
    <3>1. k >= i
      BY <1>1, <2>2
    <3>2. QED
      BY <1>5, <1>6, <1>8, <2>2, <3>1
  <2>3. QED
    BY <2>1, <2>2
<1>10. QED
  BY <1>4, <1>5, <1>8, <1>9

(* Remainders of what is small, and of anything. *)
LEMMA Remainders ==
    ASSUME NEW a \in Int, NEW m \in Nat \ {0}
    PROVE  a % m \in 0..(m - 1) /\ (a \in 0..(m - 1) => a % m = a)
OBVIOUS

(* Grown and Shrunk stay levels of the same price. *)
LEMMA LevelsStay ==
    ASSUME NEW level \in Level, NEW shares \in Nat, NEW full_removal \in BOOLEAN
    PROVE  /\ Grown(level, shares) \in Level /\ Grown(level, shares).price = level.price
           /\ Shrunk(level, shares, full_removal) \in Level
           /\ Shrunk(level, shares, full_removal).price = level.price
<1>1. /\ level.total_shares \in Int /\ level.order_count \in Int /\ level.price \in Nat
      /\ DOMAIN level = {"price", "total_shares", "order_count"}
  BY DEF Level
<1>2. /\ (level.total_shares + shares) % U64 \in Int /\ (level.total_shares - shares) % U64 \in Int
      /\ (level.order_count + 1) % U32 \in Int /\ (level.order_count - 1) % U32 \in Int
  <2>1. \A a \in Int : a % U64 \in Int /\ a % U32 \in Int
    BY LadderWidths
  <2>2. /\ level.total_shares + shares \in Int /\ level.total_shares - shares \in Int
        /\ level.order_count + 1 \in Int /\ level.order_count - 1 \in Int
    BY <1>1
  <2>3. QED
    BY <2>1, <2>2
<1>3. Grown(level, shares) \in Level /\ Grown(level, shares).price = level.price
  BY <1>1, <1>2 DEF Grown, Level
<1>4. /\ Shrunk(level, shares, full_removal) \in Level
      /\ Shrunk(level, shares, full_removal).price = level.price
  BY <1>1, <1>2 DEF Shrunk, Level
<1>5. QED
  BY <1>3, <1>4

(* A level changes in place, in the vector and in the map. *)
LEMMA ChangeAgrees ==
    ASSUME NEW list, NEW levels, NEW R, StrictOrder(Nat, R), Agree(list, levels, R),
           NEW i \in 1..Len(list), NEW new \in Level, new.price = list[i].price,
           NEW list2, list2 \in Seq(Level), Len(list2) = Len(list), list2[i] = new,
           \A k \in 1..Len(list) : k # i => list2[k] = list[k],
           NEW levels2, DOMAIN levels2 = DOMAIN levels, levels2[new.price] = new,
           \A q \in DOMAIN levels : q # new.price => levels2[q] = levels[q]
    PROVE  Agree(list2, levels2, R)
<1> DEFINE n == Len(list)
<1>1. list \in Seq(Level) /\ n \in Nat /\ DOMAIN list = 1..n
  BY DEF Agree
<1>2. /\ list2 \in Seq(Level) /\ Len(list2) = n
      /\ \A k \in 1..n : list2[k] = IF k = i THEN new ELSE list[k]
  BY <1>1
<1>3. \A k \in 1..n : list2[k].price = list[k].price
  BY <1>2
<1>4. \A j, k \in 1..n : j < k => <<list2[j].price, list2[k].price>> \in R
  BY <1>3 DEF Agree
<1>5. DOMAIN levels2 = {list2[k].price : k \in 1..n}
  <2>1. DOMAIN levels2 = {list[k].price : k \in 1..n}
    BY DEF Agree
  <2>2. QED
    BY <1>3, <2>1
<1>6. ASSUME NEW k \in 1..n PROVE levels2[list2[k].price] = list2[k]
  <2>1. list[k].price \in DOMAIN levels /\ levels[list[k].price] = list[k]
    BY DEF Agree
  <2>2. levels[list[i].price] = list[i]
    BY DEF Agree
  <2>3. levels2[list2[k].price] = IF list[k].price = new.price THEN new ELSE list[k]
    BY <1>3, <2>1
  <2>4. CASE list[k].price = new.price
    <3>1. k = i
      <4>1. list[k].price = list[i].price /\ list[i].price \in Nat
        BY <1>1, <2>4 DEF Level
      <4>2. ~(k < i) /\ ~(i < k)
        BY <4>1 DEF Agree, StrictOrder
      <4>3. QED
        BY <1>1, <4>2
    <3>2. QED
      BY <1>2, <2>3, <2>4, <3>1
  <2>5. CASE list[k].price # new.price
    BY <1>2, <2>3, <2>5
  <2>6. QED
    BY <2>4, <2>5
<1>7. QED
  BY <1>2, <1>4, <1>5, <1>6 DEF Agree

(* A new level goes where lower_bound points. *)
LEMMA InsertAgrees ==
    ASSUME NEW list, NEW levels, NEW R, StrictOrder(Nat, R), Agree(list, levels, R),
           NEW i \in 1..(Len(list) + 1), NEW new \in Level, new.price \notin DOMAIN levels,
           Belongs(new.price, list, i, R),
           NEW list2, list2 = Vector!InsertAt(list, i, new),
           NEW levels2, HasAlso(levels2, levels, new)
    PROVE  Agree(list2, levels2, R)
<1> DEFINE n == Len(list)
<1> USE DEF HasAlso
<1>1. list \in Seq(Level) /\ n \in Nat /\ DOMAIN list = 1..n
  BY DEF Agree
<1>2. /\ list2 \in Seq(Level) /\ Len(list2) = n + 1
      /\ \A k \in 1..(n + 1) :
            /\ k < i => list2[k] = list[k]
            /\ k = i => list2[k] = new
            /\ k > i => list2[k] = list[k - 1]
  <2>1. list2 \in Seq(Level) /\ IsInsert(list2, list, i, new)
    BY <1>1, Inserted
  <2>2. QED
    BY <2>1 DEF IsInsert
<1> HIDE DEF n
<1>3. /\ i \in 1..(n + 1) /\ n = Len(list)
      /\ \A k \in 1..n : k < i => <<list[k].price, new.price>> \in R
      /\ \A k \in 1..n : k >= i => <<new.price, list[k].price>> \in R
  <2>1. i \in 1..(n + 1) /\ n = Len(list)
    BY DEF n
  <2>2. \A k \in 1..n : IF k < i THEN <<list[k].price, new.price>> \in R
                                ELSE <<new.price, list[k].price>> \in R
    BY <2>1 DEF Belongs
  <2>3. \A k \in 1..n : k >= i <=> ~(k < i)
    BY <1>1, <2>1
  <2>4. QED
    BY <2>1, <2>2, <2>3
<1>4. ASSUME NEW j \in 1..(n + 1), NEW k \in 1..(n + 1), j < k
      PROVE  <<list2[j].price, list2[k].price>> \in R
  <2>1. \A a, b \in 1..n : a < b => <<list[a].price, list[b].price>> \in R
    BY <1>3 DEF Agree
  <2>2. CASE k < i
    <3>1. j \in 1..n /\ k \in 1..n /\ j < i
      BY <1>1, <1>3, <1>4, <2>2
    <3>2. QED
      BY <1>2, <1>4, <2>1, <2>2, <3>1
  <2>3. CASE k = i
    <3>1. j \in 1..n /\ j < i
      BY <1>1, <1>3, <1>4, <2>3
    <3>2. QED
      BY <1>2, <1>3, <2>3, <3>1
  <2>4. CASE k > i /\ j < i
    <3>1. j \in 1..n /\ k - 1 \in 1..n /\ j < k - 1 /\ ~(k < i) /\ k # i
      BY <1>1, <1>3, <1>4, <2>4
    <3>2. QED
      BY <1>2, <2>1, <2>4, <3>1
  <2>5. CASE k > i /\ j = i
    <3>1. k - 1 \in 1..n /\ k - 1 >= i /\ ~(k < i) /\ k # i /\ ~(j < i)
      BY <1>1, <1>3, <1>4, <2>5
    <3>2. QED
      BY <1>2, <1>3, <2>5, <3>1
  <2>6. CASE k > i /\ j > i
    <3>1. j - 1 \in 1..n /\ k - 1 \in 1..n /\ j - 1 < k - 1
          /\ ~(k < i) /\ k # i /\ ~(j < i) /\ j # i
      BY <1>1, <1>3, <1>4, <2>6
    <3>2. QED
      BY <1>2, <2>1, <3>1
  <2>7. QED
    BY <1>3, <1>4, <2>2, <2>3, <2>4, <2>5, <2>6
<1>5. ASSUME NEW k \in 1..(n + 1)
      PROVE  list2[k] = new \/ \E j \in 1..n : list2[k] = list[j]
  <2>1. CASE k < i
    <3>1. k \in 1..n
      BY <1>1, <1>3, <2>1
    <3>2. QED
      BY <1>2, <2>1, <3>1
  <2>2. CASE k = i
    BY <1>2, <1>3, <2>2
  <2>3. CASE k > i
    <3>1. k - 1 \in 1..n /\ ~(k < i) /\ k # i
      BY <1>1, <1>3, <2>3
    <3>2. QED
      BY <1>2, <3>1
  <2>4. QED
    BY <1>3, <2>1, <2>2, <2>3
<1>6. ASSUME NEW j \in 1..n PROVE \E k \in 1..(n + 1) : list2[k] = list[j]
  <2>1. CASE j < i
    <3>1. j \in 1..(n + 1)
      BY <1>1
    <3>2. QED
      BY <1>2, <2>1, <3>1
  <2>2. CASE j >= i
    <3>1. j + 1 \in 1..(n + 1) /\ ~(j + 1 < i) /\ j + 1 # i /\ (j + 1) - 1 = j
      BY <1>1, <1>3, <2>2
    <3>2. QED
      BY <1>2, <3>1
  <2>3. QED
    BY <1>1, <1>3, <2>1, <2>2
<1>7. list2[i] = new
  BY <1>2, <1>3
<1>8. DOMAIN levels = {list[j].price : j \in 1..n}
  BY <1>3 DEF Agree
<1>9. DOMAIN levels2 = {list2[k].price : k \in 1..(n + 1)}
  <2>1. DOMAIN levels2 = DOMAIN levels \cup {new.price}
    OBVIOUS
  <2>2. ASSUME NEW k \in 1..(n + 1) PROVE list2[k].price \in DOMAIN levels2
    BY <1>5, <1>8, <2>1
  <2>3. ASSUME NEW q \in DOMAIN levels2 PROVE \E k \in 1..(n + 1) : q = list2[k].price
    BY <1>3, <1>6, <1>7, <1>8, <2>1
  <2>4. QED
    BY <2>2, <2>3
<1>10. ASSUME NEW k \in 1..(n + 1) PROVE levels2[list2[k].price] = list2[k]
  <2>1. CASE list2[k] = new
    BY <2>1
  <2>2. CASE \E j \in 1..n : list2[k] = list[j]
    <3>1. PICK j \in 1..n : list2[k] = list[j]
      BY <2>2
    <3>2. list[j].price \in DOMAIN levels /\ levels[list[j].price] = list[j]
      BY <1>3 DEF Agree
    <3>3. QED
      BY <3>1, <3>2
  <2>3. QED
    BY <1>5, <2>1, <2>2
<1>11. QED
  BY <1>2, <1>4, <1>9, <1>10 DEF Agree

(* A level leaves. *)
LEMMA EraseAgrees ==
    ASSUME NEW list, NEW levels, NEW R, StrictOrder(Nat, R), Agree(list, levels, R),
           NEW i \in 1..Len(list),
           NEW list2, list2 = Vector!RemoveAt(list, i),
           NEW levels2, DOMAIN levels2 = DOMAIN levels \ {list[i].price},
           \A q \in DOMAIN levels2 : levels2[q] = levels[q]
    PROVE  Agree(list2, levels2, R)
<1> DEFINE n == Len(list)
<1>1. list \in Seq(Level) /\ n \in Nat /\ DOMAIN list = 1..n
  BY DEF Agree
<1>2. /\ list2 \in Seq(Level) /\ Len(list2) = n - 1
      /\ \A k \in 1..(n - 1) : list2[k] = IF k < i THEN list[k] ELSE list[k + 1]
  BY <1>1, Erased
<1>3. \A k \in 1..n : list[k].price \in Nat
  <2>1. \A k \in 1..n : list[k] \in Level
    BY <1>1
  <2>2. QED
    BY <2>1 DEF Level
<1> HIDE DEF n
<1>4. /\ i \in 1..n
      /\ \A a, b \in 1..n : a < b => <<list[a].price, list[b].price>> \in R
      /\ DOMAIN levels = {list[j].price : j \in 1..n}
      /\ \A j \in 1..n : levels[list[j].price] = list[j]
  BY DEF Agree, n
<1> DEFINE from == [k \in 1..(n - 1) |-> IF k < i THEN k ELSE k + 1]
<1>5. \A k \in 1..(n - 1) : from[k] \in 1..n /\ from[k] # i /\ list2[k] = list[from[k]]
  BY <1>1, <1>2, <1>4
<1>6. \A j, k \in 1..(n - 1) : j < k => from[j] < from[k]
  BY <1>1, <1>4
<1>7. ASSUME NEW j \in 1..n, j # i PROVE \E k \in 1..(n - 1) : from[k] = j
  <2>1. CASE j < i
    <3>1. j \in 1..(n - 1)
      BY <1>1, <1>4, <2>1
    <3>2. QED
      BY <2>1, <3>1
  <2>2. CASE j > i
    <3>1. j - 1 \in 1..(n - 1) /\ ~(j - 1 < i) /\ (j - 1) + 1 = j
      BY <1>1, <1>4, <2>2
    <3>2. QED
      BY <3>1
  <2>3. QED
    BY <1>4, <1>7, <2>1, <2>2
<1> HIDE DEF from
<1>8. \A j, k \in 1..(n - 1) : j < k => <<list2[j].price, list2[k].price>> \in R
  BY <1>4, <1>5, <1>6
<1>9. ASSUME NEW j \in 1..n, j # i PROVE list[j].price # list[i].price
  <2>1. j < i \/ i < j
    BY <1>4, <1>9
  <2>2. QED
    BY <1>3, <1>4, <2>1 DEF StrictOrder
<1>10. DOMAIN levels2 = {list2[k].price : k \in 1..(n - 1)}
  <2>1. ASSUME NEW k \in 1..(n - 1) PROVE list2[k].price \in DOMAIN levels2
    BY <1>4, <1>5, <1>9
  <2>2. ASSUME NEW q \in DOMAIN levels2 PROVE \E k \in 1..(n - 1) : q = list2[k].price
    <3>1. PICK j \in 1..n : q = list[j].price
      BY <1>4
    <3>2. j # i
      BY <3>1
    <3>3. QED
      BY <1>5, <1>7, <3>1, <3>2
  <2>3. QED
    BY <2>1, <2>2
<1>11. ASSUME NEW k \in 1..(n - 1) PROVE levels2[list2[k].price] = list2[k]
  <2>1. PICK j \in 1..n : j # i /\ list2[k] = list[j]
    BY <1>5
  <2>2. list[j].price \in DOMAIN levels \ {list[i].price} /\ levels[list[j].price] = list[j]
    BY <1>4, <1>9, <2>1
  <2>3. QED
    BY <2>1, <2>2
<1>12. QED
  BY <1>2, <1>8, <1>10, <1>11 DEF Agree

(* add_shares keeps the two ladders together. *)
LEMMA AddAgrees ==
    ASSUME side \in {"Bid", "Ask"}, Agree(flat, map, Ahead), 1 < U32,
           NEW p \in Nat, NEW shares \in 0..(U32 - 1), MapAdd(p, shares), FlatAdd(p, shares)
    PROVE  Agree(flat', map', Ahead)
<1>1. StrictOrder(Nat, Ahead)
  BY AheadOrders
<1>2. /\ LowerBound(p) \in 1..(Len(flat) + 1)
      /\ \A k \in 1..Len(flat) : <<flat[k].price, p>> \in Ahead <=> k < LowerBound(p)
      /\ Hit(p) <=> p \in DOMAIN map
      /\ ~Hit(p) => \A k \in 1..Len(flat) : k >= LowerBound(p) => <<p, flat[k].price>> \in Ahead
  BY LowerBoundFinds
<1>3. PICK i : i = LowerBound(p)
  OBVIOUS
<1>4. flat \in Seq(Level) /\ shares \in Nat
  BY LadderWidths DEF Agree
<1>5. CASE Hit(p)
  <2>1. i \in 1..Len(flat) /\ flat[i].price = p /\ flat[i] \in Level
    BY <1>3, <1>4, <1>5 DEF Hit
  <2>2. map[p] = flat[i] /\ p \in DOMAIN map
    BY <1>2, <1>5, <2>1 DEF Agree
  <2>3. PICK new : new = Grown(flat[i], shares)
    OBVIOUS
  <2>4. new \in Level /\ new.price = p
    <3>1. PICK flag : flag = FALSE
      OBVIOUS
    <3>2. QED
      BY <1>4, <2>1, <2>3, <3>1, LevelsStay
  <2>5. flat' = [flat EXCEPT ![i] = new]
    BY <1>3, <1>5, <2>1, <2>3 DEF FlatAdd
  <2>6. map' = [q \in DOMAIN map |-> IF q = new.price THEN new ELSE map[q]]
    <3>1. DOMAIN map \cup {p} = DOMAIN map
      BY <2>2
    <3>2. QED
      BY <2>2, <2>3, <2>4, <3>1 DEF MapAdd
  <2>7. /\ flat' \in Seq(Level) /\ Len(flat') = Len(flat) /\ flat'[i] = new
        /\ \A k \in 1..Len(flat) : k # i => flat'[k] = flat[k]
    BY <1>4, <2>1, <2>4, <2>5
  <2>8. /\ DOMAIN map' = DOMAIN map /\ map'[new.price] = new
        /\ \A q \in DOMAIN map : q # new.price => map'[q] = map[q]
    BY <2>2, <2>4, <2>6
  <2>9. Agree(flat, map, Ahead) /\ new.price = flat[i].price
    BY <2>1, <2>4
  <2>10. QED
    BY ONLY <1>1, <2>1, <2>4, <2>7, <2>8, <2>9, ChangeAgrees
<1>6. CASE ~Hit(p)
  <2>1. PICK new : new = [price |-> p, total_shares |-> shares, order_count |-> 1]
    OBVIOUS
  <2>2. new \in Level /\ new.price = p /\ p \notin DOMAIN map
    BY <1>2, <1>4, <1>6, <2>1 DEF Level
  <2>3. flat' = Vector!InsertAt(flat, i, new)
    BY <1>3, <1>6, <2>1 DEF FlatAdd
  <2>4. Grown([price |-> p, total_shares |-> 0, order_count |-> 0], shares) = new
    <3>1. (0 + shares) % U64 = shares /\ (0 + 1) % U32 = 1
      BY CallerAssumption, LadderWidths
    <3>2. PICK zero : zero = [price |-> p, total_shares |-> 0, order_count |-> 0]
      OBVIOUS
    <3>3. /\ DOMAIN zero = {"price", "total_shares", "order_count"}
          /\ zero.price = p /\ zero.total_shares = 0 /\ zero.order_count = 0
      BY <3>2
    <3>4. Grown(zero, shares) = [zero EXCEPT !.total_shares = shares, !.order_count = 1]
      BY <3>1, <3>3 DEF Grown
    <3>5. QED
      BY <2>1, <3>2, <3>4
  <2>5. map' = [q \in DOMAIN map \cup {new.price} |-> IF q = new.price THEN new ELSE map[q]]
    BY <2>2, <2>4 DEF MapAdd
  <2>6. /\ i \in 1..(Len(flat) + 1)
        /\ Belongs(new.price, flat, i, Ahead)
    BY <1>2, <1>3, <1>6, <2>2 DEF Belongs
  <2>7. new.price \notin DOMAIN map
    BY <2>2
  <2>8. HasAlso(map', map, new)
    BY <2>5, <2>7 DEF HasAlso
  <2>9. Agree(flat, map, Ahead)
    OBVIOUS
  <2>10. QED
    BY ONLY <1>1, <2>2, <2>3, <2>6, <2>7, <2>8, <2>9, InsertAgrees
<1>7. QED
  BY <1>5, <1>6

(* So does remove_shares, also of what is not there. *)
LEMMA RemoveAgrees ==
    ASSUME side \in {"Bid", "Ask"}, Agree(flat, map, Ahead),
           NEW p \in Nat, NEW shares \in Nat, NEW full \in BOOLEAN,
           MapRemove(p, shares, full), FlatRemove(p, shares, full)
    PROVE  Agree(flat', map', Ahead)
<1>1. StrictOrder(Nat, Ahead)
  BY AheadOrders
<1>2. Hit(p) <=> p \in DOMAIN map
  BY LowerBoundFinds
<1>3. PICK i : i = LowerBound(p)
  OBVIOUS
<1>4. flat \in Seq(Level)
  BY DEF Agree
<1>5. CASE ~Hit(p)
  <2>1. flat' = flat /\ map' = map
    BY <1>2, <1>5 DEF FlatRemove, MapRemove
  <2>2. QED
    BY <2>1
<1>6. CASE Hit(p)
  <2>1. i \in 1..Len(flat) /\ flat[i].price = p /\ flat[i] \in Level
    BY <1>3, <1>4, <1>6 DEF Hit
  <2>2. map[p] = flat[i] /\ p \in DOMAIN map
    BY <1>2, <1>6, <2>1 DEF Agree
  <2>3. PICK new : new = Shrunk(flat[i], shares, full)
    OBVIOUS
  <2>4. new \in Level /\ new.price = p
    BY <2>1, <2>3, LevelsStay
  <2>5. CASE new.order_count = 0
    <3>1. flat' = Vector!RemoveAt(flat, i)
      BY <1>3, <1>6, <2>3, <2>5 DEF FlatRemove
    <3>2. map' = [q \in DOMAIN map \ {flat[i].price} |-> map[q]]
      BY <2>1, <2>2, <2>3, <2>5 DEF MapRemove
    <3>3. /\ DOMAIN map' = DOMAIN map \ {flat[i].price}
          /\ \A q \in DOMAIN map' : map'[q] = map[q]
      BY <3>2
    <3>4. QED
      BY <1>1, <2>1, <3>1, <3>3, EraseAgrees
  <2>6. CASE new.order_count # 0
    <3>1. flat' = [flat EXCEPT ![i] = new]
      BY <1>3, <1>6, <2>3, <2>6 DEF FlatRemove
    <3>2. map' = [map EXCEPT ![p] = new]
      BY <2>2, <2>3, <2>6 DEF MapRemove
    <3>3. /\ flat' \in Seq(Level) /\ Len(flat') = Len(flat) /\ flat'[i] = new
          /\ \A k \in 1..Len(flat) : k # i => flat'[k] = flat[k]
      BY <1>4, <2>1, <2>4, <3>1
    <3>4. /\ DOMAIN map' = DOMAIN map /\ map'[new.price] = new
          /\ \A q \in DOMAIN map : q # new.price => map'[q] = map[q]
      BY <2>2, <2>4, <3>2
    <3>5. QED
      BY <1>1, <2>1, <2>4, <3>3, <3>4, ChangeAgrees
  <2>7. QED
    BY <2>5, <2>6
<1>7. QED
  BY <1>5, <1>6

(* BestFirst is the list of RankedLists, for prices and for slots. *)
LEMMA BestFirstIsRanked ==
    ASSUME NEW S \in SUBSET Nat, side \in {"Bid", "Ask"}
    PROVE  BestFirst(S) = Ranked(S, Ahead)
<1> DEFINE Rank(x) == 1 + Cardinality({y \in S : Better(y, x)})
<1>1. ASSUME NEW x \in S PROVE Rank(x) = RankIn(S, Ahead, x)
  <2>1. {y \in S : Better(y, x)} = AheadIn(S, Ahead, x)
    BY AheadOrders DEF AheadIn
  <2>2. QED
    BY <2>1 DEF RankIn
<1>2. ASSUME NEW i PROVE (CHOOSE x \in S : Rank(x) = i) = CHOOSE x \in S : RankIn(S, Ahead, x) = i
  <2> HIDE DEF Rank
  <2>1. \A x : (x \in S /\ Rank(x) = i) <=> (x \in S /\ RankIn(S, Ahead, x) = i)
    BY <1>1
  <2>2. QED
    BY <2>1
<1>3. BestFirst(S) = [i \in 1..Cardinality(S) |-> CHOOSE x \in S : Rank(x) = i]
  BY DEF BestFirst
<1> HIDE DEF Rank
<1>4. QED
  BY <1>2, <1>3 DEF Ranked

(* Ladders that agree give the same answers. *)
LEMMA AgreeAnswers ==
    ASSUME side \in {"Bid", "Ask"}, Agree(flat, map, Ahead)
    PROVE  FlatIsMap
<1> DEFINE n == Len(flat)
           order == [i \in 1..n |-> flat[i].price]
           S == DOMAIN map
<1>1. flat \in Seq(Level) /\ n \in Nat /\ DOMAIN flat = 1..n /\ flat = [i \in 1..n |-> flat[i]]
  BY DEF Agree
<1>2. \A i \in 1..n : flat[i] \in Level
  BY <1>1
<1>3. \A i \in 1..n : flat[i].price \in Nat
  BY <1>2 DEF Level
<1>4. S = {order[i] : i \in 1..n} /\ S \in SUBSET Nat
  BY <1>3 DEF Agree
<1>5. \A i, j \in 1..n : i < j => <<order[i], order[j]>> \in Ahead
  BY DEF Agree
<1>6. StrictOrder(S, Ahead)
  BY <1>4, AheadOrders
<1>7. DOMAIN order = 1..n /\ \A i \in 1..n : map[order[i]] = flat[i]
  BY DEF Agree
<1> HIDE DEF order, S, n
<1>8. /\ IsFiniteSet(S) /\ Cardinality(S) = n
      /\ \A i \in 1..n : Ranked(S, Ahead)[i] = order[i]
  <2>1. (\A i \in 1..n : order[i] \in S) /\ (\A x \in S : \E i \in 1..n : x = order[i])
    BY <1>4
  <2>2. QED
    BY ONLY <1>1, <1>5, <1>6, <2>1, SortedIsRanked
<1>9. DOMAIN BestFirst(S) = 1..n /\ \A i \in 1..n : BestFirst(S)[i] = order[i]
  <2>1. DOMAIN Ranked(S, Ahead) = 1..n
    BY <1>8 DEF Ranked
  <2>2. QED
    BY <1>4, <1>8, <2>1, BestFirstIsRanked
<1>10. MapList = flat
  <2>1. MapList = [i \in 1..n |-> map[BestFirst(S)[i]]]
    BY <1>9 DEF MapList, S
  <2>2. \A i \in 1..n : map[BestFirst(S)[i]] = flat[i]
    BY <1>7, <1>9
  <2>3. QED
    BY <1>1, <2>1, <2>2
<1>11. MapSize = n
  BY <1>8 DEF MapSize, S
<1>12. MapBest = FlatBest
  <2>1. CASE flat = <<>>
    <3>1. n = 0
      BY <2>1 DEF n
    <3>2. S = {}
      BY <1>4, <3>1
    <3>3. QED
      BY <2>1, <3>2 DEF MapBest, FlatBest, S
  <2>2. CASE flat # <<>>
    <3>1. 1 \in 1..n
      BY <1>1, <2>2
    <3>2. S # {}
      BY <1>4, <3>1
    <3>3. Head(flat) = flat[1]
      BY <1>1, <2>2
    <3>4. QED
      BY <1>10, <2>2, <3>2, <3>3 DEF MapBest, FlatBest, S
  <2>3. QED
    BY <2>1, <2>2
<1>13. QED
  BY <1>10, <1>11, <1>12 DEF FlatIsMap, FlatList, FlatSize, n

----------------------------------------------------------------------------
(* The callers *)

Operations == [op : {"OP_ADD", "OP_REMOVE_FULL", "OP_REMOVE_PARTIAL"}, price : Nat]

Order == [price : Nat, shares : 0..(U32 - 1)]

CallerInv ==
    /\ side \in {"Bid", "Ask"}
    /\ DOMAIN orders \subseteq Orders
    /\ \A o \in DOMAIN orders : orders[o] \in Order
    /\ caller = "shootout" => DOMAIN orders = {}
    /\ ops \in Seq(Operations) /\ Len(ops) <= NSeed + NReplay
    /\ idx \in 0..(NSeed + NReplay - 1)
    /\ steps \in 0..MaxSteps

(* Sampled prices are prices. *)
LEMMA SampledIsPrice ==
    ASSUME NEW raw \in RawPrices
    PROVE  sample_price(raw) \in Nat
<1> DEFINE p == IF raw < Base THEN Base ELSE IF raw > TopOfBand THEN TopOfBand ELSE raw
<1>1. (SLOTS - 1) * TICK \in Nat
  BY BandAssumption
<1>2. p \in Nat
  BY <1>1, RawPricesAssumption, BandAssumption DEF TopOfBand
<1> HIDE DEF p
<1>3. p \div TICK \in Nat
  BY <1>2, BandAssumption
<1>4. (p \div TICK) * TICK \in Nat
  BY <1>3, BandAssumption
<1>5. QED
  BY <1>4 DEF sample_price, p

(* Whoever calls, a call is one of the two operations, with a price and a  *)
(* number of shares its parameters can hold.                               *)
AnyAdd == \E p \in Nat, n \in 0..(U32 - 1) : AddShares(p, n)
AnyRemove == \E p \in Nat, n \in Nat, full \in BOOLEAN : RemoveShares(p, n, full)

(* One order is entered by the engine-like caller. *)
LEMMA PlaceCalls ==
    ASSUME CallerInv, Place
    PROVE  CallerInv' /\ side' = side /\ 1 < U32 /\ AnyAdd
<1>1. PICK o \in Orders \ DOMAIN orders, p \in RawPrices, n \in ShareCounts :
         /\ orders' = [x \in DOMAIN orders \cup {o} |->
                           IF x = o THEN [price |-> p, shares |-> n] ELSE orders[x]]
         /\ AddShares(p, n)
  BY DEF Place
<1>2. p \in Nat /\ n \in 0..(U32 - 1)
  BY RawPricesAssumption, CallerAssumption
<1>3. 1 < U32
  <2>1. Cardinality({o}) <= Cardinality(Orders) /\ Cardinality({o}) = 1 /\ Cardinality(Orders) \in Nat
    <3>1. {o} \in SUBSET Orders /\ IsFiniteSet(Orders)
      BY CallerAssumption
    <3>2. Cardinality({o}) <= Cardinality(Orders)
      BY <3>1, FS_Subset
    <3>3. QED
      BY <3>1, <3>2, FS_Singleton, FS_CardinalityType
  <2>2. QED
    BY <2>1, CallerAssumption, LadderWidths
<1>4. DOMAIN orders' = DOMAIN orders \cup {o}
  BY <1>1
<1>5. \A x \in DOMAIN orders' : orders'[x] \in Order
  <2>1. [price |-> p, shares |-> n] \in Order
    BY <1>2 DEF Order
  <2>2. QED
    BY <1>1, <1>4, <2>1 DEF CallerInv
<1>6. UNCHANGED <<side, caller, ops, idx, steps>> /\ caller # "shootout"
  BY DEF Place
<1>7. CallerInv'
  BY <1>4, <1>5, <1>6 DEF CallerInv
<1>8. AnyAdd
  BY <1>1, <1>2 DEF AnyAdd
<1>9. QED
  BY <1>3, <1>6, <1>7, <1>8

(* Shares of one of its orders are taken off. *)
LEMMA TakeCalls ==
    ASSUME CallerInv, Take
    PROVE  CallerInv' /\ side' = side /\ AnyRemove
<1>1. PICK o \in DOMAIN orders : \E n \in 0..orders[o].shares :
          /\ orders' = IF n = orders[o].shares THEN [x \in DOMAIN orders \ {o} |-> orders[x]]
                       ELSE [orders EXCEPT ![o].shares = @ - n]
          /\ RemoveShares(orders[o].price, n, n = orders[o].shares)
  BY DEF Take
<1>2. PICK n \in 0..orders[o].shares :
          /\ orders' = IF n = orders[o].shares THEN [x \in DOMAIN orders \ {o} |-> orders[x]]
                       ELSE [orders EXCEPT ![o].shares = @ - n]
          /\ RemoveShares(orders[o].price, n, n = orders[o].shares)
  BY <1>1
<1>a. orders[o] \in Order
  BY DEF CallerInv
<1>3. orders[o].price \in Nat /\ orders[o].shares \in 0..(U32 - 1) /\ n \in Nat
  BY <1>a DEF Order
<1>4. AnyRemove
  <2>1. PICK full : full = (n = orders[o].shares)
    OBVIOUS
  <2>2. full \in BOOLEAN
    BY <2>1
  <2>3. RemoveShares(orders[o].price, n, full)
    BY <1>2, <2>1
  <2>4. QED
    BY <1>3, <2>2, <2>3 DEF AnyRemove
<1>5. UNCHANGED <<side, caller, ops, idx, steps>>
  BY DEF Take
<1>6. /\ DOMAIN orders' \subseteq DOMAIN orders
      /\ \A x \in DOMAIN orders' : orders'[x] \in Order
  <2>1. CASE n = orders[o].shares
    BY <1>2, <2>1 DEF CallerInv
  <2>2. CASE n # orders[o].shares
    <3>1. orders' = [orders EXCEPT ![o].shares = @ - n]
      BY <1>2, <2>2
    <3>2. orders[o].shares - n \in 0..(U32 - 1)
      BY <1>3, LadderWidths
    <3>3. DOMAIN orders' = DOMAIN orders
      BY <3>1
    <3>4. \A x \in DOMAIN orders : x # o => orders'[x] = orders[x]
      BY <3>1
    <3>5. orders'[o] = [orders[o] EXCEPT !.shares = orders[o].shares - n]
      BY <3>1
    <3>6. orders'[o] \in Order
      BY <1>a, <3>2, <3>5 DEF Order
    <3>7. QED
      BY <3>3, <3>4, <3>6 DEF CallerInv
  <2>3. QED
    BY <2>1, <2>2
<1>7. QED
  BY <1>4, <1>5, <1>6 DEF CallerInv

(* The benchmark's list grows. *)
LEMMA BuildCalls ==
    ASSUME CallerInv, BuildAdd \/ BuildRemoveFull \/ BuildRemovePartial
    PROVE  CallerInv' /\ side' = side /\ UNCHANGED <<ladders, caller, orders, idx, steps>>
<1>1. \E op \in {"OP_ADD", "OP_REMOVE_FULL", "OP_REMOVE_PARTIAL"}, p \in Nat : Push(op, p)
  <2>1. CASE BuildAdd
    <3>1. PICK raw \in RawPrices : Push("OP_ADD", sample_price(raw))
      BY <2>1 DEF BuildAdd
    <3>2. QED
      BY <3>1, SampledIsPrice
  <2>2. \A p \in Sampled : p \in Nat
    BY SampledIsPrice DEF Sampled
  <2>3. CASE BuildRemoveFull
    BY <2>2, <2>3 DEF BuildRemoveFull
  <2>4. CASE BuildRemovePartial
    BY <2>2, <2>4 DEF BuildRemovePartial
  <2>5. QED
    BY <2>1, <2>3, <2>4
<1>2. PICK op \in {"OP_ADD", "OP_REMOVE_FULL", "OP_REMOVE_PARTIAL"}, p \in Nat : Push(op, p)
  BY <1>1
<1>3. /\ ops' = Append(ops, [op |-> op, price |-> p]) /\ ~Built
      /\ UNCHANGED <<side, ladders, caller, orders, idx, steps>>
  BY <1>2 DEF Push
<1>4. [op |-> op, price |-> p] \in Operations
  BY DEF Operations
<1>5. ops \in Seq(Operations) /\ Len(ops) <= NSeed + NReplay /\ Len(ops) \in Nat
  BY DEF CallerInv
<1>6. ops' \in Seq(Operations) /\ Len(ops') = Len(ops) + 1
  BY <1>3, <1>4, <1>5, AppendProperties
<1>7. Len(ops') <= NSeed + NReplay
  BY <1>3, <1>5, <1>6, CallerAssumption DEF Built
<1>8. QED
  BY <1>3, <1>6, <1>7 DEF CallerInv

(* An operation of the list is applied. *)
LEMMA RunCalls ==
    ASSUME CallerInv, RunWorkload
    PROVE  /\ CallerInv' /\ side' = side
           /\ 1 < U32 /\ steps' = steps + 1
           /\ AnyAdd \/ AnyRemove
<1>1. /\ Len(ops) = NSeed + NReplay /\ Len(ops) \in Nat \ {0} /\ ops \in Seq(Operations)
      /\ idx \in 0..(NSeed + NReplay - 1) /\ steps \in 0..MaxSteps /\ steps < MaxSteps
  BY CallerAssumption DEF RunWorkload, Built, CallerInv
<1>2. PICK s : s = ops[idx + 1]
  OBVIOUS
<1>3. s \in Operations
  <2>1. idx + 1 \in 1..Len(ops)
    BY <1>1, CallerAssumption
  <2>2. QED
    BY <1>1, <1>2, <2>1, ElementOfSeq
<1>4. s.price \in Nat
  BY <1>3 DEF Operations
<1>5. AnyAdd \/ AnyRemove
  <2>1. \/ AddShares(s.price, OpShares)
        \/ RemoveShares(s.price, 1, FALSE)
        \/ RemoveShares(s.price, OpShares, TRUE)
    BY <1>2 DEF RunWorkload
  <2>2. OpShares \in 0..(U32 - 1) /\ OpShares \in Nat
    BY CallerAssumption, LadderWidths
  <2>3. CASE AddShares(s.price, OpShares)
    BY <1>4, <2>2, <2>3 DEF AnyAdd
  <2>4. CASE RemoveShares(s.price, 1, FALSE)
    <3>1. PICK flag : flag = FALSE
      OBVIOUS
    <3>2. flag \in BOOLEAN /\ RemoveShares(s.price, 1, flag) /\ 1 \in Nat
      BY <2>4, <3>1
    <3>3. QED
      BY <1>4, <3>2 DEF AnyRemove
  <2>5. CASE RemoveShares(s.price, OpShares, TRUE)
    <3>1. PICK flag : flag = TRUE
      OBVIOUS
    <3>2. flag \in BOOLEAN /\ RemoveShares(s.price, OpShares, flag)
      BY <2>5, <3>1
    <3>3. QED
      BY <1>4, <2>2, <3>2 DEF AnyRemove
  <2>6. QED
    BY <2>1, <2>3, <2>4, <2>5
<1>6. /\ idx' = (idx + 1) % Len(ops) /\ steps' = steps + 1
      /\ UNCHANGED <<side, caller, orders, ops, live>>
  BY DEF RunWorkload
<1>7. idx' \in 0..(NSeed + NReplay - 1)
  <2>1. PICK size : size = Len(ops)
    OBVIOUS
  <2>2. size \in Nat \ {0} /\ size = NSeed + NReplay /\ idx + 1 \in Int
    BY <1>1, <2>1, CallerAssumption
  <2>3. (idx + 1) % size \in 0..(size - 1)
    BY <2>2, Remainders
  <2>4. size - 1 = NSeed + NReplay - 1
    BY <2>2, CallerAssumption
  <2>5. idx' = (idx + 1) % size
    BY <1>6, <2>1
  <2>6. QED
    BY <2>3, <2>4, <2>5
<1>8. steps' \in 0..MaxSteps
  BY <1>1, <1>6, CallerAssumption
<1>9. CallerInv'
  BY <1>6, <1>7, <1>8 DEF CallerInv
<1>10. 1 < U32
  BY <1>1, CallerAssumption, LadderWidths
<1>11. QED
  BY <1>5, <1>6, <1>9, <1>10

(* Calls keep vector and map together. *)
LEMMA CallsAgree ==
    ASSUME CallerInv, FlatInv, side' = side,
           (1 < U32 /\ AnyAdd) \/ AnyRemove \/ UNCHANGED ladders
    PROVE  FlatInv'
<1>1. side \in {"Bid", "Ask"} /\ Agree(flat, map, Ahead)
  BY DEF CallerInv, FlatInv
<1>2. Ahead' = Ahead
  BY DEF Ahead, Better
<1>3. SUFFICES Agree(flat', map', Ahead)
  BY <1>2 DEF FlatInv
<1>4. CASE 1 < U32 /\ AnyAdd
  <2>1. PICK p \in Nat, n \in 0..(U32 - 1) : MapAdd(p, n) /\ FlatAdd(p, n)
    BY <1>4 DEF AnyAdd, AddShares
  <2>2. QED
    BY <1>1, <1>4, <2>1, AddAgrees
<1>5. CASE AnyRemove
  <2>1. PICK p \in Nat, n \in Nat, full \in BOOLEAN : MapRemove(p, n, full) /\ FlatRemove(p, n, full)
    BY <1>5 DEF AnyRemove, RemoveShares
  <2>2. QED
    BY <1>1, <2>1, RemoveAgrees
<1>6. CASE UNCHANGED ladders
  BY <1>1, <1>6 DEF ladders
<1>7. QED
  BY <1>4, <1>5, <1>6

(* All steps do. *)
LEMMA NextKeepsAgreement ==
    ASSUME CallerInv, FlatInv, [Next]_shootoutVars
    PROVE  CallerInv' /\ FlatInv'
<1>1. CASE Place
  BY <1>1, PlaceCalls, CallsAgree
<1>2. CASE Take
  BY <1>2, TakeCalls, CallsAgree
<1>3. CASE BuildAdd \/ BuildRemoveFull \/ BuildRemovePartial
  BY <1>3, BuildCalls, CallsAgree
<1>4. CASE RunWorkload
  BY <1>4, RunCalls, CallsAgree
<1>5. CASE UNCHANGED shootoutVars
  <2>1. CallerInv'
    BY <1>5 DEF CallerInv, shootoutVars
  <2>2. side' = side /\ UNCHANGED ladders
    BY <1>5 DEF shootoutVars
  <2>3. QED
    BY <2>1, <2>2, CallsAgree
<1>6. QED
  BY <1>1, <1>2, <1>3, <1>4, <1>5 DEF Next

(* Empty ladders agree. *)
LEMMA InitEstablishes ==
    ASSUME Init
    PROVE  CallerInv /\ FlatInv
<1>1. flat = <<>> /\ DOMAIN map = {} /\ DOMAIN orders = {} /\ ops = <<>> /\ idx = 0 /\ steps = 0
  BY DEF Init, FlatInit, MapInit
<1>2. side \in {"Bid", "Ask"}
  BY DEF Init
<1>3. CallerInv
  BY <1>1, <1>2, CallerAssumption DEF CallerInv
<1>4. FlatInv
  <2>1. flat \in Seq(Level) /\ Len(flat) = 0
    BY <1>1
  <2>2. 1..Len(flat) = {}
    BY <2>1
  <2>3. QED
    BY <1>1, <2>1, <2>2 DEF FlatInv, Agree
<1>5. QED
  BY <1>3, <1>4

(* FlatLadder answers as MapLadder does, for any caller, on either side,   *)
(* also when the totals of a level have wrapped.                           *)
THEOREM FlatCorrect == Spec => []FlatIsMap
<1>1. CallerInv /\ FlatInv => FlatIsMap
  BY AgreeAnswers DEF CallerInv, FlatInv
<1>2. QED
  BY <1>1, InitEstablishes, NextKeepsAgreement, PTL DEF Spec

----------------------------------------------------------------------------
(* The array's count and best index *)

(* b is the index of the best of these slots, or the sentinel. *)
IsBest(b, S, R) ==
    IF S = {} THEN b = SLOTS ELSE b \in S /\ \A x \in S : <<x, b>> \notin R

Slot == [price : Nat, total_shares : Int, order_count : 0..(U32 - 1)]

Indexed(s, b, n, R) ==
    /\ s \in [Slots -> Slot]
    /\ n = Cardinality(Occupied(s))
    /\ IsBest(b, Occupied(s), R)

(* The slots are a finite set of numbers. *)
LEMMA SlotsAreFinite ==
    ASSUME NEW s
    PROVE  /\ Slots \in SUBSET Nat /\ IsFiniteSet(Slots)
           /\ Occupied(s) \in SUBSET Slots /\ IsFiniteSet(Occupied(s))
           /\ Cardinality(Occupied(s)) \in Nat
           /\ Cardinality(Occupied(s)) = 0 <=> Occupied(s) = {}
<1>1. Slots \in SUBSET Nat /\ IsFiniteSet(Slots)
  BY BandAssumption, FS_Interval DEF Slots
<1>2. Occupied(s) \in SUBSET Slots
  BY DEF Occupied
<1>3. IsFiniteSet(Occupied(s))
  BY <1>1, <1>2, FS_Subset
<1>4. QED
  BY <1>1, <1>2, <1>3, FS_CardinalityType, FS_EmptySet

(* The index of a price is a number; only numbers below SLOTS are slots. *)
LEMMA IndexIsNumber ==
    ASSUME NEW p \in Nat
    PROVE  idx_of(p) \in Nat /\ (idx_of(p) \in Slots <=> ~(idx_of(p) >= SLOTS))
<1>1. p < Base \/ (p - Base) \div TICK \in Nat
  BY BandAssumption
<1>2. idx_of(p) \in Nat
  BY <1>1, BandAssumption DEF idx_of
<1>3. QED
  BY <1>2, BandAssumption DEF Slots

(* A finite set of numbers that is not empty has a best one. *)
LEMMA BestExists ==
    ASSUME NEW S \in SUBSET Nat, IsFiniteSet(S), S # {}, NEW R, StrictOrder(Nat, R)
    PROVE  \E x \in S : \A y \in S : <<y, x>> \notin R
<1>1. StrictOrder(S, R)
  BY DEF StrictOrder
<1>2. /\ Cardinality(S) \in Nat
      /\ \A i \in 1..Cardinality(S) : Ranked(S, R)[i] \in S
      /\ \A x \in S : /\ RankIn(S, R, x) \in 1..Cardinality(S)
                      /\ Ranked(S, R)[RankIn(S, R, x)] = x
      /\ \A i, j \in 1..Cardinality(S) : i < j => <<Ranked(S, R)[i], Ranked(S, R)[j]>> \in R
  BY <1>1, RankedProperties
<1>3. 1 \in 1..Cardinality(S)
  <2>1. PICK x \in S : TRUE
    OBVIOUS
  <2>2. RankIn(S, R, x) \in 1..Cardinality(S)
    BY <1>2
  <2>3. QED
    BY <1>2, <2>2
<1>4. PICK x : x = Ranked(S, R)[1]
  OBVIOUS
<1>5. x \in S
  BY <1>2, <1>3, <1>4
<1>6. ASSUME NEW y \in S PROVE <<y, x>> \notin R
  <2>1. PICK j \in 1..Cardinality(S) : Ranked(S, R)[j] = y
    BY <1>2
  <2>2. CASE j = 1
    BY <1>4, <1>5, <2>1, <2>2, <1>1 DEF StrictOrder
  <2>3. CASE j # 1
    <3>1. 1 < j
      BY <1>2, <2>3
    <3>2. <<x, y>> \in R
      BY <1>2, <1>3, <1>4, <2>1, <3>1
    <3>3. QED
      BY <1>1, <1>5, <3>2 DEF StrictOrder
  <2>4. QED
    BY <2>2, <2>3
<1>7. QED
  BY <1>5, <1>6

(* A slot fills that was empty. *)
LEMMA BestAfterAdd ==
    ASSUME NEW S \in SUBSET Nat, IsFiniteSet(S), NEW R, StrictOrder(Nat, R),
           NEW b, IsBest(b, S, R), NEW i \in Nat, i \notin S
    PROVE  IsBest(IF Cardinality(S) + 1 = 1 \/ <<i, b>> \in R THEN i ELSE b, S \cup {i}, R)
<1>1. Cardinality(S) \in Nat /\ (Cardinality(S) = 0 <=> S = {})
  BY FS_CardinalityType, FS_EmptySet
<1>2. CASE S = {}
  <2>1. Cardinality(S) + 1 = 1
    BY <1>1, <1>2
  <2>2. <<i, i>> \notin R
    BY DEF StrictOrder
  <2>3. QED
    BY <1>2, <2>1, <2>2 DEF IsBest
<1>3. CASE S # {}
  <2>1. ~(Cardinality(S) + 1 = 1)
    <3>1. Cardinality(S) # 0
      BY <1>1, <1>3
    <3>2. QED
      BY <1>1, <3>1
  <2>2. b \in S /\ b \in Nat /\ \A x \in S : <<x, b>> \notin R
    BY <1>3 DEF IsBest
  <2>3. <<i, i>> \notin R /\ <<b, b>> \notin R
    BY <2>2 DEF StrictOrder
  <2>4. CASE <<i, b>> \in R
    <3>1. \A x \in S : <<x, i>> \notin R
      BY <2>2, <2>4 DEF StrictOrder
    <3>2. QED
      BY <2>3, <2>4, <3>1 DEF IsBest
  <2>5. CASE <<i, b>> \notin R
    BY <2>1, <2>2, <2>5 DEF IsBest
  <2>6. QED
    BY <2>4, <2>5
<1>4. QED
  BY <1>2, <1>3

(* add_shares keeps count and best index, unless the order count wraps. *)
LEMMA AddIndexed ==
    ASSUME side \in {"Bid", "Ask"}, Indexed(slots, best_idx, nonempty_count, Ahead),
           NEW p \in Nat, NEW shares \in Nat, ArrayAdd(p, shares),
           idx_of(p) \in Slots => slots[idx_of(p)].order_count + 1 < U32
    PROVE  /\ Indexed(slots', best_idx', nonempty_count', Ahead)
           /\ \A j \in Slots : slots'[j].order_count =
                 IF j = idx_of(p) THEN slots[j].order_count + 1 ELSE slots[j].order_count
<1>1. PICK i : i = idx_of(p)
  OBVIOUS
<1>2. i \in Nat /\ (i \in Slots <=> ~(i >= SLOTS))
  BY <1>1, IndexIsNumber
<1>3. CASE i \notin Slots
  <2>1. UNCHANGED <<slots, best_idx, nonempty_count>>
    BY <1>1, <1>2, <1>3 DEF ArrayAdd, arrayVars
  <2>2. QED
    BY <1>1, <1>3, <2>1
<1>4. CASE i \in Slots
  <2> DEFINE fresh == slots[i].order_count = 0
             level == IF fresh THEN [slots[i] EXCEPT !.price = p] ELSE slots[i]
             S == Occupied(slots)
  <2>1. slots \in [Slots -> Slot] /\ nonempty_count = Cardinality(S) /\ IsBest(best_idx, S, Ahead)
    BY DEF Indexed
  <2>2. slots[i] \in Slot
    BY <1>4, <2>1
  <2>3. /\ level \in Slot /\ level.order_count = slots[i].order_count
        /\ level.order_count \in 0..(U32 - 1) /\ level.order_count + 1 < U32
    BY <1>1, <1>4, <2>2 DEF Slot
  <2>4. /\ nonempty_count' = IF fresh THEN nonempty_count + 1 ELSE nonempty_count
        /\ best_idx' = IF fresh THEN update_best_after_add(i, nonempty_count') ELSE best_idx
        /\ slots' = [slots EXCEPT ![i] = Grown(level, shares)]
    BY <1>1, <1>2, <1>4 DEF ArrayAdd
  <2>5. Grown(level, shares) \in Slot /\ Grown(level, shares).order_count = level.order_count + 1
    <3> HIDE DEF level
    <3>1. /\ level.price \in Nat /\ level.total_shares \in Int
          /\ DOMAIN level = {"price", "total_shares", "order_count"}
      BY <2>3 DEF Slot
    <3>2. (level.order_count + 1) % U32 = level.order_count + 1
      BY <2>3, LadderWidths
    <3>3. level.order_count + 1 \in 0..(U32 - 1)
      BY <2>3, LadderWidths
    <3>4. (level.total_shares + shares) % U64 \in Int
      BY <3>1, LadderWidths
    <3>5. QED
      BY <3>1, <3>2, <3>3, <3>4 DEF Grown, Slot
  <2>6. /\ slots' \in [Slots -> Slot]
        /\ \A j \in Slots : slots'[j].order_count =
              IF j = i THEN slots[j].order_count + 1 ELSE slots[j].order_count
    BY <1>4, <2>1, <2>3, <2>4, <2>5
  <2>7. \A j \in Slots : slots[j].order_count \in Nat
    BY <2>1 DEF Slot
  <2>8. Occupied(slots') = S \cup {i}
    <3>1. \A j \in Slots : slots'[j].order_count > 0 <=> slots[j].order_count > 0 \/ j = i
      BY <2>6, <2>7
    <3>2. QED
      BY <1>4, <3>1 DEF Occupied
  <2>9. i \in S <=> ~fresh
    BY <1>4, <2>7 DEF Occupied
  <2>10. S \in SUBSET Nat /\ IsFiniteSet(S) /\ StrictOrder(Nat, Ahead) /\ Cardinality(S) \in Nat
    BY SlotsAreFinite, AheadOrders
  <2> HIDE DEF S, fresh, level
  <2>11. nonempty_count' = Cardinality(S \cup {i})
    BY <2>1, <2>4, <2>9, <2>10, FS_AddElement
  <2>12. IsBest(best_idx', S \cup {i}, Ahead)
    <3>1. CASE fresh
      <4>1. nonempty_count' = Cardinality(S) + 1 /\ i \notin S
        BY <2>1, <2>4, <2>9, <3>1
      <4>2. best_idx \in Nat
        BY <2>1, <2>10, BandAssumption DEF IsBest
      <4>3. Better(i, best_idx) <=> <<i, best_idx>> \in Ahead
        BY <1>2, <4>2, AheadOrders
      <4>4. best_idx' = IF Cardinality(S) + 1 = 1 \/ <<i, best_idx>> \in Ahead THEN i ELSE best_idx
        BY <2>4, <3>1, <4>1, <4>2, <4>3 DEF update_best_after_add
      <4>5. QED
        BY <1>2, <2>1, <2>10, <4>1, <4>4, BestAfterAdd
    <3>2. CASE ~fresh
      <4>1. best_idx' = best_idx /\ S \cup {i} = S
        BY <2>4, <2>9, <3>2
      <4>2. QED
        BY <2>1, <4>1
    <3>3. QED
      BY <3>1, <3>2
  <2>13. QED
    BY <1>1, <2>6, <2>8, <2>11, <2>12 DEF Indexed
<1>5. QED
  BY <1>3, <1>4

(* remove_shares keeps them always. *)
LEMMA RemoveIndexed ==
    ASSUME side \in {"Bid", "Ask"}, Indexed(slots, best_idx, nonempty_count, Ahead),
           NEW p \in Nat, NEW shares \in Nat, NEW full \in BOOLEAN, ArrayRemove(p, shares, full)
    PROVE  /\ Indexed(slots', best_idx', nonempty_count', Ahead)
           /\ \A j \in Slots : slots'[j].order_count =
                 IF j = idx_of(p) /\ full /\ slots[j].order_count > 0
                 THEN slots[j].order_count - 1 ELSE slots[j].order_count
<1>1. PICK i : i = idx_of(p)
  OBVIOUS
<1>2. i \in Nat /\ (i \in Slots <=> ~(i >= SLOTS))
  BY <1>1, IndexIsNumber
<1>3. /\ slots \in [Slots -> Slot] /\ nonempty_count = Cardinality(Occupied(slots))
      /\ IsBest(best_idx, Occupied(slots), Ahead)
  BY DEF Indexed
<1>4. \A j \in Slots : slots[j].order_count \in 0..(U32 - 1)
  BY <1>3 DEF Slot
<1>5. CASE i \notin Slots \/ slots[i].order_count = 0
  <2>1. UNCHANGED <<slots, best_idx, nonempty_count>>
    BY <1>1, <1>2, <1>5 DEF ArrayRemove, arrayVars
  <2>2. \A j \in Slots : j = i => ~(slots[j].order_count > 0)
    BY <1>5
  <2>3. QED
    BY <1>1, <2>1, <2>2
<1>6. CASE i \in Slots /\ slots[i].order_count # 0
  <2> DEFINE new == Shrunk(slots[i], shares, full)
             s2 == [slots EXCEPT ![i] = new]
             S == Occupied(slots)
             empty == new.order_count = 0
             count == IF empty THEN nonempty_count - 1 ELSE nonempty_count
  <2>1. slots[i] \in Slot /\ slots[i].order_count \in 0..(U32 - 1) /\ slots[i].order_count > 0
    BY <1>3, <1>4, <1>6
  <2>2. /\ new \in Slot /\ new.order_count \in 0..(U32 - 1)
        /\ new.order_count = IF full THEN slots[i].order_count - 1 ELSE slots[i].order_count
    <3>1. /\ slots[i].price \in Nat /\ slots[i].total_shares \in Int
          /\ DOMAIN slots[i] = {"price", "total_shares", "order_count"}
      BY <2>1 DEF Slot
    <3>2. (slots[i].order_count - 1) % U32 = slots[i].order_count - 1
      BY <2>1, LadderWidths
    <3>3. slots[i].order_count - 1 \in 0..(U32 - 1)
      BY <2>1, LadderWidths
    <3>4. (slots[i].total_shares - shares) % U64 \in Int
      BY <3>1, LadderWidths
    <3>5. QED
      BY <2>1, <3>1, <3>2, <3>3, <3>4 DEF Shrunk, Slot
  <2>3. s2[i] = new
    BY <1>3, <1>6
  <2>4. /\ slots' = s2 /\ nonempty_count' = count
        /\ best_idx' = IF empty /\ i = best_idx THEN advance_best_from(s2, i, count) ELSE best_idx
    BY <1>1, <1>2, <1>6, <2>3 DEF ArrayRemove
  <2>5. /\ s2 \in [Slots -> Slot]
        /\ \A j \in Slots : s2[j].order_count = IF j = i THEN new.order_count ELSE slots[j].order_count
    BY <1>3, <1>6, <2>2
  <2>6. \A j \in Slots : slots'[j].order_count =
            IF j = i /\ full /\ slots[j].order_count > 0
            THEN slots[j].order_count - 1 ELSE slots[j].order_count
    BY <2>1, <2>2, <2>4, <2>5
  <2>7. S \in SUBSET Nat /\ IsFiniteSet(S) /\ StrictOrder(Nat, Ahead) /\ Cardinality(S) \in Nat
    BY SlotsAreFinite, AheadOrders
  <2>8. i \in S
    BY <1>6, <2>1 DEF Occupied
  <2>9. Occupied(s2) = IF empty THEN S \ {i} ELSE S
    <3>1. new.order_count \in 0..(U32 - 1)
      BY <2>2
    <3>2. \A j \in Slots : s2[j].order_count > 0 <=>
             IF j = i THEN ~empty ELSE slots[j].order_count > 0
      BY <2>5, <3>1
    <3> HIDE DEF s2, empty
    <3>3. QED
      BY <2>1, <3>2 DEF Occupied
  <2> HIDE DEF new, s2, S, empty
  <2>10. count = Cardinality(Occupied(s2))
    <3>1. CASE empty
      BY <1>3, <2>7, <2>8, <2>9, <3>1, FS_RemoveElement DEF S
    <3>2. CASE ~empty
      BY <1>3, <2>9, <3>2 DEF S
    <3>3. QED
      BY <3>1, <3>2
  <2>11. IsBest(best_idx', Occupied(s2), Ahead)
    <3>1. CASE ~empty
      BY <1>3, <2>4, <2>9, <3>1 DEF S
    <3>2. CASE empty /\ i # best_idx
      <4>1. Occupied(s2) = S \ {i} /\ best_idx' = best_idx
        BY <2>4, <2>9, <3>2
      <4>2. IsBest(best_idx, S, Ahead)
        BY <1>3 DEF S
      <4>3. QED
        BY <2>8, <3>2, <4>1, <4>2 DEF IsBest
    <3>3. CASE empty /\ i = best_idx
      <4> DEFINE left == Occupied(s2)
                 behind == {j \in Occupied(s2) : Better(i, j)}
      <4>1. left = S \ {i} /\ best_idx' = advance_best_from(s2, i, count)
        BY <2>4, <2>9, <3>3
      <4>2. left \in SUBSET Nat /\ IsFiniteSet(left) /\ (count = 0 <=> left = {})
        BY <2>10, SlotsAreFinite
      <4>3. \A j \in S : <<j, i>> \notin Ahead
        BY <1>3, <2>8, <3>3 DEF IsBest, S
      <4>4. \A j \in left : <<i, j>> \in Ahead
        BY <1>2, <2>7, <4>1, <4>3 DEF StrictOrder
      <4>5. behind = left
        BY <1>2, <4>2, <4>4, AheadOrders
      <4> HIDE DEF left
      <4>6. CASE left = {}
        <5>1. best_idx' = SLOTS
          BY <4>1, <4>2, <4>6 DEF advance_best_from
        <5>2. QED
          BY <4>6, <5>1 DEF IsBest, left
      <4>7. CASE left # {}
        <5>1. \E x \in left : \A y \in left : <<y, x>> \notin Ahead
          BY <2>7, <4>2, <4>7, BestExists
        <5>2. \A x, y \in left : <<y, x>> \in Ahead <=> Better(y, x)
          BY <4>2, AheadOrders
        <5>3. \E x \in behind : \A y \in behind : ~Better(y, x)
          BY <4>5, <5>1, <5>2
        <5>4. advance_best_from(s2, i, count) = CHOOSE j \in behind : \A k \in behind : ~Better(k, j)
          BY <4>2, <4>5, <4>7 DEF advance_best_from
        <5> HIDE DEF behind
        <5>5. best_idx' \in behind /\ \A k \in behind : ~Better(k, best_idx')
          BY <4>1, <5>3, <5>4
        <5>6. QED
          BY <4>5, <4>7, <5>2, <5>5 DEF IsBest, left
      <4>8. QED
        BY <4>6, <4>7
    <3>4. QED
      BY <3>1, <3>2, <3>3
  <2>12. QED
    BY <1>1, <2>4, <2>5, <2>6, <2>10, <2>11 DEF Indexed
<1>7. QED
  BY <1>5, <1>6

(* The orders of the engine-like caller whose price falls in a slot. *)
In(book, i) == {o \in DOMAIN book : idx_of(book[o].price) = i}

(* No order count wraps: it is the number of the caller's orders in the    *)
(* slot, of which there are fewer than U32, or has grown once at most in   *)
(* each step of the benchmark.                                             *)
CountsInv ==
    \A i \in Slots :
        IF caller = "shootout" THEN slots[i].order_count <= steps
        ELSE slots[i].order_count = Cardinality(In(orders, i))

ArrayInv == Indexed(slots, best_idx, nonempty_count, Ahead) /\ CountsInv

(* An order more, or one less, in a slot. *)
LEMMA OrdersInSlots ==
    ASSUME NEW book, DOMAIN book \in SUBSET Orders, NEW i
    PROVE  /\ IsFiniteSet(In(book, i)) /\ Cardinality(In(book, i)) \in Nat
           /\ \A o \in Orders : o \notin In(book, i) =>
                 /\ Cardinality(In(book, i) \cup {o}) = Cardinality(In(book, i)) + 1
                 /\ Cardinality(In(book, i)) + 1 < U32
           /\ \A o \in In(book, i) :
                 /\ Cardinality(In(book, i)) > 0
                 /\ Cardinality(In(book, i) \ {o}) = Cardinality(In(book, i)) - 1
<1> DEFINE S == In(book, i)
<1>1. S \in SUBSET Orders /\ IsFiniteSet(Orders) /\ Cardinality(Orders) < U32
  BY CallerAssumption DEF In
<1> HIDE DEF S
<1>2. IsFiniteSet(S) /\ Cardinality(S) \in Nat
  BY <1>1, FS_Subset, FS_CardinalityType
<1>3. ASSUME NEW o \in Orders, o \notin S
      PROVE  Cardinality(S \cup {o}) = Cardinality(S) + 1 /\ Cardinality(S) + 1 < U32
  <2>1. Cardinality(S \cup {o}) = Cardinality(S) + 1
    BY <1>2, <1>3, FS_AddElement
  <2>2. S \cup {o} \in SUBSET Orders
    BY <1>1
  <2>3. Cardinality(S \cup {o}) <= Cardinality(Orders) /\ Cardinality(Orders) \in Nat
    BY <1>1, <2>2, FS_Subset, FS_CardinalityType
  <2>4. QED
    BY <1>1, <1>2, <2>1, <2>3, LadderWidths
<1>4. ASSUME NEW o \in S
      PROVE  Cardinality(S) > 0 /\ Cardinality(S \ {o}) = Cardinality(S) - 1
  <2>1. Cardinality(S \ {o}) = Cardinality(S) - 1
    BY <1>2, FS_RemoveElement
  <2>2. Cardinality(S) # 0
    BY <1>2, FS_EmptySet
  <2>3. QED
    BY <1>2, <2>1, <2>2
<1>5. QED
  BY <1>2, <1>3, <1>4 DEF S

(* An order is entered. *)
LEMMA PlaceIndexed ==
    ASSUME CallerInv, ArrayInv, Place
    PROVE  Indexed(slots', best_idx', nonempty_count', Ahead) /\ CountsInv'
<1>1. PICK o \in Orders \ DOMAIN orders, p \in RawPrices, n \in ShareCounts :
         /\ orders' = [x \in DOMAIN orders \cup {o} |->
                           IF x = o THEN [price |-> p, shares |-> n] ELSE orders[x]]
         /\ ArrayAdd(p, n)
  BY DEF Place, AddShares
<1>2. p \in Nat /\ n \in Nat
  BY RawPricesAssumption, CallerAssumption, LadderWidths
<1>3. /\ caller' = caller /\ caller # "shootout" /\ side \in {"Bid", "Ask"}
      /\ DOMAIN orders \in SUBSET Orders
  BY DEF Place, CallerInv
<1>4. \A j \in Slots : slots[j].order_count = Cardinality(In(orders, j))
  BY <1>3 DEF ArrayInv, CountsInv
<1>5. \A j \in Slots : o \notin In(orders, j)
  BY DEF In
<1>6. \A j \in Slots : /\ Cardinality(In(orders, j) \cup {o}) = Cardinality(In(orders, j)) + 1
                       /\ Cardinality(In(orders, j)) + 1 < U32
  BY <1>3, <1>5, OrdersInSlots
<1>7. idx_of(p) \in Slots => slots[idx_of(p)].order_count + 1 < U32
  BY <1>4, <1>6
<1>8. /\ Indexed(slots', best_idx', nonempty_count', Ahead)
      /\ \A j \in Slots : slots'[j].order_count =
            IF j = idx_of(p) THEN slots[j].order_count + 1 ELSE slots[j].order_count
  BY <1>1, <1>2, <1>3, <1>7, AddIndexed DEF ArrayInv
<1>9. ASSUME NEW j \in Slots
      PROVE  In(orders', j) = IF j = idx_of(p) THEN In(orders, j) \cup {o} ELSE In(orders, j)
  <2>1. /\ DOMAIN orders' = DOMAIN orders \cup {o} /\ orders'[o].price = p
        /\ \A x \in DOMAIN orders : orders'[x] = orders[x]
    BY <1>1
  <2>2. QED
    BY <2>1 DEF In
<1>10. \A j \in Slots : slots'[j].order_count = Cardinality(In(orders', j))
  BY <1>4, <1>6, <1>8, <1>9
<1>11. CountsInv'
  <2>1. \A j : In(orders, j)' = In(orders', j)
    BY DEF In, idx_of
  <2>2. QED
    BY <1>3, <1>10, <2>1 DEF CountsInv
<1>12. QED
  BY <1>8, <1>11

(* Shares are taken off an order. *)
LEMMA TakeIndexed ==
    ASSUME CallerInv, ArrayInv, Take
    PROVE  Indexed(slots', best_idx', nonempty_count', Ahead) /\ CountsInv'
<1>1. PICK o \in DOMAIN orders : \E n \in 0..orders[o].shares :
          /\ orders' = IF n = orders[o].shares THEN [x \in DOMAIN orders \ {o} |-> orders[x]]
                       ELSE [orders EXCEPT ![o].shares = @ - n]
          /\ ArrayRemove(orders[o].price, n, n = orders[o].shares)
  BY DEF Take, RemoveShares
<1>2. PICK n \in 0..orders[o].shares :
          /\ orders' = IF n = orders[o].shares THEN [x \in DOMAIN orders \ {o} |-> orders[x]]
                       ELSE [orders EXCEPT ![o].shares = @ - n]
          /\ ArrayRemove(orders[o].price, n, n = orders[o].shares)
  BY <1>1
<1>3. orders[o] \in Order /\ DOMAIN orders \in SUBSET Orders /\ side \in {"Bid", "Ask"}
  BY DEF CallerInv
<1>4. /\ orders[o].price \in Nat /\ n \in Nat
      /\ DOMAIN orders[o] = {"price", "shares"}
  BY <1>3 DEF Order
<1>5. PICK p : p = orders[o].price
  OBVIOUS
<1>6. PICK full : full = (n = orders[o].shares)
  OBVIOUS
<1>7. full \in BOOLEAN
  BY <1>6
<1>8. caller' = caller /\ caller # "shootout"
  BY DEF Take, CallerInv
<1>9. \A j \in Slots : slots[j].order_count = Cardinality(In(orders, j))
  BY <1>8 DEF ArrayInv, CountsInv
<1>10. ArrayRemove(p, n, full) /\ p \in Nat
  BY <1>2, <1>4, <1>5, <1>6
<1>11. /\ Indexed(slots', best_idx', nonempty_count', Ahead)
       /\ \A j \in Slots : slots'[j].order_count =
             IF j = idx_of(p) /\ full /\ slots[j].order_count > 0
             THEN slots[j].order_count - 1 ELSE slots[j].order_count
  BY <1>3, <1>4, <1>7, <1>10, RemoveIndexed DEF ArrayInv
<1>12. ASSUME NEW j \in Slots
       PROVE  In(orders', j) = IF j = idx_of(p) /\ full THEN In(orders, j) \ {o} ELSE In(orders, j)
  <2>1. CASE full
    <3>1. orders' = [x \in DOMAIN orders \ {o} |-> orders[x]]
      BY <1>2, <1>6, <2>1
    <3>2. QED
      BY <1>5, <2>1, <3>1 DEF In
  <2>2. CASE ~full
    <3>1. orders' = [orders EXCEPT ![o].shares = @ - n]
      BY <1>2, <1>6, <2>2
    <3>2. DOMAIN orders' = DOMAIN orders /\ \A x \in DOMAIN orders : x # o => orders'[x] = orders[x]
      BY <3>1
    <3>3. orders'[o] = [orders[o] EXCEPT !.shares = orders[o].shares - n]
      BY <3>1
    <3>4. orders'[o].price = orders[o].price
      BY <1>4, <3>3
    <3>5. QED
      BY <2>2, <3>2, <3>4 DEF In
  <2>3. QED
    BY <1>7, <2>1, <2>2
<1>13. ASSUME NEW j \in Slots PROVE slots'[j].order_count = Cardinality(In(orders', j))
  <2>1. CASE j = idx_of(p) /\ full
    <3>1. o \in In(orders, j)
      BY <1>5, <2>1 DEF In
    <3>2. Cardinality(In(orders, j)) > 0 /\ Cardinality(In(orders, j) \ {o}) = Cardinality(In(orders, j)) - 1
      BY <1>3, <3>1, OrdersInSlots
    <3>3. QED
      BY <1>9, <1>11, <1>12, <2>1, <3>2
  <2>2. CASE ~(j = idx_of(p) /\ full)
    <3>1. slots'[j].order_count = slots[j].order_count
      BY <1>11, <2>2
    <3>2. In(orders', j) = In(orders, j)
      BY <1>12, <2>2
    <3>3. QED
      BY <1>9, <3>1, <3>2
  <2>3. QED
    BY <2>1, <2>2
<1>14. CountsInv'
  <2>1. \A j : In(orders, j)' = In(orders', j)
    BY DEF In, idx_of
  <2>2. QED
    BY <1>8, <1>13, <2>1 DEF CountsInv
<1>15. QED
  BY <1>11, <1>14

(* An operation of the benchmark. *)
LEMMA RunIndexed ==
    ASSUME CallerInv, ArrayInv, RunWorkload
    PROVE  Indexed(slots', best_idx', nonempty_count', Ahead) /\ CountsInv'
<1>1. /\ caller = "shootout" /\ caller' = caller /\ side \in {"Bid", "Ask"}
      /\ steps \in Nat /\ steps + 1 < U32 /\ steps' = steps + 1
  BY CallerAssumption, LadderWidths DEF RunWorkload, CallerInv
<1>2. \A j \in Slots : slots[j].order_count \in Nat /\ slots[j].order_count <= steps
  <2>1. \A j \in Slots : slots[j].order_count \in Nat
    BY DEF ArrayInv, Indexed, Slot
  <2>2. QED
    BY <1>1, <2>1 DEF ArrayInv, CountsInv
<1>3. SUFFICES /\ Indexed(slots', best_idx', nonempty_count', Ahead)
               /\ \A j \in Slots : /\ slots'[j].order_count \in Nat
                                   /\ slots'[j].order_count <= slots[j].order_count + 1
  <2>1. SUFFICES ASSUME NEW j \in Slots, slots'[j].order_count \in Nat,
                        slots'[j].order_count <= slots[j].order_count + 1
                 PROVE  slots'[j].order_count <= steps'
    BY <1>1 DEF CountsInv
  <2>2. QED
    BY <1>1, <1>2, <2>1
<1>4. CASE AnyAdd
  <2>1. PICK p \in Nat, n \in 0..(U32 - 1) : ArrayAdd(p, n)
    BY <1>4 DEF AnyAdd, AddShares
  <2>2. idx_of(p) \in Slots => slots[idx_of(p)].order_count + 1 < U32
    BY <1>1, <1>2, LadderWidths
  <2>3. n \in Nat
    BY LadderWidths
  <2>4. /\ Indexed(slots', best_idx', nonempty_count', Ahead)
        /\ \A j \in Slots : slots'[j].order_count =
              IF j = idx_of(p) THEN slots[j].order_count + 1 ELSE slots[j].order_count
    BY <1>1, <2>1, <2>2, <2>3, AddIndexed DEF ArrayInv
  <2>5. QED
    BY <1>2, <2>4
<1>5. CASE AnyRemove
  <2>1. PICK p \in Nat, n \in Nat, full \in BOOLEAN : ArrayRemove(p, n, full)
    BY <1>5 DEF AnyRemove, RemoveShares
  <2>2. /\ Indexed(slots', best_idx', nonempty_count', Ahead)
        /\ \A j \in Slots : slots'[j].order_count =
              IF j = idx_of(p) /\ full /\ slots[j].order_count > 0
              THEN slots[j].order_count - 1 ELSE slots[j].order_count
    BY <1>1, <2>1, RemoveIndexed DEF ArrayInv
  <2>3. QED
    BY <1>2, <2>2
<1>6. QED
  BY <1>4, <1>5, RunCalls

(* Empty slots have no best one. *)
LEMMA InitIndexed ==
    ASSUME Init
    PROVE  CallerInv /\ FlatInv /\ ArrayInv
<1> SUFFICES ArrayInv
  BY InitEstablishes
<1>1. /\ slots = [i \in Slots |-> [price |-> 0, total_shares |-> 0, order_count |-> 0]]
      /\ nonempty_count = 0 /\ best_idx = SLOTS /\ DOMAIN orders = {} /\ steps = 0
  BY DEF Init, ArrayInit
<1>2. slots \in [Slots -> Slot] /\ \A i \in Slots : slots[i].order_count = 0
  BY <1>1, LadderWidths DEF Slot
<1>3. Occupied(slots) = {}
  BY <1>2 DEF Occupied
<1>4. Indexed(slots, best_idx, nonempty_count, Ahead)
  BY <1>1, <1>2, <1>3, FS_EmptySet DEF Indexed, IsBest
<1>5. \A i \in Slots : Cardinality(In(orders, i)) = 0
  <2>1. \A i \in Slots : In(orders, i) = {}
    BY <1>1 DEF In
  <2>2. QED
    BY <2>1, FS_EmptySet
<1>6. QED
  BY <1>1, <1>2, <1>4, <1>5 DEF ArrayInv, CountsInv

(* All steps keep the array indexed. *)
LEMMA NextIndexed ==
    ASSUME CallerInv, FlatInv, ArrayInv, [Next]_shootoutVars
    PROVE  CallerInv' /\ FlatInv' /\ ArrayInv'
<1> SUFFICES ArrayInv'
  BY NextKeepsAgreement
<1>1. Ahead' = Ahead
  <2>1. side' = side
    BY DEF Next, Place, Take, BuildAdd, BuildRemoveFull, BuildRemovePartial, Push, RunWorkload,
           shootoutVars
  <2>2. QED
    BY <2>1 DEF Ahead, Better
<1>2. SUFFICES Indexed(slots', best_idx', nonempty_count', Ahead) /\ CountsInv'
  BY <1>1 DEF ArrayInv, Indexed
<1>3. CASE UNCHANGED <<slots, best_idx, nonempty_count, caller, orders, steps>>
  BY <1>3 DEF ArrayInv, CountsInv, In
<1>4. CASE BuildAdd \/ BuildRemoveFull \/ BuildRemovePartial
  BY <1>3, <1>4, BuildCalls DEF ladders, arrayVars
<1>5. CASE UNCHANGED shootoutVars
  BY <1>3, <1>5 DEF shootoutVars, ladders, arrayVars
<1>6. QED
  BY <1>4, <1>5, PlaceIndexed, TakeIndexed, RunIndexed DEF Next

(* nonempty_count and best_idx are right whatever the caller does. *)
THEOREM ArrayCorrect == Spec => []ArrayIndexed
<1>1. CallerInv /\ ArrayInv => ArrayIndexed
  <2> SUFFICES ASSUME CallerInv, ArrayInv PROVE ArrayIndexed
    OBVIOUS
  <2>1. \A i, j \in Occupied(slots) : <<i, j>> \in Ahead <=> Better(i, j)
    BY SlotsAreFinite, AheadOrders DEF CallerInv
  <2>2. QED
    BY <2>1 DEF ArrayInv, Indexed, IsBest, ArrayIndexed
<1>2. QED
  BY <1>1, InitIndexed, NextIndexed, PTL DEF Spec

----------------------------------------------------------------------------
(* The totals of the array *)

(* The shares of the orders in a slot, one by one. *)
Units(book, i) == {u \in In(book, i) \X (1..(U32 - 1)) : u[2] <= book[u[1]].shares}

(* A book without one of its orders. *)
Without(book, o) == [x \in DOMAIN book \ {o} |-> book[x]]

SumsInv ==
    caller # "shootout" =>
        \A i \in Slots : slots[i].total_shares = Cardinality(Units(orders, i))

(* The shares of a slot are finitely many, and fit its total. *)
LEMMA UnitsFit ==
    ASSUME NEW book, DOMAIN book \in SUBSET Orders, NEW i
    PROVE  /\ IsFiniteSet(Units(book, i)) /\ Cardinality(Units(book, i)) \in Nat
           /\ Cardinality(Units(book, i)) < U64
<1> DEFINE row == 1..(U32 - 1)
           all == Orders \X row
           U == Units(book, i)
<1>1. IsFiniteSet(row) /\ Cardinality(row) = U32 - 1
  <2>1. 1 \in Int /\ U32 - 1 \in Int
    BY LadderWidths
  <2>2. IsFiniteSet(row) /\ Cardinality(row) = IF 1 > U32 - 1 THEN 0 ELSE (U32 - 1) - 1 + 1
    BY <2>1, FS_Interval
  <2>3. QED
    BY <2>2, LadderWidths
<1>2. IsFiniteSet(Orders)
  BY CallerAssumption
<1> HIDE DEF row
<1>3. IsFiniteSet(all) /\ Cardinality(all) = Cardinality(Orders) * Cardinality(row)
  BY <1>1, <1>2, FS_Product
<1>4. U \in SUBSET all
  BY DEF Units, In, row
<1> HIDE DEF U, all
<1>5. IsFiniteSet(U) /\ Cardinality(U) <= Cardinality(all)
  BY <1>3, <1>4, FS_Subset
<1>6. Cardinality(all) = Cardinality(Orders) * (U32 - 1)
  BY <1>1, <1>3
<1>7. Cardinality(U) \in Nat /\ Cardinality(all) \in Nat
  BY <1>3, <1>5, FS_CardinalityType
<1>8. Cardinality(all) < U64
  BY <1>6, CallerAssumption
<1>9. QED
  BY <1>5, <1>7, <1>8, LadderWidths DEF U

(* One order's shares are those it has; the other orders have the rest. *)
LEMMA UnitsWithout ==
    ASSUME NEW book, DOMAIN book \in SUBSET Orders, NEW o \in DOMAIN book, book[o] \in Order, NEW i
    PROVE  Cardinality(Units(book, i)) = Cardinality(Units(Without(book, o), i)) +
               (IF idx_of(book[o].price) = i THEN book[o].shares ELSE 0)
<1> DEFINE n == book[o].shares
           rest == Units(Without(book, o), i)
           one == {o}
           row == 1..n
           mine == one \X row
<1>1. n \in 0..(U32 - 1) /\ n \in Nat
  BY LadderWidths DEF Order
<1>2. DOMAIN Without(book, o) = DOMAIN book \ {o} /\ \A x \in DOMAIN book \ {o} : Without(book, o)[x] = book[x]
  BY DEF Without
<1>3. In(Without(book, o), i) = In(book, i) \ {o}
  BY <1>2 DEF In
<1>4. rest = {u \in Units(book, i) : u[1] # o}
  BY <1>2, <1>3 DEF Units, In
<1>5. IsFiniteSet(rest) /\ Cardinality(rest) \in Nat
  <2>1. DOMAIN Without(book, o) \in SUBSET Orders
    BY <1>2
  <2>2. QED
    BY <2>1, UnitsFit
<1>6. CASE idx_of(book[o].price) = i
  <2>1. o \in In(book, i)
    BY <1>6 DEF In
  <2>2. \A k \in 1..(U32 - 1) : k <= n <=> k \in row
    BY <1>1
  <2>3. row \in SUBSET (1..(U32 - 1))
    BY <1>1, LadderWidths
  <2>4. mine = {u \in Units(book, i) : u[1] = o}
    BY <2>1, <2>2, <2>3 DEF Units
  <2>5. Units(book, i) = rest \cup mine /\ rest \cap mine = {}
    BY <1>4, <2>4
  <2>6. IsFiniteSet(mine) /\ Cardinality(mine) = n
    <3>1. IsFiniteSet(row) /\ Cardinality(row) = n
      <4>1. IsFiniteSet(row) /\ Cardinality(row) = IF 1 > n THEN 0 ELSE n - 1 + 1
        BY <1>1, FS_Interval
      <4>2. QED
        BY <1>1, <4>1
    <3>2. IsFiniteSet(one) /\ Cardinality(one) = 1
      BY FS_Singleton
    <3> HIDE DEF row, one, n
    <3>3. IsFiniteSet(mine) /\ Cardinality(mine) = Cardinality(one) * Cardinality(row)
      BY <3>1, <3>2, FS_Product
    <3>4. QED
      BY <1>1, <3>1, <3>2, <3>3
  <2> HIDE DEF mine, rest
  <2>7. Cardinality(rest \cup mine) = Cardinality(rest) + Cardinality(mine) - Cardinality(rest \cap mine)
    BY <1>5, <2>6, FS_Union
  <2>8. Cardinality(rest \cap mine) = 0
    BY <2>5, FS_EmptySet
  <2>9. Cardinality(Units(book, i)) = Cardinality(rest) + n
    BY <1>1, <1>5, <2>5, <2>6, <2>7, <2>8
  <2>10. QED
    BY <1>6, <2>9 DEF rest
<1>7. CASE idx_of(book[o].price) # i
  <2>1. o \notin In(book, i)
    BY <1>7 DEF In
  <2>2. rest = Units(book, i)
    BY <1>4, <2>1 DEF Units
  <2>3. QED
    BY <1>5, <1>7, <2>2
<1>8. QED
  BY <1>6, <1>7

(* What add_shares does to the price and the total of a slot. *)
LEMMA SlotAdd ==
    ASSUME slots \in [Slots -> Slot], NEW p \in Nat, NEW shares \in Nat, ArrayAdd(p, shares),
           NEW j \in Slots
    PROVE  IF j # idx_of(p) THEN slots'[j] = slots[j]
           ELSE /\ slots'[j].total_shares = (slots[j].total_shares + shares) % U64
                /\ slots'[j].price = IF slots[j].order_count = 0 THEN p ELSE slots[j].price
<1> DEFINE level == IF slots[j].order_count = 0 THEN [slots[j] EXCEPT !.price = p] ELSE slots[j]
<1>1. idx_of(p) \in Slots <=> ~(idx_of(p) >= SLOTS)
  BY IndexIsNumber
<1>2. CASE idx_of(p) \notin Slots
  BY <1>1, <1>2 DEF ArrayAdd, arrayVars
<1>3. CASE idx_of(p) \in Slots /\ j # idx_of(p)
  BY <1>1, <1>3 DEF ArrayAdd
<1>4. CASE j = idx_of(p)
  <2>1. slots[j] \in Slot
    OBVIOUS
  <2>2. slots'[j] = Grown(level, shares)
    BY <1>1, <1>4 DEF ArrayAdd
  <2>3. /\ DOMAIN level = {"price", "total_shares", "order_count"}
        /\ level.total_shares = slots[j].total_shares
        /\ level.price = IF slots[j].order_count = 0 THEN p ELSE slots[j].price
    BY <2>1 DEF Slot
  <2> HIDE DEF level
  <2>4. QED
    BY <1>4, <2>2, <2>3 DEF Grown
<1>5. QED
  BY <1>2, <1>3, <1>4

(* What remove_shares does to them. *)
LEMMA SlotRemove ==
    ASSUME slots \in [Slots -> Slot], NEW p \in Nat, NEW shares \in Nat, NEW full \in BOOLEAN,
           ArrayRemove(p, shares, full), NEW j \in Slots
    PROVE  IF j # idx_of(p) \/ slots[j].order_count = 0 THEN slots'[j] = slots[j]
           ELSE /\ slots'[j].total_shares = (slots[j].total_shares - shares) % U64
                /\ slots'[j].price = slots[j].price
<1>1. idx_of(p) \in Slots <=> ~(idx_of(p) >= SLOTS)
  BY IndexIsNumber
<1>2. CASE idx_of(p) \notin Slots \/ slots[idx_of(p)].order_count = 0
  BY <1>1, <1>2 DEF ArrayRemove, arrayVars
<1>3. CASE idx_of(p) \in Slots /\ slots[idx_of(p)].order_count # 0
  <2>1. slots' = [slots EXCEPT ![idx_of(p)] = Shrunk(@, shares, full)]
    BY <1>1, <1>3 DEF ArrayRemove
  <2>2. CASE j # idx_of(p)
    BY <2>1, <2>2
  <2>3. CASE j = idx_of(p)
    <3>1. slots[j] \in Slot
      OBVIOUS
    <3>2. slots'[j] = Shrunk(slots[j], shares, full)
      BY <2>1, <2>3
    <3>3. DOMAIN slots[j] = {"price", "total_shares", "order_count"}
      BY <3>1 DEF Slot
    <3>4. QED
      BY <1>3, <2>3, <3>2, <3>3 DEF Shrunk
  <2>4. QED
    BY <2>2, <2>3
<1>4. QED
  BY <1>2, <1>3

(* An order is entered: its slot grows by its shares. *)
LEMMA PlaceSums ==
    ASSUME CallerInv, ArrayInv, SumsInv, Place
    PROVE  SumsInv'
<1>1. PICK o \in Orders \ DOMAIN orders, p \in RawPrices, n \in ShareCounts :
         /\ orders' = [x \in DOMAIN orders \cup {o} |->
                           IF x = o THEN [price |-> p, shares |-> n] ELSE orders[x]]
         /\ ArrayAdd(p, n)
  BY DEF Place, AddShares
<1>2. p \in Nat /\ n \in Nat /\ n \in 0..(U32 - 1)
  BY RawPricesAssumption, CallerAssumption, LadderWidths
<1>3. caller' = caller /\ caller # "shootout" /\ DOMAIN orders \in SUBSET Orders
  BY DEF Place, CallerInv
<1>4. \A j \in Slots : slots[j].total_shares = Cardinality(Units(orders, j))
  BY <1>3 DEF SumsInv
<1>5. slots \in [Slots -> Slot]
  BY DEF ArrayInv, Indexed
<1>6. PICK book : book = orders'
  OBVIOUS
<1>7. /\ DOMAIN book \in SUBSET Orders /\ o \in DOMAIN book
      /\ book[o] = [price |-> p, shares |-> n] /\ book[o] \in Order
  BY <1>1, <1>2, <1>3, <1>6 DEF Order
<1>8. \A j : Units(Without(book, o), j) = Units(orders, j)
  <2>1. /\ DOMAIN Without(book, o) = DOMAIN orders
        /\ \A x \in DOMAIN orders : Without(book, o)[x] = orders[x]
    BY <1>1, <1>6 DEF Without
  <2>2. QED
    BY <2>1 DEF Units, In
<1>9. ASSUME NEW j \in Slots PROVE slots'[j].total_shares = Cardinality(Units(book, j))
  <2>1. Cardinality(Units(book, j)) = Cardinality(Units(orders, j)) +
            (IF idx_of(p) = j THEN n ELSE 0)
    <3>1. Cardinality(Units(book, j)) = Cardinality(Units(Without(book, o), j)) +
              (IF idx_of(book[o].price) = j THEN book[o].shares ELSE 0)
      BY <1>7, UnitsWithout
    <3>2. book[o].price = p /\ book[o].shares = n
      BY <1>7
    <3>3. QED
      BY <1>8, <3>1, <3>2
  <2>2. /\ Cardinality(Units(book, j)) \in Nat /\ Cardinality(Units(book, j)) < U64
        /\ Cardinality(Units(orders, j)) \in Nat
    BY <1>3, <1>7, UnitsFit
  <2>3. CASE j = idx_of(p)
    <3>1. slots'[j].total_shares = (slots[j].total_shares + n) % U64
      BY <1>1, <1>2, <1>5, <2>3, SlotAdd
    <3>2. slots[j].total_shares + n = Cardinality(Units(book, j))
      BY <1>4, <2>1, <2>3
    <3>3. Cardinality(Units(book, j)) % U64 = Cardinality(Units(book, j))
      BY <2>2, LadderWidths, Remainders
    <3>4. QED
      BY <3>1, <3>2, <3>3
  <2>4. CASE j # idx_of(p)
    <3>1. slots'[j] = slots[j]
      BY <1>1, <1>2, <1>5, <2>4, SlotAdd
    <3>2. Cardinality(Units(book, j)) = Cardinality(Units(orders, j))
      BY <2>1, <2>2, <2>4
    <3>3. QED
      BY <1>4, <3>1, <3>2
  <2>5. QED
    BY <2>3, <2>4
<1>10. \A j : Units(orders, j)' = Units(orders', j)
  BY DEF Units, In, idx_of
<1>11. QED
  BY <1>3, <1>6, <1>9, <1>10 DEF SumsInv

(* Shares are taken off an order: its slot shrinks by as many, never below *)
(* zero.                                                                   *)
LEMMA TakeSums ==
    ASSUME CallerInv, ArrayInv, SumsInv, Take
    PROVE  SumsInv'
<1>a. PICK o \in DOMAIN orders : \E n \in 0..orders[o].shares :
          /\ orders' = IF n = orders[o].shares THEN [x \in DOMAIN orders \ {o} |-> orders[x]]
                       ELSE [orders EXCEPT ![o].shares = @ - n]
          /\ ArrayRemove(orders[o].price, n, n = orders[o].shares)
  BY DEF Take, RemoveShares
<1>1. PICK n \in 0..orders[o].shares :
          /\ orders' = IF n = orders[o].shares THEN [x \in DOMAIN orders \ {o} |-> orders[x]]
                       ELSE [orders EXCEPT ![o].shares = @ - n]
          /\ ArrayRemove(orders[o].price, n, n = orders[o].shares)
  BY <1>a
<1>2. orders[o] \in Order /\ DOMAIN orders \in SUBSET Orders
  BY DEF CallerInv
<1>3. PICK p : p = orders[o].price
  OBVIOUS
<1>4. PICK held : held = orders[o].shares
  OBVIOUS
<1>5. /\ p \in Nat /\ held \in 0..(U32 - 1) /\ held \in Nat /\ n \in Nat /\ n <= held
      /\ DOMAIN orders[o] = {"price", "shares"}
  BY <1>2, <1>3, <1>4, LadderWidths DEF Order
<1>6. PICK full : full = (n = held)
  OBVIOUS
<1>7. full \in BOOLEAN /\ ArrayRemove(p, n, full)
  BY <1>1, <1>3, <1>4, <1>6
<1>8. caller' = caller /\ caller # "shootout"
  BY DEF Take, CallerInv
<1>9. /\ \A j \in Slots : slots[j].total_shares = Cardinality(Units(orders, j))
      /\ \A j \in Slots : slots[j].order_count = Cardinality(In(orders, j))
  BY <1>8 DEF SumsInv, ArrayInv, CountsInv
<1>10. slots \in [Slots -> Slot]
  BY DEF ArrayInv, Indexed
<1>11. PICK book : book = orders'
  OBVIOUS
<1>12. \A j : Cardinality(Units(orders, j)) = Cardinality(Units(Without(orders, o), j)) +
                  (IF idx_of(p) = j THEN held ELSE 0)
  BY <1>2, <1>3, <1>4, UnitsWithout
<1>13. \A j : Cardinality(Units(book, j)) = Cardinality(Units(Without(orders, o), j)) +
                  (IF idx_of(p) = j THEN held - n ELSE 0)
  <2> TAKE j
  <2>1. DOMAIN Without(orders, o) \in SUBSET Orders
    BY <1>2 DEF Without
  <2>2. Cardinality(Units(Without(orders, o), j)) \in Nat
    BY <2>1, UnitsFit
  <2>3. CASE full
    <3>a. n = held
      BY <1>6, <2>3
    <3>1. book = Without(orders, o) /\ held - n = 0
      BY <1>1, <1>4, <1>5, <1>11, <3>a DEF Without
    <3>2. QED
      BY <2>2, <3>1
  <2>4. CASE ~full
    <3>1. book = [orders EXCEPT ![o].shares = held - n]
      BY <1>1, <1>4, <1>6, <1>11, <2>4
    <3>2. /\ DOMAIN book = DOMAIN orders
          /\ \A x \in DOMAIN orders : x # o => book[x] = orders[x]
          /\ book[o] = [orders[o] EXCEPT !.shares = held - n]
      BY <3>1
    <3>3. held - n \in 0..(U32 - 1)
      BY <1>5, LadderWidths
    <3>4. book[o].price = p /\ book[o].shares = held - n /\ book[o] \in Order
      BY <1>2, <1>3, <1>5, <3>2, <3>3 DEF Order
    <3>5. Without(book, o) = Without(orders, o)
      BY <3>2 DEF Without
    <3>6. DOMAIN book \in SUBSET Orders /\ o \in DOMAIN book
      BY <1>2, <3>2
    <3>7. Cardinality(Units(book, j)) = Cardinality(Units(Without(book, o), j)) +
              (IF idx_of(book[o].price) = j THEN book[o].shares ELSE 0)
      BY <3>4, <3>6, UnitsWithout
    <3>8. QED
      BY <3>4, <3>5, <3>7
  <2>5. QED
    BY <1>7, <2>3, <2>4
<1>14. DOMAIN book \in SUBSET Orders
  BY <1>1, <1>2, <1>11
<1>15. ASSUME NEW j \in Slots PROVE slots'[j].total_shares = Cardinality(Units(book, j))
  <2>1. PICK rest : rest = Cardinality(Units(Without(orders, o), j))
    OBVIOUS
  <2>2. rest \in Nat
    <3>1. DOMAIN Without(orders, o) \in SUBSET Orders
      BY <1>2 DEF Without
    <3>2. QED
      BY <2>1, <3>1, UnitsFit
  <2>3. Cardinality(Units(book, j)) < U64 /\ Cardinality(Units(book, j)) \in Nat
    BY <1>14, UnitsFit
  <2>4. CASE j = idx_of(p)
    <3>1. slots[j].order_count # 0
      <4>1. o \in In(orders, j)
        BY <1>3, <2>4 DEF In
      <4>2. Cardinality(In(orders, j)) > 0
        BY <1>2, <4>1, OrdersInSlots
      <4>3. QED
        BY <1>9, <4>2
    <3>2. slots'[j].total_shares = (slots[j].total_shares - n) % U64
      BY <1>5, <1>7, <1>10, <2>4, <3>1, SlotRemove
    <3>3. slots[j].total_shares = rest + held /\ Cardinality(Units(book, j)) = rest + (held - n)
      BY <1>9, <1>12, <1>13, <2>1, <2>4
    <3>4. slots[j].total_shares - n = Cardinality(Units(book, j))
      BY <1>5, <2>2, <3>3
    <3>5. Cardinality(Units(book, j)) % U64 = Cardinality(Units(book, j))
      BY <2>3, LadderWidths, Remainders
    <3>6. QED
      BY <3>2, <3>4, <3>5
  <2>5. CASE j # idx_of(p)
    <3>1. slots'[j] = slots[j]
      BY <1>5, <1>7, <1>10, <2>5, SlotRemove
    <3>2. Cardinality(Units(book, j)) = Cardinality(Units(orders, j))
      BY <1>12, <1>13, <2>5
    <3>3. QED
      BY <1>9, <3>1, <3>2
  <2>6. QED
    BY <2>4, <2>5
<1>16. \A j : Units(orders, j)' = Units(orders', j)
  BY DEF Units, In, idx_of
<1>17. QED
  BY <1>8, <1>11, <1>15, <1>16 DEF SumsInv

----------------------------------------------------------------------------
(* Array and map on the grid *)

GridPrice(i) == Base + i * TICK

(* The occupied slots are the levels of the map, with the same counts. *)
Twins(s, levels) ==
    /\ \A q \in DOMAIN levels : \E i \in Slots : q = GridPrice(i)
    /\ \A i \in Slots :
          IF s[i].order_count = 0 THEN GridPrice(i) \notin DOMAIN levels
          ELSE /\ GridPrice(i) \in DOMAIN levels
               /\ s[i].price = GridPrice(i)
               /\ levels[GridPrice(i)].order_count = s[i].order_count

SameTotals(s, levels) ==
    \A i \in Slots : s[i].order_count # 0 => levels[GridPrice(i)].total_shares = s[i].total_shares

GridInv ==
    /\ caller = "on_grid" => \A o \in DOMAIN orders : OnGrid(orders[o].price)
    /\ \A k \in 1..Len(ops) : OnGrid(ops[k].price)
    /\ caller \in {"on_grid", "shootout"} => Twins(slots, map)
    /\ caller = "on_grid" => SameTotals(slots, map)

(* Each slot has a price of its own, and they ascend. *)
LEMMA GridAscends ==
    ASSUME NEW i \in Slots, NEW j \in Slots
    PROVE  /\ GridPrice(i) \in Nat /\ idx_of(GridPrice(i)) = i
           /\ i < j <=> GridPrice(i) < GridPrice(j)
           /\ i = j <=> GridPrice(i) = GridPrice(j)
<1>1. i \in Nat /\ j \in Nat /\ TICK \in Nat /\ TICK > 0 /\ Base \in Nat
  BY BandAssumption DEF Slots
<1>2. i * TICK \in Nat /\ j * TICK \in Nat /\ (i * TICK) \div TICK = i
  BY <1>1
<1>3. GridPrice(i) \in Nat /\ ~(GridPrice(i) < Base) /\ GridPrice(i) - Base = i * TICK
  BY <1>1, <1>2 DEF GridPrice
<1>4. i < j => i * TICK < j * TICK
  BY <1>1
<1>5. j < i => j * TICK < i * TICK
  BY <1>1
<1>6. i = j \/ i < j \/ j < i
  BY <1>1
<1>7. QED
  BY <1>1, <1>2, <1>3, <1>4, <1>5, <1>6 DEF idx_of, GridPrice

(* A price on the grid is the price of its slot. *)
LEMMA OnGridPrice ==
    ASSUME NEW p \in Nat, OnGrid(p)
    PROVE  idx_of(p) \in Slots /\ p = GridPrice(idx_of(p))
<1>1. TICK \in Nat /\ TICK > 0 /\ Base \in Nat /\ SLOTS \notin Slots
  BY BandAssumption DEF Slots
<1>2. idx_of(p) \in Slots /\ (p - Base) % TICK = 0
  BY DEF OnGrid
<1>3. ~(p < Base) /\ idx_of(p) = (p - Base) \div TICK
  BY <1>1, <1>2 DEF idx_of
<1>4. PICK d : d = p - Base
  OBVIOUS
<1>5. d \in Nat /\ d % TICK = 0
  BY <1>1, <1>2, <1>3, <1>4
<1>6. d = (d \div TICK) * TICK
  BY <1>1, <1>5
<1>7. p = Base + d
  BY <1>1, <1>3, <1>4
<1>8. QED
  BY <1>2, <1>3, <1>4, <1>6, <1>7 DEF GridPrice

(* The benchmark's prices are on the grid. *)
LEMMA SampledOnGrid ==
    ASSUME NEW raw \in RawPrices
    PROVE  OnGrid(sample_price(raw))
<1> DEFINE p == IF raw < Base THEN Base ELSE IF raw > TopOfBand THEN TopOfBand ELSE raw
<1>1. /\ TICK \in Nat /\ TICK > 0 /\ Base \in Nat /\ SLOTS \in Nat /\ SLOTS > 0
      /\ Base % TICK = 0 /\ raw \in Nat
  BY BandAssumption, GridAssumption, RawPricesAssumption
<1>2. PICK last : last = SLOTS - 1
  OBVIOUS
<1>3. last \in Nat /\ last * TICK \in Nat /\ TopOfBand = Base + last * TICK
  BY <1>1, <1>2 DEF TopOfBand
<1>4. p \in Nat /\ Base <= p /\ p <= Base + last * TICK
  BY <1>1, <1>3
<1> HIDE DEF p
<1>5. PICK b : b = Base \div TICK
  OBVIOUS
<1>6. b \in Nat /\ Base = b * TICK
  BY <1>1, <1>5
<1>7. PICK k : k = p \div TICK
  OBVIOUS
<1>8. k \in Nat /\ k * TICK <= p /\ p < k * TICK + TICK
  BY <1>1, <1>4, <1>7
<1>9. b <= k
  <2>1. SUFFICES ASSUME k < b PROVE FALSE
    BY <1>6, <1>8
  <2>2. k + 1 <= b /\ k + 1 \in Nat
    BY <1>6, <1>8, <2>1
  <2>3. (k + 1) * TICK <= b * TICK
    BY <1>1, <1>6, <2>2
  <2>4. (k + 1) * TICK = k * TICK + TICK
    BY <1>1, <1>8
  <2>5. b * TICK \in Nat /\ k * TICK \in Nat
    BY <1>1, <1>6, <1>8
  <2>6. QED
    BY <1>1, <1>4, <1>6, <1>8, <2>3, <2>4, <2>5
<1>10. k - b <= last
  <2>1. SUFFICES ASSUME last < k - b PROVE FALSE
    BY <1>3, <1>6, <1>8
  <2>2. b + last + 1 <= k /\ b + last + 1 \in Nat
    BY <1>3, <1>6, <1>8, <2>1
  <2>3. (b + last + 1) * TICK <= k * TICK
    BY <1>1, <1>8, <2>2
  <2>4. (b + last + 1) * TICK = b * TICK + last * TICK + TICK
    BY <1>1, <1>3, <1>6
  <2>5. b * TICK \in Nat /\ k * TICK \in Nat
    BY <1>1, <1>6, <1>8
  <2>6. QED
    BY <1>1, <1>3, <1>4, <1>6, <1>8, <2>3, <2>4, <2>5
<1>11. PICK i : i = k - b
  OBVIOUS
<1>12. i \in Slots /\ i \in Nat
  BY <1>1, <1>2, <1>3, <1>6, <1>8, <1>9, <1>10, <1>11 DEF Slots
<1>13. sample_price(raw) = k * TICK
  BY <1>7 DEF sample_price, p
<1>14. k * TICK = Base + i * TICK
  <2>1. k = b + i
    BY <1>6, <1>8, <1>11
  <2>2. (b + i) * TICK = b * TICK + i * TICK
    BY <1>1, <1>6, <1>12
  <2>3. QED
    BY <1>6, <2>1, <2>2
<1>15. sample_price(raw) = GridPrice(i)
  BY <1>13, <1>14 DEF GridPrice
<1>16. (GridPrice(i) - Base) % TICK = 0
  <2>1. i * TICK \in Nat
    BY <1>1, <1>12
  <2>2. GridPrice(i) - Base = i * TICK
    BY <1>1, <2>1 DEF GridPrice
  <2>3. (i * TICK) % TICK = 0
    BY <1>1, <1>12
  <2>4. QED
    BY <2>2, <2>3
<1>17. QED
  BY <1>12, <1>15, <1>16, GridAscends DEF OnGrid

(* What add_shares does to the map. *)
LEMMA MapAddEffect ==
    ASSUME \A q \in DOMAIN map : map[q] \in Level, NEW p, NEW shares, MapAdd(p, shares)
    PROVE  /\ DOMAIN map' = DOMAIN map \cup {p}
           /\ \A q \in DOMAIN map : q # p => map'[q] = map[q]
           /\ map'[p].order_count = ((IF p \in DOMAIN map THEN map[p].order_count ELSE 0) + 1) % U32
           /\ map'[p].total_shares = ((IF p \in DOMAIN map THEN map[p].total_shares ELSE 0) + shares) % U64
<1> DEFINE old == IF p \in DOMAIN map THEN map[p]
                  ELSE [price |-> p, total_shares |-> 0, order_count |-> 0]
<1>1. map' = [q \in DOMAIN map \cup {p} |-> IF q = p THEN Grown(old, shares) ELSE map[q]]
  BY DEF MapAdd
<1>2. /\ DOMAIN old = {"price", "total_shares", "order_count"}
      /\ old.order_count = IF p \in DOMAIN map THEN map[p].order_count ELSE 0
      /\ old.total_shares = IF p \in DOMAIN map THEN map[p].total_shares ELSE 0
  BY DEF Level
<1> HIDE DEF old
<1>3. map'[p] = Grown(old, shares)
  BY <1>1
<1>4. /\ map'[p].order_count = (old.order_count + 1) % U32
      /\ map'[p].total_shares = (old.total_shares + shares) % U64
  BY <1>2, <1>3 DEF Grown
<1>5. QED
  BY <1>1, <1>2, <1>4

(* What remove_shares does to a level that is there. *)
LEMMA MapRemoveEffect ==
    ASSUME NEW p \in DOMAIN map, map[p] \in Level, NEW shares, NEW full \in BOOLEAN,
           MapRemove(p, shares, full)
    PROVE  LET new == Shrunk(map[p], shares, full)
           IN  /\ DOMAIN map' = IF new.order_count = 0 THEN DOMAIN map \ {p} ELSE DOMAIN map
               /\ \A q \in DOMAIN map : q # p => map'[q] = map[q]
               /\ new.order_count # 0 => map'[p] = new
               /\ new.order_count = IF full THEN (map[p].order_count - 1) % U32
                                    ELSE map[p].order_count
               /\ new.total_shares = (map[p].total_shares - shares) % U64
<1> DEFINE new == Shrunk(map[p], shares, full)
<1>1. DOMAIN map[p] = {"price", "total_shares", "order_count"}
  BY DEF Level
<1>2. /\ new.order_count = IF full THEN (map[p].order_count - 1) % U32 ELSE map[p].order_count
      /\ new.total_shares = (map[p].total_shares - shares) % U64
  BY <1>1 DEF Shrunk
<1>3. map' = IF new.order_count = 0 THEN [q \in DOMAIN map \ {p} |-> map[q]]
             ELSE [map EXCEPT ![p] = new]
  BY DEF MapRemove
<1> HIDE DEF new
<1>4. CASE new.order_count = 0
  BY <1>2, <1>3, <1>4 DEF new
<1>5. CASE new.order_count # 0
  BY <1>2, <1>3, <1>5 DEF new
<1>6. QED
  BY <1>4, <1>5

(* The same shares added on the grid. *)
LEMMA TwinsAdd ==
    ASSUME slots \in [Slots -> Slot], \A q \in DOMAIN map : map[q] \in Level, Twins(slots, map),
           NEW p \in Nat, OnGrid(p), NEW shares \in Nat, MapAdd(p, shares), ArrayAdd(p, shares),
           slots[idx_of(p)].order_count + 1 < U32,
           \A j \in Slots : slots'[j].order_count =
              IF j = idx_of(p) THEN slots[j].order_count + 1 ELSE slots[j].order_count
    PROVE  /\ Twins(slots', map')
           /\ SameTotals(slots, map) /\ (slots[idx_of(p)].order_count = 0 =>
                                            slots[idx_of(p)].total_shares = 0)
              => SameTotals(slots', map')
<1>1. PICK i : i = idx_of(p)
  OBVIOUS
<1>2. i \in Slots /\ p = GridPrice(i)
  BY <1>1, OnGridPrice
<1>3. \A j \in Slots : j # i => GridPrice(j) # p
  BY <1>2, GridAscends
<1>4. \A j \in Slots : slots[j].order_count \in Nat
  BY DEF Slot
<1>5. /\ DOMAIN map' = DOMAIN map \cup {p}
      /\ \A q \in DOMAIN map : q # p => map'[q] = map[q]
      /\ map'[p].order_count = ((IF p \in DOMAIN map THEN map[p].order_count ELSE 0) + 1) % U32
      /\ map'[p].total_shares = ((IF p \in DOMAIN map THEN map[p].total_shares ELSE 0) + shares) % U64
  BY MapAddEffect
<1>6. \A j \in Slots :
          IF j # i THEN slots'[j] = slots[j]
          ELSE /\ slots'[j].total_shares = (slots[j].total_shares + shares) % U64
               /\ slots'[j].price = IF slots[j].order_count = 0 THEN p ELSE slots[j].price
  BY <1>1, SlotAdd
<1>7. IF slots[i].order_count = 0 THEN p \notin DOMAIN map
      ELSE p \in DOMAIN map /\ slots[i].price = p /\ map[p].order_count = slots[i].order_count
  BY <1>2 DEF Twins
<1>8. slots'[i].order_count = slots[i].order_count + 1 /\ slots'[i].order_count # 0
  BY <1>1, <1>2, <1>4
<1>9. (slots[i].order_count + 1) % U32 = slots[i].order_count + 1
  <2>1. slots[i].order_count + 1 \in 0..(U32 - 1) /\ slots[i].order_count + 1 \in Int
    BY <1>1, <1>2, <1>4, LadderWidths
  <2>2. QED
    BY ONLY <2>1, LadderWidths, Remainders
<1>10. map'[p].order_count = slots'[i].order_count
  <2>1. (IF p \in DOMAIN map THEN map[p].order_count ELSE 0) = slots[i].order_count
    BY <1>7
  <2>2. QED
    BY <1>5, <1>8, <1>9, <2>1
<1>11. slots'[i].price = p
  BY <1>2, <1>6, <1>7
<1>12. ASSUME NEW j \in Slots, j # i
       PROVE  /\ slots'[j] = slots[j] /\ GridPrice(j) # p
              /\ GridPrice(j) \in DOMAIN map' <=> GridPrice(j) \in DOMAIN map
              /\ GridPrice(j) \in DOMAIN map => map'[GridPrice(j)] = map[GridPrice(j)]
  BY <1>3, <1>5, <1>6, <1>12
<1>13. Twins(slots', map')
  <2>1. \A q \in DOMAIN map' : \E j \in Slots : q = GridPrice(j)
    BY <1>2, <1>5 DEF Twins
  <2>2. ASSUME NEW j \in Slots
        PROVE  IF slots'[j].order_count = 0 THEN GridPrice(j) \notin DOMAIN map'
               ELSE /\ GridPrice(j) \in DOMAIN map'
                    /\ slots'[j].price = GridPrice(j)
                    /\ map'[GridPrice(j)].order_count = slots'[j].order_count
    <3>1. CASE j = i
      BY <1>2, <1>5, <1>8, <1>10, <1>11, <3>1
    <3>2. CASE j # i
      BY <1>12, <3>2 DEF Twins
    <3>3. QED
      BY <3>1, <3>2
  <2>3. QED
    BY <2>1, <2>2 DEF Twins
<1>14. ASSUME SameTotals(slots, map), slots[i].order_count = 0 => slots[i].total_shares = 0
       PROVE  SameTotals(slots', map')
  <2>1. (IF p \in DOMAIN map THEN map[p].total_shares ELSE 0) = slots[i].total_shares
    BY <1>2, <1>7, <1>14 DEF SameTotals
  <2>2. map'[p].total_shares = slots'[i].total_shares
    BY <1>2, <1>5, <1>6, <2>1
  <2>3. ASSUME NEW j \in Slots, slots'[j].order_count # 0
        PROVE  map'[GridPrice(j)].total_shares = slots'[j].total_shares
    <3>1. CASE j = i
      BY <1>2, <2>2, <3>1
    <3>2. CASE j # i
      BY <1>12, <1>14, <2>3, <3>2 DEF SameTotals, Twins
    <3>3. QED
      BY <3>1, <3>2
  <2>4. QED
    BY <2>3 DEF SameTotals
<1>15. QED
  BY <1>1, <1>13, <1>14

(* The same shares removed on the grid. *)
LEMMA TwinsRemove ==
    ASSUME slots \in [Slots -> Slot], \A q \in DOMAIN map : map[q] \in Level, Twins(slots, map),
           NEW p \in Nat, OnGrid(p), NEW shares \in Nat, NEW full \in BOOLEAN,
           MapRemove(p, shares, full), ArrayRemove(p, shares, full),
           \A j \in Slots : slots'[j].order_count =
              IF j = idx_of(p) /\ full /\ slots[j].order_count > 0
              THEN slots[j].order_count - 1 ELSE slots[j].order_count
    PROVE  /\ Twins(slots', map')
           /\ SameTotals(slots, map) => SameTotals(slots', map')
<1>1. PICK i : i = idx_of(p)
  OBVIOUS
<1>2. i \in Slots /\ p = GridPrice(i)
  BY <1>1, OnGridPrice
<1>3. \A j \in Slots : j # i => GridPrice(j) # p
  BY <1>2, GridAscends
<1>4. \A j \in Slots : slots[j].order_count \in 0..(U32 - 1)
  BY DEF Slot
<1>5. \A j \in Slots :
          IF j # i \/ slots[j].order_count = 0 THEN slots'[j] = slots[j]
          ELSE /\ slots'[j].total_shares = (slots[j].total_shares - shares) % U64
               /\ slots'[j].price = slots[j].price
  BY <1>1, SlotRemove
<1>6. IF slots[i].order_count = 0 THEN p \notin DOMAIN map
      ELSE p \in DOMAIN map /\ slots[i].price = p /\ map[p].order_count = slots[i].order_count
  BY <1>2 DEF Twins
<1>7. CASE slots[i].order_count = 0
  <2>1. map' = map
    BY <1>6, <1>7 DEF MapRemove
  <2>2. \A j \in Slots : slots'[j] = slots[j]
    BY <1>5, <1>7
  <2>3. QED
    BY <2>1, <2>2 DEF Twins, SameTotals
<1>8. CASE slots[i].order_count # 0
  <2>1. p \in DOMAIN map /\ map[p] \in Level /\ map[p].order_count = slots[i].order_count
    BY <1>6, <1>8
  <2>a. PICK new : new = Shrunk(map[p], shares, full)
    OBVIOUS
  <2>b. PICK n : n = new.order_count
    OBVIOUS
  <2>c. /\ DOMAIN map' = IF n = 0 THEN DOMAIN map \ {p} ELSE DOMAIN map
        /\ \A q \in DOMAIN map : q # p => map'[q] = map[q]
        /\ n # 0 => map'[p] = new
        /\ n = IF full THEN (map[p].order_count - 1) % U32 ELSE map[p].order_count
        /\ new.total_shares = (map[p].total_shares - shares) % U64
    BY <2>1, <2>a, <2>b, MapRemoveEffect
  <2>2. n = slots'[i].order_count
    <3>1. slots[i].order_count > 0 /\ slots[i].order_count \in 0..(U32 - 1)
      BY <1>2, <1>4, <1>8
    <3>2. slots[i].order_count - 1 \in 0..(U32 - 1) /\ slots[i].order_count - 1 \in Int
      BY <3>1, LadderWidths
    <3>3. (slots[i].order_count - 1) % U32 = slots[i].order_count - 1
      BY ONLY <3>2, LadderWidths, Remainders
    <3>4. QED
      BY <1>1, <1>2, <2>1, <2>c, <3>1, <3>3
  <2>3. /\ DOMAIN map' = IF n = 0 THEN DOMAIN map \ {p} ELSE DOMAIN map
        /\ \A q \in DOMAIN map : q # p => map'[q] = map[q]
        /\ n # 0 => /\ map'[p].order_count = n
                    /\ map'[p].total_shares = (map[p].total_shares - shares) % U64
    BY <2>b, <2>c
  <2>4. ASSUME NEW j \in Slots, j # i
        PROVE  /\ slots'[j] = slots[j] /\ GridPrice(j) # p
               /\ GridPrice(j) \in DOMAIN map' <=> GridPrice(j) \in DOMAIN map
               /\ GridPrice(j) \in DOMAIN map => map'[GridPrice(j)] = map[GridPrice(j)]
    BY <1>3, <1>5, <2>3, <2>4
  <2>5. slots'[i].price = p
    BY <1>2, <1>5, <1>6, <1>8
  <2>6. Twins(slots', map')
    <3>1. \A q \in DOMAIN map' : \E j \in Slots : q = GridPrice(j)
      BY <2>3 DEF Twins
    <3>2. ASSUME NEW j \in Slots
          PROVE  IF slots'[j].order_count = 0 THEN GridPrice(j) \notin DOMAIN map'
                 ELSE /\ GridPrice(j) \in DOMAIN map'
                      /\ slots'[j].price = GridPrice(j)
                      /\ map'[GridPrice(j)].order_count = slots'[j].order_count
      <4>1. CASE j = i
        BY <1>2, <2>1, <2>2, <2>3, <2>5, <4>1
      <4>2. CASE j # i
        BY <2>4, <4>2 DEF Twins
      <4>3. QED
        BY <4>1, <4>2
    <3>3. QED
      BY <3>1, <3>2 DEF Twins
  <2>7. ASSUME SameTotals(slots, map) PROVE SameTotals(slots', map')
    <3>1. map[p].total_shares = slots[i].total_shares
      BY <1>2, <1>8, <2>7 DEF SameTotals
    <3>2. n # 0 => map'[p].total_shares = slots'[i].total_shares
      BY <1>2, <1>5, <1>8, <2>3, <3>1
    <3>3. ASSUME NEW j \in Slots, slots'[j].order_count # 0
          PROVE  map'[GridPrice(j)].total_shares = slots'[j].total_shares
      <4>1. CASE j = i
        BY <1>2, <2>2, <3>2, <3>3, <4>1
      <4>2. CASE j # i
        BY <2>4, <2>7, <3>3, <4>2 DEF SameTotals, Twins
      <4>3. QED
        BY <4>1, <4>2
    <3>4. QED
      BY <3>3 DEF SameTotals
  <2>8. QED
    BY <2>6, <2>7
<1>9. QED
  BY <1>7, <1>8

(* Array and map list the same slots in the same order. *)
LEMMA TwinsListed ==
    ASSUME side \in {"Bid", "Ask"}, Indexed(slots, best_idx, nonempty_count, Ahead),
           Twins(slots, map)
    PROVE  LET order == BestFirst(Occupied(slots))
               n == nonempty_count
           IN  /\ n \in Nat /\ MapSize = n
               /\ \A k \in 1..n : order[k] \in Occupied(slots)
               /\ ArrayList = [k \in 1..n |-> slots[order[k]]]
               /\ MapList = [k \in 1..n |-> map[GridPrice(order[k])]]
               /\ n # 0 => best_idx = order[1]
<1> DEFINE S == Occupied(slots)
           n == nonempty_count
           order == BestFirst(S)
           prices == [k \in 1..n |-> GridPrice(order[k])]
           D == DOMAIN map
<1>1. slots \in [Slots -> Slot] /\ n = Cardinality(S) /\ IsBest(best_idx, S, Ahead)
  BY DEF Indexed
<1>2. /\ Slots \in SUBSET Nat /\ S \in SUBSET Slots /\ S \in SUBSET Nat /\ IsFiniteSet(S)
      /\ n \in Nat /\ (n = 0 <=> S = {})
  BY <1>1, SlotsAreFinite
<1>3. StrictOrder(S, Ahead) /\ StrictOrder(Nat, Ahead)
  BY <1>2, AheadOrders
<1>4. order = Ranked(S, Ahead)
  BY <1>2, BestFirstIsRanked
<1>5. /\ DOMAIN order = 1..n
      /\ \A k \in 1..n : order[k] \in S
      /\ \A x \in S : \E k \in 1..n : order[k] = x
      /\ \A j, k \in 1..n : j < k => <<order[j], order[k]>> \in Ahead
  BY <1>1, <1>2, <1>3, <1>4, RankedProperties
<1>6. \A q : q \in D <=> \E i \in S : q = GridPrice(i)
  <2>1. \A i \in Slots : i \in S <=> slots[i].order_count # 0
    BY <1>1 DEF Occupied, Slot
  <2>2. QED
    BY <1>2, <2>1 DEF Twins
<1>7. D \in SUBSET Nat
  BY <1>2, <1>6, GridAscends
<1>8. \A j, k \in 1..n : j < k => <<prices[j], prices[k]>> \in Ahead
  <2> SUFFICES ASSUME NEW j \in 1..n, NEW k \in 1..n, j < k
               PROVE  <<GridPrice(order[j]), GridPrice(order[k])>> \in Ahead
    OBVIOUS
  <2>1. order[j] \in Slots /\ order[k] \in Slots /\ order[j] \in Nat /\ order[k] \in Nat
    BY <1>2, <1>5
  <2>2. Better(order[j], order[k])
    BY <1>5, <2>1, AheadOrders
  <2>3. /\ GridPrice(order[j]) \in Nat /\ GridPrice(order[k]) \in Nat
        /\ order[j] < order[k] => GridPrice(order[j]) < GridPrice(order[k])
        /\ order[k] < order[j] => GridPrice(order[k]) < GridPrice(order[j])
    BY <2>1, GridAscends
  <2>4. Better(GridPrice(order[j]), GridPrice(order[k]))
    BY <2>1, <2>2, <2>3 DEF Better
  <2>5. QED
    BY <2>3, <2>4, AheadOrders
<1>9. \A k \in 1..n : prices[k] \in D
  BY <1>5, <1>6
<1>10. \A q \in D : \E k \in 1..n : q = prices[k]
  <2> TAKE q \in D
  <2>1. PICK i \in S : q = GridPrice(i)
    BY <1>6
  <2>2. PICK k \in 1..n : order[k] = i
    BY <1>5
  <2>3. QED
    BY <2>1, <2>2
<1>11. StrictOrder(D, Ahead)
  BY <1>7, AheadOrders
<1> HIDE DEF S, order, prices, D, n
<1>12. IsFiniteSet(D) /\ Cardinality(D) = n /\ \A k \in 1..n : Ranked(D, Ahead)[k] = prices[k]
  BY <1>2, <1>8, <1>9, <1>10, <1>11, SortedIsRanked
<1>13. DOMAIN BestFirst(D) = 1..n /\ \A k \in 1..n : BestFirst(D)[k] = prices[k]
  BY <1>7, <1>12, BestFirstIsRanked DEF Ranked
<1>14. MapList = [k \in 1..n |-> map[GridPrice(order[k])]]
  <2>1. MapList = [k \in 1..n |-> map[BestFirst(D)[k]]]
    BY <1>13 DEF MapList, D
  <2>2. \A k \in 1..n : map[BestFirst(D)[k]] = map[GridPrice(order[k])]
    BY <1>13 DEF prices
  <2>3. QED
    BY <2>1, <2>2
<1>15. MapSize = n
  BY <1>12 DEF MapSize, D
<1>16. ArrayList = [k \in 1..n |-> slots[order[k]]]
  <2>1. CASE n = 0
    <3>1. ArrayList = <<>>
      BY <2>1 DEF ArrayList, n
    <3>2. 1..n = {}
      BY <2>1
    <3>3. QED
      BY <3>1, <3>2
  <2>2. CASE n # 0
    <3>1. {i \in S : ~Better(i, best_idx)} = S
      <4>1. best_idx \in S /\ \A i \in S : <<i, best_idx>> \notin Ahead
        BY <1>1, <1>2, <2>2 DEF IsBest
      <4>2. QED
        BY <1>2, <4>1, AheadOrders
    <3>2. ArrayList = [k \in DOMAIN order |-> slots[order[k]]]
      BY <2>2, <3>1 DEF ArrayList, S, order, n
    <3>3. QED
      BY <1>5, <3>2
  <2>3. QED
    BY <2>1, <2>2
<1>17. ASSUME n # 0 PROVE best_idx = order[1]
  <2>1. best_idx \in S /\ \A i \in S : <<i, best_idx>> \notin Ahead
    BY <1>1, <1>2, <1>17 DEF IsBest
  <2>2. PICK k \in 1..n : order[k] = best_idx
    BY <1>5, <2>1
  <2>3. 1 \in 1..n
    BY <1>2, <1>17
  <2>4. ~(1 < k)
    BY <1>5, <2>1, <2>2, <2>3
  <2>5. k = 1
    BY <1>2, <2>4
  <2>6. QED
    BY <2>2, <2>5
<1>18. QED
  BY <1>2, <1>5, <1>14, <1>15, <1>16, <1>17 DEF S, order, n

----------------------------------------------------------------------------
(* All that is invariant about the callers and the ladders. *)
ShootoutInv == CallerInv /\ FlatInv /\ ArrayInv /\ SumsInv /\ GridInv

(* The map's levels are levels. *)
LEMMA MapLevels ==
    ASSUME FlatInv
    PROVE  \A q \in DOMAIN map : map[q] \in Level /\ map[q].price = q
<1>1. flat \in Seq(Level) /\ \A i \in 1..Len(flat) : flat[i] \in Level
  BY DEF FlatInv, Agree
<1>2. QED
  BY <1>1 DEF FlatInv, Agree

(* Prices stay on the grid where they have to be, and only the calls of    *)
(* three actions change a ladder.                                          *)
LEMMA PlaceOnGrid ==
    ASSUME ShootoutInv, Place
    PROVE  GridInv'
<1>1. PICK o \in Orders \ DOMAIN orders, p \in RawPrices, n \in ShareCounts :
         /\ caller = "on_grid" => OnGrid(p)
         /\ orders' = [x \in DOMAIN orders \cup {o} |->
                           IF x = o THEN [price |-> p, shares |-> n] ELSE orders[x]]
         /\ MapAdd(p, n) /\ ArrayAdd(p, n)
  BY DEF Place, AddShares
<1>2. p \in Nat /\ n \in Nat
  BY RawPricesAssumption, CallerAssumption, LadderWidths
<1>3. /\ caller' = caller /\ ops' = ops /\ caller # "shootout" /\ side \in {"Bid", "Ask"}
      /\ DOMAIN orders \in SUBSET Orders
  BY DEF Place, CallerInv, ShootoutInv
<1>4. CASE caller # "on_grid"
  BY <1>3, <1>4 DEF ShootoutInv, GridInv, OnGrid, idx_of
<1>5. CASE caller = "on_grid"
  <2>1. OnGrid(p) /\ idx_of(p) \in Slots
    BY <1>1, <1>5 DEF OnGrid
  <2>2. /\ slots \in [Slots -> Slot] /\ Indexed(slots, best_idx, nonempty_count, Ahead)
        /\ \A q \in DOMAIN map : map[q] \in Level
        /\ Twins(slots, map) /\ SameTotals(slots, map)
    BY <1>5, MapLevels DEF ShootoutInv, ArrayInv, Indexed, GridInv
  <2>3. /\ slots[idx_of(p)].order_count = Cardinality(In(orders, idx_of(p)))
        /\ slots[idx_of(p)].total_shares = Cardinality(Units(orders, idx_of(p)))
    BY <1>3, <2>1 DEF ShootoutInv, ArrayInv, CountsInv, SumsInv
  <2>4. slots[idx_of(p)].order_count + 1 < U32
    <3>1. o \notin In(orders, idx_of(p))
      BY DEF In
    <3>2. QED
      BY <1>3, <2>3, <3>1, OrdersInSlots
  <2>5. slots[idx_of(p)].order_count = 0 => slots[idx_of(p)].total_shares = 0
    <3> SUFFICES ASSUME slots[idx_of(p)].order_count = 0 PROVE slots[idx_of(p)].total_shares = 0
      OBVIOUS
    <3>1. In(orders, idx_of(p)) = {}
      BY <1>3, <2>3, OrdersInSlots, FS_EmptySet
    <3>2. Units(orders, idx_of(p)) = {}
      BY <3>1 DEF Units
    <3>3. QED
      BY <2>3, <3>2, FS_EmptySet
  <2>6. \A j \in Slots : slots'[j].order_count =
            IF j = idx_of(p) THEN slots[j].order_count + 1 ELSE slots[j].order_count
    BY <1>1, <1>2, <1>3, <2>2, <2>4, AddIndexed
  <2>7. Twins(slots', map') /\ SameTotals(slots', map')
    BY <1>1, <1>2, <2>1, <2>2, <2>4, <2>5, <2>6, TwinsAdd
  <2>8. \A x \in DOMAIN orders' : OnGrid(orders'[x].price)
    BY <1>1, <1>5, <2>1 DEF ShootoutInv, GridInv
  <2>9. QED
    BY <1>3, <1>5, <2>7, <2>8 DEF GridInv, ShootoutInv, Twins, SameTotals, OnGrid, idx_of
<1>6. QED
  BY <1>4, <1>5

(* Shares are taken off an order on the grid. *)
LEMMA TakeOnGrid ==
    ASSUME ShootoutInv, Take
    PROVE  GridInv'
<1>1. PICK o \in DOMAIN orders : \E n \in 0..orders[o].shares :
          /\ orders' = IF n = orders[o].shares THEN [x \in DOMAIN orders \ {o} |-> orders[x]]
                       ELSE [orders EXCEPT ![o].shares = @ - n]
          /\ MapRemove(orders[o].price, n, n = orders[o].shares)
          /\ ArrayRemove(orders[o].price, n, n = orders[o].shares)
  BY DEF Take, RemoveShares
<1>2. PICK n \in 0..orders[o].shares :
          /\ orders' = IF n = orders[o].shares THEN [x \in DOMAIN orders \ {o} |-> orders[x]]
                       ELSE [orders EXCEPT ![o].shares = @ - n]
          /\ MapRemove(orders[o].price, n, n = orders[o].shares)
          /\ ArrayRemove(orders[o].price, n, n = orders[o].shares)
  BY <1>1
<1>3. orders[o] \in Order /\ side \in {"Bid", "Ask"} /\ caller # "shootout"
  BY DEF ShootoutInv, CallerInv
<1>4. PICK p : p = orders[o].price
  OBVIOUS
<1>5. PICK full : full = (n = orders[o].shares)
  OBVIOUS
<1>6. /\ p \in Nat /\ n \in Nat /\ full \in BOOLEAN /\ DOMAIN orders[o] = {"price", "shares"}
      /\ MapRemove(p, n, full) /\ ArrayRemove(p, n, full)
  BY <1>2, <1>3, <1>4, <1>5 DEF Order
<1>7. caller' = caller /\ ops' = ops
  BY DEF Take
<1>8. CASE caller # "on_grid"
  BY <1>3, <1>7, <1>8 DEF ShootoutInv, GridInv, OnGrid, idx_of
<1>9. CASE caller = "on_grid"
  <2>1. OnGrid(p)
    BY <1>4, <1>9 DEF ShootoutInv, GridInv
  <2>2. /\ slots \in [Slots -> Slot] /\ Indexed(slots, best_idx, nonempty_count, Ahead)
        /\ \A q \in DOMAIN map : map[q] \in Level
        /\ Twins(slots, map) /\ SameTotals(slots, map)
    BY <1>9, MapLevels DEF ShootoutInv, ArrayInv, Indexed, GridInv
  <2>3. \A j \in Slots : slots'[j].order_count =
            IF j = idx_of(p) /\ full /\ slots[j].order_count > 0
            THEN slots[j].order_count - 1 ELSE slots[j].order_count
    BY <1>3, <1>6, <2>2, RemoveIndexed
  <2>4. Twins(slots', map') /\ SameTotals(slots', map')
    BY <1>6, <2>1, <2>2, <2>3, TwinsRemove
  <2>5. \A x \in DOMAIN orders' : x \in DOMAIN orders /\ orders'[x].price = orders[x].price
    <3>1. CASE n = orders[o].shares
      BY <1>2, <3>1
    <3>2. CASE n # orders[o].shares
      <4>1. orders' = [orders EXCEPT ![o].shares = @ - n]
        BY <1>2, <3>2
      <4>2. DOMAIN orders' = DOMAIN orders /\ \A x \in DOMAIN orders : x # o => orders'[x] = orders[x]
        BY <4>1
      <4>3. orders'[o] = [orders[o] EXCEPT !.shares = orders[o].shares - n]
        BY <4>1
      <4>4. orders'[o].price = orders[o].price
        BY <1>6, <4>3
      <4>5. QED
        BY <4>2, <4>4
    <3>3. QED
      BY <3>1, <3>2
  <2>6. \A x \in DOMAIN orders' : OnGrid(orders'[x].price)
    BY <1>9, <2>5 DEF ShootoutInv, GridInv
  <2>7. QED
    BY <1>7, <1>9, <2>4, <2>6 DEF GridInv, ShootoutInv, Twins, SameTotals, OnGrid, idx_of
<1>10. QED
  BY <1>8, <1>9

(* The benchmark's operations are built on the grid. *)
LEMMA BuildOnGrid ==
    ASSUME ShootoutInv, BuildAdd \/ BuildRemoveFull \/ BuildRemovePartial
    PROVE  GridInv'
<1>1. \A p \in Sampled : OnGrid(p)
  BY SampledOnGrid DEF Sampled
<1>2. \E op, p : OnGrid(p) /\ Push(op, p)
  BY <1>1, SampledOnGrid DEF BuildAdd, BuildRemoveFull, BuildRemovePartial
<1>3. PICK op, p : OnGrid(p) /\ Push(op, p)
  BY <1>2
<1>4. ops' = Append(ops, [op |-> op, price |-> p]) /\ UNCHANGED <<map, slots, caller, orders>>
  BY <1>3 DEF Push, ladders, arrayVars
<1>5. ops \in Seq(Operations) /\ Len(ops) \in Nat
  BY DEF ShootoutInv, CallerInv
<1>6. /\ Len(ops') = Len(ops) + 1 /\ ops'[Len(ops) + 1].price = p
      /\ \A k \in 1..Len(ops) : ops'[k] = ops[k]
  BY <1>4, <1>5
<1>7. \A k \in 1..Len(ops') : OnGrid(ops'[k].price)
  <2> TAKE k \in 1..Len(ops')
  <2>1. k \in 1..Len(ops) \/ k = Len(ops) + 1
    BY <1>5, <1>6
  <2>2. QED
    BY <1>3, <1>6, <2>1 DEF ShootoutInv, GridInv
<1>8. QED
  BY <1>4, <1>7 DEF ShootoutInv, GridInv, Twins, SameTotals, OnGrid, idx_of

(* An operation of the benchmark. *)
LEMMA RunOnGrid ==
    ASSUME ShootoutInv, RunWorkload
    PROVE  GridInv'
<1>1. PICK s : s = ops[idx + 1]
  OBVIOUS
<1>2. PICK p : p = s.price
  OBVIOUS
<1>3. idx + 1 \in 1..Len(ops)
  BY CallerAssumption DEF ShootoutInv, CallerInv, RunWorkload, Built
<1>4. s \in Operations /\ OnGrid(p)
  <2>1. ops \in Seq(Operations)
    BY DEF ShootoutInv, CallerInv
  <2>2. s \in Operations
    BY <1>1, <1>3, <2>1, ElementOfSeq
  <2>3. OnGrid(ops[idx + 1].price)
    BY <1>3 DEF ShootoutInv, GridInv
  <2>4. QED
    BY <1>1, <1>2, <2>2, <2>3
<1>5. p \in Nat /\ idx_of(p) \in Slots
  BY <1>2, <1>4 DEF Operations, OnGrid
<1>6. /\ caller = "shootout" /\ UNCHANGED <<caller, orders, ops>> /\ side \in {"Bid", "Ask"}
      /\ steps \in Nat /\ steps + 1 < U32
  BY CallerAssumption, LadderWidths DEF ShootoutInv, CallerInv, RunWorkload
<1>7. /\ slots \in [Slots -> Slot] /\ Indexed(slots, best_idx, nonempty_count, Ahead)
      /\ \A q \in DOMAIN map : map[q] \in Level
      /\ Twins(slots, map)
  BY <1>6, MapLevels DEF ShootoutInv, ArrayInv, Indexed, GridInv
<1>8. Twins(slots', map')
  <2>1. \/ MapAdd(p, OpShares) /\ ArrayAdd(p, OpShares)
        \/ MapRemove(p, 1, FALSE) /\ ArrayRemove(p, 1, FALSE)
        \/ MapRemove(p, OpShares, TRUE) /\ ArrayRemove(p, OpShares, TRUE)
    BY <1>1, <1>2 DEF RunWorkload, AddShares, RemoveShares
  <2>2. OpShares \in Nat
    BY CallerAssumption, LadderWidths
  <2>3. CASE MapAdd(p, OpShares) /\ ArrayAdd(p, OpShares)
    <3>1. slots[idx_of(p)].order_count + 1 < U32
      <4>1. slots[idx_of(p)].order_count \in Nat /\ slots[idx_of(p)].order_count <= steps
        BY <1>5, <1>6, <1>7 DEF ShootoutInv, ArrayInv, CountsInv, Slot
      <4>2. QED
        BY <1>6, <4>1, LadderWidths
    <3>2. \A j \in Slots : slots'[j].order_count =
              IF j = idx_of(p) THEN slots[j].order_count + 1 ELSE slots[j].order_count
      BY <1>5, <1>6, <1>7, <2>2, <2>3, <3>1, AddIndexed
    <3>3. QED
      BY <1>4, <1>5, <1>7, <2>2, <2>3, <3>1, <3>2, TwinsAdd
  <2>4. ASSUME NEW n \in Nat, NEW full \in BOOLEAN, MapRemove(p, n, full), ArrayRemove(p, n, full)
        PROVE  Twins(slots', map')
    <3>1. \A j \in Slots : slots'[j].order_count =
              IF j = idx_of(p) /\ full /\ slots[j].order_count > 0
              THEN slots[j].order_count - 1 ELSE slots[j].order_count
      BY <1>5, <1>6, <1>7, <2>4, RemoveIndexed
    <3>2. QED
      BY <1>4, <1>5, <1>7, <2>4, <3>1, TwinsRemove
  <2>5. CASE MapRemove(p, 1, FALSE) /\ ArrayRemove(p, 1, FALSE)
    <3>1. PICK flag : flag = FALSE
      OBVIOUS
    <3>2. flag \in BOOLEAN /\ MapRemove(p, 1, flag) /\ ArrayRemove(p, 1, flag) /\ 1 \in Nat
      BY <2>5, <3>1
    <3>3. QED
      BY <2>4, <3>2
  <2>6. CASE MapRemove(p, OpShares, TRUE) /\ ArrayRemove(p, OpShares, TRUE)
    <3>1. PICK flag : flag = TRUE
      OBVIOUS
    <3>2. flag \in BOOLEAN /\ MapRemove(p, OpShares, flag) /\ ArrayRemove(p, OpShares, flag)
      BY <2>6, <3>1
    <3>3. QED
      BY <2>2, <2>4, <3>2
  <2>7. QED
    BY <2>1, <2>3, <2>5, <2>6
<1>9. QED
  BY <1>6, <1>8 DEF ShootoutInv, GridInv, Twins, OnGrid, idx_of

(* The inductive invariant holds always. *)
THEOREM ShootoutInvariance == Spec => []ShootoutInv
<1>1. Init => ShootoutInv
  <2> SUFFICES ASSUME Init PROVE ShootoutInv
    OBVIOUS
  <2>1. CallerInv /\ FlatInv /\ ArrayInv
    BY InitIndexed
  <2>2. /\ slots = [i \in Slots |-> [price |-> 0, total_shares |-> 0, order_count |-> 0]]
        /\ DOMAIN orders = {} /\ DOMAIN map = {} /\ ops = <<>>
    BY DEF Init, ArrayInit, MapInit
  <2>3. \A i \in Slots : slots[i].total_shares = 0 /\ slots[i].order_count = 0
    BY <2>2
  <2>4. SumsInv
    <3>1. \A i \in Slots : Units(orders, i) = {}
      BY <2>2 DEF Units, In
    <3>2. QED
      BY <2>3, <3>1, FS_EmptySet DEF SumsInv
  <2>5. GridInv
    <3>1. 1..Len(ops) = {}
      BY <2>2
    <3>2. QED
      BY <2>2, <2>3, <3>1 DEF GridInv, Twins, SameTotals
  <2>6. QED
    BY <2>1, <2>4, <2>5 DEF ShootoutInv
<1>2. ShootoutInv /\ [Next]_shootoutVars => ShootoutInv'
  <2> SUFFICES ASSUME ShootoutInv, [Next]_shootoutVars PROVE ShootoutInv'
    OBVIOUS
  <2>1. CallerInv' /\ FlatInv' /\ ArrayInv'
    BY NextIndexed DEF ShootoutInv
  <2>2. CASE Place
    BY <2>1, <2>2, PlaceSums, PlaceOnGrid DEF ShootoutInv
  <2>3. CASE Take
    BY <2>1, <2>3, TakeSums, TakeOnGrid DEF ShootoutInv
  <2>4. CASE BuildAdd \/ BuildRemoveFull \/ BuildRemovePartial
    <3>1. UNCHANGED <<slots, caller, orders>>
      BY <2>4, BuildCalls DEF ShootoutInv, ladders, arrayVars
    <3>2. SumsInv'
      BY <3>1 DEF ShootoutInv, SumsInv, Units, In, idx_of
    <3>3. QED
      BY <2>1, <2>4, <3>2, BuildOnGrid DEF ShootoutInv
  <2>5. CASE RunWorkload
    <3>1. caller = "shootout" /\ caller' = caller
      BY <2>5 DEF RunWorkload
    <3>2. SumsInv'
      BY <3>1 DEF SumsInv
    <3>3. QED
      BY <2>1, <2>5, <3>2, RunOnGrid DEF ShootoutInv
  <2>6. CASE UNCHANGED shootoutVars
    <3>1. UNCHANGED <<slots, map, caller, orders, ops>>
      BY <2>6 DEF shootoutVars, ladders, arrayVars
    <3>2. SumsInv' /\ GridInv'
      BY <3>1 DEF ShootoutInv, SumsInv, GridInv, Units, In, idx_of, Twins, SameTotals, OnGrid
    <3>3. QED
      BY <2>1, <3>2 DEF ShootoutInv
  <2>7. QED
    BY <2>2, <2>3, <2>4, <2>5, <2>6 DEF Next
<1>3. QED
  BY <1>1, <1>2, PTL DEF Spec

(* A slot holds exactly the orders whose prices fall into it, and nothing  *)
(* of orders that are gone.                                                *)
THEOREM SumsCorrect == Spec => []SlotsAreSums
<1>1. ShootoutInv => SlotsAreSums
  <2> SUFFICES ASSUME ShootoutInv, caller # "shootout", NEW i \in Slots
               PROVE  LET here == {o \in DOMAIN orders : idx_of(orders[o].price) = i}
                      IN  /\ slots[i].order_count = Cardinality(here)
                          /\ slots[i].total_shares = Cardinality(UnitsOf(here))
    BY DEF SlotsAreSums
  <2>1. {o \in DOMAIN orders : idx_of(orders[o].price) = i} = In(orders, i)
    BY DEF In
  <2>2. UnitsOf(In(orders, i)) = Units(orders, i)
    BY DEF UnitsOf, Units
  <2>3. QED
    BY <2>1, <2>2 DEF ShootoutInv, ArrayInv, CountsInv, SumsInv
<1>2. QED
  BY <1>1, ShootoutInvariance, PTL

(* On the grid the array gives the map's answers. *)
THEOREM GridCorrect == Spec => []ArrayIsMap
<1>1. ShootoutInv => ArrayIsMap
  <2> SUFFICES ASSUME ShootoutInv, caller = "on_grid"
               PROVE  ArrayList = MapList /\ ArrayBest = MapBest /\ ArraySize = MapSize
    BY DEF ArrayIsMap
  <2> DEFINE order == BestFirst(Occupied(slots))
             n == nonempty_count
  <2>1. /\ side \in {"Bid", "Ask"} /\ Indexed(slots, best_idx, nonempty_count, Ahead)
        /\ slots \in [Slots -> Slot] /\ Twins(slots, map) /\ SameTotals(slots, map)
    BY DEF ShootoutInv, CallerInv, ArrayInv, Indexed, GridInv
  <2>2. /\ n \in Nat /\ MapSize = n
        /\ \A k \in 1..n : order[k] \in Occupied(slots)
        /\ ArrayList = [k \in 1..n |-> slots[order[k]]]
        /\ MapList = [k \in 1..n |-> map[GridPrice(order[k])]]
        /\ n # 0 => best_idx = order[1]
    BY <2>1, TwinsListed
  <2> HIDE DEF order, n
  <2>3. ASSUME NEW i \in Occupied(slots) PROVE slots[i] = map[GridPrice(i)]
    <3>1. i \in Slots /\ slots[i].order_count # 0 /\ slots[i] \in Slot
      BY <2>1 DEF Occupied, Slot
    <3>2. /\ GridPrice(i) \in DOMAIN map /\ slots[i].price = GridPrice(i)
          /\ map[GridPrice(i)].order_count = slots[i].order_count
          /\ map[GridPrice(i)].total_shares = slots[i].total_shares
      BY <2>1, <3>1 DEF Twins, SameTotals
    <3>3. map[GridPrice(i)] \in Level /\ map[GridPrice(i)].price = GridPrice(i)
      BY <3>2, MapLevels DEF ShootoutInv
    <3>4. slots[i] \in [price : Nat, total_shares : Int, order_count : Int]
      BY <3>1 DEF Slot
    <3>5. QED
      BY <3>2, <3>3, <3>4 DEF Level
  <2>4. ArrayList = MapList
    BY <2>2, <2>3
  <2>5. ArrayBest = MapBest
    <3>1. DOMAIN map = {} <=> n = 0
      <4>1. n = 0 <=> Occupied(slots) = {}
        BY <2>1, SlotsAreFinite DEF Indexed, n
      <4>2. \A i \in Slots : i \in Occupied(slots) <=> slots[i].order_count # 0
        BY <2>1 DEF Occupied, Slot
      <4>3. QED
        BY <2>1, <4>1, <4>2 DEF Twins, Occupied
    <3>2. CASE n = 0
      BY <3>1, <3>2 DEF ArrayBest, MapBest, n
    <3>3. CASE n # 0
      <4>1. 1 \in 1..n
        BY <2>2, <3>3
      <4>2. MapList[1] = slots[best_idx]
        BY <2>2, <2>4, <3>3, <4>1
      <4>3. QED
        BY <3>1, <3>3, <4>2 DEF ArrayBest, MapBest, n
    <3>4. QED
      BY <3>2, <3>3
  <2>6. QED
    BY <2>2, <2>4, <2>5 DEF ArraySize, n
<1>2. QED
  BY <1>1, ShootoutInvariance, PTL

(* Under the replayed workload the three ladders keep the same prices and  *)
(* counts, in the same order.                                              *)
THEOREM ShapesCorrect == Spec => []SameShapes
<1>1. ShootoutInv => SameShapes
  <2> SUFFICES ASSUME ShootoutInv, caller = "shootout"
               PROVE  /\ Shape(ArrayList) = Shape(MapList) /\ Shape(ArrayBest) = Shape(MapBest)
                      /\ ArraySize = MapSize
    BY DEF SameShapes
  <2> DEFINE order == BestFirst(Occupied(slots))
             n == nonempty_count
  <2>1. /\ side \in {"Bid", "Ask"} /\ Indexed(slots, best_idx, nonempty_count, Ahead)
        /\ slots \in [Slots -> Slot] /\ Twins(slots, map)
    BY DEF ShootoutInv, CallerInv, ArrayInv, Indexed, GridInv
  <2>2. /\ n \in Nat /\ MapSize = n
        /\ \A k \in 1..n : order[k] \in Occupied(slots)
        /\ ArrayList = [k \in 1..n |-> slots[order[k]]]
        /\ MapList = [k \in 1..n |-> map[GridPrice(order[k])]]
        /\ n # 0 => best_idx = order[1]
    BY <2>1, TwinsListed
  <2> HIDE DEF order, n
  <2>3. ASSUME NEW i \in Occupied(slots)
        PROVE  /\ slots[i].price = map[GridPrice(i)].price
               /\ slots[i].order_count = map[GridPrice(i)].order_count
    <3>1. i \in Slots /\ slots[i].order_count # 0
      BY <2>1 DEF Occupied, Slot
    <3>2. /\ GridPrice(i) \in DOMAIN map /\ slots[i].price = GridPrice(i)
          /\ map[GridPrice(i)].order_count = slots[i].order_count
      BY <2>1, <3>1 DEF Twins
    <3>3. QED
      BY <3>2, MapLevels DEF ShootoutInv
  <2>4. /\ DOMAIN ArrayList = 1..n /\ DOMAIN MapList = 1..n
        /\ \A k \in 1..n : /\ ArrayList[k] = slots[order[k]]
                           /\ ArrayList[k].price = MapList[k].price
                           /\ ArrayList[k].order_count = MapList[k].order_count
    BY <2>2, <2>3
  <2>5. Shape(ArrayList) = Shape(MapList)
    BY <2>4 DEF Shape
  <2>6. Shape(ArrayBest) = Shape(MapBest)
    <3>1. DOMAIN map = {} <=> n = 0
      <4>1. n = 0 <=> Occupied(slots) = {}
        BY <2>1, SlotsAreFinite DEF Indexed, n
      <4>2. \A i \in Slots : i \in Occupied(slots) <=> slots[i].order_count # 0
        BY <2>1 DEF Occupied, Slot
      <4>3. QED
        BY <2>1, <4>1, <4>2 DEF Twins, Occupied
    <3>2. CASE n = 0
      BY <3>1, <3>2 DEF ArrayBest, MapBest, n
    <3>3. CASE n # 0
      <4>1. 1 \in 1..n
        BY <2>2, <3>3
      <4>2. /\ slots[best_idx].price = MapList[1].price
            /\ slots[best_idx].order_count = MapList[1].order_count
        BY <2>2, <2>4, <3>3, <4>1
      <4>3. ArrayBest = <<slots[best_idx]>> /\ MapBest = <<MapList[1]>>
        BY <3>1, <3>3 DEF ArrayBest, MapBest, n
      <4>4. QED
        BY <4>2, <4>3 DEF Shape
    <3>4. QED
      BY <3>2, <3>3
  <2>7. QED
    BY <2>2, <2>5, <2>6 DEF ArraySize, n
<1>2. QED
  BY <1>1, ShootoutInvariance, PTL

=============================================================================
