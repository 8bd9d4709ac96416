-------------------------- MODULE BookEngineProofs --------------------------
(***************************************************************************)
(* Theorems about BookEngine for every value of its constants.  None of    *)
(* Covers, NoPhantomLevel and Consistent is inductive alone: that a        *)
(* subtraction does not clamp needs Covers, that an addition does not wrap *)
(* needs a bound by the number of messages, that a level does not keep the *)
(* shares of an order that left it needs a bound on the shares of orders   *)
(* the index has forgotten, and a level can be said to vanish with its     *)
(* last order only when its count is exact.  StateOK has all of it.        *)
(* First come facts about the operators the engine is built from: what a   *)
(* change of the index does to the orders and shares of a level, and what  *)
(* InsertShares and RemoveShares do to a level.  The last part is about    *)
(* what readers of the engine rely on: the cached best prices are the best *)
(* prices, every order has its book and every book its instrument, and the *)
(* engine implements RestingOrders.                                        *)
(***************************************************************************)
EXTENDS BookEngine, RankedLists, FiniteSetTheorems, TLAPS

(* How many orders and shares a ladder shows at a key, 0 where it has no   *)
(* level, and the two relations between levels and index that the handlers *)
(* keep up.                                                                *)
CountAt(lv, k) == IF k \in DOMAIN lv THEN lv[k].order_count ELSE 0
TotalAt(lv, k) == IF k \in DOMAIN lv THEN lv[k].total_shares ELSE 0

Exact(idx, lv) ==
    \A k \in LevelKeys :
        /\ CountAt(lv, k) = Cardinality(OrdersAt(idx, k))
        /\ TotalAt(lv, k) = Cardinality(UnitsAt(idx, k))
        /\ k \in DOMAIN lv => CountAt(lv, k) > 0

(* So many orders can have so many shares. *)
Fits(count, total) == total <= count * (U32 - 1)

(* Orders of a level that the index has forgotten keep no more shares at   *)
(* it than orders can have.                                                *)
Covering(idx, lv) ==
    \A k \in LevelKeys :
        /\ CountAt(lv, k) >= Cardinality(OrdersAt(idx, k))
        /\ TotalAt(lv, k) >= Cardinality(UnitsAt(idx, k))
        /\ Fits(CountAt(lv, k) - Cardinality(OrdersAt(idx, k)),
                TotalAt(lv, k) - Cardinality(UnitsAt(idx, k)))

(* Room for one more order at every level, and an order at every level. *)
Room(lv, n) ==
    \A k \in LevelKeys :
        /\ CountAt(lv, k) <= n
        /\ TotalAt(lv, k) <= n * (U32 - 1)
        /\ k \in DOMAIN lv => CountAt(lv, k) > 0

----------------------------------------------------------------------------
(* Arithmetic the SMT solver is given once. *)

(* Reducing a value that fits its width changes nothing. *)
LEMMA ModSmall ==
    ASSUME NEW m \in Nat \ {0}, NEW a \in 0..(m - 1)
    PROVE  a % m = a
OBVIOUS

(* A reduced value fits its width. *)
LEMMA ModRange ==
    ASSUME NEW m \in Nat \ {0}, NEW a \in Int
    PROVE  a % m \in 0..(m - 1)
OBVIOUS

(* Multiplying by a larger number of messages gives no fewer shares. *)
LEMMA ProductGrows ==
    ASSUME NEW n \in Nat, NEW b \in Nat, NEW c \in Nat, n + 1 <= c,
           NEW t \in Nat, t <= n * b, NEW s \in 0..b
    PROVE  t + s <= (n + 1) * b /\ (n + 1) * b <= c * b
OBVIOUS

(* One more order, with the shares of an order, still fits. *)
LEMMA FitsOneMore ==
    ASSUME NEW c \in Nat, NEW o \in Nat, NEW t \in Nat, NEW u \in Nat,
           NEW s \in 0..(U32 - 1), c >= o + 1, t >= u + s,
           Fits(c - (o + 1), t - (u + s))
    PROVE  c >= o /\ t >= u /\ Fits(c - o, t - u)
<1>1. U32 - 1 \in Nat /\ s \in Nat /\ s <= U32 - 1
  BY WidthAssumption
<1>2. PICK d \in Nat : d = c - (o + 1)
  OBVIOUS
<1>3. PICK b \in Nat : b = U32 - 1
  BY <1>1
<1>4. t - (u + s) <= d * b
  BY <1>2, <1>3 DEF Fits
<1>5. (d + 1) * b = d * b + b /\ d * b \in Nat
  OBVIOUS
<1>6. t - u <= (d + 1) * b
  BY <1>1, <1>3, <1>4, <1>5
<1>7. c - o = d + 1
  BY <1>2
<1>8. QED
  BY <1>1, <1>3, <1>6, <1>7 DEF Fits

(* Parts that fit fit together. *)
LEMMA FitsTogether ==
    ASSUME NEW c \in Nat, NEW o \in Nat, NEW t \in Nat, NEW u \in Nat,
           c >= o, t >= u, Fits(c - o, t - u), Fits(o, u)
    PROVE  Fits(c, t)
<1>1. PICK b \in Nat : b = U32 - 1
  BY WidthAssumption
<1>2. PICK d \in Nat : d = c - o
  OBVIOUS
<1>3. t - u <= d * b /\ u <= o * b
  BY <1>1, <1>2 DEF Fits
<1>4. (d + o) * b = d * b + o * b /\ d * b \in Nat /\ o * b \in Nat
  OBVIOUS
<1>5. t <= (d + o) * b
  BY <1>3, <1>4
<1>6. QED
  BY <1>1, <1>2, <1>5 DEF Fits

(* The key of an order record is a level key. *)
LEMMA KeyOfType ==
    ASSUME NEW rec \in OrderRecord
    PROVE  KeyOf(rec) \in LevelKeys
BY DEF OrderRecord, KeyOf, LevelKeys, BookSide, BookSides

(* The shares of one order, one by one, are as many as it has. *)
LEMMA SharesOfOne ==
    ASSUME NEW r, NEW n \in Nat
    PROVE  IsFiniteSet({r} \X (1..n)) /\ Cardinality({r} \X (1..n)) = n
<1> DEFINE one == {r}
           units == 1..n
<1>1. IsFiniteSet(units) /\ Cardinality(units) = n
  BY FS_Interval
<1>2. IsFiniteSet(one) /\ Cardinality(one) = 1
  BY FS_Singleton
<1>3. IsFiniteSet(one \X units) /\ Cardinality(one \X units) = Cardinality(one) * Cardinality(units)
  <2> HIDE DEF one, units
  <2>1. QED
    BY <1>1, <1>2, FS_Product
<1>4. QED
  <2>1. Cardinality(one) * Cardinality(units) = n
    BY <1>1, <1>2
  <2>2. QED
    BY <1>3, <2>1

(* The orders and the shares of a level are finitely many. *)
LEMMA FiniteAt ==
    ASSUME NEW idx, IsMap(idx, Refs, OrderRecord), NEW k
    PROVE  /\ IsFiniteSet(OrdersAt(idx, k))
           /\ IsFiniteSet(UnitsAt(idx, k))
           /\ Cardinality(OrdersAt(idx, k)) \in Nat
           /\ Cardinality(UnitsAt(idx, k)) \in Nat
<1>1. OrdersAt(idx, k) \in SUBSET Refs
  BY DEF OrdersAt, IsMap
<1>2. IsFiniteSet(OrdersAt(idx, k))
  BY <1>1, FS_Subset, RefsAssumption
<1>3. IsFiniteSet(1..(U32 - 1))
  BY FS_Interval, WidthAssumption
<1>4. IsFiniteSet(Refs \X (1..(U32 - 1)))
  BY <1>3, FS_Product, RefsAssumption
<1>5. UnitsAt(idx, k) \in SUBSET (Refs \X (1..(U32 - 1)))
  BY DEF UnitsAt
<1>6. IsFiniteSet(UnitsAt(idx, k))
  BY <1>4, <1>5, FS_Subset
<1>7. QED
  BY <1>2, <1>6, FS_CardinalityType

(* Removing a key from the index and putting another record in keep it a map. *)
LEMMA MapChanges ==
    ASSUME NEW D, NEW R, NEW f, IsMap(f, D, R), NEW x \in D, NEW v \in R
    PROVE  IsMap(Erase(f, x), D, R) /\ IsMap(Put(f, x, v), D, R)
BY DEF IsMap, Erase, Put

(* Putting a record in a map and erasing it again gives the map back. *)
LEMMA EraseAfterPut ==
    ASSUME NEW D, NEW R, NEW f, IsMap(f, D, R), NEW x, x \notin DOMAIN f, NEW v
    PROVE  /\ Erase(Put(f, x, v), x) = f
           /\ x \in DOMAIN Put(f, x, v)
           /\ Put(f, x, v)[x] = v
BY DEF IsMap, Erase, Put

(* Overwriting a record is erasing it and putting the new one in. *)
LEMMA PutOverErase ==
    ASSUME NEW f, NEW x, NEW v
    PROVE  Put(f, x, v) = Put(Erase(f, x), x, v)
BY DEF Erase, Put

(* Taking an order out of the index takes it and its shares from its own   *)
(* level and nothing from any other.                                       *)
LEMMA ErasedCounts ==
    ASSUME NEW idx, IsMap(idx, Refs, OrderRecord), NEW r \in DOMAIN idx, NEW k
    PROVE  LET e == Erase(idx, r) IN
           /\ KeyOf(idx[r]) = k =>
                /\ Cardinality(OrdersAt(idx, k)) = Cardinality(OrdersAt(e, k)) + 1
                /\ Cardinality(UnitsAt(idx, k)) = Cardinality(UnitsAt(e, k)) + idx[r].shares
           /\ KeyOf(idx[r]) # k =>
                /\ OrdersAt(idx, k) = OrdersAt(e, k)
                /\ UnitsAt(idx, k) = UnitsAt(e, k)
<1> DEFINE e == Erase(idx, r)
           n == idx[r].shares
           own == {r} \X (1..n)
<1>1. /\ DOMAIN e = DOMAIN idx \ {r}
      /\ \A x \in DOMAIN e : e[x] = idx[x]
  BY DEF Erase
<1>2. idx[r] \in OrderRecord /\ r \in Refs
  BY DEF IsMap
<1>3. n \in 0..(U32 - 1) /\ n \in Nat
  BY <1>2, WidthAssumption DEF OrderRecord, Uint32
<1>4. IsMap(e, Refs, OrderRecord)
  BY <1>2, MapChanges
<1> HIDE DEF e
<1>5. ASSUME KeyOf(idx[r]) # k
      PROVE  OrdersAt(idx, k) = OrdersAt(e, k) /\ UnitsAt(idx, k) = UnitsAt(e, k)
  <2>1. OrdersAt(idx, k) = OrdersAt(e, k)
    BY <1>1, <1>5 DEF OrdersAt
  <2>2. \A x \in OrdersAt(e, k) : e[x] = idx[x]
    BY <1>1 DEF OrdersAt
  <2>3. QED
    BY <2>1, <2>2 DEF UnitsAt
<1>6. ASSUME KeyOf(idx[r]) = k
      PROVE  Cardinality(OrdersAt(idx, k)) = Cardinality(OrdersAt(e, k)) + 1
  <2>1. OrdersAt(idx, k) = OrdersAt(e, k) \cup {r} /\ r \notin OrdersAt(e, k)
    BY <1>1, <1>6 DEF OrdersAt
  <2>2. QED
    BY <2>1, <1>4, FiniteAt, FS_AddElement
<1>7. ASSUME KeyOf(idx[r]) = k
      PROVE  Cardinality(UnitsAt(idx, k)) = Cardinality(UnitsAt(e, k)) + n
  <2>1. OrdersAt(idx, k) = OrdersAt(e, k) \cup {r} /\ r \notin OrdersAt(e, k)
    BY <1>1, <1>7 DEF OrdersAt
  <2>2. \A x \in OrdersAt(e, k) : e[x] = idx[x]
    BY <1>1 DEF OrdersAt
  <2>3. UnitsAt(idx, k) = UnitsAt(e, k) \cup own
    <3>1. ASSUME NEW u \in UnitsAt(idx, k)
          PROVE  u \in UnitsAt(e, k) \cup own
      BY <2>1, <2>2, <1>3 DEF UnitsAt
    <3>2. UnitsAt(e, k) \subseteq UnitsAt(idx, k)
      BY <2>1, <2>2 DEF UnitsAt
    <3>3. own \subseteq UnitsAt(idx, k)
      BY <2>1, <1>2, <1>3, WidthAssumption DEF UnitsAt
    <3>4. QED
      BY <3>1, <3>2, <3>3
  <2>4. UnitsAt(e, k) \cap own = {}
    BY <2>1 DEF UnitsAt
  <2>7. IsFiniteSet(own) /\ Cardinality(own) = n
    BY <1>3, SharesOfOne
  <2>8. IsFiniteSet(UnitsAt(e, k)) /\ Cardinality(UnitsAt(e, k)) \in Nat
    BY <1>4, FiniteAt
  <2>9. Cardinality(UnitsAt(e, k) \cap own) = 0
    BY <2>4, FS_EmptySet
  <2> HIDE DEF own, n
  <2>10. Cardinality(UnitsAt(e, k) \cup own)
           = Cardinality(UnitsAt(e, k)) + Cardinality(own) - Cardinality(UnitsAt(e, k) \cap own)
    BY <2>7, <2>8, FS_Union
  <2>11. QED
    BY <2>3, <2>7, <2>8, <2>9, <2>10, <1>3
<1>8. QED
  BY <1>5, <1>6, <1>7 DEF e

(* Putting a new order in adds it and its shares to its own level only. *)
LEMMA PlacedCounts ==
    ASSUME NEW idx, IsMap(idx, Refs, OrderRecord), NEW r \in Refs, r \notin DOMAIN idx,
           NEW rec \in OrderRecord, NEW k
    PROVE  LET p == Put(idx, r, rec) IN
           /\ KeyOf(rec) = k =>
                /\ Cardinality(OrdersAt(p, k)) = Cardinality(OrdersAt(idx, k)) + 1
                /\ Cardinality(UnitsAt(p, k)) = Cardinality(UnitsAt(idx, k)) + rec.shares
           /\ KeyOf(rec) # k =>
                /\ OrdersAt(p, k) = OrdersAt(idx, k)
                /\ UnitsAt(p, k) = UnitsAt(idx, k)
<1> DEFINE p == Put(idx, r, rec)
<1>1. Erase(p, r) = idx /\ r \in DOMAIN p /\ p[r] = rec
  BY EraseAfterPut
<1>2. IsMap(p, Refs, OrderRecord)
  BY MapChanges
<1> HIDE DEF p
<1>3. QED
  BY <1>1, <1>2, ErasedCounts DEF p

(* A level without orders has no shares. *)
LEMMA NoOrdersNoUnits ==
    ASSUME NEW idx, IsMap(idx, Refs, OrderRecord), NEW k,
           Cardinality(OrdersAt(idx, k)) = 0
    PROVE  Cardinality(UnitsAt(idx, k)) = 0
<1>1. OrdersAt(idx, k) = {}
  BY FiniteAt, FS_EmptySet
<1>2. UnitsAt(idx, k) = {}
  BY <1>1 DEF UnitsAt
<1>3. QED
  BY <1>2, FS_EmptySet

----------------------------------------------------------------------------
(* What a level shows is a natural number. *)
LEMMA ShownType ==
    ASSUME NEW lv, IsMap(lv, LevelKeys, PriceLevel), NEW k
    PROVE  CountAt(lv, k) \in Nat /\ TotalAt(lv, k) \in Nat
BY WidthAssumption DEF IsMap, CountAt, TotalAt, PriceLevel, Uint32, Uint64

(* Inserting an order into a ladder with room for it adds one order and    *)
(* its shares at its price, without wrapping, and changes no other level.  *)
LEMMA InsertEffect ==
    ASSUME NEW lv, IsMap(lv, LevelKeys, PriceLevel), NEW k \in LevelKeys,
           NEW s \in Uint32, NEW n \in Nat, n < MaxMessages, Room(lv, n)
    PROVE  LET ins == InsertShares(lv, k, s) IN
           /\ IsMap(ins, LevelKeys, PriceLevel)
           /\ DOMAIN ins = DOMAIN lv \cup {k}
           /\ CountAt(ins, k) = CountAt(lv, k) + 1
           /\ TotalAt(ins, k) = TotalAt(lv, k) + s
           /\ \A j : j # k => CountAt(ins, j) = CountAt(lv, j) /\ TotalAt(ins, j) = TotalAt(lv, j)
           /\ Room(ins, n + 1)
<1> DEFINE ins == InsertShares(lv, k, s)
           c == CountAt(lv, k)
           t == TotalAt(lv, k)
           level == [total_shares |-> (t + s) % U64, order_count |-> (c + 1) % U32]
<1>1. c \in Nat /\ t \in Nat /\ c <= n /\ t <= n * (U32 - 1)
  BY ShownType DEF Room
<1>2. s \in 0..(U32 - 1) /\ U32 - 1 \in Nat /\ MaxMessages \in Nat
  BY WidthAssumption, FeedAssumption DEF Uint32
<1>3. t + s <= (n + 1) * (U32 - 1) /\ (n + 1) * (U32 - 1) <= MaxMessages * (U32 - 1)
  BY <1>1, <1>2, ProductGrows
<1>4. t + s \in 0..(U64 - 1) /\ c + 1 \in 0..(U32 - 1)
  <2>1. MaxMessages * (U32 - 1) \in Int /\ (n + 1) * (U32 - 1) \in Int
    BY <1>2
  <2>2. QED
    BY <2>1, <1>1, <1>2, <1>3, CounterAssumption, WidthAssumption
<1>5. (t + s) % U64 = t + s /\ (c + 1) % U32 = c + 1
  BY <1>4, ModSmall, WidthAssumption
<1>6. ins = Put(lv, k, level)
  BY DEF InsertShares, EmptyLevel, CountAt, TotalAt
<1>7. level \in PriceLevel
  BY <1>4, <1>5 DEF PriceLevel, Uint32, Uint64
<1>8. IsMap(ins, LevelKeys, PriceLevel)
  BY <1>6, <1>7, MapChanges
<1>9. /\ DOMAIN ins = DOMAIN lv \cup {k}
      /\ ins[k] = level
      /\ \A j \in DOMAIN lv : j # k => ins[j] = lv[j]
  BY <1>6 DEF Put
<1>10. CountAt(ins, k) = c + 1 /\ TotalAt(ins, k) = t + s
  BY <1>5, <1>9 DEF CountAt, TotalAt
<1>11. \A j : j # k => CountAt(ins, j) = CountAt(lv, j) /\ TotalAt(ins, j) = TotalAt(lv, j)
  BY <1>9 DEF CountAt, TotalAt
<1> HIDE DEF ins, c, t, level
<1>12. n * (U32 - 1) <= (n + 1) * (U32 - 1)
  BY <1>2, ProductGrows
<1>13. Room(ins, n + 1)
  <2> SUFFICES ASSUME NEW j \in LevelKeys
               PROVE  /\ CountAt(ins, j) <= n + 1 /\ TotalAt(ins, j) <= (n + 1) * (U32 - 1)
                      /\ j \in DOMAIN ins => CountAt(ins, j) > 0
    BY DEF Room
  <2>1. CASE j = k
    BY <2>1, <1>1, <1>3, <1>10
  <2>2. CASE j # k
    <3>1. CountAt(lv, j) \in Nat /\ TotalAt(lv, j) \in Nat
      BY ShownType
    <3>2. n * (U32 - 1) \in Int /\ (n + 1) * (U32 - 1) \in Int
      BY <1>2
    <3>3. /\ CountAt(lv, j) <= n /\ TotalAt(lv, j) <= n * (U32 - 1)
          /\ j \in DOMAIN lv => CountAt(lv, j) > 0
      BY DEF Room
    <3>4. j \in DOMAIN ins => j \in DOMAIN lv
      BY <2>2, <1>9
    <3>5. QED
      BY <2>2, <3>1, <3>2, <3>3, <3>4, <1>11, <1>12
  <2>3. QED
    BY <2>1, <2>2
<1>14. QED
  BY <1>8, <1>9, <1>10, <1>11, <1>13 DEF ins, c, t

(* Taking all of an order, or part of it, off a level that holds at least  *)
(* as much: neither the clamp nor the decrement is ever at its limit, and  *)
(* a level disappears exactly with its last order.                         *)
LEMMA RemoveEffect ==
    ASSUME NEW lv, IsMap(lv, LevelKeys, PriceLevel), NEW k \in LevelKeys,
           NEW full \in BOOLEAN,
           NEW s \in Nat, s <= TotalAt(lv, k), 1 <= CountAt(lv, k)
    PROVE  LET rem == RemoveShares(lv, k, s, full) IN
           /\ IsMap(rem, LevelKeys, PriceLevel)
           /\ DOMAIN rem \subseteq DOMAIN lv
           /\ CountAt(rem, k) = CountAt(lv, k) - (IF full THEN 1 ELSE 0)
           /\ TotalAt(rem, k) = IF CountAt(rem, k) = 0 THEN 0 ELSE TotalAt(lv, k) - s
           /\ k \in DOMAIN rem => CountAt(rem, k) > 0
           /\ \A j : j # k => /\ j \in DOMAIN rem <=> j \in DOMAIN lv
                              /\ CountAt(rem, j) = CountAt(lv, j)
                              /\ TotalAt(rem, j) = TotalAt(lv, j)
<1> DEFINE rem == RemoveShares(lv, k, s, full)
           c == CountAt(lv, k)
           t == TotalAt(lv, k)
           count == IF full THEN (c - 1) % U32 ELSE c
           level == [total_shares |-> ClampedSub(t, s), order_count |-> count]
<1>1. k \in DOMAIN lv
  BY DEF CountAt
<1>2. c = lv[k].order_count /\ t = lv[k].total_shares
  BY <1>1 DEF CountAt, TotalAt
<1>3. c \in 1..(U32 - 1) /\ t \in 0..(U64 - 1)
  BY <1>1, <1>2, WidthAssumption DEF IsMap, PriceLevel, Uint32, Uint64
<1>4. (c - 1) % U32 = c - 1
  <2>1. c - 1 \in 0..(U32 - 1)
    BY <1>3, WidthAssumption
  <2>2. QED
    BY <2>1, ModSmall, WidthAssumption
<1>5. count = c - (IF full THEN 1 ELSE 0) /\ count \in 0..(U32 - 1)
  BY <1>3, <1>4, WidthAssumption
<1>6. ClampedSub(t, s) = t - s /\ t - s \in 0..(U64 - 1)
  BY <1>3, WidthAssumption DEF ClampedSub
<1>7. rem = IF count = 0 THEN Erase(lv, k) ELSE Put(lv, k, level)
  BY <1>1, <1>2 DEF RemoveShares
<1>8. level \in PriceLevel
  BY <1>5, <1>6 DEF PriceLevel, Uint32, Uint64
<1>9. IsMap(rem, LevelKeys, PriceLevel)
  BY <1>7, <1>8, MapChanges
<1>10. CASE count = 0
  <2>1. DOMAIN rem = DOMAIN lv \ {k} /\ \A j \in DOMAIN rem : rem[j] = lv[j]
    BY <1>7, <1>10 DEF Erase
  <2> HIDE DEF rem, count, c, t
  <2>2. QED
    BY <2>1, <1>5, <1>9, <1>10 DEF CountAt, TotalAt, rem, c, t
<1>11. CASE count # 0
  <2>1. /\ DOMAIN rem = DOMAIN lv
        /\ rem[k] = level
        /\ \A j \in DOMAIN lv : j # k => rem[j] = lv[j]
    BY <1>1, <1>7, <1>11 DEF Put
  <2>2. CountAt(rem, k) = count /\ TotalAt(rem, k) = t - s
    BY <1>1, <2>1, <1>6 DEF CountAt, TotalAt
  <2>3. \A j : j # k => CountAt(rem, j) = CountAt(lv, j) /\ TotalAt(rem, j) = TotalAt(lv, j)
    BY <2>1 DEF CountAt, TotalAt
  <2>4. CountAt(rem, k) > 0 /\ CountAt(rem, k) # 0
    BY <2>2, <1>5, <1>11
  <2>5. CountAt(rem, k) = CountAt(lv, k) - (IF full THEN 1 ELSE 0)
    BY <2>2, <1>5
  <2>6. TotalAt(rem, k) = IF CountAt(rem, k) = 0 THEN 0 ELSE TotalAt(lv, k) - s
    BY <2>2, <2>4
  <2> HIDE DEF rem, count
  <2>7. QED
    BY <2>1, <2>3, <2>4, <2>5, <2>6, <1>9 DEF rem
<1>12. QED
  BY <1>10, <1>11

(* The two ways remove_shares is called. *)
LEMMA RemoveWhole ==
    ASSUME NEW lv, IsMap(lv, LevelKeys, PriceLevel), NEW k \in LevelKeys,
           NEW s \in Nat, s <= TotalAt(lv, k), 1 <= CountAt(lv, k)
    PROVE  LET rem == RemoveShares(lv, k, s, TRUE) IN
           /\ IsMap(rem, LevelKeys, PriceLevel)
           /\ DOMAIN rem \subseteq DOMAIN lv
           /\ CountAt(rem, k) = CountAt(lv, k) - 1
           /\ TotalAt(rem, k) = IF CountAt(rem, k) = 0 THEN 0 ELSE TotalAt(lv, k) - s
           /\ k \in DOMAIN rem => CountAt(rem, k) > 0
           /\ \A j : j # k => /\ j \in DOMAIN rem <=> j \in DOMAIN lv
                              /\ CountAt(rem, j) = CountAt(lv, j)
                              /\ TotalAt(rem, j) = TotalAt(lv, j)
<1> DEFINE full == TRUE
           rem == RemoveShares(lv, k, s, full)
<1>1. full \in BOOLEAN /\ CountAt(lv, k) - (IF full THEN 1 ELSE 0) = CountAt(lv, k) - 1
  BY ShownType
<1> HIDE DEF full
<1>2. /\ IsMap(rem, LevelKeys, PriceLevel)
      /\ DOMAIN rem \subseteq DOMAIN lv
      /\ CountAt(rem, k) = CountAt(lv, k) - (IF full THEN 1 ELSE 0)
      /\ TotalAt(rem, k) = IF CountAt(rem, k) = 0 THEN 0 ELSE TotalAt(lv, k) - s
      /\ k \in DOMAIN rem => CountAt(rem, k) > 0
      /\ \A j : j # k => /\ j \in DOMAIN rem <=> j \in DOMAIN lv
                         /\ CountAt(rem, j) = CountAt(lv, j)
                         /\ TotalAt(rem, j) = TotalAt(lv, j)
  BY <1>1, RemoveEffect
<1> HIDE DEF rem
<1>3. QED
  BY <1>1, <1>2 DEF rem, full

(* remove_shares without full_removal: the level stays, with fewer shares. *)
LEMMA RemovePart ==
    ASSUME NEW lv, IsMap(lv, LevelKeys, PriceLevel), NEW k \in LevelKeys,
           NEW s \in Nat, s <= TotalAt(lv, k), 1 <= CountAt(lv, k)
    PROVE  LET rem == RemoveShares(lv, k, s, FALSE) IN
           /\ IsMap(rem, LevelKeys, PriceLevel)
           /\ DOMAIN rem \subseteq DOMAIN lv
           /\ CountAt(rem, k) = CountAt(lv, k)
           /\ TotalAt(rem, k) = IF CountAt(rem, k) = 0 THEN 0 ELSE TotalAt(lv, k) - s
           /\ k \in DOMAIN rem => CountAt(rem, k) > 0
           /\ \A j : j # k => /\ j \in DOMAIN rem <=> j \in DOMAIN lv
                              /\ CountAt(rem, j) = CountAt(lv, j)
                              /\ TotalAt(rem, j) = TotalAt(lv, j)
<1> DEFINE full == FALSE
           rem == RemoveShares(lv, k, s, full)
<1>1. full \in BOOLEAN /\ CountAt(lv, k) - (IF full THEN 1 ELSE 0) = CountAt(lv, k)
  BY ShownType
<1> HIDE DEF full
<1>2. /\ IsMap(rem, LevelKeys, PriceLevel)
      /\ DOMAIN rem \subseteq DOMAIN lv
      /\ CountAt(rem, k) = CountAt(lv, k) - (IF full THEN 1 ELSE 0)
      /\ TotalAt(rem, k) = IF CountAt(rem, k) = 0 THEN 0 ELSE TotalAt(lv, k) - s
      /\ k \in DOMAIN rem => CountAt(rem, k) > 0
      /\ \A j : j # k => /\ j \in DOMAIN rem <=> j \in DOMAIN lv
                         /\ CountAt(rem, j) = CountAt(lv, j)
                         /\ TotalAt(rem, j) = TotalAt(lv, j)
  BY <1>1, RemoveEffect
<1> HIDE DEF rem
<1>3. QED
  BY <1>1, <1>2 DEF rem, full

----------------------------------------------------------------------------
(* A new order put in the index and inserted into its ladder. *)
LEMMA PlaceKeeps ==
    ASSUME NEW idx, IsMap(idx, Refs, OrderRecord), NEW r \in Refs, r \notin DOMAIN idx,
           NEW rec \in OrderRecord,
           NEW lv, IsMap(lv, LevelKeys, PriceLevel),
           NEW n \in Nat, n < MaxMessages, Room(lv, n)
    PROVE  LET p == Put(idx, r, rec)
               ins == InsertShares(lv, KeyOf(rec), rec.shares)
           IN  /\ IsMap(p, Refs, OrderRecord)
               /\ IsMap(ins, LevelKeys, PriceLevel)
               /\ Room(ins, n + 1)
               /\ Exact(idx, lv) => Exact(p, ins)
               /\ Covering(idx, lv) => Covering(p, ins)
<1> DEFINE p == Put(idx, r, rec)
           k == KeyOf(rec)
           ins == InsertShares(lv, k, rec.shares)
<1>1. k \in LevelKeys /\ rec.shares \in Uint32
  BY KeyOfType DEF OrderRecord
<1>2. IsMap(p, Refs, OrderRecord)
  BY MapChanges
<1>3. rec.shares \in Nat
  BY <1>1, WidthAssumption DEF Uint32
<1> HIDE DEF k
<1>4. /\ IsMap(ins, LevelKeys, PriceLevel)
      /\ DOMAIN ins = DOMAIN lv \cup {k}
      /\ CountAt(ins, k) = CountAt(lv, k) + 1
      /\ TotalAt(ins, k) = TotalAt(lv, k) + rec.shares
      /\ \A j : j # k => CountAt(ins, j) = CountAt(lv, j) /\ TotalAt(ins, j) = TotalAt(lv, j)
      /\ Room(ins, n + 1)
  BY <1>1, InsertEffect
<1>5. /\ Cardinality(OrdersAt(p, k)) = Cardinality(OrdersAt(idx, k)) + 1
      /\ Cardinality(UnitsAt(p, k)) = Cardinality(UnitsAt(idx, k)) + rec.shares
  BY PlacedCounts DEF k
<1>6. \A j : j # k => OrdersAt(p, j) = OrdersAt(idx, j) /\ UnitsAt(p, j) = UnitsAt(idx, j)
  BY PlacedCounts DEF k
<1> HIDE DEF p, ins
<1>7. \A j : /\ CountAt(lv, j) \in Nat /\ TotalAt(lv, j) \in Nat
             /\ Cardinality(OrdersAt(idx, j)) \in Nat /\ Cardinality(UnitsAt(idx, j)) \in Nat
  BY ShownType, FiniteAt
<1>8. ASSUME Exact(idx, lv) PROVE Exact(p, ins)
  <2> SUFFICES ASSUME NEW j \in LevelKeys
               PROVE  /\ CountAt(ins, j) = Cardinality(OrdersAt(p, j))
                      /\ TotalAt(ins, j) = Cardinality(UnitsAt(p, j))
                      /\ j \in DOMAIN ins => CountAt(ins, j) > 0
    BY DEF Exact
  <2>1. CASE j = k
    BY <2>1, <1>1, <1>3, <1>4, <1>5, <1>7, <1>8 DEF Exact
  <2>2. CASE j # k
    BY <2>2, <1>4, <1>6, <1>8 DEF Exact
  <2>3. QED
    BY <2>1, <2>2
<1>9. ASSUME Covering(idx, lv) PROVE Covering(p, ins)
  <2> SUFFICES ASSUME NEW j \in LevelKeys
               PROVE  /\ CountAt(ins, j) >= Cardinality(OrdersAt(p, j))
                      /\ TotalAt(ins, j) >= Cardinality(UnitsAt(p, j))
                      /\ Fits(CountAt(ins, j) - Cardinality(OrdersAt(p, j)),
                              TotalAt(ins, j) - Cardinality(UnitsAt(p, j)))
    BY DEF Covering
  <2>1. CASE j = k
    <3>1. /\ CountAt(ins, k) - Cardinality(OrdersAt(p, k))
                = CountAt(lv, k) - Cardinality(OrdersAt(idx, k))
          /\ TotalAt(ins, k) - Cardinality(UnitsAt(p, k))
                = TotalAt(lv, k) - Cardinality(UnitsAt(idx, k))
      BY <1>3, <1>4, <1>5, <1>7
    <3>2. /\ CountAt(ins, k) >= Cardinality(OrdersAt(p, k))
          /\ TotalAt(ins, k) >= Cardinality(UnitsAt(p, k))
      BY <1>1, <1>3, <1>4, <1>5, <1>7, <1>9 DEF Covering
    <3>3. QED
      BY <2>1, <3>1, <3>2, <1>1, <1>9 DEF Covering
  <2>2. CASE j # k
    BY <2>2, <1>4, <1>6, <1>9 DEF Covering
  <2>3. QED
    BY <2>1, <2>2
<1>10. QED
  BY <1>2, <1>4, <1>8, <1>9 DEF p, ins, k

(* An order of the index rests at its level with all its shares. *)
LEMMA OwnLevel ==
    ASSUME NEW idx, IsMap(idx, Refs, OrderRecord), NEW r \in DOMAIN idx,
           NEW lv, IsMap(lv, LevelKeys, PriceLevel), Covering(idx, lv)
    PROVE  /\ KeyOf(idx[r]) \in LevelKeys
           /\ 1 <= CountAt(lv, KeyOf(idx[r]))
           /\ idx[r].shares \in Nat
           /\ idx[r].shares <= TotalAt(lv, KeyOf(idx[r]))
<1> DEFINE k == KeyOf(idx[r])
           e == Erase(idx, r)
<1>1. idx[r] \in OrderRecord /\ r \in Refs
  BY DEF IsMap
<1>2. k \in LevelKeys /\ idx[r].shares \in Nat
  BY <1>1, KeyOfType, WidthAssumption DEF OrderRecord, Uint32
<1>3. IsMap(e, Refs, OrderRecord)
  BY <1>1, MapChanges
<1> HIDE DEF k, e
<1>4. /\ Cardinality(OrdersAt(idx, k)) = Cardinality(OrdersAt(e, k)) + 1
      /\ Cardinality(UnitsAt(idx, k)) = Cardinality(UnitsAt(e, k)) + idx[r].shares
  BY ErasedCounts DEF k, e
<1>5. Cardinality(OrdersAt(e, k)) \in Nat /\ Cardinality(UnitsAt(e, k)) \in Nat
  BY <1>3, FiniteAt
<1>6. CountAt(lv, k) \in Nat /\ TotalAt(lv, k) \in Nat
  BY ShownType
<1>7. CountAt(lv, k) >= Cardinality(OrdersAt(idx, k)) /\ TotalAt(lv, k) >= Cardinality(UnitsAt(idx, k))
  BY <1>2 DEF Covering
<1>8. 1 <= CountAt(lv, k) /\ idx[r].shares <= TotalAt(lv, k)
  BY <1>2, <1>4, <1>5, <1>6, <1>7
<1>9. QED
  BY <1>2, <1>8 DEF k

(* An order erased from the index and removed whole from its level. *)
LEMMA WithdrawKeeps ==
    ASSUME NEW idx, IsMap(idx, Refs, OrderRecord), NEW r \in DOMAIN idx,
           NEW lv, IsMap(lv, LevelKeys, PriceLevel), Covering(idx, lv),
           NEW n \in Nat, Room(lv, n)
    PROVE  LET e == Erase(idx, r)
               rem == RemoveShares(lv, KeyOf(idx[r]), idx[r].shares, TRUE)
           IN  /\ IsMap(e, Refs, OrderRecord)
               /\ IsMap(rem, LevelKeys, PriceLevel)
               /\ Room(rem, n)
               /\ Exact(idx, lv) => Exact(e, rem)
               /\ Covering(e, rem)
<1> DEFINE k == KeyOf(idx[r])
           s == idx[r].shares
           e == Erase(idx, r)
           rem == RemoveShares(lv, k, s, TRUE)
<1>1. idx[r] \in OrderRecord /\ r \in Refs
  BY DEF IsMap
<1>2. IsMap(e, Refs, OrderRecord)
  BY <1>1, MapChanges
<1>3. k \in LevelKeys /\ 1 <= CountAt(lv, k) /\ s \in Nat /\ s <= TotalAt(lv, k)
  BY OwnLevel
<1> HIDE DEF k, s
<1>4. /\ IsMap(rem, LevelKeys, PriceLevel)
      /\ CountAt(rem, k) = CountAt(lv, k) - 1
      /\ TotalAt(rem, k) = IF CountAt(rem, k) = 0 THEN 0 ELSE TotalAt(lv, k) - s
      /\ k \in DOMAIN rem => CountAt(rem, k) > 0
      /\ \A j : j # k => /\ j \in DOMAIN rem <=> j \in DOMAIN lv
                         /\ CountAt(rem, j) = CountAt(lv, j)
                         /\ TotalAt(rem, j) = TotalAt(lv, j)
  BY <1>3, RemoveWhole
<1>5. /\ Cardinality(OrdersAt(idx, k)) = Cardinality(OrdersAt(e, k)) + 1
      /\ Cardinality(UnitsAt(idx, k)) = Cardinality(UnitsAt(e, k)) + s
  BY ErasedCounts DEF k, s
<1>6. \A j : j # k => OrdersAt(e, j) = OrdersAt(idx, j) /\ UnitsAt(e, j) = UnitsAt(idx, j)
  BY ErasedCounts DEF k
<1> HIDE DEF e, rem
<1>7. \A j : /\ CountAt(lv, j) \in Nat /\ TotalAt(lv, j) \in Nat
             /\ Cardinality(OrdersAt(e, j)) \in Nat /\ Cardinality(UnitsAt(e, j)) \in Nat
  BY <1>2, ShownType, FiniteAt
<1>8. Cardinality(OrdersAt(e, k)) = 0 => Cardinality(UnitsAt(e, k)) = 0
  BY <1>2, NoOrdersNoUnits
<1>9. ASSUME Exact(idx, lv) PROVE Exact(e, rem)
  <2> SUFFICES ASSUME NEW j \in LevelKeys
               PROVE  /\ CountAt(rem, j) = Cardinality(OrdersAt(e, j))
                      /\ TotalAt(rem, j) = Cardinality(UnitsAt(e, j))
                      /\ j \in DOMAIN rem => CountAt(rem, j) > 0
    BY DEF Exact
  <2>1. CASE j = k
    <3>1. CountAt(lv, k) = Cardinality(OrdersAt(idx, k)) /\ TotalAt(lv, k) = Cardinality(UnitsAt(idx, k))
      BY <1>3, <1>9 DEF Exact
    <3>2. QED
      BY <2>1, <3>1, <1>3, <1>4, <1>5, <1>7, <1>8
  <2>2. CASE j # k
    BY <2>2, <1>4, <1>6, <1>9 DEF Exact
  <2>3. QED
    BY <2>1, <2>2
<1>10. Covering(e, rem)
  <2> SUFFICES ASSUME NEW j \in LevelKeys
               PROVE  /\ CountAt(rem, j) >= Cardinality(OrdersAt(e, j))
                      /\ TotalAt(rem, j) >= Cardinality(UnitsAt(e, j))
                      /\ Fits(CountAt(rem, j) - Cardinality(OrdersAt(e, j)),
                              TotalAt(rem, j) - Cardinality(UnitsAt(e, j)))
    BY DEF Covering
  <2>1. CASE j = k
    <3>1. /\ CountAt(lv, k) >= Cardinality(OrdersAt(idx, k))
          /\ TotalAt(lv, k) >= Cardinality(UnitsAt(idx, k))
          /\ Fits(CountAt(lv, k) - Cardinality(OrdersAt(idx, k)),
                  TotalAt(lv, k) - Cardinality(UnitsAt(idx, k)))
      BY <1>3 DEF Covering
    <3>2. /\ CountAt(rem, k) >= Cardinality(OrdersAt(e, k))
          /\ TotalAt(rem, k) >= Cardinality(UnitsAt(e, k))
      BY <3>1, <1>3, <1>4, <1>5, <1>7, <1>8
    <3>3. CountAt(rem, k) - Cardinality(OrdersAt(e, k))
             = CountAt(lv, k) - Cardinality(OrdersAt(idx, k))
      BY <1>4, <1>5, <1>7
    <3>4. CASE CountAt(rem, k) = 0
      <4>1. /\ CountAt(rem, k) - Cardinality(OrdersAt(e, k)) = 0
            /\ TotalAt(rem, k) - Cardinality(UnitsAt(e, k)) = 0
        BY <3>2, <3>4, <1>4, <1>7, <1>8
      <4>2. Fits(0, 0)
        BY WidthAssumption DEF Fits
      <4>3. QED
        BY <4>1, <4>2, <3>2, <2>1
    <3>5. CASE CountAt(rem, k) # 0
      <4>1. TotalAt(rem, k) - Cardinality(UnitsAt(e, k))
               = TotalAt(lv, k) - Cardinality(UnitsAt(idx, k))
        BY <3>5, <1>3, <1>4, <1>5, <1>7
      <4>2. QED
        BY <4>1, <3>1, <3>2, <3>3, <2>1
    <3>6. QED
      BY <3>4, <3>5
  <2>2. CASE j # k
    BY <2>2, <1>4, <1>6 DEF Covering
  <2>3. QED
    BY <2>1, <2>2
<1>11. Room(rem, n)
  <2> SUFFICES ASSUME NEW j \in LevelKeys
               PROVE  /\ CountAt(rem, j) <= n /\ TotalAt(rem, j) <= n * (U32 - 1)
                      /\ j \in DOMAIN rem => CountAt(rem, j) > 0
    BY DEF Room
  <2>1. /\ CountAt(lv, j) <= n /\ TotalAt(lv, j) <= n * (U32 - 1) /\ n * (U32 - 1) \in Nat
        /\ j \in DOMAIN lv => CountAt(lv, j) > 0
    BY WidthAssumption DEF Room
  <2>2. CASE j = k
    BY <2>1, <2>2, <1>3, <1>4, <1>7
  <2>3. CASE j # k
    BY <2>1, <2>3, <1>4
  <2>4. QED
    BY <2>2, <2>3
<1>12. QED
  BY <1>2, <1>4, <1>9, <1>10, <1>11 DEF e, rem, k, s

(* Shares taken off an order that keeps some, in the index and at its level. *)
LEMMA ReduceKeeps ==
    ASSUME NEW idx, IsMap(idx, Refs, OrderRecord), NEW r \in DOMAIN idx,
           NEW lv, IsMap(lv, LevelKeys, PriceLevel), Covering(idx, lv),
           NEW n \in Nat, Room(lv, n),
           NEW after \in Nat, 1 <= after, after <= idx[r].shares
    PROVE  LET p == Put(idx, r, [idx[r] EXCEPT !.shares = after])
               rem == RemoveShares(lv, KeyOf(idx[r]), idx[r].shares - after, FALSE)
           IN  /\ IsMap(p, Refs, OrderRecord)
               /\ IsMap(rem, LevelKeys, PriceLevel)
               /\ Room(rem, n)
               /\ Exact(idx, lv) => Exact(p, rem)
               /\ Covering(p, rem)
<1> DEFINE k == KeyOf(idx[r])
           s == idx[r].shares
           rec == [idx[r] EXCEPT !.shares = after]
           e == Erase(idx, r)
           p == Put(idx, r, rec)
           rem == RemoveShares(lv, k, s - after, FALSE)
<1>1. idx[r] \in OrderRecord /\ r \in Refs
  BY DEF IsMap
<1>2. rec \in OrderRecord /\ KeyOf(rec) = k /\ rec.shares = after
  BY <1>1, WidthAssumption DEF OrderRecord, Uint32, KeyOf
<1>3. IsMap(e, Refs, OrderRecord) /\ IsMap(p, Refs, OrderRecord)
  BY <1>1, <1>2, MapChanges
<1>4. p = Put(e, r, rec) /\ r \notin DOMAIN e
  BY PutOverErase DEF Erase
<1>5. k \in LevelKeys /\ 1 <= CountAt(lv, k) /\ s \in Nat /\ s <= TotalAt(lv, k)
  BY OwnLevel
<1> HIDE DEF k, s, rec
<1>6. /\ Cardinality(OrdersAt(idx, k)) = Cardinality(OrdersAt(e, k)) + 1
      /\ Cardinality(UnitsAt(idx, k)) = Cardinality(UnitsAt(e, k)) + s
      /\ \A j : j # k => OrdersAt(e, j) = OrdersAt(idx, j) /\ UnitsAt(e, j) = UnitsAt(idx, j)
  BY ErasedCounts DEF k, s
<1> HIDE DEF e, p
<1>7. /\ Cardinality(OrdersAt(p, k)) = Cardinality(OrdersAt(e, k)) + 1
      /\ Cardinality(UnitsAt(p, k)) = Cardinality(UnitsAt(e, k)) + after
      /\ \A j : j # k => OrdersAt(p, j) = OrdersAt(e, j) /\ UnitsAt(p, j) = UnitsAt(e, j)
  BY <1>1, <1>2, <1>3, <1>4, PlacedCounts
<1>8. s - after \in Nat /\ s - after <= TotalAt(lv, k) /\ after <= s
  <2>1. after <= s
    BY DEF s
  <2>2. TotalAt(lv, k) \in Nat
    BY ShownType
  <2>3. QED
    BY <2>1, <2>2, <1>5
<1>9. /\ IsMap(rem, LevelKeys, PriceLevel)
      /\ CountAt(rem, k) = CountAt(lv, k)
      /\ TotalAt(rem, k) = IF CountAt(rem, k) = 0 THEN 0 ELSE TotalAt(lv, k) - (s - after)
      /\ k \in DOMAIN rem => CountAt(rem, k) > 0
      /\ \A j : j # k => /\ j \in DOMAIN rem <=> j \in DOMAIN lv
                         /\ CountAt(rem, j) = CountAt(lv, j)
                         /\ TotalAt(rem, j) = TotalAt(lv, j)
  BY <1>5, <1>8, RemovePart
<1> HIDE DEF rem
<1>10. \A j : /\ CountAt(lv, j) \in Nat /\ TotalAt(lv, j) \in Nat
              /\ Cardinality(OrdersAt(e, j)) \in Nat /\ Cardinality(UnitsAt(e, j)) \in Nat
  BY <1>3, ShownType, FiniteAt
<1>11. TotalAt(rem, k) = TotalAt(lv, k) - (s - after)
  BY <1>5, <1>9, <1>10
<1>12. ASSUME Exact(idx, lv) PROVE Exact(p, rem)
  <2> SUFFICES ASSUME NEW j \in LevelKeys
               PROVE  /\ CountAt(rem, j) = Cardinality(OrdersAt(p, j))
                      /\ TotalAt(rem, j) = Cardinality(UnitsAt(p, j))
                      /\ j \in DOMAIN rem => CountAt(rem, j) > 0
    BY DEF Exact
  <2>1. CASE j = k
    <3>1. CountAt(lv, k) = Cardinality(OrdersAt(idx, k)) /\ TotalAt(lv, k) = Cardinality(UnitsAt(idx, k))
      BY <1>5, <1>12 DEF Exact
    <3>2. QED
      BY <2>1, <3>1, <1>5, <1>6, <1>7, <1>8, <1>9, <1>10, <1>11
  <2>2. CASE j # k
    BY <2>2, <1>6, <1>7, <1>9, <1>12 DEF Exact
  <2>3. QED
    BY <2>1, <2>2
<1>13. Covering(p, rem)
  <2> SUFFICES ASSUME NEW j \in LevelKeys
               PROVE  /\ CountAt(rem, j) >= Cardinality(OrdersAt(p, j))
                      /\ TotalAt(rem, j) >= Cardinality(UnitsAt(p, j))
                      /\ Fits(CountAt(rem, j) - Cardinality(OrdersAt(p, j)),
                              TotalAt(rem, j) - Cardinality(UnitsAt(p, j)))
    BY DEF Covering
  <2>1. CASE j = k
    <3>1. /\ CountAt(lv, k) >= Cardinality(OrdersAt(idx, k))
          /\ TotalAt(lv, k) >= Cardinality(UnitsAt(idx, k))
          /\ Fits(CountAt(lv, k) - Cardinality(OrdersAt(idx, k)),
                  TotalAt(lv, k) - Cardinality(UnitsAt(idx, k)))
      BY <1>5 DEF Covering
    <3>2. /\ CountAt(rem, k) >= Cardinality(OrdersAt(p, k))
          /\ TotalAt(rem, k) >= Cardinality(UnitsAt(p, k))
      BY <3>1, <1>5, <1>6, <1>7, <1>8, <1>9, <1>10, <1>11
    <3>3. /\ CountAt(rem, k) - Cardinality(OrdersAt(p, k))
                = CountAt(lv, k) - Cardinality(OrdersAt(idx, k))
          /\ TotalAt(rem, k) - Cardinality(UnitsAt(p, k))
                = TotalAt(lv, k) - Cardinality(UnitsAt(idx, k))
      BY <1>5, <1>6, <1>7, <1>9, <1>10, <1>11
    <3>4. QED
      BY <2>1, <3>1, <3>2, <3>3
  <2>2. CASE j # k
    BY <2>2, <1>6, <1>7, <1>9 DEF Covering
  <2>3. QED
    BY <2>1, <2>2
<1>14. Room(rem, n)
  <2> SUFFICES ASSUME NEW j \in LevelKeys
               PROVE  /\ CountAt(rem, j) <= n /\ TotalAt(rem, j) <= n * (U32 - 1)
                      /\ j \in DOMAIN rem => CountAt(rem, j) > 0
    BY DEF Room
  <2>1. /\ CountAt(lv, j) <= n /\ TotalAt(lv, j) <= n * (U32 - 1) /\ n * (U32 - 1) \in Nat
        /\ j \in DOMAIN lv => CountAt(lv, j) > 0
    BY WidthAssumption DEF Room
  <2>2. CASE j = k
    BY <2>1, <2>2, <1>8, <1>9, <1>10, <1>11
  <2>3. CASE j # k
    BY <2>1, <2>3, <1>9
  <2>4. QED
    BY <2>2, <2>3
<1>15. QED
  BY <1>3, <1>9, <1>12, <1>13, <1>14 DEF p, rem, k, s, rec

(* Forgetting an order leaves levels that cover the index: what happens to *)
(* the order whose reference a new one takes over.                         *)
LEMMA ForgetKeepsCovering ==
    ASSUME NEW idx, IsMap(idx, Refs, OrderRecord), NEW r \in Refs,
           NEW lv, IsMap(lv, LevelKeys, PriceLevel), Covering(idx, lv)
    PROVE  Covering(Erase(idx, r), lv) /\ IsMap(Erase(idx, r), Refs, OrderRecord)
<1> DEFINE e == Erase(idx, r)
<1>1. IsMap(e, Refs, OrderRecord)
  BY DEF IsMap, Erase
<1>2. CASE r \notin DOMAIN idx
  <2>1. e = idx
    BY <1>2 DEF Erase, IsMap
  <2>2. QED
    BY <2>1, <1>1
<1>3. CASE r \in DOMAIN idx
  <2>1. idx[r].shares \in 0..(U32 - 1)
    BY <1>3 DEF IsMap, OrderRecord, Uint32
  <2>2. \A j : \/ /\ Cardinality(OrdersAt(idx, j)) = Cardinality(OrdersAt(e, j))
                  /\ Cardinality(UnitsAt(idx, j)) = Cardinality(UnitsAt(e, j))
               \/ /\ Cardinality(OrdersAt(idx, j)) = Cardinality(OrdersAt(e, j)) + 1
                  /\ Cardinality(UnitsAt(idx, j)) = Cardinality(UnitsAt(e, j)) + idx[r].shares
    <3> TAKE j
    <3>1. \/ /\ Cardinality(OrdersAt(idx, j)) = Cardinality(OrdersAt(e, j)) + 1
             /\ Cardinality(UnitsAt(idx, j)) = Cardinality(UnitsAt(e, j)) + idx[r].shares
          \/ OrdersAt(idx, j) = OrdersAt(e, j) /\ UnitsAt(idx, j) = UnitsAt(e, j)
      BY <1>3, ErasedCounts
    <3> HIDE DEF e
    <3>2. QED
      BY <3>1
  <2>3. \A j : /\ CountAt(lv, j) \in Nat /\ TotalAt(lv, j) \in Nat
               /\ Cardinality(OrdersAt(e, j)) \in Nat /\ Cardinality(UnitsAt(e, j)) \in Nat
               /\ Cardinality(OrdersAt(idx, j)) \in Nat /\ Cardinality(UnitsAt(idx, j)) \in Nat
    BY <1>1, FiniteAt, ShownType
  <2> HIDE DEF e
  <2>4. Covering(e, lv)
    <3> SUFFICES ASSUME NEW j \in LevelKeys
                 PROVE  /\ CountAt(lv, j) >= Cardinality(OrdersAt(e, j))
                        /\ TotalAt(lv, j) >= Cardinality(UnitsAt(e, j))
                        /\ Fits(CountAt(lv, j) - Cardinality(OrdersAt(e, j)),
                                TotalAt(lv, j) - Cardinality(UnitsAt(e, j)))
      BY DEF Covering
    <3>1. /\ CountAt(lv, j) >= Cardinality(OrdersAt(idx, j))
          /\ TotalAt(lv, j) >= Cardinality(UnitsAt(idx, j))
          /\ Fits(CountAt(lv, j) - Cardinality(OrdersAt(idx, j)),
                  TotalAt(lv, j) - Cardinality(UnitsAt(idx, j)))
      BY DEF Covering
    <3>2. CASE /\ Cardinality(OrdersAt(idx, j)) = Cardinality(OrdersAt(e, j))
               /\ Cardinality(UnitsAt(idx, j)) = Cardinality(UnitsAt(e, j))
      BY <3>1, <3>2
    <3>3. CASE /\ Cardinality(OrdersAt(idx, j)) = Cardinality(OrdersAt(e, j)) + 1
               /\ Cardinality(UnitsAt(idx, j)) = Cardinality(UnitsAt(e, j)) + idx[r].shares
      <4>1. PICK c \in Nat, o \in Nat, t \in Nat, u \in Nat, n \in 0..(U32 - 1) :
               /\ c = CountAt(lv, j) /\ o = Cardinality(OrdersAt(e, j))
               /\ t = TotalAt(lv, j) /\ u = Cardinality(UnitsAt(e, j))
               /\ n = idx[r].shares
        BY <2>1, <2>3
      <4>2. c >= o + 1 /\ t >= u + n /\ Fits(c - (o + 1), t - (u + n))
        BY <3>1, <3>3, <4>1
      <4>3. c >= o /\ t >= u /\ Fits(c - o, t - u)
        BY <4>2, FitsOneMore
      <4>4. QED
        BY <4>1, <4>3
    <3>4. QED
      BY <2>2, <3>2, <3>3
  <2>5. QED
    BY <2>4, <1>1 DEF e
<1>4. QED
  BY <1>2, <1>3

(* The pointwise relations give the properties of BookEngine. *)
LEMMA ExactIsAggregate ==
    ASSUME NEW idx, IsMap(idx, Refs, OrderRecord),
           NEW lv, IsMap(lv, LevelKeys, PriceLevel), Exact(idx, lv)
    PROVE  lv = Aggregate(idx)
<1>1. \A k \in LevelKeys : k \in DOMAIN lv <=> k \in OccupiedKeys(idx)
  <2> TAKE k \in LevelKeys
  <2>1. k \in DOMAIN lv <=> CountAt(lv, k) # 0
    BY ShownType DEF Exact, CountAt
  <2>2. Cardinality(OrdersAt(idx, k)) # 0 <=> OrdersAt(idx, k) # {}
    BY FiniteAt, FS_EmptySet
  <2>3. OrdersAt(idx, k) # {} <=> k \in OccupiedKeys(idx)
    BY DEF OrdersAt, OccupiedKeys
  <2>4. QED
    BY <2>1, <2>2, <2>3 DEF Exact
<1>2. OccupiedKeys(idx) \subseteq LevelKeys
  BY KeyOfType DEF OccupiedKeys, IsMap
<1>3. DOMAIN lv = OccupiedKeys(idx)
  BY <1>1, <1>2 DEF IsMap
<1>4. \A k \in DOMAIN lv : lv[k] = [total_shares |-> Cardinality(UnitsAt(idx, k)),
                                   order_count |-> Cardinality(OrdersAt(idx, k))]
  <2> TAKE k \in DOMAIN lv
  <2>1. lv[k] \in PriceLevel /\ k \in LevelKeys
    BY DEF IsMap
  <2>2. lv[k] = [total_shares |-> lv[k].total_shares, order_count |-> lv[k].order_count]
    BY <2>1 DEF PriceLevel
  <2>3. lv[k].total_shares = Cardinality(UnitsAt(idx, k)) /\ lv[k].order_count = Cardinality(OrdersAt(idx, k))
    BY <2>1 DEF Exact, CountAt, TotalAt
  <2>4. QED
    BY <2>2, <2>3
<1>5. lv = [k \in DOMAIN lv |-> lv[k]]
  BY DEF IsMap
<1>6. QED
  BY <1>3, <1>4, <1>5 DEF Aggregate

(* The inductive form of Covers implies Covers.                            *)
LEMMA CoveringCovers ==
    ASSUME IsMap(order_index, Refs, OrderRecord), IsMap(levels, LevelKeys, PriceLevel),
           Covering(order_index, levels)
    PROVE  Covers
<1> SUFFICES ASSUME NEW r \in DOMAIN order_index, NEW k, k = KeyOf(order_index[r])
             PROVE  /\ k \in DOMAIN levels
                    /\ levels[k].order_count >= Cardinality(OrdersAt(order_index, k))
                    /\ levels[k].total_shares >= Cardinality(UnitsAt(order_index, k))
  BY DEF Covers, OccupiedKeys
<1>1. k \in LevelKeys /\ 1 <= CountAt(levels, k)
  BY OwnLevel
<1>2. k \in DOMAIN levels
  BY <1>1 DEF CountAt
<1>3. CountAt(levels, k) = levels[k].order_count /\ TotalAt(levels, k) = levels[k].total_shares
  BY <1>2 DEF CountAt, TotalAt
<1>4. QED
  BY <1>1, <1>2, <1>3 DEF Covering

(* The orders of the index at a level have no more shares than they can. *)
LEMMA UnitsFit ==
    ASSUME NEW idx, IsMap(idx, Refs, OrderRecord), NEW k
    PROVE  Fits(Cardinality(OrdersAt(idx, k)), Cardinality(UnitsAt(idx, k)))
<1> DEFINE all == OrdersAt(idx, k) \X (1..(U32 - 1))
<1>1. IsFiniteSet(OrdersAt(idx, k)) /\ Cardinality(OrdersAt(idx, k)) \in Nat
  BY FiniteAt
<1>2. IsFiniteSet(1..(U32 - 1)) /\ Cardinality(1..(U32 - 1)) = U32 - 1
  BY FS_Interval, WidthAssumption
<1>3. IsFiniteSet(all) /\ Cardinality(all) = Cardinality(OrdersAt(idx, k)) * (U32 - 1)
  BY <1>1, <1>2, FS_Product
<1>4. UnitsAt(idx, k) \subseteq all
  BY DEF UnitsAt
<1>5. Cardinality(UnitsAt(idx, k)) <= Cardinality(all)
  BY <1>3, <1>4, FS_Subset
<1>6. QED
  BY <1>3, <1>5 DEF Fits

(* The bounds of Room and Covering on every level give NoPhantomLevel. *)
LEMMA CoveringFits ==
    ASSUME IsMap(order_index, Refs, OrderRecord), IsMap(levels, LevelKeys, PriceLevel),
           messages_processed \in Nat, Room(levels, messages_processed),
           Covering(order_index, levels)
    PROVE  NoPhantomLevel
<1> SUFFICES ASSUME NEW k \in DOMAIN levels
             PROVE  /\ levels[k].order_count \in 1..messages_processed
                    /\ levels[k].total_shares <= levels[k].order_count * (U32 - 1)
  BY DEF NoPhantomLevel
<1>1. k \in LevelKeys
  BY DEF IsMap
<1>2. CountAt(levels, k) = levels[k].order_count /\ TotalAt(levels, k) = levels[k].total_shares
  BY DEF CountAt, TotalAt
<1>3. CountAt(levels, k) \in Nat /\ TotalAt(levels, k) \in Nat
  BY ShownType
<1>4. Cardinality(OrdersAt(order_index, k)) \in Nat /\ Cardinality(UnitsAt(order_index, k)) \in Nat
  BY FiniteAt
<1>5. CountAt(levels, k) <= messages_processed /\ CountAt(levels, k) > 0
  BY <1>1 DEF Room
<1>6. Fits(CountAt(levels, k), TotalAt(levels, k))
  BY <1>1, <1>3, <1>4, UnitsFit, FitsTogether DEF Covering
<1>7. QED
  BY <1>2, <1>3, <1>5, <1>6 DEF Fits

----------------------------------------------------------------------------
(* A ladder that is not empty has a price no other price is better than,   *)
(* and BestPrice is one: the set of the prices ahead of a price cannot     *)
(* shrink forever.                                                         *)
LEMMA BestPriceIsBest ==
    ASSUME NEW lv, NEW l, NEW ladder
    PROVE  LET prices == PricesOf(lv, l, ladder)
               best == BestPrice(lv, l, ladder)
           IN  IF prices = {} THEN best = NoPrice
               ELSE best \in prices /\ \A q \in prices : ~Before(ladder, q, best)
<1> DEFINE prices == PricesOf(lv, l, ladder)
           Ahead(p) == {q \in prices : Before(ladder, q, p)}
           family == {Ahead(p) : p \in prices}
           R == StrictSubsetOrdering(Prices)
<1>1. CASE prices = {}
  BY <1>1 DEF BestPrice
<1>2. CASE prices # {}
  <2>1. prices \subseteq Prices /\ \A p \in prices : p \in Nat
    BY PricesAssumption DEF PricesOf
  <2>2. \A p \in prices : Ahead(p) \in SUBSET Prices
    BY <2>1
  <2>3. \A p \in prices : IsFiniteSet(Ahead(p))
    BY <2>2, FS_Subset, PricesAssumption
  <2>4. family \subseteq FiniteSubsetsOf(Prices) /\ family # {}
    BY <1>2, <2>2, <2>3 DEF FiniteSubsetsOf
  <2>5. IsWellFoundedOn(R, FiniteSubsetsOf(Prices))
    BY FS_StrictSubsetOrderingWellFounded
  <2> HIDE DEF family, R
  <2>6. PICK A \in family : \A B \in family : ~(<<B, A>> \in R)
    BY <2>4, <2>5, WFMin
  <2>7. PICK p \in prices : A = Ahead(p)
    BY <2>6 DEF family
  <2>8. ASSUME NEW q \in prices, Before(ladder, q, p)
        PROVE  FALSE
    <3>1. Ahead(q) \subseteq Ahead(p)
      BY <2>1, <2>8 DEF Before
    <3>2. q \in Ahead(p) /\ q \notin Ahead(q)
      BY <2>1, <2>8 DEF Before
    <3>3. <<Ahead(q), Ahead(p)>> \in R
      BY <3>1, <3>2, <2>2 DEF R, StrictSubsetOrdering
    <3>4. Ahead(q) \in family
      BY DEF family
    <3>5. QED
      BY <3>3, <3>4, <2>6, <2>7
  <2>9. \E x \in prices : \A q \in prices : ~Before(ladder, q, x)
    BY <2>8
  <2>10. QED
    BY <2>9, <1>2 DEF BestPrice
<1>3. QED
  BY <1>1, <1>2

(* The type of a cached best price. *)
LEMMA BestPriceType ==
    ASSUME NEW lv, NEW l, NEW ladder
    PROVE  BestPrice(lv, l, ladder) \in Prices \cup {NoPrice}
BY BestPriceIsBest DEF PricesOf

(* InsertShares and RemoveShares change the set of levels at most at their *)
(* own key.                                                                *)
LEMMA OtherKeys ==
    ASSUME NEW lv, NEW k, NEW s, NEW full
    PROVE  /\ \A j : j # k => (j \in DOMAIN InsertShares(lv, k, s) <=> j \in DOMAIN lv)
           /\ \A j : j # k => (j \in DOMAIN RemoveShares(lv, k, s, full) <=> j \in DOMAIN lv)
BY DEF InsertShares, RemoveShares, Put, Erase

----------------------------------------------------------------------------
(* Index and levels together *)

(* Index and levels after n messages. *)
StateOK(idx, lv, n) ==
    /\ IsMap(idx, Refs, OrderRecord)
    /\ IsMap(lv, LevelKeys, PriceLevel)
    /\ Room(lv, n)
    /\ Covering(idx, lv)
    /\ UniqueRefs => Exact(idx, lv)

(* The inductive invariant. *)
IInv ==
    /\ TypeOK
    /\ StateOK(order_index, levels, messages_processed)

----------------------------------------------------------------------------
(* A message may pass that changes neither. *)
LEMMA StateGrows ==
    ASSUME NEW idx, NEW lv, NEW n \in Nat, StateOK(idx, lv, n)
    PROVE  StateOK(idx, lv, n + 1)
<1>1. Room(lv, n + 1)
  <2> SUFFICES ASSUME NEW k \in LevelKeys
               PROVE  /\ CountAt(lv, k) <= n + 1 /\ TotalAt(lv, k) <= (n + 1) * (U32 - 1)
                      /\ k \in DOMAIN lv => CountAt(lv, k) > 0
    BY DEF Room
  <2>1. CountAt(lv, k) \in Nat /\ TotalAt(lv, k) \in Nat
    BY ShownType DEF StateOK
  <2>2. /\ CountAt(lv, k) <= n /\ TotalAt(lv, k) <= n * (U32 - 1)
        /\ k \in DOMAIN lv => CountAt(lv, k) > 0
    BY DEF StateOK, Room
  <2>3. U32 - 1 \in Nat
    BY WidthAssumption
  <2>4. TotalAt(lv, k) + 0 <= (n + 1) * (U32 - 1)
    BY <2>1, <2>2, <2>3, ProductGrows
  <2>5. QED
    BY <2>1, <2>2, <2>4
<1>2. QED
  BY <1>1 DEF StateOK

(* The effect of add_order_impl: also when the reference is taken, which   *)
(* forgets the order that had it.                                          *)
LEMMA StateAdd ==
    ASSUME NEW idx, NEW lv, NEW n \in Nat, n < MaxMessages, StateOK(idx, lv, n),
           NEW r \in Refs, UniqueRefs => r \notin DOMAIN idx, NEW rec \in OrderRecord
    PROVE  StateOK(Put(idx, r, rec), InsertShares(lv, KeyOf(rec), rec.shares), n + 1)
<1> DEFINE e == Erase(idx, r)
<1>1. /\ IsMap(idx, Refs, OrderRecord) /\ IsMap(lv, LevelKeys, PriceLevel)
      /\ Room(lv, n) /\ Covering(idx, lv)
      /\ UniqueRefs => Exact(idx, lv)
  BY DEF StateOK
<1>2. IsMap(e, Refs, OrderRecord) /\ Covering(e, lv)
  BY <1>1, ForgetKeepsCovering
<1>3. UniqueRefs => e = idx
  BY <1>1 DEF Erase, IsMap
<1>4. r \notin DOMAIN e
  BY DEF Erase
<1>5. Put(idx, r, rec) = Put(e, r, rec)
  BY PutOverErase
<1> HIDE DEF e
<1>6. LET p == Put(e, r, rec)
          ins == InsertShares(lv, KeyOf(rec), rec.shares)
      IN  /\ IsMap(p, Refs, OrderRecord)
          /\ IsMap(ins, LevelKeys, PriceLevel)
          /\ Room(ins, n + 1)
          /\ Exact(e, lv) => Exact(p, ins)
          /\ Covering(e, lv) => Covering(p, ins)
  BY <1>1, <1>2, <1>4, PlaceKeeps
<1>7. QED
  BY <1>1, <1>2, <1>3, <1>5, <1>6 DEF StateOK

(* The effect of taking an order out whole. *)
LEMMA StateWithdraw ==
    ASSUME NEW idx, NEW lv, NEW n \in Nat, StateOK(idx, lv, n), NEW r \in DOMAIN idx
    PROVE  StateOK(Erase(idx, r), RemoveShares(lv, KeyOf(idx[r]), idx[r].shares, TRUE), n)
<1>1. /\ IsMap(idx, Refs, OrderRecord) /\ IsMap(lv, LevelKeys, PriceLevel)
      /\ Room(lv, n) /\ Covering(idx, lv)
      /\ UniqueRefs => Exact(idx, lv)
  BY DEF StateOK
<1>2. LET e == Erase(idx, r)
          rem == RemoveShares(lv, KeyOf(idx[r]), idx[r].shares, TRUE)
      IN  /\ IsMap(e, Refs, OrderRecord)
          /\ IsMap(rem, LevelKeys, PriceLevel)
          /\ Room(rem, n)
          /\ Exact(idx, lv) => Exact(e, rem)
          /\ Covering(e, rem)
  BY <1>1, WithdrawKeeps
<1>3. QED
  BY <1>1, <1>2 DEF StateOK

(* The effect of taking some of an order's shares. *)
LEMMA StateReduce ==
    ASSUME NEW idx, NEW lv, NEW n \in Nat, StateOK(idx, lv, n), NEW r \in DOMAIN idx,
           NEW after \in Nat, 1 <= after, after <= idx[r].shares
    PROVE  StateOK(Put(idx, r, [idx[r] EXCEPT !.shares = after]),
                   RemoveShares(lv, KeyOf(idx[r]), idx[r].shares - after, FALSE), n)
<1>1. /\ IsMap(idx, Refs, OrderRecord) /\ IsMap(lv, LevelKeys, PriceLevel)
      /\ Room(lv, n) /\ Covering(idx, lv)
      /\ UniqueRefs => Exact(idx, lv)
  BY DEF StateOK
<1>2. LET p == Put(idx, r, [idx[r] EXCEPT !.shares = after])
          rem == RemoveShares(lv, KeyOf(idx[r]), idx[r].shares - after, FALSE)
      IN  /\ IsMap(p, Refs, OrderRecord)
          /\ IsMap(rem, LevelKeys, PriceLevel)
          /\ Room(rem, n)
          /\ Exact(idx, lv) => Exact(p, rem)
          /\ Covering(p, rem)
  BY <1>1, ReduceKeeps
<1>3. QED
  BY <1>1, <1>2 DEF StateOK

----------------------------------------------------------------------------
(* The types of the parts a handler writes besides index and levels. *)

(* get_or_create_book, refresh_top and stamp_book keep books and            *)
(* instruments well typed.                                                 *)
LEMMA TouchBookType ==
    ASSUME IsMap(books, Locates, BookState), IsMap(instruments, Locates, InstrumentInfo),
           NEW l \in Locates, NEW t \in Timestamps, TouchBook(l, t)
    PROVE  IsMap(books', Locates, BookState) /\ IsMap(instruments', Locates, InstrumentInfo)
<1>1. Touched(levels', l, t) \in BookState
  BY BestPriceType DEF Touched, BookState
<1>2. IsMap(books', Locates, BookState)
  BY <1>1, MapChanges DEF TouchBook
<1>3. [symbol |-> Placeholder(l), trading_state |-> "T", round_lot_size |-> 0] \in InstrumentInfo
  BY StatesAssumption DEF InstrumentInfo, AllSymbols
<1>4. IsMap(instruments', Locates, InstrumentInfo)
  BY <1>3, MapChanges DEF TouchBook
<1>5. QED
  BY <1>2, <1>4

(* The end of apply() keeps the message counter within its bound. *)
LEMMA AppliedType ==
    ASSUME TypeOK, Receiving, Applied
    PROVE  /\ messages_processed' = messages_processed + 1
           /\ messages_processed' \in 0..MaxMessages
           /\ pipeline_complete' \in BOOLEAN
           /\ messages_processed \in Nat /\ messages_processed < MaxMessages
BY FeedAssumption DEF TypeOK, Receiving, Applied

(* Every attribution an F message can carry gives a record's mpid. *)
LEMMA MpidType ==
    ASSUME NEW a \in Attributions
    PROVE  MpidFrom(a) \in {NoMpid} \cup Attributions
BY DEF MpidFrom

----------------------------------------------------------------------------
(* Each action preserves the invariant. *)

(* add_order_impl preserves the invariant: one unit for the new record.    *)
LEMMA AddPreserves ==
    ASSUME IInv, NEW l \in Locates, NEW r \in Refs, NEW s \in Sides, NEW n \in ShareCounts,
           NEW p \in Prices, NEW t \in Timestamps, NEW m \in {NoMpid} \cup Attributions,
           Add(l, r, s, n, p, t, m)
    PROVE  IInv'
<1> DEFINE rec == [shares |-> n, price |-> p, stock_locate |-> l, side |-> s, mpid |-> m]
<1>1. rec \in OrderRecord /\ rec.shares = n /\ rec.stock_locate = l
  BY SharesAssumption DEF OrderRecord, Uint32
<1>2. /\ levels' = InsertShares(levels, KeyOf(rec), rec.shares)
      /\ order_index' = Put(order_index, r, rec)
      /\ TouchBook(l, t) /\ Applied /\ Receiving
      /\ UNCHANGED countVars
  BY DEF Add
<1>3. UniqueRefs => r \notin DOMAIN order_index
  BY DEF Add, MayName
<1> HIDE DEF rec
<1>4. /\ messages_processed' = messages_processed + 1 /\ messages_processed' \in 0..MaxMessages
      /\ pipeline_complete' \in BOOLEAN
      /\ messages_processed \in Nat /\ messages_processed < MaxMessages
  BY <1>2, AppliedType DEF IInv
<1>5. StateOK(order_index', levels', messages_processed + 1)
  BY <1>1, <1>2, <1>3, <1>4, StateAdd DEF IInv
<1>6. IsMap(books', Locates, BookState) /\ IsMap(instruments', Locates, InstrumentInfo)
  BY <1>2, TouchBookType DEF IInv, TypeOK
<1>7. skipped_unknown_ref' \in 0..messages_processed' /\ corrupt_messages' \in 0..messages_processed'
  BY <1>2, <1>4 DEF IInv, TypeOK, countVars
<1>8. QED
  BY <1>4, <1>5, <1>6, <1>7 DEF IInv, TypeOK, StateOK

(* A message for an unknown reference touches neither index nor levels.    *)
LEMMA SkipPreserves ==
    ASSUME IInv, NEW r, SkipUnknown(r)
    PROVE  IInv'
<1>1. /\ messages_processed' = messages_processed + 1 /\ messages_processed' \in 0..MaxMessages
      /\ pipeline_complete' \in BOOLEAN
      /\ messages_processed \in Nat /\ messages_processed < MaxMessages
  BY AppliedType DEF IInv, SkipUnknown
<1>2. /\ order_index' = order_index /\ levels' = levels /\ books' = books
      /\ instruments' = instruments /\ corrupt_messages' = corrupt_messages
      /\ skipped_unknown_ref' = skipped_unknown_ref + 1
  BY DEF SkipUnknown
<1>3. StateOK(order_index', levels', messages_processed + 1)
  BY <1>1, <1>2, StateGrows DEF IInv
<1>4. skipped_unknown_ref' \in 0..messages_processed' /\ corrupt_messages' \in 0..messages_processed'
  BY <1>1, <1>2 DEF IInv, TypeOK
<1>5. QED
  BY <1>1, <1>2, <1>3, <1>4 DEF IInv, TypeOK, StateOK

(* Executions and cancellations preserve the invariant: what they take off *)
(* the record is what they take off the level.                             *)
LEMMA TakeSharesPreserves ==
    ASSUME IInv, NEW r \in Refs, NEW n \in ShareCounts, NEW t \in Timestamps,
           TakeShares(r, n, t)
    PROVE  IInv'
<1> DEFINE rec == order_index[r]
           after == ClampedSub(rec.shares, n)
<1>1. r \in DOMAIN order_index
  BY DEF TakeShares
<1>2. /\ corrupt_messages' = corrupt_messages + (IF n > rec.shares THEN 1 ELSE 0)
      /\ levels' = RemoveShares(levels, KeyOf(rec), rec.shares - after, after = 0)
      /\ TouchBook(rec.stock_locate, t)
      /\ order_index' = IF after = 0 THEN Erase(order_index, r)
                        ELSE Put(order_index, r, [rec EXCEPT !.shares = after])
      /\ skipped_unknown_ref' = skipped_unknown_ref
      /\ Receiving /\ Applied
  BY DEF TakeShares
<1>3. rec \in OrderRecord
  BY <1>1 DEF IInv, TypeOK, IsMap
<1>4. rec.stock_locate \in Locates /\ rec.shares \in Nat /\ n \in Nat
  BY <1>3, WidthAssumption, SharesAssumption DEF OrderRecord, Uint32
<1>5. after \in Nat /\ after <= rec.shares
  BY <1>4 DEF ClampedSub
<1> HIDE DEF after
<1>6. /\ messages_processed' = messages_processed + 1 /\ messages_processed' \in 0..MaxMessages
      /\ pipeline_complete' \in BOOLEAN
      /\ messages_processed \in Nat /\ messages_processed < MaxMessages
  BY <1>2, AppliedType DEF IInv
<1>7. StateOK(order_index', levels', messages_processed)
  <2>1. CASE after = 0
    <3>1. rec.shares - after = rec.shares
      BY <2>1, <1>4
    <3>2. levels' = RemoveShares(levels, KeyOf(rec), rec.shares, TRUE)
      BY <1>2, <2>1, <3>1 DEF RemoveShares
    <3>3. order_index' = Erase(order_index, r)
      BY <1>2, <2>1
    <3>4. QED
      BY <3>2, <3>3, <1>1, <1>6, StateWithdraw DEF IInv
  <2>2. CASE after # 0
    <3>1. levels' = RemoveShares(levels, KeyOf(rec), rec.shares - after, FALSE)
      BY <1>2, <2>2 DEF RemoveShares
    <3>2. order_index' = Put(order_index, r, [rec EXCEPT !.shares = after])
      BY <1>2, <2>2
    <3>3. 1 <= after
      BY <2>2, <1>5
    <3>4. QED
      BY <3>1, <3>2, <3>3, <1>1, <1>5, <1>6, StateReduce DEF IInv
  <2>3. QED
    BY <2>1, <2>2
<1>8. StateOK(order_index', levels', messages_processed + 1)
  BY <1>6, <1>7, StateGrows
<1>9. IsMap(books', Locates, BookState) /\ IsMap(instruments', Locates, InstrumentInfo)
  BY <1>2, <1>4, TouchBookType DEF IInv, TypeOK
<1>10. skipped_unknown_ref' \in 0..messages_processed' /\ corrupt_messages' \in 0..messages_processed'
  BY <1>2, <1>6 DEF IInv, TypeOK
<1>11. QED
  BY <1>6, <1>8, <1>9, <1>10 DEF IInv, TypeOK, StateOK

(* The delete handler takes a whole record off its level.                  *)
LEMMA DeletePreserves ==
    ASSUME IInv, NEW r \in Refs, NEW t \in Timestamps, Delete(r, t)
    PROVE  IInv'
<1> DEFINE rec == order_index[r]
<1>1. /\ r \in DOMAIN order_index
      /\ levels' = RemoveShares(levels, KeyOf(rec), rec.shares, TRUE)
      /\ TouchBook(rec.stock_locate, t)
      /\ order_index' = Erase(order_index, r)
      /\ UNCHANGED countVars /\ Receiving /\ Applied
  BY DEF Delete
<1>2. rec.stock_locate \in Locates
  BY <1>1 DEF IInv, TypeOK, IsMap, OrderRecord
<1>3. /\ messages_processed' = messages_processed + 1 /\ messages_processed' \in 0..MaxMessages
      /\ pipeline_complete' \in BOOLEAN
      /\ messages_processed \in Nat /\ messages_processed < MaxMessages
  BY <1>1, AppliedType DEF IInv
<1>4. StateOK(order_index', levels', messages_processed)
  BY <1>1, <1>3, StateWithdraw DEF IInv
<1>5. StateOK(order_index', levels', messages_processed + 1)
  BY <1>3, <1>4, StateGrows
<1>6. IsMap(books', Locates, BookState) /\ IsMap(instruments', Locates, InstrumentInfo)
  BY <1>1, <1>2, TouchBookType DEF IInv, TypeOK
<1>7. skipped_unknown_ref' \in 0..messages_processed' /\ corrupt_messages' \in 0..messages_processed'
  BY <1>1, <1>3 DEF IInv, TypeOK, countVars
<1>8. QED
  BY <1>3, <1>5, <1>6, <1>7 DEF IInv, TypeOK, StateOK

(* The replace handler is a delete followed by an add, also when the two   *)
(* levels or the two references are the same.                              *)
LEMMA ReplacePreserves ==
    ASSUME IInv, NEW old \in Refs, NEW new \in Refs, NEW n \in ShareCounts,
           NEW p \in Prices, NEW t \in Timestamps, Replace(old, new, n, p, t)
    PROVE  IInv'
<1> DEFINE old_rec == order_index[old]
           rec == [old_rec EXCEPT !.shares = n, !.price = p]
           e == Erase(order_index, old)
           removed == RemoveShares(levels, KeyOf(old_rec), old_rec.shares, TRUE)
<1>1. /\ old \in DOMAIN order_index
      /\ MayName(new, DOMAIN order_index \ {old})
      /\ levels' = InsertShares(removed, KeyOf(rec), n)
      /\ order_index' = Put(e, new, rec)
      /\ TouchBook(old_rec.stock_locate, t)
      /\ UNCHANGED countVars /\ Receiving /\ Applied
  BY DEF Replace
<1>2. old_rec \in OrderRecord
  BY <1>1 DEF IInv, TypeOK, IsMap
<1>3. rec \in OrderRecord /\ rec.shares = n /\ old_rec.stock_locate \in Locates
  BY <1>2, SharesAssumption DEF OrderRecord, Uint32
<1>4. DOMAIN e = DOMAIN order_index \ {old}
  BY DEF Erase
<1>5. /\ messages_processed' = messages_processed + 1 /\ messages_processed' \in 0..MaxMessages
      /\ pipeline_complete' \in BOOLEAN
      /\ messages_processed \in Nat /\ messages_processed < MaxMessages
  BY <1>1, AppliedType DEF IInv
<1> HIDE DEF rec
<1>6. StateOK(e, removed, messages_processed)
  BY <1>1, <1>5, StateWithdraw DEF IInv
<1> HIDE DEF e, removed
<1>7. StateOK(order_index', levels', messages_processed + 1)
  BY <1>1, <1>3, <1>4, <1>5, <1>6, StateAdd DEF MayName
<1>8. IsMap(books', Locates, BookState) /\ IsMap(instruments', Locates, InstrumentInfo)
  BY <1>1, <1>3, TouchBookType DEF IInv, TypeOK
<1>9. skipped_unknown_ref' \in 0..messages_processed' /\ corrupt_messages' \in 0..messages_processed'
  BY <1>1, <1>5 DEF IInv, TypeOK, countVars
<1>10. QED
  BY <1>5, <1>7, <1>8, <1>9 DEF IInv, TypeOK, StateOK

(* Directory and trading action messages leave index and levels alone. *)
LEMMA InstrumentPreserves ==
    ASSUME IInv, StockDirectory \/ StockTradingAction
    PROVE  IInv'
<1>1. /\ order_index' = order_index /\ levels' = levels /\ books' = books
      /\ UNCHANGED countVars /\ Receiving /\ Applied
  BY DEF StockDirectory, StockTradingAction, Directory, TradingAction
<1>2. /\ messages_processed' = messages_processed + 1 /\ messages_processed' \in 0..MaxMessages
      /\ pipeline_complete' \in BOOLEAN
      /\ messages_processed \in Nat /\ messages_processed < MaxMessages
  BY <1>1, AppliedType DEF IInv
<1>3. StateOK(order_index', levels', messages_processed + 1)
  BY <1>1, <1>2, StateGrows DEF IInv
<1>4. IsMap(instruments', Locates, InstrumentInfo)
  <2>1. CASE StockDirectory
    <3>1. PICK l \in Locates, s \in Symbols, n \in RoundLots :
             instruments' = Put(instruments, l,
                [symbol |-> s, trading_state |-> "T", round_lot_size |-> n])
      BY <2>1 DEF StockDirectory, Directory
    <3>2. [symbol |-> s, trading_state |-> "T", round_lot_size |-> n] \in InstrumentInfo
      BY StatesAssumption DEF InstrumentInfo, AllSymbols
    <3>3. QED
      BY <3>1, <3>2, MapChanges DEF IInv, TypeOK
  <2>2. CASE StockTradingAction
    <3>1. PICK l \in Locates, s \in TradingStates :
             instruments' = IF l \in DOMAIN instruments
                            THEN [instruments EXCEPT ![l].trading_state = s]
                            ELSE instruments
      BY <2>2 DEF StockTradingAction, TradingAction
    <3>2. QED
      BY <3>1 DEF IInv, TypeOK, IsMap, InstrumentInfo
  <2>3. QED
    BY <2>1, <2>2
<1>5. skipped_unknown_ref' \in 0..messages_processed' /\ corrupt_messages' \in 0..messages_processed'
  BY <1>1, <1>2 DEF IInv, TypeOK, countVars
<1>6. QED
  BY <1>1, <1>2, <1>3, <1>4, <1>5 DEF IInv, TypeOK, StateOK

(* register_instrument touches only the instruments.                       *)
LEMMA RegisterPreserves ==
    ASSUME IInv, RegisterInstrument
    PROVE  IInv'
<1>1. PICK l \in Locates, s \in Symbols, state \in TradingStates, n \in RoundLots :
         instruments' = Put(instruments, l,
            [symbol |-> s, trading_state |-> state, round_lot_size |-> n])
  BY DEF RegisterInstrument
<1>2. [symbol |-> s, trading_state |-> state, round_lot_size |-> n] \in InstrumentInfo
  BY DEF InstrumentInfo, AllSymbols
<1>3. IsMap(instruments', Locates, InstrumentInfo)
  BY <1>1, <1>2, MapChanges DEF IInv, TypeOK
<1>4. UNCHANGED <<order_index, levels, books, messages_processed, countVars,
                  pipeline_complete, published>>
  BY DEF RegisterInstrument
<1>5. QED
  BY <1>3, <1>4 DEF IInv, TypeOK, StateOK, countVars

(* set_pipeline_complete touches only the flag and the published snapshot. *)
LEMMA CompletePreserves ==
    ASSUME IInv, SetPipelineComplete
    PROVE  IInv'
BY DEF SetPipelineComplete, IInv, TypeOK, StateOK, bookVars, countVars

(* An engine just constructed satisfies the invariant.                     *)
LEMMA InitEstablishes == Init => IInv
<1> SUFFICES ASSUME Init PROVE IInv
  OBVIOUS
<1>1. DOMAIN EmptyMap = {}
  BY DEF EmptyMap
<1>2. \A D, R : IsMap(EmptyMap, D, R)
  BY DEF EmptyMap, IsMap
<1>3. TypeOK
  <2>1. messages_processed \in 0..MaxMessages
    BY FeedAssumption DEF Init
  <2>2. skipped_unknown_ref \in 0..messages_processed /\ corrupt_messages \in 0..messages_processed
    BY DEF Init
  <2>3. /\ IsMap(order_index, Refs, OrderRecord) /\ IsMap(levels, LevelKeys, PriceLevel)
        /\ IsMap(books, Locates, BookState) /\ IsMap(instruments, Locates, InstrumentInfo)
    BY <1>2 DEF Init
  <2>4. pipeline_complete \in BOOLEAN
    BY DEF Init
  <2>5. QED
    BY <2>1, <2>2, <2>3, <2>4 DEF TypeOK
<1>4. \A k : OrdersAt(order_index, k) = {} /\ UnitsAt(order_index, k) = {}
  BY <1>1 DEF Init, OrdersAt, UnitsAt
<1>5. \A k : CountAt(levels, k) = 0 /\ TotalAt(levels, k) = 0 /\ k \notin DOMAIN levels
  BY <1>1 DEF Init, CountAt, TotalAt
<1>6. \A k : /\ Cardinality(OrdersAt(order_index, k)) = 0
             /\ Cardinality(UnitsAt(order_index, k)) = 0
  BY <1>4, FS_EmptySet
<1>7. Room(levels, 0)
  <2>1. 0 * (U32 - 1) = 0
    BY WidthAssumption
  <2>2. QED
    BY <1>5, <2>1 DEF Room
<1>8. Covering(order_index, levels) /\ Exact(order_index, levels)
  <2>1. Fits(0 - 0, 0 - 0)
    BY WidthAssumption DEF Fits
  <2>2. QED
    BY <1>5, <1>6, <2>1 DEF Covering, Exact
<1>9. messages_processed = 0
  BY DEF Init
<1>10. QED
  BY <1>2, <1>3, <1>7, <1>8, <1>9 DEF IInv, StateOK, Init

(* Every call of the engine preserves the invariant: one case per message. *)
LEMMA NextPreserves == IInv /\ [Next]_vars => IInv'
<1> SUFFICES ASSUME IInv, [Next]_vars PROVE IInv'
  OBVIOUS
<1>1. CASE AddOrder
  BY <1>1, AddPreserves DEF AddOrder
<1>2. CASE AddOrderMPID
  BY <1>2, AddPreserves, MpidType DEF AddOrderMPID
<1>3. CASE OrderExecuted \/ OrderExecutedPrice \/ OrderCancel
  BY <1>3, TakeSharesPreserves, SkipPreserves
  DEF OrderExecuted, OrderExecutedPrice, OrderCancel
<1>4. CASE OrderDelete
  BY <1>4, DeletePreserves, SkipPreserves DEF OrderDelete
<1>5. CASE OrderReplace
  BY <1>5, ReplacePreserves, SkipPreserves DEF OrderReplace
<1>6. CASE StockDirectory \/ StockTradingAction
  BY <1>6, InstrumentPreserves
<1>7. CASE RegisterInstrument
  BY <1>7, RegisterPreserves
<1>8. CASE SetPipelineComplete
  BY <1>8, CompletePreserves
<1>9. CASE UNCHANGED vars
  BY <1>9 DEF vars, IInv, TypeOK, StateOK
<1>10. QED
  BY <1>1, <1>2, <1>3, <1>4, <1>5, <1>6, <1>7, <1>8, <1>9 DEF Next

(* The inductive invariant holds throughout. *)
THEOREM Invariance == Spec => []IInv
BY InitEstablishes, NextPreserves, PTL DEF Spec

(* Whatever the feed, no level shows more orders than there were messages  *)
(* or more shares than its orders can have, and none shows no order: no    *)
(* counter of a level ever wraps.                                          *)
THEOREM NoLevelWraps == Spec => []NoPhantomLevel
<1>1. IInv => NoPhantomLevel
  BY CoveringFits DEF IInv, TypeOK, StateOK
<1>2. QED
  BY Invariance, <1>1, PTL

(* Every map of the engine holds values of its type, whatever the feed. *)
THEOREM TypeCorrect == Spec => []TypeOK
<1>1. IInv => TypeOK
  BY DEF IInv
<1>2. QED
  BY Invariance, <1>1, PTL

(* Whatever the feed, duplicate references included, no level ever holds   *)
(* less than its orders: remove_shares' clamp and its decrement of         *)
(* order_count never reach their limit.                                    *)
THEOREM LevelsCover == Spec => []Covers
<1>1. IInv => Covers
  BY CoveringCovers DEF IInv, StateOK
<1>2. QED
  BY Invariance, <1>1, PTL

(* With unique references the levels adjusted message by message are       *)
(* exactly the sums over the resting orders.                               *)
THEOREM LevelsConsistent == Spec => []Consistent
<1>1. IInv => Consistent
  BY ExactIsAggregate DEF IInv, StateOK, Consistent
<1>2. QED
  BY Invariance, <1>1, PTL

----------------------------------------------------------------------------
(* What readers of the engine rely on. *)

(* A handler that changes levels of one locate only, and touches its book, *)
(* leaves the cached prices of every book right.                           *)
LEMMA TouchKeepsTop ==
    ASSUME TopIsBest, NEW l \in Locates, NEW t, TouchBook(l, t),
           \A m \in Locates, ladder \in BookSides, p \in Prices :
              m # l => (<<m, ladder, p>> \in DOMAIN levels' <=> <<m, ladder, p>> \in DOMAIN levels)
    PROVE  TopIsBest'
<1>1. /\ DOMAIN books' = DOMAIN books \cup {l}
      /\ books'[l] = Touched(levels', l, t)
      /\ \A m \in DOMAIN books : m # l => books'[m] = books[m]
  BY DEF TouchBook, Put
<1>2. ASSUME NEW m \in Locates, NEW ladder \in BookSides, m # l
      PROVE  PricesOf(levels', m, ladder) = PricesOf(levels, m, ladder)
  BY <1>2 DEF PricesOf
<1>3. ASSUME NEW m \in Locates, NEW ladder \in BookSides
      PROVE  LET prices == PricesOf(levels', m, ladder)
                 best == IF ladder = "bids" THEN books'[m].best_bid ELSE books'[m].best_ask
             IN  IF m \notin DOMAIN books' THEN prices = {}
                 ELSE IF prices = {} THEN best = NoPrice
                 ELSE best \in prices /\ \A p \in prices : ~Before(ladder, p, best)
  <2>1. CASE m = l
    <3>1. (IF ladder = "bids" THEN books'[m].best_bid ELSE books'[m].best_ask)
             = BestPrice(levels', m, ladder)
      BY <2>1, <1>1 DEF Touched, BookSides
    <3>2. m \in DOMAIN books'
      BY <2>1, <1>1
    <3>3. QED
      BY <3>1, <3>2, BestPriceIsBest
  <2>2. CASE m # l
    BY <2>2, <1>1, <1>2 DEF TopIsBest
  <2>3. QED
    BY <2>1, <2>2
<1>4. QED
  BY <1>3 DEF TopIsBest

(* The levels a handler changes have the locate of the order it handles. *)
LEMMA KeyLocate ==
    ASSUME NEW rec, NEW m, NEW ladder, NEW p, m # rec.stock_locate
    PROVE  <<m, ladder, p>> # KeyOf(rec)
BY DEF KeyOf

(* Every call leaves the cached best prices of every book right: the book  *)
(* it touches is refreshed, and the levels of the others do not change.    *)
LEMMA NextKeepsTop == IInv /\ TopIsBest /\ [Next]_vars => TopIsBest'
<1> SUFFICES ASSUME IInv, TopIsBest, [Next]_vars PROVE TopIsBest'
  OBVIOUS
<1> USE DEF IInv, TypeOK
<1>1. ASSUME NEW l \in Locates, NEW r \in Refs, NEW s \in Sides, NEW n \in ShareCounts,
             NEW p \in Prices, NEW t \in Timestamps, NEW a, Add(l, r, s, n, p, t, a)
      PROVE  TopIsBest'
  <2> DEFINE rec == [shares |-> n, price |-> p, stock_locate |-> l, side |-> s, mpid |-> a]
  <2>1. levels' = InsertShares(levels, KeyOf(rec), n) /\ TouchBook(l, t) /\ rec.stock_locate = l
    BY <1>1 DEF Add
  <2> HIDE DEF rec
  <2>2. QED
    BY <2>1, OtherKeys, KeyLocate, TouchKeepsTop
<1>2. ASSUME NEW r \in Refs, NEW n \in ShareCounts, NEW t \in Timestamps, TakeShares(r, n, t)
      PROVE  TopIsBest'
  <2> DEFINE rec == order_index[r]
             taken == rec.shares - ClampedSub(rec.shares, n)
             full == ClampedSub(rec.shares, n) = 0
  <2>1. /\ levels' = RemoveShares(levels, KeyOf(rec), taken, full)
        /\ TouchBook(rec.stock_locate, t)
        /\ r \in DOMAIN order_index
    BY <1>2 DEF TakeShares
  <2>2. rec.stock_locate \in Locates
    BY <2>1 DEF IsMap, OrderRecord
  <2>3. \A j : j # KeyOf(rec) => (j \in DOMAIN levels' <=> j \in DOMAIN levels)
    BY <2>1 DEF RemoveShares, Put, Erase
  <2> HIDE DEF rec
  <2>4. QED
    BY <2>1, <2>2, <2>3, KeyLocate, TouchKeepsTop
<1>3. ASSUME NEW r \in Refs, NEW t \in Timestamps, Delete(r, t)
      PROVE  TopIsBest'
  <2> DEFINE rec == order_index[r]
  <2>1. /\ levels' = RemoveShares(levels, KeyOf(rec), rec.shares, TRUE)
        /\ TouchBook(rec.stock_locate, t)
        /\ r \in DOMAIN order_index
    BY <1>3 DEF Delete
  <2>2. rec.stock_locate \in Locates
    BY <2>1 DEF IsMap, OrderRecord
  <2>3. \A j : j # KeyOf(rec) => (j \in DOMAIN levels' <=> j \in DOMAIN levels)
    BY <2>1 DEF RemoveShares, Put, Erase
  <2> HIDE DEF rec
  <2>4. QED
    BY <2>1, <2>2, <2>3, KeyLocate, TouchKeepsTop
<1>4. ASSUME NEW old \in Refs, NEW new \in Refs, NEW n \in ShareCounts, NEW p \in Prices,
             NEW t \in Timestamps, Replace(old, new, n, p, t)
      PROVE  TopIsBest'
  <2> DEFINE old_rec == order_index[old]
             rec == [old_rec EXCEPT !.shares = n, !.price = p]
             removed == RemoveShares(levels, KeyOf(old_rec), old_rec.shares, TRUE)
  <2>1. /\ levels' = InsertShares(removed, KeyOf(rec), n)
        /\ TouchBook(old_rec.stock_locate, t)
        /\ old \in DOMAIN order_index
    BY <1>4 DEF Replace
  <2>2. old_rec \in OrderRecord
    BY <2>1 DEF IsMap
  <2>3. old_rec.stock_locate \in Locates /\ rec.stock_locate = old_rec.stock_locate
    BY <2>2 DEF OrderRecord
  <2>4. \A j : j # KeyOf(old_rec) => (j \in DOMAIN removed <=> j \in DOMAIN levels)
    BY DEF RemoveShares, Put, Erase
  <2> HIDE DEF rec, old_rec, removed
  <2>5. \A j : j # KeyOf(rec) => (j \in DOMAIN levels' <=> j \in DOMAIN removed)
    BY <2>1, OtherKeys
  <2>6. QED
    BY <2>1, <2>3, <2>4, <2>5, KeyLocate, TouchKeepsTop
<1>5. ASSUME levels' = levels, books' = books
      PROVE  TopIsBest'
  BY <1>5 DEF TopIsBest
<1>6. CASE AddOrder \/ AddOrderMPID
  BY <1>6, <1>1 DEF AddOrder, AddOrderMPID
<1>7. CASE OrderExecuted \/ OrderExecutedPrice \/ OrderCancel
  BY <1>7, <1>2, <1>5 DEF OrderExecuted, OrderExecutedPrice, OrderCancel, SkipUnknown
<1>8. CASE OrderDelete
  BY <1>8, <1>3, <1>5 DEF OrderDelete, SkipUnknown
<1>9. CASE OrderReplace
  BY <1>9, <1>4, <1>5 DEF OrderReplace, SkipUnknown
<1>10. CASE StockDirectory \/ StockTradingAction \/ RegisterInstrument
  BY <1>10, <1>5 DEF StockDirectory, StockTradingAction, RegisterInstrument,
                   Directory, TradingAction
<1>11. CASE SetPipelineComplete
  BY <1>11, <1>5 DEF SetPipelineComplete, bookVars
<1>12. CASE UNCHANGED vars
  BY <1>12, <1>5 DEF vars
<1>13. QED
  BY <1>6, <1>7, <1>8, <1>9, <1>10, <1>11, <1>12 DEF Next

(* The cached top of every book is the best level there is, whatever the   *)
(* feed: no handler leaves best_bid or best_ask dangling or stale.         *)
THEOREM TopCorrect == Spec => []TopIsBest
<1>1. Init => TopIsBest
  BY DEF Init, EmptyMap, TopIsBest, PricesOf
<1>2. QED
  BY <1>1, Invariance, NextKeepsTop, PTL DEF Spec

----------------------------------------------------------------------------
(* A handler that touches the book of the only locate it adds to the index. *)
LEMMA TouchKeepsBooks ==
    ASSUME OrdersHaveBooks, NEW l, NEW t, TouchBook(l, t),
           \A r \in DOMAIN order_index' :
              \/ order_index'[r].stock_locate = l
              \/ /\ r \in DOMAIN order_index
                 /\ order_index'[r].stock_locate = order_index[r].stock_locate
    PROVE  OrdersHaveBooks'
<1>1. DOMAIN books' = DOMAIN books \cup {l}
  BY DEF TouchBook, Put
<1>2. DOMAIN instruments \cup {l} \subseteq DOMAIN instruments'
  BY DEF TouchBook, Put, OrdersHaveBooks
<1>3. QED
  BY <1>1, <1>2 DEF OrdersHaveBooks

(* No call lets an order rest without a book or a book without instrument. *)
LEMMA NextKeepsBooks == IInv /\ OrdersHaveBooks /\ [Next]_vars => OrdersHaveBooks'
<1> SUFFICES ASSUME IInv, OrdersHaveBooks, [Next]_vars PROVE OrdersHaveBooks'
  OBVIOUS
<1>1. ASSUME NEW l, NEW r, NEW s, NEW n, NEW p, NEW t, NEW a, Add(l, r, s, n, p, t, a)
      PROVE  OrdersHaveBooks'
  <2>1. TouchBook(l, t)
    BY <1>1 DEF Add
  <2>2. order_index' = Put(order_index, r, [shares |-> n, price |-> p, stock_locate |-> l,
                                            side |-> s, mpid |-> a])
    BY <1>1 DEF Add
  <2>3. QED
    BY <2>1, <2>2, TouchKeepsBooks DEF Put
<1>2. ASSUME NEW r, NEW n, NEW t, TakeShares(r, n, t)
      PROVE  OrdersHaveBooks'
  <2> DEFINE rec == order_index[r]
             after == ClampedSub(rec.shares, n)
  <2>1. /\ TouchBook(rec.stock_locate, t)
        /\ r \in DOMAIN order_index
        /\ order_index' = IF after = 0 THEN Erase(order_index, r)
                          ELSE Put(order_index, r, [rec EXCEPT !.shares = after])
    BY <1>2 DEF TakeShares
  <2>2. [rec EXCEPT !.shares = after].stock_locate = rec.stock_locate
    BY <2>1 DEF IInv, TypeOK, IsMap, OrderRecord
  <2> HIDE DEF after
  <2>3. QED
    BY <2>1, <2>2, TouchKeepsBooks DEF Put, Erase
<1>3. ASSUME NEW r, NEW t, Delete(r, t)
      PROVE  OrdersHaveBooks'
  BY <1>3, TouchKeepsBooks DEF Delete, Erase
<1>4. ASSUME NEW old, NEW new, NEW n, NEW p, NEW t, Replace(old, new, n, p, t)
      PROVE  OrdersHaveBooks'
  <2> DEFINE old_rec == order_index[old]
             rec == [old_rec EXCEPT !.shares = n, !.price = p]
  <2>1. /\ TouchBook(old_rec.stock_locate, t)
        /\ old \in DOMAIN order_index
        /\ order_index' = Put(Erase(order_index, old), new, rec)
    BY <1>4 DEF Replace
  <2>2. rec.stock_locate = old_rec.stock_locate
    BY <2>1 DEF IInv, TypeOK, IsMap, OrderRecord
  <2> HIDE DEF rec
  <2>3. QED
    BY <2>1, <2>2, TouchKeepsBooks DEF Put, Erase
<1>5. ASSUME order_index' = order_index, books' = books, DOMAIN instruments \subseteq DOMAIN instruments'
      PROVE  OrdersHaveBooks'
  BY <1>5 DEF OrdersHaveBooks
<1>6. CASE AddOrder \/ AddOrderMPID
  BY <1>6, <1>1 DEF AddOrder, AddOrderMPID
<1>7. CASE OrderExecuted \/ OrderExecutedPrice \/ OrderCancel
  BY <1>7, <1>2, <1>5 DEF OrderExecuted, OrderExecutedPrice, OrderCancel, SkipUnknown
<1>8. CASE OrderDelete
  BY <1>8, <1>3, <1>5 DEF OrderDelete, SkipUnknown
<1>9. CASE OrderReplace
  BY <1>9, <1>4, <1>5 DEF OrderReplace, SkipUnknown
<1>10. CASE StockDirectory \/ StockTradingAction \/ RegisterInstrument
  BY <1>10, <1>5 DEF StockDirectory, StockTradingAction, RegisterInstrument,
                   Directory, TradingAction, Put
<1>11. CASE SetPipelineComplete
  BY <1>11, <1>5 DEF SetPipelineComplete, bookVars
<1>12. CASE UNCHANGED vars
  BY <1>12, <1>5 DEF vars
<1>13. QED
  BY <1>6, <1>7, <1>8, <1>9, <1>10, <1>11, <1>12 DEF Next

(* Every resting order has a book and every book an instrument. *)
THEOREM BooksKnown == Spec => []OrdersHaveBooks
<1>1. Init => OrdersHaveBooks
  BY DEF Init, EmptyMap, OrdersHaveBooks
<1>2. QED
  BY <1>1, Invariance, NextKeepsBooks, PTL DEF Spec

----------------------------------------------------------------------------
(* RestingOrders and BookEngine mean the same by the notions of BookTypes. *)
LEMMA SameNotions ==
    /\ Resting!OrderRecord = OrderRecord /\ Resting!Uint32 = Uint32
    /\ Resting!EmptyMap = EmptyMap
    /\ \A f, x, v : Resting!Put(f, x, v) = Put(f, x, v)
    /\ \A f, x : Resting!Erase(f, x) = Erase(f, x)
    /\ \A idx : Resting!Aggregate(idx) = Aggregate(idx)
<1>1. /\ Resting!OrderRecord = OrderRecord /\ Resting!Uint32 = Uint32
      /\ Resting!EmptyMap = EmptyMap
  BY DEF Resting!OrderRecord, OrderRecord, Resting!NoMpid, NoMpid,
         Resting!Uint32, Uint32, Resting!EmptyMap, EmptyMap
<1>2. \A f, x, v : Resting!Put(f, x, v) = Put(f, x, v)
  BY DEF Resting!Put, Put
<1>3. \A f, x : Resting!Erase(f, x) = Erase(f, x)
  BY DEF Resting!Erase, Erase
<1>4. \A idx : Resting!Aggregate(idx) = Aggregate(idx)
  BY DEF Resting!Aggregate, Aggregate, Resting!OccupiedKeys, OccupiedKeys,
         Resting!UnitsAt, UnitsAt, Resting!OrdersAt, OrdersAt,
         Resting!KeyOf, KeyOf, Resting!BookSide, BookSide,
         Resting!Cardinality, Cardinality
<1>5. QED
  BY <1>1, <1>2, <1>3, <1>4

(* Every step of the engine changes the resting orders as RestingOrders    *)
(* allows, and leaves the levels the sum of the new orders.                *)
LEMMA StepRefines ==
    ASSUME UniqueRefs, IInv, IInv', [Next]_vars
    PROVE  [Resting!AbsNext]_(Resting!absVars)
<1>1. levels = Aggregate(order_index) /\ levels' = Aggregate(order_index')
  BY ExactIsAggregate DEF IInv, StateOK
<1>2. IsMap(order_index, Refs, OrderRecord)
  BY DEF IInv, TypeOK
<1>3. ASSUME order_index' = order_index
      PROVE  UNCHANGED Resting!absVars
  BY <1>1, <1>3 DEF Resting!absVars
<1>4. ASSUME NEW l \in Locates, NEW r \in Refs, NEW s \in Sides, NEW n \in ShareCounts, NEW p \in Prices,
             NEW t, NEW a \in {NoMpid} \cup Attributions, Add(l, r, s, n, p, t, a)
      PROVE  Resting!AbsNext
  <2> DEFINE rec == [shares |-> n, price |-> p, stock_locate |-> l, side |-> s, mpid |-> a]
  <2>1. rec \in OrderRecord
    BY SharesAssumption DEF OrderRecord, Uint32
  <2>2. r \notin DOMAIN order_index /\ order_index' = Put(order_index, r, rec)
    BY <1>4 DEF Add, MayName
  <2> HIDE DEF rec
  <2>3. Resting!Enter(r)
    BY <2>1, <2>2, SameNotions DEF Resting!Enter
  <2>4. QED
    BY <2>3, <1>1, SameNotions DEF Resting!AbsNext
<1>5. ASSUME NEW r \in Refs, NEW n \in ShareCounts, NEW t, TakeShares(r, n, t)
      PROVE  Resting!AbsNext \/ order_index' = order_index
  <2> DEFINE rec == order_index[r]
             after == ClampedSub(rec.shares, n)
  <2>1. /\ r \in DOMAIN order_index
        /\ order_index' = IF after = 0 THEN Erase(order_index, r)
                          ELSE Put(order_index, r, [rec EXCEPT !.shares = after])
    BY <1>5 DEF TakeShares
  <2>2. rec \in OrderRecord
    BY <2>1, <1>2 DEF IsMap
  <2>3. rec.shares \in Nat /\ n \in Nat
    BY <2>2, WidthAssumption, SharesAssumption DEF OrderRecord, Uint32
  <2>4. after \in Nat /\ after <= rec.shares
    BY <2>3 DEF ClampedSub
  <2> HIDE DEF after
  <2>5. CASE after = 0
    <3>1. Resting!Leave(r)
      BY <2>1, <2>5, SameNotions DEF Resting!Leave
    <3>2. QED
      BY <3>1, <2>1, <1>1, SameNotions DEF Resting!AbsNext
  <2>6. CASE after # 0
    <3>1. order_index' = Put(order_index, r, [rec EXCEPT !.shares = after])
      BY <2>1, <2>6
    <3>2. order_index' = [order_index EXCEPT ![r].shares = after]
      BY <3>1, <2>1, <1>2 DEF Put, IsMap
    <3>3. CASE after = rec.shares
      <4>1. [rec EXCEPT !.shares = after] = rec
        BY <3>3, <2>2 DEF OrderRecord
      <4>2. order_index' = order_index
        BY <4>1, <3>1, <2>1, <1>2 DEF Put, IsMap
      <4>3. QED
        BY <4>2
    <3>4. CASE after # rec.shares
      <4>1. after \in 1..(order_index[r].shares - 1)
        BY <3>4, <2>3, <2>4, <2>6
      <4>2. Resting!Shrink(r)
        BY <4>1, <3>2 DEF Resting!Shrink
      <4>3. QED
        BY <4>2, <2>1, <1>1, SameNotions DEF Resting!AbsNext
    <3>5. QED
      BY <3>3, <3>4
  <2>7. QED
    BY <2>5, <2>6
<1>6. ASSUME NEW r, NEW t, Delete(r, t)
      PROVE  Resting!AbsNext
  <2>1. r \in DOMAIN order_index /\ Resting!Leave(r)
    BY <1>6, SameNotions DEF Delete, Resting!Leave
  <2>2. QED
    BY <2>1, <1>1, SameNotions DEF Resting!AbsNext
<1>7. ASSUME NEW old, NEW new \in Refs, NEW n \in ShareCounts, NEW p \in Prices, NEW t,
             Replace(old, new, n, p, t)
      PROVE  Resting!AbsNext
  <2>1. /\ old \in DOMAIN order_index
        /\ new \notin DOMAIN order_index \ {old}
        /\ order_index' = Put(Erase(order_index, old), new,
                              [order_index[old] EXCEPT !.shares = n, !.price = p])
    BY <1>7 DEF Replace, MayName
  <2>2. n \in Uint32
    BY SharesAssumption DEF Uint32
  <2>3. Resting!Amend(old, new)
    BY <2>1, <2>2, SameNotions DEF Resting!Amend
  <2>4. QED
    BY <2>1, <2>3, <1>1, SameNotions DEF Resting!AbsNext
<1>8. CASE AddOrder
  BY <1>8, <1>4 DEF AddOrder
<1>9. CASE AddOrderMPID
  BY <1>9, <1>4, MpidType DEF AddOrderMPID
<1>10. CASE OrderExecuted \/ OrderExecutedPrice \/ OrderCancel
  BY <1>10, <1>3, <1>5 DEF OrderExecuted, OrderExecutedPrice, OrderCancel, SkipUnknown
<1>11. CASE OrderDelete
  BY <1>11, <1>3, <1>6 DEF OrderDelete, SkipUnknown
<1>12. CASE OrderReplace
  BY <1>12, <1>3, <1>7 DEF OrderReplace, SkipUnknown
<1>13. CASE StockDirectory \/ StockTradingAction \/ RegisterInstrument
  BY <1>13, <1>3 DEF StockDirectory, StockTradingAction, RegisterInstrument,
                   Directory, TradingAction
<1>14. CASE SetPipelineComplete
  BY <1>14, <1>3 DEF SetPipelineComplete, bookVars
<1>15. CASE UNCHANGED vars
  BY <1>15, <1>3 DEF vars
<1>16. QED
  BY <1>8, <1>9, <1>10, <1>11, <1>12, <1>13, <1>14, <1>15 DEF Next

(* With unique references the engine implements RestingOrders: the book it *)
(* maintains is at every step the sum of the orders, and the orders change *)
(* only by entering, shrinking, leaving and being amended.                 *)
THEOREM Refinement ==
    ASSUME UniqueRefs
    PROVE  Spec => ImplementsRestingOrders
<1>1. Init => Resting!AbsInit
  <2> SUFFICES ASSUME Init PROVE Resting!AbsInit
    OBVIOUS
  <2>1. levels = Aggregate(order_index)
    BY InitEstablishes, ExactIsAggregate DEF IInv, StateOK
  <2>2. QED
    BY <2>1, SameNotions DEF Init, Resting!AbsInit
<1>2. IInv /\ IInv' /\ [Next]_vars => [Resting!AbsNext]_(Resting!absVars)
  BY StepRefines
<1>3. QED
  BY <1>1, <1>2, Invariance, PTL DEF Spec, ImplementsRestingOrders, Resting!AbsSpec

----------------------------------------------------------------------------
(* Snapshots.  The REST layer reads one while the engine goes on, so what  *)
(* it shows is right for the message count it carries; the invariant says  *)
(* how far back that count may lie, and that a snapshot with the count of  *)
(* this moment is one build_snapshot would make of the state of this       *)
(* moment.                                                                 *)

Shot == IF published = NoSnapshot THEN 0 ELSE published.messages_processed

LagInv ==
    /\ Shot \in Nat
    /\ Shot <= messages_processed /\ messages_processed < Shot + SnapshotInterval
    /\ IF pipeline_complete THEN published # NoSnapshot /\ Shot = messages_processed
       ELSE Shot % SnapshotInterval = 0 /\ (published # NoSnapshot => Shot > 0)
    /\ published # NoSnapshot => published.pipeline_complete = pipeline_complete

CurrentInv ==
    published # NoSnapshot /\ published.messages_processed = messages_processed
    => published \in Snapshots(levels, books, instruments, messages_processed, pipeline_complete)

SnapInv == LagInv /\ CurrentInv

(* Between two multiples of a number lies none. *)
LEMMA NextMultiple ==
    ASSUME NEW d \in Nat \ {0}, NEW a \in Nat, a % d = 0
    PROVE  (a + d) % d = 0
<1> DEFINE q == a \div d
<1>1. q \in Int /\ a = d * q
  OBVIOUS
<1> HIDE DEF q
<1>2. a + d = d * (q + 1)
  BY <1>1
<1>3. QED
  BY <1>1, <1>2

(* What a snapshot holds, whatever order the hash maps are walked in. *)
LEMMA SnapshotHolds ==
    ASSUME NEW lv, NEW bks, NEW insts, NEW n, NEW c, NEW snap \in Snapshots(lv, bks, insts, n, c)
    PROVE  LET symbols == {insts[l].symbol : l \in DOMAIN insts}
               spellings == {Lower(s) : s \in symbols}
           IN  /\ snap # NoSnapshot
               /\ snap.messages_processed = n /\ snap.pipeline_complete = c
               /\ DOMAIN snap.books = symbols
               /\ \A s \in symbols : \E l \in Shown(bks, insts, s) :
                     snap.books[s] = BookSnapshot(lv, bks, insts, l)
               /\ DOMAIN snap.symbol_index = spellings
               /\ \A low \in spellings :
                     snap.symbol_index[low] \in symbols /\ Lower(snap.symbol_index[low]) = low
<1> DEFINE symbols == {insts[l].symbol : l \in DOMAIN insts}
           spellings == {Lower(s) : s \in symbols}
           Locate(s) == Shown(bks, insts, s)
           Spelled(low) == {s \in symbols : Lower(s) = low}
<1> DEFINE ats == Choices(symbols, Locate)
           canonicals == Choices(spellings, Spelled)
<1>a. Snapshots(lv, bks, insts, n, c) =
         {[messages_processed |-> n, pipeline_complete |-> c,
           books |-> [s \in symbols |-> BookSnapshot(lv, bks, insts, walk[1][s])],
           symbol_index |-> walk[2]] : walk \in ats \X canonicals}
  BY DEF Snapshots
<1>b. \A at \in ats : \A s \in symbols : at[s] \in Shown(bks, insts, s)
  BY DEF Choices
<1>c. \A canonical \in canonicals :
         /\ DOMAIN canonical = spellings
         /\ \A low \in spellings : canonical[low] \in Spelled(low)
  BY DEF Choices
<1> HIDE DEF ats, canonicals
<1>1. PICK walk \in ats \X canonicals :
         snap = [messages_processed |-> n, pipeline_complete |-> c,
                 books |-> [s \in symbols |-> BookSnapshot(lv, bks, insts, walk[1][s])],
                 symbol_index |-> walk[2]]
  BY <1>a
<1> DEFINE at == walk[1]
           canonical == walk[2]
<1>2. \A s \in symbols : at[s] \in Shown(bks, insts, s)
  BY <1>b
<1>3. /\ DOMAIN canonical = spellings
      /\ \A low \in spellings : canonical[low] \in Spelled(low)
  BY <1>c
<1>4. snap # NoSnapshot
  <2>1. "books" \in DOMAIN snap
    BY <1>1
  <2>2. DOMAIN NoSnapshot = {}
    BY DEF NoSnapshot, EmptyMap
  <2>3. QED
    BY <2>1, <2>2
<1>5. /\ snap.messages_processed = n /\ snap.pipeline_complete = c
      /\ snap.books = [s \in symbols |-> BookSnapshot(lv, bks, insts, at[s])]
      /\ snap.symbol_index = canonical
  BY <1>1
<1>6. QED
  BY <1>2, <1>3, <1>4, <1>5

(* Every call of apply() ends in Applied. *)
LEMMA CallsApply ==
    \/ AddOrder \/ AddOrderMPID \/ OrderExecuted \/ OrderExecutedPrice \/ OrderCancel
    \/ OrderDelete \/ OrderReplace \/ StockDirectory \/ StockTradingAction
    => Applied /\ Receiving
<1>1. AddOrder \/ AddOrderMPID => Applied /\ Receiving
  BY Zenon DEF AddOrder, AddOrderMPID, Add
<1>2. OrderExecuted \/ OrderExecutedPrice \/ OrderCancel => Applied /\ Receiving
  BY Zenon DEF OrderExecuted, OrderExecutedPrice, OrderCancel, TakeShares, SkipUnknown
<1>3. OrderDelete \/ OrderReplace => Applied /\ Receiving
  BY Zenon DEF OrderDelete, OrderReplace, Delete, Replace, SkipUnknown
<1>4. StockDirectory \/ StockTradingAction => Applied /\ Receiving
  BY Zenon DEF StockDirectory, StockTradingAction, Directory, TradingAction
<1>5. QED
  BY <1>1, <1>2, <1>3, <1>4

(* No call lets the snapshot fall an interval behind or describe a moment  *)
(* other than the one it counts.                                           *)
LEMMA NextKeepsSnapshots == IInv /\ SnapInv /\ [Next]_vars => SnapInv'
<1> SUFFICES ASSUME IInv, SnapInv, [Next]_vars PROVE SnapInv'
  OBVIOUS
<1>1. /\ messages_processed \in Nat /\ pipeline_complete \in BOOLEAN
      /\ SnapshotInterval \in Nat \ {0}
  BY IntervalAssumption, FeedAssumption DEF IInv, TypeOK
<1>2. ASSUME NEW n, NEW c, Published(n, c)
      PROVE  /\ published' # NoSnapshot
             /\ published'.messages_processed = n /\ published'.pipeline_complete = c
             /\ published' \in Snapshots(levels', books', instruments', n, c)
  BY <1>2, SnapshotHolds DEF Published
<1>3. CASE Applied /\ Receiving
  <2>1. /\ messages_processed' = messages_processed + 1
        /\ ~pipeline_complete /\ ~pipeline_complete'
    BY <1>3 DEF Applied, Receiving
  <2>2. CASE (messages_processed + 1) % SnapshotInterval = 0
    <3>1. Published(messages_processed + 1, pipeline_complete)
      BY <1>3, <2>2 DEF Applied
    <3>2. /\ published' # NoSnapshot
          /\ published'.messages_processed = messages_processed'
          /\ published'.pipeline_complete = pipeline_complete'
          /\ published' \in Snapshots(levels', books', instruments', messages_processed', pipeline_complete')
      BY <3>1, <1>2, <1>3, <2>1 DEF Applied
    <3>3. CurrentInv'
      BY <3>2 DEF CurrentInv
    <3>4. Shot' = messages_processed'
      BY <3>2 DEF Shot
    <3>5. LagInv'
      BY <1>1, <2>1, <2>2, <3>2, <3>4 DEF LagInv
    <3>6. QED
      BY <3>3, <3>5 DEF SnapInv
  <2>3. CASE (messages_processed + 1) % SnapshotInterval # 0
    <3>1. published' = published
      BY <1>3, <2>3 DEF Applied
    <3>2. Shot' = Shot
      BY <3>1 DEF Shot
    <3>3. /\ Shot \in Nat /\ Shot <= messages_processed
          /\ messages_processed < Shot + SnapshotInterval
          /\ Shot % SnapshotInterval = 0 /\ (published # NoSnapshot => Shot > 0)
          /\ published # NoSnapshot => published.pipeline_complete = pipeline_complete
      BY <2>1 DEF SnapInv, LagInv
    <3>4. messages_processed + 1 # Shot + SnapshotInterval
      BY <1>1, <2>3, <3>3, NextMultiple
    <3>5. messages_processed' < Shot' + SnapshotInterval /\ Shot' <= messages_processed'
      BY <1>1, <2>1, <3>2, <3>3, <3>4
    <3>6. LagInv'
      <4>1. /\ Shot' \in Nat /\ Shot' % SnapshotInterval = 0
            /\ published' # NoSnapshot => Shot' > 0
        BY <3>1, <3>2, <3>3
      <4>2. published' # NoSnapshot => published'.pipeline_complete = pipeline_complete'
        BY <1>3, <3>1, <3>3 DEF Applied
      <4>3. QED
        BY <2>1, <3>5, <4>1, <4>2, Zenon DEF LagInv
    <3>7. published' # NoSnapshot => published'.messages_processed # messages_processed'
      BY <1>1, <2>1, <3>1, <3>3 DEF Shot
    <3>8. QED
      BY <3>6, <3>7 DEF SnapInv, CurrentInv
  <2>4. QED
    BY <2>2, <2>3
<1>4. CASE RegisterInstrument
  <2>1. /\ messages_processed = 0 /\ ~pipeline_complete
        /\ messages_processed' = messages_processed /\ published' = published
        /\ pipeline_complete' = pipeline_complete
    BY <1>4 DEF RegisterInstrument
  <2>2. LagInv'
    BY <2>1 DEF SnapInv, LagInv, Shot
  <2>3. published = NoSnapshot
    BY <1>1, <2>1 DEF SnapInv, LagInv
  <2>4. QED
    BY <2>1, <2>2, <2>3 DEF SnapInv, CurrentInv
<1>5. CASE SetPipelineComplete
  <2>1. /\ messages_processed' = messages_processed /\ pipeline_complete' = TRUE
        /\ Published(messages_processed, TRUE)
    BY <1>5 DEF SetPipelineComplete
  <2>2. /\ published' # NoSnapshot
        /\ published'.messages_processed = messages_processed'
        /\ published'.pipeline_complete = pipeline_complete'
        /\ published' \in Snapshots(levels', books', instruments', messages_processed', pipeline_complete')
    BY <2>1, <1>2
  <2>3. Shot' = messages_processed'
    BY <2>2 DEF Shot
  <2>4. LagInv'
    BY <1>1, <2>1, <2>2, <2>3 DEF LagInv
  <2>5. QED
    BY <2>2, <2>4 DEF SnapInv, CurrentInv
<1>6. CASE UNCHANGED vars
  BY <1>6 DEF vars, SnapInv, LagInv, CurrentInv, Shot
<1>7. QED
  BY <1>3, <1>4, <1>5, <1>6, CallsApply DEF Next

(* Before the first message there is no snapshot. *)
LEMMA InitSnapshots == Init => SnapInv
<1> SUFFICES ASSUME Init PROVE SnapInv
  OBVIOUS
<1>1. /\ published = NoSnapshot /\ messages_processed = 0 /\ pipeline_complete = FALSE
      /\ SnapshotInterval \in Nat \ {0}
  BY IntervalAssumption DEF Init
<1>2. Shot = 0
  BY <1>1 DEF Shot
<1>3. Shot % SnapshotInterval = 0
  BY <1>1, <1>2
<1>4. QED
  BY <1>1, <1>2, <1>3 DEF SnapInv, LagInv, CurrentInv

(* The inductive invariant of the snapshots holds always. *)
THEOREM SnapshotInvariance == Spec => []SnapInv
BY InitSnapshots, Invariance, NextKeepsSnapshots, PTL DEF Spec

(* The REST layer is never SnapshotInterval or more messages behind,       *)
(* whatever mix of applied, skipped and ignored messages comes.            *)
THEOREM LagBounded == Spec => []SnapshotLag
<1>1. IInv /\ SnapInv => SnapshotLag
  <2> SUFFICES ASSUME IInv, SnapInv PROVE SnapshotLag
    OBVIOUS
  <2>1. messages_processed \in Nat /\ SnapshotInterval \in Nat /\ Shot \in Nat
    BY IntervalAssumption, FeedAssumption DEF IInv, TypeOK, SnapInv, LagInv
  <2>2. Shot <= messages_processed /\ messages_processed < Shot + SnapshotInterval
    BY DEF SnapInv, LagInv
  <2>3. messages_processed - Shot \in 0..(SnapshotInterval - 1)
    BY <2>1, <2>2
  <2>4. QED
    BY <2>3 DEF SnapshotLag, Shot
<1>2. QED
  BY <1>1, Invariance, SnapshotInvariance, PTL

(* After set_pipeline_complete the served snapshot says complete and counts *)
(* every message, and no earlier one says complete.                        *)
THEOREM FinalIsServed == Spec => []FinalSnapshot
<1>1. IInv /\ SnapInv => FinalSnapshot
  <2> SUFFICES ASSUME IInv, SnapInv, published # NoSnapshot \/ pipeline_complete
               PROVE  /\ published.pipeline_complete = pipeline_complete
                      /\ pipeline_complete => published.messages_processed = messages_processed
    BY DEF FinalSnapshot
  <2>1. published # NoSnapshot
    BY DEF SnapInv, LagInv
  <2>2. Shot = published.messages_processed
    BY <2>1 DEF Shot
  <2>3. QED
    BY <2>1, <2>2 DEF SnapInv, LagInv
<1>2. QED
  BY <1>1, Invariance, SnapshotInvariance, PTL

----------------------------------------------------------------------------
RawPrice(entry) == entry.dollars * 10000 + entry.fraction

(* A function with the domain of a sequence. *)
IsList(list) == \E n \in Nat : DOMAIN list = 1..n /\ list = [i \in 1..n |-> list[i]]

(* build_snapshot lists every price of a ladder once, each strictly worse  *)
(* than the one before, with the counts of its level; splitting a price in *)
(* dollars and fraction loses nothing.                                     *)
LEMMA LadderListed ==
    ASSUME NEW lv, NEW l, NEW ladder
    PROVE  LET list == LadderSnapshot(lv, l, ladder)
           IN  /\ \A i \in DOMAIN list :
                     LET p == RawPrice(list[i])
                     IN  /\ p \in PricesOf(lv, l, ladder)
                         /\ list[i].total_shares = lv[<<l, ladder, p>>].total_shares
                         /\ list[i].order_count = lv[<<l, ladder, p>>].order_count
               /\ IsList(list)
               /\ \A i, j \in DOMAIN list : i < j => Before(ladder, RawPrice(list[i]), RawPrice(list[j]))
               /\ {RawPrice(list[i]) : i \in DOMAIN list} = PricesOf(lv, l, ladder)
<1> DEFINE prices == PricesOf(lv, l, ladder)
           R == {z \in prices \X prices : Before(ladder, z[1], z[2])}
           ranked == Ranked(prices, R)
           list == LadderSnapshot(lv, l, ladder)
<1>1. prices \in SUBSET Prices /\ \A p \in prices : p \in Nat
  BY PricesAssumption DEF PricesOf
<1>2. IsFiniteSet(prices)
  BY <1>1, PricesAssumption, FS_Subset
<1> HIDE DEF prices
<1>3. StrictOrder(prices, R)
  BY <1>1 DEF StrictOrder, Before
<1>4. \A p \in prices : RankIn(prices, R, p) = 1 + Cardinality({q \in prices : Before(ladder, q, p)})
  <2> TAKE p \in prices
  <2>1. AheadIn(prices, R, p) = {q \in prices : Before(ladder, q, p)}
    BY DEF AheadIn
  <2>2. QED
    BY <2>1 DEF RankIn
<1>5. /\ Cardinality(prices) \in Nat /\ DOMAIN ranked = 1..Cardinality(prices)
      /\ \A i \in 1..Cardinality(prices) : ranked[i] \in prices
      /\ \A p \in prices : /\ RankIn(prices, R, p) \in 1..Cardinality(prices)
                           /\ ranked[RankIn(prices, R, p)] = p
      /\ \A i, j \in 1..Cardinality(prices) : i < j => <<ranked[i], ranked[j]>> \in R
  <2> HIDE DEF R
  <2>1. QED
    BY <1>2, <1>3, RankedProperties
<1>a. \A i \in 1..Cardinality(prices) : RankIn(prices, R, ranked[i]) = i
  <2> HIDE DEF R
  <2>1. QED
    BY <1>2, <1>3, RankedProperties
<1>6. DOMAIN list = 1..Cardinality(prices)
  BY DEF LadderSnapshot, prices
<1> DEFINE Rank(p) == 1 + Cardinality({q \in prices : Before(ladder, q, p)})
           at == [i \in 1..Cardinality(prices) |-> CHOOSE p \in prices : Rank(p) = i]
<1>7. \A i \in 1..Cardinality(prices) : at[i] = ranked[i]
  <2> TAKE i \in 1..Cardinality(prices)
  <2> HIDE DEF R, ranked
  <2>1. \E p \in prices : Rank(p) = i
    <3>1. ranked[i] \in prices
      BY <1>5
    <3>2. RankIn(prices, R, ranked[i]) = i
      BY <3>1, <1>a
    <3>3. QED
      BY <3>1, <3>2, <1>4
  <2>2. at[i] \in prices /\ Rank(at[i]) = i
    BY <2>1
  <2> HIDE DEF at
  <2>3. RankIn(prices, R, at[i]) = i
    BY <2>2, <1>4
  <2>4. QED
    BY <2>2, <2>3, <1>5
<1>8. \A i \in 1..Cardinality(prices) :
         list[i] = [dollars |-> at[i] \div 10000, fraction |-> at[i] % 10000,
                    total_shares |-> lv[<<l, ladder, at[i]>>].total_shares,
                    order_count |-> lv[<<l, ladder, at[i]>>].order_count]
  BY DEF LadderSnapshot, prices
<1> HIDE DEF ranked, list, at
<1>9. ASSUME NEW i \in DOMAIN list
      PROVE  /\ RawPrice(list[i]) = ranked[i] /\ ranked[i] \in prices
             /\ list[i].total_shares = lv[<<l, ladder, ranked[i]>>].total_shares
             /\ list[i].order_count = lv[<<l, ladder, ranked[i]>>].order_count
  <2>1. ranked[i] \in prices
    BY <1>5, <1>6
  <2>2. ranked[i] \in Nat
    BY <1>1, <2>1
  <2>3. /\ list[i].dollars = ranked[i] \div 10000 /\ list[i].fraction = ranked[i] % 10000
        /\ list[i].total_shares = lv[<<l, ladder, ranked[i]>>].total_shares
        /\ list[i].order_count = lv[<<l, ladder, ranked[i]>>].order_count
    BY <1>6, <1>7, <1>8
  <2>4. (ranked[i] \div 10000) * 10000 + (ranked[i] % 10000) = ranked[i]
    BY <2>2
  <2>5. QED
    BY <2>1, <2>3, <2>4 DEF RawPrice
<1>10. ASSUME NEW i \in DOMAIN list, NEW j \in DOMAIN list, i < j
       PROVE  Before(ladder, RawPrice(list[i]), RawPrice(list[j]))
  <2>1. <<ranked[i], ranked[j]>> \in R
    BY <1>5, <1>6, <1>10
  <2>2. Before(ladder, ranked[i], ranked[j])
    BY <2>1
  <2>3. QED
    BY <2>2, <1>9
<1>11. {RawPrice(list[i]) : i \in DOMAIN list} = prices
  <2>1. ASSUME NEW p \in prices
        PROVE  \E i \in DOMAIN list : RawPrice(list[i]) = p
    <3> DEFINE i == RankIn(prices, R, p)
    <3>1. i \in DOMAIN list /\ ranked[i] = p
      BY <1>5, <1>6
    <3> HIDE DEF i
    <3>2. QED
      BY <3>1, <1>9
  <2>2. QED
    BY <2>1, <1>9
<1>12. \A i \in DOMAIN list :
          /\ RawPrice(list[i]) \in prices
          /\ list[i].total_shares = lv[<<l, ladder, RawPrice(list[i])>>].total_shares
          /\ list[i].order_count = lv[<<l, ladder, RawPrice(list[i])>>].order_count
  BY <1>9
<1>13. IsList(list)
  <2>1. list = [i \in 1..Cardinality(prices) |-> list[i]]
    BY DEF list, LadderSnapshot, prices
  <2>2. QED
    BY <2>1, <1>5, <1>6 DEF IsList
<1>14. QED
  BY <1>10, <1>11, <1>12, <1>13 DEF prices, list

(* The list of a ladder in the snapshot of a book, and the empty list of   *)
(* an instrument without one.                                              *)
Listed(list, lv, l, ladder) ==
    /\ IsList(list)
    /\ \A i \in DOMAIN list :
          /\ RawPrice(list[i]) \in PricesOf(lv, l, ladder)
          /\ list[i].total_shares = lv[<<l, ladder, RawPrice(list[i])>>].total_shares
          /\ list[i].order_count = lv[<<l, ladder, RawPrice(list[i])>>].order_count
    /\ \A i, j \in DOMAIN list : i < j => Before(ladder, RawPrice(list[i]), RawPrice(list[j]))
    /\ {RawPrice(list[i]) : i \in DOMAIN list} = PricesOf(lv, l, ladder)

(* An instrument's book snapshot lists both its ladders. *)
LEMMA BookListed ==
    ASSUME TopIsBest, NEW l \in Locates
    PROVE  LET b == BookSnapshot(levels, books, instruments, l)
           IN  /\ b.stock_locate = l
               /\ Listed(b.bids, levels, l, "bids") /\ Listed(b.asks, levels, l, "asks")
<1> DEFINE b == BookSnapshot(levels, books, instruments, l)
<1>1. /\ b.stock_locate = l
      /\ b.bids = IF l \in DOMAIN books THEN LadderSnapshot(levels, l, "bids") ELSE <<>>
      /\ b.asks = IF l \in DOMAIN books THEN LadderSnapshot(levels, l, "asks") ELSE <<>>
  BY DEF BookSnapshot
<1>2. ASSUME NEW ladder \in BookSides, NEW list,
             list = IF l \in DOMAIN books THEN LadderSnapshot(levels, l, ladder) ELSE <<>>
      PROVE  Listed(list, levels, l, ladder)
  <2>1. CASE l \in DOMAIN books
    <3>1. list = LadderSnapshot(levels, l, ladder)
      BY <1>2, <2>1
    <3>2. QED
      BY <3>1, LadderListed DEF Listed
  <2>2. CASE l \notin DOMAIN books
    <3>1. DOMAIN list = {}
      BY <1>2, <2>2
    <3>2. PricesOf(levels, l, ladder) = {}
      BY <2>2 DEF TopIsBest
    <3>3. IsList(list)
      <4>1. list = [i \in 1..0 |-> list[i]]
        BY <1>2, <2>2
      <4>2. QED
        BY <4>1 DEF IsList
    <3>4. QED
      BY <3>1, <3>2, <3>3 DEF Listed
  <2>3. QED
    BY <2>1, <2>2
<1>3. "bids" \in BookSides /\ "asks" \in BookSides
  BY DEF BookSides
<1> HIDE DEF b
<1>4. Listed(b.bids, levels, l, "bids") /\ Listed(b.asks, levels, l, "asks")
  BY <1>1, <1>2, <1>3
<1>5. QED
  BY <1>1, <1>4 DEF b

(* Which instrument a symbol stands for in a snapshot. *)
LEMMA ShownIsNamed ==
    ASSUME OrdersHaveBooks, NEW s, NEW l \in Shown(books, instruments, s)
    PROVE  /\ l \in DOMAIN instruments /\ instruments[l].symbol = s
           /\ l \notin DOMAIN books => \A m \in DOMAIN books : instruments[m].symbol # s
<1> DEFINE named == {m \in DOMAIN instruments : instruments[m].symbol = s}
<1>1. CASE named \cap DOMAIN books = {}
  <2>1. l \in named
    BY <1>1 DEF Shown
  <2>2. \A m \in DOMAIN books : m \notin named /\ m \in DOMAIN instruments
    BY <1>1 DEF OrdersHaveBooks
  <2>3. QED
    BY <2>1, <2>2
<1>2. CASE named \cap DOMAIN books # {}
  <2>1. l \in named /\ l \in DOMAIN books
    BY <1>2 DEF Shown
  <2>2. QED
    BY <2>1
<1>3. QED
  BY <1>1, <1>2

(* A snapshot of this moment resolves every symbol and every spelling to   *)
(* the ladders of one instrument of that symbol, with a book if any has.   *)
THEOREM SymbolsCorrect == Spec => []SymbolsResolve
<1>1. IInv /\ TopIsBest /\ OrdersHaveBooks /\ SnapInv => SymbolsResolve
  <2> SUFFICES ASSUME IInv, TopIsBest, OrdersHaveBooks, SnapInv, published # NoSnapshot,
                      published.messages_processed = messages_processed
               PROVE  SymbolsResolve
    BY DEF SymbolsResolve
  <2> DEFINE symbols == {instruments[l].symbol : l \in DOMAIN instruments}
             spellings == {Lower(s) : s \in symbols}
  <2>1. published \in Snapshots(levels, books, instruments, messages_processed, pipeline_complete)
    BY DEF SnapInv, CurrentInv
  <2>2. /\ DOMAIN published.books = symbols
        /\ \A s \in symbols : \E l \in Shown(books, instruments, s) :
              published.books[s] = BookSnapshot(levels, books, instruments, l)
        /\ DOMAIN published.symbol_index = spellings
        /\ \A low \in spellings :
              /\ published.symbol_index[low] \in symbols
              /\ Lower(published.symbol_index[low]) = low
    BY <2>1, SnapshotHolds
  <2>3. DOMAIN instruments \subseteq Locates
    BY DEF IInv, TypeOK, IsMap
  <2>4. ASSUME NEW s \in symbols
        PROVE  ResolvesTo(s, published.books[s]) /\ Lower(s) \in DOMAIN published.symbol_index
    <3>1. PICK l \in Shown(books, instruments, s) :
             published.books[s] = BookSnapshot(levels, books, instruments, l)
      BY <2>2
    <3>2. /\ l \in DOMAIN instruments /\ instruments[l].symbol = s
          /\ l \notin DOMAIN books => \A m \in DOMAIN books : instruments[m].symbol # s
      BY ShownIsNamed
    <3>3. /\ published.books[s].stock_locate = l
          /\ Listed(published.books[s].bids, levels, l, "bids")
          /\ Listed(published.books[s].asks, levels, l, "asks")
      BY <2>3, <3>1, <3>2, BookListed
    <3>4. Lower(s) \in DOMAIN published.symbol_index
      BY <2>2
    <3>5. QED
      BY <3>2, <3>3, <3>4 DEF Listed, RawPrice, ResolvesTo
  <2>5. \A low \in DOMAIN published.symbol_index :
           LET s == published.symbol_index[low]
           IN  s \in DOMAIN published.books /\ Lower(s) = low
    BY <2>2
  <2> HIDE DEF symbols
  <2>6. \A s \in DOMAIN published.books :
           ResolvesTo(s, published.books[s]) /\ Lower(s) \in DOMAIN published.symbol_index
    BY <2>2, <2>4
  <2>7. DOMAIN published.books = {instruments[l].symbol : l \in DOMAIN instruments}
    BY <2>2 DEF symbols
  <2>8. QED
    BY <2>5, <2>6, <2>7, Zenon DEF SymbolsResolve
<1>2. QED
  BY <1>1, Invariance, TopCorrect, BooksKnown, SnapshotInvariance, PTL

(* What a listed ladder says of the orders, when the levels are exact. *)
LEMMA ListedShows ==
    ASSUME IInv, UniqueRefs, NEW list, NEW l \in Locates, NEW ladder \in BookSides,
           Listed(list, levels, l, ladder)
    PROVE  ShowsLadder(list, l, ladder)
<1> DEFINE raw == [i \in DOMAIN list |-> list[i].dollars * 10000 + list[i].fraction]
           At(i) == <<l, ladder, raw[i]>>
<1>1. /\ levels = Aggregate(order_index) /\ IsMap(levels, LevelKeys, PriceLevel)
  BY ExactIsAggregate DEF IInv, StateOK
<1>2. DOMAIN levels = OccupiedKeys(order_index)
  BY <1>1 DEF Aggregate
<1>3. \A k \in DOMAIN levels : /\ levels[k].order_count = Cardinality(OrdersAt(order_index, k))
                              /\ levels[k].total_shares = Cardinality(UnitsAt(order_index, k))
  BY <1>1 DEF Aggregate
<1>4. ASSUME NEW i \in DOMAIN list
      PROVE  /\ raw[i] = RawPrice(list[i]) /\ raw[i] \in Prices
             /\ At(i) \in DOMAIN levels
             /\ list[i].order_count = Cardinality(OrdersAt(order_index, At(i)))
             /\ list[i].total_shares = Cardinality(UnitsAt(order_index, At(i)))
  <2>1. raw[i] = RawPrice(list[i])
    BY DEF RawPrice
  <2>2. /\ raw[i] \in PricesOf(levels, l, ladder)
        /\ list[i].total_shares = levels[At(i)].total_shares
        /\ list[i].order_count = levels[At(i)].order_count
    BY <2>1 DEF Listed
  <2> HIDE DEF raw
  <2>3. raw[i] \in Prices /\ At(i) \in DOMAIN levels
    BY <2>2 DEF PricesOf
  <2>4. QED
    BY <1>3, <2>1, <2>2, <2>3
<1>5. \A i, j \in DOMAIN list : i < j => Before(ladder, raw[i], raw[j])
  <2> HIDE DEF raw
  <2>1. \A i \in DOMAIN list : raw[i] = RawPrice(list[i])
    BY <1>4
  <2>2. QED
    BY <2>1 DEF Listed
<1>6. {At(i) : i \in DOMAIN list} = {k \in OccupiedKeys(order_index) : k[1] = l /\ k[2] = ladder}
  <2>1. ASSUME NEW k \in OccupiedKeys(order_index), k[1] = l, k[2] = ladder
        PROVE  \E i \in DOMAIN list : k = At(i)
    <3>1. k \in LevelKeys /\ k \in DOMAIN levels
      BY <1>1, <1>2 DEF IsMap
    <3>2. k = <<l, ladder, k[3]>> /\ k[3] \in Prices
      BY <2>1, <3>1 DEF LevelKeys
    <3>3. k[3] \in PricesOf(levels, l, ladder)
      BY <3>1, <3>2 DEF PricesOf
    <3>4. PICK i \in DOMAIN list : RawPrice(list[i]) = k[3]
      BY <3>3 DEF Listed
    <3> HIDE DEF raw
    <3>5. raw[i] = k[3]
      BY <1>4, <3>4
    <3>6. QED
      BY <3>2, <3>5
  <2>2. \A i \in DOMAIN list : /\ At(i) \in OccupiedKeys(order_index)
                              /\ At(i)[1] = l /\ At(i)[2] = ladder
    BY <1>2, <1>4
  <2> HIDE DEF At
  <2>3. QED
    BY <2>1, <2>2
<1>7. \A i \in DOMAIN list :
         /\ list[i].order_count = Cardinality(OrdersAt(order_index, At(i)))
         /\ list[i].total_shares = Cardinality(UnitsAt(order_index, At(i)))
  BY <1>4
<1>8. QED
  BY <1>5, <1>6, <1>7 DEF ShowsLadder

(* A snapshot of this moment shows, for every instrument with a symbol of  *)
(* its own, exactly the resting orders' prices, best first, with their     *)
(* numbers and shares.                                                     *)
THEOREM SnapshotCorrect == Spec => []SnapshotShowsOrders
<1>1. IInv /\ TopIsBest /\ OrdersHaveBooks /\ SnapInv => SnapshotShowsOrders
  <2> SUFFICES ASSUME IInv, TopIsBest, OrdersHaveBooks, SnapInv, UniqueRefs,
                      published # NoSnapshot,
                      published.messages_processed = messages_processed,
                      NEW l \in DOMAIN instruments,
                      \A m \in DOMAIN instruments \ {l} :
                         instruments[m].symbol # instruments[l].symbol
               PROVE  LET shown == published.books[instruments[l].symbol]
                      IN  ShowsLadder(shown.bids, l, "bids") /\ ShowsLadder(shown.asks, l, "asks")
    BY DEF SnapshotShowsOrders
  <2> DEFINE s == instruments[l].symbol
  <2>1. published \in Snapshots(levels, books, instruments, messages_processed, pipeline_complete)
    BY DEF SnapInv, CurrentInv
  <2>2. PICK m \in Shown(books, instruments, s) :
           published.books[s] = BookSnapshot(levels, books, instruments, m)
    BY <2>1, SnapshotHolds
  <2>3. m = l
    BY ShownIsNamed
  <2>4. l \in Locates /\ "bids" \in BookSides /\ "asks" \in BookSides
    BY DEF IInv, TypeOK, IsMap, BookSides
  <2>5. /\ Listed(published.books[s].bids, levels, l, "bids")
        /\ Listed(published.books[s].asks, levels, l, "asks")
    BY <2>2, <2>3, <2>4, BookListed
  <2>6. QED
    BY <2>4, <2>5, ListedShows
<1>2. QED
  BY <1>1, Invariance, TopCorrect, BooksKnown, SnapshotInvariance, PTL

============================================================================
