------------------------- MODULE EngineFeedsProofs -------------------------
(***************************************************************************)
(* What the engine makes of the feeds that keep to a plan.                 *)
(*                                                                         *)
(* A feed with gaps, for every set of orders, every number of messages and *)
(* every pattern of loss.  The properties of GapFeed are not inductive     *)
(* alone: that a lost add leaves no order behind under a new reference     *)
(* needs the index to know only references given out, and that a fill      *)
(* takes the same off both sides needs the records typed and not empty.    *)
(*                                                                         *)
(* The benchmarks, for every number of orders, shares and iterations: what *)
(* rests is a function of the number of the iteration, and of the mixed    *)
(* workload: every round lies on top of what the rounds before have left.  *)
(***************************************************************************)
EXTENDS EngineFeeds, BookEngineProofs, SequenceTheorems

----------------------------------------------------------------------------
(* The feed with gaps *)

(* What rests at the exchange, and what the engine can have of it. *)
TrueOrder == [shares : Nat \ {0}, price : Prices]
HeardOrder == [shares : Nat \ {0}, price : Prices, stock_locate : Locates,
               side : Sides, mpid : {NoMpid}]

Overstated(index, orders) ==
    \A r \in DOMAIN index \cap DOMAIN orders :
        index[r].shares >= orders[r].shares /\ index[r].price = orders[r].price

Same(index, orders) ==
    /\ DOMAIN index = DOMAIN orders
    /\ \A r \in DOMAIN orders : index[r].shares = orders[r].shares

(* The inductive invariant, of the state of engine and exchange. *)
Tracks(index, orders, given, gaps, skipped, corrupt) ==
    /\ IsMap(index, given, HeardOrder)
    /\ IsMap(orders, given, TrueOrder)
    /\ Overstated(index, orders)
    /\ corrupt = 0
    /\ gaps \in Nat
    /\ gaps = 0 => Same(index, orders) /\ skipped = 0

GapInv == Tracks(order_index, truth, used, lost, skipped_unknown_ref, corrupt_messages)

----------------------------------------------------------------------------
(* The quantities of an add or a replace are positive numbers. *)
LEMMA PositiveShares ==
    ASSUME NEW n \in ShareCounts \ {0}
    PROVE  n \in Nat \ {0}
BY SharesAssumption, WidthAssumption

(* A new order, heard or lost. *)
LEMMA PlaceKeepsTrack ==
    ASSUME NEW index, NEW orders, NEW given, NEW gaps, NEW skipped, NEW corrupt,
           Tracks(index, orders, given, gaps, skipped, corrupt),
           NEW r, r \notin given, NEW new \in TrueOrder, NEW rec \in HeardOrder,
           rec.shares = new.shares, rec.price = new.price
    PROVE  /\ Tracks(Put(index, r, rec), Put(orders, r, new), given \cup {r},
                     gaps, skipped, corrupt)
           /\ Tracks(index, Put(orders, r, new), given \cup {r}, gaps + 1, skipped, corrupt)
<1> DEFINE i == Put(index, r, rec)
           o == Put(orders, r, new)
<1>1. /\ IsMap(index, given, HeardOrder) /\ IsMap(orders, given, TrueOrder)
      /\ Overstated(index, orders) /\ corrupt = 0 /\ gaps \in Nat
      /\ gaps = 0 => Same(index, orders) /\ skipped = 0
  BY DEF Tracks
<1>2. /\ IsMap(i, given \cup {r}, HeardOrder) /\ IsMap(o, given \cup {r}, TrueOrder)
      /\ DOMAIN i = DOMAIN index \cup {r} /\ DOMAIN o = DOMAIN orders \cup {r}
      /\ i[r] = rec /\ o[r] = new
      /\ \A y \in DOMAIN index : y # r => i[y] = index[y]
      /\ \A y \in DOMAIN orders : y # r => o[y] = orders[y]
  <2>1. /\ IsMap(i, given \cup {r}, HeardOrder)
        /\ DOMAIN i = DOMAIN index \cup {r}
        /\ i[r] = rec /\ \A y \in DOMAIN index : y # r => i[y] = index[y]
    BY <1>1 DEF Put, IsMap
  <2>2. /\ IsMap(o, given \cup {r}, TrueOrder)
        /\ DOMAIN o = DOMAIN orders \cup {r}
        /\ o[r] = new /\ \A y \in DOMAIN orders : y # r => o[y] = orders[y]
    BY <1>1 DEF Put, IsMap
  <2>3. QED
    BY <2>1, <2>2
<1>3. r \notin DOMAIN index /\ r \notin DOMAIN orders /\ IsMap(index, given \cup {r}, HeardOrder)
  BY <1>1 DEF IsMap
<1> HIDE DEF i, o
<1>4. new.shares \in Nat
  BY DEF TrueOrder
<1>5. Overstated(i, o)
  BY <1>1, <1>2, <1>3, <1>4 DEF Overstated
<1>6. Overstated(index, o)
  BY <1>1, <1>2, <1>3 DEF Overstated
<1>7. Same(index, orders) => Same(i, o)
  BY <1>2, <1>3 DEF Same
<1>8. gaps + 1 \in Nat /\ gaps + 1 # 0
  BY <1>1
<1>9. Tracks(i, o, given \cup {r}, gaps, skipped, corrupt)
  BY <1>1, <1>2, <1>5, <1>7 DEF Tracks
<1>10. Tracks(index, o, given \cup {r}, gaps + 1, skipped, corrupt)
  BY <1>1, <1>2, <1>3, <1>6, <1>8 DEF Tracks
<1>11. QED
  BY <1>9, <1>10 DEF i, o

(* An order that leaves the exchange, and leaves the engine too, was not   *)
(* in the engine, or stays there because the message is lost.              *)
LEMMA LeaveKeepsTrack ==
    ASSUME NEW index, NEW orders, NEW given, NEW gaps, NEW skipped, NEW corrupt,
           Tracks(index, orders, given, gaps, skipped, corrupt), NEW r \in DOMAIN orders
    PROVE  /\ Tracks(Erase(index, r), Erase(orders, r), given, gaps, skipped, corrupt)
           /\ Tracks(index, Erase(orders, r), given, gaps + 1, skipped, corrupt)
           /\ \A s : r \notin DOMAIN index =>
                 Tracks(index, Erase(orders, r), given, gaps, s, corrupt)
<1> DEFINE i == Erase(index, r)
           o == Erase(orders, r)
<1>1. /\ IsMap(index, given, HeardOrder) /\ IsMap(orders, given, TrueOrder)
      /\ Overstated(index, orders) /\ corrupt = 0 /\ gaps \in Nat
      /\ gaps = 0 => Same(index, orders) /\ skipped = 0
  BY DEF Tracks
<1>2. /\ IsMap(i, given, HeardOrder) /\ IsMap(o, given, TrueOrder)
      /\ DOMAIN i = DOMAIN index \ {r} /\ DOMAIN o = DOMAIN orders \ {r}
      /\ \A y \in DOMAIN index : y # r => i[y] = index[y]
      /\ \A y \in DOMAIN orders : y # r => o[y] = orders[y]
  BY DEF Erase, IsMap, Tracks
<1> HIDE DEF i, o
<1>3. Overstated(i, o) /\ Overstated(index, o)
  BY <1>1, <1>2 DEF Overstated
<1>4. Same(index, orders) => Same(i, o)
  BY <1>2 DEF Same
<1>5. gaps + 1 \in Nat /\ gaps + 1 # 0
  BY <1>1
<1>6. r \notin DOMAIN index => gaps # 0
  BY <1>1 DEF Same
<1>7. Tracks(i, o, given, gaps, skipped, corrupt)
  BY <1>1, <1>2, <1>3, <1>4 DEF Tracks
<1>8. Tracks(index, o, given, gaps + 1, skipped, corrupt)
  BY <1>1, <1>2, <1>3, <1>5 DEF Tracks
<1>9. \A s : r \notin DOMAIN index => Tracks(index, o, given, gaps, s, corrupt)
  BY <1>1, <1>2, <1>3, <1>6 DEF Tracks
<1>10. QED
  BY <1>7, <1>8, <1>9 DEF i, o

(* An execution or cancellation.  It never asks for more than the engine   *)
(* has; it may exhaust the order at the exchange alone, but only after a   *)
(* loss.                                                                   *)
LEMMA FillKeepsTrack ==
    ASSUME NEW index, NEW orders, NEW given, NEW gaps, NEW skipped, NEW corrupt,
           Tracks(index, orders, given, gaps, skipped, corrupt),
           NEW r \in DOMAIN orders, NEW n \in 1..orders[r].shares
    PROVE  LET o == IF n = orders[r].shares THEN Erase(orders, r)
                    ELSE [orders EXCEPT ![r].shares = @ - n]
               after == index[r].shares - n
               i == IF after = 0 THEN Erase(index, r)
                    ELSE Put(index, r, [index[r] EXCEPT !.shares = after])
           IN  /\ r \in DOMAIN index =>
                     /\ index[r].shares \in Nat /\ n \in Nat /\ n <= index[r].shares
                     /\ Tracks(i, o, given, gaps, skipped, corrupt)
               /\ Tracks(index, o, given, gaps + 1, skipped, corrupt)
               /\ \A s : r \notin DOMAIN index => Tracks(index, o, given, gaps, s, corrupt)
<1> DEFINE left == orders[r].shares - n
           o == IF n = orders[r].shares THEN Erase(orders, r)
                ELSE [orders EXCEPT ![r].shares = @ - n]
           after == index[r].shares - n
           i == IF after = 0 THEN Erase(index, r)
                ELSE Put(index, r, [index[r] EXCEPT !.shares = after])
<1>1. /\ IsMap(index, given, HeardOrder) /\ IsMap(orders, given, TrueOrder)
      /\ Overstated(index, orders) /\ corrupt = 0 /\ gaps \in Nat
      /\ gaps = 0 => Same(index, orders) /\ skipped = 0
  BY DEF Tracks
<1>2. orders[r] \in TrueOrder /\ orders[r].shares \in Nat \ {0}
  BY <1>1 DEF IsMap, TrueOrder
<1>3. n \in Nat /\ n # 0 /\ n <= orders[r].shares /\ left \in Nat
  BY <1>2
<1>4. /\ IsMap(o, given, TrueOrder)
      /\ DOMAIN o = IF left = 0 THEN DOMAIN orders \ {r} ELSE DOMAIN orders
      /\ left # 0 => o[r].shares = left /\ o[r].price = orders[r].price
      /\ \A y \in DOMAIN orders : y # r => o[y] = orders[y]
  <2>1. CASE n = orders[r].shares
    <3>1. left = 0 /\ o = Erase(orders, r)
      BY <2>1, <1>2
    <3>2. QED
      BY <3>1, <1>1 DEF Erase, IsMap
  <2>2. CASE n # orders[r].shares
    <3>1. left \in Nat \ {0} /\ o = [orders EXCEPT ![r].shares = @ - n]
      BY <2>2, <1>2, <1>3
    <3>2. o = [orders EXCEPT ![r] = [orders[r] EXCEPT !.shares = left]]
      BY <3>1, <1>1 DEF IsMap
    <3> HIDE DEF o, left
    <3>3. [orders[r] EXCEPT !.shares = left] \in TrueOrder
      BY <1>2, <3>1 DEF TrueOrder
    <3>4. QED
      BY <1>1, <1>2, <3>1, <3>2, <3>3 DEF IsMap, TrueOrder
  <2>3. QED
    BY <2>1, <2>2
<1>5. ASSUME r \in DOMAIN index
      PROVE  /\ index[r].shares \in Nat /\ n <= index[r].shares
             /\ after \in Nat /\ after >= left
             /\ index[r].price = orders[r].price
             /\ IsMap(i, given, HeardOrder)
             /\ DOMAIN i = IF after = 0 THEN DOMAIN index \ {r} ELSE DOMAIN index
             /\ after # 0 => i[r].shares = after /\ i[r].price = index[r].price
             /\ \A y \in DOMAIN index : y # r => i[y] = index[y]
  <2>1. index[r] \in HeardOrder /\ index[r].shares \in Nat \ {0}
    BY <1>1, <1>5 DEF IsMap, HeardOrder
  <2>2. index[r].shares >= orders[r].shares /\ index[r].price = orders[r].price
    BY <1>1, <1>5 DEF Overstated
  <2>3. after \in Nat /\ after >= left /\ n <= index[r].shares
    BY <1>2, <1>3, <2>1, <2>2
  <2> HIDE DEF after
  <2>4. CASE after = 0
    BY <1>1, <2>1, <2>2, <2>3, <2>4 DEF Erase, IsMap
  <2>5. CASE after # 0
    <3>1. [index[r] EXCEPT !.shares = after] \in HeardOrder
      BY <2>1, <2>3, <2>5 DEF HeardOrder
    <3>2. i = Put(index, r, [index[r] EXCEPT !.shares = after])
      BY <2>5
    <3>3. IsMap(i, given, HeardOrder)
      BY <3>1, <3>2, <1>1, <1>5 DEF Put, IsMap
    <3>4. i[r].shares = after /\ i[r].price = index[r].price
      BY <3>2, <2>1 DEF Put, HeardOrder
    <3>5. DOMAIN i = DOMAIN index /\ \A y \in DOMAIN index : y # r => i[y] = index[y]
      BY <3>2, <1>5 DEF Put
    <3>6. QED
      BY <2>1, <2>2, <2>3, <2>5, <3>3, <3>4, <3>5
  <2>6. QED
    BY <2>4, <2>5
<1> HIDE DEF o, i
<1>6. Overstated(index, o)
  <2> HIDE DEF after, left
  <2> SUFFICES ASSUME NEW y \in DOMAIN index \cap DOMAIN o
               PROVE  index[y].shares >= o[y].shares /\ index[y].price = o[y].price
    BY DEF Overstated
  <2>1. CASE y = r
    <3>1. left # 0 /\ o[r].shares = left /\ o[r].price = orders[r].price
      BY <1>4, <2>1
    <3>2. after \in Nat /\ after >= left /\ index[r].shares \in Nat /\ index[r].price = orders[r].price
      BY <1>5, <2>1
    <3>3. index[r].shares >= after
      BY <1>3, <3>2 DEF after
    <3>4. QED
      BY <1>3, <2>1, <3>1, <3>2, <3>3
  <2>2. CASE y # r
    BY <1>1, <1>4, <2>2 DEF Overstated
  <2>3. QED
    BY <2>1, <2>2
<1>7. gaps + 1 \in Nat /\ gaps + 1 # 0
  BY <1>1
<1>8. r \notin DOMAIN index => gaps # 0
  BY <1>1 DEF Same
<1>9. Tracks(index, o, given, gaps + 1, skipped, corrupt)
  BY <1>1, <1>4, <1>6, <1>7 DEF Tracks
<1>10. \A s : r \notin DOMAIN index => Tracks(index, o, given, gaps, s, corrupt)
  BY <1>1, <1>4, <1>6, <1>8 DEF Tracks
<1>11. ASSUME r \in DOMAIN index
       PROVE  Tracks(i, o, given, gaps, skipped, corrupt)
  <2> HIDE DEF after, left
  <2>1. Overstated(i, o)
    <3> SUFFICES ASSUME NEW y \in DOMAIN i \cap DOMAIN o
                 PROVE  i[y].shares >= o[y].shares /\ i[y].price = o[y].price
      BY DEF Overstated
    <3>1. y \in DOMAIN index /\ y \in DOMAIN orders
      BY <1>4, <1>5, <1>11
    <3>2. CASE y = r
      BY <1>3, <1>4, <1>5, <1>11, <3>2
    <3>3. CASE y # r
      BY <1>1, <1>4, <1>5, <1>11, <3>1, <3>3 DEF Overstated
    <3>4. QED
      BY <3>2, <3>3
  <2>2. ASSUME gaps = 0
        PROVE  Same(i, o) /\ skipped = 0
    <3>1. Same(index, orders) /\ skipped = 0
      BY <1>1, <2>2
    <3>2. after = left
      BY <3>1 DEF Same, after, left
    <3>3. DOMAIN i = DOMAIN o
      BY <3>1, <3>2, <1>4, <1>5, <1>11 DEF Same
    <3>4. ASSUME NEW y \in DOMAIN o
          PROVE  i[y].shares = o[y].shares
      <4>1. y \in DOMAIN index /\ y \in DOMAIN orders
        BY <3>1, <3>3, <3>4, <1>4 DEF Same
      <4>2. CASE y = r
        BY <3>2, <3>4, <4>2, <1>4, <1>5, <1>11
      <4>3. CASE y # r
        BY <3>1, <4>1, <4>3, <1>4, <1>5, <1>11 DEF Same
      <4>4. QED
        BY <4>2, <4>3
    <3>5. QED
      BY <3>1, <3>3, <3>4 DEF Same
  <2>3. QED
    BY <1>1, <1>4, <1>5, <1>11, <2>1, <2>2 DEF Tracks
<1>12. QED
  BY <1>3, <1>5, <1>9, <1>10, <1>11 DEF o, i

----------------------------------------------------------------------------
(* The steps of exchange and engine keep the invariant. *)

(* A message the engine has no order for is only counted. *)
LEMMA SkipChanges ==
    ASSUME NEW r, SkipUnknown(r)
    PROVE  r \notin DOMAIN order_index /\ order_index' = order_index /\ corrupt_messages' = corrupt_messages
BY DEF SkipUnknown

(* A lost message leaves the engine as it is. *)
LEMMA LostChanges ==
    ASSUME Lost
    PROVE  /\ order_index' = order_index /\ skipped_unknown_ref' = skipped_unknown_ref
           /\ corrupt_messages' = corrupt_messages /\ lost' = lost + 1
BY DEF Lost, vars

(* A new order at the exchange. *)
LEMMA PlacePreserves == GapInv /\ Place => GapInv'
<1> SUFFICES ASSUME GapInv, NEW l \in Locates, NEW r \in ExchangeRefs \ used, NEW s \in Sides,
                    NEW n \in ShareCounts \ {0}, NEW p \in Prices, NEW t \in Timestamps,
                    truth' = Put(truth, r, [shares |-> n, price |-> p]),
                    used' = used \cup {r},
                    Heard(Add(l, r, s, n, p, t, NoMpid)) \/ Lost
             PROVE  GapInv'
  BY DEF Place
<1> DEFINE new == [shares |-> n, price |-> p]
           rec == [shares |-> n, price |-> p, stock_locate |-> l, side |-> s, mpid |-> NoMpid]
<1>1. new \in TrueOrder /\ rec \in HeardOrder /\ rec.shares = new.shares /\ rec.price = new.price
  BY PositiveShares DEF TrueOrder, HeardOrder
<1>2. CASE Heard(Add(l, r, s, n, p, t, NoMpid))
  <2>1. /\ order_index' = Put(order_index, r, rec) /\ lost' = lost
        /\ skipped_unknown_ref' = skipped_unknown_ref /\ corrupt_messages' = corrupt_messages
    BY <1>2 DEF Heard, Add, countVars
  <2> HIDE DEF new, rec
  <2>2. Tracks(Put(order_index, r, rec), Put(truth, r, new), used \cup {r},
               lost, skipped_unknown_ref, corrupt_messages)
    BY <1>1, PlaceKeepsTrack DEF GapInv
  <2>3. QED
    BY <2>1, <2>2 DEF GapInv, new
<1>3. CASE Lost
  <2> HIDE DEF new, rec
  <2>1. Tracks(order_index, Put(truth, r, new), used \cup {r},
               lost + 1, skipped_unknown_ref, corrupt_messages)
    BY <1>1, PlaceKeepsTrack DEF GapInv
  <2>2. QED
    BY <1>3, <2>1, LostChanges DEF GapInv, new
<1>4. QED
  BY <1>2, <1>3

(* An execution or cancellation of an order of the exchange. *)
LEMMA FillPreserves == GapInv /\ Fill => GapInv'
<1> SUFFICES ASSUME GapInv, NEW r \in DOMAIN truth, NEW t \in Timestamps,
                    NEW n \in 1..truth[r].shares,
                    truth' = IF n = truth[r].shares THEN Erase(truth, r)
                             ELSE [truth EXCEPT ![r].shares = @ - n],
                    used' = used,
                    Heard(TakeShares(r, n, t) \/ SkipUnknown(r)) \/ Lost
             PROVE  GapInv'
  BY DEF Fill
<1> DEFINE left == order_index[r].shares - n
<1>1. /\ r \in DOMAIN order_index =>
            /\ order_index[r].shares \in Nat /\ n \in Nat /\ n <= order_index[r].shares
            /\ Tracks(IF left = 0 THEN Erase(order_index, r)
                      ELSE Put(order_index, r, [order_index[r] EXCEPT !.shares = left]),
                      truth', used, lost, skipped_unknown_ref, corrupt_messages)
      /\ Tracks(order_index, truth', used, lost + 1, skipped_unknown_ref, corrupt_messages)
      /\ \A s : r \notin DOMAIN order_index =>
            Tracks(order_index, truth', used, lost, s, corrupt_messages)
  BY FillKeepsTrack DEF GapInv
<1>2. CASE Heard(TakeShares(r, n, t))
  <2> DEFINE after == ClampedSub(order_index[r].shares, n)
  <2>1. /\ r \in DOMAIN order_index
        /\ corrupt_messages' = corrupt_messages + (IF n > order_index[r].shares THEN 1 ELSE 0)
        /\ order_index' = IF after = 0 THEN Erase(order_index, r)
                          ELSE Put(order_index, r, [order_index[r] EXCEPT !.shares = after])
        /\ skipped_unknown_ref' = skipped_unknown_ref /\ lost' = lost
    BY <1>2 DEF Heard, TakeShares
  <2>2. corrupt_messages = 0
    BY DEF GapInv, Tracks
  <2>3. after = left /\ corrupt_messages' = corrupt_messages
    BY <1>1, <2>1, <2>2 DEF ClampedSub
  <2> HIDE DEF after, left
  <2>4. QED
    BY <1>1, <2>1, <2>3 DEF GapInv
<1>3. CASE Heard(SkipUnknown(r))
  <2>1. r \notin DOMAIN order_index /\ order_index' = order_index
        /\ corrupt_messages' = corrupt_messages /\ lost' = lost
    BY <1>3, SkipChanges DEF Heard
  <2>2. QED
    BY <1>1, <2>1 DEF GapInv
<1>4. CASE Lost
  BY <1>1, <1>4, LostChanges DEF GapInv
<1>5. QED
  BY <1>2, <1>3, <1>4 DEF Heard

(* A cancellation of a whole order. *)
LEMMA RemovePreserves == GapInv /\ Remove => GapInv'
<1> SUFFICES ASSUME GapInv, NEW r \in DOMAIN truth, NEW t \in Timestamps,
                    truth' = Erase(truth, r), used' = used,
                    Heard(Delete(r, t) \/ SkipUnknown(r)) \/ Lost
             PROVE  GapInv'
  BY DEF Remove
<1>1. /\ Tracks(Erase(order_index, r), truth', used, lost, skipped_unknown_ref, corrupt_messages)
      /\ Tracks(order_index, truth', used, lost + 1, skipped_unknown_ref, corrupt_messages)
      /\ \A s : r \notin DOMAIN order_index =>
            Tracks(order_index, truth', used, lost, s, corrupt_messages)
  BY LeaveKeepsTrack DEF GapInv
<1>2. CASE Heard(Delete(r, t))
  BY <1>1, <1>2 DEF Heard, Delete, countVars, GapInv
<1>3. CASE Heard(SkipUnknown(r))
  <2>1. r \notin DOMAIN order_index /\ order_index' = order_index
        /\ corrupt_messages' = corrupt_messages /\ lost' = lost
    BY <1>3, SkipChanges DEF Heard
  <2>2. QED
    BY <1>1, <2>1 DEF GapInv
<1>4. CASE Lost
  BY <1>1, <1>4, LostChanges DEF GapInv
<1>5. QED
  BY <1>2, <1>3, <1>4 DEF Heard

(* A replacement of an order by one under a new reference: the old leaves, *)
(* the new enters.                                                         *)
LEMMA ChangePreserves == GapInv /\ Change => GapInv'
<1> SUFFICES ASSUME GapInv, NEW r \in DOMAIN truth, NEW new \in ExchangeRefs \ used,
                    NEW n \in ShareCounts \ {0}, NEW p \in Prices, NEW t \in Timestamps,
                    truth' = Put(Erase(truth, r), new, [shares |-> n, price |-> p]),
                    used' = used \cup {new},
                    Heard(Replace(r, new, n, p, t) \/ SkipUnknown(r)) \/ Lost
             PROVE  GapInv'
  BY DEF Change
<1> DEFINE order == [shares |-> n, price |-> p]
           rest == Erase(truth, r)
<1>1. order \in TrueOrder /\ order.shares = n /\ order.price = p
  BY PositiveShares DEF TrueOrder
<1>2. /\ Tracks(Erase(order_index, r), rest, used, lost, skipped_unknown_ref, corrupt_messages)
      /\ Tracks(order_index, rest, used, lost + 1, skipped_unknown_ref, corrupt_messages)
      /\ \A s : r \notin DOMAIN order_index =>
            Tracks(order_index, rest, used, lost, s, corrupt_messages)
  BY LeaveKeepsTrack DEF GapInv
<1> HIDE DEF order, rest
<1>3. truth' = Put(rest, new, order)
  BY DEF order, rest
<1>4. CASE Heard(Replace(r, new, n, p, t))
  <2> DEFINE rec == [order_index[r] EXCEPT !.shares = n, !.price = p]
  <2>1. /\ r \in DOMAIN order_index
        /\ order_index' = Put(Erase(order_index, r), new, rec)
        /\ skipped_unknown_ref' = skipped_unknown_ref /\ corrupt_messages' = corrupt_messages
        /\ lost' = lost
    BY <1>4 DEF Heard, Replace, countVars
  <2>2. order_index[r] \in HeardOrder
    BY <2>1 DEF GapInv, Tracks, IsMap
  <2>3. rec \in HeardOrder /\ rec.shares = order.shares /\ rec.price = order.price
    BY <1>1, <2>2, PositiveShares DEF HeardOrder
  <2> HIDE DEF rec
  <2>4. Tracks(Put(Erase(order_index, r), new, rec), Put(rest, new, order), used \cup {new},
               lost, skipped_unknown_ref, corrupt_messages)
    BY <1>1, <1>2, <2>3, PlaceKeepsTrack
  <2>5. QED
    BY <1>3, <2>1, <2>4 DEF GapInv
<1>5. ASSUME NEW gaps, NEW s, gaps # 0, Tracks(order_index, rest, used, gaps, s, corrupt_messages)
      PROVE  Tracks(order_index, truth', used \cup {new}, gaps, s, corrupt_messages)
  <2>1. /\ IsMap(order_index, used, HeardOrder) /\ IsMap(rest, used, TrueOrder)
        /\ Overstated(order_index, rest) /\ corrupt_messages = 0 /\ gaps \in Nat
    BY <1>5 DEF Tracks
  <2>2. IsMap(order_index, used \cup {new}, HeardOrder) /\ new \notin DOMAIN order_index
    BY <2>1 DEF IsMap
  <2>3. IsMap(truth', used \cup {new}, TrueOrder)
    BY <1>1, <1>3, <2>1 DEF Put, IsMap
  <2>4. Overstated(order_index, truth')
    BY <1>3, <2>1, <2>2 DEF Put, Overstated
  <2>5. QED
    BY <1>5, <2>1, <2>2, <2>3, <2>4 DEF Tracks
<1>6. lost \in Nat /\ (lost = 0 => r \in DOMAIN order_index)
  BY DEF GapInv, Tracks, Same
<1>7. CASE Heard(SkipUnknown(r))
  <2>1. r \notin DOMAIN order_index /\ order_index' = order_index
        /\ corrupt_messages' = corrupt_messages /\ lost' = lost /\ lost # 0
    BY <1>6, <1>7, SkipChanges DEF Heard
  <2>2. QED
    BY <1>2, <1>5, <2>1 DEF GapInv
<1>8. CASE Lost
  <2>1. lost + 1 # 0
    BY <1>6
  <2>2. Tracks(order_index, truth', used \cup {new}, lost + 1, skipped_unknown_ref, corrupt_messages)
    BY <1>2, <1>5, <2>1
  <2>3. QED
    BY <1>8, <2>2, LostChanges DEF GapInv
<1>9. QED
  BY <1>4, <1>7, <1>8 DEF Heard

(* The inductive invariant holds always, whatever is lost. *)
THEOREM GapInvariance == GapSpec => []GapInv
<1>1. GapInit => GapInv
  <2> SUFFICES ASSUME GapInit PROVE GapInv
    OBVIOUS
  <2>1. /\ order_index = EmptyMap /\ truth = EmptyMap /\ used = {} /\ lost = 0
        /\ skipped_unknown_ref = 0 /\ corrupt_messages = 0
    BY DEF GapInit, Init
  <2>2. QED
    BY <2>1 DEF GapInv, Tracks, EmptyMap, IsMap, Overstated, Same
<1>2. GapInv /\ [GapNext]_gapVars => GapInv'
  <2> SUFFICES ASSUME GapInv, [GapNext]_gapVars PROVE GapInv'
    OBVIOUS
  <2>1. CASE Finish
    BY <2>1 DEF Finish, Heard, SetPipelineComplete, bookVars, countVars, GapInv
  <2>2. CASE UNCHANGED gapVars
    BY <2>2 DEF gapVars, vars, GapInv
  <2>3. QED
    BY <2>1, <2>2, PlacePreserves, FillPreserves, RemovePreserves, ChangePreserves DEF GapNext
<1>3. QED
  BY <1>1, <1>2, PTL DEF GapSpec

(* Whatever a gap swallows, no order both sides know is short of shares or *)
(* at a wrong price, and no message of the exchange is taken for corrupt.  *)
THEOREM GapsNeverUnderstate == GapSpec => []GapsOverstate
<1>1. GapInv => GapsOverstate
  BY DEF GapInv, Tracks, Overstated, GapsOverstate
<1>2. QED
  BY <1>1, GapInvariance, PTL

(* Without a loss the index is the exchange's book and nothing is skipped. *)
THEOREM LosslessIsExact == GapSpec => []ExactWithoutGaps
<1>1. GapInv => ExactWithoutGaps
  BY DEF GapInv, Tracks, Same, ExactWithoutGaps
<1>2. QED
  BY <1>1, GapInvariance, PTL

----------------------------------------------------------------------------
(* The micro-benchmarks *)

(* What rests of order k before iteration idx of BM_ExecuteOrder. *)
Left(k) == BenchShares - (idx \div NOrders) - (IF k <= idx % NOrders THEN 1 ELSE 0)

(* How many of the first references BM_ReplaceOrder has given up. *)
Turned == IF idx < NOrders THEN idx ELSE NOrders

MicroInv ==
    /\ seeded \in 0..NOrders /\ idx \in Nat
    /\ benchmark \in {"delete", "replace", "execute"} /\ seeded < NOrders => idx = 0
    /\ benchmark = "delete" =>
          /\ idx <= NOrders /\ skipped_unknown_ref = 0
          /\ DOMAIN order_index = (idx + 1)..seeded
    /\ benchmark = "replace" =>
          /\ next_ref = NOrders + 1 + idx
          /\ skipped_unknown_ref = Beyond(NOrders)
          /\ DOMAIN order_index = (Turned + 1)..(seeded + Turned)
    /\ benchmark = "execute" =>
          /\ skipped_unknown_ref = Beyond(NOrders * BenchShares)
          /\ DOMAIN order_index = {k \in 1..seeded : Left(k) > 0}
          /\ \A k \in DOMAIN order_index :
                "shares" \in DOMAIN order_index[k] /\ order_index[k].shares = Left(k)

(* Division by the number of orders: the next iteration is the next order  *)
(* of this round, or the first of the next.                                *)
LEMMA NextOfRound ==
    ASSUME NEW i \in Nat, NEW n \in Nat \ {0}
    PROVE  /\ i \div n \in Nat /\ i % n \in 0..(n - 1)
           /\ i = n * (i \div n) + (i % n)
           /\ i % n < n - 1 => (i + 1) \div n = i \div n /\ (i + 1) % n = (i % n) + 1
           /\ i % n = n - 1 => (i + 1) \div n = i \div n + 1 /\ (i + 1) % n = 0
<1>0. ASSUME NEW j \in Nat
      PROVE  j \div n \in Nat /\ j % n \in 0..(n - 1) /\ j = n * (j \div n) + (j % n)
  <2>1. j \div n \in Int /\ j \div n >= 0  OBVIOUS
  <2>2. j % n \in 0..(n - 1)  OBVIOUS
  <2>3. j = n * (j \div n) + (j % n)  OBVIOUS
  <2> QED  BY <2>1, <2>2, <2>3
<1>1. i \div n \in Nat /\ i % n \in 0..(n - 1) /\ i = n * (i \div n) + (i % n)  BY <1>0
<1>2. /\ (i + 1) \div n \in Nat /\ (i + 1) % n \in 0..(n - 1)
      /\ i + 1 = n * ((i + 1) \div n) + ((i + 1) % n)
  <2>1. PICK j \in Nat : j = i + 1  OBVIOUS
  <2> QED  BY <1>0, <2>1
<1>3. PICK q \in Nat, r \in 0..(n - 1) : q = i \div n /\ r = i % n  BY <1>1
<1>4. PICK p \in Nat, s \in 0..(n - 1) : p = (i + 1) \div n /\ s = (i + 1) % n  BY <1>2
<1>5. n * q + r + 1 = n * p + s  BY <1>1, <1>2, <1>3, <1>4
<1>6. p >= q
  <2> SUFFICES ASSUME p <= q - 1  PROVE FALSE  OBVIOUS
  <2>1. n * p <= n * (q - 1)  OBVIOUS
  <2>2. n * (q - 1) = n * q - n  OBVIOUS
  <2> QED  BY <1>5, <2>1, <2>2
<1>7. p <= q + 1
  <2> SUFFICES ASSUME p >= q + 2  PROVE FALSE  OBVIOUS
  <2>1. n * p >= n * (q + 2)  OBVIOUS
  <2>2. n * (q + 2) = n * q + 2 * n  OBVIOUS
  <2> QED  BY <1>5, <2>1, <2>2
<1>8. n * (q + 1) = n * q + n  OBVIOUS
<1>9. p = q \/ p = q + 1  BY <1>6, <1>7
<1>10. CASE p = q  BY <1>1, <1>3, <1>4, <1>5, <1>10
<1>11. CASE p = q + 1
  <2>1. r + 1 = n + s  BY <1>5, <1>8, <1>11
  <2> QED  BY <1>1, <1>3, <1>4, <1>11, <2>1
<1> QED  BY <1>9, <1>10, <1>11

(* What the messages of a benchmark do to the index and the count of       *)
(* skipped ones.                                                           *)
LEMMA AddChanges ==
    ASSUME NEW ref, NEW side, NEW shares, NEW price, apply_add(ref, side, shares, price)
    PROVE  /\ skipped_unknown_ref' = skipped_unknown_ref
           /\ DOMAIN order_index' = DOMAIN order_index \cup {ref}
           /\ "shares" \in DOMAIN order_index'[ref] /\ order_index'[ref].shares = shares
           /\ \A r \in DOMAIN order_index : r # ref => order_index'[r] = order_index[r]
<1>1. PICK l \in DOMAIN instruments, t \in Timestamps :
          Add(l, ref, side, shares, price, t, NoMpid)
      BY DEF apply_add
<1>2. skipped_unknown_ref' = skipped_unknown_ref  BY <1>1 DEF Add, countVars
<1>3. PICK rec : /\ "shares" \in DOMAIN rec /\ rec.shares = shares
                  /\ order_index' = Put(order_index, ref, rec)
      BY <1>1 DEF Add
<1> QED  BY <1>2, <1>3 DEF Put

LEMMA DeleteChanges ==
    ASSUME NEW ref, apply_delete(ref)
    PROVE  /\ ref \in DOMAIN order_index =>
                 /\ skipped_unknown_ref' = skipped_unknown_ref
                 /\ DOMAIN order_index' = DOMAIN order_index \ {ref}
                 /\ \A r \in DOMAIN order_index' : order_index'[r] = order_index[r]
           /\ ref \notin DOMAIN order_index =>
                 skipped_unknown_ref' = skipped_unknown_ref + 1 /\ order_index' = order_index
<1>1. PICK t \in Timestamps : Delete(ref, t) \/ SkipUnknown(ref)  BY DEF apply_delete
<1>2. CASE Delete(ref, t)
  <2>1. /\ ref \in DOMAIN order_index /\ order_index' = Erase(order_index, ref)
        /\ skipped_unknown_ref' = skipped_unknown_ref
        BY <1>2 DEF Delete, countVars
  <2> QED  BY <2>1 DEF Erase
<1>3. CASE SkipUnknown(ref)  BY <1>3 DEF SkipUnknown
<1> QED  BY <1>1, <1>2, <1>3

LEMMA ExecuteChanges ==
    ASSUME NEW ref, apply_execute(ref, 1),
           ref \in DOMAIN order_index =>
              /\ "shares" \in DOMAIN order_index[ref]
              /\ order_index[ref].shares \in Nat /\ order_index[ref].shares > 0
    PROVE  /\ ref \in DOMAIN order_index =>
                 /\ skipped_unknown_ref' = skipped_unknown_ref
                 /\ DOMAIN order_index' = IF order_index[ref].shares = 1
                                          THEN DOMAIN order_index \ {ref}
                                          ELSE DOMAIN order_index
                 /\ order_index[ref].shares # 1 =>
                       /\ "shares" \in DOMAIN order_index'[ref]
                       /\ order_index'[ref].shares = order_index[ref].shares - 1
                 /\ \A r \in DOMAIN order_index : r # ref => order_index'[r] = order_index[r]
           /\ ref \notin DOMAIN order_index =>
                 skipped_unknown_ref' = skipped_unknown_ref + 1 /\ order_index' = order_index
<1>1. PICK t \in Timestamps : TakeShares(ref, 1, t) \/ SkipUnknown(ref)  BY DEF apply_execute
<1>2. CASE TakeShares(ref, 1, t)
  <2> DEFINE rec == order_index[ref]
             after == ClampedSub(rec.shares, 1)
  <2>1. /\ ref \in DOMAIN order_index
        /\ skipped_unknown_ref' = skipped_unknown_ref
        /\ order_index' = IF after = 0 THEN Erase(order_index, ref)
                          ELSE Put(order_index, ref, [rec EXCEPT !.shares = after])
        BY <1>2 DEF TakeShares
  <2>2. PICK n \in Nat : n = rec.shares  BY <2>1
  <2>3. n > 0 /\ after = n - 1  BY <2>1, <2>2 DEF ClampedSub
  <2> HIDE DEF after
  <2>4. CASE n = 1
    <3>1. order_index' = Erase(order_index, ref)  BY <2>1, <2>3, <2>4
    <3> QED  BY <2>1, <2>2, <2>4, <3>1 DEF Erase
  <2>5. CASE n # 1
    <3>1. order_index' = Put(order_index, ref, [rec EXCEPT !.shares = after])
          BY <2>1, <2>2, <2>3, <2>5
    <3>2. DOMAIN order_index' = DOMAIN order_index
          /\ order_index'[ref] = [rec EXCEPT !.shares = after]
          /\ \A r \in DOMAIN order_index : r # ref => order_index'[r] = order_index[r]
          BY <2>1, <3>1 DEF Put
    <3>3. "shares" \in DOMAIN order_index'[ref] /\ order_index'[ref].shares = n - 1
          BY <2>1, <2>3, <3>2
    <3> QED  BY <2>1, <2>2, <2>5, <3>2, <3>3
  <2> QED  BY <2>4, <2>5
<1>3. CASE SkipUnknown(ref)  BY <1>3 DEF SkipUnknown
<1> QED  BY <1>1, <1>2, <1>3

LEMMA ReplaceChanges ==
    ASSUME NEW orig, NEW next, NEW shares, NEW price, apply_replace(orig, next, shares, price)
    PROVE  /\ orig \in DOMAIN order_index =>
                 /\ skipped_unknown_ref' = skipped_unknown_ref
                 /\ DOMAIN order_index' = (DOMAIN order_index \ {orig}) \cup {next}
           /\ orig \notin DOMAIN order_index =>
                 skipped_unknown_ref' = skipped_unknown_ref + 1 /\ order_index' = order_index
<1>1. PICK t \in Timestamps : Replace(orig, next, shares, price, t) \/ SkipUnknown(orig)
      BY DEF apply_replace
<1>2. CASE Replace(orig, next, shares, price, t)
  <2>1. /\ orig \in DOMAIN order_index
        /\ skipped_unknown_ref' = skipped_unknown_ref
        /\ \E rec : order_index' = Put(Erase(order_index, orig), next, rec)
        BY <1>2 DEF Replace, countVars
  <2> QED  BY <2>1 DEF Put, Erase
<1>3. CASE SkipUnknown(orig)  BY <1>3 DEF SkipUnknown
<1> QED  BY <1>1, <1>2, <1>3

(* seed_engine has one more order in. *)
LEMMA SeedStep ==
    ASSUME MicroInv, SeedEngine
    PROVE  MicroInv'
<1>1. /\ benchmark \in {"delete", "replace", "execute"} /\ seeded < NOrders
      /\ seeded' = seeded + 1
      /\ UNCHANGED <<benchmark, ops, live, next_ref, idx>>
      BY DEF SeedEngine
<1>2. seeded \in Nat /\ NOrders \in Nat \ {0} /\ BenchShares \in Nat \ {0} /\ idx = 0
      BY <1>1, BenchAssumption DEF MicroInv
<1>3. PICK ref, side, price : ref = seeded + 1 /\ apply_add(ref, side, BenchShares, price)
      BY DEF SeedEngine
<1>4. /\ skipped_unknown_ref' = skipped_unknown_ref
      /\ DOMAIN order_index' = DOMAIN order_index \cup {seeded + 1}
      /\ "shares" \in DOMAIN order_index'[seeded + 1]
      /\ order_index'[seeded + 1].shares = BenchShares
      /\ \A r \in DOMAIN order_index : r # seeded + 1 => order_index'[r] = order_index[r]
      BY <1>3, AddChanges
<1>5. (1..seeded) \cup {seeded + 1} = 1..(seeded + 1)  BY <1>2
<1>6. seeded' \in 0..NOrders /\ idx' = 0  BY <1>1, <1>2
<1>7. CASE benchmark = "delete"
  <2>1. DOMAIN order_index = 1..seeded /\ skipped_unknown_ref = 0
        BY <1>2, <1>7 DEF MicroInv
  <2>2. DOMAIN order_index' = (idx' + 1)..seeded'  BY <1>1, <1>4, <1>5, <1>6, <2>1
  <2> QED  BY <1>1, <1>2, <1>4, <1>6, <1>7, <2>1, <2>2 DEF MicroInv
<1>8. CASE benchmark = "replace"
  <2>1. Turned = 0 /\ Turned' = 0 /\ Beyond(NOrders)' = Beyond(NOrders)
        BY <1>1, <1>2 DEF Turned, Beyond
  <2>2. /\ next_ref = NOrders + 1 + idx
        /\ skipped_unknown_ref = Beyond(NOrders)
        /\ DOMAIN order_index = (Turned + 1)..(seeded + Turned)
        BY <1>8 DEF MicroInv
  <2>3. DOMAIN order_index = 1..seeded  BY <1>2, <2>1, <2>2
  <2>4. DOMAIN order_index' = (Turned' + 1)..(seeded' + Turned')
        BY <1>1, <1>2, <1>4, <1>5, <2>1, <2>3
  <2> QED  BY <1>1, <1>4, <1>6, <1>8, <2>1, <2>2, <2>4 DEF MicroInv
<1>9. CASE benchmark = "execute"
  <2>1. 0 \div NOrders = 0 /\ 0 % NOrders = 0
    <3>1. PICK q \in Nat, r \in Nat : q = 0 \div NOrders /\ r = 0 % NOrders /\ 0 = NOrders * q + r
          BY <1>2, NextOfRound
    <3>2. q # 0 => NOrders * q >= NOrders  BY <1>2
    <3>3. NOrders * q \in Nat  BY <1>2
    <3>4. q = 0  BY <1>2, <3>1, <3>2, <3>3
    <3>5. r = 0  BY <3>1, <3>3
    <3> QED  BY <3>1, <3>4, <3>5
  <2>2. \A k \in 1..(seeded + 1) : Left(k) = BenchShares
        BY <1>2, <2>1 DEF Left
  <2>3. \A k : Left(k)' = Left(k)  BY <1>1 DEF Left
  <2>4. /\ skipped_unknown_ref = Beyond(NOrders * BenchShares)
        /\ DOMAIN order_index = {k \in 1..seeded : Left(k) > 0}
        /\ \A k \in DOMAIN order_index :
              "shares" \in DOMAIN order_index[k] /\ order_index[k].shares = Left(k)
        BY <1>9 DEF MicroInv
  <2>5. DOMAIN order_index' = {k \in 1..seeded' : Left(k)' > 0}
    <3>1. DOMAIN order_index = 1..seeded  BY <1>2, <2>2, <2>4
    <3>2. DOMAIN order_index' = 1..(seeded + 1)  BY <1>4, <1>5, <3>1
    <3> QED  BY <1>1, <1>2, <2>2, <2>3, <3>2
  <2>6. \A k \in DOMAIN order_index' :
           "shares" \in DOMAIN order_index'[k] /\ order_index'[k].shares = Left(k)'
    <3> TAKE k \in DOMAIN order_index'
    <3>1. CASE k = seeded + 1
      <4>1. Left(k) = BenchShares  BY <1>2, <2>2, <3>1
      <4> QED  BY <1>4, <2>3, <3>1, <4>1
    <3>2. CASE k # seeded + 1
      <4>1. k \in DOMAIN order_index /\ order_index'[k] = order_index[k]  BY <1>4, <3>2
      <4> QED  BY <2>3, <2>4, <4>1
    <3> QED  BY <3>1, <3>2
  <2>7. Beyond(NOrders * BenchShares)' = Beyond(NOrders * BenchShares)  BY <1>1 DEF Beyond
  <2> QED  BY <1>1, <1>4, <1>6, <1>9, <2>4, <2>5, <2>6, <2>7 DEF MicroInv
<1> QED  BY <1>1, <1>7, <1>8, <1>9

(* BM_DeleteOrder: the next order is there. *)
LEMMA DeleteStep ==
    ASSUME MicroInv, BenchDelete
    PROVE  MicroInv'
<1>1. /\ idx < NOrders /\ benchmark = "delete" /\ seeded = NOrders /\ idx' = idx + 1
      /\ UNCHANGED <<benchmark, ops, live, seeded, next_ref>> /\ apply_delete(idx + 1)
      BY DEF BenchDelete, Iteration
<1>2. idx \in Nat /\ NOrders \in Nat  BY BenchAssumption DEF MicroInv
<1>3. DOMAIN order_index = (idx + 1)..NOrders /\ skipped_unknown_ref = 0
      BY <1>1 DEF MicroInv
<1>4. PICK ref : ref = idx + 1 /\ apply_delete(ref)  BY <1>1
<1>5. ref \in DOMAIN order_index  BY <1>1, <1>2, <1>3, <1>4
<1>6. skipped_unknown_ref' = 0 /\ DOMAIN order_index' = ((idx + 1)..NOrders) \ {idx + 1}
      BY <1>3, <1>4, <1>5, DeleteChanges
<1>7. ((idx + 1)..NOrders) \ {idx + 1} = (idx + 1 + 1)..NOrders  BY <1>2
<1> QED  BY <1>1, <1>2, <1>6, <1>7 DEF MicroInv

(* BM_ReplaceOrder: the first round finds its orders, no later one does. *)
LEMMA ReplaceStep ==
    ASSUME MicroInv, BenchReplace
    PROVE  MicroInv'
<1>1. /\ benchmark = "replace" /\ seeded = NOrders /\ idx' = idx + 1 /\ next_ref' = next_ref + 1
      /\ UNCHANGED <<benchmark, ops, live, seeded>>
      BY DEF BenchReplace, Iteration
<1>2. idx \in Nat /\ NOrders \in Nat \ {0}  BY BenchAssumption DEF MicroInv
<1>3. /\ next_ref = NOrders + 1 + idx
      /\ skipped_unknown_ref = Beyond(NOrders)
      /\ DOMAIN order_index = (Turned + 1)..(NOrders + Turned)
      BY <1>1 DEF MicroInv
<1>4. PICK r \in 0..(NOrders - 1) : r = idx % NOrders  BY <1>2, NextOfRound
<1>5. PICK orig, next, shares, price :
          orig = r + 1 /\ next = next_ref /\ apply_replace(orig, next, shares, price)
      BY <1>4 DEF BenchReplace
<1>6. /\ orig \in DOMAIN order_index =>
            /\ skipped_unknown_ref' = skipped_unknown_ref
            /\ DOMAIN order_index' = (DOMAIN order_index \ {orig}) \cup {next}
      /\ orig \notin DOMAIN order_index =>
            skipped_unknown_ref' = skipped_unknown_ref + 1 /\ order_index' = order_index
      BY <1>5, ReplaceChanges
<1>7. next_ref' = NOrders + 1 + idx'  BY <1>1, <1>2, <1>3
<1>8. CASE idx < NOrders
  <2>1. r = idx  BY <1>2, <1>4, <1>8
  <2>2. Turned = idx /\ Turned' = idx + 1 /\ Beyond(NOrders) = 0 /\ Beyond(NOrders)' = 0
        BY <1>1, <1>2, <1>8 DEF Turned, Beyond
  <2>3. orig \in DOMAIN order_index  BY <1>2, <1>3, <1>5, <2>1, <2>2
  <2>4. DOMAIN order_index' = (((idx + 1)..(NOrders + idx)) \ {idx + 1}) \cup {NOrders + 1 + idx}
        BY <1>3, <1>5, <1>6, <2>1, <2>2, <2>3
  <2>5. DOMAIN order_index' = (idx + 1 + 1)..(NOrders + (idx + 1))  BY <1>2, <2>4
  <2> QED  BY <1>1, <1>2, <1>3, <1>6, <1>7, <2>2, <2>3, <2>5 DEF MicroInv
<1>9. CASE idx >= NOrders
  <2>1. Turned = NOrders /\ Turned' = NOrders /\ Beyond(NOrders)' = Beyond(NOrders) + 1
        BY <1>1, <1>2, <1>9 DEF Turned, Beyond
  <2>2. orig \notin DOMAIN order_index  BY <1>2, <1>3, <1>4, <1>5, <2>1
  <2> QED  BY <1>1, <1>2, <1>3, <1>6, <1>7, <2>1, <2>2 DEF MicroInv
<1> QED  BY <1>2, <1>8, <1>9

(* BM_ExecuteOrder: an iteration takes a share of one order, and hits as   *)
(* long as there is one left.                                              *)
LEMMA ExecuteStep ==
    ASSUME MicroInv, BenchExecute
    PROVE  MicroInv'
<1>1. /\ benchmark = "execute" /\ seeded = NOrders /\ idx' = idx + 1
      /\ UNCHANGED <<benchmark, ops, live, seeded, next_ref>>
      BY DEF BenchExecute, Iteration
<1>2. idx \in Nat /\ NOrders \in Nat \ {0} /\ BenchShares \in Nat \ {0}
      BY BenchAssumption DEF MicroInv
<1>3. /\ skipped_unknown_ref = Beyond(NOrders * BenchShares)
      /\ DOMAIN order_index = {k \in 1..NOrders : Left(k) > 0}
      /\ \A k \in DOMAIN order_index :
            "shares" \in DOMAIN order_index[k] /\ order_index[k].shares = Left(k)
      BY <1>1 DEF MicroInv
<1>4. PICK q \in Nat, r \in 0..(NOrders - 1) :
          q = idx \div NOrders /\ r = idx % NOrders /\ idx = NOrders * q + r
      BY <1>2, NextOfRound
<1>5. \A k \in 1..NOrders : Left(k) = BenchShares - q - (IF k <= r THEN 1 ELSE 0)
      BY <1>4 DEF Left
<1>6. \A k \in 1..NOrders : Left(k)' = IF k = r + 1 THEN Left(k) - 1 ELSE Left(k)
  <2> TAKE k \in 1..NOrders
  <2>1. CASE r < NOrders - 1
    <3>1. (idx + 1) \div NOrders = q /\ (idx + 1) % NOrders = r + 1
          BY <1>2, <1>4, <2>1, NextOfRound
    <3>2. Left(k)' = BenchShares - q - (IF k <= r + 1 THEN 1 ELSE 0)
          BY <1>1, <3>1 DEF Left
    <3> QED  BY <1>2, <1>5, <3>2
  <2>2. CASE r = NOrders - 1
    <3>0. idx % NOrders = NOrders - 1 =>
             (idx + 1) \div NOrders = (idx \div NOrders) + 1 /\ (idx + 1) % NOrders = 0
          BY <1>2, NextOfRound
    <3>1. (idx + 1) \div NOrders = q + 1 /\ (idx + 1) % NOrders = 0
          BY <1>4, <2>2, <3>0
    <3>2. Left(k)' = BenchShares - (q + 1) - (IF k <= 0 THEN 1 ELSE 0)
          BY <1>1, <3>1 DEF Left
    <3>3. ~(k <= 0) /\ (k <= r <=> k # r + 1)  BY <1>2, <2>2
    <3> QED  BY <1>2, <1>5, <3>2, <3>3
  <2> QED  BY <1>2, <2>1, <2>2
<1>7. PICK ref \in 1..NOrders : ref = r + 1 /\ apply_execute(ref, 1)
  <2>1. r + 1 \in 1..NOrders  BY <1>2
  <2> QED  BY <1>4, <2>1 DEF BenchExecute
<1>8. \A k \in 1..NOrders : Left(k) \in Int  BY <1>2, <1>5
<1>9. Left(ref) = BenchShares - q  BY <1>2, <1>5, <1>7
<1>10. NOrders * BenchShares \in Nat  BY <1>2
<1>11. CASE q < BenchShares
  <2>1. ref \in DOMAIN order_index /\ Left(ref) > 0  BY <1>2, <1>3, <1>9, <1>11
  <2>2. "shares" \in DOMAIN order_index[ref] /\ order_index[ref].shares = Left(ref)
        BY <1>3, <2>1
  <2>3. order_index[ref].shares \in Nat /\ order_index[ref].shares > 0
        BY <1>8, <2>1, <2>2
  <2>4. /\ skipped_unknown_ref' = skipped_unknown_ref
        /\ DOMAIN order_index' = IF Left(ref) = 1 THEN DOMAIN order_index \ {ref}
                                 ELSE DOMAIN order_index
        /\ Left(ref) # 1 => /\ "shares" \in DOMAIN order_index'[ref]
                            /\ order_index'[ref].shares = Left(ref) - 1
        /\ \A k \in DOMAIN order_index : k # ref => order_index'[k] = order_index[k]
        BY <1>7, <2>1, <2>2, <2>3, ExecuteChanges
  <2>5. DOMAIN order_index' = {k \in 1..NOrders : Left(k)' > 0}
    <3>1. \A k \in 1..NOrders : Left(k)' > 0 <=> Left(k) > 0 /\ ~(k = ref /\ Left(ref) = 1)
          BY <1>6, <1>7, <1>8, <2>1
    <3> QED  BY <1>3, <2>4, <3>1
  <2>6. \A k \in DOMAIN order_index' :
           "shares" \in DOMAIN order_index'[k] /\ order_index'[k].shares = Left(k)'
    <3> TAKE k \in DOMAIN order_index'
    <3>1. k \in 1..NOrders /\ k \in DOMAIN order_index  BY <1>3, <2>4, <2>5
    <3>2. CASE k = ref
      <4>1. Left(ref) # 1  BY <2>4, <3>2
      <4> QED  BY <1>6, <1>7, <2>4, <3>1, <3>2, <4>1
    <3>3. CASE k # ref  BY <1>3, <1>6, <1>7, <2>4, <3>1, <3>3
    <3> QED  BY <3>2, <3>3
  <2>7. Beyond(NOrders * BenchShares) = 0 /\ Beyond(NOrders * BenchShares)' = 0
    <3>1. NOrders * (q + 1) <= NOrders * BenchShares  BY <1>2, <1>11
    <3>2. NOrders * (q + 1) = NOrders * q + NOrders  BY <1>2
    <3>3. NOrders * q \in Nat  BY <1>2
    <3>4. idx + 1 <= NOrders * BenchShares  BY <1>2, <1>4, <1>10, <3>1, <3>2, <3>3
    <3> QED  BY <1>1, <1>2, <1>10, <3>4 DEF Beyond
  <2> QED  BY <1>1, <1>2, <1>3, <2>4, <2>5, <2>6, <2>7 DEF MicroInv
<1>12. CASE q >= BenchShares
  <2>1. ref \notin DOMAIN order_index  BY <1>2, <1>3, <1>9, <1>12
  <2>2. skipped_unknown_ref' = skipped_unknown_ref + 1 /\ order_index' = order_index
        BY <1>7, <2>1, ExecuteChanges
  <2>3. \A k \in 1..NOrders : (Left(k)' > 0 <=> Left(k) > 0) /\ (Left(k) > 0 => Left(k)' = Left(k))
        BY <1>2, <1>6, <1>7, <1>8, <1>9, <1>12
  <2>4. DOMAIN order_index' = {k \in 1..NOrders : Left(k)' > 0}  BY <1>3, <2>2, <2>3
  <2>5. Beyond(NOrders * BenchShares)' = Beyond(NOrders * BenchShares) + 1
    <3>1. NOrders * BenchShares <= NOrders * q  BY <1>2, <1>12
    <3>2. NOrders * q \in Nat  BY <1>2
    <3>3. NOrders * BenchShares <= idx  BY <1>2, <1>4, <1>10, <3>1, <3>2
    <3> QED  BY <1>1, <1>2, <1>10, <3>3 DEF Beyond
  <2>6. \A k \in DOMAIN order_index' :
           "shares" \in DOMAIN order_index'[k] /\ order_index'[k].shares = Left(k)'
        BY <1>3, <2>2, <2>3
  <2> QED  BY <1>1, <1>2, <1>3, <2>2, <2>4, <2>5, <2>6 DEF MicroInv
<1> QED  BY <1>2, <1>11, <1>12

(* Where the micro-benchmarks do not change what counts. *)
LEMMA MicroStays ==
    ASSUME MicroInv, UNCHANGED <<order_index, skipped_unknown_ref, benchVars>>
    PROVE  MicroInv'
<1>1. UNCHANGED <<benchmark, ops, live, next_ref, seeded, idx>>  BY DEF benchVars
<1> QED  BY <1>1 DEF MicroInv, Left, Turned, Beyond

(* The engine of BM_DeleteOrder is replaced by a new one. *)
LEMMA NewEngineStep ==
    ASSUME MicroInv, NewEngine
    PROVE  MicroInv'
<1>1. /\ benchmark' = "delete" /\ order_index' = EmptyMap /\ skipped_unknown_ref' = 0
      /\ seeded' = 0 /\ idx' = 0
      BY DEF NewEngine
<1>2. DOMAIN order_index' = (idx' + 1)..seeded'  BY <1>1 DEF EmptyMap
<1> QED  BY <1>1, <1>2, BenchAssumption DEF MicroInv

(* The mixed workload and the exchange do not meet the micro-benchmarks. *)
LEMMA OtherFeeds ==
    ASSUME MicroInv, benchmark' = benchmark, seeded' = seeded, idx' \in Nat,
           benchmark \in {"none", "mixed"}
    PROVE  MicroInv'
BY DEF MicroInv

LEMMA MicroStep ==
    ASSUME MicroInv, [FeedsNext]_feedVars
    PROVE  MicroInv'
<1>1. CASE UNCHANGED feedVars
  <2>1. UNCHANGED <<order_index, skipped_unknown_ref, benchVars>>
        BY <1>1 DEF feedVars, gapVars, vars
  <2> QED  BY <2>1, MicroStays
<1>2. CASE benchmark = "none" /\ GapNext /\ UNCHANGED benchVars
  <2>1. UNCHANGED <<benchmark, seeded, idx>>  BY <1>2 DEF benchVars
  <2> QED  BY <1>2, <2>1, OtherFeeds DEF MicroInv
<1>3. CASE BenchRegister
  <2>1. UNCHANGED <<order_index, skipped_unknown_ref, benchVars>>
        BY <1>3 DEF BenchRegister, RegisterInstrument, countVars
  <2> QED  BY <2>1, MicroStays
<1>4. CASE BuildAdd \/ BuildDelete \/ BuildExecute
  <2>1. benchmark = "mixed" /\ UNCHANGED <<benchmark, seeded, idx>>
        BY <1>4 DEF BuildAdd, BuildDelete, BuildExecute, Push
  <2> QED  BY <2>1, OtherFeeds DEF MicroInv
<1>5. CASE ApplyMixed
  <2>1. /\ benchmark = "mixed" /\ UNCHANGED <<benchmark, seeded>> /\ Built
        /\ idx' = (idx + 1) % Len(ops)
        BY <1>5 DEF ApplyMixed
  <2>2. PICK n \in Nat \ {0} : n = Len(ops)  BY <2>1, BenchAssumption DEF Built
  <2>3. PICK i \in Nat : i = idx + 1  BY DEF MicroInv
  <2>4. i % n \in 0..(n - 1)  OBVIOUS
  <2>5. idx' \in Nat  BY <2>1, <2>2, <2>3, <2>4
  <2> QED  BY <2>1, <2>5, OtherFeeds
<1> QED  BY <1>1, <1>2, <1>3, <1>4, <1>5, SeedStep, DeleteStep, NewEngineStep, ReplaceStep,
             ExecuteStep DEF FeedsNext, BenchNext

LEMMA MicroInit ==
    ASSUME FeedsInit
    PROVE  MicroInv
<1>1. /\ order_index = EmptyMap /\ skipped_unknown_ref = 0 /\ seeded = 0 /\ idx = 0
      /\ benchmark = "replace" => next_ref = NOrders + 1
      BY DEF FeedsInit, BenchInit, Init, BenchIdle
<1>2. NOrders \in Nat \ {0} /\ BenchShares \in Nat \ {0} /\ NOrders * BenchShares \in Nat
      BY BenchAssumption
<1>3. DOMAIN order_index = {}  BY <1>1 DEF EmptyMap
<1>4. (idx + 1)..seeded = {} /\ (Turned + 1)..(seeded + Turned) = {} /\ 1..seeded = {}
      BY <1>1, <1>2 DEF Turned
<1>5. Beyond(NOrders) = 0 /\ Beyond(NOrders * BenchShares) = 0  BY <1>1, <1>2 DEF Beyond
<1>6. NOrders + 1 = NOrders + 1 + 0  BY <1>2
<1> QED  BY <1>1, <1>2, <1>3, <1>4, <1>5, <1>6 DEF MicroInv

(* The invariant of the delete, execute and replace loops holds always. *)
THEOREM MicroInvariance == FeedsSpec => []MicroInv
BY MicroInit, MicroStep, PTL DEF FeedsSpec

(* MicrosHit: for any number of orders, shares and iterations, every       *)
(* delete of BM_DeleteOrder finds its order; BM_ExecuteOrder misses after  *)
(* all shares are gone and BM_ReplaceOrder after its first round.          *)
THEOREM MicrosCorrect == FeedsSpec => []MicrosHit
<1>1. MicroInv => MicrosHit
  <2> SUFFICES ASSUME MicroInv  PROVE MicrosHit  OBVIOUS
  <2>1. seeded \in Nat /\ idx \in Nat /\ NOrders \in Nat \ {0} /\ seeded <= NOrders
        BY BenchAssumption DEF MicroInv
  <2>2. ASSUME benchmark = "delete"
        PROVE  skipped_unknown_ref = 0 /\ Cardinality(DOMAIN order_index) = seeded - idx
    <3>1. DOMAIN order_index = (idx + 1)..seeded /\ skipped_unknown_ref = 0 /\ idx <= seeded
          BY <2>1, <2>2 DEF MicroInv
    <3>2. PICK a \in Int : a = idx + 1  BY <2>1
    <3>3. Cardinality(a..seeded) = IF a > seeded THEN 0 ELSE seeded - a + 1
          BY <2>1, FS_Interval
    <3> QED  BY <2>1, <3>1, <3>2, <3>3
  <2>3. ASSUME benchmark = "replace"
        PROVE  skipped_unknown_ref = Beyond(NOrders) /\ Cardinality(DOMAIN order_index) = seeded
    <3>1. /\ DOMAIN order_index = (Turned + 1)..(seeded + Turned)
          /\ skipped_unknown_ref = Beyond(NOrders)
          BY <2>3 DEF MicroInv
    <3>2. Turned \in Nat  BY <2>1 DEF Turned
    <3>3. PICK a \in Int, b \in Int : a = Turned + 1 /\ b = seeded + Turned  BY <2>1, <3>2
    <3>4. Cardinality(a..b) = IF a > b THEN 0 ELSE b - a + 1  BY FS_Interval
    <3> QED  BY <2>1, <3>1, <3>2, <3>3, <3>4
  <2> QED  BY <2>2, <2>3 DEF MicroInv, MicrosHit
<1> QED  BY MicroInvariance, <1>1, PTL

----------------------------------------------------------------------------
(* The mixed workload *)

Ops == [op : {"OP_ADD"}, ref : Nat, price : Prices, side : {"B", "S"}]
       \cup [op : {"OP_DELETE", "OP_EXECUTE"}, ref : Nat]

(* Among the first n operations r is added and not deleted. *)
Alive(o, r, n) ==
    /\ \E j \in 1..n : o[j].op = "OP_ADD" /\ o[j].ref = r
    /\ \A j \in 1..n : o[j].op = "OP_DELETE" => o[j].ref # r
Executions(o, r, n) == {j \in 1..n : o[j].op = "OP_EXECUTE" /\ o[j].ref = r}

(* The builder's bookkeeping: a delete or an execution is of a reference   *)
(* that is alive at that place of the workload.                            *)
Workload(o, alive, next) ==
    /\ o \in Seq(Ops) /\ next \in Nat
    /\ \A i \in 1..Len(o) : o[i].ref < next
    /\ \A r \in alive : Alive(o, r, Len(o))
    /\ \A i \in 1..Len(o) : o[i].op # "OP_ADD" => Alive(o, o[i].ref, i - 1)

(* In every round an order alive at this place rests with the shares the   *)
(* executions of this round have left it, at least.                        *)
MixedInv ==
    benchmark = "mixed" =>
        /\ Workload(ops, live, next_ref)
        /\ idx \in Nat /\ (idx = 0 \/ idx < Len(ops))
        /\ ~Built => idx = 0 /\ skipped_unknown_ref = 0
        /\ ~Exhausts =>
              /\ skipped_unknown_ref = 0
              /\ \A r : Alive(ops, r, idx) =>
                    /\ r \in DOMAIN order_index /\ "shares" \in DOMAIN order_index[r]
                    /\ order_index[r].shares \in Nat
                    /\ order_index[r].shares + Cardinality(Executions(ops, r, idx)) >= BenchShares

LEMMA ExecutionsFinite ==
    ASSUME NEW o, NEW r, NEW n \in Nat
    PROVE  IsFiniteSet(Executions(o, r, n)) /\ Cardinality(Executions(o, r, n)) \in Nat
<1>1. IsFiniteSet(1..n)  BY FS_Interval
<1> QED  BY <1>1, FS_Subset, FS_CardinalityType DEF Executions

(* An operation appended does not change what came before it. *)
LEMMA Prefix ==
    ASSUME NEW o \in Seq(Ops), NEW s \in Ops, NEW n \in 0..Len(o), NEW r
    PROVE  /\ Append(o, s) \in Seq(Ops) /\ Len(Append(o, s)) = Len(o) + 1
           /\ Append(o, s)[Len(o) + 1] = s
           /\ \A i \in 1..Len(o) : Append(o, s)[i] = o[i]
           /\ Alive(Append(o, s), r, n) <=> Alive(o, r, n)
<1>1. /\ Append(o, s) \in Seq(Ops) /\ Len(Append(o, s)) = Len(o) + 1
      /\ Append(o, s)[Len(o) + 1] = s
      /\ \A i \in 1..Len(o) : Append(o, s)[i] = o[i]
      BY AppendProperties
<1>2. \A i \in 1..n : i \in 1..Len(o)  BY LenProperties
<1>3. PICK a : a = Append(o, s)  OBVIOUS
<1>4. \A i \in 1..n : a[i] = o[i]  BY <1>1, <1>2, <1>3
<1>5. Alive(a, r, n) <=> Alive(o, r, n)  BY <1>4 DEF Alive
<1> QED  BY <1>1, <1>3, <1>5

(* One operation further. *)
LEMMA AliveNext ==
    ASSUME NEW o, NEW n \in Nat, NEW r
    PROVE  /\ o[n + 1].op = "OP_ADD" /\ o[n + 1].ref # r /\ Alive(o, r, n + 1) => Alive(o, r, n)
           /\ o[n + 1].op = "OP_DELETE" /\ Alive(o, r, n + 1)
                 => Alive(o, r, n) /\ r # o[n + 1].ref
           /\ o[n + 1].op = "OP_EXECUTE" => (Alive(o, r, n + 1) <=> Alive(o, r, n))
<1>1. 1..(n + 1) = (1..n) \cup {n + 1}  OBVIOUS
<1> QED  BY <1>1 DEF Alive

LEMMA WorkloadGrows ==
    ASSUME NEW o, NEW alive, NEW next, Workload(o, alive, next), NEW s \in Ops,
           NEW alive2, NEW next2 \in Nat, next <= next2, s.ref < next2,
           s.op # "OP_ADD" => s.ref \in alive,
           \A r \in alive2 : Alive(Append(o, s), r, Len(o) + 1)
    PROVE  Workload(Append(o, s), alive2, next2)
<1> DEFINE a == Append(o, s)
           n == Len(o)
<1>1. o \in Seq(Ops) /\ next \in Nat /\ n \in Nat  BY LenProperties DEF Workload
<1>2. /\ a \in Seq(Ops) /\ Len(a) = n + 1 /\ a[n + 1] = s
      /\ \A i \in 1..n : a[i] = o[i]
  <2>1. n \in 0..Len(o)  BY <1>1
  <2> QED  BY <1>1, <2>1, Prefix
<1>3. \A m \in 0..n : \A r : Alive(a, r, m) <=> Alive(o, r, m)  BY <1>1, Prefix
<1> HIDE DEF a, n
<1>4. ASSUME NEW i \in 1..Len(a)
      PROVE  a[i].ref < next2 /\ (a[i].op # "OP_ADD" => Alive(a, a[i].ref, i - 1))
  <2>1. CASE i = n + 1
    <3>1. i - 1 = n /\ n \in 0..n  BY <1>1, <2>1
    <3>2. s.op # "OP_ADD" => Alive(o, s.ref, n)  BY DEF Workload, n
    <3> QED  BY <1>2, <1>3, <2>1, <3>1, <3>2
  <2>2. CASE i \in 1..n
    <3>1. o[i].ref < next /\ (o[i].op # "OP_ADD" => Alive(o, o[i].ref, i - 1))
          BY <2>2 DEF Workload, n
    <3>2. o[i] \in Ops  BY <1>1, <2>2, ElementOfSeq DEF n
    <3>3. o[i].ref \in Nat  BY <3>2 DEF Ops
    <3>4. i - 1 \in 0..n  BY <1>1, <2>2
    <3> QED  BY <1>1, <1>2, <1>3, <2>2, <3>1, <3>3, <3>4
  <2> QED  BY <1>1, <1>2, <2>1, <2>2
<1>5. \A r \in alive2 : Alive(a, r, Len(a))  BY <1>2 DEF a, n
<1>6. Workload(a, alive2, next2)  BY <1>2, <1>4, <1>5 DEF Workload
<1> QED  BY <1>6 DEF a

(* The builder goes on: nothing has been applied yet. *)
LEMMA BuildStep ==
    ASSUME MixedInv, BuildAdd \/ BuildDelete \/ BuildExecute
    PROVE  MixedInv'
<1>1. /\ benchmark = "mixed" /\ ~Built
      /\ UNCHANGED <<order_index, skipped_unknown_ref, benchmark, seeded, idx>>
      BY DEF BuildAdd, BuildDelete, BuildExecute, Push, vars
<1>2. Workload(ops, live, next_ref) /\ idx = 0 /\ skipped_unknown_ref = 0
      BY <1>1 DEF MixedInv
<1>3. /\ ops \in Seq(Ops) /\ next_ref \in Nat /\ Len(ops) \in Nat /\ Len(ops) \in 0..Len(ops)
      /\ \A i \in 1..Len(ops) : ops[i].ref < next_ref
      /\ \A r \in live : Alive(ops, r, Len(ops))
      BY <1>2, LenProperties DEF Workload
<1>4. ASSUME NEW r \in live
      PROVE  r \in Nat /\ r < next_ref
  <2>1. PICK j \in 1..Len(ops) : ops[j].ref = r  BY <1>3, <1>4 DEF Alive
  <2>2. ops[j] \in Ops  BY <1>3, ElementOfSeq
  <2> QED  BY <1>3, <2>1, <2>2 DEF Ops
<1>5. Workload(ops', live', next_ref')
  <2>1. CASE BuildAdd
    <3>1. PICK p \in Prices, side \in {"B", "S"} :
             /\ Push([op |-> "OP_ADD", ref |-> next_ref, price |-> p, side |-> side])
             /\ live' = live \cup {next_ref} /\ next_ref' = next_ref + 1
          BY <2>1 DEF BuildAdd
    <3>2. PICK s : s = [op |-> "OP_ADD", ref |-> next_ref, price |-> p, side |-> side]
          OBVIOUS
    <3>3. s \in Ops /\ s.op = "OP_ADD" /\ s.ref = next_ref  BY <1>3, <3>2 DEF Ops
    <3>4. ops' = Append(ops, s)  BY <3>1, <3>2 DEF Push
    <3>5. /\ ops'[Len(ops) + 1] = s /\ \A i \in 1..Len(ops) : ops'[i] = ops[i]
          BY <1>3, <3>3, <3>4, Prefix
    <3>6. 1..(Len(ops) + 1) = (1..Len(ops)) \cup {Len(ops) + 1}  BY <1>3
    <3>7. ASSUME NEW r \in live'  PROVE Alive(ops', r, Len(ops) + 1)
      <4>1. CASE r = next_ref
        <5>1. \A i \in 1..Len(ops) : ops[i].ref # r  BY <1>3, <4>1
        <5> QED  BY <3>3, <3>5, <3>6, <4>1, <5>1 DEF Alive
      <4>2. CASE r \in live  BY <1>3, <3>3, <3>5, <3>6, <4>2 DEF Alive
      <4> QED  BY <3>1, <4>1, <4>2
    <3>8. next_ref' \in Nat /\ next_ref <= next_ref' /\ s.ref < next_ref'
          BY <1>3, <3>1, <3>3
    <3> QED  BY <1>2, <3>3, <3>4, <3>7, <3>8, WorkloadGrows
  <2>2. CASE BuildDelete \/ BuildExecute
    <3>1. PICK r \in live, kind \in {"OP_DELETE", "OP_EXECUTE"} :
             /\ Push([op |-> kind, ref |-> r])
             /\ live' = (IF kind = "OP_DELETE" THEN live \ {r} ELSE live)
             /\ next_ref' = next_ref
          BY <2>2 DEF BuildDelete, BuildExecute
    <3>2. PICK s : s = [op |-> kind, ref |-> r]  OBVIOUS
    <3>3. s \in Ops /\ s.op = kind /\ s.ref = r  BY <1>4, <3>2 DEF Ops
    <3>4. ops' = Append(ops, s)  BY <3>1, <3>2 DEF Push
    <3>5. /\ ops'[Len(ops) + 1] = s /\ \A i \in 1..Len(ops) : ops'[i] = ops[i]
          BY <1>3, <3>3, <3>4, Prefix
    <3>6. 1..(Len(ops) + 1) = (1..Len(ops)) \cup {Len(ops) + 1}  BY <1>3
    <3>7. ASSUME NEW x \in live'  PROVE Alive(ops', x, Len(ops) + 1)
      <4>1. x \in live /\ ~(kind = "OP_DELETE" /\ x = r)  BY <3>1, <3>7
      <4>2. Alive(ops, x, Len(ops))  BY <1>3, <4>1
      <4> QED  BY <3>3, <3>5, <3>6, <4>1, <4>2 DEF Alive
    <3>8. next_ref' \in Nat /\ next_ref <= next_ref' /\ s.ref < next_ref'
          BY <1>3, <1>4, <3>1, <3>3
    <3> QED  BY <1>2, <3>1, <3>3, <3>4, <3>7, <3>8, WorkloadGrows
  <2> QED  BY <2>1, <2>2
<1>6. \A r : ~Alive(ops', r, 0)  BY DEF Alive
<1> QED  BY <1>1, <1>2, <1>5, <1>6 DEF MixedInv

(* The timed loop: the target of a delete or an execution rests. *)
LEMMA ApplyMixedStep ==
    ASSUME MixedInv, ApplyMixed
    PROVE  MixedInv'
<1>1. /\ benchmark = "mixed" /\ Built /\ idx' = (idx + 1) % Len(ops)
      /\ UNCHANGED <<benchmark, ops, live, next_ref, seeded>>
      BY DEF ApplyMixed
<1>2. Workload(ops, live, next_ref) /\ idx \in Nat /\ (idx = 0 \/ idx < Len(ops))
      BY <1>1 DEF MixedInv
<1>3. ops \in Seq(Ops) /\ Len(ops) \in Nat \ {0} /\ BenchShares \in Nat \ {0}
      BY <1>1, <1>2, BenchAssumption, LenProperties DEF Workload, Built
<1>4. PICK i \in 1..Len(ops) : i = idx + 1  BY <1>2, <1>3
<1>5. PICK s \in Ops : s = ops[i]  BY <1>3, ElementOfSeq
<1>6. idx' \in Nat /\ idx' \in {0, i} /\ idx' < Len(ops)
  <2>1. PICK n \in Nat \ {0} : n = Len(ops)  BY <1>3
  <2>2. idx' = i % n  BY <1>1, <1>4, <2>1
  <2>3. i % n \in 0..(n - 1) /\ (i \in 0..(n - 1) => i % n = i)  BY <1>3
  <2>4. i = n => i % n = 0
    <3>1. n % n = 0  OBVIOUS
    <3> QED  BY <3>1
  <2> QED  BY <1>4, <2>1, <2>2, <2>3, <2>4
<1>7. Exhausts' = Exhausts /\ Built' = Built  BY <1>1 DEF Exhausts, Built
<1>8. ASSUME ~Exhausts
      PROVE  /\ skipped_unknown_ref' = 0
             /\ \A r : Alive(ops, r, i) =>
                   /\ r \in DOMAIN order_index' /\ "shares" \in DOMAIN order_index'[r]
                   /\ order_index'[r].shares \in Nat
                   /\ order_index'[r].shares + Cardinality(Executions(ops, r, i)) >= BenchShares
  <2>1. /\ skipped_unknown_ref = 0
        /\ \A r : Alive(ops, r, idx) =>
              /\ r \in DOMAIN order_index /\ "shares" \in DOMAIN order_index[r]
              /\ order_index[r].shares \in Nat
              /\ order_index[r].shares + Cardinality(Executions(ops, r, idx)) >= BenchShares
        BY <1>1, <1>8 DEF MixedInv
  <2>2. 1..i = (1..idx) \cup {i} /\ i \notin 1..idx /\ i - 1 = idx  BY <1>2, <1>4
  <2>3. s.op # "OP_ADD" => Alive(ops, s.ref, idx)
        BY <1>2, <1>5, <2>2 DEF Workload
  <2>4. \A r : ~(s.op = "OP_EXECUTE" /\ r = s.ref) =>
                  Executions(ops, r, i) = Executions(ops, r, idx)
        BY <1>5, <2>2 DEF Executions
  <2>5. \A r : Cardinality(Executions(ops, r, idx)) \in Nat
        BY <1>2, ExecutionsFinite
  <2>6. /\ \A r : s.op = "OP_ADD" /\ s.ref # r /\ Alive(ops, r, i) => Alive(ops, r, idx)
        /\ \A r : s.op = "OP_DELETE" /\ Alive(ops, r, i) => Alive(ops, r, idx) /\ r # s.ref
        /\ \A r : s.op = "OP_EXECUTE" => (Alive(ops, r, i) <=> Alive(ops, r, idx))
        BY <1>2, <1>4, <1>5, AliveNext
  <2>7. CASE s.op = "OP_ADD"
    <3>1. PICK ref, side, price : ref = s.ref /\ apply_add(ref, side, BenchShares, price)
          BY <1>4, <1>5, <2>7 DEF ApplyMixed
    <3>2. /\ skipped_unknown_ref' = skipped_unknown_ref
          /\ DOMAIN order_index' = DOMAIN order_index \cup {ref}
          /\ "shares" \in DOMAIN order_index'[ref] /\ order_index'[ref].shares = BenchShares
          /\ \A r \in DOMAIN order_index : r # ref => order_index'[r] = order_index[r]
          BY <3>1, AddChanges
    <3>3. ASSUME NEW r, Alive(ops, r, i)
          PROVE  /\ r \in DOMAIN order_index' /\ "shares" \in DOMAIN order_index'[r]
                 /\ order_index'[r].shares \in Nat
                 /\ order_index'[r].shares + Cardinality(Executions(ops, r, i)) >= BenchShares
      <4>1. Executions(ops, r, i) = Executions(ops, r, idx)  BY <2>4, <2>7
      <4>2. CASE r = ref  BY <1>3, <2>5, <3>2, <4>1, <4>2
      <4>3. CASE r # ref
        <5>1. Alive(ops, r, idx)  BY <2>6, <2>7, <3>1, <3>3, <4>3
        <5>2. order_index'[r] = order_index[r] /\ r \in DOMAIN order_index'
              BY <2>1, <3>2, <4>3, <5>1
        <5> QED  BY <2>1, <4>1, <5>1, <5>2
      <4> QED  BY <4>2, <4>3
    <3> QED  BY <2>1, <3>2, <3>3
  <2>8. CASE s.op = "OP_DELETE"
    <3>1. PICK ref : ref = s.ref /\ apply_delete(ref)
          BY <1>4, <1>5, <2>8 DEF ApplyMixed
    <3>2. ref \in DOMAIN order_index  BY <2>1, <2>3, <2>8, <3>1
    <3>3. /\ skipped_unknown_ref' = skipped_unknown_ref
          /\ DOMAIN order_index' = DOMAIN order_index \ {ref}
          /\ \A r \in DOMAIN order_index' : order_index'[r] = order_index[r]
          BY <3>1, <3>2, DeleteChanges
    <3>4. ASSUME NEW r, Alive(ops, r, i)
          PROVE  /\ r \in DOMAIN order_index' /\ "shares" \in DOMAIN order_index'[r]
                 /\ order_index'[r].shares \in Nat
                 /\ order_index'[r].shares + Cardinality(Executions(ops, r, i)) >= BenchShares
      <4>1. Executions(ops, r, i) = Executions(ops, r, idx)  BY <2>4, <2>8
      <4>2. Alive(ops, r, idx) /\ r # ref  BY <2>6, <2>8, <3>1, <3>4
      <4>3. r \in DOMAIN order_index'  BY <2>1, <3>3, <4>2
      <4>4. order_index'[r] = order_index[r]  BY <3>3, <4>3
      <4> QED  BY <2>1, <4>1, <4>2, <4>3, <4>4
    <3> QED  BY <2>1, <3>3, <3>4
  <2>9. CASE s.op = "OP_EXECUTE"
    <3>1. PICK ref : ref = s.ref /\ apply_execute(ref, 1)
          BY <1>4, <1>5, <2>9 DEF ApplyMixed
    <3>2. PICK n \in Nat : n = Cardinality(Executions(ops, ref, idx))  BY <2>5
    <3>3. /\ ref \in DOMAIN order_index /\ "shares" \in DOMAIN order_index[ref]
          /\ order_index[ref].shares \in Nat /\ order_index[ref].shares + n >= BenchShares
          BY <2>1, <2>3, <2>9, <3>1, <3>2
    <3>4. Cardinality(Executions(ops, ref, i)) = n + 1
      <4>1. Executions(ops, ref, i) = Executions(ops, ref, idx) \cup {i}
            BY <1>5, <2>2, <2>9, <3>1 DEF Executions
      <4>2. i \notin Executions(ops, ref, idx)  BY <2>2 DEF Executions
      <4>3. IsFiniteSet(Executions(ops, ref, idx))  BY <1>2, ExecutionsFinite
      <4> QED  BY <3>2, <4>1, <4>2, <4>3, FS_AddElement
    <3>5. n + 1 < BenchShares
      <4> DEFINE all == {j \in DOMAIN ops : ops[j].op = "OP_EXECUTE" /\ ops[j].ref = ref}
      <4>1. DOMAIN ops = 1..Len(ops)  BY <1>3, LenProperties
      <4>2. IsFiniteSet(1..Len(ops))  BY <1>3, FS_Interval
      <4>3. IsFiniteSet(all) /\ Cardinality(all) \in Nat
            BY <4>1, <4>2, FS_Subset, FS_CardinalityType
      <4>4. ~(Cardinality(all) >= BenchShares)  BY <1>5, <1>8, <3>1, <4>1 DEF Exhausts
      <4>5. 1..i \subseteq 1..Len(ops)  BY <1>3
      <4>6. Executions(ops, ref, i) \subseteq all  BY <4>1, <4>5 DEF Executions
      <4>7. Cardinality(Executions(ops, ref, i)) <= Cardinality(all)  BY <4>3, <4>6, FS_Subset
      <4> HIDE DEF all
      <4> QED  BY <1>3, <3>4, <4>3, <4>4, <4>7
    <3>6. order_index[ref].shares > 1  BY <1>3, <3>3, <3>5
    <3>7. /\ skipped_unknown_ref' = skipped_unknown_ref
          /\ DOMAIN order_index' = DOMAIN order_index
          /\ "shares" \in DOMAIN order_index'[ref]
          /\ order_index'[ref].shares = order_index[ref].shares - 1
          /\ \A r \in DOMAIN order_index : r # ref => order_index'[r] = order_index[r]
      <4>1. order_index[ref].shares > 0 /\ order_index[ref].shares # 1  BY <3>3, <3>6
      <4> QED  BY <3>1, <3>3, <4>1, ExecuteChanges
    <3>8. ASSUME NEW r, Alive(ops, r, i)
          PROVE  /\ r \in DOMAIN order_index' /\ "shares" \in DOMAIN order_index'[r]
                 /\ order_index'[r].shares \in Nat
                 /\ order_index'[r].shares + Cardinality(Executions(ops, r, i)) >= BenchShares
      <4>1. Alive(ops, r, idx)  BY <2>6, <2>9, <3>8
      <4>2. CASE r = ref
        <5>1. PICK m \in Nat : m = order_index[ref].shares  BY <3>3
        <5>2. m - 1 \in Nat /\ (m - 1) + (n + 1) >= BenchShares  BY <1>3, <3>3, <3>6, <5>1
        <5> QED  BY <3>3, <3>4, <3>7, <4>2, <5>1, <5>2
      <4>3. CASE r # ref
        <5>1. Executions(ops, r, i) = Executions(ops, r, idx)  BY <2>4, <3>1, <4>3
        <5>2. order_index'[r] = order_index[r] /\ r \in DOMAIN order_index'
              BY <2>1, <3>7, <4>1, <4>3
        <5> QED  BY <2>1, <4>1, <5>1, <5>2
      <4> QED  BY <4>2, <4>3
    <3> QED  BY <2>1, <3>7, <3>8
  <2> QED  BY <2>7, <2>8, <2>9 DEF Ops
<1>9. \A r : ~Alive(ops, r, 0)  BY DEF Alive
<1>10. CASE idx' = 0  BY <1>1, <1>2, <1>7, <1>8, <1>9, <1>10 DEF MixedInv
<1>11. CASE idx' = i  BY <1>1, <1>2, <1>6, <1>7, <1>8, <1>11 DEF MixedInv
<1> QED  BY <1>6, <1>10, <1>11

LEMMA MixedStep ==
    ASSUME MixedInv, [FeedsNext]_feedVars
    PROVE  MixedInv'
<1>1. CASE UNCHANGED <<order_index, skipped_unknown_ref, benchVars>>
      BY <1>1 DEF benchVars, MixedInv, Exhausts, Built
<1>2. CASE UNCHANGED feedVars
      BY <1>1, <1>2 DEF feedVars, gapVars, vars
<1>3. CASE benchmark = "none" /\ GapNext /\ UNCHANGED benchVars
      BY <1>3 DEF benchVars, MixedInv
<1>4. CASE BenchRegister
      BY <1>1, <1>4 DEF BenchRegister, RegisterInstrument, countVars
<1>5. CASE SeedEngine \/ BenchDelete \/ NewEngine \/ BenchReplace \/ BenchExecute
  <2>1. benchmark' # "mixed"
        BY <1>5 DEF SeedEngine, BenchDelete, NewEngine, BenchReplace, BenchExecute, Iteration
  <2> QED  BY <2>1 DEF MixedInv
<1> QED  BY <1>2, <1>3, <1>4, <1>5, BuildStep, ApplyMixedStep DEF FeedsNext, BenchNext

LEMMA MixedInit ==
    ASSUME FeedsInit
    PROVE  MixedInv
<1> SUFFICES ASSUME benchmark = "mixed"  PROVE MixedInv  BY DEF MixedInv
<1>1. ops = <<>> /\ live = {} /\ idx = 0 /\ next_ref = 1 /\ skipped_unknown_ref = 0
      BY DEF FeedsInit, BenchInit, BenchIdle, Init
<1>2. ops \in Seq(Ops) /\ Len(ops) = 0  BY <1>1, EmptySeq
<1>3. Workload(ops, live, next_ref)  BY <1>1, <1>2 DEF Workload
<1>4. \A r : ~Alive(ops, r, idx)  BY <1>1 DEF Alive
<1> QED  BY <1>1, <1>3, <1>4 DEF MixedInv

(* The invariant of the mixed workload holds in every round. *)
THEOREM MixedInvariance == FeedsSpec => []MixedInv
BY MixedInit, MixedStep, PTL DEF FeedsSpec

(* MixedTargetsLive: in every round of the mixed workload, for any sizes,  *)
(* deletes and executions find their orders, unless the workload executes  *)
(* an order as often as it has shares.                                     *)
THEOREM MixedCorrect == FeedsSpec => []MixedTargetsLive
<1>1. MixedInv => MixedTargetsLive  BY DEF MixedInv, MixedTargetsLive
<1> QED  BY MixedInvariance, <1>1, PTL

----------------------------------------------------------------------------
(* The rounds of the mixed workload on top of each other *)

(* The order the workload enters under r, as n operations of a round leave *)
(* it, and all orders they leave.                                          *)
Adding(o, r) == CHOOSE j \in 1..Len(o) : o[j].op = "OP_ADD" /\ o[j].ref = r
RecordOf(o, r, n, l) ==
    [shares |-> BenchShares - Cardinality(Executions(o, r, n)),
     price |-> o[Adding(o, r)].price, stock_locate |-> l,
     side |-> o[Adding(o, r)].side, mpid |-> NoMpid]
AliveRefs(o, n) == {r \in Refs : Alive(o, r, n)}
Round(o, n, l) == [r \in AliveRefs(o, n) |-> RecordOf(o, r, n, l)]

(* The index after k rounds and n operations: an order that outlived the   *)
(* round before stays until it is added anew.                              *)
IndexAt(o, n, l, k) ==
    [r \in AliveRefs(o, n) \cup (IF k = 0 THEN {} ELSE AliveRefs(o, Len(o))) |->
        IF Alive(o, r, n) THEN RecordOf(o, r, n, l) ELSE RecordOf(o, r, Len(o), l)]

(* The levels: what a whole round leaves k times, and what this one has    *)
(* left so far.                                                            *)
Piled(lv, whole, part, k) ==
    \A key \in LevelKeys :
        /\ CountAt(lv, key) = k * Cardinality(OrdersAt(whole, key))
                              + Cardinality(OrdersAt(part, key))
        /\ TotalAt(lv, key) = k * Cardinality(UnitsAt(whole, key))
                              + Cardinality(UnitsAt(part, key))
        /\ key \in DOMAIN lv => CountAt(lv, key) > 0

(* The builder gives out a reference once, and live is all that is alive. *)
Plan(o, alive, next) ==
    /\ Len(o) <= NOrders + NMixed
    /\ next \in 1..(Len(o) + 1)
    /\ \A i \in 1..Len(o) : o[i].ref \in Nat \ {0}
    /\ \A i, j \in 1..Len(o) :
          o[i].op = "OP_ADD" /\ o[j].op = "OP_ADD" /\ o[i].ref = o[j].ref => i = j
    /\ \A i \in 1..Len(o) : Alive(o, o[i].ref, Len(o)) => o[i].ref \in alive

Standing(l, k) ==
    /\ StateOK(order_index, levels, messages_processed)
    /\ messages_processed = k * Len(ops) + idx
    /\ order_index = IndexAt(ops, idx, l, k)
    /\ Piled(levels, Round(ops, Len(ops), l), Round(ops, idx, l), k)

(* Before the first operation nothing rests; then an engine with the one   *)
(* instrument of the benchmark stands at some place of some round.         *)
PileInv ==
    benchmark = "mixed" =>
        /\ Plan(ops, live, next_ref)
        /\ messages_processed \in Nat
        /\ messages_processed = 0 =>
              /\ order_index = EmptyMap /\ levels = EmptyMap /\ idx = 0
              /\ DOMAIN instruments \subseteq Locates
              /\ \A l, m \in DOMAIN instruments : l = m
        /\ ~Built => messages_processed = 0
        /\ Built /\ ~Exhausts /\ messages_processed > 0 =>
              \E l \in Locates, k \in Nat : DOMAIN instruments = {l} /\ Standing(l, k)

(* An order added in this round is one more at its level. *)
LEMMA PileAdd ==
    ASSUME NEW whole, IsMap(whole, Refs, OrderRecord), NEW part, IsMap(part, Refs, OrderRecord),
           NEW k \in Nat, NEW lv, IsMap(lv, LevelKeys, PriceLevel), Piled(lv, whole, part, k),
           NEW n \in Nat, n < MaxMessages, Room(lv, n),
           NEW r \in Refs, r \notin DOMAIN part, NEW rec \in OrderRecord
    PROVE  Piled(InsertShares(lv, KeyOf(rec), rec.shares), whole, Put(part, r, rec), k)
<1> DEFINE own == KeyOf(rec)
           ins == InsertShares(lv, own, rec.shares)
           p == Put(part, r, rec)
<1>1. own \in LevelKeys /\ rec.shares \in Uint32 /\ rec.shares \in Nat
      BY KeyOfType, WidthAssumption DEF OrderRecord, Uint32
<1>2. /\ DOMAIN ins = DOMAIN lv \cup {own}
      /\ CountAt(ins, own) = CountAt(lv, own) + 1
      /\ TotalAt(ins, own) = TotalAt(lv, own) + rec.shares
      /\ \A j : j # own => CountAt(ins, j) = CountAt(lv, j) /\ TotalAt(ins, j) = TotalAt(lv, j)
  <2>1. PICK q \in LevelKeys, s \in Uint32 : q = own /\ s = rec.shares  BY <1>1
  <2> HIDE DEF own
  <2> QED  BY <2>1, InsertEffect
<1>3. ASSUME NEW key \in LevelKeys
      PROVE  /\ own = key =>
                /\ Cardinality(OrdersAt(p, key)) = Cardinality(OrdersAt(part, key)) + 1
                /\ Cardinality(UnitsAt(p, key)) = Cardinality(UnitsAt(part, key)) + rec.shares
             /\ own # key => OrdersAt(p, key) = OrdersAt(part, key)
                             /\ UnitsAt(p, key) = UnitsAt(part, key)
      BY PlacedCounts
<1> HIDE DEF own, ins, p
<1>4. ASSUME NEW key \in LevelKeys
      PROVE  /\ CountAt(ins, key) = k * Cardinality(OrdersAt(whole, key))
                                    + Cardinality(OrdersAt(p, key))
             /\ TotalAt(ins, key) = k * Cardinality(UnitsAt(whole, key))
                                    + Cardinality(UnitsAt(p, key))
             /\ key \in DOMAIN ins => CountAt(ins, key) > 0
  <2>1. PICK x \in Nat, y \in Nat : /\ x = k * Cardinality(OrdersAt(whole, key))
                                    /\ y = k * Cardinality(UnitsAt(whole, key))
        BY FiniteAt
  <2>2. PICK c \in Nat, u \in Nat : /\ c = Cardinality(OrdersAt(part, key))
                                    /\ u = Cardinality(UnitsAt(part, key))
        BY FiniteAt
  <2>3. /\ CountAt(lv, key) = x + c /\ TotalAt(lv, key) = y + u
        /\ key \in DOMAIN lv => CountAt(lv, key) > 0
        BY <2>1, <2>2 DEF Piled
  <2>4. CASE key = own  BY <1>1, <1>2, <1>3, <2>1, <2>2, <2>3, <2>4
  <2>5. CASE key # own  BY <1>2, <1>3, <2>1, <2>2, <2>3, <2>5
  <2> QED  BY <2>4, <2>5
<1> QED  BY <1>4 DEF Piled, own, ins, p

(* The level of an order of this round has it. *)
LEMMA PileHolds ==
    ASSUME NEW whole, IsMap(whole, Refs, OrderRecord), NEW part, IsMap(part, Refs, OrderRecord),
           NEW k \in Nat, NEW lv, Piled(lv, whole, part, k), NEW r \in DOMAIN part
    PROVE  /\ KeyOf(part[r]) \in LevelKeys /\ part[r].shares \in Nat
           /\ 1 <= CountAt(lv, KeyOf(part[r]))
           /\ part[r].shares <= TotalAt(lv, KeyOf(part[r]))
<1> DEFINE own == KeyOf(part[r])
           e == Erase(part, r)
<1>1. part[r] \in OrderRecord /\ r \in Refs  BY DEF IsMap
<1>2. own \in LevelKeys /\ part[r].shares \in Nat
      BY <1>1, KeyOfType, WidthAssumption DEF OrderRecord, Uint32
<1>3. IsMap(e, Refs, OrderRecord)  BY <1>1, MapChanges
<1>4. /\ Cardinality(OrdersAt(part, own)) = Cardinality(OrdersAt(e, own)) + 1
      /\ Cardinality(UnitsAt(part, own)) = Cardinality(UnitsAt(e, own)) + part[r].shares
      BY ErasedCounts
<1> HIDE DEF own, e
<1>5. /\ Cardinality(OrdersAt(e, own)) \in Nat /\ Cardinality(UnitsAt(e, own)) \in Nat
      BY <1>3, FiniteAt
<1>6. PICK x \in Nat, y \in Nat : /\ x = k * Cardinality(OrdersAt(whole, own))
                                  /\ y = k * Cardinality(UnitsAt(whole, own))
      BY FiniteAt
<1>7. /\ CountAt(lv, own) = x + Cardinality(OrdersAt(part, own))
      /\ TotalAt(lv, own) = y + Cardinality(UnitsAt(part, own))
      BY <1>2, <1>6 DEF Piled
<1>8. 1 <= CountAt(lv, own) /\ part[r].shares <= TotalAt(lv, own)
      BY <1>2, <1>4, <1>5, <1>6, <1>7
<1> QED  BY <1>2, <1>8 DEF own

(* A deleted order of this round is gone from its level, and the level     *)
(* with it if no round has left anything there.                            *)
LEMMA PileDelete ==
    ASSUME NEW whole, IsMap(whole, Refs, OrderRecord), NEW part, IsMap(part, Refs, OrderRecord),
           NEW k \in Nat, NEW lv, IsMap(lv, LevelKeys, PriceLevel), Piled(lv, whole, part, k),
           NEW r \in DOMAIN part
    PROVE  Piled(RemoveShares(lv, KeyOf(part[r]), part[r].shares, TRUE), whole, Erase(part, r), k)
<1> DEFINE own == KeyOf(part[r])
           s == part[r].shares
           rem == RemoveShares(lv, own, s, TRUE)
           e == Erase(part, r)
<1>1. own \in LevelKeys /\ s \in Nat /\ 1 <= CountAt(lv, own) /\ s <= TotalAt(lv, own)
      BY PileHolds
<1>2. IsMap(e, Refs, OrderRecord)
  <2>1. part[r] \in OrderRecord /\ r \in Refs  BY DEF IsMap
  <2> QED  BY <2>1, MapChanges
<1>3. /\ DOMAIN rem \subseteq DOMAIN lv
      /\ CountAt(rem, own) = CountAt(lv, own) - 1
      /\ TotalAt(rem, own) = IF CountAt(rem, own) = 0 THEN 0 ELSE TotalAt(lv, own) - s
      /\ own \in DOMAIN rem => CountAt(rem, own) > 0
      /\ \A j : j # own => /\ j \in DOMAIN rem <=> j \in DOMAIN lv
                           /\ CountAt(rem, j) = CountAt(lv, j)
                           /\ TotalAt(rem, j) = TotalAt(lv, j)
  <2> HIDE DEF own, s
  <2> QED  BY <1>1, RemoveWhole
<1>4. ASSUME NEW key \in LevelKeys
      PROVE  /\ own = key =>
                /\ Cardinality(OrdersAt(part, key)) = Cardinality(OrdersAt(e, key)) + 1
                /\ Cardinality(UnitsAt(part, key)) = Cardinality(UnitsAt(e, key)) + s
             /\ own # key => OrdersAt(part, key) = OrdersAt(e, key)
                             /\ UnitsAt(part, key) = UnitsAt(e, key)
      BY ErasedCounts
<1> HIDE DEF own, s, rem, e
<1>5. ASSUME NEW key \in LevelKeys
      PROVE  /\ CountAt(rem, key) = k * Cardinality(OrdersAt(whole, key))
                                    + Cardinality(OrdersAt(e, key))
             /\ TotalAt(rem, key) = k * Cardinality(UnitsAt(whole, key))
                                    + Cardinality(UnitsAt(e, key))
             /\ key \in DOMAIN rem => CountAt(rem, key) > 0
  <2>1. PICK b \in Nat, w \in Nat : /\ b = Cardinality(OrdersAt(whole, key))
                                    /\ w = Cardinality(UnitsAt(whole, key))
        BY FiniteAt
  <2>2. PICK x \in Nat, y \in Nat : x = k * b /\ y = k * w  OBVIOUS
  <2>3. PICK c \in Nat, u \in Nat : /\ c = Cardinality(OrdersAt(e, key))
                                    /\ u = Cardinality(UnitsAt(e, key))
        BY <1>2, FiniteAt
  <2>4. /\ CountAt(lv, key) = x + Cardinality(OrdersAt(part, key))
        /\ TotalAt(lv, key) = y + Cardinality(UnitsAt(part, key))
        /\ key \in DOMAIN lv => CountAt(lv, key) > 0
        BY <2>1, <2>2 DEF Piled
  <2>5. CASE key = own
    <3>1. CountAt(lv, key) = x + c + 1 /\ TotalAt(lv, key) = y + u + s
          BY <1>1, <1>4, <2>3, <2>4, <2>5
    <3>2. CountAt(rem, key) = x + c  BY <1>3, <2>5, <3>1
    <3>3. ASSUME x + c = 0  PROVE y + u = 0
      <4>1. x = 0 /\ c = 0  BY <3>3
      <4>2. u = 0  BY <1>2, <2>3, <4>1, NoOrdersNoUnits
      <4>3. k = 0 \/ b = 0  BY <2>2, <4>1
      <4>4. b = 0 => w = 0  BY <2>1, NoOrdersNoUnits
      <4>5. y = 0  BY <2>2, <4>3, <4>4
      <4> QED  BY <4>2, <4>5
    <3>4. TotalAt(rem, key) = y + u  BY <1>1, <1>3, <2>5, <3>1, <3>2, <3>3
    <3> QED  BY <1>3, <2>1, <2>2, <2>3, <2>5, <3>2, <3>4
  <2>6. CASE key # own  BY <1>3, <1>4, <2>1, <2>2, <2>3, <2>4, <2>6
  <2> QED  BY <2>5, <2>6
<1> QED  BY <1>5 DEF Piled, own, s, rem, e

(* An execution takes one share off the order of this round. *)
LEMMA PileReduce ==
    ASSUME NEW whole, IsMap(whole, Refs, OrderRecord), NEW part, IsMap(part, Refs, OrderRecord),
           NEW k \in Nat, NEW lv, IsMap(lv, LevelKeys, PriceLevel), Piled(lv, whole, part, k),
           NEW r \in DOMAIN part, NEW after \in Nat, part[r].shares = after + 1
    PROVE  Piled(RemoveShares(lv, KeyOf(part[r]), 1, FALSE), whole,
                 Put(part, r, [part[r] EXCEPT !.shares = after]), k)
<1> DEFINE own == KeyOf(part[r])
           rec == [part[r] EXCEPT !.shares = after]
           rem == RemoveShares(lv, own, 1, FALSE)
           e == Erase(part, r)
           p == Put(e, r, rec)
<1>1. /\ own \in LevelKeys /\ 1 <= CountAt(lv, own) /\ 1 <= TotalAt(lv, own)
  <2>1. /\ own \in LevelKeys /\ 1 <= CountAt(lv, own)
        /\ part[r].shares <= TotalAt(lv, own)
        BY PileHolds
  <2>2. own \in LevelKeys /\ TotalAt(lv, own) \in Nat  BY <2>1, ShownType
  <2> HIDE DEF own
  <2> QED  BY <2>1, <2>2
<1>2. /\ part[r] \in OrderRecord /\ r \in Refs  BY DEF IsMap
<1>3. /\ rec \in OrderRecord /\ KeyOf(rec) = own /\ rec.shares = after
      BY <1>2, WidthAssumption DEF OrderRecord, Uint32, KeyOf
<1>4. IsMap(e, Refs, OrderRecord) /\ r \notin DOMAIN e  BY <1>2, MapChanges DEF Erase
<1>5. Put(part, r, rec) = p  BY PutOverErase
<1>6. /\ DOMAIN rem \subseteq DOMAIN lv
      /\ CountAt(rem, own) = CountAt(lv, own)
      /\ TotalAt(rem, own) = IF CountAt(rem, own) = 0 THEN 0 ELSE TotalAt(lv, own) - 1
      /\ own \in DOMAIN rem => CountAt(rem, own) > 0
      /\ \A j : j # own => /\ j \in DOMAIN rem <=> j \in DOMAIN lv
                           /\ CountAt(rem, j) = CountAt(lv, j)
                           /\ TotalAt(rem, j) = TotalAt(lv, j)
  <2>1. PICK q \in LevelKeys, s \in Nat : q = own /\ s = 1  BY <1>1
  <2> HIDE DEF own
  <2> QED  BY <1>1, <2>1, RemovePart
<1>7. ASSUME NEW key \in LevelKeys
      PROVE  /\ own = key =>
                /\ Cardinality(OrdersAt(part, key)) = Cardinality(OrdersAt(e, key)) + 1
                /\ Cardinality(UnitsAt(part, key)) = Cardinality(UnitsAt(e, key)) + (after + 1)
             /\ own # key => OrdersAt(part, key) = OrdersAt(e, key)
                             /\ UnitsAt(part, key) = UnitsAt(e, key)
      BY ErasedCounts
<1> HIDE DEF own, rec, rem, e
<1>8. ASSUME NEW key \in LevelKeys
      PROVE  /\ own = key =>
                /\ Cardinality(OrdersAt(p, key)) = Cardinality(OrdersAt(e, key)) + 1
                /\ Cardinality(UnitsAt(p, key)) = Cardinality(UnitsAt(e, key)) + after
             /\ own # key => OrdersAt(p, key) = OrdersAt(e, key)
                             /\ UnitsAt(p, key) = UnitsAt(e, key)
      BY <1>2, <1>3, <1>4, PlacedCounts
<1> HIDE DEF p
<1>9. ASSUME NEW key \in LevelKeys
      PROVE  /\ CountAt(rem, key) = k * Cardinality(OrdersAt(whole, key))
                                    + Cardinality(OrdersAt(p, key))
             /\ TotalAt(rem, key) = k * Cardinality(UnitsAt(whole, key))
                                    + Cardinality(UnitsAt(p, key))
             /\ key \in DOMAIN rem => CountAt(rem, key) > 0
  <2>1. PICK x \in Nat, y \in Nat : /\ x = k * Cardinality(OrdersAt(whole, key))
                                    /\ y = k * Cardinality(UnitsAt(whole, key))
        BY FiniteAt
  <2>2. PICK c \in Nat, u \in Nat : /\ c = Cardinality(OrdersAt(e, key))
                                    /\ u = Cardinality(UnitsAt(e, key))
        BY <1>4, FiniteAt
  <2>3. /\ CountAt(lv, key) = x + Cardinality(OrdersAt(part, key))
        /\ TotalAt(lv, key) = y + Cardinality(UnitsAt(part, key))
        /\ key \in DOMAIN lv => CountAt(lv, key) > 0
        BY <2>1 DEF Piled
  <2>4. CASE key = own  BY <1>1, <1>6, <1>7, <1>8, <2>1, <2>2, <2>3, <2>4
  <2>5. CASE key # own  BY <1>6, <1>7, <1>8, <2>1, <2>2, <2>3, <2>5
  <2> QED  BY <2>4, <2>5
<1> QED  BY <1>5, <1>9 DEF Piled, own, rem, rec

(* The end of a round: what it has left becomes part of the pile. *)
LEMMA PileTurn ==
    ASSUME NEW whole, IsMap(whole, Refs, OrderRecord), NEW part, DOMAIN part = {},
           NEW k \in Nat, NEW lv, Piled(lv, whole, whole, k)
    PROVE  Piled(lv, whole, part, k + 1)
<1>1. ASSUME NEW key \in LevelKeys
      PROVE  Cardinality(OrdersAt(part, key)) = 0 /\ Cardinality(UnitsAt(part, key)) = 0
  <2>1. OrdersAt(part, key) = {}  BY DEF OrdersAt
  <2>2. UnitsAt(part, key) = {}  BY <2>1 DEF UnitsAt
  <2> QED  BY <2>1, <2>2, FS_EmptySet
<1>2. ASSUME NEW key \in LevelKeys
      PROVE  /\ CountAt(lv, key) = (k + 1) * Cardinality(OrdersAt(whole, key))
                                   + Cardinality(OrdersAt(part, key))
             /\ TotalAt(lv, key) = (k + 1) * Cardinality(UnitsAt(whole, key))
                                   + Cardinality(UnitsAt(part, key))
             /\ key \in DOMAIN lv => CountAt(lv, key) > 0
  <2>1. PICK b \in Nat, w \in Nat : /\ b = Cardinality(OrdersAt(whole, key))
                                    /\ w = Cardinality(UnitsAt(whole, key))
        BY FiniteAt
  <2>2. /\ CountAt(lv, key) = k * b + b /\ TotalAt(lv, key) = k * w + w
        /\ key \in DOMAIN lv => CountAt(lv, key) > 0
        BY <2>1 DEF Piled
  <2>3. k * b + b = (k + 1) * b /\ k * w + w = (k + 1) * w  OBVIOUS
  <2>4. (k + 1) * b + 0 = (k + 1) * b /\ (k + 1) * w + 0 = (k + 1) * w  OBVIOUS
  <2> QED  BY <1>1, <2>1, <2>2, <2>3, <2>4
<1> QED  BY <1>2 DEF Piled

(* No order is executed as often as it has shares. *)
Sparing(o) ==
    \A i \in 1..Len(o) : Cardinality(Executions(o, o[i].ref, Len(o))) < BenchShares

(* What operation i of the workload, the one after n, does to what is      *)
(* alive.                                                                  *)
OneStep(o, n, i, s) ==
    /\ s \in Ops /\ s.ref \in Refs /\ n \in 0..Len(o) /\ i \in Nat
    /\ s.op = "OP_ADD" =>
          /\ Alive(o, s.ref, i) /\ ~Alive(o, s.ref, n)
          /\ Adding(o, s.ref) = i /\ Executions(o, s.ref, i) = {}
    /\ s.op = "OP_DELETE" =>
          Alive(o, s.ref, n) /\ ~Alive(o, s.ref, i) /\ ~Alive(o, s.ref, Len(o))
    /\ s.op = "OP_EXECUTE" =>
          /\ Alive(o, s.ref, n) /\ Alive(o, s.ref, i)
          /\ Cardinality(Executions(o, s.ref, i)) = Cardinality(Executions(o, s.ref, n)) + 1
    /\ \A x : x # s.ref => /\ Alive(o, x, i) <=> Alive(o, x, n)
                           /\ Executions(o, x, i) = Executions(o, x, n)

LEMMA PlanStep ==
    ASSUME NEW o, NEW alive, NEW next, Workload(o, alive, next), Plan(o, alive, next),
           NEW i \in 1..Len(o), NEW n \in Nat, i = n + 1, NEW s, s = o[i]
    PROVE  OneStep(o, n, i, s)
<1>1. o \in Seq(Ops) /\ Len(o) \in Nat /\ next \in Nat  BY LenProperties DEF Workload
<1>2. s \in Ops  BY <1>1, ElementOfSeq
<1>3. s.ref \in Refs
  <2>1. s.ref \in Nat \ {0} /\ s.ref < next /\ next <= Len(o) + 1 /\ Len(o) <= NOrders + NMixed
        BY <1>1 DEF Plan, Workload
  <2>2. NOrders + NMixed \in Nat  BY BenchAssumption
  <2>3. s.ref \in 1..(NOrders + NMixed)  BY <1>1, <2>1, <2>2
  <2> QED  BY <2>3, BenchAssumption
<1>4. 1..i = (1..n) \cup {i} /\ i \notin 1..n /\ i - 1 = n /\ 1..i \subseteq 1..Len(o)
      /\ n \in 0..Len(o) /\ i \in Nat
      BY <1>1
<1>5. s.op # "OP_ADD" => Alive(o, s.ref, n)  BY <1>4 DEF Workload
<1>6. \A x : x # s.ref => /\ Alive(o, x, i) <=> Alive(o, x, n)
                          /\ Executions(o, x, i) = Executions(o, x, n)
      BY <1>4 DEF Alive, Executions
<1>7. ASSUME s.op = "OP_ADD"
      PROVE  /\ Alive(o, s.ref, i) /\ ~Alive(o, s.ref, n)
             /\ Adding(o, s.ref) = i /\ Executions(o, s.ref, i) = {}
  <2>1. \A j \in 1..Len(o) : o[j].op = "OP_ADD" /\ o[j].ref = s.ref => j = i
        BY <1>7 DEF Plan
  <2>2. ~Alive(o, s.ref, n)  BY <1>4, <2>1 DEF Alive
  <2>3. Adding(o, s.ref) = i  BY <1>7, <2>1 DEF Adding
  <2>4. ASSUME NEW j \in 1..i, o[j].op # "OP_ADD"  PROVE o[j].ref # s.ref
    <3> SUFFICES ASSUME o[j].ref = s.ref  PROVE FALSE  OBVIOUS
    <3>1. Alive(o, s.ref, j - 1)  BY <1>4, <2>4 DEF Workload
    <3>2. PICK m \in 1..(j - 1) : o[m].op = "OP_ADD" /\ o[m].ref = s.ref  BY <3>1 DEF Alive
    <3>3. m \in 1..Len(o) /\ m # i  BY <1>1, <1>4
    <3> QED  BY <2>1, <3>2, <3>3
  <2>5. Executions(o, s.ref, i) = {}  BY <2>4 DEF Executions
  <2>6. i \in 1..i  BY <1>4
  <2>7. Alive(o, s.ref, i)  BY <1>7, <2>4, <2>6 DEF Alive
  <2> QED  BY <2>2, <2>3, <2>5, <2>7
<1>8. ASSUME s.op = "OP_DELETE"
      PROVE  ~Alive(o, s.ref, i) /\ ~Alive(o, s.ref, Len(o))
  <2>1. i \in 1..i /\ i \in 1..Len(o)  BY <1>4
  <2> QED  BY <1>8, <2>1 DEF Alive
<1>9. ASSUME s.op = "OP_EXECUTE"
      PROVE  /\ Alive(o, s.ref, i)
             /\ Cardinality(Executions(o, s.ref, i)) = Cardinality(Executions(o, s.ref, n)) + 1
  <2>1. Alive(o, s.ref, i)  BY <1>4, <1>5, <1>9 DEF Alive
  <2>2. Executions(o, s.ref, i) = Executions(o, s.ref, n) \cup {i}
        BY <1>4, <1>9 DEF Executions
  <2>3. i \notin Executions(o, s.ref, n)  BY <1>4 DEF Executions
  <2>4. IsFiniteSet(Executions(o, s.ref, n))  BY ExecutionsFinite
  <2> QED  BY <2>1, <2>2, <2>3, <2>4, FS_AddElement
<1> QED  BY <1>2, <1>3, <1>4, <1>5, <1>6, <1>7, <1>8, <1>9 DEF OneStep

(* An order that is alive has shares left. *)
LEMMA SharesLeft ==
    ASSUME NEW o \in Seq(Ops), Sparing(o), NEW n \in 0..Len(o), NEW r, Alive(o, r, n)
    PROVE  /\ Cardinality(Executions(o, r, n)) \in Nat
           /\ Cardinality(Executions(o, r, n)) < BenchShares
<1>1. Len(o) \in Nat /\ n \in Nat /\ 1..n \subseteq 1..Len(o)  BY LenProperties
<1>2. PICK j \in 1..Len(o) : o[j].ref = r  BY <1>1 DEF Alive
<1>3. Cardinality(Executions(o, r, Len(o))) < BenchShares  BY <1>2 DEF Sparing
<1>4. /\ IsFiniteSet(Executions(o, r, Len(o))) /\ Cardinality(Executions(o, r, Len(o))) \in Nat
      /\ Cardinality(Executions(o, r, n)) \in Nat
      BY <1>1, ExecutionsFinite
<1>5. Executions(o, r, n) \subseteq Executions(o, r, Len(o))  BY <1>1 DEF Executions
<1>6. Cardinality(Executions(o, r, n)) <= Cardinality(Executions(o, r, Len(o)))
      BY <1>4, <1>5, FS_Subset
<1>7. BenchShares \in Nat  BY BenchAssumption
<1> QED  BY <1>3, <1>4, <1>6, <1>7

(* What is alive are order records. *)
LEMMA RecordType ==
    ASSUME NEW o \in Seq(Ops), Sparing(o), NEW n \in 0..Len(o), NEW r, Alive(o, r, n),
           NEW l \in Locates
    PROVE  RecordOf(o, r, n, l) \in OrderRecord
<1>1. Len(o) \in Nat /\ 1..n \subseteq 1..Len(o)  BY LenProperties
<1>2. \E j \in 1..Len(o) : o[j].op = "OP_ADD" /\ o[j].ref = r  BY <1>1 DEF Alive
<1>3. PICK a : a = Adding(o, r)  OBVIOUS
<1>4. a \in 1..Len(o) /\ o[a].op = "OP_ADD"  BY <1>2, <1>3 DEF Adding
<1>5. o[a] \in Ops  BY <1>4, ElementOfSeq
<1>6. o[a].price \in Prices /\ o[a].side \in Sides  BY <1>4, <1>5, BenchAssumption DEF Ops
<1>7. PICK c \in Nat : c = Cardinality(Executions(o, r, n)) /\ c < BenchShares  BY SharesLeft
<1>8. BenchShares - c \in Uint32  BY <1>7, BenchAssumption, WidthAssumption DEF Uint32
<1> QED  BY <1>3, <1>6, <1>7, <1>8 DEF RecordOf, OrderRecord

LEMMA RoundType ==
    ASSUME NEW o \in Seq(Ops), Sparing(o), NEW n \in 0..Len(o), NEW l \in Locates
    PROVE  IsMap(Round(o, n, l), Refs, OrderRecord)
BY RecordType DEF IsMap, Round, AliveRefs

(* The first operation after none: nothing is alive. *)
LEMMA RoundBegins ==
    ASSUME NEW o, NEW l
    PROVE  DOMAIN Round(o, 0, l) = {} /\ IndexAt(o, 0, l, 0) = EmptyMap
<1>1. AliveRefs(o, 0) = {}  BY DEF AliveRefs, Alive
<1> QED  BY <1>1 DEF Round, IndexAt, EmptyMap

(* Records of other orders than the one an operation is about. *)
LEMMA OtherRecords ==
    ASSUME NEW o, NEW r, NEW n, NEW i, NEW l,
           Executions(o, r, i) = Executions(o, r, n)
    PROVE  RecordOf(o, r, i, l) = RecordOf(o, r, n, l)
BY DEF RecordOf

(* What an add does to the orders of this round and to the index. *)
LEMMA RoundAdd ==
    ASSUME NEW o, NEW alive, NEW next, Workload(o, alive, next), Plan(o, alive, next), Sparing(o),
           NEW i \in 1..Len(o), NEW n \in Nat, i = n + 1, NEW s, s = o[i], s.op = "OP_ADD",
           NEW l \in Locates, NEW k \in Nat,
           NEW rec, rec = [shares |-> BenchShares, price |-> s.price, stock_locate |-> l,
                           side |-> s.side, mpid |-> NoMpid]
    PROVE  /\ rec \in OrderRecord /\ s.ref \notin DOMAIN Round(o, n, l)
           /\ Round(o, i, l) = Put(Round(o, n, l), s.ref, rec)
           /\ IndexAt(o, i, l, k) = Put(IndexAt(o, n, l, k), s.ref, rec)
<1>0. OneStep(o, n, i, s)  BY PlanStep
<1>1. /\ s \in Ops /\ s.ref \in Refs /\ n \in 0..Len(o) /\ i \in Nat
      /\ Alive(o, s.ref, i) /\ ~Alive(o, s.ref, n)
      /\ Adding(o, s.ref) = i /\ Executions(o, s.ref, i) = {}
      /\ \A x : x # s.ref => /\ Alive(o, x, i) <=> Alive(o, x, n)
                             /\ Executions(o, x, i) = Executions(o, x, n)
      BY <1>0 DEF OneStep
<1>2. RecordOf(o, s.ref, i, l) = rec
  <2>1. Cardinality(Executions(o, s.ref, i)) = 0  BY <1>1, FS_EmptySet
  <2>2. BenchShares - 0 = BenchShares  BY BenchAssumption
  <2> QED  BY <1>1, <2>1, <2>2 DEF RecordOf
<1>3. rec \in OrderRecord
  <2>1. o \in Seq(Ops) /\ i \in 0..Len(o)  BY <1>1 DEF Workload
  <2> QED  BY <1>1, <1>2, <2>1, RecordType
<1>4. \A x : x # s.ref => RecordOf(o, x, i, l) = RecordOf(o, x, n, l)
      BY <1>1, OtherRecords
<1>5. AliveRefs(o, i) = AliveRefs(o, n) \cup {s.ref} /\ s.ref \notin AliveRefs(o, n)
      BY <1>1 DEF AliveRefs
<1>6. Round(o, i, l) = Put(Round(o, n, l), s.ref, rec)
      BY <1>2, <1>4, <1>5 DEF Round, Put
<1>7. IndexAt(o, i, l, k) = Put(IndexAt(o, n, l, k), s.ref, rec)
      BY <1>1, <1>2, <1>4, <1>5 DEF IndexAt, Put
<1> QED  BY <1>3, <1>5, <1>6, <1>7 DEF Round

(* What a delete does to them. *)
Removed(o, n, i, l, k, r) ==
    /\ r \in DOMAIN Round(o, n, l) /\ r \in DOMAIN IndexAt(o, n, l, k)
    /\ IndexAt(o, n, l, k)[r] = Round(o, n, l)[r]
    /\ Round(o, i, l) = Erase(Round(o, n, l), r)
    /\ IndexAt(o, i, l, k) = Erase(IndexAt(o, n, l, k), r)

LEMMA RoundDelete ==
    ASSUME NEW o, NEW alive, NEW next, Workload(o, alive, next), Plan(o, alive, next),
           NEW i \in 1..Len(o), NEW n \in Nat, i = n + 1, NEW s, s = o[i], s.op = "OP_DELETE",
           NEW l, NEW k \in Nat
    PROVE  Removed(o, n, i, l, k, s.ref)
<1>0. OneStep(o, n, i, s)  BY PlanStep
<1>1. /\ s \in Ops /\ s.ref \in Refs /\ n \in 0..Len(o) /\ i \in Nat
      /\ Alive(o, s.ref, n) /\ ~Alive(o, s.ref, i) /\ ~Alive(o, s.ref, Len(o))
      /\ \A x : x # s.ref => /\ Alive(o, x, i) <=> Alive(o, x, n)
                             /\ Executions(o, x, i) = Executions(o, x, n)
      BY <1>0 DEF OneStep
<1>2. \A x : x # s.ref => RecordOf(o, x, i, l) = RecordOf(o, x, n, l)
      BY <1>1, OtherRecords
<1>3. /\ AliveRefs(o, i) = AliveRefs(o, n) \ {s.ref} /\ s.ref \in AliveRefs(o, n)
      /\ s.ref \notin AliveRefs(o, Len(o))
      BY <1>1 DEF AliveRefs
<1>4. Round(o, i, l) = Erase(Round(o, n, l), s.ref)  BY <1>2, <1>3 DEF Round, Erase
<1>5. IndexAt(o, i, l, k) = Erase(IndexAt(o, n, l, k), s.ref)
      BY <1>1, <1>2, <1>3 DEF IndexAt, Erase
<1>6. /\ s.ref \in DOMAIN IndexAt(o, n, l, k)
      /\ IndexAt(o, n, l, k)[s.ref] = RecordOf(o, s.ref, n, l)
      BY <1>1, <1>3 DEF IndexAt
<1>7. s.ref \in DOMAIN Round(o, n, l) /\ Round(o, n, l)[s.ref] = RecordOf(o, s.ref, n, l)
      BY <1>3 DEF Round
<1> QED  BY <1>4, <1>5, <1>6, <1>7 DEF Removed

(* What an execution does to them. *)
Reduced(o, n, i, l, k, r, after) ==
    LET rec == [Round(o, n, l)[r] EXCEPT !.shares = after]
    IN  /\ Round(o, n, l)[r].shares = after + 1
        /\ Round(o, i, l) = Put(Round(o, n, l), r, rec)
        /\ IndexAt(o, i, l, k) = Put(IndexAt(o, n, l, k), r, rec)

LEMMA RoundExecute ==
    ASSUME NEW o, NEW alive, NEW next, Workload(o, alive, next), Plan(o, alive, next), Sparing(o),
           NEW i \in 1..Len(o), NEW n \in Nat, i = n + 1, NEW s, s = o[i], s.op = "OP_EXECUTE",
           NEW l, NEW k \in Nat
    PROVE  /\ s.ref \in DOMAIN Round(o, n, l) /\ s.ref \in DOMAIN IndexAt(o, n, l, k)
           /\ IndexAt(o, n, l, k)[s.ref] = Round(o, n, l)[s.ref]
           /\ \E after \in Nat \ {0} : Reduced(o, n, i, l, k, s.ref, after)
<1>0. OneStep(o, n, i, s)  BY PlanStep
<1>1. /\ s \in Ops /\ s.ref \in Refs /\ n \in 0..Len(o) /\ i \in Nat
      /\ Alive(o, s.ref, n) /\ Alive(o, s.ref, i)
      /\ Cardinality(Executions(o, s.ref, i)) = Cardinality(Executions(o, s.ref, n)) + 1
      /\ \A x : x # s.ref => /\ Alive(o, x, i) <=> Alive(o, x, n)
                             /\ Executions(o, x, i) = Executions(o, x, n)
      BY <1>0 DEF OneStep
<1>2. \A x : x # s.ref => RecordOf(o, x, i, l) = RecordOf(o, x, n, l)
      BY <1>1, OtherRecords
<1>3. /\ AliveRefs(o, i) = AliveRefs(o, n) /\ s.ref \in AliveRefs(o, n)
      BY <1>1 DEF AliveRefs
<1>4. PICK c \in Nat : c = Cardinality(Executions(o, s.ref, n))  BY ExecutionsFinite
<1>5. c + 1 < BenchShares /\ BenchShares \in Nat
  <2>1. o \in Seq(Ops) /\ i \in 0..Len(o)  BY <1>1 DEF Workload
  <2>2. Cardinality(Executions(o, s.ref, i)) < BenchShares  BY <1>1, <2>1, SharesLeft
  <2> QED  BY <1>1, <1>4, <2>2, BenchAssumption
<1>6. PICK after \in Nat \ {0} : after = BenchShares - (c + 1)  BY <1>5
<1>7. /\ RecordOf(o, s.ref, n, l).shares = after + 1
      /\ RecordOf(o, s.ref, i, l) = [RecordOf(o, s.ref, n, l) EXCEPT !.shares = after]
  <2>1. BenchShares - c = after + 1  BY <1>5, <1>6
  <2> QED  BY <1>1, <1>4, <1>6, <2>1 DEF RecordOf
<1>8. Round(o, n, l)[s.ref] = RecordOf(o, s.ref, n, l)  BY <1>3 DEF Round
<1>9. PICK rec : rec = [Round(o, n, l)[s.ref] EXCEPT !.shares = after]  OBVIOUS
<1>10. Round(o, i, l) = Put(Round(o, n, l), s.ref, rec)
       BY <1>2, <1>3, <1>7, <1>8, <1>9 DEF Round, Put
<1>11. IndexAt(o, i, l, k) = Put(IndexAt(o, n, l, k), s.ref, rec)
       BY <1>1, <1>2, <1>3, <1>7, <1>8, <1>9 DEF IndexAt, Put
<1>12. /\ s.ref \in DOMAIN IndexAt(o, n, l, k)
       /\ IndexAt(o, n, l, k)[s.ref] = RecordOf(o, s.ref, n, l)
       BY <1>1, <1>3 DEF IndexAt
<1>13. s.ref \in DOMAIN Round(o, n, l)  BY <1>3 DEF Round
<1> QED  BY <1>7, <1>8, <1>9, <1>10, <1>11, <1>12, <1>13 DEF Reduced

(* Nothing applied yet. *)
LEMMA EmptyState == StateOK(EmptyMap, EmptyMap, 0)
<1>1. DOMAIN EmptyMap = {} /\ \A D, R : IsMap(EmptyMap, D, R)  BY DEF EmptyMap, IsMap
<1>2. \A k : OrdersAt(EmptyMap, k) = {} /\ UnitsAt(EmptyMap, k) = {}
      BY <1>1 DEF OrdersAt, UnitsAt
<1>3. \A k : CountAt(EmptyMap, k) = 0 /\ TotalAt(EmptyMap, k) = 0 /\ k \notin DOMAIN EmptyMap
      BY <1>1 DEF CountAt, TotalAt
<1>4. \A k : /\ Cardinality(OrdersAt(EmptyMap, k)) = 0 /\ Cardinality(UnitsAt(EmptyMap, k)) = 0
      BY <1>2, FS_EmptySet
<1>5. Room(EmptyMap, 0)
  <2>1. 0 * (U32 - 1) = 0  BY WidthAssumption
  <2> QED  BY <1>3, <2>1 DEF Room
<1>6. Covering(EmptyMap, EmptyMap) /\ Exact(EmptyMap, EmptyMap)
  <2>1. Fits(0 - 0, 0 - 0)  BY WidthAssumption DEF Fits
  <2> QED  BY <1>3, <1>4, <2>1 DEF Covering, Exact
<1> QED  BY <1>1, <1>5, <1>6 DEF StateOK

LEMMA SparingOps ==
    ASSUME ops \in Seq(Ops), ~Exhausts
    PROVE  Sparing(ops)
<1> SUFFICES ASSUME NEW i \in 1..Len(ops)
             PROVE  Cardinality(Executions(ops, ops[i].ref, Len(ops))) < BenchShares
    BY DEF Sparing
<1>1. DOMAIN ops = 1..Len(ops) /\ Len(ops) \in Nat  BY LenProperties
<1>2. ~(Cardinality({j \in DOMAIN ops : ops[j].op = "OP_EXECUTE" /\ ops[j].ref = ops[i].ref})
        >= BenchShares)
      BY <1>1 DEF Exhausts
<1>3. ~(Cardinality(Executions(ops, ops[i].ref, Len(ops))) >= BenchShares)
      BY <1>1, <1>2 DEF Executions
<1>4. Cardinality(Executions(ops, ops[i].ref, Len(ops))) \in Nat  BY <1>1, ExecutionsFinite
<1>5. BenchShares \in Nat  BY BenchAssumption
<1> QED  BY <1>3, <1>4, <1>5

(* Where the timed loop stands before its next operation. *)
LEMMA StandingNow ==
    ASSUME MixedInv, PileInv, benchmark = "mixed", Built, ~Exhausts, Registered
    PROVE  \E l \in Locates, k \in Nat : DOMAIN instruments = {l} /\ Standing(l, k)
<1>1. CASE messages_processed # 0
  <2>1. messages_processed > 0  BY <1>1 DEF PileInv
  <2> QED  BY <2>1 DEF PileInv
<1>2. CASE messages_processed = 0
  <2>1. /\ order_index = EmptyMap /\ levels = EmptyMap /\ idx = 0
        /\ DOMAIN instruments \subseteq Locates
        /\ \A l, m \in DOMAIN instruments : l = m
        BY <1>2 DEF PileInv
  <2>2. PICK l \in Locates : DOMAIN instruments = {l}  BY <2>1 DEF Registered
  <2>3. ops \in Seq(Ops) /\ Len(ops) \in Nat /\ Len(ops) \in 0..Len(ops)
        BY LenProperties DEF MixedInv, Workload
  <2> DEFINE whole == Round(ops, Len(ops), l)
             part == Round(ops, 0, l)
  <2>4. DOMAIN part = {} /\ IndexAt(ops, 0, l, 0) = EmptyMap  BY RoundBegins
  <2>5. IsMap(whole, Refs, OrderRecord)  BY <2>3, SparingOps, RoundType
  <2> HIDE DEF whole, part
  <2>6. ASSUME NEW key \in LevelKeys
        PROVE  /\ CountAt(EmptyMap, key) = 0 * Cardinality(OrdersAt(whole, key))
                                           + Cardinality(OrdersAt(part, key))
               /\ TotalAt(EmptyMap, key) = 0 * Cardinality(UnitsAt(whole, key))
                                           + Cardinality(UnitsAt(part, key))
               /\ key \notin DOMAIN EmptyMap
    <3>1. OrdersAt(part, key) = {}  BY <2>4 DEF OrdersAt
    <3>2. UnitsAt(part, key) = {}  BY <3>1 DEF UnitsAt
    <3>3. Cardinality(OrdersAt(part, key)) = 0 /\ Cardinality(UnitsAt(part, key)) = 0
          BY <3>1, <3>2, FS_EmptySet
    <3>4. PICK b \in Nat, w \in Nat : /\ b = Cardinality(OrdersAt(whole, key))
                                      /\ w = Cardinality(UnitsAt(whole, key))
          BY <2>5, FiniteAt
    <3>5. 0 * b + 0 = 0 /\ 0 * w + 0 = 0  OBVIOUS
    <3>6. key \notin DOMAIN EmptyMap  BY DEF EmptyMap
    <3>7. CountAt(EmptyMap, key) = 0 /\ TotalAt(EmptyMap, key) = 0  BY <3>6 DEF CountAt, TotalAt
    <3> QED  BY <3>3, <3>4, <3>5, <3>6, <3>7
  <2>7. Piled(EmptyMap, whole, part, 0)  BY <2>6 DEF Piled
  <2>8. 0 = 0 * Len(ops) + 0  BY <2>3
  <2>9. Standing(l, 0)
        BY <1>2, <2>1, <2>4, <2>7, <2>8, EmptyState DEF Standing, whole, part
  <2> QED  BY <2>2, <2>9
<1> QED  BY <1>1, <1>2

(* The builder gives out new references and keeps live up to date. *)
LEMMA PlanGrows ==
    ASSUME NEW o, NEW alive, NEW next, Workload(o, alive, next), Plan(o, alive, next),
           Len(o) # NOrders + NMixed, NEW s \in Ops, s.ref \in Nat \ {0},
           s.op = "OP_ADD" => s.ref = next, s.op # "OP_ADD" => s.ref \in alive,
           NEW alive2, NEW next2,
           alive2 = IF s.op = "OP_ADD" THEN alive \cup {s.ref}
                    ELSE IF s.op = "OP_DELETE" THEN alive \ {s.ref} ELSE alive,
           next2 = IF s.op = "OP_ADD" THEN next + 1 ELSE next
    PROVE  Plan(Append(o, s), alive2, next2)
<1>1. /\ o \in Seq(Ops) /\ next \in Nat /\ Len(o) \in Nat /\ Len(o) \in 0..Len(o)
      /\ \A i \in 1..Len(o) : o[i].ref < next
      BY LenProperties DEF Workload
<1>2. /\ Len(o) <= NOrders + NMixed /\ next \in 1..(Len(o) + 1)
      /\ \A i \in 1..Len(o) : o[i].ref \in Nat \ {0}
      /\ \A i, j \in 1..Len(o) :
            o[i].op = "OP_ADD" /\ o[j].op = "OP_ADD" /\ o[i].ref = o[j].ref => i = j
      /\ \A i \in 1..Len(o) : Alive(o, o[i].ref, Len(o)) => o[i].ref \in alive
      BY DEF Plan
<1>0. PICK a : a = Append(o, s)  OBVIOUS
<1>3. PICK n \in Nat, m \in Nat : n = Len(o) /\ m = n + 1  BY <1>1
<1>4. /\ Len(a) = m /\ a[m] = s /\ \A i \in 1..n : a[i] = o[i]
      /\ \A r : Alive(a, r, n) <=> Alive(o, r, n)
      BY <1>0, <1>1, <1>3, Prefix
<1>5. 1..m = (1..n) \cup {m} /\ m \notin 1..n  BY <1>3
<1>6. m <= NOrders + NMixed /\ next2 \in 1..(m + 1)
      BY <1>1, <1>2, <1>3, BenchAssumption
<1>7. ASSUME NEW i \in 1..m  PROVE a[i].ref \in Nat \ {0}
      BY <1>2, <1>3, <1>4, <1>5
<1>8. ASSUME NEW i \in 1..m, NEW j \in 1..m,
             a[i].op = "OP_ADD", a[j].op = "OP_ADD", a[i].ref = a[j].ref
      PROVE  i = j
  <2>1. \A h \in 1..n : o[h].ref # next  BY <1>1, <1>2, <1>3
  <2>2. CASE i \in 1..n /\ j \in 1..n  BY <1>2, <1>3, <1>4, <1>8, <2>2
  <2>3. CASE i = m /\ j # m  BY <1>4, <1>5, <1>8, <2>1, <2>3
  <2>4. CASE j = m /\ i # m  BY <1>4, <1>5, <1>8, <2>1, <2>4
  <2> QED  BY <1>5, <2>2, <2>3, <2>4
<1>9. ASSUME NEW i \in 1..m, Alive(a, a[i].ref, m)  PROVE a[i].ref \in alive2
  <2>1. PICK r : r = a[i].ref  OBVIOUS
  <2>0. a[n + 1] = s /\ Alive(a, r, n + 1)  BY <1>3, <1>4, <1>9, <2>1
  <2>2. /\ s.op = "OP_ADD" /\ s.ref # r => Alive(a, r, n)
        /\ s.op = "OP_DELETE" => Alive(a, r, n) /\ r # s.ref
        /\ s.op = "OP_EXECUTE" => Alive(a, r, n)
        BY <2>0, AliveNext
  <2>3. s.op \in {"OP_ADD", "OP_DELETE", "OP_EXECUTE"}  BY DEF Ops
  <2>4. CASE r = s.ref  BY <2>1, <2>2, <2>3, <2>4
  <2>5. CASE r # s.ref
    <3>1. i \in 1..n /\ r = o[i].ref  BY <1>4, <1>5, <2>1, <2>5
    <3>2. Alive(o, r, n)  BY <1>4, <2>2, <2>3, <2>5
    <3>3. r \in alive  BY <1>2, <1>3, <3>1, <3>2
    <3> QED  BY <2>1, <2>5, <3>3
  <2> QED  BY <2>4, <2>5
<1>10. Plan(a, alive2, next2)  BY <1>4, <1>6, <1>7, <1>8, <1>9 DEF Plan
<1> QED  BY <1>0, <1>10

LEMMA PileBuild ==
    ASSUME MixedInv, PileInv, BuildAdd \/ BuildDelete \/ BuildExecute
    PROVE  PileInv'
<1>1. /\ benchmark = "mixed" /\ ~Built
      /\ UNCHANGED <<order_index, levels, instruments, messages_processed, benchmark, idx>>
      BY DEF BuildAdd, BuildDelete, BuildExecute, Push, vars
<1>2. Workload(ops, live, next_ref) /\ Plan(ops, live, next_ref) /\ messages_processed = 0
      BY <1>1 DEF MixedInv, PileInv
<1>3. ops \in Seq(Ops) /\ next_ref \in Nat \ {0} /\ Len(ops) # NOrders + NMixed
      BY <1>1, <1>2, LenProperties DEF Workload, Plan, Built
<1>4. ASSUME NEW r \in live  PROVE r \in Nat \ {0}
  <2>1. PICK j \in 1..Len(ops) : ops[j].ref = r  BY <1>2, <1>4 DEF Workload, Alive
  <2> QED  BY <1>2, <2>1 DEF Plan
<1>5. Plan(ops', live', next_ref')
  <2>1. CASE BuildAdd
    <3>1. PICK p \in Prices, side \in {"B", "S"} :
             /\ Push([op |-> "OP_ADD", ref |-> next_ref, price |-> p, side |-> side])
             /\ live' = live \cup {next_ref} /\ next_ref' = next_ref + 1
          BY <2>1 DEF BuildAdd
    <3>2. PICK s : s = [op |-> "OP_ADD", ref |-> next_ref, price |-> p, side |-> side]
          OBVIOUS
    <3>3. s \in Ops /\ s.op = "OP_ADD" /\ s.ref = next_ref  BY <1>3, <3>2 DEF Ops
    <3>4. ops' = Append(ops, s)  BY <3>1, <3>2 DEF Push
    <3>5. Plan(Append(ops, s), live', next_ref')  BY <1>2, <1>3, <3>1, <3>3, PlanGrows
    <3> QED  BY <3>4, <3>5
  <2>2. CASE BuildDelete \/ BuildExecute
    <3>1. PICK r \in live, kind \in {"OP_DELETE", "OP_EXECUTE"} :
             /\ Push([op |-> kind, ref |-> r])
             /\ live' = (IF kind = "OP_DELETE" THEN live \ {r} ELSE live)
             /\ next_ref' = next_ref
          BY <2>2 DEF BuildDelete, BuildExecute
    <3>2. PICK s : s = [op |-> kind, ref |-> r]  OBVIOUS
    <3>3. s \in Ops /\ s.op = kind /\ s.ref = r /\ r \in Nat \ {0}  BY <1>4, <3>2 DEF Ops
    <3>4. ops' = Append(ops, s)  BY <3>1, <3>2 DEF Push
    <3>5. Plan(Append(ops, s), live', next_ref')  BY <1>2, <1>3, <3>1, <3>3, PlanGrows
    <3> QED  BY <3>4, <3>5
  <2> QED  BY <2>1, <2>2
<1> QED  BY <1>1, <1>2, <1>5 DEF PileInv

(* An operation of the timed loop, with the engine's whole handler. *)
LEMMA OperationApplied ==
    ASSUME MixedInv, PileInv, ApplyMixed, ~Exhausts,
           NEW l \in Locates, NEW k \in Nat, DOMAIN instruments = {l}, Standing(l, k),
           NEW i \in 1..Len(ops), i = idx + 1
    PROVE  /\ instruments' = instruments
           /\ StateOK(order_index', levels', messages_processed + 1)
           /\ order_index' = IndexAt(ops, i, l, k)
           /\ Piled(levels', Round(ops, Len(ops), l), Round(ops, i, l), k)
<1>1. /\ benchmark = "mixed" /\ Workload(ops, live, next_ref) /\ Plan(ops, live, next_ref)
      /\ ops \in Seq(Ops) /\ idx \in Nat /\ messages_processed \in Nat
      BY DEF ApplyMixed, MixedInv, PileInv, Workload
<1>2. Sparing(ops) /\ Len(ops) \in Nat  BY <1>1, SparingOps, LenProperties
<1> DEFINE whole == Round(ops, Len(ops), l)
           part == Round(ops, idx, l)
           n == messages_processed
<1>3. IsMap(whole, Refs, OrderRecord) /\ IsMap(part, Refs, OrderRecord)
  <2>1. Len(ops) \in 0..Len(ops) /\ idx \in 0..Len(ops)  BY <1>1, <1>2
  <2> QED  BY <1>1, <1>2, <2>1, RoundType
<1>4. /\ StateOK(order_index, levels, n) /\ order_index = IndexAt(ops, idx, l, k)
      /\ Piled(levels, whole, part, k)
      /\ IsMap(levels, LevelKeys, PriceLevel) /\ Room(levels, n)
      BY DEF Standing, StateOK
<1>5. PICK s : s = ops[i]  OBVIOUS
<1>6. s.ref \in Refs /\ s \in Ops
  <2>1. OneStep(ops, idx, i, s)  BY <1>1, <1>5, PlanStep
  <2> QED  BY <2>1 DEF OneStep
<1>7. /\ s.op = "OP_ADD" => apply_add(s.ref, s.side, BenchShares, s.price)
      /\ s.op = "OP_DELETE" => apply_delete(s.ref)
      /\ s.op = "OP_EXECUTE" => apply_execute(s.ref, 1)
      BY <1>5 DEF ApplyMixed
<1>8. CASE s.op = "OP_ADD"
  <2>1. PICK t \in Timestamps : Add(l, s.ref, s.side, BenchShares, s.price, t, NoMpid)
        BY <1>7, <1>8 DEF apply_add
  <2>2. PICK rec : rec = [shares |-> BenchShares, price |-> s.price, stock_locate |-> l,
                          side |-> s.side, mpid |-> NoMpid]
        OBVIOUS
  <2>3. /\ n < MaxMessages /\ (UniqueRefs => s.ref \notin DOMAIN order_index)
        /\ levels' = InsertShares(levels, KeyOf(rec), rec.shares)
        /\ order_index' = Put(order_index, s.ref, rec)
        /\ TouchBook(l, t)
        BY <2>1, <2>2 DEF Add, Receiving, MayName
  <2>4. instruments' = instruments  BY <2>3 DEF TouchBook
  <2>5. /\ rec \in OrderRecord /\ s.ref \notin DOMAIN part
        /\ Round(ops, i, l) = Put(part, s.ref, rec)
        /\ IndexAt(ops, i, l, k) = Put(IndexAt(ops, idx, l, k), s.ref, rec)
        BY <1>1, <1>2, <1>5, <1>8, <2>2, RoundAdd
  <2> HIDE DEF whole, part, n
  <2>6. StateOK(order_index', levels', n + 1)
        BY <1>1, <1>4, <1>6, <2>3, <2>5, StateAdd DEF n
  <2>7. Piled(levels', whole, Put(part, s.ref, rec), k)
        BY <1>1, <1>3, <1>4, <1>6, <2>3, <2>5, PileAdd DEF n
  <2> QED  BY <1>4, <2>3, <2>4, <2>5, <2>6, <2>7 DEF whole, part, n
<1>9. CASE s.op = "OP_DELETE"
  <2>1. /\ s.ref \in DOMAIN part /\ s.ref \in DOMAIN order_index
        /\ order_index[s.ref] = part[s.ref]
        /\ Round(ops, i, l) = Erase(part, s.ref)
        /\ IndexAt(ops, i, l, k) = Erase(order_index, s.ref)
    <3>1. Removed(ops, idx, i, l, k, s.ref)  BY <1>1, <1>5, <1>9, RoundDelete
    <3> QED  BY <1>4, <3>1 DEF Removed
  <2>2. PICK t \in Timestamps : Delete(s.ref, t)
        BY <1>7, <1>9, <2>1 DEF apply_delete, SkipUnknown
  <2>3. PICK rec : rec = order_index[s.ref]  OBVIOUS
  <2>4. /\ levels' = RemoveShares(levels, KeyOf(rec), rec.shares, TRUE)
        /\ order_index' = Erase(order_index, s.ref) /\ TouchBook(rec.stock_locate, t)
        BY <2>2, <2>3 DEF Delete
  <2>5. rec.stock_locate = l  BY <2>1, <2>3 DEF Round, RecordOf
  <2>6. instruments' = instruments  BY <2>4, <2>5 DEF TouchBook
  <2> HIDE DEF whole, part, n
  <2>7. StateOK(order_index', levels', n)
        BY <1>1, <1>4, <2>1, <2>3, <2>4, StateWithdraw DEF n
  <2>8. StateOK(order_index', levels', n + 1)  BY <1>1, <2>7, StateGrows DEF n
  <2>9. Piled(levels', whole, Erase(part, s.ref), k)
        BY <1>3, <1>4, <2>1, <2>3, <2>4, PileDelete
  <2> QED  BY <2>1, <2>4, <2>6, <2>8, <2>9 DEF whole, part, n
<1>10. CASE s.op = "OP_EXECUTE"
  <2>1. /\ s.ref \in DOMAIN part /\ s.ref \in DOMAIN order_index
        /\ order_index[s.ref] = part[s.ref]
        BY <1>1, <1>2, <1>4, <1>5, <1>10, RoundExecute
  <2>2. PICK rec : rec = order_index[s.ref]  OBVIOUS
  <2>3. PICK after \in Nat \ {0} :
           /\ rec.shares = after + 1
           /\ Round(ops, i, l) = Put(part, s.ref, [rec EXCEPT !.shares = after])
           /\ IndexAt(ops, i, l, k) = Put(order_index, s.ref, [rec EXCEPT !.shares = after])
    <3>1. \E after \in Nat \ {0} : Reduced(ops, idx, i, l, k, s.ref, after)
          BY <1>1, <1>2, <1>5, <1>10, RoundExecute
    <3> QED  BY <1>4, <2>1, <2>2, <3>1 DEF Reduced
  <2>4. PICK t \in Timestamps : TakeShares(s.ref, 1, t)
        BY <1>7, <1>10, <2>1 DEF apply_execute, SkipUnknown
  <2>5. ClampedSub(rec.shares, 1) = after /\ rec.shares - after = 1 /\ after # 0
        BY <2>3 DEF ClampedSub
  <2>6. /\ levels' = RemoveShares(levels, KeyOf(rec), rec.shares - after, FALSE)
        /\ order_index' = Put(order_index, s.ref, [rec EXCEPT !.shares = after])
        /\ TouchBook(rec.stock_locate, t)
    <3>1. LET left == ClampedSub(rec.shares, 1)
          IN  /\ levels' = RemoveShares(levels, KeyOf(rec), rec.shares - left, left = 0)
              /\ TouchBook(rec.stock_locate, t)
              /\ order_index' = IF left = 0 THEN Erase(order_index, s.ref)
                                ELSE Put(order_index, s.ref, [rec EXCEPT !.shares = left])
          BY <2>2, <2>4 DEF TakeShares
    <3>2. (after = 0) = FALSE  BY <2>5
    <3> QED  BY <2>5, <3>1, <3>2
  <2>7. rec.stock_locate = l  BY <2>1, <2>2 DEF Round, RecordOf
  <2>8. instruments' = instruments  BY <2>6, <2>7 DEF TouchBook
  <2> HIDE DEF whole, part, n
  <2>9. StateOK(order_index', levels', n)
    <3>1. after \in Nat /\ 1 <= after /\ after <= rec.shares  BY <2>3
    <3> QED  BY <1>1, <1>4, <2>1, <2>2, <2>6, <3>1, StateReduce DEF n
  <2>10. StateOK(order_index', levels', n + 1)  BY <1>1, <2>9, StateGrows DEF n
  <2>11. Piled(levels', whole, Put(part, s.ref, [rec EXCEPT !.shares = after]), k)
    <3>1. levels' = RemoveShares(levels, KeyOf(part[s.ref]), 1, FALSE)
          BY <2>1, <2>2, <2>5, <2>6
    <3>2. part[s.ref].shares = after + 1 /\ after \in Nat  BY <2>1, <2>2, <2>3
    <3>3. Piled(RemoveShares(levels, KeyOf(part[s.ref]), 1, FALSE), whole,
                Put(part, s.ref, [part[s.ref] EXCEPT !.shares = after]), k)
          BY <1>3, <1>4, <2>1, <3>2, PileReduce
    <3> QED  BY <2>1, <2>2, <3>1, <3>3
  <2> QED  BY <2>3, <2>6, <2>8, <2>10, <2>11 DEF whole, part, n
<1> QED  BY <1>6, <1>8, <1>9, <1>10 DEF Ops

(* At the end of a round the index is what the next one finds. *)
LEMMA RoundTurns ==
    ASSUME NEW o, NEW l, NEW k \in Nat
    PROVE  IndexAt(o, Len(o), l, k) = IndexAt(o, 0, l, k + 1)
<1>1. AliveRefs(o, 0) = {} /\ \A r : ~Alive(o, r, 0)  BY DEF AliveRefs, Alive
<1>2. k + 1 # 0  OBVIOUS
<1>3. IndexAt(o, 0, l, k + 1) = [r \in AliveRefs(o, Len(o)) |-> RecordOf(o, r, Len(o), l)]
      BY <1>1, <1>2 DEF IndexAt
<1>4. IndexAt(o, Len(o), l, k) = [r \in AliveRefs(o, Len(o)) |-> RecordOf(o, r, Len(o), l)]
      BY DEF IndexAt
<1> QED  BY <1>3, <1>4

LEMMA PileApply ==
    ASSUME MixedInv, PileInv, ApplyMixed
    PROVE  PileInv'
<1>1. /\ benchmark = "mixed" /\ Built /\ Registered /\ idx' = (idx + 1) % Len(ops)
      /\ UNCHANGED <<benchmark, ops, live, next_ref>>
      BY DEF ApplyMixed
<1>2. messages_processed' = messages_processed + 1
      BY DEF ApplyMixed, apply_add, apply_delete, apply_execute, Add, Delete, TakeShares,
             SkipUnknown, Applied
<1>3. /\ Plan(ops, live, next_ref) /\ messages_processed \in Nat
      /\ ops \in Seq(Ops) /\ idx \in Nat /\ (idx = 0 \/ idx < Len(ops))
      BY <1>1 DEF MixedInv, PileInv, Workload
<1>4. messages_processed' \in Nat /\ messages_processed' # 0  BY <1>2, <1>3
<1>5. Exhausts' = Exhausts /\ Built' = Built  BY <1>1 DEF Exhausts, Built
<1>6. ASSUME ~Exhausts
      PROVE  \E l \in Locates, k \in Nat : DOMAIN instruments' = {l} /\ Standing(l, k)'
  <2>1. PICK l \in Locates, k \in Nat : DOMAIN instruments = {l} /\ Standing(l, k)
        BY <1>1, <1>6, StandingNow
  <2>2. PICK n \in Nat \ {0} : n = Len(ops)
        BY <1>1, <1>3, BenchAssumption, LenProperties DEF Built
  <2>3. PICK i \in 1..Len(ops) : i = idx + 1  BY <1>3, <2>2
  <2>4. /\ instruments' = instruments
        /\ StateOK(order_index', levels', messages_processed + 1)
        /\ order_index' = IndexAt(ops, i, l, k)
        /\ Piled(levels', Round(ops, n, l), Round(ops, i, l), k)
        BY <1>6, <2>1, <2>2, <2>3, OperationApplied
  <2>5. PICK x \in Nat : x = k * n  BY <2>2
  <2>6. messages_processed' = x + i
    <3>1. messages_processed = x + idx  BY <2>1, <2>2, <2>5 DEF Standing
    <3> QED  BY <1>2, <1>3, <2>3, <3>1
  <2>7. CASE i = n
    <3>1. idx' = 0
      <4>1. n % n = 0  BY <2>2
      <4> QED  BY <1>1, <2>2, <2>3, <2>7, <4>1
    <3>2. messages_processed' = (k + 1) * n + 0
      <4>1. (k + 1) * n = k * n + n  BY <2>2
      <4> QED  BY <2>2, <2>5, <2>6, <2>7, <4>1
    <3>3. order_index' = IndexAt(ops, 0, l, k + 1)  BY <2>2, <2>4, <2>7, RoundTurns
    <3>4. Piled(levels', Round(ops, n, l), Round(ops, 0, l), k + 1)
      <4>1. IsMap(Round(ops, n, l), Refs, OrderRecord)
        <5>1. n \in 0..Len(ops)  BY <2>2
        <5> QED  BY <1>3, <1>6, <5>1, SparingOps, RoundType
      <4>2. DOMAIN Round(ops, 0, l) = {}  BY RoundBegins
      <4>3. Piled(levels', Round(ops, n, l), Round(ops, n, l), k)  BY <2>4, <2>7
      <4> QED  BY <4>1, <4>2, <4>3, PileTurn
    <3>5. Standing(l, k + 1)'
          BY <1>1, <1>2, <2>2, <2>4, <3>1, <3>2, <3>3, <3>4 DEF Standing
    <3>6. k + 1 \in Nat  OBVIOUS
    <3> QED  BY <2>1, <2>4, <3>5, <3>6
  <2>8. CASE i # n
    <3>1. idx' = i
      <4>1. i \in 0..(n - 1)  BY <2>2, <2>8
      <4>2. i % n = i  BY <2>2, <4>1, ModSmall
      <4> QED  BY <1>1, <2>2, <2>3, <4>2
    <3>2. Standing(l, k)'
          BY <1>1, <1>2, <2>2, <2>4, <2>5, <2>6, <3>1 DEF Standing
    <3> QED  BY <2>1, <2>4, <3>2
  <2> QED  BY <2>7, <2>8
<1> QED  BY <1>1, <1>3, <1>4, <1>5, <1>6 DEF PileInv

LEMMA PileStep ==
    ASSUME MixedInv, PileInv, [FeedsNext]_feedVars
    PROVE  PileInv'
<1>1. CASE UNCHANGED feedVars
      BY <1>1 DEF feedVars, gapVars, benchVars, vars, PileInv, Standing, Exhausts, Built
<1>2. CASE benchmark = "none" /\ GapNext /\ UNCHANGED benchVars
      BY <1>2 DEF benchVars, PileInv
<1>3. CASE BenchRegister
  <2>1. /\ messages_processed = 0 /\ instruments = EmptyMap
        /\ UNCHANGED <<order_index, levels, messages_processed, benchmark, ops, live, next_ref, idx>>
        BY <1>3 DEF BenchRegister, RegisterInstrument, benchVars
  <2>2. PICK l \in Locates : \E info : instruments' = Put(instruments, l, info)
        BY <1>3 DEF BenchRegister, RegisterInstrument
  <2>3. DOMAIN instruments' = {l}  BY <2>1, <2>2 DEF Put, EmptyMap
  <2>4. Built' = Built  BY <2>1 DEF Built
  <2> QED  BY <2>1, <2>3, <2>4 DEF PileInv
<1>4. CASE SeedEngine \/ BenchDelete \/ NewEngine \/ BenchReplace \/ BenchExecute
  <2>1. benchmark' # "mixed"
        BY <1>4 DEF SeedEngine, BenchDelete, NewEngine, BenchReplace, BenchExecute, Iteration
  <2> QED  BY <2>1 DEF PileInv
<1> QED  BY <1>1, <1>2, <1>3, <1>4, PileBuild, PileApply DEF FeedsNext, BenchNext

LEMMA PileInit ==
    ASSUME FeedsInit
    PROVE  PileInv
<1> SUFFICES ASSUME benchmark = "mixed"  PROVE PileInv  BY DEF PileInv
<1>1. /\ ops = <<>> /\ live = {} /\ idx = 0 /\ next_ref = 1 /\ messages_processed = 0
      /\ order_index = EmptyMap /\ levels = EmptyMap /\ instruments = EmptyMap
      BY DEF FeedsInit, BenchInit, BenchIdle, Init
<1>2. Len(ops) = 0  BY <1>1, EmptySeq
<1>3. Plan(ops, live, next_ref)  BY <1>1, <1>2, BenchAssumption DEF Plan
<1>4. DOMAIN instruments = {}  BY <1>1 DEF EmptyMap
<1> QED  BY <1>1, <1>3, <1>4 DEF PileInv

(* The rounds are where PileInv says, however many there were. *)
THEOREM PileInvariance == FeedsSpec => []PileInv
BY PileInit, PileStep, MixedInvariance, PTL DEF FeedsSpec

(* A number of whole rounds, counted by division. *)
LEMMA WholeRounds ==
    ASSUME NEW k \in Nat, NEW n \in Nat \ {0}
    PROVE  (k * n) \div n = k
<1>1. PICK x \in Nat : x = k * n  OBVIOUS
<1>2. PICK q \in Nat, r \in 0..(n - 1) : q = x \div n /\ r = x % n /\ x = n * q + r
      BY NextOfRound
<1>3. ~(q < k)
  <2> SUFFICES ASSUME q + 1 <= k  PROVE FALSE  OBVIOUS
  <2>1. (q + 1) * n <= k * n  OBVIOUS
  <2>2. (q + 1) * n = n * q + n  OBVIOUS
  <2> QED  BY <1>1, <1>2, <2>1, <2>2
<1>4. ~(q > k)
  <2> SUFFICES ASSUME k + 1 <= q  PROVE FALSE  OBVIOUS
  <2>1. n * (k + 1) <= n * q  OBVIOUS
  <2>2. n * (k + 1) = k * n + n  OBVIOUS
  <2> QED  BY <1>1, <1>2, <2>1, <2>2
<1> QED  BY <1>1, <1>2, <1>3, <1>4

(* RoundsPileUp: after any number of rounds of any workload that exhausts  *)
(* no order, the index has the surviving orders once and the levels hold   *)
(* them once for each round.                                               *)
THEOREM PilesCorrect == FeedsSpec => []RoundsPileUp
<1>1. MixedInv /\ PileInv => RoundsPileUp
  <2> SUFFICES ASSUME MixedInv, PileInv, benchmark = "mixed", ~Exhausts, idx = 0,
                      messages_processed > 0
               PROVE  LET k == messages_processed \div Len(ops)
                          once == Aggregate(order_index)
                      IN  /\ DOMAIN order_index = live
                          /\ DOMAIN levels = DOMAIN once
                          /\ \A key \in DOMAIN levels :
                                /\ levels[key].order_count = k * once[key].order_count
                                /\ levels[key].total_shares = k * once[key].total_shares
      BY DEF RoundsPileUp
  <2>1. /\ Workload(ops, live, next_ref) /\ Plan(ops, live, next_ref) /\ Built
        /\ messages_processed \in Nat \ {0}
        BY DEF MixedInv, PileInv
  <2>2. PICK l \in Locates, k \in Nat : Standing(l, k)  BY <2>1 DEF PileInv
  <2>3. PICK n \in Nat \ {0} : n = Len(ops)
        BY <2>1, BenchAssumption, LenProperties DEF Built
  <2>4. /\ messages_processed = k * n /\ k # 0
    <3>1. messages_processed = k * n + 0  BY <2>2, <2>3 DEF Standing
    <3>2. k * n + 0 = k * n /\ (k = 0 => k * n = 0)  BY <2>3
    <3> QED  BY <2>1, <3>1, <3>2
  <2>5. messages_processed \div Len(ops) = k  BY <2>3, <2>4, WholeRounds
  <2> DEFINE whole == Round(ops, n, l)
  <2>6. order_index = whole
    <3>1. PICK m \in Nat : k = m + 1
      <4>1. k - 1 \in Nat /\ k = (k - 1) + 1  BY <2>4
      <4> QED  BY <4>1
    <3>2. order_index = IndexAt(ops, n, l, m)  BY <2>2, <2>3, <3>1, RoundTurns DEF Standing
    <3> QED  BY <2>3, <3>2 DEF IndexAt, Round
  <2>7. ops \in Seq(Ops) /\ Sparing(ops) /\ n \in 0..Len(ops)
        BY <2>1, <2>3, SparingOps DEF Workload
  <2>8. IsMap(whole, Refs, OrderRecord)  BY <2>7, RoundType
  <2>9. DOMAIN order_index = live
    <3>1. DOMAIN order_index = AliveRefs(ops, n)  BY <2>6 DEF Round
    <3>2. ASSUME NEW r \in live  PROVE r \in AliveRefs(ops, n)
      <4>1. Alive(ops, r, n)  BY <2>1, <2>3, <3>2 DEF Workload
      <4>2. PICK j \in 1..Len(ops) : ops[j].ref = r  BY <2>3, <4>1 DEF Alive
      <4>3. PICK m \in Nat : j = m + 1
        <5>1. j - 1 \in Nat /\ j = (j - 1) + 1  BY <2>3
        <5> QED  BY <5>1
      <4>4. OneStep(ops, m, j, ops[j])  BY <2>1, <4>3, PlanStep
      <4> QED  BY <4>1, <4>2, <4>4 DEF OneStep, AliveRefs
    <3>3. ASSUME NEW r \in AliveRefs(ops, n)  PROVE r \in live
      <4>1. Alive(ops, r, n)  BY <3>3 DEF AliveRefs
      <4>2. PICK j \in 1..n : ops[j].ref = r  BY <4>1 DEF Alive
      <4> QED  BY <2>1, <2>3, <4>1, <4>2 DEF Plan
    <3> QED  BY <3>1, <3>2, <3>3
  <2>10. IsMap(levels, LevelKeys, PriceLevel) /\ Piled(levels, whole, Round(ops, 0, l), k)
         BY <2>2, <2>3 DEF Standing, StateOK
  <2> HIDE DEF whole
  <2>11. ASSUME NEW key \in LevelKeys
         PROVE  /\ CountAt(levels, key) = k * Cardinality(OrdersAt(whole, key))
                /\ TotalAt(levels, key) = k * Cardinality(UnitsAt(whole, key))
                /\ key \in DOMAIN levels <=> key \in OccupiedKeys(whole)
    <3> DEFINE part == Round(ops, 0, l)
    <3>1. OrdersAt(part, key) = {}  BY RoundBegins DEF OrdersAt
    <3>2. UnitsAt(part, key) = {}  BY <3>1 DEF UnitsAt
    <3>3. Cardinality(OrdersAt(part, key)) = 0 /\ Cardinality(UnitsAt(part, key)) = 0
          BY <3>1, <3>2, FS_EmptySet
    <3>4. PICK b \in Nat, w \in Nat : /\ b = Cardinality(OrdersAt(whole, key))
                                      /\ w = Cardinality(UnitsAt(whole, key))
          BY <2>8, FiniteAt
    <3>5. k * b + 0 = k * b /\ k * w + 0 = k * w  OBVIOUS
    <3>6. CountAt(levels, key) = k * b /\ TotalAt(levels, key) = k * w
          BY <2>10, <3>3, <3>4, <3>5 DEF Piled
    <3>7. key \in DOMAIN levels <=> k * b # 0
      <4>1. key \in DOMAIN levels => k * b > 0  BY <2>10, <3>6 DEF Piled
      <4>2. key \notin DOMAIN levels => k * b = 0  BY <3>6 DEF CountAt
      <4> QED  BY <4>1, <4>2
    <3>8. k * b # 0 <=> b # 0  BY <2>4
    <3>9. b # 0 <=> OrdersAt(whole, key) # {}
          BY <2>8, <3>4, FiniteAt, FS_EmptySet
    <3>10. OrdersAt(whole, key) # {} <=> key \in OccupiedKeys(whole)
           BY DEF OrdersAt, OccupiedKeys
    <3> QED  BY <3>4, <3>6, <3>7, <3>8, <3>9, <3>10
  <2>12. OccupiedKeys(whole) \subseteq LevelKeys
         BY <2>8, KeyOfType DEF OccupiedKeys, IsMap
  <2>13. DOMAIN levels = OccupiedKeys(whole)  BY <2>10, <2>11, <2>12 DEF IsMap
  <2>14. ASSUME NEW key \in DOMAIN levels
         PROVE  /\ levels[key].order_count = k * Aggregate(whole)[key].order_count
                /\ levels[key].total_shares = k * Aggregate(whole)[key].total_shares
    <3>1. key \in LevelKeys /\ key \in OccupiedKeys(whole)  BY <2>12, <2>13
    <3>2. /\ levels[key].order_count = k * Cardinality(OrdersAt(whole, key))
          /\ levels[key].total_shares = k * Cardinality(UnitsAt(whole, key))
          BY <2>11, <3>1, <2>14 DEF CountAt, TotalAt
    <3> QED  BY <3>1, <3>2 DEF Aggregate
  <2>15. DOMAIN Aggregate(whole) = OccupiedKeys(whole)  BY DEF Aggregate
  <2> QED  BY <2>5, <2>6, <2>9, <2>13, <2>14, <2>15
<1> QED  BY MixedInvariance, PileInvariance, <1>1, PTL
============================================================================
