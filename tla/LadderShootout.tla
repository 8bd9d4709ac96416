--------------------------- MODULE LadderShootout ---------------------------
(***************************************************************************)
(* The three ladders side by side, given the same calls.  Callers of two   *)
(* kinds: one that keeps its orders as OrderBookEngine does and takes off  *)
(* a level exactly what it put there, at any price or only at prices of    *)
(* the array's grid; and the benchmark of bench_ladder_shootout.cpp, which *)
(* builds a list of operations and replays it round and round.             *)
(***************************************************************************)
EXTENDS MapLadder, FlatLadder, ArrayLadder

CONSTANTS
    Orders,        \* orders the engine-like caller has at a time
    ShareCounts,   \* shares of an order
    OpShares,      \* shares of an order of the benchmark: 100
    NSeed,         \* orders the benchmark starts with
    NReplay,       \* operations after them
    MaxSteps       \* bound on the operations replayed

(* Shares are uint32_t parameters; counts and sums of orders fit uint32_t  *)
(* and uint64_t.                                                           *)
ASSUME CallerAssumption ==
    /\ IsFiniteSet(Orders) /\ Cardinality(Orders) < U32
    /\ Cardinality(Orders) * (U32 - 1) < U64
    /\ U32 <= U64 /\ ShareCounts \subseteq 0..(U32 - 1) /\ OpShares \in 0..(U32 - 1)
    /\ NSeed \in Nat \ {0} /\ NReplay \in Nat
    /\ MaxSteps \in Nat /\ MaxSteps < U32
ASSUME GridAssumption == Base % TICK = 0

VARIABLES
    caller,   \* "any_price", "on_grid" or "shootout"
    orders,   \* order -> price and shares, of the engine-like caller
    ops,      \* the benchmark's operations
    live,     \* live_prices while they are built: price -> number of entries
    idx,      \* the next operation, from 0
    steps     \* operations replayed so far

ladders == <<map, flat, arrayVars>>
shootoutVars == <<side, ladders, caller, orders, ops, live, idx, steps>>

OnGrid(p) == idx_of(p) \in Slots /\ (p - Base) % TICK = 0

(* sample_price: cap to the band, snap to the tick. *)
TopOfBand == Base + (SLOTS - 1) * TICK
sample_price(raw) ==
    LET p == IF raw < Base THEN Base ELSE IF raw > TopOfBand THEN TopOfBand ELSE raw
    IN  (p \div TICK) * TICK

Sampled == {sample_price(raw) : raw \in RawPrices}

Init ==
    /\ caller \in {"any_price", "on_grid", "shootout"}
    /\ side \in IF caller = "shootout" THEN {"Bid"} ELSE {"Bid", "Ask"}
    /\ MapInit /\ FlatInit /\ ArrayInit
    /\ orders = [o \in {} |-> o]
    /\ ops = <<>> /\ live = [p \in Sampled |-> 0]
    /\ idx = 0 /\ steps = 0

----------------------------------------------------------------------------
AddShares(p, shares) == MapAdd(p, shares) /\ FlatAdd(p, shares) /\ ArrayAdd(p, shares)
RemoveShares(p, shares, full_removal) ==
    /\ MapRemove(p, shares, full_removal)
    /\ FlatRemove(p, shares, full_removal)
    /\ ArrayRemove(p, shares, full_removal)

(* An order is entered. *)
Place ==
    /\ caller # "shootout"
    /\ \E o \in Orders \ DOMAIN orders, p \in RawPrices, n \in ShareCounts :
          /\ caller = "on_grid" => OnGrid(p)
          /\ orders' = [x \in DOMAIN orders \cup {o} |->
                           IF x = o THEN [price |-> p, shares |-> n] ELSE orders[x]]
          /\ AddShares(p, n)
    /\ UNCHANGED <<side, caller, ops, live, idx, steps>>

(* Shares of an order are taken off: all of them, and the order leaves. *)
Take ==
    /\ \E o \in DOMAIN orders : \E n \in 0..orders[o].shares :
          /\ orders' = IF n = orders[o].shares THEN [x \in DOMAIN orders \ {o} |-> orders[x]]
                       ELSE [orders EXCEPT ![o].shares = @ - n]
          /\ RemoveShares(orders[o].price, n, n = orders[o].shares)
    /\ UNCHANGED <<side, caller, ops, live, idx, steps>>

----------------------------------------------------------------------------
(* build_workload.  The operations do not depend on the ladder.  Which of  *)
(* the three kinds comes next is random; without a live order it is an add. *)
Built == Len(ops) = NSeed + NReplay
Push(op, p) ==
    /\ caller = "shootout" /\ ~Built
    /\ ops' = Append(ops, [op |-> op, price |-> p])
    /\ UNCHANGED <<side, ladders, caller, orders, idx, steps>>

BuildAdd ==
    \E raw \in RawPrices :
        LET p == sample_price(raw) IN Push("OP_ADD", p) /\ live' = [live EXCEPT ![p] = @ + 1]

BuildRemoveFull ==
    \E p \in Sampled :
        /\ Len(ops) >= NSeed /\ live[p] > 0
        /\ Push("OP_REMOVE_FULL", p)
        /\ live' = [live EXCEPT ![p] = @ - 1]

BuildRemovePartial ==
    \E p \in Sampled :
        /\ Len(ops) >= NSeed /\ live[p] > 0
        /\ Push("OP_REMOVE_PARTIAL", p)
        /\ UNCHANGED live

(* run_workload_inner, for the seed and in the timed loop alike.  At the   *)
(* end it starts over, on top of what the last round has left.             *)
RunWorkload ==
    /\ caller = "shootout" /\ Built
    /\ steps < MaxSteps
    /\ LET s == ops[idx + 1]
       IN  \/ s.op = "OP_ADD" /\ AddShares(s.price, OpShares)
           \/ s.op = "OP_REMOVE_PARTIAL" /\ RemoveShares(s.price, 1, FALSE)
           \/ s.op = "OP_REMOVE_FULL" /\ RemoveShares(s.price, OpShares, TRUE)
    /\ idx' = (idx + 1) % Len(ops)
    /\ steps' = steps + 1
    /\ UNCHANGED <<side, caller, orders, ops, live>>

Next == Place \/ Take \/ BuildAdd \/ BuildRemoveFull \/ BuildRemovePartial \/ RunWorkload

Spec == Init /\ [][Next]_shootoutVars

----------------------------------------------------------------------------
(* Properties *)

(* The vector stays sorted through every insertion and erasure, so that    *)
(* binary search keeps finding each level: whatever the caller does, also  *)
(* when totals wrap, FlatLadder answers as MapLadder does.                 *)
FlatIsMap == FlatList = MapList /\ FlatBest = MapBest /\ FlatSize = MapSize

(* For a caller that stays on the grid and in the band and takes off what  *)
(* it put on, ArrayLadder answers as MapLadder does.                       *)
ArrayIsMap ==
    caller = "on_grid" => ArrayList = MapList /\ ArrayBest = MapBest /\ ArraySize = MapSize

(* The shares of a set of orders one by one: as many as their sum. *)
UnitsOf(here) == {u \in here \X (1..(U32 - 1)) : u[2] <= orders[u[1]].shares}

(* At any prices a slot of the array is the sum of the orders that fall    *)
(* between its tick and the next one: prices off the grid are merged, and  *)
(* only orders outside the band are left out.  No slot is left with a      *)
(* remainder of orders that are gone.                                      *)
SlotsAreSums ==
    caller # "shootout" =>
        \A i \in Slots :
            LET here == {o \in DOMAIN orders : idx_of(orders[o].price) = i}
            IN  /\ slots[i].order_count = Cardinality(here)
                /\ slots[i].total_shares = Cardinality(UnitsOf(here))

(* The number of levels the benchmark reports and the order in which the   *)
(* levels are visited are the same for all ladders, however often the      *)
(* workload has been replayed on what earlier rounds left.                 *)
Shape(list) == [i \in DOMAIN list |-> <<list[i].price, list[i].order_count>>]
SameShapes ==
    caller = "shootout" =>
        /\ Shape(ArrayList) = Shape(MapList)
        /\ Shape(ArrayBest) = Shape(MapBest)
        /\ ArraySize = MapSize

(* bench_ladder_shootout.cpp, "Apples-to-apples", and price_ladder.h, "All *)
(* three support the same operations": after one workload the ladders hold *)
(* the same levels.                                                        *)
SameLevels == caller = "shootout" => ArrayList = MapList

=============================================================================
