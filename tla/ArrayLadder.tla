---------------------------- MODULE ArrayLadder ----------------------------
(***************************************************************************)
(* ArrayLadder: a fixed array of levels, one per tick from Base upwards,   *)
(* with the number of occupied slots and the index of the best one kept    *)
(* beside it.  A price below Base or beyond the last slot is dropped.  The *)
(* loops that walk the array are given by what they find.                  *)
(***************************************************************************)
EXTENDS LadderTypes

CONSTANTS SLOTS, TICK, Base

ASSUME BandAssumption == SLOTS \in Nat \ {0} /\ TICK \in Nat \ {0} /\ Base \in Nat

VARIABLES slots, best_idx, nonempty_count

arrayVars == <<slots, best_idx, nonempty_count>>

Slots == 0..(SLOTS - 1)
Occupied(s) == {i \in Slots : s[i].order_count > 0}

(* A default-constructed level; best_idx SLOTS means that there is none. *)
ArrayInit ==
    /\ slots = [i \in Slots |-> [price |-> 0, total_shares |-> 0, order_count |-> 0]]
    /\ nonempty_count = 0
    /\ best_idx = SLOTS

idx_of(p) == IF p < Base THEN SLOTS ELSE (p - Base) \div TICK

(* Fault *)
KeepsFirstBest(i, count) == IF count = 1 THEN i ELSE best_idx

update_best_after_add(i, count) ==
    IF count = 1 \/ Better(i, best_idx) THEN i ELSE best_idx

(* Fault *)
StopsAtNeighbour(s, i, count) ==
    LET next == IF side = "Bid" THEN i - 1 ELSE i + 1
    IN  IF count = 0 \/ next \notin Slots THEN SLOTS ELSE next

(* The walk away from the emptied best slot to the first occupied one. *)
advance_best_from(s, i, count) ==
    LET behind == {j \in Occupied(s) : Better(i, j)}
    IN  IF count = 0 \/ behind = {} THEN SLOTS
        ELSE CHOOSE j \in behind : \A k \in behind : ~Better(k, j)

ArrayAdd(p, shares) ==
    LET i == idx_of(p)
        fresh == slots[i].order_count = 0
        count == IF fresh THEN nonempty_count + 1 ELSE nonempty_count
        level == IF fresh THEN [slots[i] EXCEPT !.price = p] ELSE slots[i]
    IN  IF i >= SLOTS THEN UNCHANGED arrayVars
        ELSE /\ nonempty_count' = count
             /\ best_idx' = IF fresh THEN update_best_after_add(i, count) ELSE best_idx
             /\ slots' = [slots EXCEPT ![i] = Grown(level, shares)]

(* An emptied slot keeps its price and its total. *)
ArrayRemove(p, shares, full_removal) ==
    LET i == idx_of(p)
        new == [slots EXCEPT ![i] = Shrunk(@, shares, full_removal)]
        empty == new[i].order_count = 0
        count == IF empty THEN nonempty_count - 1 ELSE nonempty_count
    IN  IF i >= SLOTS \/ slots[i].order_count = 0 THEN UNCHANGED arrayVars
        ELSE /\ slots' = new
             /\ nonempty_count' = count
             /\ best_idx' = IF empty /\ i = best_idx
                            THEN advance_best_from(new, i, count) ELSE best_idx

(* for_each starts at best_idx and passes over empty slots. *)
ArrayList ==
    LET order == BestFirst({i \in Occupied(slots) : ~Better(i, best_idx)})
    IN  IF nonempty_count = 0 THEN <<>> ELSE [n \in DOMAIN order |-> slots[order[n]]]
ArrayBest == IF nonempty_count = 0 THEN <<>> ELSE <<slots[best_idx]>>
ArraySize == nonempty_count

(* nonempty_count and best_idx, which are adjusted on the way and never    *)
(* recomputed, are right after any sequence of calls, also calls outside   *)
(* the band and removals of what is not there: the count of the occupied   *)
(* slots, and the best of them.                                            *)
ArrayIndexed ==
    LET occupied == Occupied(slots)
    IN  /\ nonempty_count = Cardinality(occupied)
        /\ IF occupied = {} THEN best_idx = SLOTS
           ELSE best_idx \in occupied /\ \A i \in occupied : ~Better(i, best_idx)

============================================================================
