----------------------------- MODULE MapLadder -----------------------------
(***************************************************************************)
(* MapLadder: a std::map from prices to levels.  It is the baseline the    *)
(* other two ladders are compared with, and what the engine's books use.   *)
(***************************************************************************)
EXTENDS LadderTypes

VARIABLE map   \* price -> level

MapInit == map = [p \in {} |-> p]

(* levels_[p] makes a zero level when there is none. *)
MapAdd(p, shares) ==
    LET old == IF p \in DOMAIN map THEN map[p]
               ELSE [price |-> p, total_shares |-> 0, order_count |-> 0]
    IN  map' = [q \in DOMAIN map \cup {p} |-> IF q = p THEN Grown(old, shares) ELSE map[q]]

MapRemove(p, shares, full_removal) ==
    LET new == Shrunk(map[p], shares, full_removal)
    IN  map' = IF p \notin DOMAIN map THEN map
               ELSE IF new.order_count = 0 THEN [q \in DOMAIN map \ {p} |-> map[q]]
               ELSE [map EXCEPT ![p] = new]

(* What best(), size() and for_each() give. *)
MapList == LET order == BestFirst(DOMAIN map) IN [i \in DOMAIN order |-> map[order[i]]]
MapBest == IF DOMAIN map = {} THEN <<>> ELSE <<MapList[1]>>
MapSize == Cardinality(DOMAIN map)

============================================================================
