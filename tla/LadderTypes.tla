---------------------------- MODULE LadderTypes ----------------------------
(***************************************************************************)
(* What the three price ladders of include/itch/price_ladder.h share: the  *)
(* level they keep and the direction "best first" has on either side.      *)
(***************************************************************************)
EXTENDS Integers, FiniteSets

CONSTANTS
    RawPrices,   \* raw prices callers may use
    U32,         \* number of values of a uint32_t
    U64          \* number of values of a uint64_t

ASSUME RawPricesAssumption == RawPrices \subseteq Nat
ASSUME LadderWidths == U32 \in Nat \ {0} /\ U64 \in Nat \ {0}

VARIABLE side   \* the template argument Side: "Bid" or "Ask", never changed

(* a is nearer to the best of its side than b; for prices and for slots,   *)
(* whose numbers grow with the price.                                      *)
Better(a, b) == IF side = "Bid" THEN a > b ELSE a < b

(* total_shares and order_count wrap like the unsigned fields they are:    *)
(* unlike the engine, the ladders subtract without a clamp.                *)
Grown(level, shares) ==
    [level EXCEPT !.total_shares = (@ + shares) % U64, !.order_count = (@ + 1) % U32]

(* Fault *)
CountsPartials(level, shares, full_removal) ==
    [level EXCEPT !.total_shares = (@ - shares) % U64, !.order_count = (@ - 1) % U32]

Shrunk(level, shares, full_removal) ==
    [level EXCEPT !.total_shares = (@ - shares) % U64,
                  !.order_count = IF full_removal THEN (@ - 1) % U32 ELSE @]

(* The elements of a set of prices or slots, best first. *)
BestFirst(S) ==
    LET Rank(x) == 1 + Cardinality({y \in S : Better(y, x)})
    IN  [i \in 1..Cardinality(S) |-> CHOOSE x \in S : Rank(x) = i]

============================================================================
