----------------------------- MODULE BookTypes -----------------------------
(***************************************************************************)
(* The data of the order book: what an order record, a price level and an  *)
(* instrument hold, and what a set of resting orders adds up to at a price *)
(* level.  Everything here is constant-level; BookEngine, RestingOrders    *)
(* and their proofs share it.                                              *)
(***************************************************************************)
EXTENDS Integers, FiniteSets

CONSTANTS
    Refs,          \* order reference numbers (uint64_t in the code)
    Locates,       \* stock locate codes
    Prices,        \* raw prices, in ten-thousandths of a dollar
    Sides,         \* side characters; only "B" is tested for
    ShareCounts,   \* share quantities a message can carry
    Attributions,  \* attribution strings of the F message, "" included
    Symbols,       \* stock symbols of the R message
    Lowercase,     \* the lower-case form of each symbol (std::tolower)
    TradingStates, \* trading state characters
    RoundLots,     \* round lot sizes
    Timestamps,    \* message timestamps
    U32,           \* number of values of a uint32_t
    U64            \* number of values of a uint64_t

ASSUME RefsAssumption == IsFiniteSet(Refs)
ASSUME PricesAssumption == Prices \subseteq Nat /\ IsFiniteSet(Prices)
ASSUME WidthAssumption == U32 \in Nat \ {0} /\ U64 \in Nat \ {0}
ASSUME SharesAssumption == ShareCounts \subseteq 0..(U32 - 1)
ASSUME StatesAssumption == "T" \in TradingStates
ASSUME ClockAssumption == Timestamps \subseteq Nat /\ RoundLots \subseteq Nat

Uint32 == 0..(U32 - 1)
Uint64 == 0..(U64 - 1)

----------------------------------------------------------------------------
(* An mpid field never set: an OrderRecord starts with four NUL characters. *)
NoMpid == "unset"

(* set_mpid_from, called by add_order_impl only when the string is not     *)
(* empty.  An attribution is a four-byte field of the message, so padding  *)
(* it to four characters loses nothing: the string stands for its padding. *)
MpidFrom(attribution) == IF attribution = "" THEN NoMpid ELSE attribution

OrderRecord == [shares : Uint32, price : Prices, stock_locate : Locates,
                side : Sides, mpid : {NoMpid} \cup Attributions]

PriceLevel == [total_shares : Uint64, order_count : Uint32]

(* What side_map[price] default-constructs. *)
EmptyLevel == [total_shares |-> 0, order_count |-> 0]

(* The ladder a side character selects: every character but 'B' is an ask. *)
BookSides == {"bids", "asks"}
BookSide(side) == IF side = "B" THEN "bids" ELSE "asks"

(* The bids and asks maps of all books, flattened into one map: a level is *)
(* found by the locate of its book, the ladder and the price.              *)
LevelKeys == Locates \X BookSides \X Prices
KeyOf(rec) == <<rec.stock_locate, BookSide(rec.side), rec.price>>

(* get_or_create_book's "UNKNOWN_<locate>".  It is longer than the eight   *)
(* characters of a stock field, so no directory message can carry it.      *)
Placeholder(locate) == <<"UNKNOWN", locate>>
AllSymbols == Symbols \cup {Placeholder(l) : l \in Locates}
Lower(symbol) == IF symbol \in Symbols THEN Lowercase[symbol]
                 ELSE <<"unknown", symbol[2]>>

InstrumentInfo == [symbol : AllSymbols, trading_state : TradingStates,
                   round_lot_size : RoundLots \cup {0}]

----------------------------------------------------------------------------
(* Partial functions, the meaning of the code's hash maps and ordered maps. *)
EmptyMap == [x \in {} |-> x]
IsMap(f, D, R) == DOMAIN f \subseteq D /\ f \in [DOMAIN f -> R]
Put(f, x, v) == [y \in DOMAIN f \cup {x} |-> IF y = x THEN v ELSE f[y]]
Erase(f, x) == [y \in DOMAIN f \ {x} |-> f[y]]

(* The resting orders of a price level, and their shares one by one: the   *)
(* number of elements of UnitsAt is the sum of the shares at the level.    *)
OrdersAt(idx, k) == {r \in DOMAIN idx : KeyOf(idx[r]) = k}
UnitsAt(idx, k) ==
    {u \in Refs \X (1..(U32 - 1)) :
        u[1] \in OrdersAt(idx, k) /\ u[2] <= idx[u[1]].shares}

OccupiedKeys(idx) == {KeyOf(idx[r]) : r \in DOMAIN idx}

(* The book a set of resting orders adds up to: a level exactly where an   *)
(* order rests, with the number of its orders and the sum of their shares. *)
Aggregate(idx) ==
    [k \in OccupiedKeys(idx) |->
        [total_shares |-> Cardinality(UnitsAt(idx, k)),
         order_count  |-> Cardinality(OrdersAt(idx, k))]]

============================================================================
