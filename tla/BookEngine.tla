----------------------------- MODULE BookEngine -----------------------------
(***************************************************************************)
(* OrderBookEngine (src/src/book_engine.cpp): one message at a time, it    *)
(* keeps an index of the resting orders, the price levels they add up to,  *)
(* the cached best level of each ladder, and every SnapshotInterval        *)
(* messages it publishes an immutable snapshot of all books.               *)
(*                                                                         *)
(* One action stands for one call of apply() with one kind of message, the *)
(* counting of the message and the publication at its end included.        *)
(***************************************************************************)
EXTENDS BookTypes

CONSTANTS
    UniqueRefs,        \* TRUE: the feed never reuses the reference of a resting order
    SnapshotInterval,  \* SNAPSHOT_INTERVAL
    MaxMessages        \* bound on the length of the feed

ASSUME FeedAssumption == UniqueRefs \in BOOLEAN /\ MaxMessages \in Nat
ASSUME IntervalAssumption == SnapshotInterval \in Nat \ {0}
(* A feed too short to wrap the counters of a level: below 2^32 messages,  *)
(* and with it below 2^64 shares.                                          *)
ASSUME CounterAssumption ==
    MaxMessages < U32 /\ MaxMessages * (U32 - 1) < U64

VARIABLES
    order_index,         \* reference -> OrderRecord
    levels,              \* level key -> PriceLevel: bids and asks of every book
    books,               \* locate -> cached best prices and time of last update
    instruments,         \* locate -> InstrumentInfo
    messages_processed,
    skipped_unknown_ref,
    corrupt_messages,
    pipeline_complete,
    published            \* what SnapshotPublisher::current() returns

bookVars == <<order_index, levels, books, instruments>>
countVars == <<skipped_unknown_ref, corrupt_messages>>
vars == <<order_index, levels, books, instruments, messages_processed,
          skipped_unknown_ref, corrupt_messages, pipeline_complete, published>>

----------------------------------------------------------------------------
(* Price levels *)

ClampedSub(val, sub) == IF sub > val THEN 0 ELSE val - sub

(* The insert lambda of add_order_impl and of the replace handler. *)
InsertShares(lv, k, shares) ==
    LET old == IF k \in DOMAIN lv THEN lv[k] ELSE EmptyLevel
    IN  Put(lv, k, [total_shares |-> (old.total_shares + shares) % U64,
                    order_count  |-> (old.order_count + 1) % U32])

(* Faults, each a plausible slip in the definition it stands beside; used  *)
(* only to see that a property notices it.                                 *)
CountEveryRemoval(lv, k, shares, full_removal) ==
    IF k \notin DOMAIN lv THEN lv
    ELSE IF lv[k].order_count = 1 THEN Erase(lv, k)
    ELSE Put(lv, k, [total_shares |-> ClampedSub(lv[k].total_shares, shares),
                     order_count  |-> lv[k].order_count - 1])

RemoveShares(lv, k, shares, full_removal) ==
    LET count == IF full_removal THEN (lv[k].order_count - 1) % U32
                 ELSE lv[k].order_count
    IN  IF k \notin DOMAIN lv THEN lv
        ELSE IF count = 0 THEN Erase(lv, k)
        ELSE Put(lv, k,
                 [total_shares |-> ClampedSub(lv[k].total_shares, shares),
                  order_count  |-> count])

(* The price a ladder's begin() has: highest bid, lowest ask. *)
NoPrice == -1
PricesOf(lv, locate, ladder) == {p \in Prices : <<locate, ladder, p>> \in DOMAIN lv}
Before(ladder, p, q) == IF ladder = "bids" THEN p > q ELSE p < q
BestPrice(lv, locate, ladder) ==
    LET prices == PricesOf(lv, locate, ladder)
    IN  IF prices = {} THEN NoPrice
        ELSE CHOOSE p \in prices : \A q \in prices : ~Before(ladder, q, p)

(* refresh_top and stamp_book, which end every handler that touches a book. *)
Touched(lv, locate, timestamp) ==
    [best_bid |-> BestPrice(lv, locate, "bids"),
     best_ask |-> BestPrice(lv, locate, "asks"),
     last_update_timestamp |-> timestamp]

(* get_or_create_book, with the refresh and the stamp that follow it.  The *)
(* placeholder instrument is made only along with a book.                  *)
RefreshBeforeChange(locate, timestamp) ==
    /\ books' = Put(books, locate, Touched(levels, locate, timestamp))
    /\ instruments' =
          IF locate \in DOMAIN books \cup DOMAIN instruments THEN instruments
          ELSE Put(instruments, locate,
                   [symbol |-> Placeholder(locate), trading_state |-> "T",
                    round_lot_size |-> 0])

NoPlaceholder(locate, timestamp) ==
    /\ books' = Put(books, locate, Touched(levels', locate, timestamp))
    /\ UNCHANGED instruments

TouchBook(locate, timestamp) ==
    /\ books' = Put(books, locate, Touched(levels', locate, timestamp))
    /\ instruments' =
          IF locate \in DOMAIN books \cup DOMAIN instruments THEN instruments
          ELSE Put(instruments, locate,
                   [symbol |-> Placeholder(locate), trading_state |-> "T",
                    round_lot_size |-> 0])

----------------------------------------------------------------------------
(* Snapshots *)

(* The publisher's null pointer, before the first snapshot: no fields. *)
NoSnapshot == EmptyMap

(* One ladder as build_snapshot lists it, best price first. *)
LadderSnapshot(lv, locate, ladder) ==
    LET prices == PricesOf(lv, locate, ladder)
        Rank(p) == 1 + Cardinality({q \in prices : Before(ladder, q, p)})
        PriceAt(i) == CHOOSE p \in prices : Rank(p) = i
    IN  [i \in 1..Cardinality(prices) |->
            LET p == PriceAt(i)
                level == lv[<<locate, ladder, p>>]
            IN  [dollars |-> p \div 10000, fraction |-> p % 10000,
                 total_shares |-> level.total_shares,
                 order_count |-> level.order_count]]

BookSnapshot(lv, bks, insts, locate) ==
    [stock_locate |-> locate,
     trading_state |-> insts[locate].trading_state,
     round_lot_size |-> insts[locate].round_lot_size,
     last_update_timestamp |-> IF locate \in DOMAIN bks
                               THEN bks[locate].last_update_timestamp ELSE 0,
     bids |-> IF locate \in DOMAIN bks THEN LadderSnapshot(lv, locate, "bids") ELSE <<>>,
     asks |-> IF locate \in DOMAIN bks THEN LadderSnapshot(lv, locate, "asks") ELSE <<>>]

(* Fault *)
EmptyBooksWin(bks, insts, symbol) ==
    LET named == {l \in DOMAIN insts : insts[l].symbol = symbol}
    IN  IF named \subseteq DOMAIN bks THEN named ELSE named \ DOMAIN bks

(* snap->books is keyed by symbol.  Of several locates with one symbol the *)
(* iteration order of the hash map leaves one, and one with a book wins    *)
(* over one without.                                                       *)
Shown(bks, insts, symbol) ==
    LET named == {l \in DOMAIN insts : insts[l].symbol = symbol}
    IN  IF named \cap DOMAIN bks = {} THEN named ELSE named \cap DOMAIN bks

Choices(S, Candidates(_)) ==
    {f \in [S -> UNION {Candidates(s) : s \in S}] : \A s \in S : f[s] \in Candidates(s)}

(* build_snapshot: every result the unspecified iteration order allows. *)
Snapshots(lv, bks, insts, processed, complete) ==
    LET symbols == {insts[l].symbol : l \in DOMAIN insts}
        Locate(s) == Shown(bks, insts, s)
        Spelled(low) == {s \in symbols : Lower(s) = low}
    IN  {[messages_processed |-> processed,
          pipeline_complete |-> complete,
          books |-> [s \in symbols |-> BookSnapshot(lv, bks, insts, walk[1][s])],
          symbol_index |-> walk[2]] :
            walk \in Choices(symbols, Locate) \X Choices({Lower(s) : s \in symbols}, Spelled)}

StaleLevels(processed, complete) ==
    published' \in Snapshots(levels, books', instruments', processed, complete)

Published(processed, complete) ==
    published' \in Snapshots(levels', books', instruments', processed, complete)

----------------------------------------------------------------------------
Init ==
    /\ order_index = EmptyMap
    /\ levels = EmptyMap
    /\ books = EmptyMap
    /\ instruments = EmptyMap
    /\ messages_processed = 0
    /\ skipped_unknown_ref = 0
    /\ corrupt_messages = 0
    /\ pipeline_complete = FALSE
    /\ published = NoSnapshot

(* main() calls apply() only before set_pipeline_complete(). *)
Receiving == ~pipeline_complete /\ messages_processed < MaxMessages

(* The end of apply(): count the message, maybe_publish_snapshot(). *)
Applied ==
    /\ messages_processed' = messages_processed + 1
    /\ pipeline_complete' = pipeline_complete
    /\ IF (messages_processed + 1) % SnapshotInterval = 0
       THEN Published(messages_processed + 1, pipeline_complete)
       ELSE published' = published

(* What a feed may use as the reference of a new order. *)
MayName(ref, resting) == UniqueRefs => ref \notin resting

(* add_order_impl.  order_index_[ref] = rec overwrites a record there is. *)
Add(locate, ref, side, shares, price, timestamp, mpid) ==
    /\ Receiving
    /\ MayName(ref, DOMAIN order_index)
    /\ LET rec == [shares |-> shares, price |-> price, stock_locate |-> locate,
                   side |-> side, mpid |-> mpid]
       IN  /\ levels' = InsertShares(levels, KeyOf(rec), shares)
           /\ order_index' = Put(order_index, ref, rec)
    /\ TouchBook(locate, timestamp)
    /\ UNCHANGED countVars
    /\ Applied

AddOrder ==
    \E l \in Locates, r \in Refs, s \in Sides, n \in ShareCounts, p \in Prices,
       t \in Timestamps : Add(l, r, s, n, p, t, NoMpid)

AddOrderMPID ==
    \E l \in Locates, r \in Refs, s \in Sides, n \in ShareCounts, p \in Prices,
       t \in Timestamps, a \in Attributions : Add(l, r, s, n, p, t, MpidFrom(a))

SkipWithoutPublishing(ref) ==
    /\ Receiving
    /\ ref \notin DOMAIN order_index
    /\ skipped_unknown_ref' = skipped_unknown_ref + 1
    /\ messages_processed' = messages_processed + 1
    /\ UNCHANGED <<bookVars, corrupt_messages, pipeline_complete, published>>

(* Execute, execute with price, cancel, delete and replace of a reference  *)
(* that is not in the index: counted, nothing else.                        *)
SkipUnknown(ref) ==
    /\ Receiving
    /\ ref \notin DOMAIN order_index
    /\ skipped_unknown_ref' = skipped_unknown_ref + 1
    /\ UNCHANGED <<order_index, levels, books, instruments, corrupt_messages>>
    /\ Applied

(* Faults; the first is the code before clamped_sub. *)
TakeSharesWraps(ref, shares, timestamp) ==
    /\ Receiving
    /\ ref \in DOMAIN order_index
    /\ LET rec == order_index[ref]
           k == KeyOf(rec)
           after == (rec.shares - shares) % U32
       IN  /\ levels' = IF after = 0 THEN RemoveShares(levels, k, rec.shares, TRUE)
                        ELSE [levels EXCEPT ![k].total_shares = (@ - shares) % U64]
           /\ TouchBook(rec.stock_locate, timestamp)
           /\ order_index' = IF after = 0 THEN Erase(order_index, ref)
                             ELSE Put(order_index, ref, [rec EXCEPT !.shares = after])
    /\ UNCHANGED countVars
    /\ Applied

TakeMessageShares(ref, shares, timestamp) ==
    /\ Receiving
    /\ ref \in DOMAIN order_index
    /\ LET rec == order_index[ref]
           after == ClampedSub(rec.shares, shares)
       IN  /\ corrupt_messages' = corrupt_messages + (IF shares > rec.shares THEN 1 ELSE 0)
           /\ levels' = RemoveShares(levels, KeyOf(rec), shares, after = 0)
           /\ TouchBook(rec.stock_locate, timestamp)
           /\ order_index' = IF after = 0 THEN Erase(order_index, ref)
                             ELSE Put(order_index, ref, [rec EXCEPT !.shares = after])
    /\ UNCHANGED skipped_unknown_ref
    /\ Applied

TakeSharesKeepsEmpty(ref, shares, timestamp) ==
    /\ Receiving
    /\ ref \in DOMAIN order_index
    /\ LET rec == order_index[ref]
           after == ClampedSub(rec.shares, shares)
       IN  /\ corrupt_messages' = corrupt_messages + (IF shares > rec.shares THEN 1 ELSE 0)
           /\ levels' = RemoveShares(levels, KeyOf(rec), rec.shares - after, after = 0)
           /\ TouchBook(rec.stock_locate, timestamp)
           /\ order_index' = Put(order_index, ref, [rec EXCEPT !.shares = after])
    /\ UNCHANGED skipped_unknown_ref
    /\ Applied

(* The common body of the three handlers that take shares off an order.    *)
(* The locate of the message is not looked at; the record's is.            *)
TakeShares(ref, shares, timestamp) ==
    /\ Receiving
    /\ ref \in DOMAIN order_index
    /\ LET rec == order_index[ref]
           after == ClampedSub(rec.shares, shares)
       IN  /\ corrupt_messages' = corrupt_messages + (IF shares > rec.shares THEN 1 ELSE 0)
           /\ levels' = RemoveShares(levels, KeyOf(rec), rec.shares - after, after = 0)
           /\ TouchBook(rec.stock_locate, timestamp)
           /\ order_index' = IF after = 0 THEN Erase(order_index, ref)
                             ELSE Put(order_index, ref, [rec EXCEPT !.shares = after])
    /\ UNCHANGED skipped_unknown_ref
    /\ Applied

OrderExecuted ==
    \E r \in Refs, n \in ShareCounts, t \in Timestamps :
        TakeShares(r, n, t) \/ SkipUnknown(r)

(* The execution price is for trade reporting and changes no book. *)
OrderExecutedPrice ==
    \E r \in Refs, n \in ShareCounts, t \in Timestamps :
        TakeShares(r, n, t) \/ SkipUnknown(r)

OrderCancel ==
    \E r \in Refs, n \in ShareCounts, t \in Timestamps :
        TakeShares(r, n, t) \/ SkipUnknown(r)

Delete(ref, timestamp) ==
    /\ Receiving
    /\ ref \in DOMAIN order_index
    /\ LET rec == order_index[ref]
       IN  /\ levels' = RemoveShares(levels, KeyOf(rec), rec.shares, TRUE)
           /\ TouchBook(rec.stock_locate, timestamp)
    /\ order_index' = Erase(order_index, ref)
    /\ UNCHANGED countVars
    /\ Applied

OrderDelete == \E r \in Refs, t \in Timestamps : Delete(r, t) \/ SkipUnknown(r)

ReplaceKeepsShares(old, new, shares, price, timestamp) ==
    /\ Receiving
    /\ old \in DOMAIN order_index
    /\ MayName(new, DOMAIN order_index \ {old})
    /\ LET old_rec == order_index[old]
           rec == [old_rec EXCEPT !.price = price]
           removed == RemoveShares(levels, KeyOf(old_rec), old_rec.shares, TRUE)
       IN  /\ levels' = InsertShares(removed, KeyOf(rec), rec.shares)
           /\ order_index' = Put(Erase(order_index, old), new, rec)
           /\ TouchBook(old_rec.stock_locate, timestamp)
    /\ UNCHANGED countVars
    /\ Applied

ReplaceForgetsMpid(old, new, shares, price, timestamp) ==
    /\ Receiving
    /\ old \in DOMAIN order_index
    /\ MayName(new, DOMAIN order_index \ {old})
    /\ LET old_rec == order_index[old]
           rec == [old_rec EXCEPT !.shares = shares, !.price = price, !.mpid = NoMpid]
           removed == RemoveShares(levels, KeyOf(old_rec), old_rec.shares, TRUE)
       IN  /\ levels' = InsertShares(removed, KeyOf(rec), shares)
           /\ order_index' = Put(Erase(order_index, old), new, rec)
           /\ TouchBook(old_rec.stock_locate, timestamp)
    /\ UNCHANGED countVars
    /\ Applied

(* The old order is taken off before the new one is put in, so the new     *)
(* reference may be the old one.                                           *)
Replace(old, new, shares, price, timestamp) ==
    /\ Receiving
    /\ old \in DOMAIN order_index
    /\ MayName(new, DOMAIN order_index \ {old})
    /\ LET old_rec == order_index[old]
           rec == [old_rec EXCEPT !.shares = shares, !.price = price]
           removed == RemoveShares(levels, KeyOf(old_rec), old_rec.shares, TRUE)
       IN  /\ levels' = InsertShares(removed, KeyOf(rec), shares)
           /\ order_index' = Put(Erase(order_index, old), new, rec)
           /\ TouchBook(old_rec.stock_locate, timestamp)
    /\ UNCHANGED countVars
    /\ Applied

OrderReplace ==
    \E old, new \in Refs, n \in ShareCounts, p \in Prices, t \in Timestamps :
        Replace(old, new, n, p, t) \/ SkipUnknown(old)

Directory(locate, symbol, round_lot_size) ==
    /\ Receiving
    /\ instruments' = Put(instruments, locate,
          [symbol |-> symbol, trading_state |-> "T", round_lot_size |-> round_lot_size])
    /\ UNCHANGED <<order_index, levels, books, countVars>>
    /\ Applied

StockDirectory ==
    \E l \in Locates, s \in Symbols, n \in RoundLots : Directory(l, s, n)

(* For an instrument the engine does not know, nothing happens. *)
TradingAction(locate, state) ==
    /\ Receiving
    /\ instruments' = IF locate \in DOMAIN instruments
                      THEN [instruments EXCEPT ![locate].trading_state = state]
                      ELSE instruments
    /\ UNCHANGED <<order_index, levels, books, countVars>>
    /\ Applied

StockTradingAction ==
    \E l \in Locates, s \in TradingStates : TradingAction(l, s)

(* register_instrument: how tests and benchmarks set an engine up. *)
RegisterInstrument ==
    /\ messages_processed = 0 /\ ~pipeline_complete
    /\ \E l \in Locates, s \in Symbols, state \in TradingStates, n \in RoundLots :
          instruments' = Put(instruments, l,
             [symbol |-> s, trading_state |-> state, round_lot_size |-> n])
    /\ UNCHANGED <<order_index, levels, books, messages_processed, countVars,
                   pipeline_complete, published>>

PublishBeforeComplete ==
    /\ ~pipeline_complete
    /\ pipeline_complete' = TRUE
    /\ UNCHANGED <<bookVars, messages_processed, countVars>>
    /\ Published(messages_processed, FALSE)

SetPipelineComplete ==
    /\ ~pipeline_complete
    /\ pipeline_complete' = TRUE
    /\ UNCHANGED <<bookVars, messages_processed, countVars>>
    /\ Published(messages_processed, TRUE)

Next ==
    \/ AddOrder \/ AddOrderMPID
    \/ OrderExecuted \/ OrderExecutedPrice \/ OrderCancel
    \/ OrderDelete \/ OrderReplace
    \/ StockDirectory \/ StockTradingAction
    \/ RegisterInstrument \/ SetPipelineComplete

Spec == Init /\ [][Next]_vars

----------------------------------------------------------------------------
(* Properties *)

BookState == [best_bid : Prices \cup {NoPrice}, best_ask : Prices \cup {NoPrice},
              last_update_timestamp : Timestamps]

(* Every map holds values of its type.  The fields of a level are reduced  *)
(* to their widths by the handlers, so this does not say that none of them *)
(* wrapped: NoPhantomLevel does.                                           *)
TypeOK ==
    /\ IsMap(order_index, Refs, OrderRecord)
    /\ IsMap(levels, LevelKeys, PriceLevel)
    /\ IsMap(books, Locates, BookState)
    /\ IsMap(instruments, Locates, InstrumentInfo)
    /\ messages_processed \in 0..MaxMessages
    /\ skipped_unknown_ref \in 0..messages_processed
    /\ corrupt_messages \in 0..messages_processed
    /\ pipeline_complete \in BOOLEAN

(* The levels, which handlers only ever adjust by one order's share, are   *)
(* at every moment exactly what the resting orders add up to: no level     *)
(* without an order, no order without a level, no share counted twice or   *)
(* lost.  Needs a feed with unique references.                             *)
Consistent == UniqueRefs => levels = Aggregate(order_index)

(* For any feed, references reused for new orders included: a level holds  *)
(* at least the orders and the shares of the index.  So remove_shares      *)
(* always finds its level, its clamp never fires and --order_count never   *)
(* wraps below zero: what the comment "Safety net only" relies on.         *)
Covers ==
    \A k \in OccupiedKeys(order_index) :
        /\ k \in DOMAIN levels
        /\ levels[k].order_count >= Cardinality(OrdersAt(order_index, k))
        /\ levels[k].total_shares >= Cardinality(UnitsAt(order_index, k))

(* "A gap cannot leave ... a multi-billion-share phantom level": for any   *)
(* feed, also one whose reused references leave orders in the levels that  *)
(* no message can take out any more, a level shows at least one order, no  *)
(* more orders than there were messages, and no more shares than that many *)
(* orders can have.  So no counter of a level has wrapped, up or down.     *)
NoPhantomLevel ==
    \A k \in DOMAIN levels :
        /\ levels[k].order_count \in 1..messages_processed
        /\ levels[k].total_shares <= levels[k].order_count * (U32 - 1)

(* best_bid and best_ask are pointers into the ladders.  They always point *)
(* to a level that is still there and that no other level beats, and are   *)
(* null exactly when the ladder is empty, also for books not touched last. *)
TopIsBest ==
    \A l \in Locates, ladder \in BookSides :
        LET prices == PricesOf(levels, l, ladder)
            best == IF ladder = "bids" THEN books[l].best_bid ELSE books[l].best_ask
        IN  IF l \notin DOMAIN books THEN prices = {}
            ELSE IF prices = {} THEN best = NoPrice
            ELSE best \in prices /\ \A p \in prices : ~Before(ladder, p, best)

(* Every resting order has its book and every book its instrument, so the  *)
(* "continue" of build_snapshot that would leave a book out is never taken *)
(* and the handlers of a known reference never create a book.              *)
OrdersHaveBooks ==
    /\ {order_index[r].stock_locate : r \in DOMAIN order_index} \subseteq DOMAIN books
    /\ DOMAIN books \subseteq DOMAIN instruments

(* However the feed is mixed of applied, skipped and ignored messages, the *)
(* REST layer is never SnapshotInterval or more messages behind.           *)
SnapshotLag ==
    messages_processed - (IF published = NoSnapshot THEN 0
                          ELSE published.messages_processed) \in 0..(SnapshotInterval - 1)

(* A list of levels is one ladder of the resting orders, best price first. *)
ShowsLadder(list, l, ladder) ==
    LET raw == [i \in DOMAIN list |-> list[i].dollars * 10000 + list[i].fraction]
        At(i) == <<l, ladder, raw[i]>>
    IN  /\ \A i, j \in DOMAIN list : i < j => Before(ladder, raw[i], raw[j])
        /\ \A i \in DOMAIN list :
              /\ list[i].order_count = Cardinality(OrdersAt(order_index, At(i)))
              /\ list[i].total_shares = Cardinality(UnitsAt(order_index, At(i)))
        /\ {At(i) : i \in DOMAIN list} =
              {k \in OccupiedKeys(order_index) : k[1] = l /\ k[2] = ladder}

(* A snapshot taken now shows, for every instrument whose symbol is its    *)
(* own, a ladder of strictly worsening prices with the number of resting   *)
(* orders and the shares of each, and no other price.                      *)
SnapshotShowsOrders ==
    UniqueRefs /\ published # NoSnapshot /\ published.messages_processed = messages_processed
    => \A l \in DOMAIN instruments :
          (\A m \in DOMAIN instruments \ {l} : instruments[m].symbol # instruments[l].symbol)
          => LET shown == published.books[instruments[l].symbol]
             IN  ShowsLadder(shown.bids, l, "bids") /\ ShowsLadder(shown.asks, l, "asks")

(* What the book a snapshot lists under a symbol has to do with the state: *)
(* it has the prices of one instrument of that symbol.                     *)
ResolvesTo(symbol, book) ==
    LET l == book.stock_locate
        Raws(list) == {list[i].dollars * 10000 + list[i].fraction : i \in DOMAIN list}
    IN  /\ l \in DOMAIN instruments /\ instruments[l].symbol = symbol
        /\ Raws(book.bids) = PricesOf(levels, l, "bids")
        /\ Raws(book.asks) = PricesOf(levels, l, "asks")
        /\ l \notin DOMAIN books => \A m \in DOMAIN books : instruments[m].symbol # symbol

(* Whatever symbols instruments share, exactly or up to case: a snapshot   *)
(* lists every symbol, under it the ladders of one instrument of that      *)
(* symbol and not of two, of one with a book if any of them has one; and   *)
(* what symbol_index leads to is a listed symbol with that spelling.       *)
SymbolsResolve ==
    published # NoSnapshot /\ published.messages_processed = messages_processed
    => /\ DOMAIN published.books = {instruments[l].symbol : l \in DOMAIN instruments}
       /\ \A s \in DOMAIN published.books :
             /\ ResolvesTo(s, published.books[s])
             /\ Lower(s) \in DOMAIN published.symbol_index
       /\ \A low \in DOMAIN published.symbol_index :
             LET s == published.symbol_index[low]
             IN  s \in DOMAIN published.books /\ Lower(s) = low

(* Once the pipeline is complete, the snapshot the REST layer serves says  *)
(* so and counts every message; before that, no snapshot says it.          *)
FinalSnapshot ==
    published # NoSnapshot \/ pipeline_complete
    => /\ published.pipeline_complete = pipeline_complete
       /\ pipeline_complete => published.messages_processed = messages_processed

Resting == INSTANCE RestingOrders WITH orders <- order_index, book <- levels

(* The engine implements the abstract book of its resting orders: apply()  *)
(* enters, shrinks, removes or amends one order, and the levels follow.    *)
ImplementsRestingOrders == Resting!AbsSpec

============================================================================
