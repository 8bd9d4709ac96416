----------------------------- MODULE RestServer -----------------------------
(***************************************************************************)
(* RestServer (src/src/rest_server.cpp) beside the engine it reads from.   *)
(* A worker thread of the HTTP library runs one handler at a time: it      *)
(* loads the published snapshot once, and answers from it while the engine *)
(* goes on.  Left out: wall-clock times, wording, and the fields a handler *)
(* only copies for display (market category, descriptions).                *)
(***************************************************************************)
EXTENDS BookEngine, Sequences

CONSTANTS
    Workers,      \* threads that run handlers
    Requests,     \* what clients ask for: route, symbol, depth
    NoDepth,      \* no depth parameter
    NotInteger,   \* a depth parameter std::stoi does not take whole
    MaxInt32,     \* largest int32_t
    MaxRequests   \* bound on the requests

ASSUME RequestsAssumption ==
    \A req \in Requests : req.route \in {"status", "instruments", "book", "top"}
ASSUME RequestBounds == MaxInt32 \in Nat /\ MaxRequests \in Nat

VARIABLES
    handling,   \* worker -> the request it is handling
    snap,       \* worker -> the snapshot its handler has loaded
    answer,     \* worker -> its last answer
    since,      \* history: worker -> the engine when its last request came in
    requests    \* number of requests so far

restVars == <<handling, snap, answer, since, requests>>

DefaultDepth == 10
MaxDepth == 50

(* Where an answer comes from; before the first snapshot there is nothing. *)
Origin(s) ==
    IF s = NoSnapshot THEN [processed |-> 0, complete |-> FALSE]
    ELSE [processed |-> s.messages_processed, complete |-> s.pipeline_complete]

Reply(req, s, status, body) ==
    [route |-> req.route, symbol |-> req.symbol, from |-> Origin(s),
     status |-> status, body |-> body]

----------------------------------------------------------------------------
(* The handlers: the answers they may give from snapshot s *)

StatusAnswers(req, s) ==
    {Reply(req, s, 200,
        [instruments_tracked |-> IF s = NoSnapshot THEN 0 ELSE Cardinality(DOMAIN s.books)])}

(* A round lot size of 0 is unknown and shown as null, here <<>>. *)
Known(n) == IF n > 0 THEN <<n>> ELSE <<>>

InstrumentsAnswers(req, s) ==
    IF s = NoSnapshot THEN {Reply(req, s, 503, <<>>)}
    ELSE {Reply(req, s, 200,
            [symbol \in DOMAIN s.books |->
                [stock_locate |-> s.books[symbol].stock_locate,
                 trading_state |-> s.books[symbol].trading_state,
                 round_lot_size |-> Known(s.books[symbol].round_lot_size)]])}

(* Fault *)
ExactKeys(s, symbol) == {symbol} \cap DOMAIN s.symbol_index

(* The entries of symbol_index a request finds: it is lower-cased first. *)
IndexKeys(s, symbol) == {Lower(symbol)} \cap DOMAIN s.symbol_index

DepthOK(depth) == depth = NoDepth \/ (depth # NotInteger /\ depth \in 1..MaxDepth)
FirstLevels(list, depth) ==
    LET n == IF depth = NoDepth THEN DefaultDepth ELSE depth
    IN  SubSeq(list, 1, IF n < Len(list) THEN n ELSE Len(list))

(* The common head of both book handlers; Body has the answers' bodies. *)
Found(req, s, Body(_)) ==
    IF IndexKeys(s, req.symbol) = {} THEN {Reply(req, s, 404, <<>>)}
    ELSE UNION {{Reply(req, s, 200, body) : body \in Body(s.symbol_index[key])} :
                   key \in IndexKeys(s, req.symbol)}

BookAnswers(req, s) ==
    LET Body(symbol) ==
            LET b == s.books[symbol]
            IN  {[symbol |-> symbol, trading_state |-> b.trading_state,
                  last_update_timestamp |-> Known(b.last_update_timestamp),
                  bids |-> FirstLevels(b.bids, req.depth),
                  asks |-> FirstLevels(b.asks, req.depth)]}
    IN  IF s = NoSnapshot THEN {Reply(req, s, 503, <<>>)}
        ELSE IF ~DepthOK(req.depth) THEN {Reply(req, s, 400, <<>>)}
        ELSE Found(req, s, Body)

(* Fault *)
Back(list) == SubSeq(list, IF list = <<>> THEN 1 ELSE Len(list), Len(list))

(* The best level, or null, here <<>>, for an empty list. *)
Best(list) == SubSeq(list, 1, IF list = <<>> THEN 0 ELSE 1)

(* price * 10000.0 + 0.5, truncated, is the raw price again.  Casting one  *)
(* that is no int32_t is undefined: the processor's "indefinite" value, or *)
(* the low bits where the compiler converts by way of 64 bits.             *)
Raw(level) == level.dollars * 10000 + level.fraction
ToInt32(x) == IF x <= MaxInt32 THEN {x} ELSE {-MaxInt32 - 1, x - 2 * (MaxInt32 + 1)}

(* Fault *)
UnsignedSpread(ask, bid) == (ask - bid) % (2 * (MaxInt32 + 1))

Spread(ask, bid) == ask - bid

Quotes(bids, asks) ==
    IF bids = <<>> \/ asks = <<>> THEN {[spread |-> <<>>, crossed |-> FALSE]}
    ELSE {[spread |-> <<Spread(q[1], q[2])>>, crossed |-> q[1] < q[2]] :
             q \in ToInt32(Raw(asks[1])) \X ToInt32(Raw(bids[1]))}

TopAnswers(req, s) ==
    LET Body(symbol) ==
            LET b == s.books[symbol]
            IN  {[symbol |-> symbol, trading_state |-> b.trading_state,
                  last_update_timestamp |-> Known(b.last_update_timestamp),
                  best_bid |-> Best(b.bids), best_ask |-> Best(b.asks),
                  spread |-> q.spread, crossed |-> q.crossed] : q \in Quotes(b.bids, b.asks)}
    IN  IF s = NoSnapshot THEN {Reply(req, s, 503, <<>>)}
        ELSE Found(req, s, Body)

Answers(req, s) ==
    CASE req.route = "status" -> StatusAnswers(req, s)
      [] req.route = "instruments" -> InstrumentsAnswers(req, s)
      [] req.route = "book" -> BookAnswers(req, s)
      [] req.route = "top" -> TopAnswers(req, s)

----------------------------------------------------------------------------
(* The threads *)

RestInit ==
    /\ Init
    /\ handling = EmptyMap /\ snap = EmptyMap
    /\ answer = EmptyMap /\ since = EmptyMap
    /\ requests = 0

Arrive(w, req) ==
    /\ requests < MaxRequests
    /\ w \notin DOMAIN handling
    /\ requests' = requests + 1
    /\ handling' = Put(handling, w, req)
    /\ answer' = Erase(answer, w)
    /\ since' = Put(since, w, [processed |-> messages_processed, complete |-> pipeline_complete])
    /\ UNCHANGED <<vars, snap>>

(* auto snap = publisher_.current(); *)
Load(w) ==
    /\ w \in DOMAIN handling \ DOMAIN snap
    /\ snap' = Put(snap, w, published)
    /\ UNCHANGED <<vars, handling, answer, since, requests>>

(* The rest of the handler reads only its own snapshot. *)
Answer(w) ==
    /\ w \in DOMAIN handling \cap DOMAIN snap
    /\ \E a \in Answers(handling[w], snap[w]) : answer' = Put(answer, w, a)
    /\ handling' = Erase(handling, w)
    /\ snap' = Erase(snap, w)
    /\ UNCHANGED <<vars, since, requests>>

(* The engine as main() runs it. *)
Engine ==
    /\ \/ AddOrder \/ AddOrderMPID \/ OrderExecuted \/ OrderExecutedPrice \/ OrderCancel
       \/ OrderDelete \/ OrderReplace \/ StockDirectory \/ StockTradingAction
       \/ SetPipelineComplete
    /\ UNCHANGED restVars

RestNext ==
    \/ Engine
    \/ \E w \in Workers : \/ \E req \in Requests : Arrive(w, req)
                          \/ Load(w)
                          \/ Answer(w)

RestSpec == RestInit /\ [][RestNext]_<<vars, restVars>>

----------------------------------------------------------------------------
(* Properties *)

(* An answer misses fewer than SnapshotInterval of the messages applied    *)
(* when its request came in, and a request that comes in after the end of  *)
(* the pipeline is answered from the final snapshot.                       *)
FreshAtArrival ==
    \A w \in DOMAIN answer :
        /\ since[w].processed - answer[w].from.processed < SnapshotInterval
        /\ since[w].complete => answer[w].from.complete
                                /\ answer[w].from.processed = messages_processed

(* Two clients that ask for one instrument by /book and by /book/top and   *)
(* are answered from the same snapshot see the same best levels.           *)
BookAndTopAgree ==
    \A v, w \in DOMAIN answer :
        LET b == answer[v]
            t == answer[w]
        IN  /\ b.route = "book" /\ t.route = "top"
            /\ b.status = 200 /\ t.status = 200
            /\ b.symbol = t.symbol /\ b.from = t.from
            => /\ t.body.symbol = b.body.symbol
               /\ t.body.best_bid = SubSeq(b.body.bids, 1, Len(t.body.best_bid))
               /\ t.body.best_ask = SubSeq(b.body.asks, 1, Len(t.body.best_ask))
               /\ (t.body.best_bid = <<>>) = (b.body.bids = <<>>)
               /\ (t.body.best_ask = <<>>) = (b.body.asks = <<>>)

(* What /instruments lists /book and /book/top find, under any spelling,   *)
(* and nothing else: 404 means that no listed symbol is the one asked for, *)
(* and the book found has the symbol asked for up to case.                 *)
ListedIsFound ==
    \A v, w \in DOMAIN answer :
        LET list == answer[v]
            b == answer[w]
        IN  /\ list.route = "instruments" /\ b.route \in {"book", "top"}
            /\ list.status = 200 /\ b.status \in {200, 404}
            /\ list.from = b.from
            => /\ (b.status = 200) =
                     (Lower(b.symbol) \in {Lower(s) : s \in DOMAIN list.body})
               /\ b.status = 200 => b.body.symbol \in DOMAIN list.body
                                    /\ Lower(b.body.symbol) = Lower(b.symbol)

(* As long as the engine has not moved on, /book/top shows the engine's    *)
(* own top of book, and the spread is ask minus bid, negative exactly when *)
(* the book is crossed, for prices an int32_t can hold.                    *)
TopIsEngineTop ==
    \A w \in DOMAIN answer, l \in DOMAIN books :
        LET t == answer[w]
            Price(best) == IF best = <<>> THEN NoPrice ELSE Raw(best[1])
            bid == books[l].best_bid
            ask == books[l].best_ask
        IN  /\ t.route = "top" /\ t.status = 200
            /\ t.from.processed = messages_processed
            /\ {m \in DOMAIN instruments : instruments[m].symbol = t.body.symbol} = {l}
            => /\ Price(t.body.best_bid) = bid /\ Price(t.body.best_ask) = ask
               /\ NoPrice \notin {bid, ask} /\ bid <= MaxInt32 /\ ask <= MaxInt32
                  => t.body.spread = <<ask - bid>> /\ t.body.crossed = (ask < bid)

=============================================================================
