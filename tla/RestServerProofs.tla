-------------------------- MODULE RestServerProofs --------------------------
(***************************************************************************)
(* What clients of the REST server can rely on, for any number of worker   *)
(* threads and whatever the engine does between two lines of a handler.    *)
(* An answer is compared with other answers and with the engine, and may   *)
(* be as old as the client likes; so the invariant is about all snapshots  *)
(* that have been published so far, of which the handlers and the answers  *)
(* each have one: no two of them carry the same message count and flag,    *)
(* and one with the engine's count was made of the engine's state.         *)
(***************************************************************************)
EXTENDS RestServer, BookEngineProofs, SequenceTheorems

(* What every snapshot is, whenever it was taken. *)
WellFormed(s) ==
    /\ DOMAIN s.symbol_index = {Lower(t) : t \in DOMAIN s.books}
    /\ \A low \in DOMAIN s.symbol_index :
          s.symbol_index[low] \in DOMAIN s.books /\ Lower(s.symbol_index[low]) = low
    /\ \A t \in DOMAIN s.books : IsList(s.books[t].bids) /\ IsList(s.books[t].asks)

(* H is a set of snapshots that has all there are: the published one, the  *)
(* ones handlers work from, and the ones the answers came from.            *)
History(H) ==
    /\ published \in H
    /\ \A w \in DOMAIN snap : snap[w] \in H
    /\ \A w \in DOMAIN answer : \E req \in Requests, s \in H : answer[w] \in Answers(req, s)
    /\ \A s \in H : /\ Origin(s).processed \in Nat
                    /\ Origin(s).processed <= messages_processed
                    /\ Origin(s).complete => pipeline_complete
    /\ \A s, t \in H : Origin(s) = Origin(t) => s = t
    /\ \A s \in H : s # NoSnapshot =>
          /\ WellFormed(s)
          /\ s.messages_processed = messages_processed
             => s \in Snapshots(levels, books, instruments, messages_processed, s.pipeline_complete)

HistoryInv == \E H : History(H)

(* An answer from a snapshot of this origin, to a request that came in at  *)
(* this moment of the engine.                                              *)
Fresh(at, from) ==
    /\ from.processed \in Nat
    /\ at.processed - from.processed < SnapshotInterval
    /\ at.complete => from.complete /\ from.processed = at.processed

ArrivalInv ==
    /\ DOMAIN snap \subseteq DOMAIN handling
    /\ DOMAIN handling \cap DOMAIN answer = {}
    /\ DOMAIN handling \cup DOMAIN answer \subseteq DOMAIN since
    /\ \A w \in DOMAIN handling : handling[w] \in Requests
    /\ \A w \in DOMAIN since :
          /\ since[w].processed \in Nat /\ since[w].processed <= messages_processed
          /\ since[w].complete => pipeline_complete /\ since[w].processed = messages_processed
    /\ \A w \in DOMAIN snap : Fresh(since[w], Origin(snap[w]))
    /\ \A w \in DOMAIN answer : Fresh(since[w], answer[w].from)

EngineInv == IInv /\ TopIsBest /\ OrdersHaveBooks /\ SnapInv

----------------------------------------------------------------------------
(* What an answer says about the snapshot it came from. *)
LEMMA AnswerFrom ==
    ASSUME NEW req \in Requests, NEW s, NEW a \in Answers(req, s)
    PROVE  /\ a.route = req.route /\ a.symbol = req.symbol /\ a.from = Origin(s)
           /\ a.route = "instruments" /\ a.status = 200 =>
                 s # NoSnapshot /\ DOMAIN a.body = DOMAIN s.books
           /\ a.route \in {"book", "top"} /\ a.status = 404 =>
                 s # NoSnapshot /\ Lower(a.symbol) \notin DOMAIN s.symbol_index
           /\ a.route \in {"book", "top"} /\ a.status = 200 =>
                 /\ s # NoSnapshot /\ Lower(a.symbol) \in DOMAIN s.symbol_index
                 /\ a.body.symbol = s.symbol_index[Lower(a.symbol)]
           /\ a.route = "book" /\ a.status = 200 =>
                 /\ DepthOK(req.depth)
                 /\ a.body.bids = FirstLevels(s.books[a.body.symbol].bids, req.depth)
                 /\ a.body.asks = FirstLevels(s.books[a.body.symbol].asks, req.depth)
           /\ a.route = "top" /\ a.status = 200 =>
                 LET b == s.books[a.body.symbol]
                 IN  /\ a.body.best_bid = Best(b.bids) /\ a.body.best_ask = Best(b.asks)
                     /\ \E q \in Quotes(b.bids, b.asks) :
                           a.body.spread = q.spread /\ a.body.crossed = q.crossed
<1> DEFINE key == Lower(req.symbol)
           symbol == s.symbol_index[key]
           b == s.books[symbol]
<1>1. req.route \in {"status", "instruments", "book", "top"}
  BY RequestsAssumption
<1>2. CASE req.route = "status"
  <2>1. a \in StatusAnswers(req, s)
    BY <1>2 DEF Answers
  <2>2. QED
    BY <1>2, <2>1 DEF StatusAnswers, Reply
<1>3. CASE req.route = "instruments"
  <2>1. a \in InstrumentsAnswers(req, s)
    BY <1>3 DEF Answers
  <2>2. QED
    BY <1>3, <2>1 DEF InstrumentsAnswers, Reply
<1>4. CASE req.route = "book"
  <2> DEFINE body == [symbol |-> symbol, trading_state |-> b.trading_state,
                      last_update_timestamp |-> Known(b.last_update_timestamp),
                      bids |-> FirstLevels(b.bids, req.depth),
                      asks |-> FirstLevels(b.asks, req.depth)]
  <2>1. a \in BookAnswers(req, s)
    BY <1>4 DEF Answers
  <2>2. CASE s = NoSnapshot
    <3>1. a = Reply(req, s, 503, <<>>)
      BY <2>1, <2>2 DEF BookAnswers
    <3>2. QED
      BY <1>4, <3>1 DEF Reply
  <2>3. CASE s # NoSnapshot /\ ~DepthOK(req.depth)
    <3>1. a = Reply(req, s, 400, <<>>)
      BY <2>1, <2>3 DEF BookAnswers
    <3>2. QED
      BY <1>4, <3>1 DEF Reply
  <2>4. CASE s # NoSnapshot /\ DepthOK(req.depth) /\ IndexKeys(s, req.symbol) = {}
    <3>1. a = Reply(req, s, 404, <<>>)
      BY <2>1, <2>4 DEF BookAnswers, Found
    <3>2. key \notin DOMAIN s.symbol_index
      BY <2>4 DEF IndexKeys
    <3>3. QED
      BY <1>4, <2>4, <3>1, <3>2 DEF Reply
  <2>5. CASE s # NoSnapshot /\ DepthOK(req.depth) /\ IndexKeys(s, req.symbol) # {}
    <3>1. key \in DOMAIN s.symbol_index /\ IndexKeys(s, req.symbol) = {key}
      BY <2>5 DEF IndexKeys
    <3>2. a = Reply(req, s, 200, body)
      BY <2>1, <2>5, <3>1 DEF BookAnswers, Found
    <3>3. /\ a.route = req.route /\ a.symbol = req.symbol /\ a.from = Origin(s)
          /\ a.status = 200 /\ a.body = body
      BY <3>2 DEF Reply
    <3>4. /\ a.body.symbol = symbol
          /\ a.body.bids = FirstLevels(b.bids, req.depth)
          /\ a.body.asks = FirstLevels(b.asks, req.depth)
      BY <3>3
    <3> HIDE DEF body
    <3>5. QED
      BY <1>4, <2>5, <3>1, <3>3, <3>4
  <2>6. QED
    BY <2>2, <2>3, <2>4, <2>5
<1>5. CASE req.route = "top"
  <2> DEFINE body(q) == [symbol |-> symbol, trading_state |-> b.trading_state,
                         last_update_timestamp |-> Known(b.last_update_timestamp),
                         best_bid |-> Best(b.bids), best_ask |-> Best(b.asks),
                         spread |-> q.spread, crossed |-> q.crossed]
  <2>1. a \in TopAnswers(req, s)
    BY <1>5 DEF Answers
  <2>2. CASE s = NoSnapshot
    <3>1. a = Reply(req, s, 503, <<>>)
      BY <2>1, <2>2 DEF TopAnswers
    <3>2. QED
      BY <1>5, <3>1 DEF Reply
  <2>3. CASE s # NoSnapshot /\ IndexKeys(s, req.symbol) = {}
    <3>1. a = Reply(req, s, 404, <<>>)
      BY <2>1, <2>3 DEF TopAnswers, Found
    <3>2. key \notin DOMAIN s.symbol_index
      BY <2>3 DEF IndexKeys
    <3>3. QED
      BY <1>5, <2>3, <3>1, <3>2 DEF Reply
  <2>4. CASE s # NoSnapshot /\ IndexKeys(s, req.symbol) # {}
    <3>1. key \in DOMAIN s.symbol_index /\ IndexKeys(s, req.symbol) = {key}
      BY <2>4 DEF IndexKeys
    <3>2. PICK q \in Quotes(b.bids, b.asks) : a = Reply(req, s, 200, body(q))
      BY <2>1, <2>4, <3>1 DEF TopAnswers, Found
    <3>3. /\ a.route = req.route /\ a.symbol = req.symbol /\ a.from = Origin(s)
          /\ a.status = 200 /\ a.body = body(q)
      BY <3>2 DEF Reply
    <3>4. /\ a.body.symbol = symbol
          /\ a.body.best_bid = Best(b.bids) /\ a.body.best_ask = Best(b.asks)
          /\ a.body.spread = q.spread /\ a.body.crossed = q.crossed
      BY <3>3
    <3> HIDE DEF body
    <3>5. QED
      BY <1>5, <2>4, <3>1, <3>2, <3>3, <3>4
  <2>5. QED
    BY <2>2, <2>3, <2>4
<1>6. QED
  BY <1>1, <1>2, <1>3, <1>4, <1>5

----------------------------------------------------------------------------
(* The engine's own invariants hold beside the server: a step of a handler *)
(* changes nothing of the engine.                                          *)
LEMMA RestStepsEngine == [RestNext]_<<vars, restVars>> => [Next]_vars
BY DEF RestNext, Engine, Next, Arrive, Load, Answer

(* All engine invariants hold at the start and are kept. *)
LEMMA EngineHolds ==
    /\ RestInit => EngineInv
    /\ EngineInv /\ [RestNext]_<<vars, restVars>> => EngineInv'
<1>1. ASSUME RestInit PROVE EngineInv
  <2>1. Init
    BY <1>1 DEF RestInit
  <2>2. TopIsBest
    BY <2>1 DEF Init, EmptyMap, TopIsBest, PricesOf
  <2>3. OrdersHaveBooks
    BY <2>1 DEF Init, EmptyMap, OrdersHaveBooks
  <2>4. QED
    BY <2>1, <2>2, <2>3, InitEstablishes, InitSnapshots DEF EngineInv
<1>2. QED
  BY <1>1, RestStepsEngine, NextPreserves, NextKeepsTop, NextKeepsBooks, NextKeepsSnapshots
     DEF EngineInv

(* Where the engine may go in one step, as far as the server can tell. *)
LEMMA EngineSteps ==
    ASSUME EngineInv, Engine
    PROVE  /\ ~pipeline_complete /\ messages_processed \in Nat
           /\ UNCHANGED restVars
           /\ \/ /\ messages_processed' = messages_processed + 1
                 /\ pipeline_complete' = pipeline_complete
                 /\ \/ published' = published
                    \/ published' \in Snapshots(levels', books', instruments',
                                                messages_processed', FALSE)
              \/ /\ messages_processed' = messages_processed /\ pipeline_complete'
                 /\ UNCHANGED <<levels, books, instruments>>
                 /\ published' \in Snapshots(levels', books', instruments',
                                             messages_processed', TRUE)
<1>1. messages_processed \in Nat /\ UNCHANGED restVars
  BY FeedAssumption DEF EngineInv, IInv, TypeOK, Engine
<1>2. CASE SetPipelineComplete
  BY <1>1, <1>2 DEF SetPipelineComplete, bookVars, Published
<1>3. CASE Applied /\ Receiving
  <2>1. ~pipeline_complete /\ pipeline_complete' = pipeline_complete
    BY <1>3 DEF Applied, Receiving
  <2>2. pipeline_complete = FALSE
    BY <2>1 DEF EngineInv, IInv, TypeOK
  <2>3. QED
    BY <1>1, <1>3, <2>1, <2>2 DEF Applied, Published
<1>4. QED
  BY <1>2, <1>3, CallsApply DEF Engine

(* The published snapshot, as a handler that loads it now finds it. *)
LEMMA PublishedIsFresh ==
    ASSUME EngineInv
    PROVE  /\ Origin(published).processed = Shot /\ Shot \in Nat
           /\ Shot <= messages_processed
           /\ messages_processed - Shot < SnapshotInterval
           /\ pipeline_complete => Origin(published).complete /\ Shot = messages_processed
<1>1. Origin(published).processed = Shot
  BY DEF Origin, Shot
<1>2. messages_processed \in Nat /\ SnapshotInterval \in Nat /\ pipeline_complete \in BOOLEAN
  BY FeedAssumption, IntervalAssumption DEF EngineInv, IInv, TypeOK
<1>3. /\ Shot \in Nat /\ Shot <= messages_processed
      /\ messages_processed < Shot + SnapshotInterval
      /\ pipeline_complete => published # NoSnapshot /\ Shot = messages_processed
      /\ published # NoSnapshot => published.pipeline_complete = pipeline_complete
  BY <1>2, Zenon DEF EngineInv, SnapInv, LagInv
<1>4. messages_processed - Shot < SnapshotInterval
  BY <1>2, <1>3
<1>5. ASSUME pipeline_complete PROVE Origin(published).complete
  BY <1>2, <1>3, <1>5 DEF Origin
<1>6. QED
  BY <1>1, <1>3, <1>4, <1>5

----------------------------------------------------------------------------
(* Requests, loads and answers keep every answer fresh; so does the engine, *)
(* which after the end of the pipeline does not move.                      *)
LEMMA NextKeepsArrival ==
    EngineInv /\ ArrivalInv /\ [RestNext]_<<vars, restVars>> => ArrivalInv'
<1> SUFFICES ASSUME EngineInv, ArrivalInv, [RestNext]_<<vars, restVars>> PROVE ArrivalInv'
  OBVIOUS
<1>1. messages_processed \in Nat /\ pipeline_complete \in BOOLEAN /\ SnapshotInterval \in Nat
  BY FeedAssumption, IntervalAssumption DEF EngineInv, IInv, TypeOK
<1>2. CASE Engine
  <2>1. /\ ~pipeline_complete /\ UNCHANGED restVars
        /\ messages_processed' \in Nat /\ messages_processed' >= messages_processed
    <3>1. /\ ~pipeline_complete /\ UNCHANGED restVars
          /\ messages_processed' = messages_processed + 1 \/ messages_processed' = messages_processed
      BY <1>2, EngineSteps, Zenon
    <3>2. QED
      BY <1>1, <3>1
  <2>2. \A w \in DOMAIN since : ~since[w].complete
    BY <2>1 DEF ArrivalInv
  <2>3. /\ handling' = handling /\ snap' = snap /\ answer' = answer /\ since' = since
    BY <2>1 DEF restVars
  <2>4. \A w \in DOMAIN since' :
          /\ since'[w].processed \in Nat /\ since'[w].processed <= messages_processed'
          /\ since'[w].complete => pipeline_complete' /\ since'[w].processed = messages_processed'
    BY <1>1, <2>1, <2>2, <2>3 DEF ArrivalInv
  <2>5. QED
    BY <2>3, <2>4 DEF ArrivalInv
<1>3. ASSUME NEW w \in Workers, NEW req \in Requests, Arrive(w, req)
      PROVE  ArrivalInv'
  <2> DEFINE at == [processed |-> messages_processed, complete |-> pipeline_complete]
  <2>1. /\ w \notin DOMAIN handling /\ handling' = Put(handling, w, req)
        /\ answer' = Erase(answer, w) /\ since' = Put(since, w, at)
        /\ messages_processed' = messages_processed /\ pipeline_complete' = pipeline_complete
        /\ snap' = snap
    BY <1>3 DEF Arrive, vars
  <2>2. at.processed = messages_processed /\ at.complete = pipeline_complete
    OBVIOUS
  <2> HIDE DEF at
  <2>3. w \notin DOMAIN snap
    BY <2>1 DEF ArrivalInv
  <2>4. /\ DOMAIN handling' = DOMAIN handling \cup {w}
        /\ handling'[w] = req /\ \A v \in DOMAIN handling : handling'[v] = handling[v]
    BY <2>1 DEF Put
  <2>5. /\ DOMAIN answer' = DOMAIN answer \ {w}
        /\ \A v \in DOMAIN answer' : answer'[v] = answer[v]
    BY <2>1 DEF Erase
  <2>6. /\ DOMAIN since' = DOMAIN since \cup {w} /\ since'[w] = at
        /\ \A v \in DOMAIN since : v # w => since'[v] = since[v]
    BY <2>1 DEF Put
  <2>7. /\ DOMAIN snap' \subseteq DOMAIN handling'
        /\ DOMAIN handling' \cap DOMAIN answer' = {}
        /\ DOMAIN handling' \cup DOMAIN answer' \subseteq DOMAIN since'
        /\ \A v \in DOMAIN handling' : handling'[v] \in Requests
    BY <2>1, <2>4, <2>5, <2>6 DEF ArrivalInv
  <2>8. ASSUME NEW v \in DOMAIN since'
        PROVE  /\ since'[v].processed \in Nat /\ since'[v].processed <= messages_processed'
               /\ since'[v].complete => pipeline_complete' /\ since'[v].processed = messages_processed'
    <3>1. CASE v = w
      BY <1>1, <2>1, <2>2, <2>6, <3>1
    <3>2. CASE v # w
      BY <2>1, <2>6, <3>2 DEF ArrivalInv
    <3>3. QED
      BY <3>1, <3>2
  <2>9. \A v \in DOMAIN snap' : Fresh(since'[v], Origin(snap'[v]))
    <3>1. \A v \in DOMAIN snap : v # w /\ v \in DOMAIN since
      BY <2>3 DEF ArrivalInv
    <3>2. QED
      BY <2>1, <2>6, <3>1 DEF ArrivalInv
  <2>10. \A v \in DOMAIN answer' : Fresh(since'[v], answer'[v].from)
    <3>1. \A v \in DOMAIN answer' : v # w /\ v \in DOMAIN answer /\ v \in DOMAIN since
      BY <2>5 DEF ArrivalInv
    <3>2. QED
      BY <2>5, <2>6, <3>1 DEF ArrivalInv
  <2>11. QED
    BY <2>7, <2>8, <2>9, <2>10 DEF ArrivalInv
<1>4. ASSUME NEW w \in Workers, Load(w)
      PROVE  ArrivalInv'
  <2>1. /\ w \in DOMAIN handling /\ snap' = Put(snap, w, published)
        /\ messages_processed' = messages_processed /\ pipeline_complete' = pipeline_complete
        /\ handling' = handling /\ answer' = answer /\ since' = since
    BY <1>4 DEF Load, vars
  <2>2. /\ DOMAIN snap' = DOMAIN snap \cup {w} /\ snap'[w] = published
        /\ \A v \in DOMAIN snap : v # w => snap'[v] = snap[v]
    BY <2>1 DEF Put
  <2>3. Fresh(since[w], Origin(published))
    <3>1. /\ since[w].processed \in Nat /\ since[w].processed <= messages_processed
          /\ since[w].complete => pipeline_complete /\ since[w].processed = messages_processed
      BY <2>1 DEF ArrivalInv
    <3>2. since[w].processed - Shot < SnapshotInterval
      BY <1>1, <3>1, PublishedIsFresh
    <3>3. QED
      BY <3>1, <3>2, PublishedIsFresh DEF Fresh
  <2>4. \A v \in DOMAIN snap' : Fresh(since'[v], Origin(snap'[v]))
    BY <2>1, <2>2, <2>3 DEF ArrivalInv
  <2>5. QED
    BY <2>1, <2>2, <2>4 DEF ArrivalInv
<1>5. ASSUME NEW w \in Workers, Answer(w)
      PROVE  ArrivalInv'
  <2>1. /\ w \in DOMAIN handling /\ w \in DOMAIN snap
        /\ handling' = Erase(handling, w) /\ snap' = Erase(snap, w)
        /\ messages_processed' = messages_processed /\ pipeline_complete' = pipeline_complete
        /\ since' = since
    BY <1>5 DEF Answer, vars
  <2>2. PICK a \in Answers(handling[w], snap[w]) : answer' = Put(answer, w, a)
    BY <1>5 DEF Answer
  <2>3. a.from = Origin(snap[w])
    <3>1. handling[w] \in Requests
      BY <2>1 DEF ArrivalInv
    <3>2. QED
      BY <3>1, AnswerFrom
  <2>4. /\ DOMAIN answer' = DOMAIN answer \cup {w} /\ answer'[w] = a
        /\ \A v \in DOMAIN answer : v # w => answer'[v] = answer[v]
    BY <2>2 DEF Put
  <2>5. /\ DOMAIN handling' = DOMAIN handling \ {w} /\ DOMAIN snap' = DOMAIN snap \ {w}
        /\ \A v \in DOMAIN handling' : handling'[v] = handling[v]
        /\ \A v \in DOMAIN snap' : snap'[v] = snap[v]
    BY <2>1 DEF Erase
  <2>6. /\ DOMAIN snap' \subseteq DOMAIN handling'
        /\ DOMAIN handling' \cap DOMAIN answer' = {}
        /\ DOMAIN handling' \cup DOMAIN answer' \subseteq DOMAIN since'
        /\ \A v \in DOMAIN handling' : handling'[v] \in Requests
    BY <2>1, <2>4, <2>5 DEF ArrivalInv
  <2>7. \A v \in DOMAIN answer' : Fresh(since'[v], answer'[v].from)
    BY <2>1, <2>3, <2>4 DEF ArrivalInv
  <2>8. \A v \in DOMAIN snap' : Fresh(since'[v], Origin(snap'[v]))
    BY <2>1, <2>5 DEF ArrivalInv
  <2>9. QED
    BY <2>1, <2>6, <2>7, <2>8 DEF ArrivalInv
<1>6. CASE UNCHANGED <<vars, restVars>>
  BY <1>6 DEF vars, restVars, ArrivalInv
<1>7. QED
  BY <1>2, <1>3, <1>4, <1>5, <1>6 DEF RestNext

(* The invariant of the requests holds always. *)
LEMMA ArrivalHolds == RestSpec => [](EngineInv /\ ArrivalInv)
<1>1. RestInit => ArrivalInv
  BY DEF RestInit, EmptyMap, ArrivalInv
<1>2. QED
  BY <1>1, EngineHolds, NextKeepsArrival, PTL DEF RestSpec

(* However long a handler takes, its answer misses fewer than an interval  *)
(* of the messages applied when its request came in, and none once the     *)
(* pipeline was complete by then.                                          *)
THEOREM AnswersAreFresh == RestSpec => []FreshAtArrival
<1>1. EngineInv /\ ArrivalInv => FreshAtArrival
  <2> SUFFICES ASSUME EngineInv, ArrivalInv, NEW w \in DOMAIN answer
               PROVE  /\ since[w].processed - answer[w].from.processed < SnapshotInterval
                      /\ since[w].complete => answer[w].from.complete
                                              /\ answer[w].from.processed = messages_processed
    BY DEF FreshAtArrival
  <2>1. Fresh(since[w], answer[w].from) /\ w \in DOMAIN since
    BY DEF ArrivalInv
  <2>2. QED
    BY <2>1 DEF Fresh, ArrivalInv
<1>2. QED
  BY <1>1, ArrivalHolds, PTL

----------------------------------------------------------------------------
(* Every snapshot build_snapshot makes is well formed. *)
LEMMA SnapshotWellFormed ==
    ASSUME NEW lv, NEW bks, NEW insts, NEW n, NEW c, NEW s \in Snapshots(lv, bks, insts, n, c)
    PROVE  /\ s # NoSnapshot /\ WellFormed(s)
           /\ Origin(s).processed = n /\ Origin(s).complete = c
           /\ s.messages_processed = n /\ s.pipeline_complete = c
<1> DEFINE symbols == {insts[l].symbol : l \in DOMAIN insts}
           spellings == {Lower(t) : t \in symbols}
<1>1. /\ s # NoSnapshot
      /\ s.messages_processed = n /\ s.pipeline_complete = c
      /\ DOMAIN s.books = symbols
      /\ \A t \in symbols : \E l : s.books[t] = BookSnapshot(lv, bks, insts, l)
      /\ DOMAIN s.symbol_index = spellings
      /\ \A low \in spellings :
            s.symbol_index[low] \in symbols /\ Lower(s.symbol_index[low]) = low
  BY SnapshotHolds
<1>2. ASSUME NEW l
      PROVE  LET b == BookSnapshot(lv, bks, insts, l) IN IsList(b.bids) /\ IsList(b.asks)
  <2> DEFINE b == BookSnapshot(lv, bks, insts, l)
  <2>1. IsList(<<>>)
    <3>1. DOMAIN <<>> = 1..0 /\ <<>> = [i \in 1..0 |-> <<>>[i]]
      OBVIOUS
    <3>2. QED
      BY <3>1 DEF IsList
  <2>2. \A ladder : IsList(LadderSnapshot(lv, l, ladder))
    BY LadderListed
  <2>3. b.bids \in {LadderSnapshot(lv, l, "bids"), <<>>} /\ b.asks \in {LadderSnapshot(lv, l, "asks"), <<>>}
    BY DEF BookSnapshot
  <2> HIDE DEF b
  <2>4. IsList(b.bids) /\ IsList(b.asks)
    BY <2>1, <2>2, <2>3
  <2>5. QED
    BY <2>4 DEF b
<1>3. \A t \in DOMAIN s.books : IsList(s.books[t].bids) /\ IsList(s.books[t].asks)
  BY <1>1, <1>2
<1>4. WellFormed(s)
  BY <1>1, <1>3, Zenon DEF WellFormed
<1>5. QED
  BY <1>1, <1>4 DEF Origin

(* Every snapshot that is published is new: its count is larger than all   *)
(* before it, or it is the first to say complete.                          *)
LEMMA NextKeepsHistory ==
    EngineInv /\ ArrivalInv /\ HistoryInv /\ [RestNext]_<<vars, restVars>> => HistoryInv'
<1> SUFFICES ASSUME EngineInv, ArrivalInv, [RestNext]_<<vars, restVars>>,
                    NEW H, History(H)
             PROVE  \E G : History(G)'
  BY DEF HistoryInv
<1>1. messages_processed \in Nat /\ pipeline_complete \in BOOLEAN
  BY FeedAssumption DEF EngineInv, IInv, TypeOK
<1>2. CASE Engine
  <2>1. /\ ~pipeline_complete
        /\ snap' = snap /\ answer' = answer
    BY <1>2, EngineSteps DEF restVars
  <2>2. \A s \in H : /\ Origin(s).processed \in Nat /\ Origin(s).processed <= messages_processed
                     /\ ~Origin(s).complete
                     /\ s # NoSnapshot => WellFormed(s) /\ s.messages_processed = Origin(s).processed
    BY <2>1 DEF History, Origin
  <2>3. CASE messages_processed' = messages_processed + 1 /\ published' = published
    <3>1. \A s \in H : /\ Origin(s).processed <= messages_processed'
                       /\ s # NoSnapshot => s.messages_processed # messages_processed'
      BY <1>1, <2>2, <2>3
    <3>2. History(H)'
      BY <2>1, <2>2, <2>3, <3>1 DEF History
    <3>3. QED
      BY <3>2
  <2>4. CASE /\ messages_processed' = messages_processed + 1
             /\ published' \in Snapshots(levels', books', instruments', messages_processed', FALSE)
    <3>a. PICK new : new = published'
      OBVIOUS
    <3> DEFINE G == H \cup {new}
    <3>1. /\ new # NoSnapshot /\ WellFormed(new)
          /\ Origin(new).processed = messages_processed' /\ Origin(new).complete = FALSE
          /\ new.messages_processed = messages_processed' /\ new.pipeline_complete = FALSE
      <4>1. PICK flag : flag = FALSE
        OBVIOUS
      <4>2. new \in Snapshots(levels', books', instruments', messages_processed', flag)
        BY <3>a, <4>1, <2>4
      <4>3. /\ new # NoSnapshot /\ WellFormed(new)
            /\ Origin(new).processed = messages_processed' /\ Origin(new).complete = flag
            /\ new.messages_processed = messages_processed' /\ new.pipeline_complete = flag
        BY <4>2, SnapshotWellFormed
      <4>4. QED
        BY <4>1, <4>3
    <3>2. Origin(new).processed = messages_processed' /\ ~Origin(new).complete
      BY <3>1
    <3>3. \A s \in H : /\ Origin(s).processed <= messages_processed'
                       /\ Origin(s).processed # messages_processed'
                       /\ s # NoSnapshot => s.messages_processed # messages_processed'
      BY <1>1, <2>2, <2>4
    <3>4. messages_processed' \in Nat
      BY <1>1, <2>4
    <3>5. \A s, t \in G : Origin(s) = Origin(t) => s = t
      BY <3>2, <3>3 DEF History
    <3>6. \A s \in G : /\ Origin(s).processed \in Nat
                       /\ Origin(s).processed <= messages_processed'
                       /\ ~Origin(s).complete
      BY <2>2, <3>2, <3>3, <3>4
    <3>7. \A s \in G : s # NoSnapshot =>
             /\ WellFormed(s)
             /\ s.messages_processed = messages_processed'
                => s \in Snapshots(levels', books', instruments', messages_processed', s.pipeline_complete)
      BY <2>2, <2>4, <3>a, <3>1, <3>3
    <3>8. /\ new \in G
          /\ \A w \in DOMAIN snap' : snap'[w] \in G
          /\ \A w \in DOMAIN answer' : \E req \in Requests, s \in G : answer'[w] \in Answers(req, s)
      BY <2>1 DEF History
    <3> HIDE DEF G
    <3>9. History(G)'
      BY <3>a, <3>5, <3>6, <3>7, <3>8 DEF History
    <3>10. QED
      BY <3>9
  <2>5. CASE /\ messages_processed' = messages_processed /\ pipeline_complete'
             /\ UNCHANGED <<levels, books, instruments>>
             /\ published' \in Snapshots(levels', books', instruments', messages_processed', TRUE)
    <3>a. PICK new : new = published'
      OBVIOUS
    <3> DEFINE G == H \cup {new}
    <3>1. /\ new # NoSnapshot /\ WellFormed(new)
          /\ Origin(new).processed = messages_processed' /\ Origin(new).complete = TRUE
          /\ new.messages_processed = messages_processed' /\ new.pipeline_complete = TRUE
      <4>1. PICK flag : flag = TRUE
        OBVIOUS
      <4>2. new \in Snapshots(levels', books', instruments', messages_processed', flag)
        BY <3>a, <4>1, <2>5
      <4>3. /\ new # NoSnapshot /\ WellFormed(new)
            /\ Origin(new).processed = messages_processed' /\ Origin(new).complete = flag
            /\ new.messages_processed = messages_processed' /\ new.pipeline_complete = flag
        BY <4>2, SnapshotWellFormed
      <4>4. QED
        BY <4>1, <4>3
    <3>2. Origin(new).processed = messages_processed' /\ Origin(new).complete
      BY <3>1
    <3>3. \A s, t \in G : Origin(s) = Origin(t) => s = t
      BY <2>2, <3>2 DEF History
    <3>4. \A s \in G : /\ Origin(s).processed \in Nat
                       /\ Origin(s).processed <= messages_processed'
      BY <1>1, <2>2, <2>5, <3>2
    <3>5. \A s \in G : s # NoSnapshot =>
             /\ WellFormed(s)
             /\ s.messages_processed = messages_processed'
                => s \in Snapshots(levels', books', instruments', messages_processed', s.pipeline_complete)
      BY <2>5, <3>a, <3>1 DEF History
    <3>6. /\ new \in G
          /\ \A w \in DOMAIN snap' : snap'[w] \in G
          /\ \A w \in DOMAIN answer' : \E req \in Requests, s \in G : answer'[w] \in Answers(req, s)
      BY <2>1 DEF History
    <3> HIDE DEF G
    <3>7. History(G)'
      BY <2>5, <3>a, <3>3, <3>4, <3>5, <3>6 DEF History
    <3>8. QED
      BY <3>7
  <2>6. QED
    BY <1>2, <2>3, <2>4, <2>5, EngineSteps
<1>3. ASSUME UNCHANGED vars,
             \A w \in DOMAIN snap' : snap'[w] \in H,
             \A w \in DOMAIN answer' : \E req \in Requests, s \in H : answer'[w] \in Answers(req, s)
      PROVE  \E G : History(G)'
  <2>1. History(H)'
    BY <1>3 DEF History, vars
  <2>2. QED
    BY <2>1
<1>4. ASSUME NEW w \in Workers, NEW req \in Requests, Arrive(w, req)
      PROVE  \E G : History(G)'
  <2>1. UNCHANGED vars /\ snap' = snap /\ answer' = Erase(answer, w)
    BY <1>4 DEF Arrive
  <2>2. \A v \in DOMAIN answer' : v \in DOMAIN answer /\ answer'[v] = answer[v]
    BY <2>1 DEF Erase
  <2>3. QED
    BY <1>3, <2>1, <2>2 DEF History
<1>5. ASSUME NEW w \in Workers, Load(w)
      PROVE  \E G : History(G)'
  <2>1. UNCHANGED vars /\ snap' = Put(snap, w, published) /\ answer' = answer
    BY <1>5 DEF Load
  <2>2. /\ DOMAIN snap' = DOMAIN snap \cup {w} /\ snap'[w] = published
        /\ \A v \in DOMAIN snap : v # w => snap'[v] = snap[v]
    BY <2>1 DEF Put
  <2>3. QED
    BY <1>3, <2>1, <2>2 DEF History
<1>6. ASSUME NEW w \in Workers, Answer(w)
      PROVE  \E G : History(G)'
  <2>1. UNCHANGED vars /\ snap' = Erase(snap, w) /\ w \in DOMAIN snap /\ w \in DOMAIN handling
    BY <1>6 DEF Answer
  <2>2. PICK a \in Answers(handling[w], snap[w]) : answer' = Put(answer, w, a)
    BY <1>6 DEF Answer
  <2>3. handling[w] \in Requests /\ snap[w] \in H
    BY <2>1 DEF ArrivalInv, History
  <2>4. \A v \in DOMAIN snap' : v \in DOMAIN snap /\ snap'[v] = snap[v]
    BY <2>1 DEF Erase
  <2>5. /\ DOMAIN answer' = DOMAIN answer \cup {w} /\ answer'[w] = a
        /\ \A v \in DOMAIN answer : v # w => answer'[v] = answer[v]
    BY <2>2 DEF Put
  <2>6. \A v \in DOMAIN answer' : \E req \in Requests, s \in H : answer'[v] \in Answers(req, s)
    BY <2>2, <2>3, <2>5 DEF History
  <2>7. QED
    BY <1>3, <2>1, <2>4, <2>6 DEF History
<1>7. CASE UNCHANGED <<vars, restVars>>
  <2>1. UNCHANGED vars /\ snap' = snap /\ answer' = answer
    BY <1>7 DEF restVars
  <2>2. QED
    BY <1>3, <2>1 DEF History
<1>8. QED
  BY <1>2, <1>4, <1>5, <1>6, <1>7 DEF RestNext

(* The invariants of engine, requests and snapshots together. *)
RestInv == EngineInv /\ ArrivalInv /\ HistoryInv

(* They hold always. *)
THEOREM RestInvariance == RestSpec => []RestInv
<1>1. RestInit => HistoryInv
  <2> SUFFICES ASSUME RestInit PROVE History({NoSnapshot})
    BY DEF HistoryInv
  <2>1. /\ published = NoSnapshot /\ messages_processed = 0
        /\ DOMAIN snap = {} /\ DOMAIN answer = {}
    BY DEF RestInit, Init, EmptyMap
  <2>2. Origin(NoSnapshot).processed = 0 /\ Origin(NoSnapshot).complete = FALSE
    BY DEF Origin
  <2>3. QED
    BY <2>1, <2>2 DEF History
<1>2. QED
  BY <1>1, ArrivalHolds, NextKeepsHistory, PTL DEF RestSpec, RestInv

(* Two answers of one origin have one source. *)
LEMMA OneSource ==
    ASSUME HistoryInv, NEW v \in DOMAIN answer, NEW w \in DOMAIN answer,
           answer[v].from = answer[w].from
    PROVE  \E s : /\ s # NoSnapshot => WellFormed(s)
                  /\ \E req \in Requests : answer[v] \in Answers(req, s)
                  /\ \E req \in Requests : answer[w] \in Answers(req, s)
<1>1. PICK H : History(H)
  BY DEF HistoryInv
<1>2. PICK p \in Requests, s \in H : answer[v] \in Answers(p, s)
  BY <1>1 DEF History
<1>3. PICK q \in Requests, t \in H : answer[w] \in Answers(q, t)
  BY <1>1 DEF History
<1>4. answer[v].from = Origin(s) /\ answer[w].from = Origin(t)
  BY <1>2, <1>3, AnswerFrom
<1>5. s = t
  BY <1>1, <1>4 DEF History
<1>6. s # NoSnapshot => WellFormed(s)
  BY <1>1 DEF History
<1>7. QED
  BY <1>2, <1>3, <1>5, <1>6

(* What /instruments lists, /book and /book/top of the same snapshot find, *)
(* under any spelling, and nothing else.                                   *)
THEOREM ListedAreFound == RestSpec => []ListedIsFound
<1>1. RestInv => ListedIsFound
  <2> SUFFICES ASSUME RestInv, NEW v \in DOMAIN answer, NEW w \in DOMAIN answer
               PROVE  LET list == answer[v]
                          b == answer[w]
                      IN  /\ list.route = "instruments" /\ b.route \in {"book", "top"}
                          /\ list.status = 200 /\ b.status \in {200, 404}
                          /\ list.from = b.from
                          => /\ (b.status = 200) =
                                   (Lower(b.symbol) \in {Lower(s) : s \in DOMAIN list.body})
                             /\ b.status = 200 => b.body.symbol \in DOMAIN list.body
                                                  /\ Lower(b.body.symbol) = Lower(b.symbol)
    BY DEF ListedIsFound
  <2> DEFINE list == answer[v]
             b == answer[w]
  <2> HIDE DEF list, b
  <2> SUFFICES ASSUME list.route = "instruments", b.route \in {"book", "top"},
                      list.status = 200, b.status \in {200, 404}, list.from = b.from
               PROVE  /\ (b.status = 200) =
                            (Lower(b.symbol) \in {Lower(s) : s \in DOMAIN list.body})
                      /\ b.status = 200 => b.body.symbol \in DOMAIN list.body
                                           /\ Lower(b.body.symbol) = Lower(b.symbol)
    BY DEF list, b
  <2>1. PICK s : /\ s # NoSnapshot => WellFormed(s)
                 /\ \E req \in Requests : list \in Answers(req, s)
                 /\ \E req \in Requests : b \in Answers(req, s)
    BY OneSource DEF RestInv, list, b
  <2>2. s # NoSnapshot /\ DOMAIN list.body = DOMAIN s.books
    BY <2>1, AnswerFrom
  <2>3. /\ b.status = 404 => Lower(b.symbol) \notin DOMAIN s.symbol_index
        /\ b.status = 200 => /\ Lower(b.symbol) \in DOMAIN s.symbol_index
                             /\ b.body.symbol = s.symbol_index[Lower(b.symbol)]
    BY <2>1, AnswerFrom
  <2>4. /\ DOMAIN s.symbol_index = {Lower(t) : t \in DOMAIN list.body}
        /\ \A low \in DOMAIN s.symbol_index :
              s.symbol_index[low] \in DOMAIN list.body /\ Lower(s.symbol_index[low]) = low
    BY <2>1, <2>2 DEF WellFormed
  <2>5. b.status = 200 \/ b.status = 404
    OBVIOUS
  <2>6. (b.status = 200) = (Lower(b.symbol) \in {Lower(t) : t \in DOMAIN list.body})
    BY <2>3, <2>4, <2>5
  <2>7. b.status = 200 => b.body.symbol \in DOMAIN list.body /\ Lower(b.body.symbol) = Lower(b.symbol)
    BY <2>3, <2>4
  <2>8. QED
    BY <2>6, <2>7
<1>2. QED
  BY <1>1, RestInvariance, PTL

----------------------------------------------------------------------------
(* A list of levels is a sequence. *)
LEMMA ListIsSeq ==
    ASSUME NEW list, IsList(list)
    PROVE  list \in Seq({list[i] : i \in DOMAIN list})
<1>1. PICK n \in Nat : DOMAIN list = 1..n /\ list = [i \in 1..n |-> list[i]]
  BY DEF IsList
<1>2. list \in [1..n -> {list[i] : i \in DOMAIN list}]
  BY <1>1
<1>3. QED
  BY <1>2, SeqDef

(* The best level alone and the first levels of a list begin alike. *)
LEMMA BestIsFirst ==
    ASSUME NEW list, IsList(list), NEW depth, DepthOK(depth)
    PROVE  LET first == FirstLevels(list, depth)
               best == Best(list)
           IN  best = SubSeq(first, 1, Len(best)) /\ (best = <<>>) = (first = <<>>)
<1> DEFINE S == {list[i] : i \in DOMAIN list}
           n == IF depth = NoDepth THEN DefaultDepth ELSE depth
           k == IF n < Len(list) THEN n ELSE Len(list)
           first == SubSeq(list, 1, k)
           best == Best(list)
<1>1. n \in Nat /\ n >= 1
  BY DEF DepthOK, DefaultDepth, MaxDepth
<1>2. list \in Seq(S)
  BY ListIsSeq
<1>3. first = FirstLevels(list, depth)
  BY DEF FirstLevels
<1> HIDE DEF S, n
<1>4. best = SubSeq(first, 1, Len(best)) /\ (best = <<>>) = (first = <<>>)
  <2>1. CASE list = <<>>
    <3>1. Len(list) = 0 /\ k = 0
      BY <1>1, <2>1
    <3>2. first = <<>> /\ best = <<>>
      BY <2>1, <3>1, SubSeqEmpty DEF Best
    <3>3. SubSeq(first, 1, Len(best)) = <<>>
      BY <3>2
    <3>4. QED
      BY <3>2, <3>3
  <2>2. CASE list # <<>>
    <3>1. Len(list) \in Nat /\ Len(list) >= 1 /\ k \in 1..Len(list)
      BY <1>1, <1>2, <2>2
    <3> HIDE DEF k
    <3>2. first \in Seq(S) /\ Len(first) = k /\ first[1] = list[1]
      BY <1>2, <3>1
    <3>3. best \in Seq(S) /\ Len(best) = 1 /\ best[1] = list[1]
      BY <1>2, <2>2, <3>1 DEF Best
    <3> DEFINE again == SubSeq(first, 1, 1)
    <3>4. again \in Seq(S) /\ Len(again) = 1 /\ again[1] = first[1]
      BY <3>1, <3>2
    <3> HIDE DEF first, best, again
    <3>5. best = again
      <4>1. \A i \in 1..1 : best[i] = again[i]
        BY <3>2, <3>3, <3>4
      <4>2. QED
        BY <3>3, <3>4, <4>1, SeqEqual
    <3>6. best # <<>> /\ first # <<>>
      <4>1. Len(<<>>) = 0
        OBVIOUS
      <4>2. Len(best) # 0 /\ Len(first) # 0
        BY <3>1, <3>2, <3>3
      <4>3. QED
        BY <4>1, <4>2, Zenon
    <3>7. QED
      BY <3>3, <3>5, <3>6 DEF again
  <2>3. QED
    BY <2>1, <2>2
<1>5. QED
  BY <1>3, <1>4

(* /book and /book/top of one symbol and one snapshot name the same symbol *)
(* and show the same best levels, whatever depth was asked for.            *)
THEOREM BookAndTopCorrect == RestSpec => []BookAndTopAgree
<1>1. RestInv => BookAndTopAgree
  <2> SUFFICES ASSUME RestInv, NEW v \in DOMAIN answer, NEW w \in DOMAIN answer
               PROVE  LET b == answer[v]
                          t == answer[w]
                      IN  /\ b.route = "book" /\ t.route = "top"
                          /\ b.status = 200 /\ t.status = 200
                          /\ b.symbol = t.symbol /\ b.from = t.from
                          => /\ t.body.symbol = b.body.symbol
                             /\ t.body.best_bid = SubSeq(b.body.bids, 1, Len(t.body.best_bid))
                             /\ t.body.best_ask = SubSeq(b.body.asks, 1, Len(t.body.best_ask))
                             /\ (t.body.best_bid = <<>>) = (b.body.bids = <<>>)
                             /\ (t.body.best_ask = <<>>) = (b.body.asks = <<>>)
    BY DEF BookAndTopAgree
  <2> DEFINE b == answer[v]
             t == answer[w]
  <2> HIDE DEF b, t
  <2> SUFFICES ASSUME b.route = "book", t.route = "top", b.status = 200, t.status = 200,
                      b.symbol = t.symbol, b.from = t.from
               PROVE  /\ t.body.symbol = b.body.symbol
                      /\ t.body.best_bid = SubSeq(b.body.bids, 1, Len(t.body.best_bid))
                      /\ t.body.best_ask = SubSeq(b.body.asks, 1, Len(t.body.best_ask))
                      /\ (t.body.best_bid = <<>>) = (b.body.bids = <<>>)
                      /\ (t.body.best_ask = <<>>) = (b.body.asks = <<>>)
    BY DEF b, t
  <2>1. PICK s : /\ s # NoSnapshot => WellFormed(s)
                 /\ \E req \in Requests : b \in Answers(req, s)
                 /\ \E req \in Requests : t \in Answers(req, s)
    BY OneSource DEF RestInv, b, t
  <2>2. PICK req \in Requests : b \in Answers(req, s)
    BY <2>1
  <2>3. /\ s # NoSnapshot /\ Lower(b.symbol) \in DOMAIN s.symbol_index
        /\ b.body.symbol = s.symbol_index[Lower(b.symbol)]
        /\ DepthOK(req.depth)
        /\ b.body.bids = FirstLevels(s.books[b.body.symbol].bids, req.depth)
        /\ b.body.asks = FirstLevels(s.books[b.body.symbol].asks, req.depth)
    BY <2>2, AnswerFrom
  <2>4. /\ t.body.symbol = s.symbol_index[Lower(t.symbol)]
        /\ t.body.best_bid = Best(s.books[t.body.symbol].bids)
        /\ t.body.best_ask = Best(s.books[t.body.symbol].asks)
    BY <2>1, AnswerFrom
  <2>5. /\ t.body.symbol = b.body.symbol
        /\ b.body.symbol \in DOMAIN s.books
        /\ IsList(s.books[b.body.symbol].bids) /\ IsList(s.books[b.body.symbol].asks)
    BY <2>1, <2>3, <2>4 DEF WellFormed
  <2>6. ASSUME NEW list, IsList(list), NEW first, first = FirstLevels(list, req.depth),
               NEW best, best = Best(list)
        PROVE  best = SubSeq(first, 1, Len(best)) /\ (best = <<>>) = (first = <<>>)
    <3>1. LET f == FirstLevels(list, req.depth)
              g == Best(list)
          IN  g = SubSeq(f, 1, Len(g)) /\ (g = <<>>) = (f = <<>>)
      BY <2>3, <2>6, BestIsFirst
    <3>2. QED
      BY <2>6, <3>1
  <2>7. /\ t.body.best_bid = SubSeq(b.body.bids, 1, Len(t.body.best_bid))
        /\ (t.body.best_bid = <<>>) = (b.body.bids = <<>>)
    <3>1. PICK list : list = s.books[b.body.symbol].bids
      OBVIOUS
    <3>2. PICK first : first = b.body.bids
      OBVIOUS
    <3>3. PICK best : best = t.body.best_bid
      OBVIOUS
    <3>4. IsList(list) /\ first = FirstLevels(list, req.depth) /\ best = Best(list)
      BY <2>3, <2>4, <2>5, <3>1, <3>2, <3>3
    <3>5. best = SubSeq(first, 1, Len(best)) /\ (best = <<>>) = (first = <<>>)
      BY <2>6, <3>4
    <3>6. QED
      BY <3>2, <3>3, <3>5
  <2>8. /\ t.body.best_ask = SubSeq(b.body.asks, 1, Len(t.body.best_ask))
        /\ (t.body.best_ask = <<>>) = (b.body.asks = <<>>)
    <3>1. PICK list : list = s.books[b.body.symbol].asks
      OBVIOUS
    <3>2. PICK first : first = b.body.asks
      OBVIOUS
    <3>3. PICK best : best = t.body.best_ask
      OBVIOUS
    <3>4. IsList(list) /\ first = FirstLevels(list, req.depth) /\ best = Best(list)
      BY <2>3, <2>4, <2>5, <3>1, <3>2, <3>3
    <3>5. best = SubSeq(first, 1, Len(best)) /\ (best = <<>>) = (first = <<>>)
      BY <2>6, <3>4
    <3>6. QED
      BY <3>2, <3>3, <3>5
  <2>9. QED
    BY <2>5, <2>7, <2>8
<1>2. QED
  BY <1>1, RestInvariance, PTL

----------------------------------------------------------------------------
(* The first level of a listed ladder is the best price, as refresh_top    *)
(* caches it; an empty list stands for an empty ladder.                    *)
LEMMA FirstIsTop ==
    ASSUME TopIsBest, NEW l \in Locates, l \in DOMAIN books, NEW ladder \in BookSides,
           NEW list, Listed(list, levels, l, ladder)
    PROVE  LET best == IF ladder = "bids" THEN books[l].best_bid ELSE books[l].best_ask
           IN  /\ Best(list) = <<>> <=> list = <<>>
               /\ list = <<>> => best = NoPrice
               /\ list # <<>> => /\ Raw(list[1]) = best /\ best \in Prices
                                 /\ Best(list)[1] = list[1]
<1> DEFINE best == IF ladder = "bids" THEN books[l].best_bid ELSE books[l].best_ask
           prices == PricesOf(levels, l, ladder)
           S == {list[i] : i \in DOMAIN list}
<1>1. IF prices = {} THEN best = NoPrice
      ELSE best \in prices /\ \A p \in prices : ~Before(ladder, p, best)
  BY DEF TopIsBest
<1>2. /\ IsList(list)
      /\ \A i \in DOMAIN list : RawPrice(list[i]) \in prices
      /\ \A i, j \in DOMAIN list : i < j => Before(ladder, RawPrice(list[i]), RawPrice(list[j]))
      /\ {RawPrice(list[i]) : i \in DOMAIN list} = prices
  BY DEF Listed
<1>3. prices \subseteq Prices /\ \A p \in prices : p \in Nat
  BY PricesAssumption DEF PricesOf
<1>4. list \in Seq(S)
  BY <1>2, ListIsSeq
<1> HIDE DEF best, prices, S
<1>5. CASE list = <<>>
  <2>1. Best(list) = <<>>
    BY <1>5, SubSeqEmpty DEF Best
  <2>2. DOMAIN list = {}
    BY <1>5
  <2>3. prices = {}
    BY <1>2, <2>2
  <2>4. QED
    BY <1>1, <1>5, <2>1, <2>3 DEF best
<1>6. CASE list # <<>>
  <2>1. Len(list) \in Nat /\ Len(list) >= 1 /\ DOMAIN list = 1..Len(list)
    BY <1>4, <1>6
  <2>2. Best(list) \in Seq(S) /\ Len(Best(list)) = 1 /\ Best(list)[1] = list[1]
    BY <1>4, <1>6, <2>1 DEF Best
  <2>3. Best(list) # <<>>
    <3>1. Len(<<>>) = 0
      OBVIOUS
    <3>2. Len(Best(list)) # 0
      BY <2>2
    <3>3. QED
      BY <3>1, <3>2, Zenon
  <2>4. 1 \in DOMAIN list /\ RawPrice(list[1]) \in prices
    BY <1>2, <2>1
  <2>5. best \in prices /\ \A p \in prices : ~Before(ladder, p, best)
    BY <1>1, <2>4
  <2>6. PICK i \in DOMAIN list : RawPrice(list[i]) = best
    BY <1>2, <2>5
  <2>7. i = 1
    <3>1. ~(1 < i)
      BY <1>2, <2>4, <2>5, <2>6
    <3>2. QED
      BY <2>1, <3>1
  <2>8. Raw(list[1]) = best
    BY <2>6, <2>7 DEF Raw, RawPrice
  <2>9. QED
    BY <1>3, <1>6, <2>2, <2>3, <2>5, <2>8 DEF best
<1>7. QED
  BY <1>5, <1>6

(* While the engine has not moved on, /book/top shows the cached top of    *)
(* the engine and the spread is ask minus bid, negative exactly when the   *)
(* book is crossed: for every price an int32_t holds, the conversion of    *)
(* the price to dollars and back is exact.                                 *)
THEOREM TopServed == RestSpec => []TopIsEngineTop
<1>1. RestInv => TopIsEngineTop
  <2> SUFFICES ASSUME RestInv, NEW w \in DOMAIN answer, NEW l \in DOMAIN books
               PROVE  LET t == answer[w]
                          Price(best) == IF best = <<>> THEN NoPrice ELSE Raw(best[1])
                          bid == books[l].best_bid
                          ask == books[l].best_ask
                      IN  /\ t.route = "top" /\ t.status = 200
                          /\ t.from.processed = messages_processed
                          /\ {m \in DOMAIN instruments : instruments[m].symbol = t.body.symbol} = {l}
                          => /\ Price(t.body.best_bid) = bid /\ Price(t.body.best_ask) = ask
                             /\ NoPrice \notin {bid, ask} /\ bid <= MaxInt32 /\ ask <= MaxInt32
                                => t.body.spread = <<ask - bid>> /\ t.body.crossed = (ask < bid)
    BY DEF TopIsEngineTop
  <2> DEFINE t == answer[w]
             Price(best) == IF best = <<>> THEN NoPrice ELSE Raw(best[1])
             bid == books[l].best_bid
             ask == books[l].best_ask
  <2> HIDE DEF t
  <2> SUFFICES ASSUME t.route = "top", t.status = 200, t.from.processed = messages_processed,
                      {m \in DOMAIN instruments : instruments[m].symbol = t.body.symbol} = {l}
               PROVE  /\ Price(t.body.best_bid) = bid /\ Price(t.body.best_ask) = ask
                      /\ NoPrice \notin {bid, ask} /\ bid <= MaxInt32 /\ ask <= MaxInt32
                         => t.body.spread = <<ask - bid>> /\ t.body.crossed = (ask < bid)
    BY DEF t
  <2>1. PICK H : History(H)
    BY DEF RestInv, HistoryInv
  <2>2. PICK req \in Requests, s \in H : t \in Answers(req, s)
    BY <2>1 DEF History, t
  <2> DEFINE symbol == t.body.symbol
             b == s.books[symbol]
  <2>3. /\ s # NoSnapshot /\ t.from = Origin(s)
        /\ Lower(t.symbol) \in DOMAIN s.symbol_index
        /\ symbol = s.symbol_index[Lower(t.symbol)]
        /\ t.body.best_bid = Best(b.bids) /\ t.body.best_ask = Best(b.asks)
        /\ \E q \in Quotes(b.bids, b.asks) :
              t.body.spread = q.spread /\ t.body.crossed = q.crossed
    BY <2>2, AnswerFrom
  <2>4. s.messages_processed = messages_processed
    BY <2>3 DEF Origin
  <2>5. /\ WellFormed(s)
        /\ s \in Snapshots(levels, books, instruments, messages_processed, s.pipeline_complete)
    BY <2>1, <2>3, <2>4 DEF History
  <2>6. symbol \in DOMAIN s.books
    BY <2>3, <2>5 DEF WellFormed
  <2>7. PICK m \in Shown(books, instruments, symbol) :
           b = BookSnapshot(levels, books, instruments, m)
    <3> HIDE DEF symbol
    <3>1. QED
      BY <2>5, <2>6, SnapshotHolds
  <2>8. m = l
    <3>1. m \in DOMAIN instruments /\ instruments[m].symbol = symbol
      BY ShownIsNamed DEF RestInv, EngineInv
    <3>2. QED
      BY <3>1
  <2>9. l \in Locates /\ "bids" \in BookSides /\ "asks" \in BookSides /\ TopIsBest
    BY DEF RestInv, EngineInv, IInv, TypeOK, IsMap, BookSides
  <2>10. Listed(b.bids, levels, l, "bids") /\ Listed(b.asks, levels, l, "asks")
    BY <2>7, <2>8, <2>9, BookListed
  <2> HIDE DEF b, symbol
  <2>11. /\ Best(b.bids) = <<>> <=> b.bids = <<>>
         /\ b.bids = <<>> => bid = NoPrice
         /\ b.bids # <<>> => Raw(b.bids[1]) = bid /\ bid \in Prices /\ Best(b.bids)[1] = b.bids[1]
    BY <2>9, <2>10, FirstIsTop
  <2>12. /\ Best(b.asks) = <<>> <=> b.asks = <<>>
         /\ b.asks = <<>> => ask = NoPrice
         /\ b.asks # <<>> => Raw(b.asks[1]) = ask /\ ask \in Prices /\ Best(b.asks)[1] = b.asks[1]
    BY <2>9, <2>10, FirstIsTop
  <2> HIDE DEF bid, ask
  <2>13. Price(t.body.best_bid) = bid /\ Price(t.body.best_ask) = ask
    BY <2>3, <2>11, <2>12
  <2>14. ASSUME NoPrice \notin {bid, ask}, bid <= MaxInt32, ask <= MaxInt32
         PROVE  t.body.spread = <<ask - bid>> /\ t.body.crossed = (ask < bid)
    <3>1. b.bids # <<>> /\ b.asks # <<>>
      BY <2>11, <2>12, <2>14
    <3>2. ToInt32(Raw(b.asks[1])) = {ask} /\ ToInt32(Raw(b.bids[1])) = {bid}
      BY <2>11, <2>12, <2>14, <3>1 DEF ToInt32
    <3>3. Quotes(b.bids, b.asks) = {[spread |-> <<Spread(q[1], q[2])>>, crossed |-> q[1] < q[2]] :
                                       q \in {ask} \X {bid}}
      BY <3>1, <3>2 DEF Quotes
    <3>4. \A q \in Quotes(b.bids, b.asks) : q.spread = <<ask - bid>> /\ q.crossed = (ask < bid)
      BY <3>3 DEF Spread
    <3>5. QED
      BY <2>3, <3>4
  <2>15. QED
    BY <2>13, <2>14
<1>2. QED
  BY <1>1, RestInvariance, PTL

============================================================================
