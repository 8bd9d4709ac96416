# TLA+ models of itch-parser

The repository reconstructs limit order books from a NASDAQ ITCH 5.0 feed and
serves them over REST. This directory holds TLA+ modules that model it, TLC
configurations that check them on small instances and TLAPS proofs that hold for
every instance. `PROJECT.json` maps every definition to the lines it models.

## 1. The system

| Component | State it keeps | Operations | Interacts with |
|---|---|---|---|
| `OrderBookEngine` (`book_engine.cpp`) | `order_index_` (reference to record), `books_` (ladders of price levels, cached best pointers, last timestamp), `instruments_`, three counters, `pipeline_complete_` | `apply` of nine message kinds, `register_instrument`, `set_pipeline_complete` | called by `main`; stores snapshots in the publisher |
| `SnapshotPublisher` | an atomic shared pointer | `publish`, `current` | one writer (engine), many readers (REST threads) |
| `UDPFeedReader` | `expected_seq_`, `gaps_detected_`, `dropped_behind_`, `messages_received_`, the messages of the current packet | `next_message`, `refill` | network in; receive thread calls it |
| `FileFeedReader` | a file descriptor | `next_message` over `read_exact` | file in; three programs call it in a loop |
| live pipeline (`main.cpp:42-92`) | queue, `recv_done`, stop token | receive loop, engine loop, drain, join | two threads |
| file pipeline (`main.cpp:92-122`), `bench_replay`, `load_capture` | counts; loaded messages | read, parse, apply or keep; finish or give up | one thread; reader, parser, engine |
| `MessageParser` | none | `parse` | pure |
| `RestServer` | none beyond the publisher | `/status`, `/instruments`, `/book/:s`, `/book/:s/top` | reads one snapshot per request |
| price ladders (`price_ladder.h`) | a map, a sorted vector, or slots with their count and best index | `add_shares`, `remove_shares`, `best`, `size`, `for_each` | the ladder benchmark; written to what the engine needs |
| benchmarks of engine and ladders (`bench/`) | a workload, built once and replayed | build, seed, iterate | the engine and the ladders |

What is hard here:

* **Long message sequences.** Levels are never recomputed: each handler adjusts
  one level by one order's shares. A slip shows only after several later messages.
* **Bad feeds.** References reused while their order rests, oversized reductions,
  messages for unknown references, orders before their directory message.
* **Unsigned arithmetic** in levels and counts, guarded by one clamp.
* **Cached pointers** to the best levels, across inserts and erases.
* **UDP**: loss, duplication, reordering, overlap, truncation, no recovery.
* **Shutdown of live mode**: a flag, a queue and a jthread in a particular order.
* **File ends** at arbitrary bytes, and short reads.
* **Replays.** The benchmarks run a workload planned for one round again and
  again, on what the rounds before have left.

What makes each part correct is stated as properties in section 4.

## 2. Modules

| Module | Models |
|---|---|
| `BookTypes` | records, levels and instruments; maps; what a set of orders adds up to (`Aggregate`) |
| `RestingOrders` | abstract specification: a set of orders and the book that is their sum |
| `BookEngine` | `OrderBookEngine` and publication; one action per kind of `apply()` |
| `MCBookEngine` | symbols with case variants and the symmetry set for TLC |
| `GapFeed` | `BookEngine` fed by an exchange some of whose messages are lost |
| `BenchFeed` | `BookEngine` fed by the mixed workload and by the delete, replace and execute benchmarks |
| `EngineFeeds` | one of the feeds of `GapFeed` and `BenchFeed` |
| `TradingStatus` | `BookEngine` and what the feed last said about trading states |
| `UdpFeedReader` | `UDPFeedReader` under a network that delivers any packet any time |
| `LivePipeline` | both threads of live mode, extending `UdpFeedReader` |
| `FileFeedReader` | `FileFeedReader`, called in a loop |
| `FilePipeline` | the loops around it, extending `FileFeedReader`: `main` in file mode, `bench_replay`, `load_capture` and its replay |
| `LadderTypes` | the level and the order of prices all ladders share |
| `MapLadder`, `FlatLadder`, `ArrayLadder` | the three price ladders |
| `LadderShootout` | the three side by side, under engine-like callers and under the benchmark's workload |
| `RestServer` | the four REST handlers, on worker threads beside `BookEngine` |
| `MCRestServer` | requests and symmetry for TLC |
| `Parser` | `MessageParser` against an encoder built from the message structs |
| `BookEngineProofs` | proofs: sums of levels; the engine's index and levels; cached best levels, refinement, snapshots |
| `EngineFeedsProofs` | proofs: the feed with gaps, the benchmarks of the engine |
| `RankedLists` | proofs: what listing a finite set in an order gives; for snapshots and ladders |
| `LivePipelineProofs`, `FilePipelineProofs`, `RestServerProofs`, `LadderProofs`, `ParserProofs` | proofs about live mode, the file programs, the REST handlers, the ladders and the parser |

Correspondence and abstraction:

* The ladders of all books are one map `levels` from (locate, ladder, price) to a
  level; `books` keeps the cached best prices and the timestamp. A raw pointer
  into a map is the price it points at, so a dangling pointer is a price without
  a level.
* An action is a whole `apply()`: handler, `refresh_top`, `stamp_book`, counting,
  and publication when the interval is reached. Executed, executed-with-price and
  cancel have the same body in the code and share `TakeShares`.
* `build_snapshot` depends on the order of hash maps when symbols collide:
  `Snapshots` is the set of all its results. The wall-clock time and the market
  category are left out. A price as `double` of dollars is the pair of dollars
  and ten-thousandths. `NoSnapshot` is the publisher's null pointer.
* Levels and counters have the widths of the code as constants `U32` and `U64`;
  additions are reduced by them.
* `UdpFeedReader` abstracts a message to its number and a packet to its first
  number, how many it announces and how many whole blocks it really carries.
  `cut_off` is a history variable. `refill` returns `false` only for a closed
  socket, which nobody closes while the reader lives.
* The queue of `LivePipeline` is external (moodycamel): first in, first out for
  its single producer, and a `try_dequeue` may miss an element while the producer
  runs. After `recv_done` was read with acquire order it misses nothing.
* `FileFeedReader` reads a capture whose copy on disk ends at any byte, in reads
  of any size. An exception keeps the message the code gives it and what was
  behind it: whatever goes wrong in a body is thrown as a truncated frame.
* `FilePipeline` keeps of the parser whether a frame is a message, malformed or
  discarded, and of the engine the count and the last publication, which is all
  the three programs see. A buffer that was never filled starts with a zero byte
  and is discarded. With an interval of 0 the remainder is undefined in C++: the
  process dies at a message, or runs on with any remainder (`Apply`; `BookEngine`
  assumes a positive interval).
* The ladders' levels wrap at `U32` and `U64` as unsigned fields do, without the
  clamp the engine has. Loops over the array (`advance_best_from`, `for_each`) are
  given by what they find, `std::lower_bound` by its position. `set_base` is
  called nowhere; the base is a constant.
* `LadderShootout` has three callers: one that enters and reduces orders as the
  engine does, at any price; the same on the array's grid; and the benchmark,
  whose random choices are nondeterministic.
* `BenchFeed` uses the engine's own handlers. What the random generator may
  choose is a choice; the workload's building and its replay are separate steps.
* A REST handler is three steps, arrival, load and answer, between which the
  engine runs on; everything after the load reads only the loaded snapshot. The
  `from` field of an answer is the message count and the completion flag of its
  snapshot, which `/status` shows. Casting a price that is no `int32_t` is
  undefined in C++ and a choice of two results in `ToInt32`.
* `Parser` keeps the offsets, widths and length checks of the code and scales the
  256 values of a byte down to `Base`. The sender's encoding comes from the
  structs of `messages.h` in order, with the widths of the wire format, so the
  offsets are checked against something they were not copied from.
* The parts named *Faults* are plausible slips next to the definition they would
  replace; a property is kept only if one of them breaks it.

## 3. Bounds

Names of bounds: `MaxMessages` (length of the feed), `MaxHeard` and `MaxLost`
(messages of the exchange that arrive or not), `MaxSeq`, `MaxCount`,
`MaxPackets`, `MaxFrames`, `MaxLoaded` (a parameter of `load_capture`),
`MaxApplied`, `MaxSteps` (iterations), `MaxRequests`, `MaxBuffer` (the longest
message, an added order with its MPID, and a byte after it); `NOrders`, `NMixed`,
`NSeed`, `NReplay` are sizes of workloads.

| Run | Bounds | Why enough |
|---|---|---|
| `engine_unique` | 2 references, 2 prices, both sides, shares 0, 1, 3, 5 messages | two orders share a level, are reduced partially, exactly, beyond and by nothing, move by replacement under both references, and leave |
| `engine_any_feed` | 2 locates, 2 references, 2 prices, 2 symbols equal up to case, shares 1 and 7 of a width of 8, interval 2, 4 messages, references reused | a level holds orphaned shares and still loses orders; the largest order of the width is taken from and stranded; orders before and after directory messages, shared symbols, skips at the boundary of the interval |
| `engine_feeds` | exchange: 3 references, 3 losses, 5 messages applied; benchmarks: 2 orders, 3 operations after them, 2 shares each, both sides, 10 messages | any message of an order's life may be the lost one, and the replaced order lives on; every workload comes round at least twice, executions exhaust an order or not |
| `live_pipeline` | 6 messages, one of them unparsed, packets of up to 3, 2 late packets, interval 2 | overlap on either side of `expected_seq`, gaps between accepted packets, truncation; more than one packet and more than one snapshot; the exception may strike at any point |
| `rest` | 2 requests on 2 workers, 2 locates, symbols equal or equal up to case, both sides, 2 prices, 2 messages, interval 2 | arrival, load and answer fall between any two steps of the engine; ladders of two levels, crossed books, colliding symbols. `MaxInt32` is above the prices, as the largest ITCH price of $200,000 is below 2^31 |
| `parser` | every type, one field at a time with boundary values, every length up to one more than whole, `Base` 3 | each field's bytes are told from all others'; every cut |
| `file_pipeline` | 3 frames of any content, lengths 0, 1, 3, intervals 0 and 2, `MaxLoaded` 2, `MaxApplied` 3 | every cut in prefix, between and in bodies, after earlier whole frames; the limit of `load_capture` and its replay's end are both passed |
| `ladders` | 3 slots of 2 raw units, prices below, on, off and beyond the grid, 3 orders of 0 or 2 shares, both sides; workloads of 5 operations, replayed twice | slots are shared by orders and by prices, the best slot empties with and without a neighbour, totals wrap |

`Refs` is a symmetry set of the two engine runs: references are compared only for
equality; so is `Workers`. Deadlock is not checked in the engine, feed, status and
REST runs, since a feed may end and nothing happens to a completed engine, nor in
the parser's, which parses once, nor in the ladders', whose replay is cut at
`MaxSteps`; it is checked in the others, whose final states stutter explicitly.

## 4. Runs and what they show

**engine_unique**: `Consistent`, levels are the sums of the resting orders; `SnapshotShowsOrders`, a fresh snapshot lists exactly the occupied prices,
best first, with the right totals; `ImplementsRestingOrders`, the refinement.

**engine_any_feed**: `Covers`, a level never holds less than its orders, so the
clamp in `remove_shares` and the wrap of `--order_count` are unreachable even
when references are reused; `NoPhantomLevel`, and never more than orders can have:
at least one order, no more orders than messages, no more shares than that many
orders of the largest size, so the stranded shares of reused references never grow
into the "multi-billion-share phantom level" of `README.md:142`;
`TopIsBest`, cached best pointers are right;
`OrdersHaveBooks`; `SnapshotLag`, readers are fewer than `SnapshotInterval` messages behind; `FinalSnapshot`;
`SymbolsResolve`: when symbols collide, exactly or up to case, a snapshot still
lists every symbol, each with one instrument's whole book, never an empty one in
place of one with orders, and every lookup leads to a listed symbol.

**engine_feeds**: for the exchange `GapsOverstate`, an order
known to both sides has at least its true shares, so a gap alone never triggers the
clamp; `ExactWithoutGaps`. For the benchmarks `MixedTargetsLive`, the mixed
workload's deletes and executions find their orders in every round, not only in
the one they were planned for; `RoundsPileUp`, its levels hold the surviving
orders once more with each round, so totals and counts of its levels grow while the
index does not; `MicrosHit`, what the micro-benchmarks hit: `BM_DeleteOrder` always
an order, since it is seeded again in time, `BM_ExecuteOrder` until all shares are
gone, `BM_ReplaceOrder` in its first round only. The last two are not what
`bench/out/RESULTS.md` says, see below.

**live_pipeline**: `InOrderOnce`; `DeficitCounted`: what is missing below
`expected_seq` is `gaps_detected` plus the blocks cut off by truncation, which the
code does not count; `QueueExact`, which with `InOrderOnce` gives the books the
sender's order; `Drained`, `StopComesLate` (the stop token never ends the receive loop), and the liveness properties
`EnqueuedGetsProcessed` and `ShutdownCompletes`. The receive thread may fail in the
reader's constructor, as it does with the default `MCAST_IFACE=eth0`
(`main.cpp:24`), which `inet_pton` does not take (`udp_feed_reader.cpp:44`): the
pipeline then completes with no message.

**rest**: `FreshAtArrival`, an answer misses fewer than `SnapshotInterval` of the
messages applied when the request came in, none after completion;
`TopIsEngineTop`, `/book/:symbol/top` shows the engine's own best levels and a
signed spread; `BookAndTopAgree` and `ListedIsFound`: what `/instruments`, `/book`
and `/book/top` say from one snapshot fits together, whatever symbols collide.

**parser**: `NoOverread`, `RoundTrip`, `CutIsRejected`.

**file_pipeline**: of the reader `FramesInOrder` and `NoFalseTruncation`. Of the
programs `CompleteCountsAll`, a snapshot that says
"complete" counts exactly the messages whole on disk, wherever the file was cut,
and `bench_replay`'s own counts agree with it; `CaptureIsPrefix`, `load_capture` gives the first messages in order, after
an error too, and its replay stays inside them; and `PipelineEnds`, every loop
ends. `CompleteCountsAll` and `PipelineEnds` hold for an interval of 0 too, whatever the undefined
remainder gives: a process that lives to say "complete" has counted right.

**ladders**: `FlatIsMap`, whatever the caller does; `ArrayIndexed`, the array's count
and best index are right whatever the caller does; `ArrayIsMap`, for callers on the
grid; `SlotsAreSums`, off it: a slot's total is the number of share units of the
orders whose prices fall into it, whichever prices those are; `SameShapes`, the levels and counts of all three stay
the same under the replayed workload.

Four runs expect a violation; each shows a disagreement between text and code.

* **gap_feed_immortal**: README of the repository, "a feed gap cannot leave an
  immortal order". A lost delete or last execution does.
* **trading_status**: `book_engine.cpp:270`, "default until Trading Action says
  otherwise". A trading action before or between directory messages is lost.
* **file_reader_truncated**: `feed_reader.cpp:56`, "Truncated frame after length
  prefix is always an error". When the file ends right after the prefix,
  `read_exact` returns `false`, which line 58 does not look at.
* **ladder_totals**: `price_ladder.h:5`, "All three support the same operations", and
  `bench_ladder_shootout.cpp:3`, "Apples-to-apples". An emptied slot of the array
  keeps its total; the benchmark removes 100 shares of an order already reduced by
  a partial removal, so the array ladder's totals drift from the other two.

Three more disagreements need no run of their own: a property that holds says what the
code does, and a text says something else.

* `MicrosHit` and `bench/out/RESULTS.md:10`, "cycles same n orders without draining".
  `BM_ReplaceOrder` names the same n original references for ever, and a replacement
  moves its order to a new one: after the first round it times lookups that fail.
* `MicrosHit` and `bench/out/RESULTS.md:11`, "minimal work (shares decrement + level
  update)". `BM_ExecuteOrder` takes one share at a time and never seeds again: after
  100 rounds no order is left and it times lookups that fail.
* `CaptureIsPrefix` and `bench_mixed_workload.cpp:270`, "file missing or unreadable,
  return empty". After an error in mid-file `load_capture` returns what it has loaded so
  far, and the benchmark replays it. (The "N bytes" of line 248 are N messages.)

### Fairness

Only two specifications need it. `LivePipeline`: both threads run (the operating
system schedules them; the engine spins with `yield`), so weak fairness of the
engine and of the receive thread's steps other than receiving a packet and
throwing; strong fairness of `EngineTryHit`, because an enqueued element becomes
visible to a consumer that keeps trying. Packets and exceptions need not ever
come. `FilePipeline`: weak fairness of the single thread, without `ReadFails`: a
`read()` need not ever fail, and the benchmark library stops asking for iterations.

## 5. Proofs

The proofs hold for every value of the constants that the named assumptions
allow. Those a reader might question:

* `CounterAssumption`: a feed has fewer than 2^32 messages, and that many times
  the largest order fits 64 bits, so no level can wrap. `CallerAssumption` says the
  same of the orders a caller of the ladders rests at one time; the totals under
  the benchmark's workload, which removes more than it added, may wrap.
* `IntervalAssumption`: the interval is positive (an interval of 0 is among
  those of `FilePipeline`, which needs no such assumption).
* `RefsAssumption`, `PricesAssumption`: references and prices are finite sets.
* `BenchAssumption`: the references, prices and sides a workload may draw are
  among those of the engine, and an order's shares are no more than half a word
  (they are 100).
* `GridAssumption`: the array ladder's base is a whole number of ticks.

**The engine** (`BookEngineProofs`). `NoLevelWraps`, `LevelsCover` and
`LevelsConsistent` follow from one inductive invariant `IInv`, and so does the type
(`TypeCorrect`). None of the three is inductive alone. That a subtraction does not
clamp needs `Covers`. That an addition does not wrap needs the number of orders in a
level bounded by the number of messages (`Room`) and the shares bounded by the orders
(`NoPhantomLevel`). The latter survives a removal only if it holds of the stranded
orders by themselves (`Fits`): what a level has beyond its resting orders is no more
shares than that many orders can have. And that a level disappears exactly with its
last order needs its count to be exact.
`Covering` and `Exact` state cover and equality for every key, absent levels
counting as zero, which spares the proofs the domain of `levels`. The sum of
shares is the cardinality of a set of (reference, unit) pairs (`UnitsAt`), so
the first part of the module can compute how it changes when one order is put,
erased or shrunk from the library's cardinality lemmas instead of by induction.

**Best levels, refinement, snapshots** (same module). `TopCorrect` and
`BooksKnown` hold for any feed: the touched book is refreshed from the new
levels, and the levels of other books are untouched. `Refinement`: with unique
references `BookEngine` implements `RestingOrders`. The snapshot theorems rest on
`SnapInv`: the count of the last publication is a multiple of the interval until
completion and fewer than an interval behind (`LagInv`), and a snapshot with the
engine's own count was built from the state the engine is in now (`CurrentInv`).
From it follow `LagBounded` and `FinalIsServed`; with the shape of what
`Snapshots` may return, `SymbolsCorrect`; and with `LevelsConsistent` and
`RankedLists`, `SnapshotCorrect`.

**Gaps** (`EngineFeedsProofs`). `GapsNeverUnderstate` and `LosslessIsExact` follow
from `GapInv`: engine and exchange know used references only, what both know
agrees in price and is overstated at most, no message was corrupt, and while
nothing is lost the two are equal. The references that were used matter: a lost
replacement leaves the old order in the engine, and only because its reference
never comes back does that order stay harmless to the others.

**Benchmarks of the engine** (`EngineFeedsProofs`). `MicrosCorrect`: under the
delete, replace and execute loops what rests is a function of the number of the
iteration (`MicroInv`): the orders not yet deleted in this round; the seeded orders
up to the iteration moved to the references next to them, once; each seeded order
with its shares less the executions that came past it (`Left`), for which
`NextOfRound` divides by the number of orders.
`MixedCorrect`: the builder's targets are alive at their place in the workload,
and in every round an order alive at this place rests with at least the shares this
round has left it (`MixedInv`), because an add of the same round put them there
anew. Both say when the loops miss: executions may exhaust an order. `PilesCorrect`
is about the levels too, and needs the whole state: after k rounds and n
operations the index is the function `IndexAt` of the workload, and each level
holds k times what a whole round leaves in it and what this round has left so far
(`Piled`). A replayed add overwrites a resting order in the index and not in its
level, which is how the rounds pile up; that no level wraps or clamps meanwhile
comes from the lemmas behind `LevelsCover`.

**Live mode** (`LivePipelineProofs`). `ReaderCorrect` and `DeliveryCorrect` rest
on `ReaderInv`: the numbers pending from the current packet ascend, lie above what
was delivered and below `expected_seq`, and counts are cardinalities of intervals.
`QueueCorrect`, `DrainCorrect` and `StopIsLate` need `PipelineInv` in addition:
each thread's buffer is full exactly at the program points that use it,
`recv_done` is set only behind the last enqueue, and behind the drain loop the
queue is empty. This holds for any interleaving and any point at which the
receive thread throws.

**File programs** (`FilePipelineProofs`). The offset of a frame is the number of
bytes of the frames up to it, so that a frame's step, order and monotony of
offsets follow from cardinality lemmas. `ReaderInv`: `pos` is the end of the frames
returned and what has been read of the present one, or the end of a file that ends
right after a prefix (`Stands`); what was returned are the frames, filled if whole
on disk (`Delivered`); and a truncation is reported only for a size that is no
boundary (`Explained`). From it `FramesCorrect` and `TruncationCorrect`. `PipeInv`
adds that the loops' counts are numbers of frames handled so far (`Counted`), that
`load_capture` keeps the numbers of the messages in ascending order and no more
than its limit (`Collected`), and how a program may end (`Endings`):
`CountsCorrect`, `CaptureCorrect`. All hold for captures of any length, cut anywhere,
for any sequence of short reads and for any interval, 0 included.

**REST** (`RestServerProofs`). `AnswersAreFresh` follows from `SnapInv` at the
time of loading and the moment remembered at arrival (`ArrivalInv`). The
properties that compare answers of different workers (`ListedAreFound`,
`BookAndTopCorrect`) need that two snapshots of one origin, message count and
completion flag, are one snapshot. `HistoryInv` says so: there is a set of all
snapshots loaded so far with one for each origin, each well formed. Its
unbounded quantifier is beyond TLC, which checks what follows from it. `TopServed`
also needs `TopIsBest`: a snapshot sorts the levels, the engine caches pointers.

**Ladders** (`LadderProofs`). `FlatCorrect`: the vector lists exactly the map's
levels in the side's order (`FlatInv`); then the prices better than any given one
are an initial interval, so `lower_bound` finds a level or the place to insert it.
`ArrayCorrect`: the best index and the count of occupied slots change only when a
slot's count of orders leaves or reaches zero, which is right only if no count
wraps. `CountsInv` gives that: a slot counts the caller's orders in it or, in the
benchmark, at most as many as there were steps. `SumsCorrect`: a slot's total is
the number of (order, unit) pairs of the orders whose prices fall into it
(`SumsInv`), as for the engine. It is stated for the engine-like callers only.
`GridCorrect`: on the grid (`GridInv`) a price and its slot determine each other,
so the occupied slots from the best on are the map's levels in order.
`ShapesCorrect`: under the replayed workload the occupied slots are the map's
prices and the counts agree, although the totals do not (run `ladder_totals`).

**Parser** (`ParserProofs`), for every base of a byte. `ReadsStayInside`: every
offset and width a deserializer reads lies in the length it has required
(`ReadsCovered`). `CutsAreRejected`: that length is the length of the struct with
its type byte. `FieldsSurvive`: field by field, each read takes exactly the bytes of
its own field (`Placed`, `SliceIsField`), and reading undoes the encoding
(`FieldBack`): the quotients of a number by the powers of the base lengthen by one
byte at a time, which is what the `read_be` functions compute (`ReadBack`), and
text that does not end in a space keeps all but its padding (`Unpadded`). The
lemmas hold for every value that fits a field; the messages of the specification
are among them (`MessagesFit`). Where a field ends is a number of bytes, like the
offsets of frames, so the layout follows from cardinality lemmas. `ParserInv` says
that the buffer is a beginning of the message sent and of one byte more.

Only model-checked:

* `EnqueuedGetsProcessed`, `ShutdownCompletes`, `PipelineEnds`: liveness under
  fairness is out of this prover's reach.
* The four violations of section 4, which are counterexamples.

## 6. Not modelled

Start and stop of the HTTP server, which depend on the library; wall-clock times;
the other environment variables; benchmarks of single calls (`bench_parser`,
`bench_snapshot`, the two loops of plain adds) and the latency recorder, which keep
no state the program uses; the off-thread snapshot design, which has no code.
Sockets, the queue and the exchange are external and modelled by how the code
uses them. On a quiet feed the last partial interval is published only when more
messages come: `SnapshotLag` bounds the lag in messages, nothing bounds it in time.

## 7. Plan

The order was: the engine and its abstract specification first, because every
answer of the program rests on it; then what feeds it (readers, live mode, gaps);
then what reads from it (REST) and the parser; then proofs about the engine.

1. Done: all of section 2, the runs of section 4, the proofs of section 5. The
   ladders, the file programs and the benchmark feeds came last.
2. Done: a theorem for every invariant the runs check and for the refinement,
   except what section 5 lists as only model-checked.
3. Left: nothing that is within reach of the tools. Liveness stays with TLC; the
   start and stop of the HTTP server would need a model of its library.
