----------------------------- MODULE BenchFeed -----------------------------
(***************************************************************************)
(* The engine under its benchmarks: BM_ApplyMixed_Synth of                 *)
(* bench_mixed_workload.cpp and BM_DeleteOrder, BM_ReplaceOrder and        *)
(* BM_ExecuteOrder of bench_book_engine.cpp.  Each gives the engine a      *)
(* fixed round of messages over and over, for as many iterations as the    *)
(* benchmark library asks for.                                             *)
(***************************************************************************)
EXTENDS BookEngine, Sequences

CONSTANTS
    NOrders,      \* state.range(0): orders resting at the start
    NMixed,       \* operations of the mixed workload after them: 100000
    BenchShares,  \* shares of an order: 100
    SeedPrices    \* number of prices seed_engine uses: 100

ASSUME BenchAssumption ==
    /\ NOrders \in Nat \ {0} /\ NMixed \in Nat
    /\ BenchShares \in Nat \ {0} /\ 2 * BenchShares < U32
    /\ SeedPrices \in Nat \ {0} /\ 1..SeedPrices \subseteq Prices
    /\ 1..(NOrders + NMixed) \subseteq Refs /\ {"B", "S"} \subseteq Sides

VARIABLES
    benchmark,   \* "mixed", "delete", "replace", "execute"; "none" under another feed
    ops,         \* mixed: the workload
    live,        \* mixed: references the builder takes to be alive
    next_ref,    \* mixed, replace
    seeded,      \* orders seed_engine has added to the present engine
    idx

benchVars == <<benchmark, ops, live, next_ref, seeded, idx>>

BenchIdle ==
    /\ ops = <<>> /\ live = {}
    /\ seeded = 0 /\ idx = 0

BenchInit ==
    /\ Init /\ BenchIdle
    /\ benchmark \in {"mixed", "delete", "replace", "execute"}
    /\ next_ref = IF benchmark = "mixed" THEN 1 ELSE NOrders + 1

(* register_aapl, and the same at the top of seed_engine. *)
BenchRegister ==
    /\ benchmark # "none"
    /\ instruments = EmptyMap
    /\ RegisterInstrument
    /\ UNCHANGED benchVars

Registered == DOMAIN instruments # {}

(* Messages of a benchmark: one locate, constant timestamps. *)
apply_add(ref, side, shares, price) ==
    \E l \in DOMAIN instruments, t \in Timestamps : Add(l, ref, side, shares, price, t, NoMpid)
apply_delete(ref) == \E t \in Timestamps : Delete(ref, t) \/ SkipUnknown(ref)
apply_execute(ref, shares) == \E t \in Timestamps : TakeShares(ref, shares, t) \/ SkipUnknown(ref)
apply_replace(orig, next, shares, price) ==
    \E t \in Timestamps : Replace(orig, next, shares, price, t) \/ SkipUnknown(orig)

----------------------------------------------------------------------------
(* BM_ApplyMixed_Synth: the workload is built first.  The kinds come in    *)
(* random order; without a live order the next is an add.                  *)

Built == Len(ops) = NOrders + NMixed
Push(step) ==
    /\ benchmark = "mixed" /\ ~Built
    /\ ops' = Append(ops, step)
    /\ UNCHANGED <<vars, benchmark, seeded, idx>>

BuildAdd ==
    \E p \in Prices, s \in {"B", "S"} :
        /\ Push([op |-> "OP_ADD", ref |-> next_ref, price |-> p, side |-> s])
        /\ live' = live \cup {next_ref}
        /\ next_ref' = next_ref + 1

(* Fault *)
BuildDeleteKeepsLive ==
    \E r \in live :
        /\ Len(ops) >= NOrders
        /\ Push([op |-> "OP_DELETE", ref |-> r])
        /\ UNCHANGED <<live, next_ref>>

BuildDelete ==
    \E r \in live :
        /\ Len(ops) >= NOrders
        /\ Push([op |-> "OP_DELETE", ref |-> r])
        /\ live' = live \ {r}
        /\ UNCHANGED next_ref

(* An order executed down to nothing is still taken to be alive. *)
BuildExecute ==
    \E r \in live :
        /\ Len(ops) >= NOrders
        /\ Push([op |-> "OP_EXECUTE", ref |-> r])
        /\ UNCHANGED <<live, next_ref>>

(* The timed loop.  The adds of the resting orders are part of the round,  *)
(* so from the second round on they find their references resting.         *)
ApplyMixed ==
    /\ benchmark = "mixed" /\ Built /\ Registered
    /\ LET s == ops[idx + 1]
       IN  \/ s.op = "OP_ADD" /\ apply_add(s.ref, s.side, BenchShares, s.price)
           \/ s.op = "OP_DELETE" /\ apply_delete(s.ref)
           \/ s.op = "OP_EXECUTE" /\ apply_execute(s.ref, 1)
    /\ idx' = (idx + 1) % Len(ops)
    /\ UNCHANGED <<benchmark, ops, live, next_ref, seeded>>

----------------------------------------------------------------------------
(* seed_engine, and the loops of the three micro-benchmarks. *)

SeedEngine ==
    /\ benchmark \in {"delete", "replace", "execute"}
    /\ Registered /\ seeded < NOrders
    /\ apply_add(seeded + 1, IF seeded % 2 = 0 THEN "B" ELSE "S", BenchShares,
                 1 + (seeded % SeedPrices))
    /\ seeded' = seeded + 1
    /\ UNCHANGED <<benchmark, ops, live, next_ref, idx>>

Iteration(name) ==
    /\ benchmark = name /\ seeded = NOrders
    /\ idx' = idx + 1
    /\ UNCHANGED <<benchmark, ops, live, seeded>>

(* Fault *)
DeleteFromZero ==
    /\ idx < NOrders
    /\ Iteration("delete")
    /\ apply_delete(idx)
    /\ UNCHANGED next_ref

BenchDelete ==
    /\ idx < NOrders
    /\ Iteration("delete")
    /\ apply_delete(idx + 1)
    /\ UNCHANGED next_ref

(* All orders are deleted: a new engine with the same publisher. *)
NewEngine ==
    /\ benchmark = "delete" /\ idx >= NOrders
    /\ order_index' = EmptyMap /\ levels' = EmptyMap
    /\ books' = EmptyMap /\ instruments' = EmptyMap
    /\ messages_processed' = 0 /\ skipped_unknown_ref' = 0 /\ corrupt_messages' = 0
    /\ pipeline_complete' = FALSE
    /\ seeded' = 0 /\ idx' = 0
    /\ UNCHANGED <<published, benchmark, ops, live, next_ref>>

(* The reference to replace goes round the first ones, the new one is new. *)
BenchReplace ==
    /\ next_ref \in Refs
    /\ Iteration("replace")
    /\ apply_replace((idx % NOrders) + 1, next_ref, 2 * BenchShares, 1)
    /\ next_ref' = next_ref + 1

BenchExecute ==
    /\ Iteration("execute")
    /\ apply_execute((idx % NOrders) + 1, 1)
    /\ UNCHANGED next_ref

BenchNext ==
    \/ BenchRegister
    \/ BuildAdd \/ BuildDelete \/ BuildExecute \/ ApplyMixed
    \/ SeedEngine \/ BenchDelete \/ NewEngine \/ BenchReplace \/ BenchExecute

----------------------------------------------------------------------------
(* Properties *)

(* An order is executed as often in a round as it has shares. *)
Exhausts ==
    \E i \in DOMAIN ops :
        Cardinality({j \in DOMAIN ops : ops[j].op = "OP_EXECUTE" /\ ops[j].ref = ops[i].ref})
            >= BenchShares

(* "We track which refs are alive so deletes/executes target live orders": *)
(* true in every round of the mixed workload, though the tracking was done *)
(* for the first one only, unless executions exhaust an order.             *)
MixedTargetsLive == benchmark = "mixed" /\ ~Exhausts => skipped_unknown_ref = 0

(* The book of the mixed workload is not in a steady state.  The orders    *)
(* that outlive a round are added once more in the next one: after k       *)
(* rounds the index has them once and the levels hold them k times.        *)
RoundsPileUp ==
    benchmark = "mixed" /\ ~Exhausts /\ idx = 0 /\ messages_processed > 0 =>
        LET k == messages_processed \div Len(ops)
            once == Aggregate(order_index)
        IN  /\ DOMAIN order_index = live
            /\ DOMAIN levels = DOMAIN once
            /\ \A key \in DOMAIN levels :
                  /\ levels[key].order_count = k * once[key].order_count
                  /\ levels[key].total_shares = k * once[key].total_shares

Beyond(n) == IF idx > n THEN idx - n ELSE 0

(* What the iterations of the micro-benchmarks hit: every delete an order, *)
(* across any number of new engines; every execution one until all shares  *)
(* are gone; a replacement only as long as idx has not come round, because *)
(* the orders are under new references then.  RESULTS.md takes it that the *)
(* last two never miss ("cycles same n orders without draining", "shares   *)
(* decrement + level update"); the counts say when they do.                *)
MicrosHit ==
    /\ benchmark = "delete" =>
          skipped_unknown_ref = 0 /\ Cardinality(DOMAIN order_index) = seeded - idx
    /\ benchmark = "execute" => skipped_unknown_ref = Beyond(NOrders * BenchShares)
    /\ benchmark = "replace" =>
          skipped_unknown_ref = Beyond(NOrders) /\ Cardinality(DOMAIN order_index) = seeded

============================================================================
