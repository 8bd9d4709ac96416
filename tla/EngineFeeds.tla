---------------------------- MODULE EngineFeeds ----------------------------
(***************************************************************************)
(* Feeds that keep to a plan, one at a time: the exchange with its lost    *)
(* messages, or one of the benchmarks.                                     *)
(***************************************************************************)
EXTENDS GapFeed, BenchFeed

feedVars == <<gapVars, benchVars>>

FeedsInit ==
    /\ truth = EmptyMap /\ used = {} /\ lost = 0
    /\ \/ BenchInit
       \/ Init /\ BenchIdle /\ benchmark = "none" /\ next_ref = 1

FeedsNext ==
    \/ benchmark = "none" /\ GapNext /\ UNCHANGED benchVars
    \/ benchmark # "none" /\ BenchNext /\ UNCHANGED <<truth, used, lost>>

FeedsSpec == FeedsInit /\ [][FeedsNext]_feedVars

============================================================================
