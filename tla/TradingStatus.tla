--------------------------- MODULE TradingStatus ---------------------------
(***************************************************************************)
(* The engine and what the feed has last said about each instrument's      *)
(* trading state.  Stock Directory and Stock Trading Action messages come  *)
(* in any order and may be repeated, as they are when a feed is replayed   *)
(* or spun.                                                                *)
(***************************************************************************)
EXTENDS BookEngine

VARIABLE said   \* locate -> state of the last trading action message

statusVars == <<vars, said>>

StatusInit == Init /\ said = EmptyMap

StatusNext ==
    \/ \E l \in Locates, s \in TradingStates : TradingAction(l, s) /\ said' = Put(said, l, s)
    \/ StockDirectory /\ UNCHANGED said
    \/ AddOrder /\ UNCHANGED said

StatusSpec == StatusInit /\ [][StatusNext]_statusVars

(* The comment of the directory handler: trading state 'T' is the "default *)
(* until Trading Action says otherwise", so for a known instrument the     *)
(* last trading action is what counts.                                     *)
StateIsLastSaid ==
    \A l \in DOMAIN instruments \cap DOMAIN said : instruments[l].trading_state = said[l]

============================================================================
