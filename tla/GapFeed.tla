------------------------------ MODULE GapFeed ------------------------------
(***************************************************************************)
(* The engine behind a feed with gaps.  The exchange, which is outside the *)
(* repository, keeps the true orders and sends one message per change; a   *)
(* message is applied by the engine or lost, as UDPFeedReader loses the    *)
(* messages of a gap for good.  The messages that do arrive are in order.  *)
(***************************************************************************)
EXTENDS BookEngine

CONSTANTS
    ExchangeRefs,   \* references the exchange gives out
    MaxHeard,       \* bound on the messages that arrive
    MaxLost         \* bound on the messages lost

ASSUME ExchangeAssumption == ExchangeRefs \subseteq Refs

VARIABLES
    truth,   \* reference -> shares and price of the order at the exchange
    used,    \* references the exchange has given out
    lost     \* number of messages lost

gapVars == <<vars, truth, used, lost>>

GapInit == Init /\ truth = EmptyMap /\ used = {} /\ lost = 0

(* A message in a gap: the engine learns nothing. *)
Lost == /\ lost < MaxLost
        /\ ~pipeline_complete
        /\ lost' = lost + 1
        /\ UNCHANGED vars

Heard(A) == A /\ lost' = lost /\ messages_processed' <= MaxHeard

----------------------------------------------------------------------------
(* The exchange *)

Place ==
    \E l \in Locates, r \in ExchangeRefs \ used, s \in Sides, n \in ShareCounts \ {0},
       p \in Prices, t \in Timestamps :
          /\ truth' = Put(truth, r, [shares |-> n, price |-> p])
          /\ used' = used \cup {r}
          /\ Heard(Add(l, r, s, n, p, t, NoMpid)) \/ Lost

(* An execution or cancellation of at most the shares the order has. *)
Fill ==
    \E r \in DOMAIN truth, t \in Timestamps : \E n \in 1..truth[r].shares :
          /\ truth' = IF n = truth[r].shares THEN Erase(truth, r)
                      ELSE [truth EXCEPT ![r].shares = @ - n]
          /\ used' = used
          /\ Heard(TakeShares(r, n, t) \/ SkipUnknown(r)) \/ Lost

Remove ==
    \E r \in DOMAIN truth, t \in Timestamps :
          /\ truth' = Erase(truth, r)
          /\ used' = used
          /\ Heard(Delete(r, t) \/ SkipUnknown(r)) \/ Lost

Change ==
    \E r \in DOMAIN truth, new \in ExchangeRefs \ used, n \in ShareCounts \ {0},
       p \in Prices, t \in Timestamps :
          /\ truth' = Put(Erase(truth, r), new, [shares |-> n, price |-> p])
          /\ used' = used \cup {new}
          /\ Heard(Replace(r, new, n, p, t) \/ SkipUnknown(r)) \/ Lost

Finish == Heard(SetPipelineComplete) /\ UNCHANGED <<truth, used>>

GapNext == Place \/ Fill \/ Remove \/ Change \/ Finish

GapSpec == GapInit /\ [][GapNext]_gapVars

----------------------------------------------------------------------------
(* Properties *)

(* Whatever is lost, an order both sides know has the right price and at   *)
(* least its true shares, so no message of the exchange is ever oversized  *)
(* and corrupt_messages stays 0: a gap alone cannot trigger the clamp.     *)
GapsOverstate ==
    /\ \A r \in DOMAIN order_index \cap DOMAIN truth :
          /\ order_index[r].shares >= truth[r].shares
          /\ order_index[r].price = truth[r].price
    /\ corrupt_messages = 0

(* Without loss the index is the truth and nothing is skipped. *)
ExactWithoutGaps ==
    used # {} /\ lost = 0 =>
        /\ DOMAIN order_index = DOMAIN truth
        /\ \A r \in DOMAIN truth : order_index[r].shares = truth[r].shares
        /\ skipped_unknown_ref = 0

(* README.md: "a feed gap cannot leave an immortal order": at the end of   *)
(* the feed no order rests that the exchange has taken off.                *)
NoImmortalOrder == pipeline_complete => DOMAIN order_index \subseteq DOMAIN truth

============================================================================
