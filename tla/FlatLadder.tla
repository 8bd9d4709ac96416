----------------------------- MODULE FlatLadder -----------------------------
(***************************************************************************)
(* FlatLadder: a vector of levels that has to stay sorted best first,      *)
(* since every operation finds its level by binary search.                 *)
(***************************************************************************)
EXTENDS LadderTypes, Sequences

Vector == INSTANCE SequencesExt   \* insert and erase of std::vector

VARIABLE flat   \* sequence of levels

FlatInit == flat = <<>>

(* Fault *)
PastEqual(p) == 1 + Cardinality({i \in DOMAIN flat : ~Better(p, flat[i].price)})

(* std::lower_bound: the position of the first level that is not better    *)
(* than p, one past the end if all are.                                    *)
LowerBound(p) == 1 + Cardinality({i \in DOMAIN flat : Better(flat[i].price, p)})
Hit(p) == LowerBound(p) \in DOMAIN flat /\ flat[LowerBound(p)].price = p

FlatAdd(p, shares) ==
    flat' = IF Hit(p) THEN [flat EXCEPT ![LowerBound(p)] = Grown(@, shares)]
            ELSE Vector!InsertAt(flat, LowerBound(p),
                                 [price |-> p, total_shares |-> shares, order_count |-> 1])

FlatRemove(p, shares, full_removal) ==
    LET i == LowerBound(p)
        new == Shrunk(flat[i], shares, full_removal)
    IN  flat' = IF ~Hit(p) THEN flat
                ELSE IF new.order_count = 0 THEN Vector!RemoveAt(flat, i)
                ELSE [flat EXCEPT ![i] = new]

FlatList == flat
FlatBest == IF flat = <<>> THEN <<>> ELSE <<Head(flat)>>
FlatSize == Len(flat)

=============================================================================
