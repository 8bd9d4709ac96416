--------------------------- MODULE RestingOrders ---------------------------
(***************************************************************************)
(* What the engine promises of a feed that gives every order a reference   *)
(* of its own: a set of resting orders, and a book that is always the sum  *)
(* of exactly those orders.  BookEngine maintains its levels one message   *)
(* at a time and never looks at the other orders; it implements this       *)
(* specification with orders <- order_index and book <- levels.            *)
(***************************************************************************)
EXTENDS BookTypes

VARIABLES orders,  \* reference -> order record
          book     \* level key -> price level

absVars == <<orders, book>>

AbsInit == /\ orders = EmptyMap
           /\ book = Aggregate(orders)

(* A new order comes to rest under a reference nobody uses. *)
Enter(r) == /\ r \notin DOMAIN orders
            /\ \E rec \in OrderRecord : orders' = Put(orders, r, rec)

(* An execution or a cancellation takes shares off an order, never adds    *)
(* any, changes nothing else of it, and leaves no order without shares     *)
(* other than one that came without any.                                   *)
Shrink(r) == \E n \in 1..(orders[r].shares - 1) :
                orders' = [orders EXCEPT ![r].shares = n]

Leave(r) == orders' = Erase(orders, r)

(* A replacement has new terms and keeps who placed it, where and on which *)
(* side.                                                                   *)
Amend(r, new) ==
    /\ new \notin DOMAIN orders \ {r}
    /\ \E n \in Uint32, p \in Prices :
          orders' = Put(Erase(orders, r), new,
                        [orders[r] EXCEPT !.shares = n, !.price = p])

AbsNext ==
    /\ \/ \E r \in Refs : Enter(r)
       \/ \E r \in DOMAIN orders : Shrink(r) \/ Leave(r)
       \/ \E r \in DOMAIN orders, new \in Refs : Amend(r, new)
    /\ book' = Aggregate(orders')

AbsSpec == AbsInit /\ [][AbsNext]_absVars

============================================================================
