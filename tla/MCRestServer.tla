---------------------------- MODULE MCRestServer ----------------------------
(* Instances of RestServer for TLC. *)
EXTENDS RestServer, TLC

CONSTANTS ABC, aBC, abc

MCLowercase == ABC :> abc @@ aBC :> abc

Ask(route, symbol, depth) == [route |-> route, symbol |-> symbol, depth |-> depth]

(* Every route; a symbol that may be listed in another spelling, and the    *)
(* placeholder of an instrument never listed; no, a small and a bad depth.  *)
MCRequests ==
    {Ask("status", ABC, NoDepth), Ask("instruments", ABC, NoDepth),
     Ask("book", aBC, NoDepth), Ask("book", Placeholder(7), 1),
     Ask("book", ABC, 51), Ask("top", Placeholder(7), NoDepth)}

MCSymmetry == Permutations(Refs) \cup Permutations(Workers)
=============================================================================
