---------------------------- MODULE MCBookEngine ----------------------------
(* Instances of BookEngine for TLC. *)
EXTENDS BookEngine, TLC

CONSTANTS ABC, aBC, XYZ, abc, xyz

(* Two spellings of one symbol and a symbol of its own: lower-casing maps   *)
(* the first two to one key of symbol_index.                                *)
MCSymbols == {ABC, aBC, XYZ}
MCLowercase == ABC :> abc @@ aBC :> abc @@ XYZ :> xyz

RefSymmetry == Permutations(Refs)
============================================================================
