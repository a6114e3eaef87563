---------------------------- MODULE MCOwnership ----------------------------
(* Instances of Ownership for TLC: the client's maps are interchangeable,  *)
(* and every property treats them alike.                                   *)
EXTENDS Ownership

MapSymmetry == Permutations(Maps)
=============================================================================
