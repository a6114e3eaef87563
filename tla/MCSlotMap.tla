----------------------------- MODULE MCSlotMap -----------------------------
(***************************************************************************)
(* Instances of SlotMap for TLC.  All constants are given in the .cfg      *)
(* files; the values are interchangeable, so they are symmetric.           *)
(***************************************************************************)
EXTENDS SlotMapInv, Statistics, TLC

ValueSymmetry == Permutations(Values)
=============================================================================
