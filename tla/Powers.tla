------------------------------- MODULE Powers -------------------------------
(***************************************************************************)
(* 1 << n, as a recursive function: what a mask, a shift or a width counts *)
(* in, in a form that facts can be proved of.                              *)
(***************************************************************************)
EXTENDS Integers

Pow2[n \in Nat] == IF n = 0 THEN 1 ELSE 2 * Pow2[n - 1]
=============================================================================
