------------------------------- MODULE MCPool -------------------------------
(***************************************************************************)
(* Pool.tla for TLC: the requests are interchangeable.                     *)
(***************************************************************************)
EXTENDS Pool, TLC

Symmetry == Permutations(Request)
=============================================================================
