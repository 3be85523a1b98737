---------------------------- MODULE MCFixedArray ----------------------------
(***************************************************************************)
(* Arrays and elements are interchangeable: no definition of FixedArray    *)
(* picks one by name, and every property quantifies over all of them.      *)
(***************************************************************************)
EXTENDS FixedArray, TLC

Symmetry == Permutations(Arr) \cup Permutations(Elem)
=============================================================================
