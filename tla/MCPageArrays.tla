---------------------------- MODULE MCPageArrays ----------------------------
(***************************************************************************)
(* Every parent with one to N separators, and every way its children may   *)
(* share the keys.                                                         *)
(***************************************************************************)
EXTENDS PageArrays

CONSTANTS Old, New

OneValue  == {Old}
TwoValues == {Old, New}
=============================================================================
