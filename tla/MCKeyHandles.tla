---------------------------- MODULE MCKeyHandles ----------------------------
(***************************************************************************)
(* All sequences of changes of up to four leaves over four keys.           *)
(***************************************************************************)
EXTENDS KeyHandles

Keys4 == 1..4
=============================================================================
