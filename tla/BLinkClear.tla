----------------------------- MODULE BLinkClear -----------------------------
(***************************************************************************)
(* BLinkMap::clear (src/src/map.rs) between the calls of the threads that  *)
(* share the map.  It takes &mut self, so that no call is in progress and  *)
(* no guard is held; the pages that no Arc leads to are freed.             *)
(***************************************************************************)
EXTENDS BLinkSafety

CONSTANT MaxClears  \* bound, per scene

ASSUME ClearAssumption == MaxClears \in [Scene -> Nat]

VARIABLE cleared    \* how often the map has been cleared

MayClear == /\ AtRest /\ Filled
            /\ cleared < MaxClears[filled.scene]
            /\ Unallocated # {}

\* The old tree is dropped once the new one stands; between two calls no
\* thread has an Arc that would keep one of its pages.
NewTree == /\ root' = FirstNew
           /\ page' = [p \in Page |-> IF p = FirstNew THEN LeafRoot ELSE FreePage]

\* Mutants: the counter of the old tree stays; the tree stays and only the
\* leaf that a descent from the root reaches first is emptied.
ClearKeepsLen ==
  /\ MayClear
  /\ NewTree
  /\ cleared' = cleared + 1
  /\ UNCHANGED <<len, threads>>

ClearFirstLeaf ==
  /\ MayClear
  /\ \E p \in Leaves : /\ page[p].low = NegInf
                       /\ page' = [page EXCEPT ![p].recs = NoRecs]
  /\ len' = 0
  /\ cleared' = cleared + 1
  /\ UNCHANGED <<root, threads>>

Clear ==
  /\ MayClear
  /\ NewTree
  /\ len' = 0
  /\ cleared' = cleared + 1
  /\ UNCHANGED threads

ClearNext == (Next /\ UNCHANGED cleared) \/ Clear

ClearInit == Init /\ cleared = 0

ClearSpec == ClearInit /\ [][ClearNext]_<<vars, cleared>>
=============================================================================
