----------------------------- MODULE PageFamily -----------------------------
(***************************************************************************)
(* An internal page and its children as finite maps: the changes that      *)
(* insert_attempt and remove_attempt make while they hold the latches of a *)
(* parent and of the children they need, written with the operators of     *)
(* BLinkPages.  The children are leaves, or internal pages whose own       *)
(* children are opaque.  Link repairs come later and are not part of it.   *)
(***************************************************************************)
EXTENDS BLinkPages

VARIABLES
  parent,  \* a root, so that it may come down to one child
  child    \* per page: the parent's children; the others are free or retired

vars == <<parent, child>>

WellFormed ==
  /\ parent.kind = "internal" /\ parent.isRoot
  /\ parent.low = NegInf /\ parent.high = PosInf
  /\ Occupancy(parent) \in 0..N
  /\ \A s \in {NegInf} \cup Separators(parent) :
       LET pg == child[parent.kids[s]]
       IN  /\ Active(pg)
           /\ Occupancy(pg) \in Minimum(pg)..N
           /\ pg.low = s /\ pg.high = NextSlot(parent, s)
           /\ \A k \in Contents(pg) : pg.low <= k /\ k < pg.high

\* The child for k, and the pages on both sides of the boundary that a removal
\* of k looks at.
Home(k)  == Child(parent, k)
Sep(k)   == Boundary(parent, k)
Left(k)  == parent.kids[PrevSlot(parent, Sep(k))]
Right(k) == parent.kids[Sep(k)]

Store(k, v) ==
  /\ child[Home(k)].kind = "leaf"
  /\ child[Home(k)].recs[k] # NoVal \/ ~Full(child[Home(k)])
  /\ child' = [child EXCEPT ![Home(k)].recs[k] = v]
  /\ UNCHANGED parent

Erase(k) ==
  /\ child[Home(k)].kind = "leaf"
  /\ ~AtMinimum(child[Home(k)])
  /\ child' = [child EXCEPT ![Home(k)].recs[k] = NoVal]
  /\ UNCHANGED parent

\* A child's own child has split at k into itself and new.
LearnSplit(k, new) ==
  /\ child[Home(k)].kind = "internal"
  /\ k \notin Separators(child[Home(k)]) \cup {child[Home(k)].low}
  /\ ~Full(child[Home(k)])
  /\ child' = [child EXCEPT ![Home(k)] = InstallSplit(@, k, new)]
  /\ UNCHANGED parent

\* Two of a child's own children have merged on behalf of k.
LearnMerge(k) ==
  /\ child[Home(k)].kind = "internal"
  /\ ~AtMinimum(child[Home(k)])
  /\ child' = [child EXCEPT ![Home(k)] = DropMerged(@, Boundary(@, k))]
  /\ UNCHANGED parent

Split(k, new) ==
  /\ ~Full(parent)
  /\ Full(child[Home(k)])
  /\ child[new].kind = "free"
  /\ LET old == child[Home(k)]
         sep == SplitKey(old)
     IN  /\ child' = [child EXCEPT ![Home(k)] = SplitLower(old, sep, new),
                                   ![new]     = SplitUpper(old, sep, Home(k))]
         /\ parent' = InstallSplit(parent, sep, new)

\* The child for k is at its minimum and has a sibling.
Needy(k) == Separators(parent) # {} /\ AtMinimum(child[Home(k)])

BorrowFromLeft(k) ==
  /\ Needy(k) /\ Home(k) = Right(k) /\ ~AtMinimum(child[Left(k)])
  /\ LET left  == child[Left(k)]
         right == child[Right(k)]
         b     == LendLastBoundary(left)
     IN  /\ child' = [child EXCEPT
              ![Left(k)]  = LentLast(left, b),
              ![Right(k)] = TookLast(left, right, Sep(k), b)]
         /\ parent' = MoveBoundary(parent, Sep(k), b)

BorrowFromRight(k) ==
  /\ Needy(k) /\ Home(k) = Left(k) /\ ~AtMinimum(child[Right(k)])
  /\ LET left  == child[Left(k)]
         right == child[Right(k)]
         b     == LendFirstBoundary(right)
     IN  /\ child' = [child EXCEPT
              ![Left(k)]  = TookFirst(left, right, Sep(k), b),
              ![Right(k)] = LentFirst(right, b)]
         /\ parent' = MoveBoundary(parent, Sep(k), b)

Merge(k) ==
  /\ Needy(k) /\ AtMinimum(child[Left(k)]) /\ AtMinimum(child[Right(k)])
  /\ child' = [child EXCEPT
       ![Left(k)]  = Retired(child[Left(k)], Right(k)),
       ![Right(k)] = Survivor(child[Left(k)], child[Right(k)], Sep(k))]
  /\ parent' = DropMerged(parent, Sep(k))

Next ==
  \E k \in Key :
    \/ \E v \in Val : Store(k, v)
    \/ Erase(k)
    \/ \E new \in Page : LearnSplit(k, new) \/ Split(k, new)
    \/ LearnMerge(k)
    \/ BorrowFromLeft(k) \/ BorrowFromRight(k) \/ Merge(k)

Spec == WellFormed /\ [][Next]_vars
=============================================================================
