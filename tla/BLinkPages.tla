----------------------------- MODULE BLinkPages -----------------------------
(***************************************************************************)
(* The pages of the b-link tree and the pure page transformations of       *)
(* src/src/node.rs: routing, split, borrow and merge.  A page is a record; *)
(* every operator here maps page records to page records and knows nothing *)
(* of threads or latches.                                                  *)
(*                                                                         *)
(* Data abstraction.  The code keeps a leaf's records and an internal      *)
(* page's separators in sorted arrays.  A sorted array without duplicates  *)
(* is a finite map, so a leaf is a function recs from keys to values       *)
(* (NoVal where there is no record) and an internal page is a function     *)
(* kids from slots to pages: kids[NegInf] is children[0], and kids[s] is   *)
(* the child to the right of the separator s (Nil where s is no            *)
(* separator).  A leaf's kids and an internal page's recs are empty, which *)
(* lets one operator serve both kinds of page.                             *)
(***************************************************************************)
EXTENDS Integers, FiniteSets, FiniteSetsExt

CONSTANTS
  N,         \* page capacity: the const parameter of Tree<K, V, N>
  MaxKey,    \* keys are 1..MaxKey
  MaxPages,  \* bound: how many pages a behaviour may allocate
  Val,       \* user values
  NoVal      \* no record

ASSUME CapacityAssumption == N \in Nat /\ N >= 3
ASSUME BoundsAssumption   == MaxKey \in Nat /\ MaxPages \in Nat \ {0}
ASSUME NoValAssumption    == NoVal \notin Val

Key    == 1..MaxKey
NegInf == 0              \* a missing low fence; also the slot of children[0]
PosInf == MaxKey + 1     \* a missing high fence
Slot   == 0..MaxKey
Page   == 1..MaxPages
Nil    == 0
Ref    == 0..MaxPages    \* Option<NodeRef>

NoRecs == [k \in Key |-> NoVal]
NoKids == [s \in Slot |-> Nil]

(***************************************************************************)
(* One page.  kind "free" is a page not allocated yet; level counts from   *)
(* the leaves and is a history field (the code keeps no level).            *)
(***************************************************************************)
PageRec ==
  [kind   : {"free", "leaf", "internal", "redirect"},
   level  : Nat,
   isRoot : BOOLEAN,
   low    : Slot,
   high   : 1..(MaxKey + 1),
   prev   : Ref,                        \* weak predecessor
   right  : Ref,                        \* strong successor
   recs   : [Key -> Val \cup {NoVal}],
   kids   : [Slot -> Ref],
   target : Ref]                        \* payload of Redirect

FreePage ==
  [kind |-> "free", level |-> 0, isRoot |-> FALSE, low |-> NegInf,
   high |-> PosInf, prev |-> Nil, right |-> Nil, recs |-> NoRecs,
   kids |-> NoKids, target |-> Nil]

\* Node::leaf_root: the empty leaf that covers the whole key space.
LeafRoot == [FreePage EXCEPT !.kind = "leaf", !.isRoot = TRUE]

Active(pg) == pg.kind \in {"leaf", "internal"}

Records(pg)    == {k \in Key : pg.recs[k] # NoVal}
Separators(pg) == {s \in Key : pg.kids[s] # Nil}
Contents(pg)   == IF pg.kind = "leaf" THEN Records(pg) ELSE Separators(pg)

Occupancy(pg) == IF Active(pg) THEN Cardinality(Contents(pg)) ELSE 0

\* Mutant: one minimum for both kinds, which an even N does not allow.
MinimumAsLeaf(pg) == IF Active(pg) THEN N \div 2 ELSE 0

Minimum(pg) == CASE pg.kind = "internal" -> (N - 1) \div 2
                 [] pg.kind = "leaf"     -> N \div 2
                 [] OTHER                -> 0

Full(pg)      == Occupancy(pg) = N
AtMinimum(pg) == Occupancy(pg) <= Minimum(pg)

(***************************************************************************)
(* Routing.  "right" follows a sibling link or a redirect, "restart" goes  *)
(* back to the root, "here" is the page that owns the key's range.         *)
(***************************************************************************)
\* Mutant: only the high fence is checked.
RouteNoLowFence(pg, k) == IF pg.kind = "redirect" \/ k >= pg.high THEN "right"
                          ELSE "here"

Route(pg, k) == IF pg.kind = "redirect" THEN "right"
                ELSE IF k < pg.low      THEN "restart"
                ELSE IF k >= pg.high    THEN "right"
                ELSE "here"

\* Mutant: a redirect is left by its sibling link.
OnwardRight(pg) == pg.right

Onward(pg) == IF pg.kind = "redirect" THEN pg.target ELSE pg.right

\* child_index: a separator is the inclusive lower bound of its right child.
ChildSlot(pg, k) == Max({NegInf} \cup {s \in Separators(pg) : s <= k})

Child(pg, k) == pg.kids[ChildSlot(pg, k)]

\* The slot after s, PosInf for the last one.
NextSlot(pg, s) == Min({PosInf} \cup {x \in Separators(pg) : x > s})

\* The slot before the separator s.
PrevSlot(pg, s) == Max({NegInf} \cup {x \in Separators(pg) : x < s})

\* The separator between the child that covers k and the sibling a removal
\* pairs it with: the one to its left, or for the first child the one to its
\* right.
Boundary(pg, k) == LET slot == ChildSlot(pg, k)
                   IN  IF slot = NegInf THEN NextSlot(pg, NegInf) ELSE slot

-----------------------------------------------------------------------------
(***************************************************************************)
(* split_full: the lower floor(N/2) records or separators stay; the next   *)
(* one becomes the separator, which a leaf keeps on the right and an       *)
(* internal page promotes (its child becomes the right page's first one).  *)
(***************************************************************************)
SplitKey(pg) ==
  CHOOSE s \in Contents(pg) :
    Cardinality({x \in Contents(pg) : x < s}) = N \div 2

\* Mutant: the escape path to the new page is not published.
SplitLowerUnlinked(pg, sep, rightRef) ==
  [pg EXCEPT !.recs  = [k \in Key |-> IF k < sep THEN pg.recs[k] ELSE NoVal],
             !.kids  = [s \in Slot |-> IF s < sep THEN pg.kids[s] ELSE Nil],
             !.high  = sep]

SplitLower(pg, sep, rightRef) ==
  [pg EXCEPT !.recs  = [k \in Key |-> IF k < sep THEN pg.recs[k] ELSE NoVal],
             !.kids  = [s \in Slot |-> IF s < sep THEN pg.kids[s] ELSE Nil],
             !.high  = sep,
             !.right = rightRef]

SplitUpper(pg, sep, leftRef) ==
  [pg EXCEPT !.isRoot = FALSE,
             !.low  = sep,
             !.prev = leftRef,
             !.recs = [k \in Key |-> IF k < sep THEN NoVal ELSE pg.recs[k]],
             !.kids = [s \in Slot |-> IF s = NegInf THEN pg.kids[sep]
                                      ELSE IF s > sep THEN pg.kids[s]
                                      ELSE Nil]]

\* insert_split: the parent learns the new sibling.
InstallSplit(parent, sep, rightRef) == [parent EXCEPT !.kids[sep] = rightRef]

\* Node::root_from_split.
RootFromSplit(leftRef, sep, rightRef, lvl) ==
  [FreePage EXCEPT !.kind = "internal", !.isRoot = TRUE, !.level = lvl,
                   !.kids = [NoKids EXCEPT ![NegInf] = leftRef,
                                           ![sep] = rightRef]]

-----------------------------------------------------------------------------
(***************************************************************************)
(* borrow_from_left and borrow_from_right move one record or edge across   *)
(* the boundary sep between two adjacent siblings and return the new       *)
(* boundary.  A leaf's boundary is the key of its right page's first       *)
(* record; an internal page rotates the old boundary through the parent.   *)
(***************************************************************************)
LendLastBoundary(left) == Max(Contents(left))

\* Mutant: an internal page's boundary found as a leaf's is.
LendFirstBoundaryAsLeaf(right) ==
  Min(Contents(right) \ {Min(Contents(right))})

LendFirstBoundary(right) ==
  LET first == Min(Contents(right))
  IN  IF right.kind = "leaf" THEN Min(Contents(right) \ {first}) ELSE first

\* Mutant: the lender keeps its old high fence.
LentLastKeepsFence(left, b) == [left EXCEPT !.recs[b] = NoVal, !.kids[b] = Nil]

\* left and right after borrow_from_left, whose new boundary is b.
LentLast(left, b) ==
  [left EXCEPT !.recs[b] = NoVal, !.kids[b] = Nil, !.high = b]

TookLast(left, right, sep, b) ==
  [right EXCEPT !.recs[b] = left.recs[b],
                !.kids = [right.kids EXCEPT ![sep] = right.kids[NegInf],
                                            ![NegInf] = left.kids[b]],
                !.low = b]

\* left and right after borrow_from_right, whose new boundary is b.
TookFirst(left, right, sep, b) ==
  [left EXCEPT !.recs = [k \in Key |-> IF sep <= k /\ k < b
                                       THEN right.recs[k] ELSE left.recs[k]],
               !.kids[sep] = right.kids[NegInf],
               !.high = b]

LentFirst(right, b) ==
  [right EXCEPT !.recs = [k \in Key |-> IF k < b THEN NoVal
                                                 ELSE right.recs[k]],
                !.kids = [right.kids EXCEPT ![NegInf] = right.kids[b],
                                            ![b] = Nil],
                !.low = b]

\* The parent's separator sep becomes b; its right child stays.
MoveBoundary(parent, sep, b) ==
  [parent EXCEPT !.kids = [s \in Slot |-> IF s = b   THEN parent.kids[sep]
                                          ELSE IF s = sep THEN Nil
                                          ELSE parent.kids[s]]]

-----------------------------------------------------------------------------
(***************************************************************************)
(* merge_left_into_right: the right page survives with both contents, the  *)
(* old separator descends into an internal survivor, and the left page     *)
(* forwards.  The parent loses sep; the left page's slot gets the survivor.*)
(***************************************************************************)
Survivor(left, right, sep) ==
  [right EXCEPT
     !.recs = [k \in Key |-> IF k < sep THEN left.recs[k] ELSE right.recs[k]],
     !.kids = [s \in Slot |-> IF s < sep THEN left.kids[s]
                              ELSE IF s = sep THEN right.kids[NegInf]
                              ELSE right.kids[s]],
     !.low  = left.low,
     !.prev = left.prev]

\* Mutant: the retired page forwards to its predecessor.
RetiredBackwards(left, rightRef) ==
  [left EXCEPT !.kind = "redirect", !.target = left.prev, !.low = NegInf,
               !.recs = NoRecs, !.kids = NoKids]

Retired(left, rightRef) ==
  [left EXCEPT !.kind = "redirect", !.target = rightRef, !.low = NegInf,
               !.recs = NoRecs, !.kids = NoKids]

\* Mutant: the separator goes, but the slot keeps the retired page.
DropMergedKeepsLeft(parent, sep) == [parent EXCEPT !.kids[sep] = Nil]

DropMerged(parent, sep) ==
  [parent EXCEPT !.kids[PrevSlot(parent, sep)] = parent.kids[sep],
                 !.kids[sep] = Nil]

(***************************************************************************)
(* shrink_root: the sole child of an empty internal root becomes the root, *)
(* and the old root forwards to it.                                        *)
(***************************************************************************)
PromotedChild(child) ==
  [child EXCEPT !.low = NegInf, !.high = PosInf, !.prev = Nil, !.right = Nil,
                !.isRoot = TRUE]

\* Mutant: the old root forwards nowhere.
CollapsedRootUnlinked(pg, childRef) ==
  [pg EXCEPT !.isRoot = FALSE, !.kind = "redirect", !.kids = NoKids]

CollapsedRoot(pg, childRef) ==
  [pg EXCEPT !.isRoot = FALSE, !.kind = "redirect", !.target = childRef,
             !.kids = NoKids, !.low = NegInf, !.high = PosInf, !.prev = Nil,
             !.right = Nil]
=============================================================================
