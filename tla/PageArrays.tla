----------------------------- MODULE PageArrays -----------------------------
(***************************************************************************)
(* The same family of pages as PageFamily, as src/src/node.rs stores it: a *)
(* leaf's records, and an internal page's separators and children, are     *)
(* arrays, and every change is made of indices, insertions, removals and   *)
(* concatenations.  Indices are the code's, which count from 0.            *)
(***************************************************************************)
EXTENDS Integers, Sequences, SequencesExt

CONSTANTS N, MaxKey, MaxPages, Val, NoVal

ASSUME ArraysAssumption ==
  /\ N \in Nat /\ N >= 3 /\ MaxKey \in Nat
  /\ MaxPages \in Nat /\ MaxPages > (N + 1) * (N + 1)
  /\ Val # {} /\ NoVal \notin Val

VARIABLES
  up,    \* the parent
  down,  \* per page: the parent's children; the others are free or retired
  moved  \* the one change of a behaviour has been made

vars == <<up, down, moved>>

Key    == 1..MaxKey
NegInf == 0
PosInf == MaxKey + 1
Page   == 1..MaxPages
Nil    == 0

\* entries belongs to a leaf; keys and children belong to an internal page.
Free == [kind |-> "free", isRoot |-> FALSE, low |-> NegInf, high |-> PosInf,
         prev |-> Nil, right |-> Nil, target |-> Nil,
         entries |-> <<>>, keys |-> <<>>, children |-> <<>>]

IsLeaf(pg)    == pg.kind = "leaf"
Occupancy(pg) == IF IsLeaf(pg) THEN Len(pg.entries) ELSE Len(pg.keys)
Minimum(pg)   == IF IsLeaf(pg) THEN N \div 2 ELSE (N - 1) \div 2

-----------------------------------------------------------------------------
(***************************************************************************)
(* Arrays with the code's indices, and the two searches.                   *)
(***************************************************************************)
At(s, i)           == s[i + 1]
ArrInsert(s, i, e) == InsertAt(s, i + 1, e)
ArrRemove(s, i)    == RemoveAt(s, i + 1)
Below(s, i)        == SubSeq(s, 1, i)          \* what split_off(i) leaves
From(s, i)         == SubSeq(s, i + 1, Len(s)) \* what split_off(i) returns

\* Mutant: the search stops on a separator instead of passing it.
ChildIndexLowerBound(pg, k) ==
  LET search[span \in (0..Len(pg.keys)) \X (0..Len(pg.keys))] ==
        LET low    == span[1]
            high   == span[2]
            middle == low + (high - low) \div 2
        IN  IF low >= high THEN low
            ELSE IF At(pg.keys, middle) >= k THEN search[<<low, middle>>]
            ELSE search[<<middle + 1, high>>]
  IN  search[<<0, Len(pg.keys)>>]

\* child_index: an upper-bound binary search, since a separator is the
\* inclusive lower bound of the child to its right.
ChildIndex(pg, k) ==
  LET search[span \in (0..Len(pg.keys)) \X (0..Len(pg.keys))] ==
        LET low    == span[1]
            high   == span[2]
            middle == low + (high - low) \div 2
        IN  IF low >= high THEN low
            ELSE IF At(pg.keys, middle) > k THEN search[<<low, middle>>]
            ELSE search[<<middle + 1, high>>]
  IN  search[<<0, Len(pg.keys)>>]

\* binary_search_by: whether the key is there, and its index or, when it is
\* not, the index where it belongs.
Search(pg, k) ==
  [found |-> \E i \in DOMAIN pg.entries : pg.entries[i].key = k,
   index |-> Cardinality({i \in DOMAIN pg.entries : pg.entries[i].key < k})]

\* Where entry_at_or_after looks in the leaf for k.
SeekIndex(pg, k, inclusive) ==
  LET hit == Search(pg, k)
  IN  IF hit.found /\ ~inclusive THEN hit.index + 1 ELSE hit.index

-----------------------------------------------------------------------------
(***************************************************************************)
(* The page changes of node.rs.                                            *)
(***************************************************************************)
Stored(pg, k, v) ==
  LET hit == Search(pg, k)
  IN  IF hit.found
      THEN [pg EXCEPT !.entries[hit.index + 1].value = v]
      ELSE [pg EXCEPT !.entries = ArrInsert(@, hit.index, [key |-> k, value |-> v])]

\* insert_split.
InsertSplit(pg, index, separator, right) ==
  [pg EXCEPT !.keys     = ArrInsert(@, index, separator),
             !.children = ArrInsert(@, index + 1, right)]

\* Mutant: the children are cut where the separators are.
SplitFullEvenly(pg, left, right) ==
  LET middle == N \div 2
      rest   == ArrRemove(pg.keys, middle)
      separator == IF IsLeaf(pg) THEN At(pg.entries, middle).key
                                 ELSE At(pg.keys, middle)
  IN  [separator |-> separator,
       left  |-> [(IF IsLeaf(pg) THEN [pg EXCEPT !.entries = Below(@, middle)]
                   ELSE [pg EXCEPT !.keys = Below(rest, middle),
                                   !.children = Below(@, middle)])
                  EXCEPT !.high = separator, !.right = right],
       right |-> [(IF IsLeaf(pg) THEN [pg EXCEPT !.entries = From(@, middle)]
                   ELSE [pg EXCEPT !.keys = From(rest, middle),
                                   !.children = From(@, middle)])
                  EXCEPT !.low = separator, !.prev = left]]

\* split_full: the separator, the page that stays and the page that goes right.
SplitFull(pg, left, right) ==
  LET middle == N \div 2
      rest   == ArrRemove(pg.keys, middle)  \* without the promoted separator
      upper  == From(pg.entries, middle)
      separator == IF IsLeaf(pg) THEN At(upper, 0).key ELSE At(pg.keys, middle)
      kept  == IF IsLeaf(pg)
               THEN [pg EXCEPT !.entries = Below(@, middle)]
               ELSE [pg EXCEPT !.keys = Below(rest, middle),
                               !.children = Below(@, middle + 1)]
      gone  == IF IsLeaf(pg)
               THEN [pg EXCEPT !.entries = upper]
               ELSE [pg EXCEPT !.keys = From(rest, middle),
                               !.children = From(@, middle + 1)]
  IN  [separator |-> separator,
       left  |-> [kept  EXCEPT !.high = separator, !.right = right],
       right |-> [gone  EXCEPT !.isRoot = FALSE, !.low = separator,
                               !.prev = left]]

\* The pages after a borrow, with the parent's separator replaced and both
\* fences moved to it.
Rebalanced(pg, index, boundary, left, right) ==
  [parent |-> [pg EXCEPT !.keys = ReplaceAt(@, index + 1, boundary)],
   left   |-> [left EXCEPT !.high = boundary],
   right  |-> [right EXCEPT !.low = boundary]]

\* Mutant: the new boundary, not the old one, goes down into the right page.
LentByLeftUnrotated(pg, index, left, right) ==
  Rebalanced(pg, index, Last(IF IsLeaf(left) THEN [i \in DOMAIN left.entries |->
                                                     left.entries[i].key]
                             ELSE left.keys),
    [left EXCEPT !.entries = Front(@), !.keys = Front(@), !.children = Front(@)],
    IF IsLeaf(left)
    THEN [right EXCEPT !.entries = ArrInsert(@, 0, Last(left.entries))]
    ELSE [right EXCEPT !.keys = ArrInsert(@, 0, Last(left.keys)),
                       !.children = ArrInsert(@, 0, Last(left.children))])

\* borrow_from_left: an internal page's boundary goes through the parent.
LentByLeft(pg, index, left, right) ==
  IF IsLeaf(left)
  THEN LET entry == Last(left.entries)
       IN  Rebalanced(pg, index, entry.key,
             [left EXCEPT !.entries = Front(@)],
             [right EXCEPT !.entries = ArrInsert(@, 0, entry)])
  ELSE Rebalanced(pg, index, Last(left.keys),
         [left EXCEPT !.keys = Front(@), !.children = Front(@)],
         [right EXCEPT !.keys = ArrInsert(@, 0, At(pg.keys, index)),
                       !.children = ArrInsert(@, 0, Last(left.children))])

\* borrow_from_right.
LentByRight(pg, index, left, right) ==
  IF IsLeaf(left)
  THEN LET rest == ArrRemove(right.entries, 0)
       IN  Rebalanced(pg, index, At(rest, 0).key,
             [left EXCEPT !.entries = Append(@, At(right.entries, 0))],
             [right EXCEPT !.entries = rest])
  ELSE Rebalanced(pg, index, At(right.keys, 0),
         [left EXCEPT !.keys = Append(@, At(pg.keys, index)),
                      !.children = Append(@, At(right.children, 0))],
         [right EXCEPT !.keys = ArrRemove(@, 0),
                       !.children = ArrRemove(@, 0)])

\* merge_left_into_right.
WithoutLeft(pg, index) ==
  [pg EXCEPT !.keys = ArrRemove(@, index), !.children = ArrRemove(@, index)]

MergedIntoRight(separator, left, right) ==
  LET joined == IF IsLeaf(left)
                THEN [right EXCEPT !.entries = left.entries \o @]
                ELSE [right EXCEPT !.keys = left.keys \o <<separator>> \o @,
                                   !.children = left.children \o @]
  IN  [joined EXCEPT !.low = left.low, !.prev = left.prev]

RetiredLeft(left, rightRef) ==
  [left EXCEPT !.kind = "redirect", !.target = rightRef, !.low = NegInf,
               !.entries = <<>>, !.keys = <<>>, !.children = <<>>]

-----------------------------------------------------------------------------
(***************************************************************************)
(* The critical sections of a pass, for a key k.                           *)
(***************************************************************************)
HomeIndex(k) == ChildIndex(up, k)
HomeRef(k)   == At(up.children, HomeIndex(k))
Home(k)      == down[HomeRef(k)]

\* The index of the boundary a removal of k looks at, and the pages beside it.
PairIndex(k) == IF HomeIndex(k) > 0 THEN HomeIndex(k) - 1 ELSE 0
LeftRef(k)   == At(up.children, PairIndex(k))
RightRef(k)  == At(up.children, PairIndex(k) + 1)
Left(k)      == down[LeftRef(k)]
Right(k)     == down[RightRef(k)]

AtMinimum(pg) == Occupancy(pg) <= Minimum(pg)
Needy(k)      == Len(up.children) >= 2 /\ AtMinimum(Home(k))

Store(k, v) ==
  /\ IsLeaf(Home(k))
  /\ Search(Home(k), k).found \/ Len(Home(k).entries) # N
  /\ down' = [down EXCEPT ![HomeRef(k)] = Stored(@, k, v)]
  /\ UNCHANGED up

Erase(k) ==
  /\ IsLeaf(Home(k))
  /\ Search(Home(k), k).found
  /\ ~AtMinimum(Home(k))
  /\ down' = [down EXCEPT ![HomeRef(k)].entries =
                ArrRemove(@, Search(Home(k), k).index)]
  /\ UNCHANGED up

LearnSplit(k, new) ==
  /\ Home(k).kind = "internal"
  /\ k \notin ToSet(Home(k).keys) \cup {Home(k).low}
  /\ Occupancy(Home(k)) # N
  /\ down' = [down EXCEPT ![HomeRef(k)] =
                InsertSplit(@, ChildIndex(@, k), k, new)]
  /\ UNCHANGED up

LearnMerge(k) ==
  /\ Home(k).kind = "internal"
  /\ ~AtMinimum(Home(k))
  /\ LET i == ChildIndex(Home(k), k)
     IN  down' = [down EXCEPT ![HomeRef(k)] =
                    WithoutLeft(@, IF i > 0 THEN i - 1 ELSE 0)]
  /\ UNCHANGED up

Split(k, new) ==
  /\ Occupancy(up) # N /\ Occupancy(Home(k)) = N
  /\ down[new].kind = "free"
  /\ LET split == SplitFull(Home(k), HomeRef(k), new)
     IN  /\ down' = [down EXCEPT ![HomeRef(k)] = split.left,
                                 ![new]        = split.right]
         /\ up' = InsertSplit(up, HomeIndex(k), split.separator, new)

Rebalance(k, lent) ==
  /\ up'   = lent.parent
  /\ down' = [down EXCEPT ![LeftRef(k)] = lent.left, ![RightRef(k)] = lent.right]

BorrowFromLeft(k) ==
  /\ Needy(k) /\ HomeIndex(k) > 0 /\ ~AtMinimum(Left(k))
  /\ Rebalance(k, LentByLeft(up, PairIndex(k), Left(k), Right(k)))

BorrowFromRight(k) ==
  /\ Needy(k) /\ HomeIndex(k) = 0 /\ ~AtMinimum(Right(k))
  /\ Rebalance(k, LentByRight(up, 0, Left(k), Right(k)))

Merge(k) ==
  /\ Needy(k) /\ AtMinimum(Left(k)) /\ AtMinimum(Right(k))
  /\ up' = WithoutLeft(up, PairIndex(k))
  /\ down' = [down EXCEPT
       ![LeftRef(k)]  = RetiredLeft(@, RightRef(k)),
       ![RightRef(k)] = MergedIntoRight(At(up.keys, PairIndex(k)), Left(k), @)]

\* The page that a split allocates: no initial family has it.
Fresh == MaxPages

Change ==
  \E k \in Key :
    \/ \E v \in Val : Store(k, v)
    \/ Erase(k)
    \/ LearnSplit(k, Fresh) \/ Split(k, Fresh)
    \/ LearnMerge(k)
    \/ BorrowFromLeft(k) \/ BorrowFromRight(k) \/ Merge(k)

-----------------------------------------------------------------------------
(***************************************************************************)
(* A behaviour is one change of one family.  It may begin with any family  *)
(* of the given capacity, so that longer behaviours would add nothing.     *)
(***************************************************************************)
Sorted(S) ==
  [i \in 1..Cardinality(S) |-> CHOOSE k \in S : Cardinality({x \in S : x < k}) = i - 1]

\* The separators or record keys of S, as the child between two fences has them.
ChildPage(kind, S, low, high, first) ==
  LET own == Sorted({k \in S : low <= k /\ k < high})
  IN  [Free EXCEPT
         !.kind = kind, !.low = low, !.high = high,
         !.entries  = IF kind = "leaf"
                      THEN [i \in DOMAIN own |-> [key |-> own[i],
                                                 value |-> CHOOSE v \in Val : TRUE]]
                      ELSE <<>>,
         !.keys     = IF kind = "leaf" THEN <<>> ELSE own,
         !.children = IF kind = "leaf" THEN <<>>
                      ELSE [i \in 1..Len(own) + 1 |-> first + i]]

\* The family with separators seps whose children hold S: child i is page i,
\* and the children's own children are numbered from left to right.
FamilyOf(kind, seps, S) ==
  LET fences == <<NegInf>> \o Sorted(seps) \o <<PosInf>>
      count  == Cardinality(seps) + 1
  IN  [parent |-> [Free EXCEPT !.kind = "internal", !.isRoot = TRUE,
                               !.keys = Sorted(seps),
                               !.children = [i \in 1..count |-> i]],
       child  |-> [p \in Page |->
                     IF p > count THEN Free
                     ELSE ChildPage(kind, S, fences[p], fences[p + 1],
                                    (p - 1) * (N + 1))]]

Init ==
  /\ moved = FALSE
  /\ \E kind \in {"leaf", "internal"}, seps \in SUBSET Key, S \in SUBSET Key :
       /\ Cardinality(seps) \in 1..N
       /\ kind = "internal" => seps \cap S = {}
       /\ LET family == FamilyOf(kind, seps, S)
          IN  /\ \A i \in 1..Cardinality(seps) + 1 :
                   Occupancy(family.child[i]) \in Minimum(family.child[i])..N
              /\ up = family.parent
              /\ down = family.child

Next == ~moved /\ Change /\ moved' = TRUE

Spec == Init /\ [][Next]_vars

-----------------------------------------------------------------------------
(***************************************************************************)
(* Properties.                                                             *)
(***************************************************************************)
Ascending(s) == \A i, j \in DOMAIN s : i < j => s[i] < s[j]

PageFits(pg) ==
  /\ Len(pg.entries) <= N /\ Len(pg.keys) <= N /\ Len(pg.children) <= N + 1
  /\ pg.kind = "internal" => Len(pg.children) = Len(pg.keys) + 1
  /\ Ascending(pg.keys)
  /\ Ascending([i \in DOMAIN pg.entries |-> pg.entries[i].key])
  /\ \A i, j \in DOMAIN pg.children : i # j => pg.children[i] # pg.children[j]

\* No change overruns an array's fixed capacity, which panics (Array::insert),
\* and after each of them the keys ascend strictly, an internal page has one
\* child more than separators, and no child twice: also after a merge of two
\* minimal pages, which for one parity of N fills the survivor (README.md,
\* lines 48-50).
ArraysFit == PageFits(up) /\ \A p \in Page : PageFits(down[p])

\* The array as the finite map it stands for.
AbsPage(pg) ==
  [kind |-> pg.kind, level |-> 0, isRoot |-> pg.isRoot,
   low |-> pg.low, high |-> pg.high, prev |-> pg.prev, right |-> pg.right,
   target |-> pg.target,
   recs |-> [k \in Key |->
               IF \E i \in DOMAIN pg.entries : pg.entries[i].key = k
               THEN pg.entries[CHOOSE i \in DOMAIN pg.entries :
                                 pg.entries[i].key = k].value
               ELSE NoVal],
   kids |-> [s \in 0..MaxKey |->
               IF s = NegInf /\ pg.children # <<>> THEN pg.children[1]
               ELSE IF \E i \in DOMAIN pg.keys : pg.keys[i] = s
               THEN pg.children[(CHOOSE i \in DOMAIN pg.keys :
                                   pg.keys[i] = s) + 1]
               ELSE Nil]]

Family == INSTANCE PageFamily WITH
            parent <- AbsPage(up),
            child  <- [p \in Page |-> AbsPage(down[p])]

\* Every index, length and cut of split_full, insert_split, borrow_from_left,
\* borrow_from_right, merge_left_into_right and the leaf's insert and remove
\* does to the arrays what the page operators of the tree's model do to maps.
ArraysImplementPages == Family!Spec

\* child_index finds the child that owns the key, and the index at which
\* entry_at_or_after looks is that of the least record at or after the bound.
IndexesAgree ==
  \A k \in Key :
    /\ HomeRef(k) = Family!Home(k)
    /\ IsLeaf(Home(k)) => \A inclusive \in BOOLEAN :
         LET index == SeekIndex(Home(k), k, inclusive)
             after == {x \in Family!Records(AbsPage(Home(k))) :
                         IF inclusive THEN x >= k ELSE x > k}
         IN  IF after = {} THEN index = Len(Home(k).entries)
             ELSE At(Home(k).entries, index).key = Family!Min(after)
=============================================================================
