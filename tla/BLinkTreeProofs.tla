---------------------------- MODULE BLinkTreeProofs ----------------------------
(***************************************************************************)
(* Theorems about the concurrent tree, for every page capacity, key range, *)
(* page bound, set of threads and workload.                                *)
(*                                                                         *)
(* First, lemmas about the page operators of BLinkPages: the extrema they  *)
(* are built from exist, a full page has a split key, and every page       *)
(* transformation returns a page.                                          *)
(***************************************************************************)
EXTENDS BLinkSafety, FiniteSetTheorems, TLAPS

-----------------------------------------------------------------------------
(***************************************************************************)
(* Extrema of bounded sets of numbers.                                     *)
(***************************************************************************)
\* A non-empty set of naturals has a least element.
LEMMA LeastExists ==
  ASSUME NEW S, S \subseteq Nat, S # {}
  PROVE  \E x \in S : \A y \in S : x <= y
<1>1. PICK x \in S : \A y \in S : ~(<<y, x>> \in OpToRel(<, Nat))
  BY NatLessThanWellFounded, WFMin, Zenon
<1>2. \A y \in S : ~(y < x)
  BY <1>1 DEF OpToRel
<1>3. QED
  BY <1>2

\* A non-empty bounded set of naturals has a greatest element.
LEMMA GreatestExists ==
  ASSUME NEW n \in Nat, NEW S, S \subseteq 0..n, S # {}
  PROVE  \E x \in S : \A y \in S : x >= y
<1> DEFINE T == {m \in Nat : \E x \in S : m = n - x}
<1>1. T \subseteq Nat /\ T # {}
  <2>1. PICK x \in S : TRUE
    OBVIOUS
  <2>2. n - x \in Nat
    OBVIOUS
  <2>3. n - x \in T
    BY <2>2
  <2>4. QED
    BY <2>3
<1> HIDE DEF T
<1>2. PICK m \in T : \A l \in T : m <= l
  BY <1>1, LeastExists
<1>3. PICK x \in S : m = n - x
  BY DEF T
<1>4. \A y \in S : n - y \in T
  BY DEF T
<1>5. QED
  BY <1>1, <1>2, <1>3, <1>4

\* Min and Max of a non-empty bounded set are members that bound it.
LEMMA MinIsLeast ==
  ASSUME NEW S, S \subseteq Nat, S # {}
  PROVE  Min(S) \in S /\ \A y \in S : Min(S) <= y
BY LeastExists DEF Min

LEMMA MaxIsGreatest ==
  ASSUME NEW n \in Nat, NEW S, S \subseteq 0..n, S # {}
  PROVE  Max(S) \in S /\ \A y \in S : Max(S) >= y
BY GreatestExists DEF Max

\* The members of S below m.
Below(S, m) == {x \in S : x < m}

\* A finite set of h + 1 or more naturals has a member with exactly h below it.
LEMMA MedianExists ==
  ASSUME NEW n \in Nat, NEW S, S \subseteq 1..n,
         NEW h \in Nat, h < Cardinality(S)
  PROVE  \E s \in S : Cardinality(Below(S, s)) = h
<1> DEFINE T == {m \in 0..(n + 1) : Cardinality(Below(S, m)) > h}
<1>1. IsFiniteSet(S)
  BY FS_Interval, FS_Subset, n \in Int, 1 \in Int
<1>2. \A m : IsFiniteSet(Below(S, m)) /\ Cardinality(Below(S, m)) \in Nat
  BY <1>1, FS_Subset, FS_CardinalityType DEF Below
<1>3. Below(S, n + 1) = S /\ Below(S, 0) = {}
  <2>1. \A x \in S : x < n + 1 /\ ~(x < 0)
    OBVIOUS
  <2>2. QED
    BY <2>1, Zenon DEF Below
<1>4. n + 1 \in T /\ 0 \notin T
  BY <1>3, FS_EmptySet
<1>5. T \subseteq Nat /\ T # {}
  <2>1. 0..(n + 1) \subseteq Nat
    OBVIOUS
  <2>2. QED
    BY <1>4, <2>1, Zenon
<1>6. PICK m \in T : \A l \in T : m <= l
  BY <1>5, LeastExists
<1>7. m # 0 /\ m \in 1..(n + 1) /\ m - 1 \in 0..(n + 1) /\ m - 1 \notin T
  BY <1>4, <1>6
<1>8. Cardinality(Below(S, m - 1)) <= h /\ Cardinality(Below(S, m)) > h
  BY <1>2, <1>6, <1>7
<1>9. Below(S, m) = IF m - 1 \in S THEN Below(S, m - 1) \cup {m - 1}
                                   ELSE Below(S, m - 1)
  <2>1. \A x \in S : x < m <=> x < m - 1 \/ x = m - 1
    BY <1>7
  <2>2. QED
    BY <2>1, Zenon DEF Below
<1>10. m - 1 \notin Below(S, m - 1)
  BY <1>7 DEF Below
<1>11. m - 1 \in S
  BY <1>2, <1>8, <1>9
<1>12. Cardinality(Below(S, m)) = Cardinality(Below(S, m - 1)) + 1
  BY <1>2, <1>9, <1>10, <1>11, FS_AddElement
<1>13. Cardinality(Below(S, m - 1)) = h
  BY <1>2, <1>8, <1>12
<1>14. QED
  BY <1>11, <1>13

-----------------------------------------------------------------------------
(***************************************************************************)
(* The slots and keys the operations pick exist.                           *)
(***************************************************************************)
USE DEF Key, Slot, NegInf, PosInf

LEMMA ContentsAreKeys ==
  ASSUME NEW pg
  PROVE  /\ Separators(pg) \subseteq Key
         /\ Records(pg) \subseteq Key
         /\ Contents(pg) \subseteq Key
         /\ IsFiniteSet(Contents(pg))
         /\ Cardinality(Contents(pg)) \in Nat
<1>1. /\ Separators(pg) \subseteq Key
      /\ Records(pg) \subseteq Key
      /\ Contents(pg) \subseteq Key
  BY DEF Separators, Records, Contents
<1>2. IsFiniteSet(Key)
  BY FS_Interval, BoundsAssumption, 1 \in Int, MaxKey \in Int
<1>3. QED
  BY <1>1, <1>2, FS_Subset, FS_CardinalityType

\* child_index returns the position of a child.
LEMMA ChildSlotExists ==
  ASSUME NEW pg, NEW k
  PROVE  ChildSlot(pg, k) \in {NegInf} \cup Separators(pg)
<1> DEFINE S == {NegInf} \cup {s \in Separators(pg) : s <= k}
<1>1. S \subseteq 0..MaxKey /\ S # {}
  BY ContentsAreKeys, BoundsAssumption
<1>2. Max(S) \in S
  BY <1>1, MaxIsGreatest, BoundsAssumption
<1>3. QED
  BY <1>2 DEF ChildSlot

LEMMA PrevSlotExists ==
  ASSUME NEW pg, NEW sep
  PROVE  PrevSlot(pg, sep) \in {NegInf} \cup Separators(pg)
<1> DEFINE S == {NegInf} \cup {s \in Separators(pg) : s < sep}
<1>1. S \subseteq 0..MaxKey /\ S # {}
  BY ContentsAreKeys, BoundsAssumption
<1>2. Max(S) \in S
  BY <1>1, MaxIsGreatest, BoundsAssumption
<1>3. QED
  BY <1>2 DEF PrevSlot

\* An internal page with a separator has a pair of children for every key.
LEMMA BoundaryExists ==
  ASSUME NEW pg, NEW k, Separators(pg) # {}
  PROVE  Boundary(pg, k) \in Separators(pg)
<1> DEFINE S == {PosInf} \cup {s \in Separators(pg) : s > NegInf}
<1>1. Separators(pg) \subseteq 1..MaxKey
  BY ContentsAreKeys
<1>2. PICK s \in Separators(pg) : s \in S
  BY <1>1
<1>3. S \subseteq Nat /\ S # {}
  BY <1>1, BoundsAssumption
<1>4. Min(S) \in S /\ Min(S) <= s
  BY <1>2, <1>3, MinIsLeast
<1>5. Min(S) \in Separators(pg)
  BY <1>1, <1>2, <1>4, BoundsAssumption
<1>6. NextSlot(pg, NegInf) = Min(S)
  BY DEF NextSlot
<1> HIDE DEF S
<1>7. QED
  BY <1>5, <1>6, ChildSlotExists DEF Boundary

\* A full page has a split key, and it is one of its own: the median.
LEMMA SplitKeyMedian ==
  ASSUME NEW pg, Full(pg)
  PROVE  /\ SplitKey(pg) \in Contents(pg)
         /\ Cardinality({x \in Contents(pg) : x < SplitKey(pg)}) = N \div 2
<1>1. Cardinality(Contents(pg)) = N
  BY CapacityAssumption DEF Full, Occupancy
<1>2. N \div 2 \in Nat /\ N \div 2 < N
  BY CapacityAssumption
<1>3. \E s \in Contents(pg) :
        Cardinality({x \in Contents(pg) : x < s}) = N \div 2
  <2>1. Contents(pg) \subseteq 1..MaxKey /\ MaxKey \in Nat
    BY ContentsAreKeys, BoundsAssumption
  <2>2. N \div 2 < Cardinality(Contents(pg))
    BY <1>1, <1>2
  <2> DEFINE S == Contents(pg)
             h == N \div 2
  <2>3. S \subseteq 1..MaxKey /\ h \in Nat /\ h < Cardinality(S)
    BY <1>2, <2>1, <2>2
  <2> HIDE DEF S, h
  <2>4. \E s \in S : Cardinality(Below(S, s)) = h
    BY <2>1, <2>3, MedianExists
  <2>5. QED
    BY <2>4, Zenon DEF S, h, Below
<1>4. QED
  BY <1>3, Zenon DEF SplitKey

LEMMA SplitKeyExists ==
  ASSUME NEW pg, Full(pg)
  PROVE  SplitKey(pg) \in Contents(pg)
BY SplitKeyMedian

\* A page above its minimum has at least one entry, and a leaf at least two.
LEMMA EntriesAboveMinimum ==
  ASSUME NEW pg, ~AtMinimum(pg)
  PROVE  /\ Contents(pg) # {}
         /\ pg.kind = "leaf" => Contents(pg) \ {Min(Contents(pg))} # {}
<1> DEFINE c == Cardinality(Contents(pg))
<1>1. c \in Nat /\ IsFiniteSet(Contents(pg))
  BY ContentsAreKeys
<1>2. Active(pg)
  <2>1. ~Active(pg) => Occupancy(pg) = 0 /\ Minimum(pg) = 0
    BY DEF Occupancy, Minimum, Active
  <2>2. QED
    BY <2>1 DEF AtMinimum
<1>3. ~(c <= Minimum(pg))
  BY <1>2 DEF AtMinimum, Occupancy
<1>4. (N - 1) \div 2 >= 1 /\ N \div 2 >= 1 /\ (N - 1) \div 2 \in Int
        /\ N \div 2 \in Int
  BY CapacityAssumption
<1>5. pg.kind \in {"leaf", "internal"}
  BY <1>2 DEF Active
<1>6. c >= 2
  <2>1. CASE pg.kind = "leaf"
    BY <2>1, <1>1, <1>3, <1>4 DEF Minimum
  <2>2. CASE pg.kind = "internal"
    BY <2>2, <1>1, <1>3, <1>4 DEF Minimum
  <2>3. QED
    BY <1>5, <2>1, <2>2
<1> HIDE DEF c
<1>7. Contents(pg) # {}
  BY <1>6, FS_EmptySet DEF c
<1>8. \A x : Contents(pg) # {x}
  BY <1>6, FS_Singleton DEF c
<1>9. QED
  BY <1>7, <1>8

LEMMA LendLastExists ==
  ASSUME NEW pg, ~AtMinimum(pg)
  PROVE  LendLastBoundary(pg) \in Contents(pg)
<1>1. Contents(pg) \subseteq 0..MaxKey
  BY ContentsAreKeys, BoundsAssumption
<1>2. QED
  BY <1>1, EntriesAboveMinimum, MaxIsGreatest, BoundsAssumption
     DEF LendLastBoundary

LEMMA LendFirstExists ==
  ASSUME NEW pg, ~AtMinimum(pg)
  PROVE  LendFirstBoundary(pg) \in Contents(pg)
<1>1. Contents(pg) \subseteq Nat
  BY ContentsAreKeys, BoundsAssumption
<1>2. Min(Contents(pg)) \in Contents(pg)
  BY <1>1, EntriesAboveMinimum, MinIsLeast
<1> DEFINE rest == Contents(pg) \ {Min(Contents(pg))}
<1>3. pg.kind = "leaf" => Min(rest) \in rest
  BY <1>1, EntriesAboveMinimum, MinIsLeast
<1>4. QED
  BY <1>2, <1>3 DEF LendFirstBoundary

-----------------------------------------------------------------------------
(***************************************************************************)
(* Every page transformation returns a page, and a redirect never loses    *)
(* its target.                                                             *)
(***************************************************************************)
SoundPage == {pg \in PageRec : pg.kind = "redirect" => pg.target # Nil}

LEMMA ConstantFields ==
  /\ NegInf \in Slot /\ PosInf \in 1..(MaxKey + 1)
  /\ Key \subseteq Slot /\ Key \subseteq 1..(MaxKey + 1)
  /\ Nil \in Ref /\ Page \subseteq Ref /\ Nil \notin Page
  /\ NoRecs \in [Key -> Val \cup {NoVal}]
  /\ NoKids \in [Slot -> Ref]
BY BoundsAssumption DEF Nil, Ref, Page, NoRecs, NoKids

HIDE DEF Key, Slot, NegInf, PosInf

LEMMA NewPagesSound ==
  ASSUME NEW left \in Ref, NEW right \in Ref, NEW sep \in Key,
         NEW lvl \in Nat
  PROVE  /\ FreePage \in SoundPage
         /\ LeafRoot \in SoundPage
         /\ RootFromSplit(left, sep, right, lvl) \in SoundPage
<1>1. FreePage \in SoundPage
  BY ConstantFields DEF FreePage, SoundPage, PageRec
<1>2. LeafRoot \in SoundPage
  BY ConstantFields DEF LeafRoot, FreePage, SoundPage, PageRec
<1> DEFINE kids == [NoKids EXCEPT ![NegInf] = left, ![sep] = right]
<1>3. kids \in [Slot -> Ref]
  BY ConstantFields
<1> HIDE DEF kids
<1>4. RootFromSplit(left, sep, right, lvl) =
        [FreePage EXCEPT !.kind = "internal", !.isRoot = TRUE, !.level = lvl,
                         !.kids = kids]
  BY DEF RootFromSplit, kids
<1>5. [FreePage EXCEPT !.kind = "internal", !.isRoot = TRUE, !.level = lvl,
                       !.kids = kids] \in SoundPage
  BY <1>1, <1>3 DEF SoundPage, PageRec
<1>6. QED
  BY <1>1, <1>2, <1>4, <1>5

LEMMA LinksSound ==
  ASSUME NEW pg \in SoundPage, NEW p \in Ref
  PROVE  /\ [pg EXCEPT !.right = p] \in SoundPage
         /\ [pg EXCEPT !.prev = p] \in SoundPage
         /\ [pg EXCEPT !.isRoot = FALSE] \in SoundPage
BY DEF SoundPage, PageRec

LEMMA RecordsSound ==
  ASSUME NEW pg \in SoundPage, NEW k \in Key, NEW v \in Val \cup {NoVal}
  PROVE  [pg EXCEPT !.recs[k] = v] \in SoundPage
BY DEF SoundPage, PageRec

LEMMA ChildrenSound ==
  ASSUME NEW pg \in SoundPage, NEW s \in Slot, NEW p \in Ref
  PROVE  [pg EXCEPT !.kids[s] = p] \in SoundPage
BY DEF SoundPage, PageRec

LEMMA SplitSound ==
  ASSUME NEW pg \in SoundPage, NEW sep \in Key, NEW p \in Ref
  PROVE  /\ SplitLower(pg, sep, p) \in SoundPage
         /\ SplitUpper(pg, sep, p) \in SoundPage
         /\ InstallSplit(pg, sep, p) \in SoundPage
<1>1. pg \in PageRec /\ sep \in Slot
  BY ConstantFields DEF SoundPage
<1>2. SplitLower(pg, sep, p) \in SoundPage
  <2> DEFINE recs == [k \in Key |-> IF k < sep THEN pg.recs[k] ELSE NoVal]
             kids == [s \in Slot |-> IF s < sep THEN pg.kids[s] ELSE Nil]
  <2>1. recs \in [Key -> Val \cup {NoVal}]
    BY <1>1 DEF PageRec
  <2>2. kids \in [Slot -> Ref]
    BY <1>1, ConstantFields DEF PageRec
  <2> HIDE DEF recs, kids
  <2>3. [pg EXCEPT !.recs = recs, !.kids = kids, !.high = sep, !.right = p]
          \in SoundPage
    BY <2>1, <2>2, ConstantFields DEF SoundPage, PageRec
  <2>4. QED
    BY <2>3 DEF SplitLower, recs, kids
<1>3. SplitUpper(pg, sep, p) \in SoundPage
  <2> DEFINE recs == [k \in Key |-> IF k < sep THEN NoVal ELSE pg.recs[k]]
             kids == [s \in Slot |-> IF s = NegInf THEN pg.kids[sep]
                                     ELSE IF s > sep THEN pg.kids[s]
                                     ELSE Nil]
  <2>1. recs \in [Key -> Val \cup {NoVal}]
    BY <1>1 DEF PageRec
  <2>2. kids \in [Slot -> Ref]
    BY <1>1, ConstantFields DEF PageRec
  <2> HIDE DEF recs, kids
  <2>3. [pg EXCEPT !.isRoot = FALSE, !.low = sep, !.prev = p, !.recs = recs,
                   !.kids = kids] \in SoundPage
    BY <1>1, <2>1, <2>2 DEF SoundPage, PageRec
  <2>4. QED
    BY <2>3 DEF SplitUpper, recs, kids
<1>4. InstallSplit(pg, sep, p) \in SoundPage
  BY <1>1, ChildrenSound DEF InstallSplit
<1>5. QED
  BY <1>2, <1>3, <1>4

LEMMA BorrowSound ==
  ASSUME NEW left \in SoundPage, NEW right \in SoundPage,
         NEW sep \in Key, NEW b \in Key
  PROVE  /\ LentLast(left, b) \in SoundPage
         /\ TookLast(left, right, sep, b) \in SoundPage
         /\ TookFirst(left, right, sep, b) \in SoundPage
         /\ LentFirst(right, b) \in SoundPage
         /\ MoveBoundary(left, sep, b) \in SoundPage
<1>1. left \in PageRec /\ right \in PageRec /\ sep \in Slot /\ b \in Slot
      /\ b \in 1..(MaxKey + 1) /\ NoVal \in Val \cup {NoVal}
  BY ConstantFields DEF SoundPage
<1>2. LentLast(left, b) \in SoundPage
  BY <1>1, ConstantFields DEF LentLast, SoundPage, PageRec
<1>3. TookLast(left, right, sep, b) \in SoundPage
  <2> DEFINE recs == [right.recs EXCEPT ![b] = left.recs[b]]
             kids == [right.kids EXCEPT ![sep] = right.kids[NegInf],
                                        ![NegInf] = left.kids[b]]
  <2>1. recs \in [Key -> Val \cup {NoVal}]
    BY <1>1 DEF PageRec
  <2>2. kids \in [Slot -> Ref]
    BY <1>1, ConstantFields DEF PageRec
  <2>3. TookLast(left, right, sep, b) =
          [right EXCEPT !.recs = recs, !.kids = kids, !.low = b]
    BY <1>1 DEF TookLast, PageRec
  <2> HIDE DEF recs, kids
  <2>4. [right EXCEPT !.recs = recs, !.kids = kids, !.low = b] \in SoundPage
    BY <1>1, <2>1, <2>2 DEF SoundPage, PageRec
  <2>5. QED
    BY <2>3, <2>4
<1>4. TookFirst(left, right, sep, b) \in SoundPage
  <2> DEFINE recs == [k \in Key |-> IF sep <= k /\ k < b THEN right.recs[k]
                                                       ELSE left.recs[k]]
             kids == [left.kids EXCEPT ![sep] = right.kids[NegInf]]
  <2>1. recs \in [Key -> Val \cup {NoVal}]
    BY <1>1 DEF PageRec
  <2>2. kids \in [Slot -> Ref]
    BY <1>1, ConstantFields DEF PageRec
  <2>3. TookFirst(left, right, sep, b) =
          [left EXCEPT !.recs = recs, !.kids = kids, !.high = b]
    BY <1>1 DEF TookFirst, PageRec
  <2> HIDE DEF recs, kids
  <2>4. [left EXCEPT !.recs = recs, !.kids = kids, !.high = b] \in SoundPage
    BY <1>1, <2>1, <2>2 DEF SoundPage, PageRec
  <2>5. QED
    BY <2>3, <2>4
<1>5. LentFirst(right, b) \in SoundPage
  <2> DEFINE recs == [k \in Key |-> IF k < b THEN NoVal ELSE right.recs[k]]
             kids == [right.kids EXCEPT ![NegInf] = right.kids[b], ![b] = Nil]
  <2>1. recs \in [Key -> Val \cup {NoVal}]
    BY <1>1 DEF PageRec
  <2>2. kids \in [Slot -> Ref]
    BY <1>1, ConstantFields DEF PageRec
  <2> HIDE DEF recs, kids
  <2>3. [right EXCEPT !.recs = recs, !.kids = kids, !.low = b] \in SoundPage
    BY <1>1, <2>1, <2>2 DEF SoundPage, PageRec
  <2>4. QED
    BY <2>3 DEF LentFirst, recs, kids
<1>6. MoveBoundary(left, sep, b) \in SoundPage
  <2> DEFINE kids == [s \in Slot |-> IF s = b THEN left.kids[sep]
                                     ELSE IF s = sep THEN Nil
                                     ELSE left.kids[s]]
  <2>1. kids \in [Slot -> Ref]
    BY <1>1, ConstantFields DEF PageRec
  <2> HIDE DEF kids
  <2>2. [left EXCEPT !.kids = kids] \in SoundPage
    BY <2>1 DEF SoundPage, PageRec
  <2>3. QED
    BY <2>2 DEF MoveBoundary, kids
<1>7. QED
  BY <1>2, <1>3, <1>4, <1>5, <1>6

LEMMA MergeSound ==
  ASSUME NEW left \in SoundPage, NEW right \in SoundPage,
         NEW sep \in Key, NEW p \in Page
  PROVE  /\ Survivor(left, right, sep) \in SoundPage
         /\ Retired(left, p) \in SoundPage
         /\ DropMerged(left, sep) \in SoundPage
<1>1. left \in PageRec /\ right \in PageRec /\ sep \in Slot
      /\ p \in Ref /\ p # Nil
  BY ConstantFields DEF SoundPage
<1>2. Survivor(left, right, sep) \in SoundPage
  <2> DEFINE recs == [k \in Key |-> IF k < sep THEN left.recs[k]
                                              ELSE right.recs[k]]
             kids == [s \in Slot |-> IF s < sep THEN left.kids[s]
                                     ELSE IF s = sep THEN right.kids[NegInf]
                                     ELSE right.kids[s]]
  <2>1. recs \in [Key -> Val \cup {NoVal}]
    BY <1>1 DEF PageRec
  <2>2. kids \in [Slot -> Ref]
    BY <1>1, ConstantFields DEF PageRec
  <2>3. left.low \in Slot /\ left.prev \in Ref
    BY <1>1 DEF PageRec
  <2> HIDE DEF recs, kids
  <2>4. [right EXCEPT !.recs = recs, !.kids = kids, !.low = left.low,
                      !.prev = left.prev] \in SoundPage
    BY <2>1, <2>2, <2>3 DEF SoundPage, PageRec
  <2>5. QED
    BY <2>4 DEF Survivor, recs, kids
<1>3. Retired(left, p) \in SoundPage
  BY <1>1, ConstantFields DEF Retired, SoundPage, PageRec
<1>4. DropMerged(left, sep) \in SoundPage
  <2> DEFINE s == PrevSlot(left, sep)
  <2>1. s \in Slot
    BY PrevSlotExists, ContentsAreKeys, ConstantFields
  <2> HIDE DEF s
  <2>2. left.kids[sep] \in Ref /\ Nil \in Ref
    BY <1>1, ConstantFields DEF PageRec
  <2>3. [left EXCEPT !.kids[s] = left.kids[sep], !.kids[sep] = Nil] \in SoundPage
    BY <1>1, <2>1, <2>2 DEF SoundPage, PageRec
  <2>4. QED
    BY <2>3 DEF DropMerged, s
<1>5. QED
  BY <1>2, <1>3, <1>4

LEMMA CollapseSound ==
  ASSUME NEW pg \in SoundPage, NEW p \in Page
  PROVE  /\ PromotedChild(pg) \in SoundPage
         /\ CollapsedRoot(pg, p) \in SoundPage
<1>1. PromotedChild(pg) \in SoundPage
  BY ConstantFields DEF PromotedChild, SoundPage, PageRec
<1>2. CollapsedRoot(pg, p) \in SoundPage
  BY ConstantFields DEF CollapsedRoot, SoundPage, PageRec
<1>3. QED
  BY <1>1, <1>2

-----------------------------------------------------------------------------
(***************************************************************************)
(* Type correctness.  TypeOK alone is not inductive: DropGuard reads and   *)
(* writes the page behind the guard without asking whether it exists, so   *)
(* the invariant has to say that a guard stands on a page.                 *)
(***************************************************************************)
\* Some threads may scan (BLinkScan); a cursor's labels are typed here as well,
\* so that what follows holds among scanners, too.
Label == PC \cup {"edge_root", "edge", "edge_leaf", "walk", "item"}

ThreadsTyped ==
  /\ pc     \in [Thread -> Label]
  /\ call   \in [Thread -> Call]
  /\ node   \in [Thread -> Ref]
  /\ next   \in [Thread -> Ref]
  /\ fix    \in [Thread -> FixRec]
  /\ latch  \in [Thread -> LatchRec]
  /\ result \in [Thread -> Val \cup {NoVal}]
  /\ filled \in Progress
  /\ made   \in [Thread -> Nat]

TreeTyped == /\ page \in [Page -> SoundPage]
             /\ root \in Page
             /\ len  \in Int

TypeInv == TreeTyped /\ ThreadsTyped /\ GuardLatched

Labelled == pc \in [Thread -> PC]

LEMMA TypeOKSplits == TypeOK <=> TreeTyped /\ ThreadsTyped /\ Labelled
<1>1. page \in [Page -> SoundPage] <=>
        /\ page \in [Page -> PageRec]
        /\ \A p \in Page : page[p].kind = "redirect" => page[p].target # Nil
  BY DEF SoundPage
<1>2. QED
  BY <1>1 DEF TypeOK, TreeTyped, ThreadsTyped, Labelled, Label

LEMMA ThreadRecords ==
  /\ NoFix \in FixRec /\ NoLatch \in LatchRec
  /\ \A p \in Ref : \A mode \in {"read", "write"} :
       [page |-> p, mode |-> mode] \in LatchRec
  /\ \A c, r, s \in Ref : [cursor |-> c, retired |-> r, survivor |-> s] \in FixRec
  /\ \A f \in FixRec : /\ f.cursor \in Ref /\ f.retired \in Ref
                       /\ f.survivor \in Ref
                       /\ \A p \in Ref : /\ [f EXCEPT !.cursor = p] \in FixRec
                                         /\ [f EXCEPT !.survivor = p] \in FixRec
BY ConstantFields DEF NoFix, NoLatch, FixRec, LatchRec

LEMMA Labels ==
  \A label \in {"idle", "root", "seek", "latch", "guard", "split_root", "ins_root",
               "ins", "fix_split", "fix_succ", "shrink", "del_root", "del",
               "fix_start", "fix_walk", "join_retired", "join_survivor", "peek",
               "join_peeked", "fix_none", "count", "count_slow", "shrink_end",
               "done"} : label \in Label
BY DEF Label, PC

LEMMA InitTyped == Init => TypeInv
<1> SUFFICES ASSUME Init PROVE TypeInv
  OBVIOUS
<1>1. 1 \in Page /\ FreePage \in SoundPage /\ LeafRoot \in SoundPage
      /\ Nil \in Ref
  <2>1. 1 \in Page
    BY BoundsAssumption DEF Page
  <2>2. 1 \in Key /\ Nil \in Ref
    BY WorkloadAssumption, BoundsAssumption, ConstantFields DEF Key
  <2>3. QED
    BY <2>1, <2>2, NewPagesSound
<1>2. TreeTyped
  BY <1>1 DEF Init, TreeTyped
<1>3. (CHOOSE c \in Call : TRUE) \in Call
  <2>1. 1 \in Key
    BY WorkloadAssumption, BoundsAssumption DEF Key
  <2>2. PICK v \in Val : TRUE
    BY WorkloadAssumption
  <2>3. [op |-> "get", key |-> 1, val |-> v] \in Call
    BY <2>1 DEF Call, Op
  <2>4. QED
    BY <2>3
<1>4. [scene : Scene, calls : {0}] \subseteq Progress
  BY WorkloadAssumption DEF Progress
<1>5. ThreadsTyped
  BY <1>1, <1>3, <1>4, ThreadRecords, Labels DEF Init, ThreadsTyped, PC
<1>6. GuardLatched
  BY DEF Init, GuardLatched
<1>7. QED
  BY <1>2, <1>5, <1>6 DEF TypeInv

\* The critical sections that change no page.
LEMMA MovesTyped ==
  ASSUME TypeInv, NEW t \in Thread,
         \/ Start(t) \/ Return(t) \/ ReadRoot(t) \/ Seek(t)
         \/ Relatch(t) \/ FastUpdate(t) \/ Count(t)
         \/ AttemptRoot(t) \/ AttemptRight(t)
         \/ InsertRetry(t) \/ InsertDown(t) \/ FixSplit(t)
         \/ RemoveRetry(t) \/ RemoveDown(t) \/ FixStart(t) \/ WalkBack(t)
  PROVE  TreeTyped' /\ ThreadsTyped'
<1> USE DEF TypeInv, TreeTyped, ThreadsTyped
<1>1. Nil \in Ref /\ Page \subseteq Ref /\ Nil \notin Page
  BY ConstantFields
<1>2. \A p \in Page : /\ page[p].right \in Ref /\ page[p].target \in Ref
                      /\ page[p].prev \in Ref
                      /\ \A k \in Key : page[p].recs[k] \in Val \cup {NoVal}
                      /\ \A s \in Slot : page[p].kids[s] \in Ref
  BY DEF SoundPage, PageRec
<1>3. \A p \in Page : Onward(page[p]) \in Ref
  BY <1>2 DEF Onward
<1>4. \A p \in Page : \A k : Child(page[p], k) \in Ref
  BY <1>2, ChildSlotExists, ContentsAreKeys, ConstantFields DEF Child
<1>5. call[t].key \in Key /\ call[t].val \in Val
  BY DEF Call
<1> USE <1>1, ThreadRecords, Labels
    DEF tree, threads, GoTo, Visit, Retry, Hold, Release, Answer
<1>6. CASE Start(t)
  <2>1. MayCall(t) \subseteq Call
    <3>1. filled.scene \in Scene /\ filled.calls \in Nat
          /\ filled.calls <= Len(Prefill[filled.scene])
      BY DEF Progress
    <3>2. CASE Filled
      <4> DEFINE script == Script[filled.scene][t]
      <4>1. script \in Seq(SUBSET Call) /\ made[t] \in Nat
        BY <3>1, WorkloadAssumption
      <4>2. MayCall(t) = IF made[t] < Len(script) THEN script[made[t] + 1] ELSE {}
        BY <3>2 DEF MayCall
      <4> QED
        BY <4>1, <4>2
    <3>3. CASE ~Filled
      <4> DEFINE prefill == Prefill[filled.scene]
      <4>1. prefill \in Seq(Call)
        BY <3>1, WorkloadAssumption
      <4>2. filled.calls < Len(prefill)
        BY <3>1, <3>3, <4>1 DEF Filled
      <4>3. prefill[filled.calls + 1] \in Call
        BY <3>1, <4>1, <4>2
      <4> QED
        BY <3>3, <4>3 DEF MayCall
    <3>4. QED
      BY <3>2, <3>3
  <2>2. QED
    BY <1>6, <2>1 DEF Start
<1>7. CASE Return(t)
  <2>1. filled' \in Progress
    <3>1. CASE Filled
      BY <1>7, <3>1 DEF Return
    <3>2. CASE ~Filled
      <4>1. filled' = [filled EXCEPT !.calls = filled.calls + 1]
        BY <1>7, <3>2 DEF Return
      <4>2. \A s \in Scene : Len(Prefill[s]) \in Nat
        BY WorkloadAssumption
      <4>3. filled \in [scene : Scene, calls : Nat]
            /\ filled.calls < Len(Prefill[filled.scene])
        BY <3>2, <4>2 DEF Progress, Filled
      <4>4. /\ filled' \in [scene : Scene, calls : Nat]
            /\ filled'.scene = filled.scene /\ filled'.calls = filled.calls + 1
        <5> DEFINE more == filled.calls + 1
        <5>1. more \in Nat
          BY <4>3
        <5>2. filled' = [filled EXCEPT !.calls = more]
          BY <4>1
        <5> HIDE DEF more
        <5>3. /\ filled' \in [scene : Scene, calls : Nat]
              /\ filled'.scene = filled.scene /\ filled'.calls = more
          BY <5>1, <5>2, <4>3
        <5> QED
          BY <5>3 DEF more
      <4>5. filled.scene \in Scene /\ Len(Prefill[filled.scene]) \in Nat
            /\ filled.calls \in Nat
        BY <4>2, <4>3
      <4>6. filled'.calls <= Len(Prefill[filled'.scene])
        BY <4>3, <4>4, <4>5
      <4>7. QED
        BY <4>4, <4>6 DEF Progress
    <3>3. QED
      BY <3>1, <3>2
  <2>2. QED
    BY <1>7, <2>1 DEF Return
<1>8. CASE ReadRoot(t)
  BY <1>8 DEF ReadRoot
<1>9. CASE Seek(t)
  <2> USE DEF Seeks, ReadFree
  <2>1. CASE SeekRestart(t)
    BY <2>1 DEF SeekRestart
  <2>2. CASE SeekRight(t)
    BY <2>2, <1>3 DEF SeekRight
  <2>3. CASE SeekDown(t)
    BY <2>3, <1>4 DEF SeekDown
  <2>4. CASE SeekGet(t)
    <3> DEFINE found == page[node[t]].recs[call[t].key]
    <3>1. node[t] \in Page /\ found \in Val \cup {NoVal}
      BY <2>4, <1>2, <1>5 DEF SeekGet
    <3>2. CASE found = NoVal
      BY <2>4, <3>1, <3>2 DEF SeekGet
    <3>3. CASE found # NoVal
      <4>1. /\ pc' = [pc EXCEPT ![t] = "guard"]
            /\ latch' = [latch EXCEPT ![t] = [page |-> node[t], mode |-> "read"]]
            /\ result' = [result EXCEPT ![t] = found]
            /\ UNCHANGED <<page, root, len, call, node, next, fix, filled, made>>
        BY <2>4, <3>3 DEF SeekGet
      <4>2. latch' \in [Thread -> LatchRec]
        BY <3>1, <4>1
      <4>3. result' \in [Thread -> Val \cup {NoVal}] /\ pc' \in [Thread -> Label]
        BY <3>1, <4>1
      <4>4. QED
        BY <4>1, <4>2, <4>3
    <3>4. QED
      BY <3>2, <3>3
  <2>5. CASE SeekWriter(t)
    BY <2>5 DEF SeekWriter
  <2>6. QED
    BY <1>9, <2>1, <2>2, <2>3, <2>4, <2>5 DEF Seek
<1>10. CASE Relatch(t)
  BY <1>10 DEF Relatch
<1>11. CASE FastUpdate(t)
  <2> USE DEF FastUpdate, Latched, WriteFree
  <2>1. CASE page[node[t]].recs[call[t].key] = NoVal
    <3>1. /\ pc' = [pc EXCEPT ![t] = "done"]
          /\ node' = [node EXCEPT ![t] = Nil]
          /\ UNCHANGED <<page, root, len, call, next, fix, latch, result, filled, made>>
      BY <1>11, <2>1
    <3>2. QED
      BY <3>1
  <2>2. CASE page[node[t]].recs[call[t].key] # NoVal
    <3>1. /\ pc' = [pc EXCEPT ![t] = "guard"]
          /\ latch' = [latch EXCEPT ![t] = [page |-> node[t], mode |-> "write"]]
          /\ UNCHANGED <<page, root, len, call, node, next, fix, result, filled, made>>
      BY <1>11, <2>2
    <3>2. latch' \in [Thread -> LatchRec]
      BY <3>1
    <3>3. pc' \in [Thread -> Label]
      BY <3>1
    <3>4. QED
      BY <3>1, <3>2, <3>3
  <2>3. QED
    BY <2>1, <2>2
<1>12. CASE Count(t)
  BY <1>12 DEF Count
<1>13. CASE AttemptRoot(t)
  BY <1>13, ZenonT(40) DEF AttemptRoot
<1>14. CASE AttemptRight(t)
  BY <1>14, <1>3 DEF AttemptRight, Attempts, WriteFree
<1>15. CASE InsertRetry(t)
  BY <1>15 DEF InsertRetry
<1>16. CASE InsertDown(t)
  BY <1>16 DEF InsertDown, InsertDescends, WriteFree
<1>17. CASE FixSplit(t)
  <2> DEFINE moved == \/ page[fix[t].cursor].kind = "redirect"
                      \/ page[fix[t].cursor].right # fix[t].survivor
  <2>1. CASE moved
    <3>1. /\ pc' = [pc EXCEPT ![t] = "ins"]
          /\ node' = [node EXCEPT ![t] = next[t]]
          /\ next' = [next EXCEPT ![t] = Nil]
          /\ fix' = [fix EXCEPT ![t] = NoFix]
          /\ UNCHANGED <<page, root, len, call, latch, result, filled, made>>
      BY <1>17, <2>1 DEF FixSplit, Resume
    <3>2. QED
      BY <3>1
  <2>2. CASE ~moved
    <3>1. /\ pc' = [pc EXCEPT ![t] = "fix_succ"]
          /\ latch' = [latch EXCEPT ![t] = [page |-> fix[t].cursor,
                                            mode |-> "write"]]
          /\ UNCHANGED <<page, root, len, call, node, next, fix, result, filled, made>>
      BY <1>17, <2>2 DEF FixSplit
    <3>2. latch' \in [Thread -> LatchRec]
      BY <3>1
    <3>3. QED
      BY <3>1, <3>2
  <2>3. QED
    BY <2>1, <2>2
<1>18. CASE RemoveRetry(t)
  BY <1>18 DEF RemoveRetry
<1>19. CASE RemoveDown(t)
  <2>1. ChildOf(t) \in Ref
    BY <1>19, <1>4 DEF RemoveDown, RemoveDescends, Attempts, WriteFree, ChildOf
  <2>2. QED
    BY <1>19, <2>1 DEF RemoveDown
<1>20. CASE FixStart(t)
  <2>1. CASE Upgrades(fix[t].cursor)
    <3>1. /\ pc' = [pc EXCEPT ![t] = "fix_walk"]
          /\ UNCHANGED <<page, root, len, call, node, next, fix, latch, result, filled, made>>
      BY <1>20, <2>1 DEF FixStart
    <3>2. QED
      BY <3>1
  <2>2. CASE ~Upgrades(fix[t].cursor)
    <3>1. /\ pc' = [pc EXCEPT ![t] = "fix_none"]
          /\ fix' = [fix EXCEPT ![t].cursor = Nil]
          /\ UNCHANGED <<page, root, len, call, node, next, latch, result, filled, made>>
      BY <1>20, <2>2 DEF FixStart, WalkFrom
    <3>2. fix' \in [Thread -> FixRec]
      BY <3>1
    <3>3. QED
      BY <3>1, <3>2
  <2>3. QED
    BY <2>1, <2>2
<1>21. CASE WalkBack(t)
  BY <1>21, <1>2 DEF WalkBack, WalkFrom, WriteFree
<1>22. QED
  BY <1>6, <1>7, <1>8, <1>9, <1>10, <1>11, <1>12, <1>13, <1>14, <1>15, <1>16,
     <1>17, <1>18, <1>19, <1>20, <1>21

\* The critical sections that change a record.
LEMMA RecordStepsTyped ==
  ASSUME TypeInv, NEW t \in Thread,
         DropGuard(t) \/ FastInsert(t) \/ InsertHere(t) \/ FastRemove(t)
           \/ RemoveHere(t)
  PROVE  TreeTyped' /\ ThreadsTyped'
<1> DEFINE k == call[t].key
           p == node[t]
           old == page[p].recs[k]
<1> USE DEF TypeInv, TreeTyped, ThreadsTyped
<1>1. Nil \in Ref /\ Page \subseteq Ref
  BY ConstantFields
<1>2. k \in Key /\ call[t].val \in Val
  BY DEF Call
<1>3. p \in Page
  <2>1. CASE DropGuard(t)
    BY <2>1 DEF DropGuard, GuardLatched
  <2>2. CASE FastInsert(t) \/ FastRemove(t)
    BY <2>2 DEF FastInsert, FastRemove, Latched, WriteFree
  <2>3. CASE InsertHere(t) \/ RemoveHere(t)
    BY <2>3 DEF InsertHere, RemoveHere, Attempts, WriteFree
  <2>4. QED
    BY <2>1, <2>2, <2>3
<1>4. old \in Val \cup {NoVal}
  BY <1>2, <1>3 DEF SoundPage, PageRec
<1>5. \A v \in Val \cup {NoVal} :
        [page EXCEPT ![p].recs[k] = v] \in [Page -> SoundPage]
  <2> TAKE v \in Val \cup {NoVal}
  <2>1. [page[p] EXCEPT !.recs[k] = v] \in SoundPage
    BY <1>2, <1>3, RecordsSound
  <2>2. [page EXCEPT ![p].recs[k] = v] =
          [page EXCEPT ![p] = [page[p] EXCEPT !.recs[k] = v]]
    OBVIOUS
  <2>3. QED
    BY <2>1, <2>2
<1>6. UNCHANGED <<root, len, call, next, fix, filled, made>>
  BY DEF DropGuard, FastInsert, InsertHere, FastRemove, RemoveHere
<1> DEFINE labels == {"done", "count", "split_root", "shrink", "count_slow",
                      "shrink_end"}
           latches == {NoLatch, [page |-> p, mode |-> "write"]}
           records == {call[t].val, NoVal}
<1>7. /\ page' = page \/ \E v \in records : page' = [page EXCEPT ![p].recs[k] = v]
      /\ result' = result \/ result' = [result EXCEPT ![t] = old]
      /\ \E label \in labels : pc' = [pc EXCEPT ![t] = label]
      /\ latch' = latch \/ \E l \in latches : latch' = [latch EXCEPT ![t] = l]
      /\ node' = node \/ node' = [node EXCEPT ![t] = Nil]
  <2> USE DEF GoTo, Visit, Retry, Hold, Release, Answer, StoreRecord, EraseRecord
  <2>1. CASE DropGuard(t)
    BY <2>1 DEF DropGuard
  <2>2. CASE FastInsert(t)
    BY <2>2 DEF FastInsert
  <2>3. CASE InsertHere(t)
    BY <2>3 DEF InsertHere
  <2>4. CASE FastRemove(t)
    BY <2>4 DEF FastRemove
  <2>5. CASE RemoveHere(t)
    BY <2>5 DEF RemoveHere
  <2>6. QED
    BY <2>1, <2>2, <2>3, <2>4, <2>5
<1> HIDE DEF k, p, old
<1>8. page' \in [Page -> SoundPage]
  <2>1. records \subseteq Val \cup {NoVal}
    BY <1>2
  <2>2. CASE page' = page
    BY <2>2
  <2>3. ASSUME NEW v \in records, page' = [page EXCEPT ![p].recs[k] = v]
        PROVE  page' \in [Page -> SoundPage]
    BY <2>1, <2>3, <1>5, Zenon
  <2>4. QED
    BY <1>7, <2>2, <2>3
<1>9. result' \in [Thread -> Val \cup {NoVal}]
  BY <1>4, <1>7
<1>10. pc' \in [Thread -> Label]
  BY <1>7, Labels
<1>11. latch' \in [Thread -> LatchRec]
  <2>1. latches \subseteq LatchRec
    BY <1>1, <1>3, ThreadRecords
  <2> HIDE DEF latches
  <2>2. QED
    BY <2>1, <1>7
<1>12. node' \in [Thread -> Ref]
  BY <1>1, <1>7
<1>13. QED
  BY <1>6, <1>8, <1>9, <1>10, <1>11, <1>12, WorkloadAssumption

\* Up to three pages change in one critical section.
LEMMA PagesPut ==
  ASSUME NEW f \in [Page -> SoundPage], NEW a, NEW b, NEW c,
         NEW A \in SoundPage, NEW B \in SoundPage, NEW C \in SoundPage
  PROVE  /\ [f EXCEPT ![a] = A] \in [Page -> SoundPage]
         /\ [f EXCEPT ![a] = A, ![b] = B] \in [Page -> SoundPage]
         /\ [f EXCEPT ![a] = A, ![b] = B, ![c] = C] \in [Page -> SoundPage]
OBVIOUS

\* There is a page for Arc::new as long as one is unallocated, and a second one
\* as long as two are.
LEMMA NewPagesExist ==
  /\ Unallocated # {} => FirstNew \in Unallocated
  /\ Cardinality(Unallocated) >= 2 =>
       /\ FirstNew \in Unallocated /\ SecondNew \in Unallocated
       /\ FirstNew # SecondNew
<1>1. Unallocated \subseteq Nat
  BY BoundsAssumption DEF Unallocated, Page
<1>2. Unallocated # {} => FirstNew \in Unallocated
  BY <1>1, MinIsLeast DEF FirstNew
<1>3. ASSUME Cardinality(Unallocated) >= 2
      PROVE  /\ FirstNew \in Unallocated /\ SecondNew \in Unallocated
             /\ FirstNew # SecondNew
  <2> DEFINE rest == Unallocated \ {FirstNew}
  <2>1. Unallocated # {}
    BY <1>3, FS_EmptySet
  <2>2. rest # {}
    <3>1. Unallocated # {FirstNew}
      BY <1>3, FS_Singleton
    <3>2. QED
      BY <2>1, <3>1
  <2>3. Min(rest) \in rest
    BY <1>1, <2>2, MinIsLeast
  <2>4. QED
    BY <1>2, <2>1, <2>3 DEF SecondNew
<1>4. QED
  BY <1>2, <1>3

LEMMA SplitRootTyped ==
  ASSUME TypeInv, NEW t \in Thread, SplitRoot(t)
  PROVE  TreeTyped' /\ ThreadsTyped'
<1> USE DEF TypeInv, TreeTyped, ThreadsTyped
<1>1. page' \in [Page -> SoundPage] /\ root' \in Page
  <2>1. CASE ~Full(page[root])
    BY <2>1 DEF SplitRoot
  <2>2. CASE Full(page[root])
    <3> DEFINE old   == page[root]
               sep   == SplitKey(old)
               lower == [SplitLower(old, sep, FirstNew) EXCEPT !.isRoot = FALSE]
               upper == SplitUpper(old, sep, root)
               top   == RootFromSplit(root, sep, FirstNew, old.level + 1)
    <3>1. /\ page' = [page EXCEPT ![root] = lower, ![FirstNew] = upper,
                                  ![SecondNew] = top]
          /\ root' = SecondNew
          /\ Cardinality(Unallocated) >= 2
      BY <2>2 DEF SplitRoot
    <3>2. FirstNew \in Page /\ SecondNew \in Page
      BY <3>1, NewPagesExist DEF Unallocated
    <3>3. old \in SoundPage /\ root \in Ref /\ FirstNew \in Ref
          /\ old.level + 1 \in Nat
      BY <3>2, ConstantFields DEF SoundPage, PageRec
    <3>4. sep \in Key
      BY <2>2, SplitKeyExists, ContentsAreKeys
    <3> HIDE DEF sep, old
    <3>5. lower \in SoundPage /\ upper \in SoundPage /\ top \in SoundPage
      BY <3>3, <3>4, SplitSound, LinksSound, NewPagesSound
    <3> HIDE DEF lower, upper, top
    <3>6. QED
      BY <3>1, <3>2, <3>5, PagesPut
  <2>3. QED
    BY <2>1, <2>2
<1>2. QED
  BY <1>1, Labels, WorkloadAssumption DEF SplitRoot, GoTo

LEMMA SplitChildTyped ==
  ASSUME TypeInv, NEW t \in Thread, SplitChild(t)
  PROVE  TreeTyped' /\ ThreadsTyped'
<1> USE DEF TypeInv, TreeTyped, ThreadsTyped
<1> DEFINE child  == ChildOf(t)
           old    == page[child]
           sep    == SplitKey(old)
           target == IF call[t].key >= sep THEN FirstNew ELSE child
<1>1. node[t] \in Page /\ child \in Page /\ FirstNew \in Page /\ Full(old)
  BY NewPagesExist
     DEF SplitChild, InsertDescends, Attempts, WriteFree, Unallocated
<1>2. sep \in Key
  BY <1>1, SplitKeyExists, ContentsAreKeys
<1>3. page' \in [Page -> SoundPage]
  <2> DEFINE lower  == SplitLower(old, sep, FirstNew)
             upper  == SplitUpper(old, sep, child)
             parent == InstallSplit(page[node[t]], sep, FirstNew)
  <2>1. page' = [page EXCEPT ![child] = lower, ![FirstNew] = upper,
                             ![node[t]] = parent]
    BY DEF SplitChild
  <2> HIDE DEF child, sep
  <2>2. lower \in SoundPage /\ upper \in SoundPage /\ parent \in SoundPage
    BY <1>1, <1>2, SplitSound, ConstantFields
  <2> HIDE DEF lower, upper, parent
  <2>3. QED
    BY <2>1, <2>2, PagesPut
<1>4. target \in Ref /\ child \in Ref /\ FirstNew \in Ref /\ old.right \in Ref
  BY <1>1, ConstantFields DEF SoundPage, PageRec
<1>5. UNCHANGED <<root, len, call, latch, result, filled, made>>
  BY DEF SplitChild
<1>6. \/ /\ node' = [node EXCEPT ![t] = target]
         /\ UNCHANGED <<pc, next, fix>>
      \/ /\ pc' = [pc EXCEPT ![t] = "fix_split"]
         /\ next' = [next EXCEPT ![t] = target]
         /\ fix' = [fix EXCEPT ![t] = [cursor |-> FirstNew, retired |-> child,
                                       survivor |-> old.right]]
         /\ UNCHANGED node
  BY DEF SplitChild, GoTo, Visit
<1> HIDE DEF target, child, old
<1>7. [cursor |-> FirstNew, retired |-> child, survivor |-> old.right] \in FixRec
  BY <1>4, ThreadRecords
<1>8. fix' \in [Thread -> FixRec]
  BY <1>6, <1>7
<1>9. node' \in [Thread -> Ref] /\ next' \in [Thread -> Ref]
      /\ pc' \in [Thread -> Label]
  BY <1>4, <1>6, Labels
<1>10. QED
  BY <1>3, <1>5, <1>8, <1>9, WorkloadAssumption

\* The page a link repair has latched, and the one it waits for, change links.
LEMMA RepairStepsTyped ==
  ASSUME TypeInv, NEW t \in Thread,
         FixSuccessor(t) \/ FixNone(t) \/ WalkOn(t) \/ Peek(t) \/ Join(t)
  PROVE  TreeTyped' /\ ThreadsTyped'
<1> USE DEF TypeInv, TreeTyped, ThreadsTyped
<1> DEFINE cur   == fix[t].cursor
           surv  == fix[t].survivor
           right == page[cur].right
<1>1. Nil \in Ref /\ cur \in Ref /\ surv \in Ref /\ next[t] \in Ref
  BY ConstantFields, ThreadRecords
<1>2. \A p \in Page : page[p].right \in Ref /\ page[p].target \in Ref
  BY DEF SoundPage, PageRec
<1>3. \A p, q \in Ref : /\ [page EXCEPT ![p].right = q] \in [Page -> SoundPage]
                        /\ [page EXCEPT ![p].prev = q] \in [Page -> SoundPage]
  <2> SUFFICES ASSUME NEW p \in Ref, NEW q \in Ref
               PROVE  /\ [page EXCEPT ![p].right = q] \in [Page -> SoundPage]
                      /\ [page EXCEPT ![p].prev = q] \in [Page -> SoundPage]
    OBVIOUS
  <2>1. CASE p \in Page
    <3>1. /\ [page[p] EXCEPT !.right = q] \in SoundPage
          /\ [page[p] EXCEPT !.prev = q] \in SoundPage
      BY <2>1, LinksSound
    <3>2. /\ [page EXCEPT ![p].right = q] =
               [page EXCEPT ![p] = [page[p] EXCEPT !.right = q]]
          /\ [page EXCEPT ![p].prev = q] =
               [page EXCEPT ![p] = [page[p] EXCEPT !.prev = q]]
      OBVIOUS
    <3>3. QED
      BY <3>1, <3>2
  <2>2. CASE p \notin Page
    BY <2>2
  <2>3. QED
    BY <2>1, <2>2
<1>4. UNCHANGED <<root, len, call, result, filled, made>>
  BY DEF FixSuccessor, FixNone, WalkOn, Peek, Join
<1> DEFINE labels  == {"ins", "del", "fix_walk", "fix_none", "join_retired",
                       "join_survivor", "join_peeked", "peek"}
           latches == {NoLatch, [page |-> cur, mode |-> "write"]}
           fixes   == {NoFix} \cup {[fix[t] EXCEPT !.cursor = q] : q \in Ref}
                              \cup {[fix[t] EXCEPT !.survivor = q] : q \in Ref}
<1>5. /\ \/ page' = page
         \/ \E p, q \in Ref : \/ page' = [page EXCEPT ![p].right = q]
                               \/ page' = [page EXCEPT ![p].prev = q]
      /\ pc' = pc \/ \E label \in labels : pc' = [pc EXCEPT ![t] = label]
      /\ latch' = latch \/ \E l \in latches : latch' = [latch EXCEPT ![t] = l]
      /\ node' = node \/ node' = [node EXCEPT ![t] = next[t]]
      /\ next' = next \/ next' = [next EXCEPT ![t] = Nil]
      /\ fix' = fix \/ \E f \in fixes : fix' = [fix EXCEPT ![t] = f]
  <2> USE <1>1, <1>2 DEF GoTo, Visit, Hold, Release, Resume, WalkFrom, WriteFree,
                         ReadFree
  <2>1. CASE FixSuccessor(t)
    BY <2>1, SMTT(30) DEF FixSuccessor
  <2>2. CASE FixNone(t)
    BY <2>2 DEF FixNone
  <2>3. CASE WalkOn(t)
    <3>1. CASE right = Nil
      BY <2>3, <3>1 DEF WalkOn
    <3>2. CASE right # Nil /\ right = fix[t].retired
      BY <2>3, <3>2 DEF WalkOn
    <3>3. CASE right # Nil /\ right # fix[t].retired /\ right = surv
      BY <2>3, <3>3 DEF WalkOn
    <3>4. CASE right # Nil /\ right # fix[t].retired /\ right # surv
      BY <2>3, <3>4 DEF WalkOn
    <3>5. QED
      BY <3>1, <3>2, <3>3, <3>4
  <2>4. CASE Peek(t)
    <3> DEFINE target == page[right].target
    <3>1. right \in Ref /\ target \in Ref
      BY <2>4, ConstantFields DEF Peek
    <3>2. CASE page[right].kind = "redirect"
      <4>1. /\ page' = [page EXCEPT ![cur].right = target]
            /\ UNCHANGED <<fix, node, next>>
        BY <2>4, <3>2 DEF Peek
      <4>2. \/ /\ pc' = [pc EXCEPT ![t] = "join_peeked"]
               /\ UNCHANGED latch
            \/ /\ pc' = [pc EXCEPT ![t] = "fix_walk"]
               /\ latch' = [latch EXCEPT ![t] = NoLatch]
        BY <2>4, <3>2 DEF Peek
      <4>3. page' = page \/ \E p, q \in Ref : page' = [page EXCEPT ![p].right = q]
        BY <3>1, <4>1
      <4> HIDE DEF fixes
      <4>4. QED
        BY <4>1, <4>2, <4>3
    <3>3. CASE page[right].kind # "redirect"
      <4>1. /\ fix' = [fix EXCEPT ![t].cursor = right]
            /\ pc' = [pc EXCEPT ![t] = "fix_walk"]
            /\ latch' = [latch EXCEPT ![t] = NoLatch]
            /\ UNCHANGED <<page, node, next>>
        BY <2>4, <3>3 DEF Peek
      <4>2. \E f \in fixes : fix' = [fix EXCEPT ![t] = f]
        BY <3>1, <4>1
      <4> HIDE DEF fixes
      <4>3. QED
        BY <4>1, <4>2
    <3>4. QED
      BY <3>2, <3>3
  <2>5. CASE Join(t)
    <3> DEFINE target == page[surv].target
    <3>1. target \in Ref
      BY <2>5 DEF Join
    <3>2. CASE page[surv].kind # "redirect"
      BY <2>5, <3>2 DEF Join
    <3>3. CASE page[surv].kind = "redirect"
      <4>1. page' = page \/ page' = [page EXCEPT ![cur].right = target]
        BY <2>5, <3>3 DEF Join
      <4>2. /\ pc' = [pc EXCEPT ![t] = "fix_walk"]
            /\ latch' = [latch EXCEPT ![t] = NoLatch]
            /\ UNCHANGED <<node, next>>
        BY <2>5, <3>3 DEF Join
      <4>3. \/ fix' = [fix EXCEPT ![t].cursor = target]
            \/ fix' = [fix EXCEPT ![t].cursor = cur]
        BY <2>5, <3>3 DEF Join
      <4>4. \E f \in fixes : fix' = [fix EXCEPT ![t] = f]
        <5>1. \E q \in Ref : fix' = [fix EXCEPT ![t] = [fix[t] EXCEPT !.cursor = q]]
          BY <3>1, <4>3
        <5>2. QED
          BY <5>1, Zenon
      <4>5. page' = page \/ \E p, q \in Ref : page' = [page EXCEPT ![p].right = q]
        BY <3>1, <4>1
      <4> HIDE DEF fixes
      <4>6. QED
        BY <4>2, <4>4, <4>5
    <3>4. QED
      BY <3>2, <3>3
  <2>6. QED
    BY <2>1, <2>2, <2>3, <2>4, <2>5
<1>6. page' \in [Page -> SoundPage]
  <2>1. CASE page' = page
    BY <2>1
  <2>2. ASSUME NEW p \in Ref, NEW q \in Ref,
               \/ page' = [page EXCEPT ![p].right = q]
               \/ page' = [page EXCEPT ![p].prev = q]
        PROVE  page' \in [Page -> SoundPage]
    <3>1. /\ [page EXCEPT ![p].right = q] \in [Page -> SoundPage]
          /\ [page EXCEPT ![p].prev = q] \in [Page -> SoundPage]
      BY <1>3
    <3>2. QED
      BY <2>2, <3>1, Zenon
  <2>3. QED
    BY <1>5, <2>1, <2>2, Zenon
<1>7. pc' \in [Thread -> Label]
  <2>1. labels \subseteq Label
    BY Labels
  <2> HIDE DEF labels
  <2>2. QED
    BY <2>1, <1>5
<1>8. latch' \in [Thread -> LatchRec]
  <2>1. latches \subseteq LatchRec
    BY <1>1, ThreadRecords
  <2> HIDE DEF latches
  <2>2. QED
    BY <2>1, <1>5
<1>9. fix' \in [Thread -> FixRec]
  <2>1. fixes \subseteq FixRec
    <3>1. fix[t] \in FixRec
      OBVIOUS
    <3>2. QED
      BY <3>1, ThreadRecords, ZenonT(40)
  <2> HIDE DEF fixes
  <2>2. QED
    BY <2>1, <1>5
<1>10. node' \in [Thread -> Ref]
  <2>1. node' = node \/ node' = [node EXCEPT ![t] = next[t]]
    BY <1>5
  <2>2. QED
    BY <1>1, <2>1
<1>11. next' \in [Thread -> Ref]
  <2>1. next' = next \/ next' = [next EXCEPT ![t] = Nil]
    BY <1>5
  <2>2. QED
    BY <1>1, <2>1
<1>12. QED
  BY <1>4, <1>6, <1>7, <1>8, <1>9, <1>10, <1>11, WorkloadAssumption

LEMMA ShrinkTyped ==
  ASSUME TypeInv, NEW t \in Thread, Shrink(t)
  PROVE  TreeTyped' /\ ThreadsTyped'
<1> USE DEF TypeInv, TreeTyped, ThreadsTyped
<1> DEFINE child == page[root].kids[NegInf]
           empty == page[root].kind = "internal" /\ Separators(page[root]) = {}
<1>1. page' \in [Page -> SoundPage] /\ root' \in Page /\ pc' \in [Thread -> Label]
  <2>1. CASE empty
    <3>1. /\ child \in Page
          /\ page' = [page EXCEPT ![child] = PromotedChild(page[child]),
                                  ![root] = CollapsedRoot(page[root], child)]
          /\ root' = child
          /\ UNCHANGED pc
      BY <2>1 DEF Shrink, WriteFree
    <3> HIDE DEF child
    <3>2. /\ PromotedChild(page[child]) \in SoundPage
          /\ CollapsedRoot(page[root], child) \in SoundPage
      BY <3>1, CollapseSound
    <3>3. QED
      BY <3>1, <3>2, PagesPut
  <2>2. CASE ~empty
    BY <2>2, Labels DEF Shrink, GoTo
  <2>3. QED
    BY <2>1, <2>2
<1>2. QED
  BY <1>1, WorkloadAssumption DEF Shrink

\* The visited page, the two siblings below it and their boundary.
LEMMA RemovePair ==
  ASSUME TypeInv, NEW t \in Thread, RemoveDescends(t)
  PROVE  /\ node[t] \in Page /\ LeftOf(t) \in Page /\ RightOf(t) \in Page
         /\ Sep(t) \in Key
<1>1. node[t] \in Page /\ LeftOf(t) \in Page /\ RightOf(t) \in Page
  BY DEF RemoveDescends, Attempts, WriteFree
<1>2. Sep(t) \in Key
  BY BoundaryExists, ContentsAreKeys DEF RemoveDescends, Sep
<1>3. QED
  BY <1>1, <1>2

LEMMA BorrowTyped ==
  ASSUME TypeInv, NEW t \in Thread, BorrowFromLeft(t) \/ BorrowFromRight(t)
  PROVE  TreeTyped' /\ ThreadsTyped'
<1> USE DEF TypeInv, TreeTyped, ThreadsTyped
<1> DEFINE left   == LeftOf(t)
           right  == RightOf(t)
           sep    == Sep(t)
           parent == node[t]
<1>1. parent \in Page /\ left \in Page /\ right \in Page /\ sep \in Key
  BY RemovePair DEF BorrowFromLeft, BorrowFromRight
<1>2. page' \in [Page -> SoundPage]
  <2>1. CASE BorrowFromLeft(t)
    <3> DEFINE b == LendLastBoundary(page[left])
               A == LentLast(page[left], b)
               B == TookLast(page[left], page[right], sep, b)
               C == MoveBoundary(page[parent], sep, b)
    <3>1. page' = [page EXCEPT ![left] = A, ![right] = B, ![parent] = C]
      BY <2>1 DEF BorrowFromLeft
    <3>2. b \in Key
      BY <2>1, LendLastExists, ContentsAreKeys DEF BorrowFromLeft
    <3> HIDE DEF left, right, sep, parent, b
    <3>3. A \in SoundPage /\ B \in SoundPage /\ C \in SoundPage
      BY <1>1, <3>2, BorrowSound
    <3> HIDE DEF A, B, C
    <3>4. QED
      BY <3>1, <3>3, PagesPut
  <2>2. CASE BorrowFromRight(t)
    <3> DEFINE b == LendFirstBoundary(page[right])
               A == TookFirst(page[left], page[right], sep, b)
               B == LentFirst(page[right], b)
               C == MoveBoundary(page[parent], sep, b)
    <3>1. page' = [page EXCEPT ![left] = A, ![right] = B, ![parent] = C]
      BY <2>2 DEF BorrowFromRight
    <3>2. b \in Key
      BY <2>2, LendFirstExists, ContentsAreKeys DEF BorrowFromRight
    <3> HIDE DEF left, right, sep, parent, b
    <3>3. A \in SoundPage /\ B \in SoundPage /\ C \in SoundPage
      BY <1>1, <3>2, BorrowSound
    <3> HIDE DEF A, B, C
    <3>4. QED
      BY <3>1, <3>3, PagesPut
  <2>3. QED
    BY <2>1, <2>2
<1>3. node' = [node EXCEPT ![t] = left] \/ node' = [node EXCEPT ![t] = right]
  BY DEF BorrowFromLeft, BorrowFromRight, Visit
<1>4. UNCHANGED <<root, len, pc, call, next, fix, latch, result, filled, made>>
  BY DEF BorrowFromLeft, BorrowFromRight
<1> HIDE DEF left, right
<1>5. QED
  BY <1>1, <1>2, <1>3, <1>4, ConstantFields, WorkloadAssumption

LEMMA MergeTyped ==
  ASSUME TypeInv, NEW t \in Thread, Merge(t)
  PROVE  TreeTyped' /\ ThreadsTyped'
<1> USE DEF TypeInv, TreeTyped, ThreadsTyped
<1> DEFINE left   == LeftOf(t)
           right  == RightOf(t)
           sep    == Sep(t)
           parent == node[t]
           f      == [cursor |-> page[left].prev, retired |-> left,
                      survivor |-> right]
<1>1. parent \in Page /\ left \in Page /\ right \in Page /\ sep \in Key
  BY RemovePair DEF Merge
<1>2. page' \in [Page -> SoundPage]
  <2> DEFINE A == Retired(page[left], right)
             B == Survivor(page[left], page[right], sep)
             C == DropMerged(page[parent], sep)
  <2>1. page' = [page EXCEPT ![left] = A, ![right] = B, ![parent] = C]
    BY DEF Merge
  <2> HIDE DEF left, right, sep, parent
  <2>2. A \in SoundPage /\ B \in SoundPage /\ C \in SoundPage
    BY <1>1, MergeSound
  <2> HIDE DEF A, B, C
  <2>3. QED
    BY <2>1, <2>2, PagesPut
<1>3. /\ next' = [next EXCEPT ![t] = right]
      /\ fix' = [fix EXCEPT ![t] = f]
      /\ pc' = [pc EXCEPT ![t] = "fix_start"]
      /\ UNCHANGED <<root, len, call, node, latch, result, filled, made>>
  BY DEF Merge, GoTo
<1> HIDE DEF left, right
<1>4. left \in Ref /\ right \in Ref /\ page[left].prev \in Ref
  BY <1>1, ConstantFields DEF SoundPage, PageRec
<1>5. f \in FixRec
  BY <1>4, ThreadRecords
<1> HIDE DEF f
<1>6. QED
  BY <1>2, <1>3, <1>4, <1>5, Labels, WorkloadAssumption

-----------------------------------------------------------------------------
(***************************************************************************)
(* The latch protocol: what one thread's step leaves alone.                *)
(***************************************************************************)
OthersKept(t) ==
  \A u \in Thread \ {t} :
    /\ pc'[u] = pc[u] /\ call'[u] = call[u] /\ node'[u] = node[u]
    /\ fix'[u] = fix[u] /\ latch'[u] = latch[u]

LEMMA OthersKeep ==
  ASSUME ThreadsTyped, NEW t \in Thread, Start(t) \/ Step(t)
  PROVE  OthersKept(t)
<1> USE DEF OthersKept, ThreadsTyped, tree, threads, GoTo, Visit, Retry, Hold,
            Release, Answer, Resume, WalkFrom, StoreRecord, EraseRecord
<1>1. CASE Start(t)
  BY <1>1 DEF Start
<1>2. CASE ReadRoot(t)
  BY <1>2 DEF ReadRoot
<1>3. CASE SeekRestart(t)
  BY <1>3 DEF SeekRestart
<1>4. CASE SeekRight(t)
  BY <1>4 DEF SeekRight
<1>5. CASE SeekDown(t)
  BY <1>5 DEF SeekDown
<1>6. CASE SeekGet(t)
  BY <1>6 DEF SeekGet
<1>7. CASE SeekWriter(t)
  BY <1>7 DEF SeekWriter
<1>8. CASE DropGuard(t)
  BY <1>8 DEF DropGuard
<1>9. CASE Relatch(t)
  BY <1>9 DEF Relatch
<1>10. CASE FastUpdate(t)
  BY <1>10 DEF FastUpdate
<1>11. CASE Count(t)
  BY <1>11 DEF Count
<1>12. CASE AttemptRoot(t)
  BY <1>12 DEF AttemptRoot
<1>13. CASE AttemptRight(t)
  BY <1>13 DEF AttemptRight
<1>14. CASE FastInsert(t)
  BY <1>14 DEF FastInsert
<1>15. CASE SplitRoot(t)
  BY <1>15 DEF SplitRoot
<1>16. CASE InsertRetry(t)
  BY <1>16 DEF InsertRetry
<1>17. CASE InsertHere(t)
  BY <1>17 DEF InsertHere
<1>18. CASE InsertDown(t)
  BY <1>18 DEF InsertDown
<1>19. CASE SplitChild(t)
  BY <1>19 DEF SplitChild
<1>20. CASE FixSplit(t)
  BY <1>20 DEF FixSplit
<1>21. CASE FixSuccessor(t)
  BY <1>21 DEF FixSuccessor
<1>22. CASE FastRemove(t)
  BY <1>22 DEF FastRemove
<1>23. CASE Shrink(t)
  BY <1>23 DEF Shrink
<1>24. CASE RemoveRetry(t)
  BY <1>24 DEF RemoveRetry
<1>25. CASE RemoveHere(t)
  BY <1>25 DEF RemoveHere
<1>26. CASE RemoveDown(t)
  BY <1>26 DEF RemoveDown
<1>27. CASE BorrowFromLeft(t)
  BY <1>27 DEF BorrowFromLeft
<1>28. CASE BorrowFromRight(t)
  BY <1>28 DEF BorrowFromRight
<1>29. CASE Merge(t)
  BY <1>29 DEF Merge
<1>30. CASE FixStart(t)
  BY <1>30 DEF FixStart
<1>31. CASE FixNone(t)
  BY <1>31 DEF FixNone
<1>32. CASE WalkBack(t)
  BY <1>32 DEF WalkBack
<1>33. CASE WalkOn(t)
  BY <1>33 DEF WalkOn
<1>34. CASE Peek(t)
  BY <1>34 DEF Peek
<1>35. CASE Join(t)
  BY <1>35 DEF Join
<1>36. CASE Return(t)
  BY <1>36 DEF Return
<1>37. QED
  BY <1>1, <1>2, <1>3, <1>4, <1>5, <1>6, <1>7, <1>8, <1>9, <1>10, <1>11,
     <1>12, <1>13, <1>14, <1>15, <1>16, <1>17, <1>18, <1>19, <1>20, <1>21,
     <1>22, <1>23, <1>24, <1>25, <1>26, <1>27, <1>28, <1>29, <1>30, <1>31,
     <1>32, <1>33, <1>34, <1>35, <1>36
     DEF Step, Seek, Insert, Remove

\* How a step may change its thread's latch: keep it, drop it, or take one that
\* can be granted.
Latching(t) ==
  \/ latch'[t] = latch[t]
  \/ latch'[t] = NoLatch
  \/ \E p \in Page : \/ ReadFree(p)  /\ latch'[t] = [page |-> p, mode |-> "read"]
                     \/ WriteFree(p) /\ latch'[t] = [page |-> p, mode |-> "write"]

\* How a step may change a page: one whose write latch can be granted or is the
\* thread's own, or one that nobody knows yet.
PagesKept(t) ==
  \A p \in Page : \/ page'[p] = page[p]
                  \/ WriteFree(p)
                  \/ latch[t] = [page |-> p, mode |-> "write"]
                  \/ page[p].kind = "free"

\* Every step obeys Latching.
LEMMA LatchesMove ==
  ASSUME ThreadsTyped, NEW t \in Thread, Start(t) \/ Step(t)
  PROVE  Latching(t)
<1> USE DEF ThreadsTyped, tree, threads, GoTo, Visit, Retry, Hold, Release, Answer,
            Resume, WalkFrom, StoreRecord, EraseRecord, Latched, Attempts, Seeks,
            ReadFree, WriteFree, Latching
<1>1. CASE Start(t)
  BY <1>1 DEF Start
<1>2. CASE ReadRoot(t)
  BY <1>2 DEF ReadRoot
<1>3. CASE SeekRestart(t)
  BY <1>3 DEF SeekRestart
<1>4. CASE SeekRight(t)
  BY <1>4 DEF SeekRight
<1>5. CASE SeekDown(t)
  BY <1>5 DEF SeekDown
<1>6. CASE SeekGet(t)
  BY <1>6 DEF SeekGet
<1>7. CASE SeekWriter(t)
  BY <1>7 DEF SeekWriter
<1>8. CASE DropGuard(t)
  BY <1>8 DEF DropGuard
<1>9. CASE Relatch(t)
  BY <1>9 DEF Relatch
<1>10. CASE FastUpdate(t)
  BY <1>10 DEF FastUpdate
<1>11. CASE Count(t)
  BY <1>11 DEF Count
<1>12. CASE AttemptRoot(t)
  BY <1>12 DEF AttemptRoot
<1>13. CASE AttemptRight(t)
  BY <1>13 DEF AttemptRight
<1>14. CASE FastInsert(t)
  BY <1>14 DEF FastInsert
<1>15. CASE SplitRoot(t)
  BY <1>15 DEF SplitRoot
<1>16. CASE InsertRetry(t)
  BY <1>16 DEF InsertRetry
<1>17. CASE InsertHere(t)
  BY <1>17 DEF InsertHere
<1>18. CASE InsertDown(t)
  BY <1>18 DEF InsertDown
<1>19. CASE SplitChild(t)
  BY <1>19 DEF SplitChild
<1>20. CASE FixSplit(t)
  BY <1>20 DEF FixSplit
<1>21. CASE FixSuccessor(t)
  BY <1>21 DEF FixSuccessor
<1>22. CASE FastRemove(t)
  BY <1>22 DEF FastRemove
<1>23. CASE Shrink(t)
  BY <1>23 DEF Shrink
<1>24. CASE RemoveRetry(t)
  BY <1>24 DEF RemoveRetry
<1>25. CASE RemoveHere(t)
  BY <1>25 DEF RemoveHere
<1>26. CASE RemoveDown(t)
  BY <1>26 DEF RemoveDown
<1>27. CASE BorrowFromLeft(t)
  BY <1>27 DEF BorrowFromLeft
<1>28. CASE BorrowFromRight(t)
  BY <1>28 DEF BorrowFromRight
<1>29. CASE Merge(t)
  BY <1>29 DEF Merge
<1>30. CASE FixStart(t)
  BY <1>30 DEF FixStart
<1>31. CASE FixNone(t)
  BY <1>31 DEF FixNone
<1>32. CASE WalkBack(t)
  BY <1>32 DEF WalkBack
<1>33. CASE WalkOn(t)
  BY <1>33 DEF WalkOn
<1>34. CASE Peek(t)
  BY <1>34 DEF Peek
<1>35. CASE Join(t)
  BY <1>35 DEF Join
<1>36. CASE Return(t)
  BY <1>36 DEF Return
<1>37. QED
  BY <1>1, <1>2, <1>3, <1>4, <1>5, <1>6, <1>7, <1>8, <1>9, <1>10, <1>11,
     <1>12, <1>13, <1>14, <1>15, <1>16, <1>17, <1>18, <1>19, <1>20, <1>21,
     <1>22, <1>23, <1>24, <1>25, <1>26, <1>27, <1>28, <1>29, <1>30, <1>31,
     <1>32, <1>33, <1>34, <1>35, <1>36
     DEF Step, Seek, Insert, Remove

\* A thread that has a guard after its step took it in that step, on a leaf that
\* owns the key and holds the record.
GuardTaken(t) ==
  pc'[t] = "guard" =>
    /\ page' = page
    /\ node'[t] \in Page
    /\ latch'[t] = [page |-> node'[t],
                    mode |-> IF call'[t].op = "get" THEN "read" ELSE "write"]
    /\ page[node'[t]].kind = "leaf"
    /\ Route(page[node'[t]], call'[t].key) = "here"
    /\ page[node'[t]].recs[call'[t].key] # NoVal

Repairing == {"fix_succ", "peek", "join_retired", "join_survivor", "join_peeked"}

\* A thread that waits in a link repair after its step has the repair's page.
RepairTaken(t) ==
  pc'[t] \in Repairing =>
    latch'[t] = [page |-> fix'[t].cursor, mode |-> "write"]

\* Every step obeys GuardTaken.
LEMMA GuardsTaken ==
  ASSUME ThreadsTyped, NEW t \in Thread, Start(t) \/ Step(t)
  PROVE  GuardTaken(t)
<1> USE DEF ThreadsTyped, tree, threads, GoTo, Visit, Retry, Hold, Release, Answer,
            Resume, WalkFrom, StoreRecord, EraseRecord, Latched, Attempts, Seeks,
            OwnsKey, ReadFree, WriteFree, GuardTaken
<1>1. CASE Start(t)
  BY <1>1 DEF Start
<1>2. CASE ReadRoot(t)
  BY <1>2 DEF ReadRoot
<1>3. CASE SeekRestart(t)
  BY <1>3 DEF SeekRestart
<1>4. CASE SeekRight(t)
  BY <1>4 DEF SeekRight
<1>5. CASE SeekDown(t)
  BY <1>5 DEF SeekDown
<1>6. CASE SeekGet(t)
  BY <1>6 DEF SeekGet
<1>7. CASE SeekWriter(t)
  BY <1>7 DEF SeekWriter
<1>8. CASE DropGuard(t)
  BY <1>8 DEF DropGuard
<1>9. CASE Relatch(t)
  BY <1>9 DEF Relatch
<1>10. CASE FastUpdate(t)
  BY <1>10 DEF FastUpdate
<1>11. CASE Count(t)
  BY <1>11 DEF Count
<1>12. CASE AttemptRoot(t)
  BY <1>12 DEF AttemptRoot
<1>13. CASE AttemptRight(t)
  BY <1>13 DEF AttemptRight
<1>14. CASE FastInsert(t)
  BY <1>14 DEF FastInsert
<1>15. CASE SplitRoot(t)
  BY <1>15 DEF SplitRoot
<1>16. CASE InsertRetry(t)
  BY <1>16 DEF InsertRetry
<1>17. CASE InsertHere(t)
  BY <1>17 DEF InsertHere
<1>18. CASE InsertDown(t)
  BY <1>18 DEF InsertDown, InsertDescends
<1>19. CASE SplitChild(t)
  BY <1>19 DEF SplitChild, InsertDescends
<1>20. CASE FixSplit(t)
  BY <1>20 DEF FixSplit
<1>21. CASE FixSuccessor(t)
  BY <1>21 DEF FixSuccessor
<1>22. CASE FastRemove(t)
  BY <1>22 DEF FastRemove
<1>23. CASE Shrink(t)
  BY <1>23 DEF Shrink
<1>24. CASE RemoveRetry(t)
  BY <1>24 DEF RemoveRetry
<1>25. CASE RemoveHere(t)
  BY <1>25 DEF RemoveHere
<1>26. CASE RemoveDown(t)
  BY <1>26 DEF RemoveDown, RemoveDescends
<1>27. CASE BorrowFromLeft(t)
  BY <1>27 DEF BorrowFromLeft, RemoveDescends
<1>28. CASE BorrowFromRight(t)
  BY <1>28 DEF BorrowFromRight, RemoveDescends
<1>29. CASE Merge(t)
  BY <1>29 DEF Merge
<1>30. CASE FixStart(t)
  BY <1>30 DEF FixStart
<1>31. CASE FixNone(t)
  BY <1>31 DEF FixNone
<1>32. CASE WalkBack(t)
  BY <1>32 DEF WalkBack
<1>33. CASE WalkOn(t)
  BY <1>33 DEF WalkOn
<1>34. CASE Peek(t)
  BY <1>34 DEF Peek
<1>35. CASE Join(t)
  BY <1>35 DEF Join
<1>36. CASE Return(t)
  BY <1>36 DEF Return
<1>37. QED
  BY <1>1, <1>2, <1>3, <1>4, <1>5, <1>6, <1>7, <1>8, <1>9, <1>10, <1>11,
     <1>12, <1>13, <1>14, <1>15, <1>16, <1>17, <1>18, <1>19, <1>20, <1>21,
     <1>22, <1>23, <1>24, <1>25, <1>26, <1>27, <1>28, <1>29, <1>30, <1>31,
     <1>32, <1>33, <1>34, <1>35, <1>36
     DEF Step, Seek, Insert, Remove

\* Every step obeys RepairTaken.
LEMMA RepairsTaken ==
  ASSUME ThreadsTyped, RepairLatched, NEW t \in Thread, Start(t) \/ Step(t)
  PROVE  RepairTaken(t)
<1> USE DEF ThreadsTyped, tree, threads, GoTo, Visit, Retry, Hold, Release, Answer,
            Resume, WalkFrom, StoreRecord, EraseRecord, Latched, Attempts, Seeks,
            RepairLatched, RepairTaken, Repairing
<1>1. CASE Start(t)
  BY <1>1 DEF Start
<1>2. CASE ReadRoot(t)
  BY <1>2 DEF ReadRoot
<1>3. CASE SeekRestart(t)
  BY <1>3 DEF SeekRestart
<1>4. CASE SeekRight(t)
  BY <1>4 DEF SeekRight
<1>5. CASE SeekDown(t)
  BY <1>5 DEF SeekDown
<1>6. CASE SeekGet(t)
  BY <1>6 DEF SeekGet
<1>7. CASE SeekWriter(t)
  BY <1>7 DEF SeekWriter
<1>8. CASE DropGuard(t)
  BY <1>8 DEF DropGuard
<1>9. CASE Relatch(t)
  BY <1>9 DEF Relatch
<1>10. CASE FastUpdate(t)
  BY <1>10 DEF FastUpdate
<1>11. CASE Count(t)
  BY <1>11 DEF Count
<1>12. CASE AttemptRoot(t)
  BY <1>12 DEF AttemptRoot
<1>13. CASE AttemptRight(t)
  BY <1>13 DEF AttemptRight
<1>14. CASE FastInsert(t)
  BY <1>14 DEF FastInsert
<1>15. CASE SplitRoot(t)
  BY <1>15 DEF SplitRoot
<1>16. CASE InsertRetry(t)
  BY <1>16 DEF InsertRetry
<1>17. CASE InsertHere(t)
  BY <1>17 DEF InsertHere
<1>18. CASE InsertDown(t)
  BY <1>18 DEF InsertDown
<1>19. CASE SplitChild(t)
  BY <1>19 DEF SplitChild
<1>20. CASE FixSplit(t)
  BY <1>20 DEF FixSplit
<1>21. CASE FixSuccessor(t)
  <2>1. CASE page[fix[t].survivor].kind = "redirect"
    <3>1. /\ fix' = [fix EXCEPT ![t].survivor = page[fix[t].survivor].target]
          /\ latch'[t] = latch[t] /\ pc[t] = "fix_succ"
      BY <1>21, <2>1 DEF FixSuccessor
    <3>2. fix'[t].cursor = fix[t].cursor
      BY <3>1, ThreadRecords DEF FixRec
    <3>3. QED
      BY <3>1, <3>2
  <2>2. CASE page[fix[t].survivor].kind # "redirect"
    BY <1>21, <2>2 DEF FixSuccessor
  <2>3. QED
    BY <2>1, <2>2
<1>22. CASE FastRemove(t)
  BY <1>22 DEF FastRemove
<1>23. CASE Shrink(t)
  BY <1>23 DEF Shrink
<1>24. CASE RemoveRetry(t)
  BY <1>24 DEF RemoveRetry
<1>25. CASE RemoveHere(t)
  BY <1>25 DEF RemoveHere
<1>26. CASE RemoveDown(t)
  BY <1>26 DEF RemoveDown
<1>27. CASE BorrowFromLeft(t)
  BY <1>27 DEF BorrowFromLeft
<1>28. CASE BorrowFromRight(t)
  BY <1>28 DEF BorrowFromRight
<1>29. CASE Merge(t)
  BY <1>29 DEF Merge
<1>30. CASE FixStart(t)
  BY <1>30 DEF FixStart
<1>31. CASE FixNone(t)
  BY <1>31 DEF FixNone
<1>32. CASE WalkBack(t)
  BY <1>32 DEF WalkBack
<1>33. CASE WalkOn(t)
  BY <1>33 DEF WalkOn
<1>34. CASE Peek(t)
  BY <1>34 DEF Peek
<1>35. CASE Join(t)
  BY <1>35 DEF Join
<1>36. CASE Return(t)
  BY <1>36 DEF Return
<1>37. QED
  BY <1>1, <1>2, <1>3, <1>4, <1>5, <1>6, <1>7, <1>8, <1>9, <1>10, <1>11,
     <1>12, <1>13, <1>14, <1>15, <1>16, <1>17, <1>18, <1>19, <1>20, <1>21,
     <1>22, <1>23, <1>24, <1>25, <1>26, <1>27, <1>28, <1>29, <1>30, <1>31,
     <1>32, <1>33, <1>34, <1>35, <1>36
     DEF Step, Seek, Insert, Remove

\* Every step obeys PagesKept.
LEMMA PagesKeep ==
  ASSUME TreeTyped, ThreadsTyped, GuardLatched, RepairLatched,
         NEW t \in Thread, Start(t) \/ Step(t)
  PROVE  PagesKept(t)
<1> USE DEF TreeTyped, ThreadsTyped, tree, StoreRecord, EraseRecord, Latched,
            Attempts, WriteFree,
            GuardLatched, RepairLatched, InsertDescends, RemoveDescends, PagesKept
<1>1. CASE DropGuard(t)
  BY <1>1 DEF DropGuard
<1>2. CASE FastInsert(t)
  BY <1>2 DEF FastInsert
<1>3. CASE SplitRoot(t)
  BY <1>3, NewPagesExist DEF SplitRoot, Unallocated
<1>4. CASE InsertHere(t)
  BY <1>4 DEF InsertHere
<1>5. CASE SplitChild(t)
  BY <1>5, NewPagesExist DEF SplitChild, Unallocated
<1>6. CASE FixSuccessor(t)
  BY <1>6 DEF FixSuccessor
<1>7. CASE FastRemove(t)
  BY <1>7 DEF FastRemove
<1>8. CASE Shrink(t)
  BY <1>8 DEF Shrink
<1>9. CASE RemoveHere(t)
  BY <1>9 DEF RemoveHere
<1>10. CASE BorrowFromLeft(t)
  BY <1>10 DEF BorrowFromLeft
<1>11. CASE BorrowFromRight(t)
  BY <1>11 DEF BorrowFromRight
<1>12. CASE Merge(t)
  BY <1>12 DEF Merge
<1>13. CASE FixNone(t)
  BY <1>13 DEF FixNone
<1>14. CASE WalkOn(t)
  BY <1>14 DEF WalkOn
<1>15. CASE Peek(t)
  BY <1>15 DEF Peek
<1>16. CASE Join(t)
  BY <1>16 DEF Join
<1>17. CASE UNCHANGED page
  BY <1>17
<1>18. QED
  BY <1>1, <1>2, <1>3, <1>4, <1>5, <1>6, <1>7, <1>8, <1>9, <1>10, <1>11,
     <1>12, <1>13, <1>14, <1>15, <1>16, <1>17
     DEF Step, Seek, Insert, Remove,
         Start, ReadRoot, SeekRestart, SeekRight, SeekDown, SeekGet,
         SeekWriter, Relatch, FastUpdate, Count, AttemptRoot, AttemptRight,
         InsertRetry, InsertDown, FixSplit, RemoveRetry, RemoveDown,
         FixStart, WalkBack, Return, tree, threads

-----------------------------------------------------------------------------
(***************************************************************************)
(* The inductive invariant: types, the latch protocol and what it          *)
(* protects.  A guard keeps its record because no step changes a page that *)
(* another thread has latched; that is so because a step changes only      *)
(* pages it can latch, has latched or has just allocated.                  *)
(***************************************************************************)
IndInv == TreeTyped /\ ThreadsTyped /\ LatchDiscipline /\ GuardHasRecord

LEMMA InitInv == Init => IndInv
<1> SUFFICES ASSUME Init PROVE IndInv
  OBVIOUS
<1>1. TreeTyped /\ ThreadsTyped /\ GuardLatched
  BY InitTyped DEF TypeInv
<1>2. RepairLatched /\ GuardHasRecord
  BY DEF Init, RepairLatched, GuardHasRecord
<1>3. LatchesExclusive
  BY DEF Init, LatchesExclusive, NoLatch
<1>4. QED
  BY <1>1, <1>2, <1>3 DEF IndInv, LatchDiscipline

\* A step of one thread leaves the page that another one has latched alone.
LEMMA LatchedPageKept ==
  ASSUME IndInv, NEW t \in Thread, Start(t) \/ Step(t),
         NEW u \in Thread \ {t}, NEW p \in Page, latch[u].page = p,
         page[p].kind # "free"
  PROVE  page'[p] = page[p]
<1> USE DEF IndInv, LatchDiscipline
<1>1. p # Nil
  BY ConstantFields
<1>2. ~WriteFree(p)
  BY DEF WriteFree
<1>3. latch[t] # [page |-> p, mode |-> "write"]
  BY <1>1 DEF LatchesExclusive
<1>4. PagesKept(t)
  BY PagesKeep
<1>5. QED
  BY <1>2, <1>3, <1>4 DEF PagesKept

\* Among them is the page behind a guard.
LEMMA GuardedPageKept ==
  ASSUME IndInv, NEW t \in Thread, Start(t) \/ Step(t),
         NEW u \in Thread \ {t}, pc[u] = "guard"
  PROVE  page'[node[u]] = page[node[u]]
<1> DEFINE m == IF call[u].op = "get" THEN "read" ELSE "write"
<1>1. node[u] \in Page /\ latch[u] = [page |-> node[u], mode |-> m]
  BY DEF IndInv, LatchDiscipline, GuardLatched
<1>2. page[node[u]].kind # "free"
  BY DEF IndInv, GuardHasRecord
<1> HIDE DEF m
<1>3. latch[u].page = node[u]
  BY <1>1
<1>4. QED
  BY <1>1, <1>2, <1>3, LatchedPageKept

\* Latches that can be granted exclude each other.
LEMMA ExclusiveKept ==
  ASSUME LatchesExclusive, NEW t \in Thread, OthersKept(t), Latching(t)
  PROVE  LatchesExclusive'
<1>1. \A u \in Thread \ {t} :
        latch'[t].page = latch[u].page /\ latch[u].page # Nil =>
          latch'[t].mode = "read" /\ latch[u].mode = "read"
  <2> SUFFICES ASSUME NEW u \in Thread \ {t},
                      latch'[t].page = latch[u].page, latch[u].page # Nil
               PROVE  latch'[t].mode = "read" /\ latch[u].mode = "read"
    OBVIOUS
  <2>1. CASE latch'[t] = latch[t]
    BY <2>1 DEF LatchesExclusive
  <2>2. CASE latch'[t] = NoLatch
    BY <2>2 DEF NoLatch
  <2>3. ASSUME NEW p \in Page, ReadFree(p),
               latch'[t] = [page |-> p, mode |-> "read"]
        PROVE  latch'[t].mode = "read" /\ latch[u].mode = "read"
    BY <2>3 DEF ReadFree
  <2>4. ASSUME NEW p \in Page, WriteFree(p),
               latch'[t] = [page |-> p, mode |-> "write"]
        PROVE  FALSE
    BY <2>4 DEF WriteFree
  <2>5. QED
    BY <2>1, <2>2, <2>3, <2>4 DEF Latching
<1>2. \A u \in Thread \ {t} : latch'[u] = latch[u]
  BY DEF OthersKept
<1>3. QED
  BY <1>1, <1>2 DEF LatchesExclusive

LEMMA StepTyped ==
  ASSUME IndInv, NEW t \in Thread, Start(t) \/ Step(t)
  PROVE  TreeTyped' /\ ThreadsTyped'
<1>1. TypeInv
  BY DEF IndInv, LatchDiscipline, TypeInv
<1>2. QED
  BY <1>1, MovesTyped, RecordStepsTyped, SplitRootTyped, SplitChildTyped,
     RepairStepsTyped, ShrinkTyped, BorrowTyped, MergeTyped
     DEF Step, Insert, Remove

\* One step of a thread preserves the latch protocol and the guards.
LEMMA StepGuards ==
  ASSUME IndInv, NEW t \in Thread, Start(t) \/ Step(t)
  PROVE  LatchDiscipline' /\ GuardHasRecord'
<1> USE DEF IndInv, LatchDiscipline
<1>1. OthersKept(t) /\ Latching(t) /\ GuardTaken(t) /\ RepairTaken(t)
  BY OthersKeep, LatchesMove, GuardsTaken, RepairsTaken
<1>2. GuardLatched'
  <2> SUFFICES ASSUME NEW u \in Thread, pc'[u] = "guard"
               PROVE  /\ node'[u] \in Page
                      /\ latch'[u] =
                           [page |-> node'[u],
                            mode |-> IF call'[u].op = "get" THEN "read"
                                                           ELSE "write"]
    BY DEF GuardLatched
  <2>1. CASE u = t
    BY <1>1, <2>1 DEF GuardTaken
  <2>2. CASE u # t
    BY <1>1, <2>2 DEF OthersKept, GuardLatched
  <2>3. QED
    BY <2>1, <2>2
<1>3. RepairLatched'
  <2> SUFFICES ASSUME NEW u \in Thread, pc'[u] \in Repairing
               PROVE  latch'[u] = [page |-> fix'[u].cursor, mode |-> "write"]
    BY DEF RepairLatched, Repairing
  <2>1. CASE u = t
    BY <1>1, <2>1 DEF RepairTaken
  <2>2. CASE u # t
    BY <1>1, <2>2 DEF OthersKept, RepairLatched, Repairing
  <2>3. QED
    BY <2>1, <2>2
<1>4. LatchesExclusive'
  BY <1>1, ExclusiveKept
<1>5. GuardHasRecord'
  <2> SUFFICES ASSUME NEW u \in Thread, pc'[u] = "guard"
               PROVE  /\ page'[node'[u]].kind = "leaf"
                      /\ Route(page'[node'[u]], call'[u].key) = "here"
                      /\ page'[node'[u]].recs[call'[u].key] # NoVal
    BY DEF GuardHasRecord, Route, NegInf, PosInf
  <2>1. CASE u = t
    BY <1>1, <2>1 DEF GuardTaken
  <2>2. CASE u # t
    <3>1. /\ pc[u] = "guard" /\ node'[u] = node[u] /\ call'[u] = call[u]
      BY <1>1, <2>2 DEF OthersKept
    <3>2. page'[node[u]] = page[node[u]]
      BY <2>2, <3>1, GuardedPageKept
    <3>3. QED
      BY <3>1, <3>2 DEF GuardHasRecord
  <2>3. QED
    BY <2>1, <2>2
<1>6. QED
  BY <1>2, <1>3, <1>4, <1>5

LEMMA NextInv == IndInv /\ [Next]_vars => IndInv'
<1> SUFFICES ASSUME IndInv, [Next]_vars PROVE IndInv'
  OBVIOUS
<1>1. ASSUME NEW t \in Thread, Start(t) \/ Step(t) PROVE IndInv'
  BY <1>1, StepTyped, StepGuards DEF IndInv
<1>2. CASE UNCHANGED vars
  BY <1>2 DEF IndInv, vars, tree, threads, TreeTyped, ThreadsTyped,
              LatchDiscipline, GuardLatched, RepairLatched, LatchesExclusive,
              GuardHasRecord
<1>3. QED
  BY <1>1, <1>2 DEF Next, Terminated

LEMMA Invariance == Spec => []IndInv
BY InitInv, NextInv, PTL DEF Spec

\* Where a step leads a thread.  No step of the tree takes a scanner's label.
LEMMA StepLabels ==
  ASSUME Labelled, NEW t \in Thread, Start(t) \/ Step(t)
  PROVE  Labelled'
<1> USE DEF Labelled, PC, tree, GoTo, Retry, Resume, StoreRecord, EraseRecord
<1>1. CASE Start(t)
  BY <1>1 DEF Start
<1>2. CASE ReadRoot(t)
  BY <1>2 DEF ReadRoot
<1>3. CASE SeekRestart(t)
  BY <1>3 DEF SeekRestart
<1>4. CASE SeekRight(t)
  BY <1>4 DEF SeekRight
<1>5. CASE SeekDown(t)
  BY <1>5 DEF SeekDown
<1>6. CASE SeekGet(t)
  BY <1>6 DEF SeekGet
<1>7. CASE SeekWriter(t)
  BY <1>7 DEF SeekWriter
<1>8. CASE DropGuard(t)
  BY <1>8 DEF DropGuard
<1>9. CASE Relatch(t)
  BY <1>9 DEF Relatch
<1>10. CASE FastUpdate(t)
  BY <1>10 DEF FastUpdate
<1>11. CASE Count(t)
  BY <1>11 DEF Count
<1>12. CASE AttemptRoot(t)
  BY <1>12 DEF AttemptRoot
<1>13. CASE AttemptRight(t)
  BY <1>13 DEF AttemptRight
<1>14. CASE FastInsert(t)
  BY <1>14 DEF FastInsert
<1>15. CASE SplitRoot(t)
  BY <1>15 DEF SplitRoot
<1>16. CASE InsertRetry(t)
  BY <1>16 DEF InsertRetry
<1>17. CASE InsertHere(t)
  BY <1>17 DEF InsertHere
<1>18. CASE InsertDown(t)
  BY <1>18 DEF InsertDown
<1>19. CASE SplitChild(t)
  BY <1>19 DEF SplitChild
<1>20. CASE FixSplit(t)
  BY <1>20 DEF FixSplit
<1>21. CASE FixSuccessor(t)
  BY <1>21 DEF FixSuccessor
<1>22. CASE FastRemove(t)
  BY <1>22 DEF FastRemove
<1>23. CASE Shrink(t)
  BY <1>23 DEF Shrink
<1>24. CASE RemoveRetry(t)
  BY <1>24 DEF RemoveRetry
<1>25. CASE RemoveHere(t)
  BY <1>25 DEF RemoveHere
<1>26. CASE RemoveDown(t)
  BY <1>26 DEF RemoveDown
<1>27. CASE BorrowFromLeft(t)
  BY <1>27 DEF BorrowFromLeft
<1>28. CASE BorrowFromRight(t)
  BY <1>28 DEF BorrowFromRight
<1>29. CASE Merge(t)
  BY <1>29 DEF Merge
<1>30. CASE FixStart(t)
  BY <1>30 DEF FixStart
<1>31. CASE FixNone(t)
  BY <1>31 DEF FixNone
<1>32. CASE WalkBack(t)
  BY <1>32 DEF WalkBack
<1>33. CASE WalkOn(t)
  BY <1>33 DEF WalkOn
<1>34. CASE Peek(t)
  BY <1>34 DEF Peek
<1>35. CASE Join(t)
  BY <1>35 DEF Join
<1>36. CASE Return(t)
  BY <1>36 DEF Return
<1>37. QED
  BY <1>1, <1>2, <1>3, <1>4, <1>5, <1>6, <1>7, <1>8, <1>9, <1>10, <1>11,
     <1>12, <1>13, <1>14, <1>15, <1>16, <1>17, <1>18, <1>19, <1>20, <1>21, <1>22,
     <1>23, <1>24, <1>25, <1>26, <1>27, <1>28, <1>29, <1>30, <1>31, <1>32, <1>33,
     <1>34, <1>35, <1>36
     DEF Step, Seek, Insert, Remove

LEMMA InitLabels == Init => Labelled
BY DEF Init, Labelled, PC

LEMMA NextLabels == Labelled /\ [Next]_vars => Labelled'
<1> SUFFICES ASSUME Labelled, [Next]_vars PROVE Labelled'
  OBVIOUS
<1>1. CASE UNCHANGED vars
  BY <1>1 DEF Labelled, vars, threads
<1>2. QED
  BY <1>1, StepLabels DEF Next, Terminated

LEMMA LabelInvariance == Spec => []Labelled
BY InitLabels, NextLabels, PTL DEF Spec

-----------------------------------------------------------------------------
(***************************************************************************)
(* The theorems.                                                           *)
(***************************************************************************)
\* Every state of the tree and its threads is well typed, and no retired page
\* is without a page to forward to (NodeKind::Redirect).
THEOREM TypeCorrect == Spec => []TypeOK
<1>1. IndInv /\ Labelled => TypeOK
  BY TypeOKSplits DEF IndInv
<1>2. QED
  BY <1>1, Invariance, LabelInvariance, PTL

\* Guards and pending link repairs have their pages latched, and a write latch
\* excludes every other latch on its page (parking_lot's RwLock as node.rs and
\* handle.rs use it).
THEOREM LatchesProtect == Spec => []LatchDiscipline
<1>1. IndInv => LatchDiscipline
  BY DEF IndInv
<1>2. QED
  BY <1>1, Invariance, PTL

\* A guard stays on an active leaf that owns its key and holds its record,
\* whatever the other threads insert, remove, split, borrow, merge or relink
\* meanwhile (EntryRef and EntryMut, handle.rs).
THEOREM GuardsKeepRecords == Spec => []GuardHasRecord
<1>1. IndInv => GuardHasRecord
  BY DEF IndInv
<1>2. QED
  BY <1>1, Invariance, PTL

\* While a guard is held nothing about its page changes.
THEOREM GuardsPinPages == Spec => GuardPinsPage
<1>1. IndInv /\ [Next]_vars =>
        [\A t \in Thread :
           pc[t] = "guard" /\ pc'[t] = "guard"
             => page'[node[t]] = page[node[t]]]_vars
  <2> SUFFICES ASSUME IndInv, Next, NEW u \in Thread,
                      pc[u] = "guard", pc'[u] = "guard"
               PROVE  page'[node[u]] = page[node[u]]
    OBVIOUS
  <2>1. ASSUME NEW t \in Thread, Start(t) \/ Step(t)
        PROVE  page'[node[u]] = page[node[u]]
    <3>1. CASE t = u
      <4>1. GuardTaken(t)
        BY <2>1, GuardsTaken DEF IndInv
      <4>2. QED
        BY <3>1, <4>1 DEF GuardTaken
    <3>2. CASE t # u
      BY <2>1, <3>2, GuardedPageKept
    <3>3. QED
      BY <3>1, <3>2
  <2>2. CASE Terminated
    BY <2>2 DEF Terminated, vars, tree
  <2>3. QED
    BY <2>1, <2>2 DEF Next
<1>2. QED
  BY <1>1, Invariance, PTL DEF Spec, GuardPinsPage

-----------------------------------------------------------------------------
(***************************************************************************)
(* The tree stays a well-formed b-link tree, for every capacity, key       *)
(* range, page bound, set of threads and workload.                         *)
(*                                                                         *)
(* The shape is stated about any function P from pages to page records and *)
(* any root r, so that the tree before, after and in the middle of a       *)
(* critical section are instances of one predicate.  Every structural      *)
(* section is then one or two of four elementary changes: a split of a     *)
(* child, a merge of two neighbours, a new root above the old one, and the *)
(* removal of a root with a sole child.  A borrow is a merge followed by a *)
(* split at the new boundary, a root split a new root followed by a split. *)
(***************************************************************************)

-----------------------------------------------------------------------------
(***************************************************************************)
(* The shape.                                                              *)
(***************************************************************************)
ActiveIn(P)    == {p \in Page : Active(P[p])}
InternalsIn(P) == {p \in Page : P[p].kind = "internal"}

\* The root is active and covers every key, and it alone has the mark.
RootSpans(P, r) ==
  /\ r \in ActiveIn(P)
  /\ P[r].low = NegInf /\ P[r].high = PosInf
  /\ \A p \in Page : P[p].isRoot <=> p = r

\* The leaves are the active pages of level 0, and the root is above all others.
Levelled(P, r) ==
  \A p \in ActiveIn(P) : /\ P[p].kind = "leaf" <=> P[p].level = 0
                         /\ p # r => P[p].level < P[r].level

\* Fences enclose a range, and it holds the contents; a separator is above the
\* low fence, because its left neighbour covers some range, too.
Fenced(P) ==
  \A p \in ActiveIn(P) :
    /\ P[p].low < P[p].high
    /\ \A k \in Contents(P[p]) : /\ P[p].low <= k /\ k < P[p].high
                                 /\ P[p].kind = "internal" => P[p].low < k

\* h is the separator after slot s, or the page's high fence after the last one.
IsNext(pg, s, h) == /\ h = pg.high \/ (h \in Separators(pg) /\ h > s)
                    /\ \A x \in Separators(pg) : x > s => h <= x

\* The child in slot s is active, one level down, and has the slot's fences.
Fits(P, p, s) ==
  LET c == P[p].kids[s]
  IN  /\ c \in ActiveIn(P)
      /\ P[c].level + 1 = P[p].level
      /\ P[c].low = IF s = NegInf THEN P[p].low ELSE s
      /\ IsNext(P[p], s, P[c].high)

ChildrenFit(P) == \A p \in InternalsIn(P) : \A s \in Slots(P[p]) : Fits(P, p, s)

Parented(P, r) ==
  \A c \in ActiveIn(P) \ {r} :
    \E p \in InternalsIn(P) : \E s \in Slots(P[p]) : P[p].kids[s] = c

\* Pages of one level share no key.
Apart(P) ==
  \A p, q \in ActiveIn(P) : p # q /\ P[p].level = P[q].level =>
    P[p].high <= P[q].low \/ P[q].high <= P[p].low

WellFormed(P, r) == /\ RootSpans(P, r)
                    /\ Levelled(P, r)
                    /\ Fenced(P)
                    /\ ChildrenFit(P)
                    /\ Parented(P, r)
                    /\ Apart(P)

Pages == [Page -> SoundPage]

-----------------------------------------------------------------------------
(***************************************************************************)
(* First consequences.                                                     *)
(***************************************************************************)
\* Fences, slots and levels are numbers.
LEMMA Numbers ==
  /\ NegInf = 0 /\ PosInf \in Int /\ NegInf \notin Key
  /\ \A k \in Key : k \in Int /\ NegInf < k /\ k < PosInf
  /\ \A s \in Slot : s \in Int /\ NegInf <= s /\ s < PosInf /\ (s = NegInf \/ s \in Key)
  /\ \A P \in Pages : \A p \in Page :
       /\ P[p].level \in Nat
       /\ P[p].low \in Slot /\ P[p].high \in Int /\ P[p].high <= PosInf
       /\ NegInf < P[p].high
       /\ P[p].isRoot \in BOOLEAN
       /\ P[p].kind \in {"free", "leaf", "internal", "redirect"}
       /\ \A s \in Slot : P[p].kids[s] \in Ref
       /\ \A k \in Key : P[p].recs[k] \in Val \cup {NoVal}
BY BoundsAssumption DEF Pages, SoundPage, PageRec, Key, Slot, NegInf, PosInf

LEMMA SlotNumbers ==
  ASSUME NEW pg
  PROVE  /\ Separators(pg) \subseteq Key /\ NegInf \in Slots(pg)
         /\ \A s \in Slots(pg) : s \in Slot /\ (s = NegInf \/ s \in Separators(pg))
         /\ \A s \in Separators(pg) : s \in Slots(pg)
         /\ \A s \in Key : s \in Separators(pg) <=> pg.kids[s] # Nil
BY ConstantFields DEF Separators, Slots

\* A child's range is within its parent's.
LEMMA ChildInside ==
  ASSUME NEW P \in Pages, NEW r, WellFormed(P, r), NEW p \in InternalsIn(P),
         NEW s \in Slots(P[p]), NEW c, c = P[p].kids[s], Fits(P, p, s)
  PROVE  P[p].low <= P[c].low /\ P[c].high <= P[p].high
<1>1. p \in Page /\ p \in ActiveIn(P) /\ P[p].kind = "internal"
  BY DEF InternalsIn, ActiveIn, Active
<1>2. \A x \in Separators(P[p]) : P[p].low < x /\ x < P[p].high
  BY <1>1 DEF WellFormed, Fenced, Contents
<1>3. /\ P[p].low \in Int /\ P[p].high \in Int
      /\ \A x \in Separators(P[p]) : x \in Int
  BY <1>1, Numbers, SlotNumbers
<1>4. /\ P[c].low = IF s = NegInf THEN P[p].low ELSE s
      /\ IsNext(P[p], s, P[c].high)
  BY DEF Fits
<1>5. P[p].low <= P[c].low
  BY <1>2, <1>3, <1>4, SlotNumbers
<1>6. P[c].high <= P[p].high
  BY <1>2, <1>3, <1>4 DEF IsNext
<1>7. QED
  BY <1>5, <1>6

\* A page is the child in one slot of one page.
LEMMA OneSlotEach ==
  ASSUME NEW P \in Pages, NEW r, WellFormed(P, r),
         NEW p \in InternalsIn(P), NEW q \in InternalsIn(P),
         NEW s \in Slots(P[p]), NEW u \in Slots(P[q]),
         P[p].kids[s] = P[q].kids[u]
  PROVE  p = q /\ s = u
<1> DEFINE c == P[p].kids[s]
<1>1. Fits(P, p, s) /\ Fits(P, q, u)
  BY DEF WellFormed, ChildrenFit
<1>2. p \in Page /\ q \in Page /\ p \in ActiveIn(P) /\ q \in ActiveIn(P)
      /\ P[p].kind = "internal" /\ P[q].kind = "internal"
  BY DEF InternalsIn, ActiveIn, Active
<1>3. c \in ActiveIn(P) /\ c \in Page /\ P[p].level = P[q].level
  BY <1>1, <1>2, Numbers DEF Fits, ActiveIn
<1>4. P[c].low < P[c].high
  BY <1>3 DEF WellFormed, Fenced
<1>5. \A x \in Separators(P[p]) : P[p].low < x /\ x < P[p].high
  BY <1>2 DEF WellFormed, Fenced, Contents
<1>6. \A x \in Separators(P[q]) : P[q].low < x /\ x < P[q].high
  BY <1>2 DEF WellFormed, Fenced, Contents
<1>7. /\ P[p].low <= P[c].low /\ P[c].high <= P[p].high
      /\ P[q].low <= P[c].low /\ P[c].high <= P[q].high
  BY <1>1, ChildInside
<1>8. p = q
  BY <1>2, <1>3, <1>4, <1>7, Numbers DEF WellFormed, Apart
<1>9. s = u
  BY <1>1, <1>2, <1>5, <1>8, Numbers, SlotNumbers DEF Fits
<1>10. QED
  BY <1>8, <1>9

-----------------------------------------------------------------------------
(***************************************************************************)
(* A child is split.                                                       *)
(***************************************************************************)
\* Equal but for the links.
Alike(new, old) ==
  /\ new.kind = old.kind /\ new.level = old.level /\ new.isRoot = old.isRoot
  /\ new.low = old.low /\ new.high = old.high
  /\ new.recs = old.recs /\ new.kids = old.kids

HalfBelow(new, old, sep) ==
  /\ new.kind = old.kind /\ new.level = old.level /\ ~new.isRoot
  /\ new.low = old.low /\ new.high = sep
  /\ new.kind = "leaf" =>
       \A k \in Key : new.recs[k] = IF k < sep THEN old.recs[k] ELSE NoVal
  /\ new.kind = "internal" =>
       \A s \in Slot : new.kids[s] = IF s < sep THEN old.kids[s] ELSE Nil

HalfAbove(new, old, sep) ==
  /\ new.kind = old.kind /\ new.level = old.level /\ ~new.isRoot
  /\ new.low = sep /\ new.high = old.high
  /\ new.kind = "leaf" =>
       \A k \in Key : new.recs[k] = IF k < sep THEN NoVal ELSE old.recs[k]
  /\ new.kind = "internal" =>
       \A s \in Slot : new.kids[s] = IF s = NegInf THEN old.kids[sep]
                                     ELSE IF s > sep THEN old.kids[s] ELSE Nil

\* The child c in slot s of p becomes a, below sep, and b, from sep on.  One of
\* them is c itself, the other was not active.
ChildSplits(P, Q, p, s, sep, c, a, b) ==
  /\ p \in InternalsIn(P) /\ s \in Slots(P[p]) /\ c = P[p].kids[s]
  /\ sep \in Key /\ P[c].low < sep /\ sep < P[c].high
  /\ P[c].kind = "internal" => sep \in Separators(P[c])
  /\ a \in Page /\ b \in Page /\ a # b
  /\ \A x \in {a, b} : x = c \/ x \notin ActiveIn(P)
  /\ c \in {a, b}
  /\ HalfBelow(Q[a], P[c], sep) /\ HalfAbove(Q[b], P[c], sep)
  /\ /\ Q[p].kind = P[p].kind /\ Q[p].level = P[p].level
     /\ Q[p].isRoot = P[p].isRoot
     /\ Q[p].low = P[p].low /\ Q[p].high = P[p].high
     /\ \A x \in Slot : Q[p].kids[x] = IF x = s THEN a ELSE IF x = sep THEN b
                                       ELSE P[p].kids[x]
  /\ \A x \in Page \ {a, b, p} : Alike(Q[x], P[x])

\* What holds of the pages involved, and which pages and slots there are after.
LEMMA SplitFacts ==
  ASSUME NEW P \in Pages, NEW Q \in Pages, NEW r, WellFormed(P, r),
         NEW p, NEW s, NEW sep, NEW c, NEW a, NEW b,
         ChildSplits(P, Q, p, s, sep, c, a, b)
  PROVE  /\ p \in Page /\ c \in Page /\ a \in Page /\ b \in Page
         /\ c \in ActiveIn(P) /\ p \in ActiveIn(P)
         /\ p \notin {a, b, c} /\ r \notin {a, b, c}
         /\ Fits(P, p, s) /\ s \in Slot /\ sep \in Key /\ sep \in Int /\ s \in Int
         /\ s < sep /\ sep \notin Slots(P[p])
         /\ P[p].low < sep /\ sep < P[p].high
         /\ \A x \in Separators(P[p]) : x > s => P[c].high <= x
         /\ Separators(Q[p]) = Separators(P[p]) \cup {sep}
         /\ Slots(Q[p]) = Slots(P[p]) \cup {sep}
         /\ ActiveIn(Q) = ActiveIn(P) \cup {a, b}
         /\ \A x \in ActiveIn(P) \ {c} :
              /\ x \in ActiveIn(Q) /\ x \notin {a, b}
              /\ Q[x].kind = P[x].kind /\ Q[x].level = P[x].level
              /\ Q[x].low = P[x].low /\ Q[x].high = P[x].high
         /\ \A x \in ActiveIn(P) \ {c, p} : Q[x].kids = P[x].kids /\ Q[x].recs = P[x].recs
<1> USE DEF ChildSplits
<1>1. p \in Page /\ p \in ActiveIn(P) /\ a \in Page /\ b \in Page /\ sep \in Key
      /\ P[p].kind = "internal"
  BY DEF InternalsIn, ActiveIn, Active
<1>2. Fits(P, p, s) /\ c \in ActiveIn(P) /\ c \in Page /\ P[c].level + 1 = P[p].level
  BY DEF WellFormed, ChildrenFit, Fits, ActiveIn
<1>3. p # c /\ r # c
  <2>1. P[p].level \in Nat /\ P[c].level \in Nat
    BY <1>1, <1>2, Numbers
  <2>2. P[p].level <= P[r].level /\ P[r].level \in Nat
    BY <1>1, Numbers DEF WellFormed, Levelled, RootSpans, ActiveIn
  <2>3. QED
    BY <1>2, <2>1, <2>2
<1>4. p \notin {a, b, c} /\ r \notin {a, b, c}
  BY <1>1, <1>3 DEF WellFormed, RootSpans
<1>5. s \in Slot /\ s \in Int /\ sep \in Int
      /\ P[c].low \in Int /\ P[c].high \in Int /\ P[p].low \in Int /\ P[p].high \in Int
  BY <1>1, <1>2, SlotNumbers, Numbers
<1>6. s < sep /\ \A x \in Separators(P[p]) : x > s => P[c].high <= x
  BY <1>1, <1>2, <1>5, Numbers DEF Fits, IsNext
<1>7. sep \notin Slots(P[p])
  BY <1>5, <1>6, SlotNumbers, Numbers
<1>8. P[p].low < sep /\ sep < P[p].high
  <2>1. \A x \in Separators(P[p]) : P[p].low < x /\ x < P[p].high
    BY <1>1 DEF WellFormed, Fenced, Contents
  <2>2. P[p].low <= P[c].low /\ P[c].high <= P[p].high
    BY <1>1, <1>2, ChildInside
  <2>3. QED
    BY <1>5, <2>2
<1>9. Separators(Q[p]) = Separators(P[p]) \cup {sep}
  <2>1. a # Nil /\ b # Nil
    BY <1>1, ConstantFields
  <2>2. \A x \in Key : Q[p].kids[x] # Nil <=> (P[p].kids[x] # Nil \/ x = sep)
    <3> TAKE x \in Key
    <3>1. x \in Slot
      BY ConstantFields
    <3>2. x = s => P[p].kids[x] # Nil
      BY <1>2, ConstantFields DEF Fits
    <3>3. QED
      BY <2>1, <3>1, <3>2
  <2>3. QED
    BY <1>1, <2>2 DEF Separators
<1>10. Slots(Q[p]) = Slots(P[p]) \cup {sep}
  BY <1>9 DEF Slots
<1>11. ActiveIn(Q) = ActiveIn(P) \cup {a, b}
  <2>1. \A x \in Page \ {a, b} : Active(Q[x]) <=> Active(P[x])
    BY DEF Alike, Active
  <2>2. Active(Q[a]) /\ Active(Q[b])
    BY <1>2 DEF ActiveIn, Active, HalfBelow, HalfAbove
  <2>3. QED
    BY <1>1, <2>1, <2>2 DEF ActiveIn
<1>12. \A x \in ActiveIn(P) \ {c} :
         /\ x \in ActiveIn(Q) /\ x \notin {a, b}
         /\ Q[x].kind = P[x].kind /\ Q[x].level = P[x].level
         /\ Q[x].low = P[x].low /\ Q[x].high = P[x].high
  <2>1. \A x \in ActiveIn(P) \ {c} : x \in Page /\ x \notin {a, b}
    BY DEF ActiveIn
  <2>2. QED
    BY <1>11, <2>1 DEF Alike
<1>13. \A x \in ActiveIn(P) \ {c, p} : Q[x].kids = P[x].kids /\ Q[x].recs = P[x].recs
  BY <1>12 DEF Alike, ActiveIn
<1> HIDE DEF ChildSplits
<1>14. QED
  BY <1>1, <1>2, <1>3, <1>4, <1>5, <1>6, <1>7, <1>8, <1>9, <1>10, <1>11, <1>12, <1>13

\* The slots of the two halves of an internal page.
HaveSlotsOf(lower, upper, old, sep) ==
  /\ Separators(lower) = {x \in Separators(old) : x < sep}
  /\ Separators(upper) = {x \in Separators(old) : x > sep}
  /\ \A x \in Slots(lower) :
       x \in Slots(old) /\ x < sep /\ lower.kids[x] = old.kids[x]
  /\ \A x \in Slots(upper) :
       IF x = NegInf THEN upper.kids[x] = old.kids[sep]
       ELSE x \in Slots(old) /\ x > sep /\ upper.kids[x] = old.kids[x]

LEMMA HalvesSlots ==
  ASSUME NEW old, NEW sep \in Separators(old), NEW lower, NEW upper,
         old.kind = "internal", HalfBelow(lower, old, sep), HalfAbove(upper, old, sep)
  PROVE  HaveSlotsOf(lower, upper, old, sep)
<1>1. sep \in Key /\ Key \subseteq Slot
  BY SlotNumbers, ConstantFields
<1>2. Separators(lower) = {x \in Separators(old) : x < sep}
  BY <1>1 DEF HalfBelow, Separators
<1>3. Separators(upper) = {x \in Separators(old) : x > sep}
  BY <1>1, Numbers DEF HalfAbove, Separators
<1>4. QED
  BY <1>1, <1>2, <1>3, Numbers, SlotNumbers DEF HalfBelow, HalfAbove, Slots,
                                                              HaveSlotsOf

\* The children of the page whose child is split.
LEMMA SplitParentFits ==
  ASSUME NEW P \in Pages, NEW Q \in Pages, NEW r, WellFormed(P, r),
         NEW p, NEW s, NEW sep, NEW c, NEW a, NEW b,
         ChildSplits(P, Q, p, s, sep, c, a, b),
         NEW u \in Slots(Q[p])
  PROVE  Fits(Q, p, u)
<1>1. /\ p \in Page /\ c \in Page /\ a \in Page /\ b \in Page
      /\ c \in ActiveIn(P) /\ p \in ActiveIn(P)
      /\ p \notin {a, b, c}
      /\ Fits(P, p, s) /\ s \in Slot /\ sep \in Key /\ sep \in Int /\ s \in Int
      /\ s < sep /\ sep \notin Slots(P[p])
      /\ \A x \in Separators(P[p]) : x > s => P[c].high <= x
      /\ Separators(Q[p]) = Separators(P[p]) \cup {sep}
      /\ Slots(Q[p]) = Slots(P[p]) \cup {sep}
      /\ ActiveIn(Q) = ActiveIn(P) \cup {a, b}
  BY SplitFacts, SMTT(30)
<1>2. \A x \in ActiveIn(P) \ {c} :
              /\ x \in ActiveIn(Q) /\ x \notin {a, b}
              /\ Q[x].kind = P[x].kind /\ Q[x].level = P[x].level
              /\ Q[x].low = P[x].low /\ Q[x].high = P[x].high
  BY SplitFacts
<1>3. /\ p \in InternalsIn(P) /\ s \in Slots(P[p]) /\ c = P[p].kids[s]
      /\ P[c].low < sep /\ sep < P[c].high
      /\ Q[a].level = P[c].level /\ Q[a].low = P[c].low /\ Q[a].high = sep
      /\ Q[b].level = P[c].level /\ Q[b].low = sep /\ Q[b].high = P[c].high
      /\ Q[p].level = P[p].level /\ Q[p].low = P[p].low /\ Q[p].high = P[p].high
      /\ \A x \in Slot : Q[p].kids[x] = IF x = s THEN a ELSE IF x = sep THEN b
                                        ELSE P[p].kids[x]
  BY DEF ChildSplits, HalfBelow, HalfAbove
<1>4. P[c].high \in Int
  BY <1>1, Numbers
<1>5. CASE u = s
  <2>1. Q[p].kids[u] = a
    BY <1>1, <1>3, <1>5
  <2>2. IsNext(Q[p], u, Q[a].high)
    <3>1. \A x \in Separators(P[p]) : x \in Int
      BY SlotNumbers, Numbers
    <3>2. QED
      BY <1>1, <1>3, <1>4, <1>5, <3>1 DEF IsNext
  <2>3. QED
    BY <1>1, <1>3, <1>5, <2>1, <2>2 DEF Fits
<1>6. CASE u = sep
  <2>1. Q[p].kids[u] = b
    BY <1>1, <1>3, <1>6, ConstantFields
  <2>2. IsNext(Q[p], u, Q[b].high)
    <3>1. \A x \in Separators(P[p]) : x \in Int
      BY SlotNumbers, Numbers
    <3>2. IsNext(P[p], s, P[c].high)
      BY <1>1, <1>3 DEF Fits
    <3>3. \A x \in Separators(Q[p]) : x > sep => x \in Separators(P[p]) /\ x > s
      BY <1>1, <3>1
    <3>4. P[c].high = P[p].high \/ (P[c].high \in Separators(P[p]) /\ P[c].high > s)
      BY <3>2 DEF IsNext
    <3>5. P[c].high = Q[p].high \/ (P[c].high \in Separators(Q[p]) /\ P[c].high > sep)
      BY <1>1, <1>3, <3>4
    <3>6. IsNext(Q[p], sep, P[c].high)
      BY <3>2, <3>3, <3>5 DEF IsNext
    <3>7. QED
      BY <1>3, <1>6, <3>6
  <2>3. u # NegInf
    BY <1>1, <1>6, Numbers
  <2>4. QED
    BY <1>1, <1>3, <1>6, <2>1, <2>2, <2>3 DEF Fits
<1>7. CASE u # s /\ u # sep
  <2> DEFINE d == P[p].kids[u]
  <2>1. u \in Slots(P[p]) /\ u \in Slot
    BY <1>1, <1>7, SlotNumbers
  <2>2. Q[p].kids[u] = d
    BY <1>3, <1>7, <2>1
  <2>3. Fits(P, p, u)
    BY <1>3, <2>1 DEF WellFormed, ChildrenFit
  <2>4. d \in ActiveIn(P) /\ d # c
    BY <1>3, <1>7, <2>1, <2>3, OneSlotEach DEF Fits
  <2>5. /\ d \in ActiveIn(Q) /\ Q[d].level = P[d].level
        /\ Q[d].low = P[d].low /\ Q[d].high = P[d].high
    BY <1>2, <2>4
  <2>6. IsNext(Q[p], u, P[d].high)
    <3>1. IsNext(P[p], u, P[d].high)
      BY <2>3 DEF Fits
    <3>2. u \in Int /\ P[d].high \in Int
      BY <2>1, <2>4, Numbers DEF ActiveIn
    <3>3. sep > u => P[d].high <= sep
      <4>1. CASE u < s
        <5>1. s \in Separators(P[p])
          BY <1>1, <1>3, <2>1, <3>2, <4>1, SlotNumbers, Numbers
        <5>2. P[d].high <= s
          BY <1>1, <3>1, <3>2, <4>1, <5>1 DEF IsNext
        <5>3. QED
          BY <1>1, <3>2, <5>2
      <4>2. CASE u > s
        <5>1. u \in Separators(P[p])
          BY <1>1, <2>1, <3>2, <4>2, SlotNumbers, Numbers
        <5>2. P[c].high <= u
          BY <1>1, <3>2, <4>2, <5>1
        <5>3. QED
          BY <1>1, <1>3, <1>4, <3>2, <5>2
      <4>3. QED
        BY <1>1, <1>7, <3>2, <4>1, <4>2
    <3>4. QED
      BY <1>1, <1>3, <3>1, <3>2, <3>3 DEF IsNext
  <2>7. QED
    BY <1>3, <2>2, <2>3, <2>5, <2>6 DEF Fits
<1>8. QED
  BY <1>5, <1>6, <1>7

\* The children of all other pages, the two halves among them.
LEMMA SplitOthersFit ==
  ASSUME NEW P \in Pages, NEW Q \in Pages, NEW r, WellFormed(P, r),
         NEW p, NEW s, NEW sep, NEW c, NEW a, NEW b,
         ChildSplits(P, Q, p, s, sep, c, a, b),
         NEW q \in InternalsIn(Q) \ {p}, NEW u \in Slots(Q[q])
  PROVE  Fits(Q, q, u)
<1>1. /\ p \in Page /\ c \in Page /\ a \in Page /\ b \in Page
      /\ c \in ActiveIn(P)
      /\ sep \in Key /\ sep \in Int
      /\ ActiveIn(Q) = ActiveIn(P) \cup {a, b}
  BY SplitFacts
<1>2. \A x \in ActiveIn(P) \ {c} :
              /\ x \in ActiveIn(Q) /\ x \notin {a, b}
              /\ Q[x].kind = P[x].kind /\ Q[x].level = P[x].level
              /\ Q[x].low = P[x].low /\ Q[x].high = P[x].high
  BY SplitFacts
<1>3. \A x \in ActiveIn(P) \ {c, p} : Q[x].kids = P[x].kids
  BY SplitFacts
<1>4. /\ p \in InternalsIn(P) /\ s \in Slots(P[p]) /\ c = P[p].kids[s]
      /\ P[c].low < sep /\ sep < P[c].high
      /\ P[c].kind = "internal" => sep \in Separators(P[c])
      /\ HalfBelow(Q[a], P[c], sep) /\ HalfAbove(Q[b], P[c], sep)
  BY DEF ChildSplits
<1>5. CASE q \in {a, b}
  <2>1. /\ P[c].kind = "internal" /\ sep \in Separators(P[c]) /\ c \in InternalsIn(P)
        /\ Q[q].level = P[c].level
    BY <1>1, <1>4, <1>5, ZenonT(40) DEF HalfBelow, HalfAbove, InternalsIn
  <2>a. /\ Separators(Q[a]) = {x \in Separators(P[c]) : x < sep}
        /\ Separators(Q[b]) = {x \in Separators(P[c]) : x > sep}
        /\ \A x \in Slots(Q[a]) :
             x \in Slots(P[c]) /\ x < sep /\ Q[a].kids[x] = P[c].kids[x]
        /\ \A x \in Slots(Q[b]) :
             IF x = NegInf THEN Q[b].kids[x] = P[c].kids[sep]
             ELSE x \in Slots(P[c]) /\ x > sep /\ Q[b].kids[x] = P[c].kids[x]
    <3>1. /\ sep \in Separators(P[c]) /\ P[c].kind = "internal"
          /\ HalfBelow(Q[a], P[c], sep) /\ HalfAbove(Q[b], P[c], sep)
      BY <1>4, <2>1
    <3>2. HaveSlotsOf(Q[a], Q[b], P[c], sep)
      BY <3>1, HalvesSlots
    <3>3. QED
      BY <3>2 DEF HaveSlotsOf
  <2>2. PICK v \in Slots(P[c]) : /\ Q[q].kids[u] = P[c].kids[v]
                                 /\ q = a => v = u /\ v < sep
                                 /\ q = b => v = IF u = NegInf THEN sep ELSE u
                                 /\ q = b => v >= sep
    <3>1. CASE q = a
      <4>1. u \in Slots(P[c]) /\ u < sep /\ Q[q].kids[u] = P[c].kids[u]
        BY <2>a, <3>1
      <4>2. a # b
        BY DEF ChildSplits
      <4>3. QED
        BY <3>1, <4>1, <4>2
    <3>2. CASE q = b
      <4>1. IF u = NegInf THEN Q[b].kids[u] = P[c].kids[sep]
            ELSE u \in Slots(P[c]) /\ u > sep /\ Q[b].kids[u] = P[c].kids[u]
        BY <2>a, <3>2
      <4>2. a # b
        BY DEF ChildSplits
      <4>3. sep \in Slots(P[c])
        BY <2>1, SlotNumbers
      <4>4. u \in Int
        BY SlotNumbers, Numbers
      <4>5. QED
        BY <1>1, <3>2, <4>1, <4>2, <4>3, <4>4
    <3>3. QED
      BY <1>5, <3>1, <3>2
  <2> DEFINE d == P[c].kids[v]
  <2>3. Fits(P, c, v)
    BY <2>1, <2>2 DEF WellFormed, ChildrenFit
  <2>4. d \in ActiveIn(P) /\ P[d].level + 1 = P[c].level /\ P[d].level \in Nat
        /\ P[d].high \in Int /\ P[c].high \in Int
    BY <1>1, <2>3, Numbers DEF Fits, ActiveIn
  <2>5. d # c
    BY <2>4
  <2>6. /\ d \in ActiveIn(Q) /\ Q[d].level = P[d].level
        /\ Q[d].low = P[d].low /\ Q[d].high = P[d].high
    BY <1>2, <2>4, <2>5
  <2>7. /\ Separators(Q[a]) = {x \in Separators(P[c]) : x < sep}
        /\ Separators(Q[b]) = {x \in Separators(P[c]) : x > sep}
    BY <2>a
  <2>8. u \in Slot /\ v \in Slot /\ u \in Int /\ v \in Int
        /\ \A x \in Separators(P[c]) : x \in Int /\ NegInf < x
        /\ NegInf \in Int
    BY SlotNumbers, Numbers
  <2>9. CASE q = a
    <3>1. IsNext(Q[a], u, P[d].high)
      <4>1. IsNext(P[c], u, P[d].high) /\ Q[a].high = sep /\ u < sep
        BY <1>4, <2>2, <2>3, <2>9 DEF HalfBelow, Fits
      <4>2. P[d].high <= sep
        BY <1>1, <2>1, <2>4, <2>8, <4>1 DEF IsNext
      <4>3. P[d].high = sep \/ P[d].high < P[c].high
        <5>1. sep < P[c].high /\ sep \in Int /\ P[c].high \in Int
          BY <1>1, <1>4, <2>4
        <5>2. P[d].high \in Int
          BY <2>4
        <5> HIDE DEF d
        <5>3. QED
          BY <4>2, <5>1, <5>2
      <4>4. P[d].high = sep \/ (P[d].high \in Separators(Q[a]) /\ P[d].high > u)
        BY <1>1, <2>4, <2>7, <2>8, <4>1, <4>2, <4>3, SMTT(30) DEF IsNext
      <4>5. QED
        BY <2>7, <4>1, <4>4 DEF IsNext
    <3>2. QED
      BY <1>4, <2>2, <2>3, <2>6, <2>9, <3>1, ZenonT(40) DEF Fits, HalfBelow
  <2>10. CASE q = b
    <3>1. IsNext(Q[b], u, P[d].high)
      <4>1. \A x \in Separators(Q[b]) : x > v /\ x > u <=> x > v
        BY <1>1, <2>2, <2>7, <2>8, <2>10
      <4>2. IsNext(P[c], v, P[d].high) /\ Q[b].high = P[c].high
        BY <1>4, <2>3 DEF Fits, HalfAbove
      <4>3. P[d].high = Q[b].high \/ (P[d].high \in Separators(Q[b]) /\ P[d].high > u)
        BY <1>1, <2>2, <2>4, <2>7, <2>8, <2>10, <4>2, SMTT(30) DEF IsNext
      <4>4. \A x \in Separators(Q[b]) : x > u => P[d].high <= x
        <5> SUFFICES ASSUME NEW x \in Separators(Q[b]), x > u PROVE P[d].high <= x
          OBVIOUS
        <5>1. x \in Separators(P[c]) /\ x > sep /\ x \in Int
          BY <2>7, <2>8
        <5>2. x > v
          BY <1>1, <2>2, <2>8, <2>10, <5>1
        <5>3. QED
          BY <4>2, <5>1, <5>2 DEF IsNext
      <4>5. QED
        BY <4>3, <4>4 DEF IsNext
    <3>2. P[d].low = IF u = NegInf THEN Q[b].low ELSE u
      <4>1. v # NegInf
        BY <1>1, <2>2, <2>10, Numbers
      <4>2. P[d].low = v
        BY <2>3, <4>1 DEF Fits
      <4>3. Q[b].low = sep
        BY <1>4 DEF HalfAbove
      <4>4. QED
        BY <2>2, <2>10, <4>2, <4>3
    <3>3. QED
      BY <1>4, <2>2, <2>3, <2>6, <2>10, <3>1, <3>2 DEF Fits, HalfAbove
  <2>11. QED
    BY <1>5, <2>9, <2>10
<1>6. CASE q \notin {a, b}
  <2>1. q \in ActiveIn(P) /\ q \in Page
    BY <1>1, <1>6 DEF InternalsIn, ActiveIn, Active
  <2>2. q # c
    BY <1>6 DEF ChildSplits
  <2>3. /\ q \in InternalsIn(P) /\ Q[q].kids = P[q].kids /\ Q[q].level = P[q].level
        /\ Q[q].low = P[q].low /\ Q[q].high = P[q].high
    BY <1>2, <1>3, <2>1, <2>2 DEF InternalsIn
  <2>4. Separators(Q[q]) = Separators(P[q]) /\ Slots(Q[q]) = Slots(P[q])
    BY <2>3 DEF Separators, Slots
  <2> DEFINE d == P[q].kids[u]
  <2>5. Fits(P, q, u)
    BY <2>3, <2>4 DEF WellFormed, ChildrenFit
  <2>6. d \in ActiveIn(P) /\ d # c
    BY <1>4, <2>3, <2>4, <2>5, OneSlotEach DEF Fits
  <2>7. /\ d \in ActiveIn(Q) /\ Q[d].level = P[d].level
        /\ Q[d].low = P[d].low /\ Q[d].high = P[d].high
    BY <1>2, <2>6
  <2>8. QED
    BY <2>3, <2>4, <2>5, <2>7 DEF Fits, IsNext
<1>7. QED
  BY <1>5, <1>6

\* Every page but the root has a parent, the two halves among them.
LEMMA SplitParented ==
  ASSUME NEW P \in Pages, NEW Q \in Pages, NEW r, WellFormed(P, r),
         NEW p, NEW s, NEW sep, NEW c, NEW a, NEW b,
         ChildSplits(P, Q, p, s, sep, c, a, b)
  PROVE  Parented(Q, r)
<1>1. /\ p \in Page /\ c \in Page /\ a \in Page /\ b \in Page
      /\ c \in ActiveIn(P) /\ p \in ActiveIn(P)
      /\ s \in Slot /\ sep \in Slot /\ sep \in Int
      /\ sep \notin Slots(P[p]) /\ sep # NegInf
      /\ Slots(Q[p]) = Slots(P[p]) \cup {sep}
      /\ ActiveIn(Q) = ActiveIn(P) \cup {a, b}
  <2>1. sep \in Key /\ sep \in Int /\ s \in Slot
    BY SplitFacts
  <2>2. sep \in Slot /\ sep # NegInf
    BY <2>1, Numbers, ConstantFields
  <2>3. QED
    BY <2>1, <2>2, SplitFacts
<1>2. \A x \in ActiveIn(P) \ {c} :
              /\ x \in ActiveIn(Q) /\ x \notin {a, b}
              /\ Q[x].kind = P[x].kind /\ Q[x].level = P[x].level
  BY SplitFacts
<1>3. \A x \in ActiveIn(P) \ {c, p} : Q[x].kids = P[x].kids
  BY SplitFacts
<1>4. /\ p \in InternalsIn(P) /\ s \in Slots(P[p]) /\ c = P[p].kids[s]
      /\ P[c].kind = "internal" => sep \in Separators(P[c])
      /\ HalfBelow(Q[a], P[c], sep) /\ HalfAbove(Q[b], P[c], sep)
      /\ Q[p].kind = P[p].kind /\ a # b
      /\ \A x \in Slot : Q[p].kids[x] = IF x = s THEN a ELSE IF x = sep THEN b
                                        ELSE P[p].kids[x]
  BY DEF ChildSplits
<1> DEFINE Up(d) == \E q \in InternalsIn(Q) : \E u \in Slots(Q[q]) : Q[q].kids[u] = d
<1>5. p \in InternalsIn(Q)
  BY <1>4 DEF InternalsIn
<1>6. Up(a) /\ Up(b)
  <2>1. /\ s \in Slots(Q[p]) /\ Q[p].kids[s] = a
        /\ sep \in Slots(Q[p]) /\ Q[p].kids[sep] = b
    BY <1>1, <1>4
  <2>2. QED
    BY <1>5, <2>1
<1>7. ASSUME NEW d \in ActiveIn(P) \ {c}, d # r PROVE Up(d)
  <2>1. PICK q \in InternalsIn(P) : \E u \in Slots(P[q]) : P[q].kids[u] = d
    BY <1>7 DEF WellFormed, Parented
  <2>2. PICK u \in Slots(P[q]) : P[q].kids[u] = d
    BY <2>1
  <2>3. q \in ActiveIn(P) /\ u \in Slot /\ q \in Page
    BY SlotNumbers DEF InternalsIn, ActiveIn, Active
  <2>4. CASE q = p
    <3>1. u # s /\ u # sep
      BY <1>1, <1>4, <2>2, <2>4
    <3>2. u \in Slots(Q[p]) /\ Q[p].kids[u] = d
      BY <1>1, <1>4, <2>2, <2>3, <2>4, <3>1
    <3>3. QED
      BY <1>5, <3>2
  <2>5. CASE q = c
    <3>1. /\ sep \in Separators(P[c]) /\ P[c].kind = "internal"
          /\ HalfBelow(Q[a], P[c], sep) /\ HalfAbove(Q[b], P[c], sep)
      BY <1>4, <2>5 DEF InternalsIn
    <3>2. HaveSlotsOf(Q[a], Q[b], P[c], sep)
      BY <3>1, HalvesSlots
    <3>3. a \in InternalsIn(Q) /\ b \in InternalsIn(Q)
      BY <1>1, <3>1 DEF HalfBelow, HalfAbove, InternalsIn
    <3>4. u \in Int /\ (u = NegInf \/ u \in Separators(P[c])) /\ NegInf < sep
      BY <1>1, <2>5, SlotNumbers, Numbers
    <3>5. CASE u < sep
      <4>1. u \in Slots(Q[a])
        BY <3>2, <3>4, <3>5 DEF HaveSlotsOf, Slots
      <4>2. Q[a].kids[u] = d
        BY <2>2, <2>5, <3>2, <4>1 DEF HaveSlotsOf
      <4>3. QED
        BY <3>3, <4>1, <4>2
    <3>6. CASE u = sep
      <4>1. NegInf \in Slots(Q[b]) /\ Q[b].kids[NegInf] = d
        BY <2>2, <2>5, <3>2, <3>6, SlotNumbers DEF HaveSlotsOf
      <4>2. QED
        BY <3>3, <4>1
    <3>7. CASE u > sep
      <4>1. u \in Slots(Q[b]) /\ u # NegInf
        BY <1>1, <3>2, <3>4, <3>7, Numbers DEF HaveSlotsOf, Slots
      <4>2. Q[b].kids[u] = d
        BY <2>2, <2>5, <3>2, <4>1 DEF HaveSlotsOf
      <4>3. QED
        BY <3>3, <4>1, <4>2
    <3>8. QED
      BY <1>1, <3>4, <3>5, <3>6, <3>7
  <2>6. CASE q # p /\ q # c
    <3>1. q \in InternalsIn(Q) /\ Q[q].kids = P[q].kids
      BY <1>2, <1>3, <2>3, <2>6 DEF InternalsIn
    <3>2. u \in Slots(Q[q]) /\ Q[q].kids[u] = d
      BY <2>2, <3>1 DEF Slots, Separators
    <3>3. QED
      BY <3>1, <3>2
  <2>7. QED
    BY <2>4, <2>5, <2>6
<1>8. \A d \in ActiveIn(Q) \ {r} : Up(d)
  <2> SUFFICES ASSUME NEW d \in ActiveIn(Q) \ {r} PROVE Up(d)
    OBVIOUS
  <2>1. d \in {a, b} \/ (d \in ActiveIn(P) /\ d # c)
    BY <1>1 DEF ChildSplits
  <2> HIDE DEF Up
  <2>2. QED
    BY <1>6, <1>7, <2>1
<1>9. QED
  BY <1>8 DEF Parented

\* Fences, levels and ranges after the split.
LEMMA SplitRanges ==
  ASSUME NEW P \in Pages, NEW Q \in Pages, NEW r, WellFormed(P, r),
         NEW p, NEW s, NEW sep, NEW c, NEW a, NEW b,
         ChildSplits(P, Q, p, s, sep, c, a, b)
  PROVE  RootSpans(Q, r) /\ Levelled(Q, r) /\ Fenced(Q) /\ Apart(Q)
<1>1. /\ p \in Page /\ c \in Page /\ a \in Page /\ b \in Page
      /\ c \in ActiveIn(P) /\ p \in ActiveIn(P)
      /\ p \notin {a, b, c} /\ r \notin {a, b, c}
      /\ sep \in Key /\ sep \in Int
      /\ P[p].low < sep /\ sep < P[p].high
      /\ Separators(Q[p]) = Separators(P[p]) \cup {sep}
      /\ ActiveIn(Q) = ActiveIn(P) \cup {a, b}
  BY SplitFacts
<1>2. \A x \in ActiveIn(P) \ {c} :
              /\ x \in ActiveIn(Q) /\ x \notin {a, b}
              /\ Q[x].kind = P[x].kind /\ Q[x].level = P[x].level
              /\ Q[x].low = P[x].low /\ Q[x].high = P[x].high
  BY SplitFacts
<1>3. \A x \in ActiveIn(P) \ {c, p} : Q[x].kids = P[x].kids /\ Q[x].recs = P[x].recs
  BY SplitFacts
<1>4. /\ p \in InternalsIn(P)
      /\ P[c].low < sep /\ sep < P[c].high
      /\ P[c].kind = "internal" => sep \in Separators(P[c])
      /\ HalfBelow(Q[a], P[c], sep) /\ HalfAbove(Q[b], P[c], sep)
      /\ Q[p].kind = P[p].kind /\ Q[p].isRoot = P[p].isRoot /\ a # b
      /\ c \in {a, b}
  BY DEF ChildSplits
<1>5. /\ Q[a].kind = P[c].kind /\ Q[a].level = P[c].level /\ ~Q[a].isRoot
      /\ Q[a].low = P[c].low /\ Q[a].high = sep
      /\ Q[b].kind = P[c].kind /\ Q[b].level = P[c].level /\ ~Q[b].isRoot
      /\ Q[b].low = sep /\ Q[b].high = P[c].high
  BY <1>4 DEF HalfBelow, HalfAbove
<1>6. \A x \in ActiveIn(P) : x \in Page /\ P[x].low \in Int /\ P[x].high \in Int
                             /\ P[x].low < P[x].high /\ P[x].level \in Nat
  BY Numbers DEF WellFormed, Fenced, ActiveIn
<1>7. RootSpans(Q, r)
  <2>1. r \in ActiveIn(P) \ {c} /\ P[r].low = NegInf /\ P[r].high = PosInf
    BY <1>1 DEF WellFormed, RootSpans
  <2>2. \A x \in Page : Q[x].isRoot <=> x = r
    <3> TAKE x \in Page
    <3>1. P[x].isRoot <=> x = r
      BY DEF WellFormed, RootSpans
    <3>2. x \in Page \ {a, b, p} => Q[x].isRoot = P[x].isRoot
      BY DEF ChildSplits, Alike
    <3>3. QED
      BY <1>1, <1>4, <1>5, <3>1, <3>2
  <2>3. QED
    BY <1>2, <2>1, <2>2 DEF RootSpans
<1>8. Levelled(Q, r)
  <2>1. r \in ActiveIn(P) \ {c}
    BY <1>1 DEF WellFormed, RootSpans
  <2>2. /\ P[c].kind = "leaf" <=> P[c].level = 0
        /\ P[c].level < P[r].level
    BY <1>1 DEF WellFormed, Levelled
  <2>3. \A x \in ActiveIn(P) \ {c} :
          /\ Q[x].kind = "leaf" <=> Q[x].level = 0
          /\ x # r => Q[x].level < Q[r].level
    BY <1>2, <2>1 DEF WellFormed, Levelled
  <2>4. \A x \in ActiveIn(Q) : x \in {a, b} \/ x \in ActiveIn(P) \ {c}
    BY <1>1, <1>4
  <2>5. QED
    BY <1>2, <1>5, <2>1, <2>2, <2>3, <2>4 DEF Levelled
<1>9. Fenced(Q)
  <2> SUFFICES ASSUME NEW x \in ActiveIn(Q)
               PROVE  /\ Q[x].low < Q[x].high
                      /\ \A k \in Contents(Q[x]) :
                           /\ Q[x].low <= k /\ k < Q[x].high
                           /\ Q[x].kind = "internal" => Q[x].low < k
    BY DEF Fenced
  <2>1. \A k \in Contents(P[c]) : /\ P[c].low <= k /\ k < P[c].high /\ k \in Int
                                  /\ P[c].kind = "internal" => P[c].low < k
    BY <1>1, ContentsAreKeys, Numbers DEF WellFormed, Fenced
  <2>2. CASE x = a
    <3>1. \A k \in Contents(Q[a]) : k \in Contents(P[c]) /\ k < sep
      <4>1. CASE P[c].kind = "leaf"
        <5>1. \A k \in Records(Q[a]) : k \in Records(P[c]) /\ k < sep
          BY <1>4, <4>1 DEF HalfBelow, Records
        <5>2. Contents(Q[a]) = Records(Q[a]) /\ Contents(P[c]) = Records(P[c])
          BY <1>5, <4>1 DEF Contents
        <5>3. QED
          BY <5>1, <5>2
      <4>2. CASE P[c].kind = "internal"
        <5>1. HaveSlotsOf(Q[a], Q[b], P[c], sep)
          BY <1>4, <4>2, HalvesSlots
        <5>2. \A k \in Separators(Q[a]) : k \in Separators(P[c]) /\ k < sep
          BY <5>1 DEF HaveSlotsOf
        <5>3. /\ Contents(Q[a]) = Separators(Q[a])
              /\ Contents(P[c]) = Separators(P[c])
          BY <1>5, <4>2 DEF Contents
        <5>4. QED
          BY <5>2, <5>3
      <4>3. QED
        BY <1>1, <4>1, <4>2 DEF ActiveIn, Active
    <3>2. QED
      BY <1>4, <1>5, <2>1, <2>2, <3>1
  <2>3. CASE x = b
    <3>1. \A k \in Contents(Q[b]) : /\ k \in Contents(P[c]) /\ k >= sep
                                    /\ P[c].kind = "internal" => k > sep
      <4>1. ASSUME P[c].kind = "leaf"
            PROVE  \A k \in Records(Q[b]) : k \in Records(P[c]) /\ k >= sep
        <5>1. \A k \in Key :
                Q[b].recs[k] = IF k < sep THEN NoVal ELSE P[c].recs[k]
          BY <1>4, <4>1 DEF HalfAbove
        <5>2. ASSUME NEW k \in Records(Q[b]) PROVE k \in Records(P[c]) /\ k >= sep
          <6>1. k \in Key /\ Q[b].recs[k] # NoVal
            BY <5>2 DEF Records
          <6>2. ~(k < sep) /\ P[c].recs[k] # NoVal
            BY ONLY <5>1, <6>1
          <6>3. k \in Int /\ sep \in Int
            BY <1>1, <6>1, Numbers
          <6>4. QED
            BY <6>1, <6>2, <6>3 DEF Records
        <5>3. QED
          BY <5>2
      <4>2. P[c].kind = "internal" =>
              \A k \in Separators(Q[b]) : k \in Separators(P[c]) /\ k > sep
        <5> SUFFICES ASSUME P[c].kind = "internal"
                     PROVE \A k \in Separators(Q[b]) : k \in Separators(P[c]) /\ k > sep
          OBVIOUS
        <5>1. HaveSlotsOf(Q[a], Q[b], P[c], sep)
          BY <1>4, HalvesSlots
        <5>2. QED
          BY <5>1 DEF HaveSlotsOf
      <4>3. P[c].kind \in {"leaf", "internal"}
        BY <1>1 DEF ActiveIn, Active
      <4>4. \A k \in Separators(Q[b]) : k \in Key
        BY SlotNumbers
      <4>5. CASE P[c].kind = "leaf"
        <5>1. Contents(Q[b]) = Records(Q[b]) /\ Contents(P[c]) = Records(P[c])
          BY <1>5, <4>5 DEF Contents
        <5>2. QED
          BY <4>1, <4>5, <5>1
      <4>6. CASE P[c].kind = "internal"
        <5>1. /\ Contents(Q[b]) = Separators(Q[b])
              /\ Contents(P[c]) = Separators(P[c])
          BY <1>5, <4>6 DEF Contents
        <5>2. \A k \in Separators(Q[b]) : k > sep => k >= sep
          <6>1. sep \in Int /\ \A k \in Separators(Q[b]) : k \in Int
            BY <1>1, <4>4, Numbers
          <6>2. QED
            BY <6>1
        <5>3. QED
          BY <4>2, <4>6, <5>1, <5>2
      <4>7. QED
        BY <4>3, <4>5, <4>6
    <3>2. QED
      BY <1>1, <1>4, <1>5, <2>1, <2>3, <3>1
  <2>4. CASE x = p
    <3>1. \A k \in Separators(P[p]) : P[p].low < k /\ k < P[p].high /\ k \in Int
      BY <1>1, <1>4, SlotNumbers, Numbers
         DEF WellFormed, Fenced, Contents, InternalsIn
    <3>2. Q[p].kind = "internal" /\ P[p].low < P[p].high
          /\ Q[p].low = P[p].low /\ Q[p].high = P[p].high
      BY <1>1, <1>2, <1>4, <1>6 DEF InternalsIn
    <3>3. QED
      BY <1>1, <2>4, <3>1, <3>2, <1>6 DEF Contents
  <2>5. CASE x \notin {a, b, p}
    <3>1. x \in ActiveIn(P) \ {c, p}
      BY <1>1, <1>4, <2>5
    <3>2. Contents(Q[x]) = Contents(P[x])
      BY <1>2, <1>3, <3>1 DEF Contents, Records, Separators
    <3>3. QED
      BY <1>2, <3>1, <3>2 DEF WellFormed, Fenced
  <2>6. QED
    BY <2>2, <2>3, <2>4, <2>5
<1>10. Apart(Q)
  <2> DEFINE Off(x, y) == Q[x].high <= Q[y].low \/ Q[y].high <= Q[x].low
  <2>1. Off(a, b)
    BY <1>1, <1>5
  <2>2. \A x \in ActiveIn(P) \ {c} :
          P[x].level = P[c].level => P[x].high <= P[c].low \/ P[c].high <= P[x].low
    BY <1>1 DEF WellFormed, Apart
  <2>3. \A x \in ActiveIn(P) \ {c} : Q[x].level = P[c].level => Off(x, a) /\ Off(x, b)
    BY <1>1, <1>2, <1>4, <1>5, <1>6, <2>2
  <2>4. \A x, y \in ActiveIn(P) \ {c} : x # y /\ Q[x].level = Q[y].level => Off(x, y)
    BY <1>2 DEF WellFormed, Apart
  <2>5. \A x \in ActiveIn(Q) : x = a \/ x = b \/ x \in ActiveIn(P) \ {c}
    BY <1>1, <1>4
  <2>6. \A x, y : Off(x, y) => Off(y, x)
    OBVIOUS
  <2>7. Q[a].level = P[c].level /\ Q[b].level = P[c].level
    BY <1>5
  <2> HIDE DEF Off
  <2>8. \A x, y \in ActiveIn(Q) : x # y /\ Q[x].level = Q[y].level => Off(x, y)
    BY <2>1, <2>3, <2>4, <2>5, <2>6, <2>7
  <2>9. QED
    BY <2>8 DEF Apart, Off
<1>11. QED
  BY <1>7, <1>8, <1>9, <1>10

LEMMA SplitKeepsShape ==
  ASSUME NEW P \in Pages, NEW Q \in Pages, NEW r, WellFormed(P, r),
         NEW p, NEW s, NEW sep, NEW c, NEW a, NEW b,
         ChildSplits(P, Q, p, s, sep, c, a, b)
  PROVE  WellFormed(Q, r)
<1>1. ChildrenFit(Q)
  BY SplitParentFits, SplitOthersFit DEF ChildrenFit
<1>2. QED
  BY <1>1, SplitParented, SplitRanges DEF WellFormed

-----------------------------------------------------------------------------
(***************************************************************************)
(* Two neighbours are merged.                                              *)
(***************************************************************************)
Union(new, low, high, sep) ==
  /\ new.kind = high.kind /\ new.level = high.level /\ ~new.isRoot
  /\ new.low = low.low /\ new.high = high.high
  /\ new.kind = "leaf" =>
       \A k \in Key : new.recs[k] = IF k < sep THEN low.recs[k] ELSE high.recs[k]
  /\ new.kind = "internal" =>
       \A s \in Slot : new.kids[s] = IF s < sep THEN low.kids[s]
                                     ELSE IF s = sep THEN high.kids[NegInf]
                                     ELSE high.kids[s]

\* The children l and h of p, in slot s and the next slot sep, become w, which
\* is one of the two; the other one is no longer active.
ChildrenMerge(P, Q, p, s, sep, l, h, w) ==
  /\ p \in InternalsIn(P) /\ s \in Slots(P[p]) /\ sep \in Separators(P[p])
  /\ l = P[p].kids[s] /\ h = P[p].kids[sep] /\ P[l].high = sep
  /\ w \in {l, h}
  /\ Union(Q[w], P[l], P[h], sep)
  /\ \A x \in {l, h} \ {w} : ~Active(Q[x]) /\ ~Q[x].isRoot
  /\ /\ Q[p].kind = P[p].kind /\ Q[p].level = P[p].level
     /\ Q[p].isRoot = P[p].isRoot
     /\ Q[p].low = P[p].low /\ Q[p].high = P[p].high
     /\ \A x \in Slot : Q[p].kids[x] = IF x = s THEN w ELSE IF x = sep THEN Nil
                                       ELSE P[p].kids[x]
  /\ \A x \in Page \ {l, h, p} : Alike(Q[x], P[x])

\* Two neighbours below a page.
LEMMA Neighbours ==
  ASSUME NEW P \in Pages, NEW r, WellFormed(P, r),
         NEW p \in InternalsIn(P), NEW s \in Slots(P[p]),
         NEW sep \in Separators(P[p]),
         P[P[p].kids[s]].high = sep
  PROVE  LET l == P[p].kids[s]
             h == P[p].kids[sep]
         IN  /\ Fits(P, p, s) /\ Fits(P, p, sep)
             /\ l \in ActiveIn(P) /\ h \in ActiveIn(P) /\ l # h
             /\ l \in Page /\ h \in Page
             /\ p \notin {l, h} /\ r \notin {l, h}
             /\ P[h].low = sep /\ P[l].low < sep /\ sep < P[h].high
             /\ P[l].level = P[h].level /\ P[l].kind = P[h].kind
             /\ s < sep /\ s \in Int /\ sep \in Int /\ s \in Slot /\ sep \in Key
<1> DEFINE l == P[p].kids[s]
           h == P[p].kids[sep]
<1>1. p \in Page /\ p \in ActiveIn(P) /\ sep \in Slots(P[p]) /\ sep \in Key
      /\ s \in Slot
  BY SlotNumbers DEF InternalsIn, ActiveIn, Active
<1>2. Fits(P, p, s) /\ Fits(P, p, sep)
  BY <1>1 DEF WellFormed, ChildrenFit
<1>3. l \in ActiveIn(P) /\ h \in ActiveIn(P) /\ l \in Page /\ h \in Page
  BY <1>2 DEF Fits, ActiveIn
<1>4. P[p].level \in Nat /\ P[l].level \in Nat /\ P[h].level \in Nat
      /\ P[r].level \in Nat /\ sep \in Int /\ s \in Int /\ sep # NegInf
  BY <1>1, <1>3, Numbers DEF WellFormed, RootSpans, ActiveIn
<1>5. P[l].level + 1 = P[p].level /\ P[h].level + 1 = P[p].level
      /\ P[h].low = sep
      /\ P[l].low = IF s = NegInf THEN P[p].low ELSE s
  BY <1>2, <1>4 DEF Fits
<1>6. P[l].level = P[h].level
  BY <1>4, <1>5
<1>7. P[p].level <= P[r].level
  BY <1>1, <1>4 DEF WellFormed, Levelled
<1>8. p \notin {l, h} /\ r \notin {l, h}
  BY <1>4, <1>5, <1>7
<1>9. P[l].low < P[l].high /\ P[h].low < P[h].high
  BY <1>3 DEF WellFormed, Fenced
<1>10. P[l].kind = P[h].kind
  <2>1. /\ P[l].kind = "leaf" <=> P[l].level = 0
        /\ P[h].kind = "leaf" <=> P[h].level = 0
    BY <1>3 DEF WellFormed, Levelled
  <2>2. P[l].kind \in {"leaf", "internal"} /\ P[h].kind \in {"leaf", "internal"}
    BY <1>3 DEF ActiveIn, Active
  <2>3. QED
    BY <1>6, <2>1, <2>2
<1>11. l # h
  BY <1>4, <1>5, <1>9
<1>12. s < sep
  <2>1. IsNext(P[p], s, sep)
    BY <1>2 DEF Fits
  <2>2. CASE s = NegInf
    BY <1>1, <2>2, Numbers
  <2>3. CASE s # NegInf
    BY <1>4, <1>5, <1>9, <2>3
  <2>4. QED
    BY <2>2, <2>3
<1>13. QED
  BY <1>1, <1>2, <1>3, <1>4, <1>5, <1>6, <1>8, <1>9, <1>10, <1>11, <1>12

\* What holds of the pages involved, and which pages and slots there are after.
LEMMA MergeFacts ==
  ASSUME NEW P \in Pages, NEW Q \in Pages, NEW r, WellFormed(P, r),
         NEW p, NEW s, NEW sep, NEW l, NEW h, NEW w,
         ChildrenMerge(P, Q, p, s, sep, l, h, w)
  PROVE  /\ p \in Page /\ l \in Page /\ h \in Page /\ w \in Page
         /\ l \in ActiveIn(P) /\ h \in ActiveIn(P) /\ l # h
         /\ p \in ActiveIn(P) /\ p \notin {l, h} /\ r \notin {l, h}
         /\ Fits(P, p, s) /\ Fits(P, p, sep)
         /\ P[h].low = sep /\ P[l].low < sep /\ sep < P[h].high
         /\ P[l].level = P[h].level /\ P[l].kind = P[h].kind
         /\ s < sep /\ s \in Int /\ sep \in Int /\ s \in Slot /\ sep \in Key
         /\ Separators(Q[p]) = Separators(P[p]) \ {sep}
         /\ Slots(Q[p]) = Slots(P[p]) \ {sep}
         /\ ActiveIn(Q) = (ActiveIn(P) \ {l, h}) \cup {w}
         /\ \A x \in ActiveIn(P) \ {l, h} :
              /\ x \in ActiveIn(Q)
              /\ Q[x].kind = P[x].kind /\ Q[x].level = P[x].level
              /\ Q[x].low = P[x].low /\ Q[x].high = P[x].high
         /\ \A x \in ActiveIn(P) \ {l, h, p} :
              Q[x].kids = P[x].kids /\ Q[x].recs = P[x].recs
<1>1. /\ p \in InternalsIn(P) /\ s \in Slots(P[p]) /\ sep \in Separators(P[p])
      /\ l = P[p].kids[s] /\ h = P[p].kids[sep] /\ P[l].high = sep
      /\ w \in {l, h}
      /\ Union(Q[w], P[l], P[h], sep)
      /\ \A x \in {l, h} \ {w} : ~Active(Q[x]) /\ ~Q[x].isRoot
      /\ /\ Q[p].kind = P[p].kind /\ Q[p].level = P[p].level
         /\ Q[p].isRoot = P[p].isRoot
         /\ Q[p].low = P[p].low /\ Q[p].high = P[p].high
         /\ \A x \in Slot : Q[p].kids[x] = IF x = s THEN w ELSE IF x = sep THEN Nil
                                           ELSE P[p].kids[x]
      /\ \A x \in Page \ {l, h, p} : Alike(Q[x], P[x])
  BY DEF ChildrenMerge
<1>2. /\ Fits(P, p, s) /\ Fits(P, p, sep)
      /\ l \in ActiveIn(P) /\ h \in ActiveIn(P) /\ l # h
      /\ l \in Page /\ h \in Page
      /\ p \notin {l, h} /\ r \notin {l, h}
      /\ P[h].low = sep /\ P[l].low < sep /\ sep < P[h].high
      /\ P[l].level = P[h].level /\ P[l].kind = P[h].kind
      /\ s < sep /\ s \in Int /\ sep \in Int /\ s \in Slot /\ sep \in Key
  <2>1. /\ p \in InternalsIn(P) /\ s \in Slots(P[p]) /\ sep \in Separators(P[p])
        /\ l = P[p].kids[s] /\ h = P[p].kids[sep] /\ P[P[p].kids[s]].high = sep
    BY <1>1
  <2>2. QED
    BY ONLY WellFormed(P, r), P \in Pages, <2>1, Neighbours
<1>3. p \in Page /\ p \in ActiveIn(P) /\ w \in Page
  BY <1>1, <1>2 DEF InternalsIn, ActiveIn, Active
<1>4. Separators(Q[p]) = Separators(P[p]) \ {sep}
  <2>1. \A x \in Key : Q[p].kids[x] # Nil <=> (P[p].kids[x] # Nil /\ x # sep)
    <3> TAKE x \in Key
    <3>1. x \in Slot /\ w # Nil /\ l # Nil /\ h # Nil
      BY <1>2, <1>3, ConstantFields
    <3>2. QED
      BY <1>1, <1>2, <3>1
  <2>2. QED
    BY <2>1 DEF Separators
<1>5. Slots(Q[p]) = Slots(P[p]) \ {sep}
  BY <1>2, <1>4, Numbers DEF Slots
<1>6. ActiveIn(Q) = (ActiveIn(P) \ {l, h}) \cup {w}
  <2>1. \A x \in Page \ {l, h} : Active(Q[x]) <=> Active(P[x])
    BY <1>1 DEF Alike, Active
  <2>2. Active(Q[w])
    BY <1>1, <1>2 DEF ActiveIn, Active, Union
  <2>3. \A x \in {l, h} : x # w => ~Active(Q[x])
    BY <1>1
  <2>4. QED
    BY <1>1, <1>3, <2>1, <2>2, <2>3 DEF ActiveIn
<1>7. \A x \in ActiveIn(P) \ {l, h} :
         /\ x \in ActiveIn(Q)
         /\ Q[x].kind = P[x].kind /\ Q[x].level = P[x].level
         /\ Q[x].low = P[x].low /\ Q[x].high = P[x].high
  <2>1. \A x \in ActiveIn(P) : x \in Page
    BY DEF ActiveIn
  <2>2. QED
    BY <1>1, <1>6, <2>1 DEF Alike
<1>8. \A x \in ActiveIn(P) \ {l, h, p} : Q[x].kids = P[x].kids /\ Q[x].recs = P[x].recs
  BY <1>1 DEF Alike, ActiveIn
<1>9. QED
  BY <1>2, <1>3, <1>4, <1>5, <1>6, <1>7, <1>8

\* The slots of the union of two internal pages.
UnitesSlots(new, low, high, sep) ==
  /\ Separators(new) = Separators(low) \cup {sep} \cup Separators(high)
  /\ \A x \in Slots(low) : x \in Slots(new) /\ x < sep /\ new.kids[x] = low.kids[x]
  /\ sep \in Slots(new) /\ new.kids[sep] = high.kids[NegInf]
  /\ \A x \in Separators(high) : x \in Slots(new) /\ sep < x /\ new.kids[x] = high.kids[x]

LEMMA UnionSlots ==
  ASSUME NEW low, NEW high, NEW sep \in Key, NEW new,
         Union(new, low, high, sep), high.kind = "internal",
         high.kids[NegInf] # Nil,
         \A x \in Separators(low) : x < sep,
         \A x \in Separators(high) : sep < x
  PROVE  UnitesSlots(new, low, high, sep)
<1> USE DEF Union
<1>1. Key \subseteq Slot /\ NegInf \in Slot
  BY ConstantFields
<1>2. Separators(new) = Separators(low) \cup {sep} \cup Separators(high)
  <2>1. \A x \in Key : x \in Int /\ sep \in Int
    BY Numbers
  <2>2. \A x \in Key : new.kids[x] # Nil <=>
          x \in Separators(low) \/ x = sep \/ x \in Separators(high)
    <3> TAKE x \in Key
    <3>1. CASE x < sep
      BY <1>1, <2>1, <3>1 DEF Union, Separators
    <3>2. CASE x = sep
      BY <1>1, <2>1, <3>2 DEF Union, Separators
    <3>3. CASE x > sep
      BY <1>1, <2>1, <3>3 DEF Union, Separators
    <3>4. QED
      BY <2>1, <3>1, <3>2, <3>3
  <2>3. Separators(low) \subseteq Key /\ Separators(high) \subseteq Key
    BY SlotNumbers
  <2>4. Separators(new) = {x \in Key : new.kids[x] # Nil}
    BY DEF Separators
  <2>5. QED
    BY <2>2, <2>3, <2>4
<1>3. \A x \in Slots(low) : x \in Slots(new) /\ x < sep /\ new.kids[x] = low.kids[x]
  BY <1>1, <1>2, SlotNumbers, Numbers DEF Slots, Union
<1>4. sep \in Slots(new) /\ new.kids[sep] = high.kids[NegInf]
  BY <1>1, <1>2, Numbers DEF Slots, Union
<1>5. \A x \in Separators(high) : x \in Slots(new) /\ sep < x /\ new.kids[x] = high.kids[x]
  <2> TAKE x \in Separators(high)
  <2>1. x \in Key /\ x \in Int /\ sep \in Int /\ sep < x
    BY SlotNumbers, Numbers
  <2>2. QED
    BY <1>1, <1>2, <2>1 DEF Slots, Union
<1>6. QED
  BY <1>2, <1>3, <1>4, <1>5 DEF UnitesSlots

LEMMA MergedSlots ==
  ASSUME NEW P \in Pages, NEW Q \in Pages, NEW r, WellFormed(P, r),
         NEW p, NEW s, NEW sep, NEW l, NEW h, NEW w,
         ChildrenMerge(P, Q, p, s, sep, l, h, w), P[h].kind = "internal"
  PROVE  /\ UnitesSlots(Q[w], P[l], P[h], sep)
         /\ \A x \in Separators(P[l]) : P[l].low < x /\ x < sep
         /\ \A x \in Separators(P[h]) : sep < x /\ x < P[h].high
<1>1. /\ l \in Page /\ h \in Page
      /\ l \in ActiveIn(P) /\ h \in ActiveIn(P)
      /\ P[h].low = sep /\ P[l].kind = P[h].kind
      /\ sep \in Key
  BY MergeFacts
<1>2. Union(Q[w], P[l], P[h], sep) /\ P[l].high = sep
  BY DEF ChildrenMerge
<1>3. \A x \in Separators(P[l]) : P[l].low < x /\ x < sep
  BY <1>1, <1>2 DEF WellFormed, Fenced, Contents
<1>4. \A x \in Separators(P[h]) : sep < x /\ x < P[h].high
  BY <1>1, <1>2 DEF WellFormed, Fenced, Contents
<1>5. P[h].kids[NegInf] # Nil
  <2>1. h \in InternalsIn(P) /\ NegInf \in Slots(P[h])
    BY <1>1, SlotNumbers DEF InternalsIn
  <2>2. Fits(P, h, NegInf)
    BY <2>1 DEF WellFormed, ChildrenFit
  <2>3. QED
    BY <2>2, ConstantFields DEF Fits, ActiveIn
<1>6. UnitesSlots(Q[w], P[l], P[h], sep)
  BY <1>1, <1>2, <1>3, <1>4, <1>5, UnionSlots
<1>7. QED
  BY <1>3, <1>4, <1>6

LEMMA MergeParentFits ==
  ASSUME NEW P \in Pages, NEW Q \in Pages, NEW r, WellFormed(P, r),
         NEW p, NEW s, NEW sep, NEW l, NEW h, NEW w,
         ChildrenMerge(P, Q, p, s, sep, l, h, w),
         NEW u \in Slots(Q[p])
  PROVE  Fits(Q, p, u)
<1>1. /\ p \in Page /\ l \in Page /\ h \in Page /\ w \in Page
      /\ l \in ActiveIn(P) /\ h \in ActiveIn(P)
      /\ Fits(P, p, s) /\ Fits(P, p, sep)
      /\ P[l].level = P[h].level
      /\ s < sep /\ s \in Int /\ sep \in Int /\ s \in Slot /\ sep \in Key
      /\ Separators(Q[p]) = Separators(P[p]) \ {sep}
      /\ Slots(Q[p]) = Slots(P[p]) \ {sep}
      /\ ActiveIn(Q) = (ActiveIn(P) \ {l, h}) \cup {w}
  <2>1. /\ Fits(P, p, s) /\ Fits(P, p, sep)
        /\ P[l].level = P[h].level
        /\ s < sep /\ s \in Int /\ sep \in Int /\ s \in Slot /\ sep \in Key
    BY MergeFacts
  <2>2. /\ p \in Page /\ l \in Page /\ h \in Page /\ w \in Page
        /\ l \in ActiveIn(P) /\ h \in ActiveIn(P)
        /\ Separators(Q[p]) = Separators(P[p]) \ {sep}
        /\ Slots(Q[p]) = Slots(P[p]) \ {sep}
        /\ ActiveIn(Q) = (ActiveIn(P) \ {l, h}) \cup {w}
    BY ONLY WellFormed(P, r), P \in Pages, Q \in Pages,
            ChildrenMerge(P, Q, p, s, sep, l, h, w), MergeFacts
  <2>3. QED
    BY <2>1, <2>2
<1>2. \A x \in ActiveIn(P) \ {l, h} :
              /\ x \in ActiveIn(Q)
              /\ Q[x].kind = P[x].kind /\ Q[x].level = P[x].level
              /\ Q[x].low = P[x].low /\ Q[x].high = P[x].high
  BY MergeFacts
<1>3. /\ p \in InternalsIn(P) /\ s \in Slots(P[p]) /\ sep \in Separators(P[p])
      /\ l = P[p].kids[s] /\ h = P[p].kids[sep] /\ P[l].high = sep
      /\ Q[w].level = P[h].level /\ Q[w].low = P[l].low /\ Q[w].high = P[h].high
      /\ Q[p].level = P[p].level /\ Q[p].low = P[p].low /\ Q[p].high = P[p].high
      /\ \A x \in Slot : Q[p].kids[x] = IF x = s THEN w ELSE IF x = sep THEN Nil
                                        ELSE P[p].kids[x]
  BY DEF ChildrenMerge, Union
<1>4. P[h].high \in Int /\ (\A x \in Separators(P[p]) : x \in Int /\ x \in Slots(P[p]))
      /\ \A x \in Slots(P[p]) : x \in Int /\ x \in Slot
  BY <1>1, SlotNumbers, Numbers
<1>5. CASE u = s
  <2>1. Q[p].kids[u] = w
    BY <1>1, <1>3, <1>5
  <2>2. IsNext(P[p], s, sep) /\ IsNext(P[p], sep, P[h].high)
    BY <1>1, <1>3 DEF Fits
  <2>3. IsNext(Q[p], s, P[h].high)
    <3>1. \A x \in Separators(Q[p]) : x > s => x > sep /\ P[h].high <= x
      BY <1>1, <1>4, <2>2 DEF IsNext
    <3>2. P[h].high = Q[p].high \/ (P[h].high \in Separators(Q[p]) /\ P[h].high > s)
      <4>1. P[h].high = P[p].high \/ (P[h].high \in Separators(P[p]) /\ P[h].high > sep)
        BY <2>2 DEF IsNext
      <4>2. CASE P[h].high = P[p].high
        BY <1>3, <4>2
      <4>3. CASE P[h].high \in Separators(P[p]) /\ P[h].high > sep
        <5>1. P[h].high > s /\ P[h].high # sep
          BY <1>1, <1>4, <4>3
        <5>2. QED
          BY <1>1, <4>3, <5>1
      <4>4. QED
        BY <4>1, <4>2, <4>3
    <3>3. QED
      BY <3>1, <3>2 DEF IsNext
  <2>4. QED
    BY <1>1, <1>3, <1>5, <2>1, <2>3 DEF Fits
<1>6. CASE u # s
  <2> DEFINE d == P[p].kids[u]
  <2>1. u \in Slots(P[p]) /\ u # sep /\ u \in Slot /\ u \in Int
    BY <1>1, <1>4
  <2>2. Q[p].kids[u] = d
    BY <1>3, <1>6, <2>1
  <2>3. Fits(P, p, u)
    BY <1>3, <2>1 DEF WellFormed, ChildrenFit
  <2>4. d \in ActiveIn(P) /\ d \notin {l, h}
    <3>1. d \in ActiveIn(P)
      BY <2>3 DEF Fits
    <3>2. s \in Slots(P[p]) /\ sep \in Slots(P[p])
      BY <1>3, <1>4
    <3>3. d # P[p].kids[s] /\ d # P[p].kids[sep]
      BY ONLY <1>3, <1>6, <2>1, <3>2, WellFormed(P, r), P \in Pages, OneSlotEach DEF d
    <3>4. QED
      BY <1>3, <3>1, <3>3
  <2>5. /\ d \in ActiveIn(Q) /\ Q[d].level = P[d].level
        /\ Q[d].low = P[d].low /\ Q[d].high = P[d].high
    BY <1>2, <2>4
  <2>6. IsNext(Q[p], u, P[d].high)
    <3>1. IsNext(P[p], u, P[d].high)
      BY <2>3 DEF Fits
    <3>2. P[d].high \in Int /\ P[d].low \in Int /\ P[d].low < P[d].high
      BY <2>4, Numbers DEF WellFormed, Fenced, ActiveIn
    <3>3. P[d].high # sep \/ P[d].high = P[p].high
      <4>1. CASE u < s
        <5>1. s \in Separators(P[p])
          BY <1>1, <1>3, <2>1, <4>1, SlotNumbers, Numbers
        <5>2. P[d].high <= s
          BY <1>1, <3>1, <4>1, <5>1 DEF IsNext
        <5>3. QED
          BY <1>1, <3>2, <5>2
      <4>2. CASE u > s
        <5>1. u \in Separators(P[p]) /\ u # NegInf
          BY <1>1, <2>1, <4>2, SlotNumbers, Numbers
        <5>2. sep <= u /\ P[d].low = u
          BY <1>1, <1>3, <2>3, <4>2, <5>1 DEF Fits, IsNext
        <5>3. QED
          BY <1>1, <2>1, <3>2, <5>2
      <4>3. QED
        BY <1>1, <1>6, <2>1, <4>1, <4>2
    <3>4. QED
      BY <1>1, <1>3, <3>1, <3>3 DEF IsNext
  <2>7. QED
    BY <1>3, <2>2, <2>3, <2>5, <2>6, ZenonT(40) DEF Fits
<1>7. QED
  BY <1>5, <1>6

LEMMA MergeOthersFit ==
  ASSUME NEW P \in Pages, NEW Q \in Pages, NEW r, WellFormed(P, r),
         NEW p, NEW s, NEW sep, NEW l, NEW h, NEW w,
         ChildrenMerge(P, Q, p, s, sep, l, h, w),
         NEW q \in InternalsIn(Q) \ {p}, NEW u \in Slots(Q[q])
  PROVE  Fits(Q, q, u)
<1>1. /\ p \in Page /\ l \in Page /\ h \in Page /\ w \in Page
      /\ l \in ActiveIn(P) /\ h \in ActiveIn(P)
      /\ P[h].low = sep /\ P[l].low < sep /\ sep < P[h].high
      /\ P[l].level = P[h].level /\ P[l].kind = P[h].kind
      /\ sep \in Int /\ sep \in Key
      /\ ActiveIn(Q) = (ActiveIn(P) \ {l, h}) \cup {w}
  BY MergeFacts
<1>2. \A x \in ActiveIn(P) \ {l, h} :
              /\ x \in ActiveIn(Q)
              /\ Q[x].kind = P[x].kind /\ Q[x].level = P[x].level
              /\ Q[x].low = P[x].low /\ Q[x].high = P[x].high
  BY MergeFacts
<1>3. \A x \in ActiveIn(P) \ {l, h, p} : Q[x].kids = P[x].kids
  BY MergeFacts
<1>4. /\ p \in InternalsIn(P) /\ s \in Slots(P[p]) /\ sep \in Slots(P[p])
      /\ l = P[p].kids[s] /\ h = P[p].kids[sep] /\ P[l].high = sep
      /\ Q[w].kind = P[h].kind /\ Q[w].level = P[h].level
      /\ Q[w].low = P[l].low /\ Q[w].high = P[h].high
      /\ w \in {l, h}
  BY SlotNumbers DEF ChildrenMerge, Union
<1>5. CASE q = w
  <2>1. /\ P[h].kind = "internal" /\ P[l].kind = "internal"
        /\ h \in InternalsIn(P) /\ l \in InternalsIn(P)
    BY <1>1, <1>4, <1>5 DEF InternalsIn
  <2>2. /\ UnitesSlots(Q[w], P[l], P[h], sep)
        /\ \A x \in Separators(P[l]) : P[l].low < x /\ x < sep
        /\ \A x \in Separators(P[h]) : sep < x /\ x < P[h].high
    BY <2>1, MergedSlots
  <2>3. /\ \A x \in Slots(Q[w]) : x \in Int /\ x \in Slot
        /\ \A x \in Slots(P[l]) : x \in Int /\ x \in Slot
        /\ \A x \in Slots(P[h]) : x \in Int /\ x \in Slot
        /\ NegInf \in Int /\ NegInf < sep
        /\ \A x : x \in Separators(Q[w]) => x \in Slots(Q[w])
    BY <1>1, SlotNumbers, Numbers
  <2> DEFINE d == Q[w].kids[u]
  <2>4. ASSUME NEW o \in {l, h}, NEW v \in Slots(P[o]), d = P[o].kids[v]
        PROVE  /\ Fits(P, o, v) /\ d \in ActiveIn(Q) /\ Q[d].level = P[d].level
               /\ Q[d].low = P[d].low /\ Q[d].high = P[d].high
               /\ P[d].level + 1 = Q[w].level /\ P[d].high \in Int
    <3>1. Fits(P, o, v)
      BY <2>1 DEF WellFormed, ChildrenFit
    <3>2. d \in ActiveIn(P) /\ P[d].level + 1 = P[h].level
      BY <1>1, <2>4, <3>1 DEF Fits
    <3>3. d \in Page /\ P[d].level \in Nat /\ P[d].high \in Int
      BY <3>2, Numbers DEF ActiveIn
    <3>4. d \notin {l, h}
      BY <1>1, <3>2, <3>3
    <3> HIDE DEF d
    <3>5. QED
      BY <1>2, <1>4, <3>1, <3>2, <3>3, <3>4
  <2>5. CASE u < sep
    <3>1. u \in Slots(P[l])
      <4>1. u \in Slots(Q[w]) /\ u \in Int
        BY <1>5, <2>3
      <4>2. Separators(Q[w]) = Separators(P[l]) \cup {sep} \cup Separators(P[h])
        BY <2>2 DEF UnitesSlots
      <4>3. u = NegInf \/ u = sep \/ u \in Separators(P[l]) \/ u \in Separators(P[h])
        BY <4>1, <4>2 DEF Slots
      <4>4. u = NegInf \/ u \in Separators(P[l])
        BY <1>1, <2>2, <2>5, <4>1, <4>3
      <4>5. QED
        BY <4>4 DEF Slots
    <3>2. d = P[l].kids[u]
      BY <2>2, <3>1 DEF UnitesSlots
    <3>3. /\ Fits(P, l, u) /\ d \in ActiveIn(Q) /\ Q[d].level = P[d].level
          /\ Q[d].low = P[d].low /\ Q[d].high = P[d].high
          /\ P[d].level + 1 = Q[w].level /\ P[d].high \in Int
      BY <2>4, <3>1, <3>2
    <3>4. P[d].low = IF u = NegInf THEN P[l].low ELSE u
      BY <3>2, <3>3 DEF Fits
    <3>5. IsNext(P[l], u, P[d].high)
      BY <3>2, <3>3 DEF Fits
    <3> HIDE DEF d
    <3>6. IsNext(Q[w], u, P[d].high)
      <4>1. Separators(Q[w]) = Separators(P[l]) \cup {sep} \cup Separators(P[h])
        BY <2>2 DEF UnitesSlots
      <4>2. P[d].high <= sep
        <5>1. P[d].high = P[l].high \/ P[d].high \in Separators(P[l])
          BY <3>5 DEF IsNext
        <5>2. P[l].high = sep
          BY <1>4
        <5>3. \A x \in Separators(P[l]) : x < sep
          BY <2>2
        <5>4. sep \in Int /\ P[d].high \in Int
          BY <1>1, <3>3
        <5>5. QED
          BY ONLY <5>1, <5>2, <5>3, <5>4
      <4>3. P[d].high \in Separators(Q[w]) /\ P[d].high > u
        BY <1>1, <1>4, <2>3, <2>5, <3>5, <4>1 DEF IsNext
      <4>4. \A x \in Separators(Q[w]) : x > u => P[d].high <= x
        <5> SUFFICES ASSUME NEW x \in Separators(Q[w]), x > u PROVE P[d].high <= x
          OBVIOUS
        <5>1. x \in Int
          BY <2>3
        <5>2. x \in Separators(P[l]) => P[d].high <= x
          BY <3>5 DEF IsNext
        <5>3. QED
          BY <1>1, <2>2, <3>3, <4>1, <4>2, <5>1, <5>2
      <4>5. QED
        BY <4>3, <4>4 DEF IsNext
    <3>7. QED
      BY <1>4, <1>5, <3>3, <3>4, <3>6 DEF Fits, d
  <2>6. CASE u >= sep
    <3> DEFINE v == IF u = sep THEN NegInf ELSE u
    <3>1. v \in Slots(P[h]) /\ d = P[h].kids[v] /\ u # NegInf
      <4>1. u = sep \/ u \in Separators(P[h])
        <5>1. u # NegInf /\ ~(u < sep)
          <6>1. u \in Int /\ sep \in Int /\ NegInf \in Int /\ NegInf < sep
            BY <1>1, <1>5, <2>3
          <6>2. QED
            BY ONLY <2>6, <6>1
        <5>2. u \in Separators(Q[w])
          BY <1>5, <5>1 DEF Slots
        <5>3. u \notin Separators(P[l])
          BY <2>2, <5>1
        <5>4. QED
          BY <2>2, <5>2, <5>3 DEF UnitesSlots
      <4>2. QED
        BY <1>1, <2>2, <2>3, <2>6, <4>1, SlotNumbers DEF UnitesSlots
    <3>2. v \in Int /\ u \in Int
      BY <1>5, <2>3, <3>1
    <3>3. /\ Fits(P, h, v) /\ d \in ActiveIn(Q) /\ Q[d].level = P[d].level
          /\ Q[d].low = P[d].low /\ Q[d].high = P[d].high
          /\ P[d].level + 1 = Q[w].level /\ P[d].high \in Int
      BY <2>4, <3>1
    <3>4. P[d].low = u
      <4>1. P[d].low = IF v = NegInf THEN P[h].low ELSE v
        BY <3>1, <3>3 DEF Fits
      <4>2. QED
        BY <1>1, <3>1, <4>1
    <3>5. IsNext(P[h], v, P[d].high)
      BY <3>1, <3>3 DEF Fits
    <3> HIDE DEF d
    <3>6. IsNext(Q[w], u, P[d].high)
      <4>1. Separators(Q[w]) = Separators(P[l]) \cup {sep} \cup Separators(P[h])
        BY <2>2 DEF UnitesSlots
      <4>2. \A x \in Separators(Q[w]) : x > u => x \in Separators(P[h]) /\ x > v
        <5> SUFFICES ASSUME NEW x \in Separators(Q[w]), x > u
                     PROVE  x \in Separators(P[h]) /\ x > v
          OBVIOUS
        <5>1. x \in Int
          BY <2>3
        <5>2. x \in Separators(P[h])
          BY <1>1, <2>2, <2>6, <3>2, <4>1, <5>1
        <5>3. QED
          BY <1>1, <2>3, <2>6, <3>2, <5>1, <5>2
      <4>3. P[d].high = Q[w].high \/ (P[d].high \in Separators(Q[w]) /\ P[d].high > u)
        <5>1. P[d].high \in Separators(P[h]) /\ P[d].high > v => P[d].high > u
          BY <1>1, <2>2, <3>2, <3>3
        <5>2. QED
          BY <1>4, <3>5, <4>1, <5>1 DEF IsNext
      <4>4. \A x \in Separators(Q[w]) : x > u => P[d].high <= x
        BY <3>5, <4>2 DEF IsNext
      <4>5. QED
        BY <4>3, <4>4 DEF IsNext
    <3>7. QED
      BY <1>4, <1>5, <3>1, <3>3, <3>4, <3>6 DEF Fits, d
  <2>7. u \in Int
    BY <1>5, <2>3
  <2>8. QED
    BY <1>1, <2>5, <2>6, <2>7
<1>6. CASE q # w
  <2>1. q \in ActiveIn(P) /\ q \in Page /\ q \notin {l, h}
    BY <1>1, <1>6 DEF InternalsIn, ActiveIn, Active
  <2>2. /\ q \in InternalsIn(P) /\ Q[q].kids = P[q].kids /\ Q[q].level = P[q].level
        /\ Q[q].low = P[q].low /\ Q[q].high = P[q].high
    BY <1>2, <1>3, <2>1 DEF InternalsIn
  <2>3. Separators(Q[q]) = Separators(P[q]) /\ Slots(Q[q]) = Slots(P[q])
    BY <2>2 DEF Separators, Slots
  <2> DEFINE d == P[q].kids[u]
  <2>4. Fits(P, q, u)
    BY <2>2, <2>3 DEF WellFormed, ChildrenFit
  <2>5. d \in ActiveIn(P) /\ d \notin {l, h}
    BY <1>4, <2>2, <2>3, <2>4, OneSlotEach DEF Fits
  <2>6. /\ d \in ActiveIn(Q) /\ Q[d].level = P[d].level
        /\ Q[d].low = P[d].low /\ Q[d].high = P[d].high
    BY <1>2, <2>5
  <2>7. QED
    BY <2>2, <2>3, <2>4, <2>6 DEF Fits, IsNext
<1>7. QED
  BY <1>5, <1>6

LEMMA MergeParented ==
  ASSUME NEW P \in Pages, NEW Q \in Pages, NEW r, WellFormed(P, r),
         NEW p, NEW s, NEW sep, NEW l, NEW h, NEW w,
         ChildrenMerge(P, Q, p, s, sep, l, h, w)
  PROVE  Parented(Q, r)
<1>1. /\ p \in Page /\ l \in Page /\ h \in Page /\ w \in Page
      /\ l \in ActiveIn(P) /\ h \in ActiveIn(P) /\ l # h /\ p \in ActiveIn(P)
      /\ P[l].kind = P[h].kind
      /\ s < sep /\ s \in Int /\ sep \in Int /\ s \in Slot /\ sep \in Key
      /\ ActiveIn(Q) = (ActiveIn(P) \ {l, h}) \cup {w}
  BY MergeFacts
<1>2. Slots(Q[p]) = Slots(P[p]) \ {sep}
  BY MergeFacts
<1>3. \A x \in ActiveIn(P) \ {l, h} : x \in ActiveIn(Q) /\ Q[x].kind = P[x].kind
  BY MergeFacts
<1>4. \A x \in ActiveIn(P) \ {l, h, p} : Q[x].kids = P[x].kids
  BY MergeFacts
<1>5. /\ p \in InternalsIn(P) /\ s \in Slots(P[p])
      /\ l = P[p].kids[s] /\ h = P[p].kids[sep]
      /\ Q[w].kind = P[h].kind /\ Q[p].kind = P[p].kind /\ w \in {l, h}
      /\ \A x \in Slot : Q[p].kids[x] = IF x = s THEN w ELSE IF x = sep THEN Nil
                                        ELSE P[p].kids[x]
  BY DEF ChildrenMerge, Union
<1> DEFINE Up(d) == \E q \in InternalsIn(Q) : \E u \in Slots(Q[q]) : Q[q].kids[u] = d
<1>6. p \in InternalsIn(Q)
  BY <1>5 DEF InternalsIn
<1>7. Up(w)
  <2>1. s \in Slots(Q[p]) /\ Q[p].kids[s] = w
    BY <1>1, <1>2, <1>5
  <2>2. QED
    BY <1>6, <2>1
<1>8. ASSUME NEW d \in ActiveIn(P) \ {l, h}, d # r PROVE Up(d)
  <2>1. PICK q \in InternalsIn(P) : \E u \in Slots(P[q]) : P[q].kids[u] = d
    BY <1>8 DEF WellFormed, Parented
  <2>2. PICK u \in Slots(P[q]) : P[q].kids[u] = d
    BY <2>1
  <2>3. q \in ActiveIn(P) /\ u \in Slot /\ q \in Page /\ P[q].kind = "internal"
    BY SlotNumbers DEF InternalsIn, ActiveIn, Active
  <2>4. CASE q = p
    <3>1. u # s /\ u # sep
      BY <1>1, <1>5, <2>2, <2>4
    <3>2. u \in Slots(Q[p]) /\ Q[p].kids[u] = d
      BY <1>2, <1>5, <2>2, <2>3, <2>4, <3>1
    <3>3. QED
      BY <1>6, <3>2
  <2>5. CASE q \in {l, h}
    <3>1. P[h].kind = "internal"
      BY <1>1, <2>3, <2>5
    <3>2. UnitesSlots(Q[w], P[l], P[h], sep)
      BY <3>1, MergedSlots
    <3>3. w \in InternalsIn(Q)
      BY <1>1, <1>5, <3>1 DEF InternalsIn
    <3>4. CASE q = l
      <4>1. u \in Slots(Q[w]) /\ Q[w].kids[u] = d
        BY <2>2, <3>2, <3>4 DEF UnitesSlots
      <4>2. QED
        BY <3>3, <4>1
    <3>5. CASE q = h /\ u = NegInf
      <4>1. sep \in Slots(Q[w]) /\ Q[w].kids[sep] = d
        BY <2>2, <3>2, <3>5 DEF UnitesSlots
      <4>2. QED
        BY <3>3, <4>1
    <3>6. CASE q = h /\ u # NegInf
      <4>1. u \in Separators(P[h])
        BY <3>6, SlotNumbers
      <4>2. u \in Slots(Q[w]) /\ Q[w].kids[u] = d
        BY <2>2, <3>2, <3>6, <4>1 DEF UnitesSlots
      <4>3. QED
        BY <3>3, <4>2
    <3>7. QED
      BY <2>5, <3>4, <3>5, <3>6
  <2>6. CASE q \notin {p, l, h}
    <3>1. q \in InternalsIn(Q) /\ Q[q].kids = P[q].kids
      BY <1>3, <1>4, <2>3, <2>6 DEF InternalsIn
    <3>2. u \in Slots(Q[q]) /\ Q[q].kids[u] = d
      BY <2>2, <3>1 DEF Slots, Separators
    <3>3. QED
      BY <3>1, <3>2
  <2>7. QED
    BY <2>4, <2>5, <2>6
<1>9. \A d \in ActiveIn(Q) \ {r} : Up(d)
  <2> SUFFICES ASSUME NEW d \in ActiveIn(Q) \ {r} PROVE Up(d)
    OBVIOUS
  <2>1. d = w \/ d \in ActiveIn(P) \ {l, h}
    BY <1>1
  <2> HIDE DEF Up
  <2>2. QED
    BY <1>7, <1>8, <2>1
<1>10. QED
  BY <1>9 DEF Parented

LEMMA MergeRanges ==
  ASSUME NEW P \in Pages, NEW Q \in Pages, NEW r, WellFormed(P, r),
         NEW p, NEW s, NEW sep, NEW l, NEW h, NEW w,
         ChildrenMerge(P, Q, p, s, sep, l, h, w)
  PROVE  RootSpans(Q, r) /\ Levelled(Q, r) /\ Fenced(Q) /\ Apart(Q)
<1>1. /\ p \in Page /\ l \in Page /\ h \in Page /\ w \in Page
      /\ l \in ActiveIn(P) /\ h \in ActiveIn(P) /\ l # h
      /\ p \in ActiveIn(P) /\ p \notin {l, h} /\ r \notin {l, h}
      /\ P[h].low = sep /\ P[l].low < sep /\ sep < P[h].high
      /\ P[l].level = P[h].level /\ P[l].kind = P[h].kind
      /\ sep \in Int /\ sep \in Key
      /\ ActiveIn(Q) = (ActiveIn(P) \ {l, h}) \cup {w}
  BY MergeFacts
<1>2. Separators(Q[p]) = Separators(P[p]) \ {sep}
  BY MergeFacts
<1>3. \A x \in ActiveIn(P) \ {l, h} :
        /\ x \in ActiveIn(Q)
        /\ Q[x].kind = P[x].kind /\ Q[x].level = P[x].level
        /\ Q[x].low = P[x].low /\ Q[x].high = P[x].high
  BY MergeFacts
<1>4. \A x \in ActiveIn(P) \ {l, h, p} : Q[x].kids = P[x].kids /\ Q[x].recs = P[x].recs
  BY MergeFacts
<1>5. /\ Q[w].kind = P[h].kind /\ Q[w].level = P[h].level /\ ~Q[w].isRoot
      /\ Q[w].low = P[l].low /\ Q[w].high = P[h].high
      /\ Q[w].kind = "leaf" => \A k \in Key :
           Q[w].recs[k] = IF k < sep THEN P[l].recs[k] ELSE P[h].recs[k]
      /\ P[l].high = sep /\ w \in {l, h}
      /\ \A x \in {l, h} \ {w} : ~Q[x].isRoot
      /\ Q[p].kind = P[p].kind /\ Q[p].isRoot = P[p].isRoot
      /\ p \in InternalsIn(P)
  BY DEF ChildrenMerge, Union
<1>6. \A x \in ActiveIn(P) : x \in Page /\ P[x].low \in Int /\ P[x].high \in Int
                             /\ P[x].low < P[x].high /\ P[x].level \in Nat
  BY Numbers DEF WellFormed, Fenced, ActiveIn
<1>7. RootSpans(Q, r)
  <2>1. r \in ActiveIn(P) \ {l, h} /\ P[r].low = NegInf /\ P[r].high = PosInf
    BY <1>1 DEF WellFormed, RootSpans
  <2>2. \A x \in Page : Q[x].isRoot <=> x = r
    <3> TAKE x \in Page
    <3>1. P[x].isRoot <=> x = r
      BY DEF WellFormed, RootSpans
    <3>2. x \in Page \ {l, h, p} => Q[x].isRoot = P[x].isRoot
      BY DEF ChildrenMerge, Alike
    <3>3. x \in {l, h} => ~Q[x].isRoot
      BY <1>5
    <3>4. QED
      BY <1>1, <1>5, <3>1, <3>2, <3>3
  <2>3. QED
    BY <1>3, <2>1, <2>2 DEF RootSpans
<1>8. Levelled(Q, r)
  <2>1. r \in ActiveIn(P) \ {l, h}
    BY <1>1 DEF WellFormed, RootSpans
  <2>2. /\ P[h].kind = "leaf" <=> P[h].level = 0
        /\ P[h].level < P[r].level
    BY <1>1 DEF WellFormed, Levelled
  <2>3. \A x \in ActiveIn(P) \ {l, h} :
          /\ Q[x].kind = "leaf" <=> Q[x].level = 0
          /\ x # r => Q[x].level < Q[r].level
    BY <1>3, <2>1 DEF WellFormed, Levelled
  <2>4. \A x \in ActiveIn(Q) : x = w \/ x \in ActiveIn(P) \ {l, h}
    BY <1>1
  <2>5. QED
    BY <1>3, <1>5, <2>1, <2>2, <2>3, <2>4 DEF Levelled
<1>9. Fenced(Q)
  <2> SUFFICES ASSUME NEW x \in ActiveIn(Q)
               PROVE  /\ Q[x].low < Q[x].high
                      /\ \A k \in Contents(Q[x]) :
                           /\ Q[x].low <= k /\ k < Q[x].high
                           /\ Q[x].kind = "internal" => Q[x].low < k
    BY DEF Fenced
  <2>1. \A o \in {l, h} : \A k \in Contents(P[o]) :
          /\ P[o].low <= k /\ k < P[o].high /\ k \in Int
          /\ P[o].kind = "internal" => P[o].low < k
    BY <1>1, ContentsAreKeys, Numbers DEF WellFormed, Fenced
  <2>2. CASE x = w
    <3>1. \A k \in Contents(Q[w]) :
            \/ k \in Contents(P[l])
            \/ k \in Contents(P[h])
            \/ k = sep /\ P[h].kind = "internal"
      <4>1. CASE P[h].kind = "leaf"
        <5>1. /\ Contents(Q[w]) = Records(Q[w]) /\ Contents(P[l]) = Records(P[l])
              /\ Contents(P[h]) = Records(P[h])
          BY <1>1, <1>5, <4>1 DEF Contents
        <5>2. \A k \in Records(Q[w]) : k \in Records(P[l]) \/ k \in Records(P[h])
          BY <1>5, <4>1 DEF Records
        <5>3. QED
          BY <5>1, <5>2
      <4>2. CASE P[h].kind = "internal"
        <5>1. /\ Contents(Q[w]) = Separators(Q[w]) /\ Contents(P[l]) = Separators(P[l])
              /\ Contents(P[h]) = Separators(P[h])
          BY <1>1, <1>5, <4>2 DEF Contents
        <5>2. UnitesSlots(Q[w], P[l], P[h], sep)
          BY <4>2, MergedSlots
        <5>3. QED
          BY <4>2, <5>1, <5>2 DEF UnitesSlots
      <4>3. QED
        BY <1>1, <4>1, <4>2 DEF ActiveIn, Active
    <3>2. P[l].low \in Int /\ P[h].high \in Int
      BY <1>1, <1>6
    <3>3. QED
      BY <1>1, <1>5, <2>1, <2>2, <3>1, <3>2
  <2>3. CASE x = p
    <3>1. \A k \in Separators(P[p]) : P[p].low < k /\ k < P[p].high /\ k \in Int
      BY <1>1, <1>5, SlotNumbers, Numbers
         DEF WellFormed, Fenced, Contents, InternalsIn
    <3>2. Q[p].kind = "internal" /\ P[p].low < P[p].high
          /\ Q[p].low = P[p].low /\ Q[p].high = P[p].high
          /\ P[p].low \in Int
      BY <1>1, <1>3, <1>5, <1>6 DEF InternalsIn
    <3>3. QED
      BY <1>2, <2>3, <3>1, <3>2 DEF Contents
  <2>4. CASE x \notin {p, w}
    <3>1. x \in ActiveIn(P) \ {l, h, p}
      BY <1>1, <2>4
    <3>2. Contents(Q[x]) = Contents(P[x])
      BY <1>3, <1>4, <3>1 DEF Contents, Records, Separators
    <3>3. QED
      BY <1>3, <3>1, <3>2 DEF WellFormed, Fenced
  <2>5. QED
    BY <2>2, <2>3, <2>4
<1>10. Apart(Q)
  <2> DEFINE Off(x, y) == Q[x].high <= Q[y].low \/ Q[y].high <= Q[x].low
  <2>1. \A x \in ActiveIn(P) \ {l, h} : P[x].level = P[h].level =>
          /\ P[x].high <= P[l].low \/ P[l].high <= P[x].low
          /\ P[x].high <= P[h].low \/ P[h].high <= P[x].low
    BY <1>1 DEF WellFormed, Apart
  <2>2. \A x \in ActiveIn(P) \ {l, h} : Q[x].level = P[h].level => Off(x, w)
    <3> SUFFICES ASSUME NEW x \in ActiveIn(P) \ {l, h}, Q[x].level = P[h].level
                 PROVE  Q[x].high <= Q[w].low \/ Q[w].high <= Q[x].low
      OBVIOUS
    <3>1. /\ P[x].low \in Int /\ P[x].high \in Int /\ P[x].low < P[x].high
          /\ P[l].low \in Int /\ P[h].high \in Int
      BY <1>1, <1>6
    <3>2. /\ P[x].high <= P[l].low \/ sep <= P[x].low
          /\ P[x].high <= sep \/ P[h].high <= P[x].low
      BY <1>1, <1>3, <1>5, <2>1
    <3>3. P[x].high <= P[l].low \/ P[h].high <= P[x].low
      BY <1>1, <3>1, <3>2
    <3>4. QED
      BY <1>3, <1>5, <3>3
  <2>3. \A x, y \in ActiveIn(P) \ {l, h} : x # y /\ Q[x].level = Q[y].level => Off(x, y)
    BY <1>3 DEF WellFormed, Apart
  <2>4. \A x \in ActiveIn(Q) : x = w \/ x \in ActiveIn(P) \ {l, h}
    BY <1>1
  <2>5. \A x, y : Off(x, y) => Off(y, x)
    OBVIOUS
  <2>6. Q[w].level = P[h].level
    BY <1>5
  <2> HIDE DEF Off
  <2>7. \A x, y \in ActiveIn(Q) : x # y /\ Q[x].level = Q[y].level => Off(x, y)
    BY <2>2, <2>3, <2>4, <2>5, <2>6
  <2>8. QED
    BY <2>7 DEF Apart, Off
<1>11. QED
  BY <1>7, <1>8, <1>9, <1>10

LEMMA MergeKeepsShape ==
  ASSUME NEW P \in Pages, NEW Q \in Pages, NEW r, WellFormed(P, r),
         NEW p, NEW s, NEW sep, NEW l, NEW h, NEW w,
         ChildrenMerge(P, Q, p, s, sep, l, h, w)
  PROVE  WellFormed(Q, r)
<1>1. ChildrenFit(Q)
  BY MergeParentFits, MergeOthersFit DEF ChildrenFit
<1>2. QED
  BY <1>1, MergeParented, MergeRanges DEF WellFormed

-----------------------------------------------------------------------------
(***************************************************************************)
(* Links and records change.                                               *)
(***************************************************************************)
\* Equal but for the links and for records within the fences.
Resembles(new, old) ==
  /\ new.kind = old.kind /\ new.level = old.level /\ new.isRoot = old.isRoot
  /\ new.low = old.low /\ new.high = old.high /\ new.kids = old.kids
  /\ \A k \in Key : new.recs[k] = old.recs[k] \/ (old.low <= k /\ k < old.high)

LEMMA ContentsKeepShape ==
  ASSUME NEW P \in Pages, NEW Q \in Pages, NEW r, WellFormed(P, r),
         \A x \in Page : Resembles(Q[x], P[x])
  PROVE  WellFormed(Q, r)
<1>1. \A x \in Page : /\ Q[x].kind = P[x].kind /\ Q[x].level = P[x].level
                      /\ Q[x].isRoot = P[x].isRoot
                      /\ Q[x].low = P[x].low /\ Q[x].high = P[x].high
                      /\ Q[x].kids = P[x].kids
  BY DEF Resembles
<1>2. \A x \in Page : Separators(Q[x]) = Separators(P[x]) /\ Slots(Q[x]) = Slots(P[x])
  BY <1>1 DEF Separators, Slots
<1>3. ActiveIn(Q) = ActiveIn(P) /\ InternalsIn(Q) = InternalsIn(P)
  BY <1>1 DEF ActiveIn, InternalsIn, Active
<1>4. ActiveIn(P) \subseteq Page /\ InternalsIn(P) \subseteq Page
  BY DEF ActiveIn, InternalsIn
<1>5. RootSpans(Q, r) /\ Levelled(Q, r)
  BY <1>1, <1>3, <1>4 DEF WellFormed, RootSpans, Levelled
<1>6. Fenced(Q)
  <2> SUFFICES ASSUME NEW p \in ActiveIn(P)
               PROVE  /\ Q[p].low < Q[p].high
                      /\ \A k \in Contents(Q[p]) :
                           /\ Q[p].low <= k /\ k < Q[p].high
                           /\ Q[p].kind = "internal" => Q[p].low < k
    BY <1>3 DEF Fenced
  <2>1. /\ P[p].low < P[p].high
        /\ \A k \in Contents(P[p]) : /\ P[p].low <= k /\ k < P[p].high
                                     /\ P[p].kind = "internal" => P[p].low < k
    BY DEF WellFormed, Fenced
  <2>2. CASE P[p].kind = "leaf"
    <3>1. \A k \in Records(Q[p]) :
            k \in Records(P[p]) \/ (P[p].low <= k /\ k < P[p].high)
      BY <1>4 DEF Records, Resembles
    <3>2. QED
      BY <1>1, <1>4, <2>1, <2>2, <3>1 DEF Contents
  <2>3. CASE P[p].kind # "leaf"
    BY <1>1, <1>2, <1>4, <2>1, <2>3 DEF Contents
  <2>4. QED
    BY <2>2, <2>3
<1>7. ChildrenFit(Q)
  <2> SUFFICES ASSUME NEW p \in InternalsIn(P), NEW s \in Slots(P[p])
               PROVE  Fits(Q, p, s)
    BY <1>2, <1>3, <1>4 DEF ChildrenFit
  <2>1. Fits(P, p, s)
    BY DEF WellFormed, ChildrenFit
  <2>2. IsNext(Q[p], s, P[P[p].kids[s]].high) <=> IsNext(P[p], s, P[P[p].kids[s]].high)
    BY <1>1, <1>2, <1>4 DEF IsNext
  <2>3. QED
    BY <1>1, <1>3, <1>4, <2>1, <2>2 DEF Fits
<1>8. Parented(Q, r)
  BY <1>1, <1>2, <1>3, <1>4 DEF WellFormed, Parented
<1>9. Apart(Q)
  BY <1>1, <1>3, <1>4 DEF WellFormed, Apart
<1>10. QED
  BY <1>5, <1>6, <1>7, <1>8, <1>9 DEF WellFormed

-----------------------------------------------------------------------------
(***************************************************************************)
(* The tree gets a new root, or loses one.                                 *)
(***************************************************************************)
\* Alike but for the mark of the root.
AlikeUnmarked(new, old) ==
  /\ new.kind = old.kind /\ new.level = old.level
  /\ new.low = old.low /\ new.high = old.high
  /\ new.recs = old.recs /\ new.kids = old.kids

\* The page n, not active so far, becomes the root above the old root r.
Grows(P, Q, r, n) ==
  /\ n \in Page /\ n \notin ActiveIn(P)
  /\ Q[n].kind = "internal" /\ Q[n].level = P[r].level + 1
  /\ Q[n].low = NegInf /\ Q[n].high = PosInf
  /\ \A s \in Slot : Q[n].kids[s] = IF s = NegInf THEN r ELSE Nil
  /\ \A x \in Page \ {n} : AlikeUnmarked(Q[x], P[x])
  /\ \A x \in Page : Q[x].isRoot <=> x = n

LEMMA GrowKeepsShape ==
  ASSUME NEW P \in Pages, NEW Q \in Pages, NEW r, WellFormed(P, r),
         NEW n, Grows(P, Q, r, n)
  PROVE  WellFormed(Q, n)
<1> USE DEF Grows
<1>1. r \in Page /\ r # n /\ r \in ActiveIn(P) /\ P[r].low = NegInf /\ P[r].high = PosInf
  BY DEF WellFormed, RootSpans, ActiveIn
<1>2. \A x \in ActiveIn(P) :
        /\ x \in Page /\ x # n
        /\ Q[x].kind = P[x].kind /\ Q[x].level = P[x].level
        /\ Q[x].low = P[x].low /\ Q[x].high = P[x].high
        /\ Q[x].recs = P[x].recs /\ Q[x].kids = P[x].kids
  BY DEF ActiveIn, AlikeUnmarked
<1>3. ActiveIn(Q) = ActiveIn(P) \cup {n} /\ InternalsIn(Q) = InternalsIn(P) \cup {n}
      /\ InternalsIn(P) \subseteq ActiveIn(P)
  BY DEF ActiveIn, InternalsIn, Active, AlikeUnmarked
<1>4. Separators(Q[n]) = {} /\ Slots(Q[n]) = {NegInf} /\ Contents(Q[n]) = {}
  <2>1. \A k \in Key : k \in Slot /\ k # NegInf
    BY ConstantFields, Numbers
  <2>2. QED
    BY <2>1 DEF Separators, Slots, Contents
<1>5. \A x \in ActiveIn(P) : /\ Separators(Q[x]) = Separators(P[x])
                             /\ Slots(Q[x]) = Slots(P[x])
                             /\ Contents(Q[x]) = Contents(P[x])
  <2> TAKE x \in ActiveIn(P)
  <2>1. /\ Q[x].kind = P[x].kind /\ Q[x].recs = P[x].recs
        /\ Q[x].kids = P[x].kids
    BY <1>2
  <2>2. QED
    BY <2>1, Zenon DEF Separators, Slots, Contents, Records
<1>6. \A x \in ActiveIn(P) : P[x].level \in Nat /\ P[x].level <= P[r].level
  BY <1>1, <1>2, Numbers DEF WellFormed, Levelled
<1>7. P[r].level \in Nat /\ Q[n].level = P[r].level + 1
  BY <1>1, <1>6
<1>8. RootSpans(Q, n)
  BY <1>3 DEF RootSpans
<1>9. Levelled(Q, n)
  <2>1. Q[n].level # 0 /\ Q[n].kind # "leaf"
    BY <1>7
  <2>2. \A x \in ActiveIn(P) : Q[x].level < Q[n].level
    BY <1>2, <1>6, <1>7
  <2>3. \A x \in ActiveIn(P) : Q[x].kind = "leaf" <=> Q[x].level = 0
    BY <1>2 DEF WellFormed, Levelled
  <2>4. QED
    BY <1>3, <2>1, <2>2, <2>3 DEF Levelled
<1>10. Fenced(Q)
  <2>1. NegInf < PosInf
    BY <1>1 DEF WellFormed, Fenced
  <2>2. QED
    BY <1>2, <1>3, <1>4, <1>5, <2>1 DEF WellFormed, Fenced
<1>11. ChildrenFit(Q)
  <2>1. Fits(Q, n, NegInf)
    <3>1. Q[n].kids[NegInf] = r
      BY ConstantFields
    <3>2. IsNext(Q[n], NegInf, Q[r].high)
      BY <1>1, <1>2, <1>4 DEF IsNext
    <3>3. QED
      BY <1>1, <1>2, <1>3, <1>7, <3>1, <3>2 DEF Fits
  <2>2. ASSUME NEW p \in InternalsIn(P), NEW s \in Slots(P[p])
        PROVE  Fits(Q, p, s)
    <3>1. Fits(P, p, s) /\ p \in ActiveIn(P)
      BY <1>3 DEF WellFormed, ChildrenFit
    <3>2. IsNext(Q[p], s, P[P[p].kids[s]].high) <=> IsNext(P[p], s, P[P[p].kids[s]].high)
      BY <1>2, <1>5, <3>1 DEF IsNext
    <3>3. QED
      BY <1>2, <1>3, <3>1, <3>2, SMTT(30) DEF Fits
  <2>3. QED
    BY <1>3, <1>4, <1>5, <2>1, <2>2 DEF ChildrenFit
<1>12. Parented(Q, n)
  <2> SUFFICES ASSUME NEW c \in ActiveIn(P)
               PROVE  \E p \in InternalsIn(Q) : \E s \in Slots(Q[p]) : Q[p].kids[s] = c
    BY <1>3 DEF Parented
  <2>1. CASE c = r
    BY <1>3, <1>4, <2>1, ConstantFields
  <2>2. CASE c # r
    <3>1. PICK p \in InternalsIn(P) : \E s \in Slots(P[p]) : P[p].kids[s] = c
      BY <2>2 DEF WellFormed, Parented
    <3>2. QED
      BY <1>2, <1>3, <1>5, <3>1
  <2>3. QED
    BY <2>1, <2>2
<1>13. Apart(Q)
  <2>1. \A x \in ActiveIn(P) : Q[x].level # Q[n].level
    BY <1>2, <1>6, <1>7
  <2>2. QED
    BY <1>2, <1>3, <2>1 DEF WellFormed, Apart
<1>14. QED
  BY <1>8, <1>9, <1>10, <1>11, <1>12, <1>13 DEF WellFormed

\* The root r retires, and its sole child c becomes the root.
Collapses(P, Q, r, c) ==
  /\ P[r].kind = "internal" /\ Separators(P[r]) = {} /\ c = P[r].kids[NegInf]
  /\ ~Active(Q[r])
  /\ Q[c].kind = P[c].kind /\ Q[c].level = P[c].level
  /\ Q[c].low = NegInf /\ Q[c].high = PosInf
  /\ Q[c].recs = P[c].recs /\ Q[c].kids = P[c].kids
  /\ \A x \in Page \ {r, c} : AlikeUnmarked(Q[x], P[x])
  /\ \A x \in Page : Q[x].isRoot <=> x = c

LEMMA CollapseKeepsShape ==
  ASSUME NEW P \in Pages, NEW Q \in Pages, NEW r, WellFormed(P, r),
         NEW c, Collapses(P, Q, r, c)
  PROVE  WellFormed(Q, c)
<1> USE DEF Collapses
<1>1. r \in Page /\ r \in ActiveIn(P) /\ P[r].low = NegInf /\ P[r].high = PosInf
      /\ r \in InternalsIn(P) /\ Slots(P[r]) = {NegInf}
  BY DEF WellFormed, RootSpans, ActiveIn, InternalsIn, Slots
<1>2. Fits(P, r, NegInf)
  BY <1>1 DEF WellFormed, ChildrenFit
<1>3. /\ c \in ActiveIn(P) /\ c \in Page /\ P[c].level + 1 = P[r].level
      /\ P[c].low = NegInf /\ P[c].high = PosInf
  BY <1>1, <1>2 DEF Fits, IsNext, ActiveIn
<1>4. P[c].level \in Nat /\ P[r].level \in Nat /\ c # r
  BY <1>1, <1>3, Numbers
<1>5. \A x \in ActiveIn(P) \ {r} :
        /\ x \in Page
        /\ Q[x].kind = P[x].kind /\ Q[x].level = P[x].level
        /\ Q[x].low = P[x].low /\ Q[x].high = P[x].high
        /\ Q[x].recs = P[x].recs /\ Q[x].kids = P[x].kids
  BY <1>3 DEF ActiveIn, AlikeUnmarked
<1>6. ActiveIn(Q) = ActiveIn(P) \ {r}
  <2>1. \A x \in Page \ {r} : Active(Q[x]) <=> Active(P[x])
    BY DEF Active, AlikeUnmarked
  <2>2. QED
    BY <1>1, <2>1 DEF ActiveIn
<1>7. InternalsIn(Q) = InternalsIn(P) \ {r} /\ InternalsIn(P) \subseteq ActiveIn(P)
  <2>1. \A x \in Page \ {r} : Q[x].kind = P[x].kind
    BY DEF AlikeUnmarked
  <2>2. Q[r].kind # "internal"
    BY DEF Active
  <2>3. QED
    BY <2>1, <2>2 DEF InternalsIn, ActiveIn, Active
<1>8. \A x \in ActiveIn(P) \ {r} : /\ Separators(Q[x]) = Separators(P[x])
                                   /\ Slots(Q[x]) = Slots(P[x])
                                   /\ Contents(Q[x]) = Contents(P[x])
  <2> TAKE x \in ActiveIn(P) \ {r}
  <2>1. /\ Q[x].kind = P[x].kind /\ Q[x].recs = P[x].recs
        /\ Q[x].kids = P[x].kids
    BY <1>5
  <2>2. QED
    BY <2>1, ZenonT(40) DEF Separators, Slots, Contents, Records
<1>9. \A x \in ActiveIn(P) \ {r, c} :
        \E p \in InternalsIn(P) \ {r} : \E s \in Slots(P[p]) : P[p].kids[s] = x
  <2> TAKE x \in ActiveIn(P) \ {r, c}
  <2>1. PICK p \in InternalsIn(P) : \E s \in Slots(P[p]) : P[p].kids[s] = x
    BY DEF WellFormed, Parented
  <2>2. p # r
    BY <1>1, <2>1
  <2>3. QED
    BY <2>1, <2>2
<1>10. \A x \in ActiveIn(P) \ {r, c} : P[x].level < P[c].level
  <2> TAKE x \in ActiveIn(P) \ {r, c}
  <2>10. PICK p \in InternalsIn(P) \ {r} : \E s \in Slots(P[p]) : P[p].kids[s] = x
    BY <1>9
  <2>1. PICK s \in Slots(P[p]) : P[p].kids[s] = x
    BY <2>10
  <2>2. Fits(P, p, s) /\ p \in ActiveIn(P) /\ p \in Page /\ x \in Page
    BY <1>7, <2>1 DEF WellFormed, ChildrenFit, ActiveIn
  <2>3. P[x].level + 1 = P[p].level
    BY <2>1, <2>2 DEF Fits
  <2>4. P[p].level < P[r].level /\ P[p].level \in Nat /\ P[x].level \in Nat
    BY <2>1, <2>2, Numbers DEF WellFormed, Levelled
  <2>5. QED
    BY <1>3, <1>4, <2>3, <2>4
<1>11. RootSpans(Q, c)
  BY <1>3, <1>4, <1>6 DEF RootSpans
<1>12. Levelled(Q, c)
  <2>1. \A x \in ActiveIn(P) \ {r} : Q[x].kind = "leaf" <=> Q[x].level = 0
    BY <1>5 DEF WellFormed, Levelled
  <2>2. \A x \in ActiveIn(P) \ {r, c} : Q[x].level < Q[c].level
    BY <1>5, <1>10
  <2>3. QED
    BY <1>6, <2>1, <2>2 DEF Levelled
<1>13. Fenced(Q)
  BY <1>5, <1>6, <1>8 DEF WellFormed, Fenced
<1>14. ChildrenFit(Q)
  <2> SUFFICES ASSUME NEW p \in InternalsIn(P) \ {r}, NEW s \in Slots(P[p])
               PROVE  Fits(Q, p, s)
    BY <1>7, <1>8 DEF ChildrenFit
  <2> DEFINE d == P[p].kids[s]
  <2>1. Fits(P, p, s) /\ p \in ActiveIn(P) /\ p \in Page
    BY <1>7 DEF WellFormed, ChildrenFit, ActiveIn
  <2>2. d \in ActiveIn(P) /\ P[d].level + 1 = P[p].level
    BY <2>1 DEF Fits
  <2>3. d # r
    <3>1. P[p].level < P[r].level /\ P[p].level \in Nat
      BY <2>1, Numbers DEF WellFormed, Levelled
    <3>2. QED
      BY <1>4, <2>2, <3>1
  <2>4. IsNext(Q[p], s, P[d].high) <=> IsNext(P[p], s, P[d].high)
    BY <1>5, <1>8, <2>1 DEF IsNext
  <2>5. QED
    <3>1. d \in ActiveIn(P) \ {r} /\ p \in ActiveIn(P) \ {r}
      BY <2>1, <2>2, <2>3
    <3>2. /\ Q[p].kids = P[p].kids /\ Q[p].level = P[p].level /\ Q[p].low = P[p].low
          /\ Q[d].level = P[d].level /\ Q[d].low = P[d].low /\ Q[d].high = P[d].high
      BY <1>5, <3>1
    <3>3. /\ P[d].low = IF s = NegInf THEN P[p].low ELSE s
          /\ IsNext(P[p], s, P[d].high)
      BY <2>1 DEF Fits
    <3> HIDE DEF d
    <3>4. Q[p].kids[s] = d
      BY <3>2 DEF d
    <3>5. QED
      BY <1>6, <2>2, <2>4, <3>1, <3>2, <3>3, <3>4 DEF Fits
<1>15. Parented(Q, c)
  <2> SUFFICES ASSUME NEW x \in ActiveIn(P) \ {r, c}
               PROVE  \E p \in InternalsIn(Q) : \E s \in Slots(Q[p]) : Q[p].kids[s] = x
    BY <1>6 DEF Parented
  <2>10. PICK p \in InternalsIn(P) \ {r} : \E s \in Slots(P[p]) : P[p].kids[s] = x
    BY <1>9
  <2>1. PICK s \in Slots(P[p]) : P[p].kids[s] = x
    BY <2>10
  <2>2. QED
    BY <1>5, <1>7, <1>8, <2>1
<1>16. Apart(Q)
  BY <1>5, <1>6 DEF WellFormed, Apart
<1>17. QED
  BY <1>11, <1>12, <1>13, <1>14, <1>15, <1>16 DEF WellFormed

-----------------------------------------------------------------------------
(***************************************************************************)
(* The boundaries the operations pick.                                     *)
(***************************************************************************)
\* The slot before a separator is below it, and no separator is in between.
LEMMA PrevSlotIsNext ==
  ASSUME NEW pg, NEW sep \in Separators(pg)
  PROVE  /\ PrevSlot(pg, sep) \in Slots(pg) /\ PrevSlot(pg, sep) < sep
         /\ \A x \in Separators(pg) : x > PrevSlot(pg, sep) => sep <= x
<1> DEFINE S == {NegInf} \cup {x \in Separators(pg) : x < sep}
<1>1. S \subseteq 0..MaxKey /\ S # {} /\ MaxKey \in Nat
  BY ContentsAreKeys, BoundsAssumption DEF Key, NegInf
<1>2. Max(S) \in S /\ \A y \in S : Max(S) >= y
  BY <1>1, MaxIsGreatest
<1>3. PrevSlot(pg, sep) = Max(S)
  BY DEF PrevSlot
<1>4. sep \in Int /\ NegInf < sep /\ \A x \in Separators(pg) : x \in Int
  BY SlotNumbers, Numbers
<1>5. \A x \in S : x < sep /\ x \in Slots(pg) /\ x \in Int
  BY <1>4, Numbers DEF Slots
<1> HIDE DEF S
<1>6. \A x \in Separators(pg) : x > Max(S) => x \notin S
  BY <1>2, <1>4, <1>5
<1>7. \A x \in Separators(pg) : x \notin S => sep <= x
  BY <1>4 DEF S
<1>8. QED
  BY <1>2, <1>3, <1>5, <1>6, <1>7

\* The child before a separator ends at it.
LEMMA PrevChildEnds ==
  ASSUME NEW P \in Pages, NEW r, WellFormed(P, r),
         NEW p \in InternalsIn(P), NEW sep \in Separators(P[p])
  PROVE  P[P[p].kids[PrevSlot(P[p], sep)]].high = sep
<1> DEFINE s == PrevSlot(P[p], sep)
           c == P[p].kids[s]
<1>1. s \in Slots(P[p]) /\ s < sep /\ \A x \in Separators(P[p]) : x > s => sep <= x
  BY PrevSlotIsNext
<1>2. IsNext(P[p], s, P[c].high) /\ c \in Page
  BY <1>1 DEF WellFormed, ChildrenFit, Fits, ActiveIn
<1>3. p \in ActiveIn(P) /\ p \in Page
  BY DEF InternalsIn, ActiveIn, Active
<1>4. sep < P[p].high
  BY <1>3 DEF WellFormed, Fenced, Contents, InternalsIn
<1>5. s \in Int /\ sep \in Int /\ P[c].high \in Int /\ P[p].high \in Int
  BY <1>1, <1>2, <1>3, SlotNumbers, Numbers
<1>6. QED
  BY <1>1, <1>2, <1>4, <1>5 DEF IsNext

\* Two entries of a page are not both at its low fence.
LEMMA SecondAboveLow ==
  ASSUME NEW P \in Pages, NEW r, WellFormed(P, r), NEW p \in ActiveIn(P),
         NEW x \in Contents(P[p]), NEW y \in Contents(P[p]), x < y
  PROVE  P[p].low < y
<1>1. P[p].low <= x
  BY DEF WellFormed, Fenced
<1>2. P[p].low \in Int /\ x \in Int /\ y \in Int
  BY ContentsAreKeys, Numbers DEF ActiveIn
<1>3. QED
  BY <1>1, <1>2

\* A full page has entries below its split key, so that neither half is without
\* a range.
LEMMA SplitKeyInside ==
  ASSUME NEW P \in Pages, NEW r, WellFormed(P, r), NEW p \in ActiveIn(P),
         Full(P[p])
  PROVE  LET sep == SplitKey(P[p])
         IN  /\ sep \in Contents(P[p]) /\ sep \in Key
             /\ Cardinality({x \in Contents(P[p]) : x < sep}) = N \div 2
             /\ P[p].low < sep /\ sep < P[p].high
<1> DEFINE sep == SplitKey(P[p])
           low == {x \in Contents(P[p]) : x < sep}
<1>1. /\ sep \in Contents(P[p]) /\ sep \in Key
      /\ Cardinality(low) = N \div 2
  BY SplitKeyMedian, ContentsAreKeys
<1>2. low # {}
  BY <1>1, CapacityAssumption, FS_EmptySet
<1>3. PICK x \in low : TRUE
  BY <1>2
<1>4. P[p].low < sep
  BY <1>1, <1>3, SecondAboveLow
<1>5. sep < P[p].high
  BY <1>1 DEF WellFormed, Fenced
<1>6. QED
  BY <1>1, <1>4, <1>5

\* The greatest entry of a page that can lend.
LEMMA LendLastInside ==
  ASSUME NEW P \in Pages, NEW r, WellFormed(P, r), NEW p \in ActiveIn(P),
         ~AtMinimum(P[p])
  PROVE  LET b == LendLastBoundary(P[p])
         IN  /\ b \in Contents(P[p]) /\ b \in Key
             /\ \A x \in Contents(P[p]) : x <= b
             /\ P[p].low < b /\ b < P[p].high
<1> DEFINE b == LendLastBoundary(P[p])
           S == Contents(P[p])
<1>1. S \subseteq 0..MaxKey /\ MaxKey \in Nat /\ S \subseteq Key
  BY ContentsAreKeys, BoundsAssumption DEF Key
<1>2. S # {} /\ (P[p].kind = "leaf" => S \ {Min(S)} # {})
  BY EntriesAboveMinimum
<1>3. b \in S /\ \A x \in S : b >= x
  BY <1>1, <1>2, MaxIsGreatest DEF LendLastBoundary
<1>4. \A x \in S : x \in Int
  BY <1>1, Numbers
<1>5. P[p].low < b
  <2>1. CASE P[p].kind = "leaf"
    <3>1. S \subseteq Nat
      BY <1>1
    <3>2. Min(S) \in S /\ \A y \in S : Min(S) <= y
      BY <1>2, <3>1, MinIsLeast
    <3>3. PICK x \in S : x # Min(S)
      BY <1>2, <2>1
    <3> DEFINE m == Min(S)
    <3> HIDE DEF m, S, b
    <3>4. m \in S /\ x \in S /\ m < x /\ x <= b
      BY <1>3, <1>4, <3>2, <3>3 DEF m
    <3>5. m < b
      BY <1>3, <1>4, <3>4
    <3>6. QED
      BY <1>3, <3>4, <3>5, SecondAboveLow DEF S
  <2>2. CASE P[p].kind = "internal"
    BY <1>3, <2>2 DEF WellFormed, Fenced
  <2>3. QED
    BY <2>1, <2>2 DEF ActiveIn, Active
<1>6. b < P[p].high
  BY <1>3 DEF WellFormed, Fenced
<1>7. QED
  BY <1>1, <1>3, <1>4, <1>5, <1>6

\* The first record, or separator, that a page that can lend keeps above the
\* new boundary, or gives up for it.
LEMMA LendFirstInside ==
  ASSUME NEW P \in Pages, NEW r, WellFormed(P, r), NEW p \in ActiveIn(P),
         ~AtMinimum(P[p])
  PROVE  LET b == LendFirstBoundary(P[p])
         IN  /\ b \in Contents(P[p]) /\ b \in Key
             /\ P[p].kind = "internal" => \A x \in Contents(P[p]) : b <= x
             /\ P[p].kind = "leaf" => \E first \in Contents(P[p]) :
                  first < b /\ \A x \in Contents(P[p]) : x = first \/ b <= x
             /\ P[p].low < b /\ b < P[p].high
<1> DEFINE b    == LendFirstBoundary(P[p])
           S    == Contents(P[p])
           rest == S \ {Min(S)}
<1>1. S \subseteq Nat /\ S \subseteq Key
  BY ContentsAreKeys, BoundsAssumption DEF Key
<1>2. S # {} /\ (P[p].kind = "leaf" => rest # {})
  BY EntriesAboveMinimum
<1>3. Min(S) \in S /\ \A y \in S : Min(S) <= y
  BY <1>1, <1>2, MinIsLeast
<1>4. \A x \in S : x \in Int
  BY <1>1, Numbers
<1>5. CASE P[p].kind = "leaf"
  <2>1. b = Min(rest)
    BY <1>5 DEF LendFirstBoundary
  <2>2. Min(rest) \in rest /\ \A x \in rest : Min(rest) <= x
    BY <1>1, <1>2, <1>5, MinIsLeast
  <2> DEFINE m == Min(S)
  <2>8. \A x \in S : x = m \/ b <= x
    BY <2>1, <2>2
  <2>3. b \in S /\ b # m /\ m \in S /\ m <= b
    BY <1>3, <2>1, <2>2
  <2> HIDE DEF m, b, S
  <2>4. m < b
    BY <1>4, <2>3
  <2>5. P[p].low < b
    BY <2>3, <2>4, SecondAboveLow DEF S
  <2>6. b < P[p].high
    BY <2>3 DEF WellFormed, Fenced, S
  <2>7. QED
    BY <1>1, <1>5, <2>3, <2>4, <2>5, <2>6, <2>8 DEF S, b
<1>6. CASE P[p].kind = "internal"
  <2>1. b = Min(S)
    BY <1>6 DEF LendFirstBoundary
  <2>2. P[p].low < b /\ b < P[p].high
    BY <1>3, <1>6, <2>1 DEF WellFormed, Fenced
  <2>3. QED
    BY <1>1, <1>3, <1>6, <2>1, <2>2
<1>7. QED
  BY <1>5, <1>6 DEF ActiveIn, Active

-----------------------------------------------------------------------------
(***************************************************************************)
(* The critical sections are elementary changes: splits.                   *)
(***************************************************************************)
LEMMA HalvesAre ==
  ASSUME NEW pg \in SoundPage, NEW sep \in Key, NEW p
  PROVE  /\ ~pg.isRoot => HalfBelow(SplitLower(pg, sep, p), pg, sep)
         /\ HalfBelow([SplitLower(pg, sep, p) EXCEPT !.isRoot = FALSE], pg, sep)
         /\ HalfAbove(SplitUpper(pg, sep, p), pg, sep)
<1>1. pg \in PageRec
  BY DEF SoundPage
<1>2. /\ ~pg.isRoot => HalfBelow(SplitLower(pg, sep, p), pg, sep)
      /\ HalfBelow([SplitLower(pg, sep, p) EXCEPT !.isRoot = FALSE], pg, sep)
  BY <1>1 DEF SplitLower, HalfBelow, PageRec
<1>3. HalfAbove(SplitUpper(pg, sep, p), pg, sep)
  BY <1>1 DEF SplitUpper, HalfAbove, PageRec
<1>4. QED
  BY <1>2, <1>3

LEMMA SplitChildSplits ==
  ASSUME IndInv, WellFormed(page, root), NEW t \in Thread, SplitChild(t)
  PROVE  \E s : ChildSplits(page, page', node[t], s, SplitKey(page[ChildOf(t)]),
                            ChildOf(t), ChildOf(t), FirstNew)
<1> DEFINE p     == node[t]
           s     == ChildSlot(page[p], call[t].key)
           child == page[p].kids[s]
           old   == page[child]
           sep   == SplitKey(old)
           lower == SplitLower(old, sep, FirstNew)
           upper == SplitUpper(old, sep, child)
           above == InstallSplit(page[p], sep, FirstNew)
<1>1. page \in Pages /\ page' \in Pages /\ root' = root
  BY StepTyped DEF IndInv, TreeTyped, Pages, Step, Insert, SplitChild
<1>2. /\ p \in Page /\ page[p].kind = "internal" /\ Full(old)
      /\ Unallocated # {}
      /\ page' = [page EXCEPT ![child] = lower, ![FirstNew] = upper, ![p] = above]
  BY DEF SplitChild, InsertDescends, Attempts, WriteFree, ChildOf, Child
<1>3. p \in InternalsIn(page) /\ s \in Slots(page[p]) /\ s \in Slot
  BY <1>2, ChildSlotExists, SlotNumbers DEF InternalsIn, Slots
<1>4. /\ child \in ActiveIn(page) /\ child \in Page
      /\ page[child].level + 1 = page[p].level
  BY <1>3 DEF WellFormed, ChildrenFit, Fits, ActiveIn
<1>5. /\ FirstNew \in Page /\ FirstNew \in Ref /\ FirstNew # Nil
      /\ FirstNew \notin ActiveIn(page)
  BY <1>2, NewPagesExist, ConstantFields DEF Unallocated, ActiveIn, Active
<1>6. p # child /\ p # FirstNew /\ child # FirstNew /\ child # root
  <2>1. page[p].level \in Nat /\ page[child].level \in Nat /\ page[root].level \in Nat
    BY <1>1, <1>2, <1>4, Numbers DEF IndInv, TreeTyped
  <2>2. p \in ActiveIn(page)
    BY <1>2 DEF ActiveIn, Active
  <2>3. page[p].level <= page[root].level
    BY <2>1, <2>2 DEF WellFormed, Levelled
  <2>4. QED
    BY <1>4, <1>5, <2>1, <2>2, <2>3
<1>7. /\ sep \in Key /\ page[child].low < sep /\ sep < page[child].high
      /\ sep \in Contents(page[child])
  BY <1>1, <1>2, <1>4, SplitKeyInside
<1>8. page'[child] = lower /\ page'[FirstNew] = upper /\ page'[p] = above
      /\ \A x \in Page \ {child, FirstNew, p} : page'[x] = page[x]
  BY <1>1, <1>2, <1>4, <1>5, <1>6 DEF Pages
<1>9. /\ old \in SoundPage /\ ~old.isRoot /\ page[p] \in SoundPage
  BY <1>1, <1>2, <1>4, <1>6 DEF Pages, WellFormed, RootSpans
<1>10. HalfBelow(lower, old, sep) /\ HalfAbove(upper, old, sep)
  <2> HIDE DEF sep, old
  <2>1. QED
    BY <1>7, <1>9, HalvesAre
<1>11. /\ above.kind = page[p].kind /\ above.level = page[p].level
       /\ above.isRoot = page[p].isRoot
       /\ above.low = page[p].low /\ above.high = page[p].high
       /\ \A x \in Slot : above.kids[x] = IF x = sep THEN FirstNew ELSE page[p].kids[x]
  <2> HIDE DEF sep
  <2>1. QED
    BY <1>9 DEF InstallSplit, SoundPage, PageRec
<1>12. s # sep
  <2>1. page[child].low \in Int /\ sep \in Int /\ s \in Int /\ page[p].low \in Int
        /\ NegInf < sep
    BY <1>1, <1>2, <1>3, <1>4, <1>7, Numbers
  <2>2. page[child].low = IF s = NegInf THEN page[p].low ELSE s
    BY <1>3 DEF WellFormed, ChildrenFit, Fits
  <2> HIDE DEF s, sep, child
  <2>3. QED
    BY <1>7, <2>1, <2>2
<1>13. page[child].kind = "internal" => sep \in Separators(page[child])
  BY <1>7 DEF Contents
<1>14. ChildSplits(page, page', p, s, sep, child, child, FirstNew)
  <2>1. \A x \in Page \ {child, FirstNew, p} : Alike(page'[x], page[x])
    BY <1>8 DEF Alike
  <2> HIDE DEF s, sep, lower, upper, above
  <2>2. \A x \in Slot : page'[p].kids[x] = IF x = s THEN child
                          ELSE IF x = sep THEN FirstNew ELSE page[p].kids[x]
    BY <1>8, <1>11, <1>12
  <2>3. HalfBelow(page'[child], page[child], sep) /\ HalfAbove(page'[FirstNew], page[child], sep)
    BY <1>8, <1>10
  <2>4. QED
    BY <1>3, <1>4, <1>5, <1>6, <1>7, <1>8, <1>11, <1>13, <2>1, <2>2, <2>3 DEF ChildSplits
<1>15. child = ChildOf(t) /\ sep = SplitKey(page[ChildOf(t)])
  BY DEF ChildOf, Child
<1> HIDE DEF p, s, sep, child
<1>16. QED
  BY <1>14, <1>15 DEF p

LEMMA SplitChildShape ==
  ASSUME IndInv, WellFormed(page, root), NEW t \in Thread, SplitChild(t)
  PROVE  WellFormed(page', root')
<1>1. page \in Pages /\ page' \in Pages /\ root' = root
  BY StepTyped DEF IndInv, TreeTyped, Pages, Step, Insert, SplitChild
<1>2. QED
  BY <1>1, SplitChildSplits, SplitKeepsShape

\* A root split is a new root above the old one, whose sole child is then split.
LEMMA SplitRootSplits ==
  ASSUME IndInv, WellFormed(page, root), NEW t \in Thread, SplitRoot(t),
         Full(page[root])
  PROVE  \E mid \in Pages :
           /\ Grows(page, mid, root, root')
           /\ ChildSplits(mid, page', root', NegInf, SplitKey(page[root]),
                          root, root, FirstNew)
<1> DEFINE old   == page[root]
           sep   == SplitKey(old)
           lower == [SplitLower(old, sep, FirstNew) EXCEPT !.isRoot = FALSE]
           upper == SplitUpper(old, sep, root)
           top   == RootFromSplit(root, sep, FirstNew, old.level + 1)
           bare  == [FreePage EXCEPT !.kind = "internal", !.isRoot = TRUE,
                                     !.level = old.level + 1,
                                     !.kids = [NoKids EXCEPT ![NegInf] = root]]
           mid   == [page EXCEPT ![root] = [old EXCEPT !.isRoot = FALSE],
                                 ![SecondNew] = bare]
<1>1. page \in Pages /\ page' \in Pages /\ root \in Page
  BY StepTyped DEF IndInv, TreeTyped, Pages, Step, Insert
<1>2. /\ Cardinality(Unallocated) >= 2 /\ root' = SecondNew
      /\ page' = [page EXCEPT ![root] = lower, ![FirstNew] = upper, ![SecondNew] = top]
  BY DEF SplitRoot
<1>3. /\ FirstNew \in Page /\ SecondNew \in Page /\ FirstNew # SecondNew
      /\ FirstNew \notin ActiveIn(page) /\ SecondNew \notin ActiveIn(page)
      /\ FirstNew # Nil /\ root # Nil
  BY <1>1, <1>2, NewPagesExist, ConstantFields DEF Unallocated, ActiveIn, Active
<1>4. root \in ActiveIn(page) /\ root # FirstNew /\ root # SecondNew
      /\ old.low = NegInf /\ old.high = PosInf
  BY <1>3 DEF WellFormed, RootSpans
<1>5. /\ sep \in Key /\ old.low < sep /\ sep < old.high
      /\ sep \in Contents(old)
  BY <1>1, <1>4, SplitKeyInside
<1>6. old \in SoundPage /\ old.level \in Nat /\ root \in Ref
  BY <1>1, Numbers, ConstantFields DEF Pages
<1>7. bare \in SoundPage
  <2> DEFINE kids == [NoKids EXCEPT ![NegInf] = root]
             lvl  == old.level + 1
  <2>1. kids \in [Slot -> Ref] /\ lvl \in Nat
    BY <1>6, ConstantFields
  <2> HIDE DEF kids, lvl
  <2>2. FreePage \in PageRec
    BY ConstantFields DEF FreePage, PageRec
  <2>3. [FreePage EXCEPT !.kind = "internal", !.isRoot = TRUE, !.level = lvl,
                         !.kids = kids] \in SoundPage
    BY <2>1, <2>2 DEF SoundPage, PageRec
  <2>4. QED
    BY <2>3 DEF kids, lvl
<1>8. /\ bare.kind = "internal" /\ bare.level = old.level + 1 /\ bare.isRoot
      /\ bare.low = NegInf /\ bare.high = PosInf
      /\ \A x \in Slot : bare.kids[x] = IF x = NegInf THEN root ELSE Nil
  BY ConstantFields DEF FreePage, NoKids
<1>9. /\ top.kind = "internal" /\ top.level = old.level + 1 /\ top.isRoot
      /\ top.low = NegInf /\ top.high = PosInf
      /\ \A x \in Slot : top.kids[x] = IF x = NegInf THEN root
                                       ELSE IF x = sep THEN FirstNew ELSE Nil
  <2> HIDE DEF sep
  <2>1. sep # NegInf /\ sep \in Slot
    BY <1>5, ConstantFields, Numbers
  <2>2. QED
    BY <2>1, ConstantFields DEF RootFromSplit, FreePage, NoKids
<1> DEFINE unmarked == [old EXCEPT !.isRoot = FALSE]
<1>10. /\ unmarked \in SoundPage /\ AlikeUnmarked(unmarked, old) /\ ~unmarked.isRoot
  BY <1>6, LinksSound DEF AlikeUnmarked, SoundPage, PageRec
<1>11. HalfBelow(lower, unmarked, sep) /\ HalfAbove(upper, unmarked, sep)
  <2>1. HalfBelow(lower, old, sep) /\ HalfAbove(upper, old, sep)
    <3> HIDE DEF sep, old
    <3>1. QED
      BY <1>5, <1>6, HalvesAre
  <2> HIDE DEF lower, upper, sep, unmarked, old
  <2>2. QED
    BY <1>10, <2>1 DEF HalfBelow, HalfAbove, AlikeUnmarked
<1> HIDE DEF bare, top, lower, upper, unmarked
<1>12. mid \in Pages
  BY <1>1, <1>7, <1>10 DEF Pages, unmarked
<1>13. mid[root] = unmarked /\ mid[SecondNew] = bare
       /\ \A x \in Page \ {root, SecondNew} : mid[x] = page[x]
  BY <1>1, <1>3, <1>4 DEF Pages, unmarked
<1>14. page'[root] = lower /\ page'[FirstNew] = upper /\ page'[SecondNew] = top
       /\ \A x \in Page \ {root, FirstNew, SecondNew} : page'[x] = page[x]
  BY <1>1, <1>2, <1>3, <1>4 DEF Pages
<1> HIDE DEF mid
<1>15. Grows(page, mid, root, SecondNew)
  <2>1. \A x \in Page \ {SecondNew} : AlikeUnmarked(mid[x], page[x])
    BY <1>10, <1>13 DEF AlikeUnmarked
  <2>2. \A x \in Page : mid[x].isRoot <=> x = SecondNew
    BY <1>3, <1>4, <1>8, <1>10, <1>13 DEF WellFormed, RootSpans
  <2>3. QED
    BY <1>3, <1>8, <1>13, <2>1, <2>2 DEF Grows
<1>16. ChildSplits(mid, page', SecondNew, NegInf, sep, root, root, FirstNew)
  <2>1. SecondNew \in InternalsIn(mid) /\ NegInf \in Slots(mid[SecondNew])
        /\ mid[SecondNew].kids[NegInf] = root
    BY <1>3, <1>8, <1>13, SlotNumbers, ConstantFields DEF InternalsIn
  <2>2. unmarked.kind = old.kind /\ unmarked.low = old.low /\ unmarked.high = old.high
        /\ unmarked.kids = old.kids
    BY <1>10 DEF AlikeUnmarked
  <2>3. mid[root].low < sep /\ sep < mid[root].high
    BY <1>5, <1>13, <2>2
  <2>4. mid[root].kind = "internal" => sep \in Separators(mid[root])
    BY <1>5, <1>13, <2>2 DEF Contents, Separators
  <2>5. FirstNew \notin ActiveIn(mid)
    BY <1>3, <1>4, <1>13 DEF ActiveIn
  <2>6. \A x \in Page \ {root, FirstNew, SecondNew} : Alike(page'[x], mid[x])
    BY <1>13, <1>14 DEF Alike
  <2>7. /\ page'[SecondNew].kind = mid[SecondNew].kind
        /\ page'[SecondNew].level = mid[SecondNew].level
        /\ page'[SecondNew].isRoot = mid[SecondNew].isRoot
        /\ page'[SecondNew].low = mid[SecondNew].low
        /\ page'[SecondNew].high = mid[SecondNew].high
        /\ \A x \in Slot : page'[SecondNew].kids[x] =
             IF x = NegInf THEN root ELSE IF x = sep THEN FirstNew
             ELSE mid[SecondNew].kids[x]
    <3>1. bare.isRoot = top.isRoot
      BY <1>3, <1>7, <1>8, <1>9, <1>14, <1>1, Numbers DEF SoundPage, PageRec, Pages
    <3>2. QED
      BY <1>8, <1>9, <1>13, <1>14, <3>1
  <2> HIDE DEF sep
  <2>8. QED
    BY <1>1, <1>3, <1>4, <1>5, <1>11, <1>13, <1>14, <2>1, <2>3, <2>4, <2>5, <2>6, <2>7
       DEF ChildSplits
<1>17. sep = SplitKey(page[root])
  OBVIOUS
<1> HIDE DEF sep
<1>18. QED
  BY <1>2, <1>12, <1>15, <1>16, <1>17

LEMMA SplitRootShape ==
  ASSUME IndInv, WellFormed(page, root), NEW t \in Thread, SplitRoot(t),
         Full(page[root])
  PROVE  WellFormed(page', root')
<1>1. page \in Pages /\ page' \in Pages
  BY StepTyped DEF IndInv, TreeTyped, Pages, Step, Insert
<1>2. PICK mid \in Pages :
        /\ Grows(page, mid, root, root')
        /\ ChildSplits(mid, page', root', NegInf, SplitKey(page[root]),
                       root, root, FirstNew)
  BY SplitRootSplits
<1>3. WellFormed(mid, root')
  BY <1>1, <1>2, GrowKeepsShape
<1>4. QED
  BY <1>1, <1>2, <1>3, SplitKeepsShape

-----------------------------------------------------------------------------
(***************************************************************************)
(* The critical sections are elementary changes: merges and borrows.       *)
(***************************************************************************)
\* The children of p on both sides of the separator sep, merged.
Merged(P, p, sep) ==
  LET l == P[p].kids[PrevSlot(P[p], sep)]
      h == P[p].kids[sep]
  IN  [P EXCEPT ![l] = Retired(P[l], h), ![h] = Survivor(P[l], P[h], sep),
                ![p] = DropMerged(P[p], sep)]

LEMMA SurvivorIsUnion ==
  ASSUME NEW left \in SoundPage, NEW right \in SoundPage, NEW sep \in Key,
         ~right.isRoot
  PROVE  Union(Survivor(left, right, sep), left, right, sep)
<1>1. left \in PageRec /\ right \in PageRec
  BY DEF SoundPage
<1>2. QED
  BY <1>1 DEF Survivor, Union, PageRec

LEMMA MergedMerges ==
  ASSUME NEW P \in Pages, NEW r, WellFormed(P, r),
         NEW p \in InternalsIn(P), NEW sep \in Separators(P[p])
  PROVE  LET s == PrevSlot(P[p], sep)
             l == P[p].kids[s]
             h == P[p].kids[sep]
         IN  /\ ChildrenMerge(P, Merged(P, p, sep), p, s, sep, l, h, h)
             /\ Merged(P, p, sep) \in Pages
             /\ Merged(P, p, sep)[h] = Survivor(P[l], P[h], sep)
             /\ WellFormed(Merged(P, p, sep), r)
<1> DEFINE s == PrevSlot(P[p], sep)
           l == P[p].kids[s]
           h == P[p].kids[sep]
           Q == Merged(P, p, sep)
<1>1. s \in Slots(P[p]) /\ P[l].high = sep /\ s \in Slot
  BY PrevSlotIsNext, PrevChildEnds, SlotNumbers
<1>2. /\ l \in ActiveIn(P) /\ h \in ActiveIn(P) /\ l # h
      /\ l \in Page /\ h \in Page /\ p \in Page
      /\ p \notin {l, h} /\ r \notin {l, h}
      /\ s < sep /\ sep \in Key
  BY <1>1, Neighbours DEF InternalsIn
<1>3. P[l] \in SoundPage /\ P[h] \in SoundPage /\ P[p] \in SoundPage /\ ~P[h].isRoot
      /\ ~P[l].isRoot
  BY <1>2 DEF Pages, WellFormed, RootSpans
<1>4. /\ Survivor(P[l], P[h], sep) \in SoundPage
      /\ Retired(P[l], h) \in SoundPage
      /\ DropMerged(P[p], sep) \in SoundPage
  <2> HIDE DEF l, h
  <2>1. QED
    BY <1>2, <1>3, MergeSound
<1>5. /\ Q \in Pages
      /\ Q[l] = Retired(P[l], h) /\ Q[h] = Survivor(P[l], P[h], sep)
      /\ Q[p] = DropMerged(P[p], sep)
      /\ \A x \in Page \ {l, h, p} : Q[x] = P[x]
  <2> DEFINE A == Retired(P[l], h)
             B == Survivor(P[l], P[h], sep)
             C == DropMerged(P[p], sep)
  <2>1. Q = [P EXCEPT ![l] = A, ![h] = B, ![p] = C]
    BY DEF Merged
  <2> HIDE DEF A, B, C, l, h, Q
  <2>2. Q \in Pages
    BY <1>4, <2>1, PagesPut DEF Pages, A, B, C
  <2>3. Q[l] = A /\ Q[h] = B /\ Q[p] = C
        /\ \A x \in Page \ {l, h, p} : Q[x] = P[x]
    BY <1>2, <2>1 DEF Pages
  <2>4. QED
    BY <2>2, <2>3 DEF A, B, C
<1>6. Union(Q[h], P[l], P[h], sep)
  <2> HIDE DEF l, h, Q
  <2>1. QED
    BY <1>2, <1>3, <1>5, SurvivorIsUnion
<1>7. ~Active(Q[l]) /\ ~Q[l].isRoot
  <2> HIDE DEF l, h, Q
  <2>1. QED
    BY <1>3, <1>5 DEF Retired, Active, SoundPage, PageRec
<1>8. /\ Q[p].kind = P[p].kind /\ Q[p].level = P[p].level
      /\ Q[p].isRoot = P[p].isRoot
      /\ Q[p].low = P[p].low /\ Q[p].high = P[p].high
      /\ \A x \in Slot : Q[p].kids[x] = IF x = s THEN h ELSE IF x = sep THEN Nil
                                        ELSE P[p].kids[x]
  <2>1. s # sep
    BY <1>1, <1>2, Numbers
  <2>2. Q[p] = [P[p] EXCEPT !.kids[s] = h, !.kids[sep] = Nil]
    BY <1>5 DEF DropMerged
  <2> HIDE DEF s, l, h, Q
  <2>3. QED
    BY <1>1, <1>3, <2>1, <2>2 DEF SoundPage, PageRec
<1>9. ChildrenMerge(P, Q, p, s, sep, l, h, h)
  <2>1. \A x \in Page \ {l, h, p} : Alike(Q[x], P[x])
    BY <1>5 DEF Alike
  <2> HIDE DEF Q
  <2>2. QED
    BY <1>1, <1>2, <1>6, <1>7, <1>8, <2>1 DEF ChildrenMerge
<1>10. WellFormed(Q, r)
  <2> HIDE DEF Q, s, l, h
  <2>1. QED
    BY <1>5, <1>9, MergeKeepsShape
<1>11. QED
  BY <1>5, <1>9, <1>10

\* The pages of a removal that goes down, whatever it does there.
LEMMA RemovePlace ==
  ASSUME IndInv, NEW t \in Thread, RemoveDescends(t)
  PROVE  /\ node[t] \in InternalsIn(page) /\ node[t] \in Page
         /\ Sep(t) \in Separators(page[node[t]])
BY BoundaryExists
   DEF RemoveDescends, Attempts, WriteFree, Sep, InternalsIn

LEMMA MergeShape ==
  ASSUME IndInv, WellFormed(page, root), NEW t \in Thread, Merge(t)
  PROVE  WellFormed(page', root')
<1>1. node[t] \in InternalsIn(page) /\ Sep(t) \in Separators(page[node[t]])
  BY RemovePlace DEF Merge
<1>2. page \in Pages
  BY DEF IndInv, TreeTyped, Pages
<1>3. page' = Merged(page, node[t], Sep(t)) /\ root' = root
  BY DEF Merge, Merged, LeftOf, RightOf
<1>4. WellFormed(Merged(page, node[t], Sep(t)), root)
  BY <1>1, <1>2, MergedMerges
<1>5. QED
  BY <1>3, <1>4

\* The two halves of a borrow from the left, seen from the union of the pages.
LEMMA LentLastHalves ==
  ASSUME NEW left \in SoundPage, NEW right \in SoundPage,
         NEW sep \in Key, NEW b \in Key, NEW union,
         Union(union, left, right, sep),
         left.kind = right.kind, left.level = right.level,
         ~left.isRoot, ~right.isRoot,
         b \in Contents(left), b < sep,
         \A x \in Contents(left) : x <= b,
         \A x \in Contents(right) : sep <= x,
         right.kind = "internal" => \A x \in Contents(right) : sep < x,
         right.kind \in {"leaf", "internal"}
  PROVE  /\ HalfBelow(LentLast(left, b), union, b)
         /\ HalfAbove(TookLast(left, right, sep, b), union, b)
         /\ union.kind = "internal" => b \in Separators(union)
<1>1. left \in PageRec /\ right \in PageRec
  BY DEF SoundPage
<1>2. /\ sep \in Slot /\ b \in Slot /\ sep # NegInf /\ b # NegInf /\ sep \in Int
      /\ b \in Int /\ NegInf \in Slot
  BY ConstantFields, Numbers
<1>3. /\ \A k \in Key : k \in Int /\ k \in Slot
      /\ \A s \in Slot : s \in Int /\ (s = NegInf \/ s \in Key)
      /\ NegInf < b
  BY ConstantFields, Numbers
<1> DEFINE A == LentLast(left, b)
           B == TookLast(left, right, sep, b)
<1>4. /\ A.kind = left.kind /\ A.level = left.level /\ A.isRoot = left.isRoot
      /\ A.low = left.low /\ A.high = b
      /\ \A k \in Key : A.recs[k] = IF k = b THEN NoVal ELSE left.recs[k]
      /\ \A s \in Slot : A.kids[s] = IF s = b THEN Nil ELSE left.kids[s]
  BY <1>1, <1>2 DEF LentLast, PageRec
<1>5. /\ B.kind = right.kind /\ B.level = right.level /\ B.isRoot = right.isRoot
      /\ B.low = b /\ B.high = right.high
      /\ \A k \in Key : B.recs[k] = IF k = b THEN left.recs[b] ELSE right.recs[k]
      /\ \A s \in Slot : B.kids[s] = IF s = NegInf THEN left.kids[b]
                                     ELSE IF s = sep THEN right.kids[NegInf]
                                     ELSE right.kids[s]
  <2> DEFINE recs == [right.recs EXCEPT ![b] = left.recs[b]]
             kids == [right.kids EXCEPT ![sep] = right.kids[NegInf],
                                        ![NegInf] = left.kids[b]]
  <2>1. B = [right EXCEPT !.recs = recs, !.kids = kids, !.low = b]
    BY <1>1 DEF TookLast, PageRec
  <2>2. /\ \A k \in Key : recs[k] = IF k = b THEN left.recs[b] ELSE right.recs[k]
        /\ \A s \in Slot : kids[s] = IF s = NegInf THEN left.kids[b]
                                     ELSE IF s = sep THEN right.kids[NegInf]
                                     ELSE right.kids[s]
    BY <1>1, <1>2 DEF PageRec
  <2> HIDE DEF recs, kids, B
  <2>3. QED
    BY <1>1, <2>1, <2>2 DEF PageRec
<1> HIDE DEF A, B
<1>6. CASE right.kind = "leaf"
  <2>1. /\ \A k \in Key : left.recs[k] # NoVal => k <= b
        /\ \A k \in Key : right.recs[k] # NoVal => sep <= k
    BY <1>6 DEF Contents, Records
  <2>2. /\ union.kind = "leaf"
        /\ \A k \in Key : union.recs[k] = IF k < sep THEN left.recs[k] ELSE right.recs[k]
    BY <1>6 DEF Union
  <2>3. \A k \in Key : A.recs[k] = IF k < b THEN union.recs[k] ELSE NoVal
    BY <1>2, <1>3, <1>4, <2>1, <2>2
  <2>4. \A k \in Key : B.recs[k] = IF k < b THEN NoVal ELSE union.recs[k]
    BY <1>2, <1>3, <1>5, <2>1, <2>2
  <2>5. QED
    BY <1>4, <1>5, <1>6, <2>2, <2>3, <2>4 DEF A, B, HalfBelow, HalfAbove, Union
<1>7. CASE right.kind = "internal"
  <2>1. /\ \A s \in Key : left.kids[s] # Nil => s <= b
        /\ \A s \in Key : right.kids[s] # Nil => sep < s
        /\ left.kids[b] # Nil
    BY <1>7 DEF Contents, Separators
  <2>2. /\ union.kind = "internal"
        /\ \A s \in Slot : union.kids[s] = IF s < sep THEN left.kids[s]
                                           ELSE IF s = sep THEN right.kids[NegInf]
                                           ELSE right.kids[s]
    BY <1>7 DEF Union
  <2>3. \A s \in Slot : A.kids[s] = IF s < b THEN union.kids[s] ELSE Nil
    BY <1>2, <1>3, <1>4, <2>1, <2>2
  <2>4. \A s \in Slot : B.kids[s] = IF s = NegInf THEN union.kids[b]
                                    ELSE IF s > b THEN union.kids[s] ELSE Nil
    <3> TAKE s \in Slot
    <3>1. CASE s = NegInf
      BY <1>2, <1>5, <2>2, <3>1
    <3>2. CASE s # NegInf
      BY <1>2, <1>3, <1>5, <2>1, <2>2, <3>2
    <3>3. QED
      BY <3>1, <3>2
  <2>5. b \in Separators(union)
    BY <1>2, <2>1, <2>2 DEF Separators
  <2>6. QED
    BY <1>4, <1>5, <1>7, <2>2, <2>3, <2>4, <2>5 DEF A, B, HalfBelow, HalfAbove, Union
<1>8. QED
  BY <1>6, <1>7

\* The two halves of a borrow from the right.
LEMMA LentFirstHalves ==
  ASSUME NEW left \in SoundPage, NEW right \in SoundPage,
         NEW sep \in Key, NEW b \in Key, NEW union,
         Union(union, left, right, sep),
         left.kind = right.kind, left.level = right.level,
         ~left.isRoot, ~right.isRoot,
         b \in Contents(right), sep < b,
         right.kind = "internal" => \A x \in Contents(right) : b <= x,
         \A x \in Contents(left) : x < sep,
         right.kind \in {"leaf", "internal"}
  PROVE  /\ HalfBelow(TookFirst(left, right, sep, b), union, b)
         /\ HalfAbove(LentFirst(right, b), union, b)
         /\ union.kind = "internal" => b \in Separators(union)
<1>1. left \in PageRec /\ right \in PageRec
  BY DEF SoundPage
<1>2. /\ sep \in Slot /\ b \in Slot /\ sep # NegInf /\ b # NegInf /\ sep \in Int
      /\ b \in Int /\ NegInf \in Slot
  BY ConstantFields, Numbers
<1>3. /\ \A k \in Key : k \in Int /\ k \in Slot
      /\ \A s \in Slot : s \in Int /\ (s = NegInf \/ s \in Key)
      /\ NegInf < b /\ NegInf < sep
  BY ConstantFields, Numbers
<1> DEFINE A == TookFirst(left, right, sep, b)
           B == LentFirst(right, b)
<1>4. /\ A.kind = left.kind /\ A.level = left.level /\ A.isRoot = left.isRoot
      /\ A.low = left.low /\ A.high = b
      /\ \A k \in Key : A.recs[k] = IF sep <= k /\ k < b THEN right.recs[k]
                                    ELSE left.recs[k]
      /\ \A s \in Slot : A.kids[s] = IF s = sep THEN right.kids[NegInf]
                                     ELSE left.kids[s]
  BY <1>1, <1>2 DEF TookFirst, PageRec
<1>5. /\ B.kind = right.kind /\ B.level = right.level /\ B.isRoot = right.isRoot
      /\ B.low = b /\ B.high = right.high
      /\ \A k \in Key : B.recs[k] = IF k < b THEN NoVal ELSE right.recs[k]
      /\ \A s \in Slot : B.kids[s] = IF s = b THEN Nil
                                     ELSE IF s = NegInf THEN right.kids[b]
                                     ELSE right.kids[s]
  <2> DEFINE recs == [k \in Key |-> IF k < b THEN NoVal ELSE right.recs[k]]
             kids == [right.kids EXCEPT ![NegInf] = right.kids[b], ![b] = Nil]
  <2>1. B = [right EXCEPT !.recs = recs, !.kids = kids, !.low = b]
    BY <1>1 DEF LentFirst, PageRec
  <2>2. /\ \A k \in Key : recs[k] = IF k < b THEN NoVal ELSE right.recs[k]
        /\ \A s \in Slot : kids[s] = IF s = b THEN Nil
                                     ELSE IF s = NegInf THEN right.kids[b]
                                     ELSE right.kids[s]
    BY <1>1, <1>2 DEF PageRec
  <2> HIDE DEF recs, kids, B
  <2>3. QED
    BY <1>1, <2>1, <2>2 DEF PageRec
<1> HIDE DEF A, B
<1>6. CASE right.kind = "leaf"
  <2>1. \A k \in Key : left.recs[k] # NoVal => k < sep
    BY <1>6 DEF Contents, Records
  <2>2. /\ union.kind = "leaf"
        /\ \A k \in Key : union.recs[k] = IF k < sep THEN left.recs[k] ELSE right.recs[k]
    BY <1>6 DEF Union
  <2>3. \A k \in Key : A.recs[k] = IF k < b THEN union.recs[k] ELSE NoVal
    BY <1>2, <1>3, <1>4, <2>1, <2>2
  <2>4. \A k \in Key : B.recs[k] = IF k < b THEN NoVal ELSE union.recs[k]
    BY <1>2, <1>3, <1>5, <2>1, <2>2
  <2>5. QED
    BY <1>4, <1>5, <1>6, <2>2, <2>3, <2>4 DEF A, B, HalfBelow, HalfAbove, Union
<1>7. CASE right.kind = "internal"
  <2>1. /\ \A s \in Key : left.kids[s] # Nil => s < sep
        /\ \A s \in Key : right.kids[s] # Nil => b <= s
        /\ right.kids[b] # Nil
    BY <1>7 DEF Contents, Separators
  <2>2. /\ union.kind = "internal"
        /\ \A s \in Slot : union.kids[s] = IF s < sep THEN left.kids[s]
                                           ELSE IF s = sep THEN right.kids[NegInf]
                                           ELSE right.kids[s]
    BY <1>7 DEF Union
  <2>3. \A s \in Slot : A.kids[s] = IF s < b THEN union.kids[s] ELSE Nil
    <3> TAKE s \in Slot
    <3>1. CASE s = NegInf
      BY <1>2, <1>3, <1>4, <2>2, <3>1
    <3>2. CASE s # NegInf
      BY <1>2, <1>3, <1>4, <2>1, <2>2, <3>2
    <3>3. QED
      BY <3>1, <3>2
  <2>4. \A s \in Slot : B.kids[s] = IF s = NegInf THEN union.kids[b]
                                    ELSE IF s > b THEN union.kids[s] ELSE Nil
    <3> TAKE s \in Slot
    <3>1. CASE s = NegInf
      BY <1>2, <1>5, <2>2, <3>1
    <3>2. CASE s # NegInf
      BY <1>2, <1>3, <1>5, <2>1, <2>2, <3>2
    <3>3. QED
      BY <3>1, <3>2
  <2>5. b \in Separators(union)
    BY <1>2, <2>1, <2>2 DEF Separators
  <2>6. QED
    BY <1>4, <1>5, <1>7, <2>2, <2>3, <2>4, <2>5 DEF A, B, HalfBelow, HalfAbove, Union
<1>8. QED
  BY <1>6, <1>7

\* A borrow splits the merged pages again, at the new boundary b.
Borrows(P, Q, p, s, sep, l, h, b) ==
  /\ p \in InternalsIn(P) /\ sep \in Separators(P[p]) /\ s = PrevSlot(P[p], sep)
  /\ l = P[p].kids[s] /\ h = P[p].kids[sep]
  /\ b \in Key /\ P[l].low < b /\ b < P[h].high /\ b # sep
  /\ LET union == Survivor(P[l], P[h], sep)
     IN  /\ HalfBelow(Q[l], union, b)
         /\ HalfAbove(Q[h], union, b)
         /\ union.kind = "internal" => b \in Separators(union)
  /\ Q[p] = MoveBoundary(P[p], sep, b)
  /\ \A x \in Page \ {l, h, p} : Q[x] = P[x]

LEMMA BorrowSplits ==
  ASSUME NEW P \in Pages, NEW Q \in Pages, NEW r, WellFormed(P, r),
         NEW p, NEW s, NEW sep, NEW l, NEW h, NEW b,
         Borrows(P, Q, p, s, sep, l, h, b)
  PROVE  \E M \in Pages : /\ WellFormed(M, r) /\ WellFormed(Q, r)
                          /\ ChildrenMerge(P, M, p, s, sep, l, h, h)
                          /\ ChildSplits(M, Q, p, s, b, h, l, h)
<1> DEFINE M == Merged(P, p, sep)
           U == Survivor(P[l], P[h], sep)
<1>0. /\ p \in InternalsIn(P) /\ sep \in Separators(P[p]) /\ s = PrevSlot(P[p], sep)
      /\ l = P[p].kids[s] /\ h = P[p].kids[sep]
      /\ b \in Key /\ P[l].low < b /\ b < P[h].high /\ b # sep
      /\ HalfBelow(Q[l], U, b) /\ HalfAbove(Q[h], U, b)
      /\ U.kind = "internal" => b \in Separators(U)
      /\ Q[p] = MoveBoundary(P[p], sep, b)
      /\ \A x \in Page \ {l, h, p} : Q[x] = P[x]
  BY DEF Borrows
<1>1. /\ ChildrenMerge(P, M, p, s, sep, l, h, h)
      /\ M \in Pages /\ M[h] = U /\ WellFormed(M, r)
  BY <1>0, MergedMerges
<1> HIDE DEF M, U
<1>2. s \in Slots(P[p]) /\ P[P[p].kids[s]].high = sep /\ s \in Slot
  BY <1>0, PrevSlotIsNext, PrevChildEnds, SlotNumbers
<1>3. /\ l \in ActiveIn(P) /\ h \in ActiveIn(P) /\ l # h
      /\ l \in Page /\ h \in Page /\ p \in Page
      /\ p \notin {l, h}
      /\ s < sep /\ sep \in Key /\ sep \in Slot /\ sep # s /\ Fits(P, p, s)
  <2>1. /\ Fits(P, p, s) /\ l \in ActiveIn(P) /\ h \in ActiveIn(P)
        /\ l # h /\ l \in Page /\ h \in Page /\ p \in Page
        /\ p \notin {l, h} /\ s < sep /\ s \in Int /\ sep \in Int /\ sep \in Key
    BY <1>1, MergeFacts
  <2>2. sep \in Slot /\ sep # s
    BY <2>1, ConstantFields
  <2>3. QED
    BY <2>1, <2>2
<1>4. /\ Slots(M[p]) = Slots(P[p]) \ {sep}
      /\ ActiveIn(M) = (ActiveIn(P) \ {l, h}) \cup {h}
  <2>1. /\ Slots(M[p]) = Slots(P[p]) \ {sep}
    BY <1>1, MergeFacts
  <2>2. ActiveIn(M) = (ActiveIn(P) \ {l, h}) \cup {h}
    BY <1>1, MergeFacts
  <2>3. QED
    BY <2>1, <2>2
<1>5. /\ M[p].kind = P[p].kind /\ M[p].level = P[p].level
      /\ M[p].isRoot = P[p].isRoot
      /\ M[p].low = P[p].low /\ M[p].high = P[p].high
      /\ \A x \in Slot : M[p].kids[x] = IF x = s THEN h ELSE IF x = sep THEN Nil
                                        ELSE P[p].kids[x]
      /\ \A x \in Page \ {l, h, p} : Alike(M[x], P[x])
      /\ U.low = P[l].low /\ U.high = P[h].high
  BY <1>1 DEF ChildrenMerge, Union
<1>6. Q[p] = MoveBoundary(P[p], sep, b)
      /\ \A x \in Page \ {l, h, p} : Q[x] = P[x]
  BY <1>0
<1>7. b \in Slot /\ b # s
  <2>1. P[l].low = IF s = NegInf THEN P[p].low ELSE s
    BY <1>0, <1>3 DEF Fits
  <2>2. b \in Slot /\ b # NegInf /\ b \in Int /\ P[l].low \in Int
    BY <1>0, <1>3, Numbers, ConstantFields
  <2>3. QED
    BY <1>0, <2>1, <2>2
<1>8. /\ Q[p].kind = M[p].kind /\ Q[p].level = M[p].level
      /\ Q[p].isRoot = M[p].isRoot
      /\ Q[p].low = M[p].low /\ Q[p].high = M[p].high
      /\ \A x \in Slot : Q[p].kids[x] = IF x = s THEN l ELSE IF x = b THEN h
                                        ELSE M[p].kids[x]
  <2>1. P[p] \in PageRec
    BY <1>3 DEF Pages, SoundPage
  <2>2. /\ Q[p].kind = P[p].kind /\ Q[p].level = P[p].level
        /\ Q[p].isRoot = P[p].isRoot
        /\ Q[p].low = P[p].low /\ Q[p].high = P[p].high
        /\ \A x \in Slot : Q[p].kids[x] = IF x = b THEN P[p].kids[sep]
                                          ELSE IF x = sep THEN Nil
                                          ELSE P[p].kids[x]
    <3> DEFINE kids == [x \in Slot |-> IF x = b THEN P[p].kids[sep]
                                       ELSE IF x = sep THEN Nil
                                       ELSE P[p].kids[x]]
    <3>1. Q[p] = [P[p] EXCEPT !.kids = kids]
      BY <1>6 DEF MoveBoundary
    <3>2. \A x \in Slot : kids[x] = IF x = b THEN P[p].kids[sep]
                                    ELSE IF x = sep THEN Nil
                                    ELSE P[p].kids[x]
      OBVIOUS
    <3> HIDE DEF kids
    <3>3. /\ Q[p].kind = P[p].kind /\ Q[p].level = P[p].level
          /\ Q[p].isRoot = P[p].isRoot /\ Q[p].kids = kids
          /\ Q[p].low = P[p].low /\ Q[p].high = P[p].high
      BY <2>1, <3>1 DEF PageRec
    <3>4. QED
      BY <3>2, <3>3
  <2>3. QED
    BY <1>0, <1>3, <1>5, <1>7, <2>2, ZenonT(40)
<1>9. ChildSplits(M, Q, p, s, b, h, l, h)
  <2>1. p \in InternalsIn(M) /\ s \in Slots(M[p]) /\ h = M[p].kids[s]
    BY <1>0, <1>2, <1>3, <1>4, <1>5 DEF InternalsIn
  <2>2. \A x \in {l, h} : x = h \/ x \notin ActiveIn(M)
    BY <1>3, <1>4
  <2>3. HalfBelow(Q[l], M[h], b) /\ HalfAbove(Q[h], M[h], b)
    BY <1>0, <1>1
  <2>4. \A x \in Page \ {l, h, p} : Alike(Q[x], M[x])
    <3> TAKE x \in Page \ {l, h, p}
    <3>1. Alike(M[x], P[x]) /\ Q[x] = P[x]
      BY <1>5, <1>6
    <3>2. QED
      BY <3>1 DEF Alike
  <2>5. M[h].low < b /\ b < M[h].high
    BY <1>0, <1>1, <1>5
  <2>6. M[h].kind = "internal" => b \in Separators(M[h])
    BY <1>0, <1>1
  <2>7. QED
    BY <1>0, <1>3, <1>8, <2>1, <2>2, <2>3, <2>4, <2>5, <2>6 DEF ChildSplits
<1>10. WellFormed(Q, r)
  BY <1>1, <1>9, SplitKeepsShape
<1>11. QED
  BY <1>1, <1>9, <1>10

\* What a borrow needs to know of the two pages.
LEMMA BorrowPair ==
  ASSUME NEW P \in Pages, NEW r, WellFormed(P, r),
         NEW p \in InternalsIn(P), NEW sep \in Separators(P[p]),
         NEW l, l = P[p].kids[PrevSlot(P[p], sep)], NEW h, h = P[p].kids[sep]
  PROVE  /\ l \in ActiveIn(P) /\ h \in ActiveIn(P) /\ l # h
         /\ P[l] \in SoundPage /\ P[h] \in SoundPage
         /\ P[l].kind = P[h].kind /\ P[l].level = P[h].level
         /\ ~P[l].isRoot /\ ~P[h].isRoot
         /\ P[l].high = sep /\ P[h].low = sep /\ sep \in Key
         /\ P[l].low < sep /\ sep < P[h].high
         /\ P[h].kind \in {"leaf", "internal"}
         /\ \A x \in Contents(P[l]) : x < sep
         /\ \A x \in Contents(P[h]) : sep <= x
         /\ P[h].kind = "internal" => \A x \in Contents(P[h]) : sep < x
         /\ Union(Survivor(P[l], P[h], sep), P[l], P[h], sep)
<1>1. PrevSlot(P[p], sep) \in Slots(P[p]) /\ P[l].high = sep
  BY PrevSlotIsNext, PrevChildEnds
<1>2. /\ l \in ActiveIn(P) /\ h \in ActiveIn(P) /\ l # h
      /\ l \in Page /\ h \in Page /\ r \notin {l, h}
      /\ P[h].low = sep /\ P[l].low < sep /\ sep < P[h].high
      /\ P[l].level = P[h].level /\ P[l].kind = P[h].kind /\ sep \in Key
  BY <1>1, Neighbours
<1>3. P[l] \in SoundPage /\ P[h] \in SoundPage /\ ~P[l].isRoot /\ ~P[h].isRoot
  BY <1>2 DEF Pages, WellFormed, RootSpans
<1>4. /\ \A x \in Contents(P[l]) : x < sep
      /\ \A x \in Contents(P[h]) : sep <= x
      /\ P[h].kind = "internal" => \A x \in Contents(P[h]) : sep < x
  BY <1>1, <1>2 DEF WellFormed, Fenced
<1>5. P[h].kind \in {"leaf", "internal"}
  BY <1>2 DEF ActiveIn, Active
<1>6. Union(Survivor(P[l], P[h], sep), P[l], P[h], sep)
  BY <1>2, <1>3, SurvivorIsUnion
<1>7. QED
  BY <1>1, <1>2, <1>3, <1>4, <1>5, <1>6

\* The new boundary b takes one entry of the pair from one side to the other:
\* the last of l, or the first of h.
LendsLast(P, l, h, b) ==
  /\ ~AtMinimum(P[l]) /\ AtMinimum(P[h])
  /\ b \in Contents(P[l]) /\ \A x \in Contents(P[l]) : x <= b

LendsFirst(P, l, h, b) ==
  /\ AtMinimum(P[l]) /\ ~AtMinimum(P[h])
  /\ b \in Contents(P[h])
  /\ P[h].kind = "internal" => \A x \in Contents(P[h]) : b <= x
  /\ P[h].kind = "leaf" => \E first \in Contents(P[h]) :
       first < b /\ \A x \in Contents(P[h]) : x = first \/ b <= x

LEMMA BorrowBorrows ==
  ASSUME IndInv, WellFormed(page, root), NEW t \in Thread,
         BorrowFromLeft(t) \/ BorrowFromRight(t)
  PROVE  \E s, b :
           /\ Borrows(page, page', node[t], s, Sep(t), LeftOf(t), RightOf(t), b)
           /\ \/ LendsLast(page, LeftOf(t), RightOf(t), b)
              \/ LendsFirst(page, LeftOf(t), RightOf(t), b)
<1> DEFINE p   == node[t]
           sep == Sep(t)
           s   == PrevSlot(page[p], sep)
           l   == page[p].kids[s]
           h   == page[p].kids[sep]
<1>1. page \in Pages /\ page' \in Pages /\ root' = root
  BY StepTyped
     DEF IndInv, TreeTyped, Pages, Step, Remove, BorrowFromLeft, BorrowFromRight
<1>2. p \in InternalsIn(page) /\ sep \in Separators(page[p])
  BY RemovePlace DEF BorrowFromLeft, BorrowFromRight
<1>3. l = LeftOf(t) /\ h = RightOf(t)
  BY DEF LeftOf, RightOf
<1>9. s = PrevSlot(page[p], sep) /\ l = page[p].kids[s] /\ h = page[p].kids[sep]
  OBVIOUS
<1> HIDE DEF p, sep, s, l, h
<1>4. /\ l \in ActiveIn(page) /\ h \in ActiveIn(page) /\ l # h
      /\ page[l] \in SoundPage /\ page[h] \in SoundPage
      /\ page[l].kind = page[h].kind /\ page[l].level = page[h].level
      /\ ~page[l].isRoot /\ ~page[h].isRoot
      /\ page[l].high = sep /\ page[h].low = sep /\ sep \in Key
      /\ page[l].low < sep /\ sep < page[h].high
      /\ page[h].kind \in {"leaf", "internal"}
      /\ \A x \in Contents(page[l]) : x < sep
      /\ \A x \in Contents(page[h]) : sep <= x
      /\ page[h].kind = "internal" => \A x \in Contents(page[h]) : sep < x
      /\ Union(Survivor(page[l], page[h], sep), page[l], page[h], sep)
  BY <1>1, <1>2, BorrowPair DEF l, h, s
<1>5. page[l].low \in Int /\ page[h].high \in Int /\ sep \in Int
  BY <1>1, <1>4, Numbers DEF ActiveIn
<1>10. p \in Page /\ p \notin {l, h}
  <2>1. /\ s \in Slots(page[p]) /\ page[page[p].kids[s]].high = sep
    BY <1>1, <1>2, <1>9, PrevSlotIsNext, PrevChildEnds
  <2>2. QED
    BY <1>1, <1>2, <1>9, <2>1, Neighbours DEF InternalsIn
<1>6. CASE BorrowFromLeft(t)
  <2> DEFINE b == LendLastBoundary(page[l])
             A == LentLast(page[l], b)
             B == TookLast(page[l], page[h], sep, b)
  <2>1. /\ page' = [page EXCEPT ![l] = A, ![h] = B, ![p] = MoveBoundary(page[p], sep, b)]
        /\ ~AtMinimum(page[l]) /\ AtMinimum(page[h])
    BY <1>3, <1>6 DEF BorrowFromLeft, p, sep
  <2>2. /\ b \in Contents(page[l]) /\ b \in Key
        /\ \A x \in Contents(page[l]) : x <= b
        /\ page[l].low < b /\ b < page[l].high
    BY <1>1, <1>4, <2>1, LendLastInside
  <2> HIDE DEF b
  <2>3. b \in Int /\ b < sep /\ b < page[h].high /\ b # sep
    <3>1. b \in Int
      BY <2>2, Numbers
    <3>2. b < sep
      BY <1>4, <2>2
    <3>3. QED
      BY <1>4, <1>5, <3>1, <3>2
  <2>4. /\ HalfBelow(A, Survivor(page[l], page[h], sep), b)
        /\ HalfAbove(B, Survivor(page[l], page[h], sep), b)
        /\ Survivor(page[l], page[h], sep).kind = "internal"
             => b \in Separators(Survivor(page[l], page[h], sep))
    BY <1>4, <2>2, <2>3, LentLastHalves
  <2> HIDE DEF A, B
  <2>5. page'[l] = A /\ page'[h] = B /\ page'[p] = MoveBoundary(page[p], sep, b)
        /\ \A x \in Page \ {l, h, p} : page'[x] = page[x]
    BY <1>1, <1>4, <1>10, <2>1 DEF Pages, ActiveIn
  <2>6. Borrows(page, page', p, s, sep, l, h, b)
    BY <1>2, <1>4, <1>9, <2>2, <2>3, <2>4, <2>5 DEF Borrows
  <2>7. LendsLast(page, l, h, b)
    BY <2>1, <2>2 DEF LendsLast
  <2>8. QED
    BY <1>3, <2>6, <2>7 DEF p, sep
<1>7. CASE BorrowFromRight(t)
  <2> DEFINE b == LendFirstBoundary(page[h])
             A == TookFirst(page[l], page[h], sep, b)
             B == LentFirst(page[h], b)
  <2>1. /\ page' = [page EXCEPT ![l] = A, ![h] = B, ![p] = MoveBoundary(page[p], sep, b)]
        /\ ~AtMinimum(page[h]) /\ AtMinimum(page[l])
    BY <1>3, <1>7 DEF BorrowFromRight, p, sep
  <2>2. /\ b \in Contents(page[h]) /\ b \in Key
        /\ page[h].kind = "internal" => \A x \in Contents(page[h]) : b <= x
        /\ page[h].kind = "leaf" => \E first \in Contents(page[h]) :
             first < b /\ \A x \in Contents(page[h]) : x = first \/ b <= x
        /\ page[h].low < b /\ b < page[h].high
    BY <1>1, <1>4, <2>1, LendFirstInside
  <2> HIDE DEF b
  <2>3. b \in Int /\ sep < b /\ page[l].low < b /\ b # sep
    <3>1. b \in Key /\ page[h].low < b
      BY <2>2
    <3>2. b \in Int
      BY <3>1, Numbers
    <3>3. sep < b
      BY <1>4, <3>1
    <3>4. QED
      BY <1>4, <1>5, <3>2, <3>3
  <2>4. /\ HalfBelow(A, Survivor(page[l], page[h], sep), b)
        /\ HalfAbove(B, Survivor(page[l], page[h], sep), b)
        /\ Survivor(page[l], page[h], sep).kind = "internal"
             => b \in Separators(Survivor(page[l], page[h], sep))
    BY <1>4, <2>2, <2>3, LentFirstHalves
  <2> HIDE DEF A, B
  <2>5. page'[l] = A /\ page'[h] = B /\ page'[p] = MoveBoundary(page[p], sep, b)
        /\ \A x \in Page \ {l, h, p} : page'[x] = page[x]
    BY <1>1, <1>4, <1>10, <2>1 DEF Pages, ActiveIn
  <2>6. Borrows(page, page', p, s, sep, l, h, b)
    BY <1>2, <1>4, <1>9, <2>2, <2>3, <2>4, <2>5 DEF Borrows
  <2>7. LendsFirst(page, l, h, b)
    BY <2>1, <2>2 DEF LendsFirst
  <2>8. QED
    BY <1>3, <2>6, <2>7 DEF p, sep
<1>8. QED
  BY <1>6, <1>7

LEMMA BorrowShape ==
  ASSUME IndInv, WellFormed(page, root), NEW t \in Thread,
         BorrowFromLeft(t) \/ BorrowFromRight(t)
  PROVE  WellFormed(page', root')
<1>1. page \in Pages /\ page' \in Pages /\ root' = root
  BY StepTyped
     DEF IndInv, TreeTyped, Pages, Step, Remove, BorrowFromLeft, BorrowFromRight
<1>2. QED
  BY <1>1, BorrowBorrows, BorrowSplits

-----------------------------------------------------------------------------
(***************************************************************************)
(* The critical sections are elementary changes: the others.               *)
(***************************************************************************)
LEMMA ShrinkCollapses ==
  ASSUME IndInv, WellFormed(page, root), NEW t \in Thread, Shrink(t)
  PROVE  \/ page' = page /\ root' = root
         \/ Collapses(page, page', root, root')
<1> DEFINE c     == page[root].kids[NegInf]
           empty == page[root].kind = "internal" /\ Separators(page[root]) = {}
<1>1. page \in Pages /\ page' \in Pages /\ root \in Page
  BY StepTyped DEF IndInv, TreeTyped, Pages, Step, Remove
<1>2. CASE empty
  <2>1. /\ c \in Page /\ root' = c
        /\ page' = [page EXCEPT ![c] = PromotedChild(page[c]),
                                ![root] = CollapsedRoot(page[root], c)]
    BY <1>2 DEF Shrink, WriteFree
  <2>2. c # root
    <3>1. root \in InternalsIn(page) /\ NegInf \in Slots(page[root])
      BY <1>1, <1>2, SlotNumbers DEF InternalsIn
    <3>2. page[c].level + 1 = page[root].level
      BY <3>1 DEF WellFormed, ChildrenFit, Fits
    <3>3. page[c].level \in Nat /\ page[root].level \in Nat
      BY <1>1, <2>1, Numbers
    <3>4. QED
      BY <3>2, <3>3
  <2>3. page[c] \in PageRec /\ page[root] \in PageRec
    BY <1>1, <2>1 DEF Pages, SoundPage
  <2> HIDE DEF c
  <2>4. page'[c] = PromotedChild(page[c]) /\ page'[root] = CollapsedRoot(page[root], c)
        /\ \A x \in Page \ {c, root} : page'[x] = page[x]
    BY <1>1, <2>1, <2>2 DEF Pages
  <2>5. /\ page'[c].kind = page[c].kind /\ page'[c].level = page[c].level
        /\ page'[c].low = NegInf /\ page'[c].high = PosInf /\ page'[c].isRoot
        /\ page'[c].recs = page[c].recs /\ page'[c].kids = page[c].kids
    BY <2>3, <2>4 DEF PromotedChild, PageRec
  <2>6. ~Active(page'[root]) /\ ~page'[root].isRoot
    BY <2>3, <2>4 DEF CollapsedRoot, PageRec, Active
  <2>7. \A x \in Page \ {root, c} : AlikeUnmarked(page'[x], page[x])
    BY <2>4 DEF AlikeUnmarked
  <2>8. \A x \in Page : page'[x].isRoot <=> x = c
    <3> TAKE x \in Page
    <3>1. page[x].isRoot <=> x = root
      BY DEF WellFormed, RootSpans
    <3>2. QED
      BY <2>1, <2>2, <2>4, <2>5, <2>6, <3>1
  <2>9. Collapses(page, page', root, c)
    BY <1>2, <2>5, <2>6, <2>7, <2>8 DEF Collapses, c
  <2>10. QED
    BY <2>1, <2>9
<1>3. CASE ~empty
  <2>1. page' = page /\ root' = root
    BY <1>3 DEF Shrink
  <2>2. QED
    BY <2>1
<1>4. QED
  BY <1>2, <1>3

LEMMA ShrinkShape ==
  ASSUME IndInv, WellFormed(page, root), NEW t \in Thread, Shrink(t)
  PROVE  WellFormed(page', root')
<1>1. page \in Pages /\ page' \in Pages
  BY StepTyped DEF IndInv, TreeTyped, Pages, Step, Remove
<1>2. QED
  BY <1>1, ShrinkCollapses, CollapseKeepsShape

\* The links of a page change in a repair, nothing else does.
Relinks(t) ==
  \/ page' = page
  \/ \E p, q \in Ref : \/ page' = [page EXCEPT ![p].right = q]
                       \/ page' = [page EXCEPT ![p].prev = q]

LEMMA RepairsRelink ==
  ASSUME IndInv, NEW t \in Thread,
         FixSuccessor(t) \/ FixNone(t) \/ WalkOn(t) \/ Peek(t) \/ Join(t)
  PROVE  Relinks(t)
<1> USE DEF IndInv, TreeTyped, ThreadsTyped
<1>1. /\ Nil \in Ref /\ fix[t].cursor \in Ref /\ fix[t].survivor \in Ref
      /\ \A p \in Page : page[p].right \in Ref /\ page[p].target \in Ref /\ p \in Ref
  BY ConstantFields, ThreadRecords DEF SoundPage, PageRec
<1>2. CASE FixSuccessor(t)
  BY <1>1, <1>2 DEF FixSuccessor, WriteFree, Relinks
<1>3. CASE FixNone(t)
  BY <1>1, <1>3 DEF FixNone, WriteFree, Relinks
<1>4. CASE WalkOn(t)
  BY <1>1, <1>4 DEF WalkOn, WriteFree, Relinks
<1>5. CASE Peek(t)
  BY <1>1, <1>5 DEF Peek, ReadFree, Relinks
<1>6. CASE Join(t)
  BY <1>1, <1>6 DEF Join, WriteFree, Relinks
<1>7. QED
  BY <1>2, <1>3, <1>4, <1>5, <1>6

LEMMA RelinkShape ==
  ASSUME IndInv, WellFormed(page, root), NEW t \in Thread,
         FixSuccessor(t) \/ FixNone(t) \/ WalkOn(t) \/ Peek(t) \/ Join(t)
  PROVE  WellFormed(page', root')
<1>1. page \in Pages /\ page' \in Pages /\ root' = root
  BY StepTyped DEF IndInv, TreeTyped, Pages, Step, Insert, Remove,
                   FixSuccessor, FixNone, WalkOn, Peek, Join
<1>2. Relinks(t)
  BY RepairsRelink
<1>3. \A x \in Page : page[x] \in PageRec
  BY <1>1 DEF Pages, SoundPage
<1>4. \A x \in Page : Resembles(page'[x], page[x])
  <2>1. CASE page' = page
    BY <2>1 DEF Resembles
  <2>2. ASSUME NEW p \in Ref, NEW q \in Ref, page' = [page EXCEPT ![p].right = q]
        PROVE  \A x \in Page : Resembles(page'[x], page[x])
    BY <1>1, <1>3, <2>2 DEF Resembles, PageRec, Pages
  <2>3. ASSUME NEW p \in Ref, NEW q \in Ref, page' = [page EXCEPT ![p].prev = q]
        PROVE  \A x \in Page : Resembles(page'[x], page[x])
    BY <1>1, <1>3, <2>3 DEF Resembles, PageRec, Pages
  <2>4. QED
    BY <1>2, <2>1, <2>2, <2>3 DEF Relinks
<1>5. QED
  BY <1>1, <1>4, ContentsKeepShape

\* The sections that store, overwrite or erase a record do so in the leaf whose
\* fences the key is between.
LEMMA RecordPlace ==
  ASSUME IndInv, NEW t \in Thread,
         DropGuard(t) \/ FastInsert(t) \/ InsertHere(t) \/ FastRemove(t)
           \/ RemoveHere(t)
  PROVE  /\ node[t] \in Page /\ call[t].key \in Key /\ call[t].val \in Val
         /\ page[node[t]].kind = "leaf"
         /\ page[node[t]].low <= call[t].key /\ call[t].key < page[node[t]].high
<1> USE DEF IndInv, ThreadsTyped, TreeTyped
<1>1. call[t].key \in Key /\ call[t].val \in Val
  BY DEF Call
<1>2. /\ node[t] \in Page /\ page[node[t]].kind = "leaf"
      /\ Route(page[node[t]], call[t].key) = "here"
  <2>1. CASE DropGuard(t)
    BY <2>1 DEF DropGuard, LatchDiscipline, GuardLatched, GuardHasRecord
  <2>2. CASE FastInsert(t) \/ FastRemove(t)
    BY <2>2 DEF FastInsert, FastRemove, Latched, WriteFree, OwnsKey
  <2>3. CASE InsertHere(t) \/ RemoveHere(t)
    BY <2>3 DEF InsertHere, RemoveHere, Attempts, WriteFree
  <2>4. QED
    BY <2>1, <2>2, <2>3
<1>3. ~(call[t].key < page[node[t]].low) /\ ~(call[t].key >= page[node[t]].high)
  BY <1>2 DEF Route
<1>4. page[node[t]].low \in Int /\ page[node[t]].high \in Int /\ call[t].key \in Int
  BY <1>1, <1>2, Numbers DEF Pages
<1>5. QED
  BY <1>1, <1>2, <1>3, <1>4

LEMMA RecordWritten ==
  ASSUME IndInv, NEW t \in Thread,
         DropGuard(t) \/ FastInsert(t) \/ InsertHere(t) \/ FastRemove(t)
           \/ RemoveHere(t)
  PROVE  \/ page' = page
         \/ \E v \in Val \cup {NoVal} :
              page' = [page EXCEPT ![node[t]].recs[call[t].key] = v]
<1>1. call[t].val \in Val
  BY RecordPlace
<1>2. CASE DropGuard(t)
  BY <1>1, <1>2 DEF DropGuard
<1>3. CASE FastInsert(t)
  BY <1>1, <1>3 DEF FastInsert, StoreRecord
<1>4. CASE InsertHere(t)
  BY <1>1, <1>4 DEF InsertHere, StoreRecord
<1>5. CASE FastRemove(t)
  BY <1>1, <1>5 DEF FastRemove, EraseRecord
<1>6. CASE RemoveHere(t)
  BY <1>1, <1>6 DEF RemoveHere, EraseRecord
<1>7. QED
  BY <1>2, <1>3, <1>4, <1>5, <1>6

LEMMA RecordShape ==
  ASSUME IndInv, WellFormed(page, root), NEW t \in Thread,
         DropGuard(t) \/ FastInsert(t) \/ InsertHere(t) \/ FastRemove(t)
           \/ RemoveHere(t)
  PROVE  WellFormed(page', root')
<1> DEFINE p == node[t]
           k == call[t].key
<1>1. page \in Pages /\ page' \in Pages /\ root' = root
  BY StepTyped DEF IndInv, TreeTyped, Pages, Step, Insert, Remove, Seek,
                   DropGuard, FastInsert, InsertHere, FastRemove, RemoveHere
<1>2. p \in Page /\ k \in Key /\ page[p].low <= k /\ k < page[p].high
  BY RecordPlace
<1>3. \A x \in Page : page[x] \in PageRec
  BY <1>1 DEF Pages, SoundPage
<1> HIDE DEF p, k
<1>4. \A x \in Page : Resembles(page'[x], page[x])
  <2>1. CASE page' = page
    BY <2>1 DEF Resembles
  <2>2. ASSUME NEW v \in Val \cup {NoVal}, page' = [page EXCEPT ![p].recs[k] = v]
        PROVE  \A x \in Page : Resembles(page'[x], page[x])
    BY <1>1, <1>2, <1>3, <2>2 DEF Resembles, PageRec, Pages
  <2>3. QED
    BY <2>1, <2>2, RecordWritten DEF p, k
<1>5. QED
  BY <1>1, <1>4, ContentsKeepShape

-----------------------------------------------------------------------------
(***************************************************************************)
(* The shape is invariant.                                                 *)
(***************************************************************************)
\* A tree of one empty leaf, at its creation and when it is cleared.
Fresh(P, r) == P = [p \in Page |-> IF p = r THEN LeafRoot ELSE FreePage]

LEMMA NewShape ==
  ASSUME NEW P, NEW r \in Page, Fresh(P, r)
  PROVE  WellFormed(P, r)
<1>1. P[r] = LeafRoot /\ \A p \in Page \ {r} : P[p] = FreePage
  BY DEF Fresh
<1>2. /\ LeafRoot.kind = "leaf" /\ LeafRoot.level = 0 /\ LeafRoot.isRoot
      /\ LeafRoot.low = NegInf /\ LeafRoot.high = PosInf /\ LeafRoot.recs = NoRecs
      /\ FreePage.kind = "free" /\ ~FreePage.isRoot
  BY DEF LeafRoot, FreePage
<1>3. ActiveIn(P) = {r} /\ InternalsIn(P) = {} /\ Contents(P[r]) = {}
  BY <1>1, <1>2 DEF ActiveIn, InternalsIn, Active, Contents, Records, NoRecs
<1>4. NegInf < PosInf
  BY BoundsAssumption DEF NegInf, PosInf
<1>5. QED
  BY <1>1, <1>2, <1>3, <1>4 DEF WellFormed, RootSpans, Levelled, Fenced, ChildrenFit,
                                Parented, Apart

LEMMA InitShape == Init => WellFormed(page, root)
<1>1. 1 \in Page
  BY BoundsAssumption DEF Page
<1>2. QED
  BY <1>1, NewShape DEF Init, Fresh

\* What a step can do to the tree.
LEMMA StepKinds ==
  ASSUME NEW t \in Thread, Start(t) \/ Step(t)
  PROVE  \/ DropGuard(t) \/ FastInsert(t) \/ InsertHere(t) \/ FastRemove(t)
         \/ RemoveHere(t)
         \/ SplitRoot(t) \/ SplitChild(t) \/ Shrink(t)
         \/ BorrowFromLeft(t) \/ BorrowFromRight(t) \/ Merge(t)
         \/ FixSuccessor(t) \/ FixNone(t) \/ WalkOn(t) \/ Peek(t) \/ Join(t)
         \/ UNCHANGED <<page, root>>
BY DEF Step, Seek, Insert, Remove, Seeks,
       Start, ReadRoot, SeekRestart, SeekRight, SeekDown, SeekGet,
       SeekWriter, Relatch, FastUpdate, Count, AttemptRoot, AttemptRight,
       InsertRetry, InsertDown, FixSplit, RemoveRetry, RemoveDown,
       FixStart, WalkBack, Return, tree, threads

LEMMA StepShape ==
  ASSUME IndInv, WellFormed(page, root), NEW t \in Thread, Start(t) \/ Step(t)
  PROVE  WellFormed(page', root')
<1>1. CASE DropGuard(t) \/ FastInsert(t) \/ InsertHere(t) \/ FastRemove(t)
             \/ RemoveHere(t)
  BY <1>1, RecordShape
<1>2. CASE SplitRoot(t)
  <2>1. CASE Full(page[root])
    BY <1>2, <2>1, SplitRootShape
  <2>2. CASE ~Full(page[root])
    BY <1>2, <2>2 DEF SplitRoot
  <2>3. QED
    BY <2>1, <2>2
<1>3. CASE SplitChild(t)
  BY <1>3, SplitChildShape
<1>4. CASE Shrink(t)
  BY <1>4, ShrinkShape
<1>5. CASE BorrowFromLeft(t) \/ BorrowFromRight(t)
  BY <1>5, BorrowShape
<1>6. CASE Merge(t)
  BY <1>6, MergeShape
<1>7. CASE FixSuccessor(t) \/ FixNone(t) \/ WalkOn(t) \/ Peek(t) \/ Join(t)
  BY <1>7, RelinkShape
<1>8. CASE UNCHANGED <<page, root>>
  BY <1>8
<1>9. QED
  BY <1>1, <1>2, <1>3, <1>4, <1>5, <1>6, <1>7, <1>8, StepKinds
=============================================================================
