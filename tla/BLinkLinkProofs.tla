---------------------------- MODULE BLinkLinkProofs ----------------------------
(***************************************************************************)
(* The promises of BLinkSafety that rest on the shape of the tree, and the *)
(* links between pages: right links and redirects lead where BLinkSafety   *)
(* says.  For every capacity, key range, page bound, set of threads and    *)
(* workload.                                                               *)
(*                                                                         *)
(* A right link may name a page that was merged away, and a redirect may   *)
(* name another one, so the invariant speaks of where a page leads in the  *)
(* end.  That is a function d from pages to active pages, and a rank that  *)
(* every redirect lowers shows that following redirects ends.  A merge or  *)
(* a collapse sends everything that led to the retired page to the page    *)
(* that took over; a link repair replaces a link by one that leads to the  *)
(* same page.                                                              *)
(*                                                                         *)
(* That pages own no circle of each other needs more: the references of a  *)
(* retired page lead to where it leads itself, by fewer redirects          *)
(* (Ordered), so that in a circle the level cannot fall, the place in the  *)
(* key space cannot advance and the redirects still to follow run out.     *)
(***************************************************************************)
EXTENDS BLinkTreeProofs

-----------------------------------------------------------------------------
(***************************************************************************)
(* Occupancy.                                                              *)
(***************************************************************************)
Entries(pg) == Cardinality(Contents(pg))

InBounds(pg, top) == Entries(pg) <= N /\ (top \/ Minimum(pg) <= Entries(pg))

Bounded(P, r) == \A p \in ActiveIn(P) : InBounds(P[p], p = r)

\* Two pages at their minimum fit in one, with the separator between them, and
\* a full page makes two that reach it.
LEMMA Halves ==
  LET leaf     == N \div 2
      internal == (N - 1) \div 2
  IN  /\ leaf \in Nat /\ internal \in Nat
      /\ internal = N - leaf - 1 /\ internal <= leaf
      /\ 1 <= internal /\ 2 * leaf <= N /\ leaf + 1 <= N
BY CapacityAssumption

LEMMA EntryCount ==
  ASSUME NEW pg
  PROVE  /\ Entries(pg) \in Nat /\ IsFiniteSet(Contents(pg))
         /\ Active(pg) => /\ Full(pg) <=> Entries(pg) = N
                          /\ AtMinimum(pg) <=> Entries(pg) <= Minimum(pg)
                          /\ pg.kind \in {"leaf", "internal"}
         /\ pg.kind = "leaf" => Minimum(pg) = N \div 2
         /\ pg.kind = "internal" => Minimum(pg) = (N - 1) \div 2
BY ContentsAreKeys DEF Entries, Full, AtMinimum, Occupancy, Active, Minimum

LEMMA HalvesContents ==
  ASSUME NEW old, NEW lower, NEW upper, NEW sep \in Key, Active(old),
         old.kind = "internal" => sep \in Separators(old),
         HalfBelow(lower, old, sep), HalfAbove(upper, old, sep)
  PROVE  /\ Contents(lower) = {x \in Contents(old) : x < sep}
         /\ old.kind = "leaf" => Contents(upper) = {x \in Contents(old) : x >= sep}
         /\ old.kind = "internal" => Contents(upper) = {x \in Contents(old) : x > sep}
<1>1. CASE old.kind = "leaf"
  <2>1. lower.kind = "leaf" /\ upper.kind = "leaf"
    BY <1>1 DEF HalfBelow, HalfAbove
  <2>2. \A x \in Key : x \in Int /\ sep \in Int
    BY Numbers
  <2>3. Records(lower) = {x \in Records(old) : x < sep}
    BY <2>1 DEF HalfBelow, Records
  <2>4. Records(upper) = {x \in Records(old) : x >= sep}
    BY <2>1, <2>2 DEF HalfAbove, Records
  <2>5. QED
    BY <1>1, <2>1, <2>3, <2>4 DEF Contents
<1>2. CASE old.kind = "internal"
  <2>1. lower.kind = "internal" /\ upper.kind = "internal"
    BY <1>2 DEF HalfBelow, HalfAbove
  <2>2. HaveSlotsOf(lower, upper, old, sep)
    BY <1>2, HalvesSlots
  <2>3. QED
    BY <1>2, <2>1, <2>2 DEF Contents, HaveSlotsOf
<1>3. QED
  BY <1>1, <1>2 DEF Active

\* Both halves of a full page are within bounds.
LEMMA SplitBounds ==
  ASSUME NEW old, NEW lower, NEW upper, Active(old), Full(old),
         HalfBelow(lower, old, SplitKey(old)), HalfAbove(upper, old, SplitKey(old))
  PROVE  InBounds(lower, FALSE) /\ InBounds(upper, FALSE)
<1> DEFINE sep == SplitKey(old)
           S   == Contents(old)
           A   == {x \in S : x < sep}
<1>1. sep \in S /\ sep \in Key /\ Cardinality(A) = N \div 2
  BY SplitKeyMedian, ContentsAreKeys
<1>2. IsFiniteSet(S) /\ Cardinality(S) = N /\ S \subseteq Key
  BY EntryCount, ContentsAreKeys DEF Entries
<1>3. /\ Contents(lower) = A
      /\ old.kind = "leaf" => Contents(upper) = {x \in S : x >= sep}
      /\ old.kind = "internal" => Contents(upper) = {x \in S : x > sep}
  BY <1>1, HalvesContents DEF Contents
<1>4. \A x \in S : x \in Int /\ sep \in Int
  BY <1>1, <1>2, Numbers
<1>5. lower.kind = old.kind /\ upper.kind = old.kind
  BY DEF HalfBelow, HalfAbove
<1> HIDE DEF S, A, sep
<1>6. A \subseteq S /\ IsFiniteSet(A)
  BY <1>2, FS_Subset DEF A
<1>7. Cardinality(S \ A) = N - N \div 2 /\ IsFiniteSet(S \ A)
  <2>1. S \ A \subseteq S /\ A = S \ (S \ A)
    BY <1>6
  <2>2. /\ IsFiniteSet(S \ A)
        /\ Cardinality(S \ A) = Cardinality(S) - Cardinality(S \cap A)
    BY <1>2, <1>6, FS_Difference
  <2>3. S \cap A = A
    BY <1>6
  <2>4. QED
    BY <1>1, <1>2, <2>2, <2>3
<1>8. InBounds(lower, FALSE)
  <2>1. Entries(lower) = N \div 2
    BY <1>1, <1>3 DEF Entries
  <2>2. QED
    BY <1>5, <2>1, EntryCount, Halves, CapacityAssumption DEF InBounds
<1>9. InBounds(upper, FALSE)
  <2>1. CASE old.kind = "leaf"
    <3>1. Contents(upper) = S \ A
      BY <1>3, <1>4, <2>1 DEF A
    <3>2. Entries(upper) = N - N \div 2
      BY <1>7, <3>1 DEF Entries
    <3>3. QED
      BY <1>5, <2>1, <3>2, EntryCount, Halves, CapacityAssumption DEF InBounds
  <2>2. CASE old.kind = "internal"
    <3>1. Contents(upper) = (S \ A) \ {sep} /\ sep \in S \ A
      BY <1>1, <1>3, <1>4, <2>2 DEF A
    <3>2. Entries(upper) = N - N \div 2 - 1
      BY <1>7, <3>1, FS_RemoveElement DEF Entries
    <3>3. QED
      BY <1>5, <2>2, <3>2, EntryCount, Halves, CapacityAssumption DEF InBounds
  <2>3. QED
    BY <2>1, <2>2 DEF Active
<1>10. QED
  BY <1>8, <1>9

\* The contents of two neighbours, and the separator between internal ones.
LEMMA PairUnion ==
  ASSUME NEW P \in Pages, NEW r, WellFormed(P, r),
         NEW p \in InternalsIn(P), NEW sep \in Separators(P[p]),
         NEW l, l = P[p].kids[PrevSlot(P[p], sep)], NEW h, h = P[p].kids[sep],
         NEW new, Union(new, P[l], P[h], sep)
  PROVE  /\ new.kind = P[h].kind
         /\ P[h].kind = "leaf" => Contents(new) = Contents(P[l]) \cup Contents(P[h])
         /\ P[h].kind = "internal" =>
              Contents(new) = Contents(P[l]) \cup {sep} \cup Contents(P[h])
<1>1. /\ l \in ActiveIn(P) /\ h \in ActiveIn(P) /\ sep \in Key
      /\ P[l].kind = P[h].kind
      /\ \A x \in Contents(P[l]) : x < sep
      /\ \A x \in Contents(P[h]) : sep <= x
      /\ P[h].kind = "internal" => \A x \in Contents(P[h]) : sep < x
  BY BorrowPair
<1>2. new.kind = P[h].kind
  BY DEF Union
<1>3. CASE P[h].kind = "leaf"
  <2>1. \A x \in Key : x \in Int /\ sep \in Int
    BY <1>1, Numbers
  <2>2. /\ \A x \in Records(P[l]) : x < sep
        /\ \A x \in Records(P[h]) : ~(x < sep)
    BY <1>1, <1>3, <2>1, ContentsAreKeys DEF Contents
  <2>3. Records(new) = Records(P[l]) \cup Records(P[h])
    BY <1>2, <1>3, <2>2 DEF Union, Records
  <2>4. QED
    BY <1>1, <1>2, <1>3, <2>3 DEF Contents
<1>4. CASE P[h].kind = "internal"
  <2>1. h \in InternalsIn(P) /\ NegInf \in Slots(P[h])
    BY <1>1, <1>4, SlotNumbers DEF InternalsIn, ActiveIn
  <2>2. P[h].kids[NegInf] # Nil
    BY <2>1, ConstantFields DEF WellFormed, ChildrenFit, Fits, ActiveIn
  <2>3. /\ \A x \in Separators(P[l]) : x < sep
        /\ \A x \in Separators(P[h]) : sep < x
    BY <1>1, <1>4 DEF Contents
  <2>4. UnitesSlots(new, P[l], P[h], sep)
    BY <1>1, <1>4, <2>2, <2>3, UnionSlots
  <2>5. QED
    BY <1>1, <1>2, <1>4, <2>4 DEF Contents, UnitesSlots
<1>5. QED
  BY <1>1, <1>2, <1>3, <1>4 DEF ActiveIn, Active

\* The entries of two pages at their minimum, whether they overlap or not, and
\* with the separator between them where there is one, make one page.
LEMMA UnitedCount ==
  ASSUME NEW a \in Nat, NEW b \in Nat, NEW u \in Nat, NEW e \in Nat, NEW m,
         a <= m, b <= m, m <= b, b <= u, u <= a + b,
         \/ m = N \div 2 /\ e = u
         \/ m = (N - 1) \div 2 /\ u <= e /\ e <= u + 1
  PROVE  m <= e /\ e <= N
BY Halves, CapacityAssumption

LEMMA OverlapCount ==
  ASSUME NEW a \in Nat, NEW b \in Nat, NEW c \in Nat, NEW u, u = a + b - c
  PROVE  u <= a + b
OBVIOUS

\* A merge of two pages at their minimum.
LEMMA MergeBounds ==
  ASSUME NEW P \in Pages, NEW r, WellFormed(P, r), Bounded(P, r),
         NEW p \in InternalsIn(P), NEW sep \in Separators(P[p]),
         NEW l, l = P[p].kids[PrevSlot(P[p], sep)], NEW h, h = P[p].kids[sep],
         NEW new, Union(new, P[l], P[h], sep),
         AtMinimum(P[l]), AtMinimum(P[h])
  PROVE  InBounds(new, FALSE)
<1> DEFINE A == Contents(P[l])
           B == Contents(P[h])
<1>1. /\ l \in ActiveIn(P) /\ h \in ActiveIn(P) /\ ~P[h].isRoot
      /\ P[l].kind = P[h].kind
  BY BorrowPair, SMTT(30)
<1>2. /\ IsFiniteSet(A) /\ IsFiniteSet(B) /\ Active(P[l]) /\ Active(P[h])
      /\ Cardinality(A) \in Nat /\ Cardinality(B) \in Nat
      /\ Cardinality(A) <= Minimum(P[h]) /\ Cardinality(B) <= Minimum(P[h])
      /\ Minimum(P[l]) = Minimum(P[h])
  BY <1>1, EntryCount DEF Entries, ActiveIn, Minimum
<1>3. h # r /\ Minimum(P[h]) <= Cardinality(B)
  <2>1. h # r
    BY <1>1 DEF WellFormed, RootSpans, ActiveIn
  <2>2. QED
    BY <1>1, <2>1 DEF Bounded, InBounds, Entries
<1>4. /\ new.kind = P[h].kind /\ Minimum(new) = Minimum(P[h])
      /\ P[h].kind = "leaf" => Contents(new) = A \cup B
      /\ P[h].kind = "internal" => Contents(new) = A \cup {sep} \cup B
  <2>1. /\ new.kind = P[h].kind
        /\ P[h].kind = "leaf" => Contents(new) = A \cup B
        /\ P[h].kind = "internal" => Contents(new) = A \cup {sep} \cup B
    <3>1. /\ P \in Pages /\ WellFormed(P, r) /\ Union(new, P[l], P[h], sep)
          /\ p \in InternalsIn(P) /\ sep \in Separators(P[p])
          /\ l = P[p].kids[PrevSlot(P[p], sep)] /\ h = P[p].kids[sep]
      OBVIOUS
    <3>2. QED
      BY ONLY <3>1, PairUnion DEF A, B
  <2>2. QED
    BY <2>1 DEF Minimum
<1> HIDE DEF A, B
<1>5. /\ IsFiniteSet(A \cup B) /\ Cardinality(A \cup B) \in Nat
      /\ Cardinality(A \cup B) <= Cardinality(A) + Cardinality(B)
      /\ Cardinality(B) <= Cardinality(A \cup B)
  <2>1. /\ IsFiniteSet(A \cup B)
        /\ Cardinality(A \cup B)
             = Cardinality(A) + Cardinality(B) - Cardinality(A \cap B)
    BY <1>2, FS_Union
  <2>2. Cardinality(A \cap B) \in Nat /\ Cardinality(A \cup B) \in Nat
    BY <1>2, <2>1, FS_Intersection, FS_CardinalityType
  <2>3. B \subseteq A \cup B
    OBVIOUS
  <2>4. Cardinality(B) <= Cardinality(A \cup B)
    BY <2>1, <2>3, FS_Subset
  <2>5. Cardinality(A \cup B) <= Cardinality(A) + Cardinality(B)
    BY <1>2, <2>1, <2>2, OverlapCount
  <2>6. QED
    BY <2>1, <2>2, <2>4, <2>5
<1>6. CASE P[h].kind = "leaf"
  <2>1. Entries(new) = Cardinality(A \cup B) /\ Minimum(P[h]) = N \div 2
    BY <1>4, <1>6, EntryCount DEF Entries
  <2>2. Minimum(P[h]) <= Entries(new) /\ Entries(new) <= N
    BY <1>2, <1>3, <1>5, <2>1, UnitedCount
  <2>3. QED
    BY <1>4, <2>2 DEF InBounds
<1>7. CASE P[h].kind = "internal"
  <2>1. /\ Contents(new) = (A \cup B) \cup {sep}
        /\ Minimum(P[h]) = (N - 1) \div 2
    BY <1>4, <1>7, EntryCount
  <2>2. /\ Entries(new) \in Nat /\ Cardinality(A \cup B) <= Entries(new)
        /\ Entries(new) <= Cardinality(A \cup B) + 1
    <3> DEFINE C == A \cup B
    <3> HIDE DEF C
    <3>1. IsFiniteSet(C) /\ Cardinality(C) \in Nat /\ C = A \cup B
      BY <1>5 DEF C
    <3>2. Cardinality(C \cup {sep}) \in {Cardinality(C), Cardinality(C) + 1}
      BY <3>1, FS_AddElement
    <3>3. Entries(new) = Cardinality(C \cup {sep})
      BY <2>1, <3>1 DEF Entries
    <3>4. QED
      BY <3>1, <3>2, <3>3
  <2>3. Minimum(P[h]) <= Entries(new) /\ Entries(new) <= N
    <3>1. Cardinality(B) <= Minimum(P[h]) /\ Cardinality(A) <= Minimum(P[h])
      BY <1>2
    <3>2. Minimum(P[h]) <= Cardinality(B)
      BY <1>3
    <3>3. /\ Cardinality(A) \in Nat /\ Cardinality(B) \in Nat
          /\ Cardinality(A \cup B) \in Nat
      BY <1>2, <1>5
    <3>4. /\ Cardinality(B) <= Cardinality(A \cup B)
          /\ Cardinality(A \cup B) <= Cardinality(A) + Cardinality(B)
      BY <1>5
    <3>5. Minimum(P[h]) = (N - 1) \div 2
      BY <2>1
    <3>6. QED
      BY ONLY <2>2, <3>1, <3>2, <3>3, <3>4, <3>5, UnitedCount
  <2>4. QED
    BY <1>4, <2>3 DEF InBounds
<1>8. QED
  BY <1>2, <1>6, <1>7 DEF Active

\* A borrow takes one entry from a page above its minimum to one at it.
LEMMA LendBounds ==
  ASSUME NEW lender, NEW taker, NEW gave, NEW took, NEW out, NEW in,
         Active(lender), Active(taker), lender.kind = taker.kind,
         gave.kind = lender.kind, took.kind = taker.kind,
         ~AtMinimum(lender), AtMinimum(taker), Entries(lender) <= N,
         Minimum(taker) <= Entries(taker),
         out \in Contents(lender),
         Contents(gave) = Contents(lender) \ {out},
         Contents(took) = Contents(taker) \cup {in}
  PROVE  InBounds(gave, FALSE) /\ InBounds(took, FALSE)
<1>1. /\ Entries(lender) \in Nat /\ Entries(taker) \in Nat
      /\ ~(Entries(lender) <= Minimum(lender)) /\ Entries(taker) <= Minimum(taker)
      /\ Minimum(gave) = Minimum(lender) /\ Minimum(took) = Minimum(taker)
      /\ Minimum(lender) = Minimum(taker)
      /\ Minimum(lender) \in {N \div 2, (N - 1) \div 2}
  BY EntryCount DEF Minimum
<1>2. Entries(gave) = Entries(lender) - 1
  BY EntryCount, FS_RemoveElement DEF Entries
<1>3. Entries(took) \in {Entries(taker), Entries(taker) + 1}
  BY EntryCount, FS_AddElement DEF Entries
<1>4. QED
  BY <1>1, <1>2, <1>3, Halves, CapacityAssumption DEF InBounds

LEMMA BorrowBounds ==
  ASSUME NEW P \in Pages, NEW Q \in Pages, NEW r, WellFormed(P, r), Bounded(P, r),
         NEW p, NEW s, NEW sep, NEW l, NEW h, NEW b,
         Borrows(P, Q, p, s, sep, l, h, b),
         LendsLast(P, l, h, b) \/ LendsFirst(P, l, h, b)
  PROVE  InBounds(Q[l], FALSE) /\ InBounds(Q[h], FALSE)
<1> DEFINE A == Contents(P[l])
           B == Contents(P[h])
           U == Survivor(P[l], P[h], sep)
<1>1. /\ p \in InternalsIn(P) /\ sep \in Separators(P[p])
      /\ l = P[p].kids[PrevSlot(P[p], sep)] /\ h = P[p].kids[sep]
      /\ b \in Key /\ HalfBelow(Q[l], U, b) /\ HalfAbove(Q[h], U, b)
      /\ U.kind = "internal" => b \in Separators(U)
  BY DEF Borrows
<1>2. /\ l \in ActiveIn(P) /\ h \in ActiveIn(P)
      /\ P[l].kind = P[h].kind /\ ~P[l].isRoot /\ ~P[h].isRoot /\ sep \in Key
      /\ P[h].kind \in {"leaf", "internal"}
      /\ \A x \in A : x < sep
      /\ \A x \in B : sep <= x
      /\ P[h].kind = "internal" => \A x \in B : sep < x
      /\ Union(U, P[l], P[h], sep)
  <2>1. WellFormed(P, r) /\ P \in Pages
    OBVIOUS
  <2>2. /\ p \in InternalsIn(P) /\ sep \in Separators(P[p])
        /\ l = P[p].kids[PrevSlot(P[p], sep)] /\ h = P[p].kids[sep]
    BY <1>1
  <2>3. QED
    BY ONLY <2>1, <2>2, BorrowPair DEF A, B, U
<1>3. /\ U.kind = P[h].kind
      /\ P[h].kind = "leaf" => Contents(U) = A \cup B
      /\ P[h].kind = "internal" => Contents(U) = A \cup {sep} \cup B
  <2> HIDE DEF U
  <2>1. WellFormed(P, r) /\ P \in Pages /\ Union(U, P[l], P[h], sep)
    BY <1>2
  <2>2. /\ p \in InternalsIn(P) /\ sep \in Separators(P[p])
        /\ l = P[p].kids[PrevSlot(P[p], sep)] /\ h = P[p].kids[sep]
    BY <1>1
  <2>3. QED
    BY ONLY <2>1, <2>2, PairUnion DEF A, B
<1>4. /\ Q[l].kind = P[h].kind /\ Q[h].kind = P[h].kind
      /\ Contents(Q[l]) = {x \in Contents(U) : x < b}
      /\ P[h].kind = "leaf" => Contents(Q[h]) = {x \in Contents(U) : x >= b}
      /\ P[h].kind = "internal" => Contents(Q[h]) = {x \in Contents(U) : x > b}
  <2> HIDE DEF U
  <2>1. Active(U)
    BY <1>2, <1>3 DEF Active
  <2>2. Q[l].kind = P[h].kind /\ Q[h].kind = P[h].kind
    BY <1>1, <1>3 DEF HalfBelow, HalfAbove
  <2>3. /\ Contents(Q[l]) = {x \in Contents(U) : x < b}
        /\ U.kind = "leaf" => Contents(Q[h]) = {x \in Contents(U) : x >= b}
        /\ U.kind = "internal" => Contents(Q[h]) = {x \in Contents(U) : x > b}
    BY ONLY <1>1, <2>1, HalvesContents
  <2>4. QED
    BY <1>3, <2>2, <2>3
<1>5. \A x \in A \cup B : x \in Int /\ b \in Int /\ sep \in Int
  BY <1>1, <1>2, ContentsAreKeys, Numbers
<1>6. /\ Active(P[l]) /\ Active(P[h]) /\ Entries(P[l]) <= N /\ Entries(P[h]) <= N
      /\ Minimum(P[l]) <= Entries(P[l]) /\ Minimum(P[h]) <= Entries(P[h])
  <2>1. l # r /\ h # r
    BY <1>2 DEF WellFormed, RootSpans, ActiveIn
  <2>2. QED
    BY <1>2, <2>1 DEF Bounded, InBounds, ActiveIn
<1> HIDE DEF A, B, U
<1>7. CASE LendsLast(P, l, h, b)
  <2>1. b \in A /\ \A x \in A : x <= b
    BY <1>7 DEF LendsLast, A
  <2>2. b < sep
    BY <1>2, <2>1
  <2>3. b \in Int /\ sep \in Int
    BY <1>5, <2>1
  <2>4. \A x \in B : b < x
    BY <1>2, <1>5, <2>2, <2>3
  <2>9. \A x \in A : (x < b <=> x # b) /\ (x >= b <=> x = b)
    <3> TAKE x \in A
    <3>1. x \in Int /\ x <= b
      BY <1>5, <2>1
    <3>2. QED
      BY <2>3, <3>1
  <2>5. Contents(Q[l]) = A \ {b}
    <3>1. \A x \in B \cup {sep} : ~(x < b)
      BY <1>5, <2>2, <2>3, <2>4
    <3>2. QED
      BY <1>2, <1>3, <1>4, <2>9, <3>1
  <2>6. \E in : Contents(Q[h]) = B \cup {in}
    <3>1. CASE P[h].kind = "leaf"
      <4>1. Contents(Q[h]) = B \cup {b}
        <5>1. \A x \in B : x >= b
          BY <1>5, <2>3, <2>4
        <5>2. QED
          BY <1>3, <1>4, <2>1, <2>9, <3>1, <5>1
      <4>2. QED
        BY <4>1
    <3>2. CASE P[h].kind = "internal"
      <4>1. Contents(Q[h]) = B \cup {sep}
        <5>1. /\ \A x \in A : ~(x > b)
              /\ \A x \in B \cup {sep} : x > b
          BY <1>5, <2>1, <2>2, <2>3, <2>4
        <5>2. QED
          BY <1>3, <1>4, <3>2, <5>1
      <4>2. QED
        BY <4>1
    <3>3. QED
      BY <1>2, <3>1, <3>2
  <2>7. QED
    BY <1>2, <1>4, <1>6, <1>7, <2>1, <2>5, <2>6, LendBounds DEF LendsLast, A, B
<1>8. CASE LendsFirst(P, l, h, b)
  <2>1. /\ b \in B
        /\ P[h].kind = "internal" => \A x \in B : b <= x
        /\ P[h].kind = "leaf" => \E first \in B :
             first < b /\ \A x \in B : x = first \/ b <= x
    BY <1>8 DEF LendsFirst, B
  <2>2. b \in Int /\ sep \in Int /\ sep <= b
    BY <1>2, <1>5, <2>1
  <2>3. \A x \in A : x < b
    BY <1>2, <1>5, <2>2
  <2>4. CASE P[h].kind = "leaf"
    <3>1. PICK first \in B : first < b /\ \A x \in B : x = first \/ b <= x
      BY <2>1, <2>4
    <3>2. Contents(Q[l]) = A \cup {first}
      BY <1>3, <1>4, <1>5, <2>2, <2>3, <2>4, <3>1
    <3>3. Contents(Q[h]) = B \ {first}
      BY <1>3, <1>4, <1>5, <2>2, <2>3, <2>4, <3>1
    <3>4. QED
      BY <1>2, <1>4, <1>6, <1>8, <3>1, <3>2, <3>3, LendBounds DEF LendsFirst, A, B
  <2>5. CASE P[h].kind = "internal"
    <3>1. sep < b
      BY <1>2, <2>1, <2>5
    <3>2. Contents(Q[l]) = A \cup {sep}
      BY <1>3, <1>4, <1>5, <2>1, <2>2, <2>3, <2>5, <3>1
    <3>3. Contents(Q[h]) = B \ {b}
      BY <1>3, <1>4, <1>5, <2>1, <2>2, <2>3, <2>5, <3>1
    <3>4. QED
      BY <1>2, <1>4, <1>6, <1>8, <2>1, <3>2, <3>3, LendBounds DEF LendsFirst, A, B
  <2>6. QED
    BY <1>2, <2>4, <2>5
<1>9. QED
  BY <1>7, <1>8

-----------------------------------------------------------------------------
(***************************************************************************)
(* Occupancy: the critical sections.                                       *)
(***************************************************************************)
\* The parent of a borrow exchanges one separator for another.
LEMMA BorrowParent ==
  ASSUME NEW P \in Pages, NEW Q \in Pages, NEW r, WellFormed(P, r),
         NEW p, NEW s, NEW sep, NEW l, NEW h, NEW b,
         Borrows(P, Q, p, s, sep, l, h, b)
  PROVE  Entries(Q[p]) = Entries(P[p]) /\ Q[p].kind = P[p].kind
<1> DEFINE S == Separators(P[p])
<1>1. /\ p \in InternalsIn(P) /\ sep \in S /\ s = PrevSlot(P[p], sep)
      /\ l = P[p].kids[s] /\ h = P[p].kids[sep]
      /\ b \in Key /\ P[l].low < b /\ b < P[h].high /\ b # sep
      /\ Q[p] = MoveBoundary(P[p], sep, b)
  BY DEF Borrows
<1>2. s \in Slots(P[p]) /\ P[l].high = sep
  BY <1>1, PrevSlotIsNext, PrevChildEnds
<1>3. /\ Fits(P, p, s) /\ Fits(P, p, sep) /\ l \in Page /\ h \in Page
      /\ s \in Int /\ sep \in Int /\ s \in Slot /\ sep \in Key
  BY ONLY WellFormed(P, r), P \in Pages, <1>1, <1>2, Neighbours DEF S
<1>4. /\ P[l].low \in Int /\ P[h].high \in Int /\ b \in Int /\ NegInf < b
      /\ \A x \in S : x \in Int
  BY <1>1, <1>3, Numbers, SlotNumbers
<1>5. b \notin S
  <2>1. /\ \A x \in S : x > s => sep <= x
        /\ \A x \in S : x > sep => P[h].high <= x
    BY <1>1, <1>2, <1>3 DEF Fits, IsNext
  <2>2. P[l].low = IF s = NegInf THEN P[p].low ELSE s
    BY <1>1, <1>3 DEF Fits
  <2>3. b > s
    BY <1>1, <1>3, <1>4, <2>2
  <2>4. QED
    BY <1>1, <1>3, <1>4, <2>1, <2>3
<1>6. P[p] \in PageRec /\ P[p].kind = "internal" /\ h # Nil
  BY <1>1, <1>3, ConstantFields DEF InternalsIn, Pages, SoundPage
<1>7. /\ Q[p].kind = P[p].kind
      /\ \A x \in Slot : Q[p].kids[x] = IF x = b THEN h
                                        ELSE IF x = sep THEN Nil ELSE P[p].kids[x]
  <2> DEFINE kids == [x \in Slot |-> IF x = b THEN P[p].kids[sep]
                                     ELSE IF x = sep THEN Nil ELSE P[p].kids[x]]
  <2>1. Q[p] = [P[p] EXCEPT !.kids = kids]
    BY <1>1 DEF MoveBoundary
  <2>2. \A x \in Slot : kids[x] = IF x = b THEN h
                                  ELSE IF x = sep THEN Nil ELSE P[p].kids[x]
    BY <1>1
  <2> HIDE DEF kids
  <2>3. Q[p].kind = P[p].kind /\ Q[p].kids = kids
    BY <1>6, <2>1 DEF PageRec
  <2>4. QED
    BY <2>2, <2>3
<1>8. Separators(Q[p]) = (S \ {sep}) \cup {b}
  <2>1. \A x \in Key : Q[p].kids[x] # Nil <=> (x = b \/ (P[p].kids[x] # Nil /\ x # sep))
    BY <1>1, <1>6, <1>7, ConstantFields
  <2>2. QED
    BY <1>1, <2>1 DEF Separators
<1>9. Contents(P[p]) = S /\ Contents(Q[p]) = (S \ {sep}) \cup {b}
  BY <1>6, <1>7, <1>8 DEF Contents
<1> HIDE DEF S
<1>10. IsFiniteSet(S) /\ Cardinality(S) \in Nat
  BY <1>9, EntryCount DEF Entries
<1>11. Cardinality(S \ {sep}) = Cardinality(S) - 1 /\ IsFiniteSet(S \ {sep})
  BY <1>1, <1>10, FS_RemoveElement
<1>12. Cardinality((S \ {sep}) \cup {b}) = Cardinality(S)
  <2> DEFINE T == S \ {sep}
  <2>1. b \notin T /\ IsFiniteSet(T) /\ Cardinality(T) = Cardinality(S) - 1
    BY <1>5, <1>11
  <2> HIDE DEF T
  <2>2. Cardinality(T \cup {b}) = Cardinality(T) + 1
    BY <2>1, FS_AddElement
  <2>3. QED
    BY <1>10, <2>1, <2>2 DEF T
<1>13. QED
  BY <1>7, <1>9, <1>12 DEF Entries

\* Every active page afterwards is within bounds, or has what it had.
SameEntries(new, old) == new.kind = old.kind /\ Entries(new) = Entries(old)

LEMMA BoundedFrame ==
  ASSUME NEW P, NEW Q, NEW r, NEW u, Bounded(P, r),
         \A x \in ActiveIn(Q) : \/ InBounds(Q[x], x = u)
                                \/ /\ x \in ActiveIn(P) /\ (x = r => x = u)
                                   /\ SameEntries(Q[x], P[x])
  PROVE  Bounded(Q, u)
BY DEF Bounded, InBounds, SameEntries, Minimum

LEMMA ChildSplitBounded ==
  ASSUME NEW P \in Pages, NEW Q \in Pages, NEW r, WellFormed(P, r), Bounded(P, r),
         NEW p, NEW s, NEW c, NEW b,
         ChildSplits(P, Q, p, s, SplitKey(P[c]), c, c, b),
         Full(P[c]), ~Full(P[p])
  PROVE  Bounded(Q, r)
<1> DEFINE sep == SplitKey(P[c])
<1>1. /\ c \in ActiveIn(P) /\ p \in ActiveIn(P) /\ p \notin {c, b} /\ r \notin {c, b}
      /\ Separators(Q[p]) = Separators(P[p]) \cup {sep}
      /\ ActiveIn(Q) = ActiveIn(P) \cup {c, b}
  <2>1. /\ c \in ActiveIn(P) /\ p \in ActiveIn(P) /\ p \notin {c, b} /\ r \notin {c, b}
    BY SplitFacts
  <2>2. /\ Separators(Q[p]) = Separators(P[p]) \cup {sep}
    BY SplitFacts
  <2>3. /\ ActiveIn(Q) = ActiveIn(P) \cup {c, b}
    BY SplitFacts
  <2>4. QED
    BY <2>1, <2>2, <2>3
<1>2. /\ P[p].kind = "internal" /\ Q[p].kind = "internal"
      /\ HalfBelow(Q[c], P[c], sep) /\ HalfAbove(Q[b], P[c], sep)
      /\ \A x \in Page \ {c, b, p} : Alike(Q[x], P[x])
  BY DEF ChildSplits, InternalsIn
<1>3. InBounds(Q[c], FALSE) /\ InBounds(Q[b], FALSE)
  BY <1>1, <1>2, SplitBounds DEF ActiveIn
<1> HIDE DEF sep
<1>4. InBounds(Q[p], p = r)
  <2>1. Entries(P[p]) \in Nat /\ Entries(P[p]) <= N /\ Entries(P[p]) # N
        /\ (p = r \/ Minimum(P[p]) <= Entries(P[p]))
    BY <1>1, EntryCount DEF Bounded, InBounds, ActiveIn
  <2>2. Contents(Q[p]) = Contents(P[p]) \cup {sep} /\ Minimum(Q[p]) = Minimum(P[p])
        /\ Minimum(P[p]) = (N - 1) \div 2
    BY <1>1, <1>2 DEF Contents, Minimum
  <2>3. Entries(Q[p]) \in {Entries(P[p]), Entries(P[p]) + 1}
    <3> DEFINE S == Contents(P[p])
    <3> HIDE DEF S
    <3>1. IsFiniteSet(S)
      BY EntryCount DEF S
    <3>2. Cardinality(S \cup {sep}) \in {Cardinality(S), Cardinality(S) + 1}
      BY <3>1, FS_AddElement
    <3>3. QED
      BY <2>2, <3>2 DEF Entries, S
  <2>4. QED
    BY <2>1, <2>2, <2>3, Halves, CapacityAssumption DEF InBounds
<1>5. \A x \in ActiveIn(Q) \ {c, b, p} : x \in ActiveIn(P) /\ SameEntries(Q[x], P[x])
  BY <1>1, <1>2, ZenonT(40) DEF ActiveIn, Alike, SameEntries, Entries, Contents, Records, Separators
<1>6. QED
  BY <1>1, <1>3, <1>4, <1>5, BoundedFrame DEF InBounds

LEMMA SplitChildBounded ==
  ASSUME IndInv, WellFormed(page, root), Bounded(page, root),
         NEW t \in Thread, SplitChild(t)
  PROVE  Bounded(page', root')
<1>1. page \in Pages /\ page' \in Pages /\ root' = root
  BY StepTyped DEF IndInv, TreeTyped, Pages, Step, Insert, SplitChild
<1>2. Full(page[ChildOf(t)]) /\ ~Full(page[node[t]])
  BY DEF SplitChild, InsertDescends
<1>3. QED
  BY <1>1, <1>2, SplitChildSplits, ChildSplitBounded

LEMMA SplitRootBounded ==
  ASSUME IndInv, WellFormed(page, root), Bounded(page, root),
         NEW t \in Thread, SplitRoot(t), Full(page[root])
  PROVE  Bounded(page', root')
<1>1. page \in Pages /\ page' \in Pages
  BY StepTyped DEF IndInv, TreeTyped, Pages, Step, Insert
<1>2. PICK mid \in Pages :
        /\ Grows(page, mid, root, root')
        /\ ChildSplits(mid, page', root', NegInf, SplitKey(page[root]),
                       root, root, FirstNew)
  BY SplitRootSplits
<1>3. WellFormed(mid, root')
  BY <1>1, <1>2, GrowKeepsShape
<1>4. /\ root' \in Page /\ root' \notin ActiveIn(page) /\ root \in ActiveIn(page)
      /\ mid[root'].kind = "internal"
      /\ \A x \in Slot : mid[root'].kids[x] = IF x = NegInf THEN root ELSE Nil
      /\ \A x \in Page \ {root'} : AlikeUnmarked(mid[x], page[x])
  BY <1>2 DEF Grows, WellFormed, RootSpans
<1>5. \A x \in Page \ {root'} : /\ Contents(mid[x]) = Contents(page[x])
                                /\ mid[x].kind = page[x].kind
  BY <1>4, ZenonT(40) DEF AlikeUnmarked, Contents, Records, Separators
<1>6. Contents(mid[root']) = {}
  <2>1. \A x \in Key : mid[root'].kids[x] = Nil
    BY <1>4, ConstantFields, Numbers
  <2>2. QED
    BY <1>4, <2>1 DEF Contents, Separators
<1>7. root \in Page \ {root'}
  BY <1>4 DEF ActiveIn
<1>8. SplitKey(mid[root]) = SplitKey(page[root]) /\ Full(mid[root])
  BY <1>5, <1>7 DEF SplitKey, Full, Occupancy, Active
<1>9. ~Full(mid[root']) /\ InBounds(mid[root'], TRUE)
  <2>1. Entries(mid[root']) = 0
    BY <1>6, FS_EmptySet DEF Entries
  <2>2. QED
    BY <1>4, <2>1, EntryCount, CapacityAssumption DEF Active, InBounds
<1>10. InBounds(mid[root], FALSE)
  <2>1. Active(mid[root])
    BY <1>4, <1>5, <1>7 DEF ActiveIn, Active
  <2>2. Entries(mid[root]) = N /\ mid[root].kind \in {"leaf", "internal"}
    BY <1>8, <2>1, EntryCount
  <2>3. QED
    BY <2>2, EntryCount, Halves, CapacityAssumption DEF InBounds
<1>11. \A x \in ActiveIn(mid) \ {root, root'} :
         x \in ActiveIn(page) /\ SameEntries(mid[x], page[x])
  BY <1>5 DEF ActiveIn, Active, SameEntries, Entries
<1>12. Bounded(mid, root')
  <2>1. \A x \in ActiveIn(mid) : \/ InBounds(mid[x], x = root')
                                 \/ /\ x \in ActiveIn(page) /\ (x = root => x = root')
                                    /\ SameEntries(mid[x], page[x])
    BY <1>9, <1>10, <1>11 DEF InBounds
  <2>2. QED
    BY <2>1, BoundedFrame
<1>13. QED
  BY <1>1, <1>2, <1>3, <1>8, <1>9, <1>12, ChildSplitBounded

LEMMA BorrowBounded ==
  ASSUME IndInv, WellFormed(page, root), Bounded(page, root),
         NEW t \in Thread, BorrowFromLeft(t) \/ BorrowFromRight(t)
  PROVE  Bounded(page', root')
<1> DEFINE p   == node[t]
           sep == Sep(t)
           l   == LeftOf(t)
           h   == RightOf(t)
<1>1. page \in Pages /\ page' \in Pages /\ root' = root
  BY StepTyped
     DEF IndInv, TreeTyped, Pages, Step, Remove, BorrowFromLeft, BorrowFromRight
<1>2. PICK s, b : /\ Borrows(page, page', p, s, sep, l, h, b)
                  /\ LendsLast(page, l, h, b) \/ LendsFirst(page, l, h, b)
  BY BorrowBorrows
<1> HIDE DEF p, sep, l, h
<1>3. /\ p \in InternalsIn(page) /\ sep \in Separators(page[p])
      /\ l = page[p].kids[PrevSlot(page[p], sep)] /\ h = page[p].kids[sep]
      /\ HalfBelow(page'[l], Survivor(page[l], page[h], sep), b)
      /\ HalfAbove(page'[h], Survivor(page[l], page[h], sep), b)
      /\ \A x \in Page \ {l, h, p} : page'[x] = page[x]
  BY <1>2 DEF Borrows
<1>4. InBounds(page'[l], FALSE) /\ InBounds(page'[h], FALSE)
  BY <1>1, <1>2, BorrowBounds
<1>5. SameEntries(page'[p], page[p])
  BY <1>1, <1>2, BorrowParent DEF SameEntries
<1>6. \A x \in ActiveIn(page') \ {l, h, p} :
        x \in ActiveIn(page) /\ SameEntries(page'[x], page[x])
  BY <1>3 DEF ActiveIn, SameEntries
<1>7. p \in ActiveIn(page)
  BY <1>3 DEF InternalsIn, ActiveIn, Active
<1>8. QED
  BY <1>1, <1>4, <1>5, <1>6, <1>7, BoundedFrame DEF InBounds

LEMMA MergeBounded ==
  ASSUME IndInv, WellFormed(page, root), Bounded(page, root),
         NEW t \in Thread, Merge(t)
  PROVE  Bounded(page', root')
<1> DEFINE p   == node[t]
           sep == Sep(t)
           s   == PrevSlot(page[p], sep)
           l   == page[p].kids[s]
           h   == page[p].kids[sep]
<1>1. page \in Pages /\ page' \in Pages /\ root' = root
  BY StepTyped DEF IndInv, TreeTyped, Pages, Step, Remove, Merge
<1>2. /\ p \in InternalsIn(page) /\ sep \in Separators(page[p])
      /\ ~Unsafe(page[p]) /\ AtMinimum(page[l]) /\ AtMinimum(page[h])
      /\ page' = Merged(page, p, sep)
  BY RemovePlace DEF Merge, RemoveDescends, Merged, LeftOf, RightOf
<1>3. l = page[p].kids[PrevSlot(page[p], sep)] /\ h = page[p].kids[sep]
  OBVIOUS
<1>4. ChildrenMerge(page, page', p, s, sep, l, h, h)
  BY <1>1, <1>2, MergedMerges
<1> HIDE DEF p, sep, s, l, h
<1>5. Union(page'[h], page[l], page[h], sep)
  BY <1>4 DEF ChildrenMerge
<1>6. InBounds(page'[h], FALSE)
  BY <1>1, <1>2, <1>3, <1>5, MergeBounds
<1>7. /\ p \in ActiveIn(page) /\ p \notin {l, h} /\ root \notin {l, h}
      /\ Separators(page'[p]) = Separators(page[p]) \ {sep}
      /\ ActiveIn(page') = (ActiveIn(page) \ {l, h}) \cup {h}
  <2>1. /\ p \in ActiveIn(page) /\ p \notin {l, h} /\ root \notin {l, h}
    BY <1>1, <1>4, MergeFacts
  <2>2. Separators(page'[p]) = Separators(page[p]) \ {sep}
    BY <1>1, <1>4, MergeFacts
  <2>3. ActiveIn(page') = (ActiveIn(page) \ {l, h}) \cup {h}
    BY <1>1, <1>4, MergeFacts
  <2>4. QED
    BY <2>1, <2>2, <2>3
<1>8. /\ page'[p].kind = "internal" /\ page[p].kind = "internal"
      /\ \A x \in Page \ {l, h, p} : Alike(page'[x], page[x])
  BY <1>2, <1>4 DEF ChildrenMerge, InternalsIn
<1>9. InBounds(page'[p], p = root)
  <2>1. /\ Entries(page[p]) \in Nat /\ Entries(page[p]) <= N
        /\ p = root \/ (N - 1) \div 2 < Entries(page[p])
    <3>1. Active(page[p]) /\ (page[p].isRoot <=> p = root)
      BY <1>7 DEF WellFormed, RootSpans, ActiveIn
    <3>2. /\ Entries(page[p]) \in Nat /\ Entries(page[p]) <= N
          /\ AtMinimum(page[p]) <=> Entries(page[p]) <= (N - 1) \div 2
      BY <1>7, <1>8, <3>1, EntryCount DEF Bounded, InBounds
    <3>3. QED
      BY <1>2, <3>1, <3>2, Halves, CapacityAssumption DEF Unsafe
  <2>2. Contents(page'[p]) = Contents(page[p]) \ {sep} /\ sep \in Contents(page[p])
        /\ Minimum(page'[p]) = (N - 1) \div 2
    BY <1>2, <1>7, <1>8 DEF Contents, Minimum
  <2>3. Entries(page'[p]) = Entries(page[p]) - 1
    BY <2>2, EntryCount, FS_RemoveElement DEF Entries
  <2>4. QED
    BY <2>1, <2>2, <2>3, Halves, CapacityAssumption DEF InBounds
<1>10. \A x \in ActiveIn(page') \ {h, p} :
         x \in ActiveIn(page) /\ SameEntries(page'[x], page[x])
  <2> TAKE x \in ActiveIn(page') \ {h, p}
  <2>1. x \in ActiveIn(page) /\ x \in Page \ {l, h, p}
    BY <1>7 DEF ActiveIn
  <2>2. Alike(page'[x], page[x])
    BY <1>8, <2>1
  <2>3. QED
    BY <2>1, <2>2 DEF Alike, SameEntries, Entries, Contents, Records, Separators
<1>11. QED
  BY <1>1, <1>6, <1>9, <1>10, BoundedFrame DEF InBounds

LEMMA ShrinkBounded ==
  ASSUME IndInv, WellFormed(page, root), Bounded(page, root),
         NEW t \in Thread, Shrink(t)
  PROVE  Bounded(page', root')
<1>1. page \in Pages /\ page' \in Pages
  BY StepTyped DEF IndInv, TreeTyped, Pages, Step, Remove
<1>2. CASE page' = page /\ root' = root
  BY <1>2
<1>3. CASE Collapses(page, page', root, root')
  <2>1. \A x \in ActiveIn(page') : x \in Page /\ x # root
    BY <1>3 DEF Collapses, ActiveIn
  <2>2. \A x \in Page \ {root} : /\ page'[x].kind = page[x].kind
                                 /\ page'[x].recs = page[x].recs
                                 /\ page'[x].kids = page[x].kids
    BY <1>3 DEF Collapses, AlikeUnmarked
  <2>3. \A x \in ActiveIn(page') : x \in ActiveIn(page) /\ SameEntries(page'[x], page[x])
    BY <2>1, <2>2 DEF ActiveIn, Active, SameEntries, Entries, Contents, Records, Separators
  <2>4. QED
    BY <2>1, <2>3, BoundedFrame
<1>4. QED
  BY <1>2, <1>3, ShrinkCollapses

\* A record is added to a leaf with room, replaced, or taken from a leaf that
\* can spare it.
RecordChanges(t) ==
  LET leaf == page[node[t]]
      k    == call[t].key
  IN  \E v \in Val \cup {NoVal} :
        /\ page' = [page EXCEPT ![node[t]].recs[k] = v]
        /\ IF v = NoVal THEN leaf.recs[k] # NoVal /\ ~Unsafe(leaf)
                        ELSE leaf.recs[k] = NoVal => ~Full(leaf)

LEMMA RecordsChange ==
  ASSUME IndInv, NEW t \in Thread,
         DropGuard(t) \/ FastInsert(t) \/ InsertHere(t) \/ FastRemove(t)
           \/ RemoveHere(t)
  PROVE  page' = page \/ RecordChanges(t)
<1> USE DEF RecordChanges
<1>1. call[t].val \in Val /\ call[t].val # NoVal
  BY RecordPlace, NoValAssumption
<1>2. CASE DropGuard(t)
  BY <1>1, <1>2 DEF DropGuard, IndInv, GuardHasRecord
<1>3. CASE FastInsert(t)
  BY <1>1, <1>3 DEF FastInsert, StoreRecord
<1>4. CASE InsertHere(t)
  BY <1>1, <1>4 DEF InsertHere, StoreRecord
<1>5. CASE FastRemove(t)
  BY <1>5 DEF FastRemove, EraseRecord, Unsafe
<1>6. CASE RemoveHere(t)
  BY <1>6 DEF RemoveHere, EraseRecord
<1>7. QED
  BY <1>2, <1>3, <1>4, <1>5, <1>6

LEMMA RecordBounded ==
  ASSUME IndInv, WellFormed(page, root), Bounded(page, root), NEW t \in Thread,
         DropGuard(t) \/ FastInsert(t) \/ InsertHere(t) \/ FastRemove(t)
           \/ RemoveHere(t)
  PROVE  Bounded(page', root')
<1> DEFINE p == node[t]
           k == call[t].key
<1>1. page \in Pages /\ root' = root
  BY DEF IndInv, TreeTyped, Pages,
         DropGuard, FastInsert, InsertHere, FastRemove, RemoveHere
<1>2. p \in Page /\ k \in Key /\ page[p].kind = "leaf"
  BY RecordPlace
<1>3. p \in ActiveIn(page) /\ (page[p].isRoot <=> p = root) /\ Active(page[p])
  BY <1>2 DEF ActiveIn, Active, WellFormed, RootSpans
<1>4. CASE page' = page
  BY <1>1, <1>4
<1>5. ASSUME NEW v \in Val \cup {NoVal},
             page' = [page EXCEPT ![p].recs[k] = v],
             IF v = NoVal THEN page[p].recs[k] # NoVal /\ ~Unsafe(page[p])
                          ELSE page[p].recs[k] = NoVal => ~Full(page[p])
      PROVE  Bounded(page', root')
  <2> HIDE DEF p, k
  <2>1. page[p] \in PageRec
    BY <1>1, <1>2 DEF Pages, SoundPage
  <2>2. /\ page'[p].kind = "leaf"
        /\ \A x \in Key : page'[p].recs[x] = IF x = k THEN v ELSE page[p].recs[x]
        /\ \A x \in Page \ {p} : page'[x] = page[x]
    BY <1>1, <1>2, <1>5, <2>1 DEF Pages, PageRec
  <2> DEFINE S == Contents(page[p])
  <2>3. Contents(page'[p]) = IF v = NoVal THEN S \ {k} ELSE S \cup {k}
    BY <1>2, <2>2 DEF Contents, Records
  <2>4. k \in S <=> page[p].recs[k] # NoVal
    BY <1>2 DEF Contents, Records
  <2>5. /\ IsFiniteSet(S) /\ Cardinality(S) \in Nat /\ Cardinality(S) <= N
        /\ p = root \/ N \div 2 <= Cardinality(S)
        /\ Full(page[p]) <=> Cardinality(S) = N
        /\ AtMinimum(page[p]) <=> Cardinality(S) <= N \div 2
    <3>1. /\ Entries(page[p]) <= N
          /\ p = root \/ Minimum(page[p]) <= Entries(page[p])
      BY <1>3 DEF Bounded, InBounds
    <3>2. Minimum(page[p]) = N \div 2
      BY <1>2, EntryCount
    <3>3. QED
      BY <1>2, <1>3, <3>1, <3>2, EntryCount DEF Entries
  <2> HIDE DEF S
  <2>6. Cardinality(S \cup {k}) = IF k \in S THEN Cardinality(S) ELSE Cardinality(S) + 1
    BY <2>5, FS_AddElement
  <2>7. Cardinality(S \ {k}) = IF k \in S THEN Cardinality(S) - 1 ELSE Cardinality(S)
    BY <2>5, FS_RemoveElement
  <2>8. InBounds(page'[p], p = root)
    <3>1. Minimum(page'[p]) = N \div 2
      BY <2>2, EntryCount
    <3>2. CASE v = NoVal
      <4>1. Entries(page'[p]) = Cardinality(S) - 1
        BY <1>5, <2>3, <2>4, <2>7, <3>2 DEF Entries
      <4>2. p = root \/ ~AtMinimum(page[p])
        BY <1>3, <1>5, <3>2 DEF Unsafe
      <4>3. QED
        BY <2>5, <3>1, <4>1, <4>2, Halves, CapacityAssumption DEF InBounds
    <3>3. CASE v # NoVal
      <4>1. Entries(page'[p]) = Cardinality(S \cup {k})
        BY <2>3, <3>3 DEF Entries
      <4>2. k \notin S => Cardinality(S) # N
        BY <1>5, <2>4, <2>5, <3>3
      <4>3. QED
        BY <2>5, <2>6, <3>1, <4>1, <4>2, Halves, CapacityAssumption DEF InBounds
    <3>4. QED
      BY <3>2, <3>3
  <2>9. \A x \in ActiveIn(page') \ {p} :
          x \in ActiveIn(page) /\ SameEntries(page'[x], page[x])
    BY <2>2 DEF ActiveIn, SameEntries
  <2>10. QED
    BY <1>1, <2>8, <2>9, BoundedFrame
<1>6. QED
  BY <1>4, <1>5, RecordsChange DEF RecordChanges

LEMMA RelinkBounded ==
  ASSUME IndInv, Bounded(page, root), NEW t \in Thread,
         FixSuccessor(t) \/ FixNone(t) \/ WalkOn(t) \/ Peek(t) \/ Join(t)
  PROVE  Bounded(page', root')
<1>1. page \in Pages /\ root' = root
  BY DEF IndInv, TreeTyped, Pages, FixSuccessor, FixNone, WalkOn, Peek, Join
<1>2. \A x \in Page : page[x] \in PageRec
  BY <1>1 DEF Pages, SoundPage
<1>3. \A x \in Page : /\ page'[x].kind = page[x].kind
                      /\ page'[x].recs = page[x].recs
                      /\ page'[x].kids = page[x].kids
  <2>1. CASE page' = page
    BY <2>1
  <2>2. ASSUME NEW p \in Ref, NEW q \in Ref, page' = [page EXCEPT ![p].right = q]
        PROVE  \A x \in Page : /\ page'[x].kind = page[x].kind
                               /\ page'[x].recs = page[x].recs
                               /\ page'[x].kids = page[x].kids
    BY <1>1, <1>2, <2>2 DEF PageRec, Pages
  <2>3. ASSUME NEW p \in Ref, NEW q \in Ref, page' = [page EXCEPT ![p].prev = q]
        PROVE  \A x \in Page : /\ page'[x].kind = page[x].kind
                               /\ page'[x].recs = page[x].recs
                               /\ page'[x].kids = page[x].kids
    BY <1>1, <1>2, <2>3 DEF PageRec, Pages
  <2>4. QED
    BY <2>1, <2>2, <2>3, RepairsRelink DEF Relinks
<1>4. \A x \in ActiveIn(page') : x \in ActiveIn(page) /\ SameEntries(page'[x], page[x])
  BY <1>3 DEF ActiveIn, Active, SameEntries, Entries, Contents, Records, Separators
<1>5. QED
  BY <1>1, <1>4, BoundedFrame

LEMMA StepBounded ==
  ASSUME IndInv, WellFormed(page, root), Bounded(page, root),
         NEW t \in Thread, Start(t) \/ Step(t)
  PROVE  Bounded(page', root')
<1>1. CASE DropGuard(t) \/ FastInsert(t) \/ InsertHere(t) \/ FastRemove(t)
             \/ RemoveHere(t)
  BY <1>1, RecordBounded
<1>2. CASE SplitRoot(t)
  <2>1. CASE Full(page[root])
    BY <1>2, <2>1, SplitRootBounded
  <2>2. CASE ~Full(page[root])
    BY <1>2, <2>2 DEF SplitRoot
  <2>3. QED
    BY <2>1, <2>2
<1>3. CASE SplitChild(t)
  BY <1>3, SplitChildBounded
<1>4. CASE Shrink(t)
  BY <1>4, ShrinkBounded
<1>5. CASE BorrowFromLeft(t) \/ BorrowFromRight(t)
  BY <1>5, BorrowBounded
<1>6. CASE Merge(t)
  BY <1>6, MergeBounded
<1>7. CASE FixSuccessor(t) \/ FixNone(t) \/ WalkOn(t) \/ Peek(t) \/ Join(t)
  BY <1>7, RelinkBounded
<1>8. CASE UNCHANGED <<page, root>>
  BY <1>8
<1>9. QED
  BY <1>1, <1>2, <1>3, <1>4, <1>5, <1>6, <1>7, <1>8, StepKinds

-----------------------------------------------------------------------------
(***************************************************************************)
(* The inductive invariant, and occupancy.                                 *)
(***************************************************************************)
TreeInv == IndInv /\ WellFormed(page, root) /\ Bounded(page, root)

LEMMA NewBounded ==
  ASSUME NEW P, NEW r \in Page, Fresh(P, r)
  PROVE  Bounded(P, r)
<1>1. P[r] = LeafRoot /\ \A p \in Page \ {r} : P[p] = FreePage
  BY DEF Fresh
<1>2. /\ LeafRoot.kind = "leaf" /\ LeafRoot.recs = NoRecs
      /\ FreePage.kind = "free"
  BY DEF LeafRoot, FreePage
<1>3. ActiveIn(P) = {r} /\ Contents(P[r]) = {}
  BY <1>1, <1>2 DEF ActiveIn, Active, Contents, Records, NoRecs
<1>4. Entries(P[r]) = 0
  BY <1>3, FS_EmptySet DEF Entries
<1>5. QED
  BY <1>3, <1>4, CapacityAssumption DEF Bounded, InBounds

LEMMA InitBounded == Init => Bounded(page, root)
<1>1. 1 \in Page
  BY BoundsAssumption DEF Page
<1>2. QED
  BY <1>1, NewBounded DEF Init, Fresh

LEMMA InitTreeInv == Init => TreeInv
BY InitInv, InitShape, InitBounded DEF TreeInv

LEMMA StepTreeInv ==
  ASSUME TreeInv, NEW t \in Thread, Start(t) \/ Step(t)
  PROVE  TreeInv'
<1>1. IndInv' /\ WellFormed(page', root') /\ Bounded(page', root')
  BY StepTyped, StepGuards, StepShape, StepBounded DEF TreeInv, IndInv
<1>2. QED
  BY <1>1 DEF TreeInv

LEMMA NextTreeInv == TreeInv /\ [Next]_vars => TreeInv'
<1>1. ASSUME TreeInv, UNCHANGED vars PROVE TreeInv'
  <2>1. IndInv'
    BY <1>1, NextInv DEF TreeInv
  <2>2. WellFormed(page', root') /\ Bounded(page', root')
    BY <1>1 DEF TreeInv, vars, tree
  <2>3. QED
    BY <2>1, <2>2 DEF TreeInv
<1>2. QED
  BY <1>1, StepTreeInv DEF Next, Terminated

LEMMA TreeInvariance == Spec => []TreeInv
BY InitTreeInv, NextTreeInv, PTL DEF Spec

LEMMA OccupancyFollows == TreeInv => OccupancyWithinBounds
<1> SUFFICES ASSUME TreeInv, NEW p \in ActivePages
             PROVE  /\ Occupancy(page[p]) <= N
                    /\ p # root => Occupancy(page[p]) >= Minimum(page[p])
  BY DEF OccupancyWithinBounds
<1>1. p \in ActiveIn(page) /\ Active(page[p])
  BY DEF ActivePages, ActiveIn
<1>2. Entries(page[p]) <= N /\ (p = root \/ Minimum(page[p]) <= Entries(page[p]))
  BY <1>1 DEF TreeInv, Bounded, InBounds
<1>3. Occupancy(page[p]) = Entries(page[p]) /\ Entries(page[p]) \in Nat
  BY <1>1, EntryCount DEF Occupancy, Entries
<1>4. Minimum(page[p]) \in Nat
  BY <1>1, EntryCount, Halves
<1>5. QED
  BY <1>2, <1>3, <1>4

\* Splits, borrows, merges, root growth and collapse keep every page within its
\* capacity and every page but the root at or above its minimum, in every state
\* and under every interleaving (insert_attempt and remove_attempt, node.rs,
\* which release a parent before they change its child).
THEOREM OccupancyHolds == Spec => []OccupancyWithinBounds
BY OccupancyFollows, TreeInvariance, PTL

-----------------------------------------------------------------------------
(***************************************************************************)
(* The invariant.                                                          *)
(***************************************************************************)
Live(P)        == {p \in Page : P[p].kind # "free"}
Known(P)       == Live(P) \cup {Nil}
RedirectsIn(P) == {p \in Page : P[p].kind = "redirect"}

\* d says which active page a live page leads to.
Leads(P, d) ==
  /\ d \in [Page -> Page]
  /\ \A p \in ActiveIn(P) : d[p] = p
  /\ \A p \in RedirectsIn(P) : /\ P[p].target \in Live(P)
                               /\ d[p] = d[P[p].target]
                               /\ d[p] \in ActiveIn(P)

\* Redirects close no cycle.
Ranked(P, k) ==
  /\ k \in [Page -> Nat]
  /\ \A p \in RedirectsIn(P) : /\ k[P[p].target] < k[p]
                               /\ k[p] <= Cardinality(RedirectsIn(P))

\* A right link leads to the page that begins where its page ends.
RightLeads(P, d, p) ==
  IF P[p].high = PosInf
  THEN P[p].right = Nil
  ELSE /\ P[p].right \in Live(P)
       /\ P[d[P[p].right]].level = P[p].level
       /\ P[d[P[p].right]].low = P[p].high

Chained(P, d) == \A p \in ActiveIn(P) : RightLeads(P, d, p)

\* A back link names a page that exists, and a leftmost page has none.
Backed(P) ==
  /\ \A p \in Live(P) : P[p].prev \in Known(P)
  /\ \A p \in ActiveIn(P) : P[p].low = NegInf => P[p].prev = Nil

\* A retired page points to pages that lead where it leads, by fewer steps.
Precedes(P, d, w, p, q) == q \in Live(P) /\ d[q] = d[p] /\ w[q] < w[p]

Ordered(P, d) ==
  \E w \in [Page -> Nat] : \A p \in RedirectsIn(P) :
    /\ Precedes(P, d, w, p, P[p].target)
    /\ P[p].right # Nil => Precedes(P, d, w, p, P[p].right)

Linked(P, d) == Leads(P, d) /\ Chained(P, d) /\ Backed(P) /\ Ordered(P, d)

SameLinks(new, old) ==
  /\ new.kind = old.kind /\ new.level = old.level
  /\ new.low = old.low /\ new.high = old.high
  /\ new.prev = old.prev /\ new.right = old.right /\ new.target = old.target

-----------------------------------------------------------------------------
(***************************************************************************)
(* Changes that retire no page.                                            *)
(***************************************************************************)
LEMMA LivePages ==
  ASSUME NEW P \in Pages
  PROVE  /\ Live(P) = ActiveIn(P) \cup RedirectsIn(P)
         /\ ActiveIn(P) \cap RedirectsIn(P) = {}
         /\ Live(P) \subseteq Page /\ Nil \notin Page
         /\ Page \subseteq Ref /\ Known(P) \subseteq Ref
         /\ \A p \in Page : p \notin ActiveIn(P) /\ p \notin RedirectsIn(P)
                              <=> P[p].kind = "free"
<1>1. \A p \in Page : P[p].kind \in {"free", "leaf", "internal", "redirect"}
  BY Numbers
<1>2. QED
  BY <1>1, ConstantFields DEF Live, Known, ActiveIn, RedirectsIn, Active

\* A live page leads to an active one.
LEMMA LeadsToActive ==
  ASSUME NEW P \in Pages, NEW d, Leads(P, d), NEW p \in Live(P)
  PROVE  d[p] \in ActiveIn(P) /\ d[p] \in Page /\ d[d[p]] = d[p]
BY LivePages DEF Leads, ActiveIn

LEMMA OrderedFrame ==
  ASSUME NEW P \in Pages, NEW Q \in Pages, NEW d, NEW e, Leads(P, d), Ordered(P, d),
         RedirectsIn(Q) = RedirectsIn(P), Live(P) \subseteq Live(Q),
         \A x \in RedirectsIn(P) : Q[x].target = P[x].target /\ Q[x].right = P[x].right,
         \A x \in Live(P) : e[x] = d[x]
  PROVE  Ordered(Q, e)
<1>1. PICK w \in [Page -> Nat] : \A p \in RedirectsIn(P) :
        /\ Precedes(P, d, w, p, P[p].target)
        /\ P[p].right # Nil => Precedes(P, d, w, p, P[p].right)
  BY DEF Ordered
<1>2. RedirectsIn(P) \subseteq Live(P)
  BY LivePages
<1>3. \A p \in RedirectsIn(P) : \A q : Precedes(P, d, w, p, q) => Precedes(Q, e, w, p, q)
  BY <1>2 DEF Precedes
<1>4. \A p \in RedirectsIn(Q) :
        /\ Precedes(Q, e, w, p, Q[p].target)
        /\ Q[p].right # Nil => Precedes(Q, e, w, p, Q[p].right)
  BY <1>1, <1>3
<1>5. QED
  BY <1>4 DEF Ordered

LEMMA SameLinksLead ==
  ASSUME NEW P \in Pages, NEW Q \in Pages, NEW d, NEW k,
         Linked(P, d), Ranked(P, k),
         \A x \in Page : SameLinks(Q[x], P[x])
  PROVE  Linked(Q, d) /\ Ranked(Q, k) /\ Live(Q) = Live(P)
<1>1. ActiveIn(Q) = ActiveIn(P) /\ RedirectsIn(Q) = RedirectsIn(P) /\ Live(Q) = Live(P)
      /\ Known(Q) = Known(P)
  BY DEF SameLinks, ActiveIn, Active, RedirectsIn, Live, Known
<1>2. Leads(Q, d) /\ Ranked(Q, k)
  BY <1>1, LivePages DEF Linked, Leads, Ranked, SameLinks
<1>3. Chained(Q, d)
  <2> SUFFICES ASSUME NEW p \in ActiveIn(Q) PROVE RightLeads(Q, d, p)
    BY DEF Chained
  <2>1. p \in ActiveIn(P) /\ p \in Page /\ RightLeads(P, d, p)
    BY <1>1, LivePages DEF Linked, Chained, ActiveIn
  <2>2. P[p].right \in Live(P) => d[P[p].right] \in Page
    BY LeadsToActive DEF Linked
  <2>3. QED
    BY <1>1, <2>1, <2>2 DEF RightLeads, SameLinks
<1>4. Backed(Q)
  BY <1>1, LivePages DEF Linked, Backed, SameLinks, ActiveIn
<1>5. Ordered(Q, d)
  <2>1. \A x \in RedirectsIn(P) : Q[x].target = P[x].target /\ Q[x].right = P[x].right
    BY LivePages DEF SameLinks
  <2>2. QED
    BY <1>1, <2>1, OrderedFrame DEF Linked
<1>6. QED
  BY <1>1, <1>2, <1>3, <1>4, <1>5 DEF Linked

RightSet(P, Q, p, q) == Q = [P EXCEPT ![p].right = q]
PrevSet(P, Q, p, q)  == Q = [P EXCEPT ![p].prev = q]

\* A right link is replaced by one that leads to the same page.
LEMMA RightRelinked ==
  ASSUME NEW P \in Pages, NEW Q \in Pages, NEW d, NEW k,
         Linked(P, d), Ranked(P, k),
         NEW p \in ActiveIn(P), NEW q \in Live(P),
         P[p].right # Nil, d[q] = d[P[p].right],
         RightSet(P, Q, p, q)
  PROVE  Linked(Q, d) /\ Ranked(Q, k) /\ Live(Q) = Live(P)
<1>1. p \in Page /\ P[p] \in PageRec
  BY DEF ActiveIn, Pages, SoundPage
<1>2. /\ \A x \in Page \ {p} : Q[x] = P[x]
      /\ Q[p] = [P[p] EXCEPT !.right = q]
  BY <1>1 DEF Pages, RightSet
<1>3. \A x \in Page : /\ Q[x].kind = P[x].kind /\ Q[x].level = P[x].level
                      /\ Q[x].low = P[x].low /\ Q[x].high = P[x].high
                      /\ Q[x].prev = P[x].prev /\ Q[x].target = P[x].target
                      /\ Q[x].right = IF x = p THEN q ELSE P[x].right
  BY <1>1, <1>2 DEF PageRec
<1>4. ActiveIn(Q) = ActiveIn(P) /\ RedirectsIn(Q) = RedirectsIn(P) /\ Live(Q) = Live(P)
      /\ Known(Q) = Known(P)
  BY <1>3 DEF ActiveIn, Active, RedirectsIn, Live, Known
<1>5. Leads(Q, d) /\ Ranked(Q, k)
  <2>1. \A x \in RedirectsIn(P) : x \in Page /\ Q[x].target = P[x].target
    BY <1>3 DEF RedirectsIn
  <2> HIDE <1>3
  <2>2. Leads(Q, d)
    BY <1>4, <2>1 DEF Linked, Leads
  <2>3. Ranked(Q, k)
    BY <1>4, <2>1 DEF Ranked
  <2>4. QED
    BY <2>2, <2>3
<1>6. Chained(Q, d)
  <2> SUFFICES ASSUME NEW x \in ActiveIn(Q) PROVE RightLeads(Q, d, x)
    BY DEF Chained
  <2>1. x \in ActiveIn(P) /\ x \in Page /\ RightLeads(P, d, x)
    BY <1>4, LivePages DEF Linked, Chained, ActiveIn
  <2>2. P[x].right \in Live(P) => d[P[x].right] \in Page
    BY LeadsToActive DEF Linked
  <2>3. d[q] \in Page
    BY LeadsToActive DEF Linked
  <2>4. CASE x = p
    BY <1>3, <1>4, <2>1, <2>2, <2>3, <2>4 DEF RightLeads
  <2>5. CASE x # p
    BY <1>3, <1>4, <2>1, <2>2, <2>5 DEF RightLeads
  <2>6. QED
    BY <2>4, <2>5
<1>7. Backed(Q)
  BY <1>3, <1>4, LivePages DEF Linked, Backed, ActiveIn
<1>8. Ordered(Q, d)
  <2>1. \A x \in RedirectsIn(P) : Q[x].target = P[x].target /\ Q[x].right = P[x].right
    BY <1>3, LivePages
  <2>2. QED
    BY <1>4, <2>1, OrderedFrame DEF Linked
<1>9. QED
  BY <1>4, <1>5, <1>6, <1>7, <1>8 DEF Linked

\* A back link is replaced.
LEMMA PrevRelinked ==
  ASSUME NEW P \in Pages, NEW Q \in Pages, NEW d, NEW k,
         Linked(P, d), Ranked(P, k),
         NEW p \in Page, NEW q \in Known(P),
         p \in ActiveIn(P) /\ P[p].low = NegInf => q = Nil,
         PrevSet(P, Q, p, q)
  PROVE  Linked(Q, d) /\ Ranked(Q, k) /\ Live(Q) = Live(P)
<1>1. P[p] \in PageRec
  BY DEF Pages, SoundPage
<1>2. /\ \A x \in Page \ {p} : Q[x] = P[x]
      /\ Q[p] = [P[p] EXCEPT !.prev = q]
  BY DEF Pages, PrevSet
<1>3. \A x \in Page : /\ Q[x].kind = P[x].kind /\ Q[x].level = P[x].level
                      /\ Q[x].low = P[x].low /\ Q[x].high = P[x].high
                      /\ Q[x].right = P[x].right /\ Q[x].target = P[x].target
                      /\ Q[x].prev = IF x = p THEN q ELSE P[x].prev
  BY <1>1, <1>2 DEF PageRec
<1>4. ActiveIn(Q) = ActiveIn(P) /\ RedirectsIn(Q) = RedirectsIn(P) /\ Live(Q) = Live(P)
      /\ Known(Q) = Known(P)
  BY <1>3 DEF ActiveIn, Active, RedirectsIn, Live, Known
<1>5. Leads(Q, d) /\ Ranked(Q, k)
  <2>1. \A x \in RedirectsIn(P) : x \in Page /\ Q[x].target = P[x].target
    BY <1>3 DEF RedirectsIn
  <2> HIDE <1>3
  <2>2. Leads(Q, d)
    BY <1>4, <2>1 DEF Linked, Leads
  <2>3. Ranked(Q, k)
    BY <1>4, <2>1 DEF Ranked
  <2>4. QED
    BY <2>2, <2>3
<1>6. Chained(Q, d)
  <2> SUFFICES ASSUME NEW x \in ActiveIn(Q) PROVE RightLeads(Q, d, x)
    BY DEF Chained
  <2>1. x \in ActiveIn(P) /\ x \in Page /\ RightLeads(P, d, x)
    BY <1>4, LivePages DEF Linked, Chained, ActiveIn
  <2>2. P[x].right \in Live(P) => d[P[x].right] \in Page
    BY LeadsToActive DEF Linked
  <2>3. QED
    BY <1>3, <1>4, <2>1, <2>2 DEF RightLeads
<1>7. Backed(Q)
  BY <1>3, <1>4, LivePages DEF Linked, Backed, ActiveIn
<1>8. Ordered(Q, d)
  <2>1. \A x \in RedirectsIn(P) : Q[x].target = P[x].target /\ Q[x].right = P[x].right
    BY <1>3, LivePages
  <2>2. QED
    BY <1>4, <2>1, OrderedFrame DEF Linked
<1>9. QED
  BY <1>4, <1>5, <1>6, <1>7, <1>8 DEF Linked

\* What d becomes when pages are allocated: each leads to itself.
Extended(d, Q) == [x \in Page |-> IF x \in ActiveIn(Q) THEN x ELSE d[x]]

\* The page c hands its range from sep on to a new page b, and there may be a
\* second new page, which covers all keys.
LEMMA SplitLinks ==
  ASSUME NEW P \in Pages, NEW Q \in Pages, NEW d, NEW k,
         Linked(P, d), Ranked(P, k),
         NEW c \in ActiveIn(P), NEW b \in Page, P[b].kind = "free",
         NEW sep \in Key,
         Q[c].kind = P[c].kind, Q[c].level = P[c].level, Q[c].low = P[c].low,
         Q[c].high = sep, Q[c].right = b, Q[c].prev = P[c].prev,
         Q[b].kind = P[c].kind, Q[b].level = P[c].level, Q[b].low = sep,
         Q[b].high = P[c].high, Q[b].right = P[c].right, Q[b].prev = c,
         \A x \in Page \ {b, c} :
           \/ SameLinks(Q[x], P[x])
           \/ /\ P[x].kind = "free" /\ Active(Q[x])
              /\ Q[x].high = PosInf /\ Q[x].right = Nil /\ Q[x].prev = Nil
  PROVE  /\ Linked(Q, Extended(d, Q)) /\ Ranked(Q, k)
         /\ Live(P) \subseteq Live(Q)
         /\ \A x \in Live(P) : Extended(d, Q)[x] = d[x]
<1> DEFINE e == Extended(d, Q)
<1>1. /\ c \in Page /\ c # b /\ sep # NegInf /\ sep # PosInf
      /\ P[c].kind # "redirect" /\ Active(P[c]) /\ Q[b].kind # "redirect"
  BY Numbers DEF ActiveIn, Active
<1>2. \A x \in ActiveIn(P) : x \in Page /\ x \in ActiveIn(Q)
  <2> TAKE x \in ActiveIn(P)
  <2>1. x \in Page /\ Active(P[x]) /\ P[x].kind # "free"
    BY DEF ActiveIn, Active
  <2>2. QED
    BY <1>1, <2>1 DEF SameLinks, ActiveIn, Active
<1>3. RedirectsIn(Q) = RedirectsIn(P)
  <2>1. \A x \in Page : Q[x].kind = "redirect" <=> P[x].kind = "redirect"
    <3> TAKE x \in Page
    <3>1. CASE x \in {b, c}
      BY <1>1, <3>1
    <3>2. CASE x \notin {b, c}
      BY <3>2 DEF SameLinks, Active
    <3>3. QED
      BY <3>1, <3>2
  <2>2. QED
    BY <2>1 DEF RedirectsIn
<1>4. \A x \in RedirectsIn(P) : x \in Page /\ Q[x].target = P[x].target
                                /\ Q[x].prev = P[x].prev
  BY <1>1 DEF RedirectsIn, SameLinks
<1>5. Live(P) \subseteq Live(Q) /\ Known(P) \subseteq Known(Q)
  BY <1>2, <1>3, LivePages DEF Known
<1>6. d \in [Page -> Page] /\ e \in [Page -> Page]
  BY DEF Linked, Leads, Extended
<1>7. \A x \in ActiveIn(Q) : e[x] = x /\ x \in Page
  BY DEF Extended, ActiveIn
<1>8. \A x \in Live(P) : e[x] = d[x]
  <2>1. \A x \in ActiveIn(P) : e[x] = d[x]
    BY <1>2, <1>7 DEF Linked, Leads
  <2>2. \A x \in RedirectsIn(P) : x \notin ActiveIn(Q) /\ x \in Page
    BY <1>3, LivePages
  <2>3. \A x \in RedirectsIn(P) : e[x] = d[x]
    BY <2>2 DEF Extended
  <2>4. QED
    BY <2>1, <2>3, LivePages
<1> HIDE DEF e
<1>9. Leads(Q, e)
  BY <1>2, <1>3, <1>4, <1>5, <1>6, <1>7, <1>8, LivePages DEF Linked, Leads
<1>10. Ranked(Q, k)
  BY <1>3, <1>4 DEF Ranked
<1>11. \A x \in ActiveIn(P) : Q[x].level = P[x].level /\ Q[x].low = P[x].low
  <2> TAKE x \in ActiveIn(P)
  <2>1. x \in Page /\ x # b /\ P[x].kind # "free"
    BY DEF ActiveIn, Active
  <2>2. QED
    BY <2>1 DEF SameLinks
<1>12. \A q \in Live(P) : /\ q \in Live(Q) /\ Q[e[q]].level = P[d[q]].level
                           /\ Q[e[q]].low = P[d[q]].low
  BY <1>5, <1>8, <1>11, LeadsToActive DEF Linked
<1>13. Chained(Q, e)
  <2> SUFFICES ASSUME NEW x \in ActiveIn(Q) PROVE RightLeads(Q, e, x)
    BY DEF Chained
  <2>1. x \in Page /\ Active(Q[x])
    BY DEF ActiveIn
  <2>2. CASE x = c
    <3>1. b \in ActiveIn(Q) /\ b \in Live(Q) /\ e[b] = b
      BY <1>1, <1>7, LivePages DEF ActiveIn, Active
    <3>2. QED
      BY <1>1, <2>2, <3>1 DEF RightLeads
  <2>3. CASE x = b
    <3>1. RightLeads(P, d, c)
      BY DEF Linked, Chained
    <3>2. QED
      BY <1>12, <2>3, <3>1 DEF RightLeads
  <2>4. CASE x \notin {b, c} /\ SameLinks(Q[x], P[x])
    <3>1. x \in ActiveIn(P)
      BY <2>1, <2>4 DEF ActiveIn, Active, SameLinks
    <3>2. RightLeads(P, d, x)
      BY <3>1 DEF Linked, Chained
    <3>3. QED
      BY <1>12, <2>4, <3>2 DEF RightLeads, SameLinks
  <2>5. CASE Q[x].high = PosInf /\ Q[x].right = Nil
    BY <2>5 DEF RightLeads
  <2>6. QED
    BY <2>1, <2>2, <2>3, <2>4, <2>5
<1>14. Backed(Q)
  <2>1. \A x \in Live(Q) : Q[x].prev \in Known(Q)
    <3> TAKE x \in Live(Q)
    <3>1. x \in Page /\ Q[x].kind # "free"
      BY DEF Live
    <3>2. c \in Known(Q) /\ Nil \in Known(Q) /\ c \in Live(P)
      BY <1>5, LivePages DEF Known
    <3>3. CASE x \in Live(P) /\ Q[x].prev = P[x].prev
      BY <1>5, <3>3 DEF Linked, Backed
    <3>4. CASE x = b
      BY <3>2, <3>4
    <3>5. CASE x # b /\ x # c /\ SameLinks(Q[x], P[x])
      BY <3>1, <3>3, <3>5 DEF SameLinks, Live
    <3>6. QED
      BY <3>1, <3>2, <3>3, <3>4, <3>5
  <2>2. \A x \in ActiveIn(Q) : Q[x].low = NegInf => Q[x].prev = Nil
    <3> TAKE x \in ActiveIn(Q)
    <3>1. x \in Page /\ Active(Q[x])
      BY DEF ActiveIn
    <3>2. CASE x = c \/ (x # b /\ SameLinks(Q[x], P[x]))
      <4>1. /\ x \in ActiveIn(P)
            /\ Q[x].low = P[x].low /\ Q[x].prev = P[x].prev
        BY <3>1, <3>2 DEF ActiveIn, Active, SameLinks
      <4>2. QED
        BY <4>1 DEF Linked, Backed
    <3>3. CASE x = b
      BY <1>1, <3>3
    <3>4. QED
      BY <3>1, <3>2, <3>3
  <2>3. QED
    BY <2>1, <2>2 DEF Backed
<1>15. Ordered(Q, e)
  <2>1. \A x \in RedirectsIn(P) : Q[x].target = P[x].target /\ Q[x].right = P[x].right
    BY <1>1 DEF RedirectsIn, SameLinks, Active
  <2>2. QED
    BY <1>3, <1>5, <1>8, <2>1, OrderedFrame DEF Linked
<1>16. QED
  BY <1>5, <1>8, <1>9, <1>10, <1>13, <1>14, <1>15 DEF Linked, e

\* A page that ends or begins where another one of its level does is that one.
LEMMA OnlyOneEnds ==
  ASSUME NEW P \in Pages, NEW r, WellFormed(P, r),
         NEW x \in ActiveIn(P), NEW y \in ActiveIn(P), P[x].level = P[y].level
  PROVE  /\ P[x].high = P[y].high => x = y
         /\ P[x].low = P[y].low => x = y
<1>1. x # y => P[x].high <= P[y].low \/ P[y].high <= P[x].low
  BY DEF WellFormed, Apart
<1>2. P[x].low < P[x].high /\ P[y].low < P[y].high
  BY DEF WellFormed, Fenced
<1>3. /\ P[x].low \in Int /\ P[x].high \in Int
      /\ P[y].low \in Int /\ P[y].high \in Int
  BY Numbers DEF ActiveIn
<1>4. QED
  BY <1>1, <1>2, <1>3

\* Two neighbours of one level move the boundary between them.
LEMMA BoundaryLinks ==
  ASSUME NEW P \in Pages, NEW Q \in Pages, NEW r, WellFormed(P, r), NEW d, NEW k,
         Linked(P, d), Ranked(P, k),
         NEW l \in ActiveIn(P), NEW h \in ActiveIn(P), l # h,
         P[l].level = P[h].level, P[l].high = P[h].low, P[h].low \in Key,
         NEW b \in Key,
         Q[l].kind = P[l].kind, Q[l].level = P[l].level, Q[l].low = P[l].low,
         Q[l].high = b, Q[l].right = P[l].right, Q[l].prev = P[l].prev,
         Q[h].kind = P[h].kind, Q[h].level = P[h].level, Q[h].low = b,
         Q[h].high = P[h].high, Q[h].right = P[h].right, Q[h].prev = P[h].prev,
         \A x \in Page \ {l, h} : SameLinks(Q[x], P[x])
  PROVE  Linked(Q, d) /\ Ranked(Q, k) /\ Live(Q) = Live(P)
<1>1. /\ l \in Page /\ h \in Page /\ b # NegInf /\ b # PosInf
      /\ P[h].low # NegInf /\ P[l].high # PosInf
      /\ P[l].kind # "redirect" /\ P[h].kind # "redirect"
  BY Numbers DEF ActiveIn, Active
<1>2. \A x \in Page : Q[x].kind = P[x].kind /\ Q[x].level = P[x].level
                      /\ Q[x].right = P[x].right /\ Q[x].prev = P[x].prev
  BY DEF SameLinks
<1>3. ActiveIn(Q) = ActiveIn(P) /\ RedirectsIn(Q) = RedirectsIn(P) /\ Live(Q) = Live(P)
      /\ Known(Q) = Known(P)
  BY <1>2 DEF ActiveIn, Active, RedirectsIn, Live, Known
<1>4. \A x \in RedirectsIn(P) : x \in Page /\ Q[x].target = P[x].target
  BY <1>1 DEF RedirectsIn, SameLinks
<1>5. Leads(Q, d) /\ Ranked(Q, k)
  <2>1. Leads(Q, d)
    BY <1>3, <1>4 DEF Linked, Leads
  <2>2. Ranked(Q, k)
    BY <1>3, <1>4 DEF Ranked
  <2>3. QED
    BY <2>1, <2>2
<1>6. \A x \in ActiveIn(P) : x \in Page /\ P[x].low \in Int /\ P[x].high \in Int
                             /\ P[x].low < P[x].high /\ P[x].level \in Nat
  BY Numbers DEF ActiveIn, WellFormed, Fenced
<1>7. \A x \in ActiveIn(P) : P[x].level = P[l].level =>
        /\ P[x].high = P[l].high => x = l
        /\ P[x].low = P[h].low => x = h
  BY OnlyOneEnds
<1>8. Chained(Q, d)
  <2> SUFFICES ASSUME NEW x \in ActiveIn(P) PROVE RightLeads(Q, d, x)
    BY <1>3 DEF Chained
  <2>1. x \in Page /\ RightLeads(P, d, x)
    BY DEF ActiveIn, Linked, Chained
  <2> DEFINE q == d[P[x].right]
  <2>2. CASE x = l
    <3>1. P[x].right \in Live(P) /\ P[q].level = P[x].level /\ P[q].low = P[x].high
      BY <1>1, <2>1, <2>2 DEF RightLeads
    <3>2. q \in ActiveIn(P)
      BY <3>1, LeadsToActive DEF Linked
    <3>3. q = h
      BY <1>7, <2>2, <3>1, <3>2
    <3>4. QED
      BY <1>1, <1>3, <2>2, <3>1, <3>3 DEF RightLeads
  <2>3. CASE x # l
    <3>1. Q[x].high = P[x].high /\ Q[x].right = P[x].right /\ Q[x].level = P[x].level
      BY <2>1, <2>3 DEF SameLinks
    <3>2. CASE P[x].high = PosInf
      BY <2>1, <3>1, <3>2 DEF RightLeads
    <3>3. CASE P[x].high # PosInf
      <4>1. P[x].right \in Live(P) /\ P[q].level = P[x].level /\ P[q].low = P[x].high
        BY <2>1, <3>3 DEF RightLeads
      <4>2. q \in ActiveIn(P) /\ q \in Page
        BY <4>1, LeadsToActive DEF Linked
      <4>3. q # h
        BY <1>7, <2>3, <4>1
      <4>4. Q[q].low = P[q].low /\ Q[q].level = P[q].level
        BY <1>2, <4>2, <4>3 DEF SameLinks
      <4>5. QED
        BY <1>3, <3>1, <3>3, <4>1, <4>4 DEF RightLeads
    <3>4. QED
      BY <3>2, <3>3
  <2>4. QED
    BY <2>2, <2>3
<1>9. Backed(Q)
  <2>1. \A x \in ActiveIn(P) : Q[x].low = NegInf => P[x].low = NegInf
    <3> TAKE x \in ActiveIn(P)
    <3>1. x \in Page
      BY DEF ActiveIn
    <3>2. QED
      BY <1>1, <3>1 DEF SameLinks
  <2>2. QED
    BY <1>2, <1>3, <2>1, LivePages DEF Linked, Backed
<1>10. Ordered(Q, d)
  <2>1. \A x \in RedirectsIn(P) : Q[x].target = P[x].target /\ Q[x].right = P[x].right
    BY <1>2, <1>4
  <2>2. QED
    BY <1>3, <2>1, OrderedFrame DEF Linked
<1>11. QED
  BY <1>3, <1>5, <1>8, <1>9, <1>10 DEF Linked

-----------------------------------------------------------------------------
(***************************************************************************)
(* Changes that retire a page.                                             *)
(***************************************************************************)
\* What led to l leads to h now, and a redirect to l takes one more step.
Redirected(d, l, h) == [x \in Page |-> IF d[x] = l THEN h ELSE d[x]]
Lifted(P, k, l) == [x \in Page |-> IF x \in RedirectsIn(P) THEN k[x] + 1
                                   ELSE IF x = l THEN 1 ELSE 0]

LEMMA RetireLeads ==
  ASSUME NEW P \in Pages, NEW Q \in Pages, NEW d, NEW k,
         Leads(P, d), Ranked(P, k),
         NEW l \in ActiveIn(P), NEW h \in ActiveIn(P), l # h,
         ActiveIn(Q) = ActiveIn(P) \ {l},
         RedirectsIn(Q) = RedirectsIn(P) \cup {l},
         Q[l].target = h,
         \A x \in RedirectsIn(P) : Q[x].target = P[x].target
  PROVE  /\ Leads(Q, Redirected(d, l, h)) /\ Ranked(Q, Lifted(P, k, l))
         /\ Live(Q) = Live(P)
<1> DEFINE e == Redirected(d, l, h)
           m == Lifted(P, k, l)
           R == RedirectsIn(P)
<1>1. /\ l \in Page /\ h \in Page /\ l \notin R /\ h \notin R
      /\ h \in ActiveIn(Q) /\ R \subseteq Page
  BY LivePages DEF ActiveIn, RedirectsIn
<1>2. Live(Q) = Live(P) /\ l \in Live(P) /\ h \in Live(P)
  <2>1. /\ Live(Q) = ActiveIn(Q) \cup RedirectsIn(Q)
        /\ Live(P) = ActiveIn(P) \cup RedirectsIn(P)
    BY LivePages
  <2>2. QED
    BY <2>1
<1>3. d \in [Page -> Page] /\ d[h] = h /\ d[l] = l
  BY DEF Leads
<1>4. e \in [Page -> Page] /\ \A x \in Page : e[x] = IF d[x] = l THEN h ELSE d[x]
  BY <1>1, <1>3 DEF Redirected
<1>5. \A x \in ActiveIn(Q) : e[x] = x
  BY <1>4 DEF Leads, ActiveIn
<1>6. \A x \in R : /\ P[x].target \in Live(P) /\ P[x].target \in Page
                   /\ x \in Page /\ d[x] = d[P[x].target] /\ d[x] \in ActiveIn(P)
  BY <1>1, LivePages DEF Leads
<1>7. \A x \in R \cup {l} : /\ Q[x].target \in Live(Q)
                           /\ e[x] = e[Q[x].target] /\ e[x] \in ActiveIn(Q)
  <2> TAKE x \in R \cup {l}
  <2>1. CASE x = l
    BY <1>1, <1>2, <1>3, <1>4, <2>1
  <2>2. CASE x # l
    <3>1. Q[x].target = P[x].target /\ x \in R
      BY <2>2
    <3>2. e[x] = e[P[x].target]
      BY <1>4, <1>6, <3>1
    <3>3. e[x] \in ActiveIn(Q)
      BY <1>1, <1>4, <1>6, <3>1
    <3>4. QED
      BY <1>2, <1>6, <3>1, <3>2, <3>3
  <2>3. QED
    BY <2>1, <2>2
<1>8. k \in [Page -> Nat] /\ \A x \in R : k[P[x].target] < k[x] /\ k[x] <= Cardinality(R)
  BY DEF Ranked
<1>9. m \in [Page -> Nat]
      /\ \A x \in Page : m[x] = IF x \in R THEN k[x] + 1 ELSE IF x = l THEN 1 ELSE 0
  BY <1>8 DEF Lifted
<1>10. Cardinality(R) \in Nat /\ Cardinality(R \cup {l}) = Cardinality(R) + 1
  <2>1. IsFiniteSet(Page)
    BY FS_Interval, BoundsAssumption DEF Page
  <2>2. IsFiniteSet(R)
    BY <1>1, <2>1, FS_Subset
  <2> HIDE DEF R
  <2>3. QED
    BY <1>1, <2>2, FS_AddElement, FS_CardinalityType
<1> HIDE DEF e, m, R
<1>11. \A x \in R \cup {l} : /\ m[Q[x].target] < m[x]
                            /\ m[x] <= Cardinality(R \cup {l})
  <2> TAKE x \in R \cup {l}
  <2>1. CASE x = l
    BY <1>1, <1>9, <1>10, <2>1
  <2>2. CASE x # l
    <3>1. x \in R /\ x \in Page /\ Q[x].target = P[x].target /\ P[x].target \in Page
      BY <1>6, <2>2 DEF R
    <3>2. k[x] \in Nat /\ k[P[x].target] \in Nat /\ k[P[x].target] < k[x]
          /\ k[x] <= Cardinality(R)
      BY <1>8, <3>1
    <3>3. m[x] = k[x] + 1
      BY <1>9, <3>1
    <3>4. m[P[x].target] \in {k[P[x].target] + 1, 1, 0}
      BY <1>9, <3>1
    <3>5. QED
      BY <1>10, <3>1, <3>2, <3>3, <3>4
  <2>3. QED
    BY <2>1, <2>2
<1>12. QED
  BY <1>2, <1>4, <1>5, <1>7, <1>9, <1>11 DEF Leads, Ranked, e, m, R

\* What led to l takes as many steps more as l takes.
LEMMA RetireOrdered ==
  ASSUME NEW P \in Pages, NEW Q \in Pages, NEW d, Leads(P, d), Ordered(P, d),
         NEW l \in ActiveIn(P), NEW h \in ActiveIn(P), l # h,
         RedirectsIn(Q) = RedirectsIn(P) \cup {l}, Live(Q) = Live(P),
         Q[l].target = h,
         Q[l].right = Nil \/ (Q[l].right \in Live(P) /\ d[Q[l].right] = h),
         \A x \in RedirectsIn(P) : Q[x].target = P[x].target /\ Q[x].right = P[x].right
  PROVE  Ordered(Q, Redirected(d, l, h))
<1> DEFINE e == Redirected(d, l, h)
<1>1. PICK w \in [Page -> Nat] : \A p \in RedirectsIn(P) :
        /\ Precedes(P, d, w, p, P[p].target)
        /\ P[p].right # Nil => Precedes(P, d, w, p, P[p].right)
  BY DEF Ordered
<1>2. /\ l \in Page /\ h \in Page /\ l \in Live(P) /\ h \in Live(P)
      /\ Live(P) \subseteq Page /\ RedirectsIn(P) \subseteq Live(P)
      /\ l \notin RedirectsIn(P) /\ d[l] = l /\ d[h] = h
  BY LivePages DEF Leads, ActiveIn
<1>3. PICK m \in Nat : /\ m > 0 /\ w[h] < m
                       /\ Q[l].right # Nil => w[Q[l].right] < m
  <2>1. w[h] \in Nat /\ (Q[l].right # Nil => w[Q[l].right] \in Nat)
    BY <1>2
  <2>2. CASE Q[l].right = Nil
    <3>1. w[h] + 1 \in Nat /\ w[h] + 1 > 0 /\ w[h] < w[h] + 1
      BY <2>1
    <3>2. QED
      BY <2>2, <3>1
  <2>3. CASE Q[l].right # Nil
    <3>1. w[h] + w[Q[l].right] + 1 \in Nat
      BY <2>1, <2>3
    <3>2. QED
      BY <2>1, <2>3, <3>1
  <2>4. QED
    BY <2>2, <2>3
<1> DEFINE v == [x \in Page |-> IF x = l THEN m ELSE IF d[x] = l THEN w[x] + m ELSE w[x]]
<1>4. v \in [Page -> Nat]
  <2>1. \A x \in Page : w[x] \in Nat /\ w[x] + m \in Nat
    BY <1>3
  <2>2. QED
    BY <1>3, <2>1
<1>5. \A x \in Page : /\ e[x] = IF d[x] = l THEN h ELSE d[x]
                      /\ v[x] = IF x = l THEN m ELSE IF d[x] = l THEN w[x] + m ELSE w[x]
  BY DEF Redirected
<1> HIDE DEF e, v
<1>6. ASSUME NEW p \in RedirectsIn(P), NEW q, Precedes(P, d, w, p, q)
      PROVE  Precedes(Q, e, v, p, q)
  <2>1. /\ p \in Page /\ q \in Page /\ q \in Live(P) /\ p # l
        /\ d[q] = d[p] /\ w[q] < w[p] /\ w[p] \in Nat /\ w[q] \in Nat
    BY <1>2, <1>6 DEF Precedes
  <2>2. e[q] = e[p]
    BY <1>5, <2>1
  <2>3. CASE q = l
    <3>1. v[q] = m /\ v[p] = w[p] + m
      BY <1>2, <1>5, <2>1, <2>3
    <3>2. v[q] < v[p]
      <4>1. 0 < w[p]
        BY <2>1
      <4>2. QED
        BY <1>3, <2>1, <3>1, <4>1
    <3>3. QED
      BY <2>1, <2>2, <3>2 DEF Precedes
  <2>4. CASE q # l
    <3>1. (v[q] = w[q] /\ v[p] = w[p]) \/ (v[q] = w[q] + m /\ v[p] = w[p] + m)
      BY <1>5, <2>1, <2>4
    <3>2. v[q] < v[p]
      BY <1>3, <2>1, <3>1
    <3>3. QED
      BY <2>1, <2>2, <3>2 DEF Precedes
  <2>5. QED
    BY <2>3, <2>4
<1>7. ASSUME NEW q \in Live(P), d[q] = h, w[q] < m PROVE Precedes(Q, e, v, l, q)
  <2>1. q \in Page /\ q # l /\ v[q] = w[q] /\ v[l] = m /\ e[q] = h /\ e[l] = h
    BY <1>2, <1>5, <1>7
  <2>2. QED
    BY <1>7, <2>1 DEF Precedes
<1>8. \A p \in RedirectsIn(Q) :
        /\ Precedes(Q, e, v, p, Q[p].target)
        /\ Q[p].right # Nil => Precedes(Q, e, v, p, Q[p].right)
  <2> TAKE p \in RedirectsIn(Q)
  <2>1. CASE p = l
    BY <1>2, <1>3, <1>7, <2>1
  <2>2. CASE p # l
    <3>1. p \in RedirectsIn(P) /\ Q[p].target = P[p].target /\ Q[p].right = P[p].right
      BY <2>2
    <3>2. QED
      BY <1>1, <1>6, <3>1
  <2>3. QED
    BY <2>1, <2>2
<1>9. QED
  BY <1>4, <1>8 DEF Ordered, e

\* l merges into its right neighbour h.
LEMMA MergeLinks ==
  ASSUME NEW P \in Pages, NEW Q \in Pages, NEW r, WellFormed(P, r), NEW d, NEW k,
         Linked(P, d), Ranked(P, k),
         NEW l \in ActiveIn(P), NEW h \in ActiveIn(P), l # h,
         P[l].level = P[h].level, P[l].high = P[h].low,
         Q[l].kind = "redirect", Q[l].target = h, Q[l].prev = P[l].prev,
         Q[l].right = P[l].right,
         Q[h].kind = P[h].kind, Q[h].level = P[h].level, Q[h].low = P[l].low,
         Q[h].high = P[h].high, Q[h].right = P[h].right, Q[h].prev = P[l].prev,
         \A x \in Page \ {l, h} : SameLinks(Q[x], P[x])
  PROVE  /\ Linked(Q, Redirected(d, l, h)) /\ Ranked(Q, Lifted(P, k, l))
         /\ Live(Q) = Live(P)
<1> DEFINE e == Redirected(d, l, h)
<1>1. /\ l \in Page /\ h \in Page /\ P[l].kind # "redirect" /\ P[h].kind # "redirect"
      /\ Active(P[l]) /\ Active(P[h])
  BY DEF ActiveIn, Active
<1>2. ActiveIn(Q) = ActiveIn(P) \ {l}
  <2>1. \A x \in Page : Active(Q[x]) <=> (Active(P[x]) /\ x # l)
    BY <1>1 DEF SameLinks, Active
  <2>2. QED
    BY <2>1 DEF ActiveIn
<1>3. RedirectsIn(Q) = RedirectsIn(P) \cup {l}
  <2>1. \A x \in Page : Q[x].kind = "redirect" <=> (P[x].kind = "redirect" \/ x = l)
    BY <1>1 DEF SameLinks
  <2>2. QED
    BY <1>1, <2>1 DEF RedirectsIn
<1>4. \A x \in RedirectsIn(P) : /\ x \in Page /\ Q[x].target = P[x].target
                                /\ Q[x].right = P[x].right
  BY <1>1 DEF RedirectsIn, SameLinks
<1>5. Leads(Q, e) /\ Ranked(Q, Lifted(P, k, l)) /\ Live(Q) = Live(P)
  BY <1>2, <1>3, <1>4, RetireLeads DEF Linked
<1>6. Known(Q) = Known(P)
  BY <1>5 DEF Known
<1>7. \A x \in Page : e[x] = IF d[x] = l THEN h ELSE d[x]
  BY DEF Redirected
<1> HIDE DEF e
<1>8. Chained(Q, e)
  <2> SUFFICES ASSUME NEW x \in ActiveIn(Q) PROVE RightLeads(Q, e, x)
    BY DEF Chained
  <2>1. x \in Page /\ x \in ActiveIn(P) /\ x # l /\ RightLeads(P, d, x)
    BY <1>2 DEF ActiveIn, Linked, Chained
  <2>2. Q[x].high = P[x].high /\ Q[x].right = P[x].right /\ Q[x].level = P[x].level
    BY <2>1 DEF SameLinks
  <2> DEFINE q == d[P[x].right]
  <2>3. CASE P[x].high = PosInf
    BY <2>1, <2>2, <2>3 DEF RightLeads
  <2>4. CASE P[x].high # PosInf
    <3>1. P[x].right \in Live(P) /\ P[q].level = P[x].level /\ P[q].low = P[x].high
      BY <2>1, <2>4 DEF RightLeads
    <3>2. P[x].right \in Page /\ q \in ActiveIn(P) /\ q \in Page
      BY <3>1, LeadsToActive, LivePages DEF Linked
    <3>3. CASE q = l
      <4>1. e[P[x].right] = h
        BY <1>7, <3>2, <3>3
      <4>2. QED
        BY <1>5, <2>2, <2>4, <3>1, <3>3, <4>1 DEF RightLeads
    <3>4. CASE q # l
      <4>1. e[P[x].right] = q
        BY <1>7, <3>2, <3>4
      <4>2. q # h
        <5>1. q = h => P[x].high = P[l].high /\ P[x].level = P[l].level
          BY <3>1
        <5>2. QED
          BY <2>1, <5>1, OnlyOneEnds
      <4>3. Q[q].low = P[q].low /\ Q[q].level = P[q].level
        BY <3>2, <3>4, <4>2 DEF SameLinks
      <4>4. QED
        BY <1>5, <2>2, <2>4, <3>1, <4>1, <4>3 DEF RightLeads
    <3>5. QED
      BY <3>3, <3>4
  <2>5. QED
    BY <2>3, <2>4
<1>9. Backed(Q)
  <2>1. \A x \in Live(P) : x \in Page /\ Q[x].prev \in Known(P)
    <3> TAKE x \in Live(P)
    <3>1. x \in Page /\ l \in Live(P) /\ h \in Live(P)
      BY LivePages
    <3>2. P[x].prev \in Known(P) /\ P[l].prev \in Known(P)
      BY <3>1 DEF Linked, Backed
    <3>3. QED
      BY <3>1, <3>2 DEF SameLinks
  <2>2. \A x \in ActiveIn(Q) : Q[x].low = NegInf => Q[x].prev = Nil
    <3> TAKE x \in ActiveIn(Q)
    <3>1. x \in Page /\ x \in ActiveIn(P) /\ x # l
      BY <1>2 DEF ActiveIn
    <3>2. /\ P[x].low = NegInf => P[x].prev = Nil
          /\ P[l].low = NegInf => P[l].prev = Nil
      BY <3>1 DEF Linked, Backed
    <3>3. QED
      BY <3>1, <3>2 DEF SameLinks
  <2>3. QED
    BY <1>5, <1>6, <2>1, <2>2 DEF Backed
<1>10. Ordered(Q, e)
  <2>1. P[l].right = Nil \/ (P[l].right \in Live(P) /\ d[P[l].right] = h)
    <3>1. CASE P[l].high = PosInf
      BY <3>1 DEF Linked, Chained, RightLeads
    <3>2. CASE P[l].high # PosInf
      <4> DEFINE q == d[P[l].right]
      <4>1. P[l].right \in Live(P) /\ P[q].level = P[l].level /\ P[q].low = P[l].high
        BY <3>2 DEF Linked, Chained, RightLeads
      <4>2. q \in ActiveIn(P)
        BY <4>1, LeadsToActive DEF Linked
      <4> HIDE DEF q
      <4>3. q = h
        BY <4>1, <4>2, OnlyOneEnds
      <4>4. QED
        BY <4>1, <4>3 DEF q
    <3>3. QED
      BY <3>1, <3>2
  <2>2. QED
    BY <1>3, <1>4, <1>5, <2>1, RetireOrdered DEF Linked, e
<1>11. QED
  BY <1>5, <1>8, <1>9, <1>10 DEF Linked, e

\* The root l forwards to its sole child h.
LEMMA CollapseLinks ==
  ASSUME NEW P \in Pages, NEW Q \in Pages, NEW r, WellFormed(P, r), NEW d, NEW k,
         Linked(P, d), Ranked(P, k),
         NEW l \in ActiveIn(P), NEW h \in ActiveIn(P), l # h,
         P[l].low = NegInf, P[h].low = NegInf,
         Q[l].kind = "redirect", Q[l].target = h, Q[l].prev = Nil, Q[l].right = Nil,
         Q[h].kind = P[h].kind, Q[h].level = P[h].level, Q[h].low = NegInf,
         Q[h].high = PosInf, Q[h].right = Nil, Q[h].prev = Nil,
         \A x \in Page \ {l, h} : SameLinks(Q[x], P[x])
  PROVE  /\ Linked(Q, Redirected(d, l, h)) /\ Ranked(Q, Lifted(P, k, l))
         /\ Live(Q) = Live(P)
<1> DEFINE e == Redirected(d, l, h)
<1>1. /\ l \in Page /\ h \in Page /\ P[l].kind # "redirect" /\ P[h].kind # "redirect"
      /\ Active(P[l]) /\ Active(P[h])
  BY DEF ActiveIn, Active
<1>2. ActiveIn(Q) = ActiveIn(P) \ {l}
  <2>1. \A x \in Page : Active(Q[x]) <=> (Active(P[x]) /\ x # l)
    BY <1>1 DEF SameLinks, Active
  <2>2. QED
    BY <2>1 DEF ActiveIn
<1>3. RedirectsIn(Q) = RedirectsIn(P) \cup {l}
  <2>1. \A x \in Page : Q[x].kind = "redirect" <=> (P[x].kind = "redirect" \/ x = l)
    BY <1>1 DEF SameLinks
  <2>2. QED
    BY <1>1, <2>1 DEF RedirectsIn
<1>4. \A x \in RedirectsIn(P) : /\ x \in Page /\ Q[x].target = P[x].target
                                /\ Q[x].right = P[x].right
  BY <1>1 DEF RedirectsIn, SameLinks
<1>5. Leads(Q, e) /\ Ranked(Q, Lifted(P, k, l)) /\ Live(Q) = Live(P)
  BY <1>2, <1>3, <1>4, RetireLeads DEF Linked
<1>6. Known(Q) = Known(P)
  BY <1>5 DEF Known
<1>7. \A x \in Page : e[x] = IF d[x] = l THEN h ELSE d[x]
  BY DEF Redirected
<1> HIDE DEF e
<1>8. Chained(Q, e)
  <2> SUFFICES ASSUME NEW x \in ActiveIn(Q) PROVE RightLeads(Q, e, x)
    BY DEF Chained
  <2>1. x \in Page /\ x \in ActiveIn(P) /\ x # l /\ RightLeads(P, d, x)
    BY <1>2 DEF ActiveIn, Linked, Chained
  <2>2. CASE x = h
    BY <2>2 DEF RightLeads
  <2>3. CASE x # h
    <3>1. Q[x].high = P[x].high /\ Q[x].right = P[x].right /\ Q[x].level = P[x].level
      BY <2>1, <2>3 DEF SameLinks
    <3> DEFINE q == d[P[x].right]
    <3>2. CASE P[x].high = PosInf
      BY <2>1, <3>1, <3>2 DEF RightLeads
    <3>3. CASE P[x].high # PosInf
      <4>1. P[x].right \in Live(P) /\ P[q].level = P[x].level /\ P[q].low = P[x].high
        BY <2>1, <3>3 DEF RightLeads
      <4>2. P[x].right \in Page /\ q \in ActiveIn(P) /\ q \in Page
        BY <4>1, LeadsToActive, LivePages DEF Linked
      <4>3. P[x].high # NegInf
        BY <2>1, Numbers
      <4>4. q # l /\ q # h
        BY <4>1, <4>3
      <4>5. Q[q].low = P[q].low /\ Q[q].level = P[q].level /\ e[P[x].right] = q
        BY <1>7, <4>2, <4>4 DEF SameLinks
      <4>6. QED
        BY <1>5, <3>1, <3>3, <4>1, <4>5 DEF RightLeads
    <3>4. QED
      BY <3>2, <3>3
  <2>4. QED
    BY <2>2, <2>3
<1>9. Backed(Q)
  <2>1. \A x \in Live(P) : x \in Page /\ Q[x].prev \in Known(P)
    <3> TAKE x \in Live(P)
    <3>1. x \in Page /\ P[x].prev \in Known(P) /\ Nil \in Known(P)
      BY LivePages DEF Known, Linked, Backed
    <3>2. QED
      BY <3>1 DEF SameLinks
  <2>2. \A x \in ActiveIn(Q) : Q[x].low = NegInf => Q[x].prev = Nil
    <3> TAKE x \in ActiveIn(Q)
    <3>1. x \in Page /\ x \in ActiveIn(P) /\ x # l
      BY <1>2 DEF ActiveIn
    <3>2. P[x].low = NegInf => P[x].prev = Nil
      BY <3>1 DEF Linked, Backed
    <3>3. QED
      BY <3>1, <3>2 DEF SameLinks
  <2>3. QED
    BY <1>5, <1>6, <2>1, <2>2 DEF Backed
<1>10. Ordered(Q, e)
  BY <1>3, <1>4, <1>5, RetireOrdered DEF Linked, e
<1>11. QED
  BY <1>5, <1>8, <1>9, <1>10 DEF Linked, e

-----------------------------------------------------------------------------
(***************************************************************************)
(* What a thread in a link repair relies on.                               *)
(***************************************************************************)
MergeFix == {"fix_start", "fix_walk", "peek", "join_retired", "join_survivor",
             "join_peeked", "fix_none"}
Joining  == {"fix_succ", "join_retired", "join_survivor", "join_peeked"}

\* The cursor is a page that exists; a latched cursor is active, and it is still
\* linked to the page that is waited for; the retired page and the survivor lead
\* to the same page, wherever that is by now.
Sees(t, d) ==
  /\ pc[t] \in {"fix_split"} \cup MergeFix => fix[t].cursor \in Known(page)
  /\ pc[t] \in Repairing => fix[t].cursor \in ActiveIn(page)
  /\ pc[t] \in Joining => page[fix[t].cursor].right = fix[t].survivor
  /\ pc[t] \in MergeFix => /\ fix[t].retired \in Live(page)
                           /\ fix[t].survivor \in Live(page)
                           /\ d[fix[t].retired] = d[fix[t].survivor]

LinkInv == \E d, k : /\ Linked(page, d) /\ Ranked(page, k)
                     /\ \A t \in Thread : Sees(t, d)

\* Pages that led to one page still do.
Carries(d, e) == /\ Live(page) \subseteq Live(page')
                 /\ \A x, y \in Live(page) : d[x] = d[y] => e[x] = e[y]

LinksMove(d) == \E e, k : Linked(page', e) /\ Ranked(page', k) /\ Carries(d, e)

LEMMA RightNeighbour ==
  ASSUME NEW P \in Pages, NEW d, Linked(P, d), NEW p \in ActiveIn(P),
         P[p].right # Nil
  PROVE  /\ P[p].right \in Live(P) /\ P[p].right \in Page
         /\ P[P[p].right].kind # "redirect" =>
              P[p].right \in ActiveIn(P) /\ P[P[p].right].low # NegInf
         /\ P[P[p].right].kind = "redirect" =>
              /\ P[P[p].right].target \in Live(P)
              /\ d[P[P[p].right].target] = d[P[p].right]
<1>1. RightLeads(P, d, p) /\ p \in Page
  BY DEF Linked, Chained, ActiveIn
<1>2. P[p].right \in Live(P) /\ P[d[P[p].right]].low = P[p].high
  BY <1>1 DEF RightLeads
<1>3. P[p].right \in Page
  BY <1>2 DEF Live
<1>4. P[p].high # NegInf
  BY <1>1, Numbers
<1>5. CASE P[P[p].right].kind = "redirect"
  <2>1. P[p].right \in RedirectsIn(P)
    BY <1>3, <1>5 DEF RedirectsIn
  <2>2. QED
    BY <1>2, <1>3, <1>5, <2>1 DEF Linked, Leads
<1>6. CASE P[P[p].right].kind # "redirect"
  <2>1. P[p].right \in ActiveIn(P)
    BY <1>2, <1>3, <1>6, LivePages DEF RedirectsIn
  <2>2. d[P[p].right] = P[p].right
    BY <2>1 DEF Linked, Leads
  <2>3. QED
    BY <1>2, <1>3, <1>4, <1>6, <2>1, <2>2
<1>7. QED
  BY <1>5, <1>6

LEMMA RepairLinks ==
  ASSUME IndInv, NEW d, NEW k, Linked(page, d), Ranked(page, k),
         NEW t \in Thread, Sees(t, d),
         FixSuccessor(t) \/ FixNone(t) \/ WalkOn(t) \/ Peek(t) \/ Join(t)
  PROVE  Linked(page', d) /\ Ranked(page', k) /\ Live(page') = Live(page)
<1> DEFINE cur   == fix[t].cursor
           surv  == fix[t].survivor
           right == page[cur].right
           Goal  == Linked(page', d) /\ Ranked(page', k) /\ Live(page') = Live(page)
<1>1. page \in Pages /\ page' \in Pages
  BY StepTyped DEF IndInv, TreeTyped, Pages, Step, Insert, Remove
<1>2. Nil \notin Page /\ Nil \in Known(page) /\ Live(page) \subseteq Known(page)
      /\ ActiveIn(page) \subseteq Live(page) /\ ActiveIn(page) \subseteq Page
  BY <1>1, LivePages DEF Known
<1>3. ASSUME cur \in ActiveIn(page), right # Nil, NEW q \in Live(page), d[q] = d[right],
             page' = [page EXCEPT ![cur].right = q]
      PROVE  Goal
  <2>1. RightSet(page, page', cur, q)
    BY <1>3 DEF RightSet
  <2>2. QED
    BY <1>1, <1>3, <2>1, RightRelinked
<1>4. ASSUME cur \in ActiveIn(page), right = surv, surv \in Page,
             page[surv].kind # "redirect",
             page' = [page EXCEPT ![surv].prev = cur]
      PROVE  Goal
  <2>1. surv # Nil /\ surv \in ActiveIn(page) /\ page[surv].low # NegInf
    BY <1>1, <1>2, <1>4, RightNeighbour, SMTT(30)
  <2>2. cur \in Known(page) /\ PrevSet(page, page', surv, cur)
    BY <1>2, <1>4 DEF PrevSet
  <2>3. QED
    BY <1>1, <1>4, <2>1, <2>2, PrevRelinked
<1>5. CASE page' = page
  BY <1>5
<1>6. CASE FixSuccessor(t)
  <2>1. cur \in ActiveIn(page) /\ right = surv /\ surv \in Page
    BY <1>6 DEF FixSuccessor, WriteFree, Sees, Repairing, Joining
  <2>2. CASE page[surv].kind = "redirect"
    <3>1. page' = [page EXCEPT ![cur].right = page[surv].target]
      BY <1>6, <2>2 DEF FixSuccessor
    <3>2. page[surv].target \in Live(page) /\ d[page[surv].target] = d[right]
      BY <1>1, <1>2, <2>1, <2>2, RightNeighbour
    <3>3. QED
      BY <1>2, <1>3, <2>1, <3>1, <3>2
  <2>3. CASE page[surv].kind # "redirect"
    <3>1. page' = [page EXCEPT ![surv].prev = cur]
      BY <1>6, <2>3 DEF FixSuccessor
    <3>2. QED
      BY <1>4, <2>1, <2>3, <3>1
  <2>4. QED
    BY <2>2, <2>3
<1>7. CASE FixNone(t)
  <2>1. surv \in Page /\ PrevSet(page, page', surv, Nil)
    BY <1>7 DEF FixNone, WriteFree, PrevSet
  <2>2. QED
    BY <1>1, <1>2, <2>1, PrevRelinked
<1>8. CASE WalkOn(t)
  <2>1. /\ cur \in Page /\ page[cur].kind # "redirect" /\ cur \in Known(page)
        /\ surv \in Live(page) /\ d[fix[t].retired] = d[surv]
    BY <1>8 DEF WalkOn, WriteFree, Sees, MergeFix
  <2>2. cur \in ActiveIn(page)
    BY <1>1, <1>2, <2>1, LivePages DEF Known, RedirectsIn
  <2>3. \/ page' = page
        \/ /\ right # Nil /\ right = fix[t].retired
           /\ page' = [page EXCEPT ![cur].right = surv]
    BY <1>8 DEF WalkOn
  <2>4. QED
    BY <1>3, <1>5, <2>1, <2>2, <2>3
<1>9. CASE Peek(t)
  <2>1. cur \in ActiveIn(page) /\ right \in Page
    BY <1>9 DEF Peek, ReadFree, Sees, Repairing
  <2>2. \/ page' = page
        \/ /\ page[right].kind = "redirect"
           /\ page' = [page EXCEPT ![cur].right = page[right].target]
    BY <1>9 DEF Peek
  <2>3. page[right].kind = "redirect" =>
          page[right].target \in Live(page) /\ d[page[right].target] = d[right]
    BY <1>1, <1>2, <2>1, RightNeighbour
  <2>4. QED
    BY <1>2, <1>3, <1>5, <2>1, <2>2, <2>3
<1>10. CASE Join(t)
  <2>1. cur \in ActiveIn(page) /\ right = surv /\ surv \in Page
    BY <1>10 DEF Join, WriteFree, Sees, Repairing, Joining
  <2>2. CASE page[surv].kind = "redirect"
    <3>1. \/ page' = page
          \/ page' = [page EXCEPT ![cur].right = page[surv].target]
      BY <1>10, <2>2 DEF Join
    <3>2. page[surv].target \in Live(page) /\ d[page[surv].target] = d[right]
      BY <1>1, <1>2, <2>1, <2>2, RightNeighbour
    <3>3. QED
      BY <1>2, <1>3, <1>5, <2>1, <3>1, <3>2
  <2>3. CASE page[surv].kind # "redirect"
    <3>1. page' = [page EXCEPT ![surv].prev = cur]
      BY <1>10, <2>3 DEF Join
    <3>2. QED
      BY <1>4, <2>1, <2>3, <3>1
  <2>4. QED
    BY <2>2, <2>3
<1>11. QED
  BY <1>6, <1>7, <1>8, <1>9, <1>10

-----------------------------------------------------------------------------
(***************************************************************************)
(* The critical sections move no link away from where it led.              *)
(***************************************************************************)
LEMMA MoveLinks ==
  ASSUME NEW d, NEW k, Linked(page', d), Ranked(page', k), Live(page') = Live(page)
  PROVE  LinksMove(d)
BY DEF LinksMove, Carries

\* The keys of y, all of them or those at one end, are now in z.
GoesOnAs(y, z) ==
  /\ z \in ActiveIn(page') /\ page'[z].level = page[y].level
  /\ page'[z].low = page[y].low \/ page'[z].high = page[y].high

\* What becomes of an active page: it stays, it is merged away, or it is the
\* root and collapses.
RangesGoOn ==
  \A y \in ActiveIn(page) :
    \/ GoesOnAs(y, y)
    \/ page'[y].kind = "redirect" /\ GoesOnAs(y, page'[y].target)
    \/ y = root /\ page'[y].kind = "redirect" /\ page'[y].target = root'

LEMMA RangesStay ==
  ASSUME NEW S, S \subseteq ActiveIn(page),
         \A y \in S : /\ page'[y].kind = page[y].kind
                      /\ page'[y].level = page[y].level
                      /\ page'[y].low = page[y].low \/ page'[y].high = page[y].high
  PROVE  \A y \in S : GoesOnAs(y, y)
BY DEF GoesOnAs, ActiveIn, Active

LEMMA RecordLinks ==
  ASSUME IndInv, NEW d, NEW k, Linked(page, d), Ranked(page, k), NEW t \in Thread,
         DropGuard(t) \/ FastInsert(t) \/ InsertHere(t) \/ FastRemove(t)
           \/ RemoveHere(t)
  PROVE  LinksMove(d) /\ RangesGoOn
<1>1. page \in Pages /\ page' \in Pages
  BY StepTyped DEF IndInv, TreeTyped, Pages, Step, Insert, Remove
<1>2. \A x \in Page : page[x] \in PageRec
  BY <1>1 DEF Pages, SoundPage
<1>3. node[t] \in Page
  BY RecordPlace
<1>4. \A x \in Page : SameLinks(page'[x], page[x])
  <2>1. CASE page' = page
    BY <2>1 DEF SameLinks
  <2>2. ASSUME NEW v, page' = [page EXCEPT ![node[t]].recs[call[t].key] = v]
        PROVE  \A x \in Page : SameLinks(page'[x], page[x])
    BY <1>1, <1>2, <1>3, <2>2 DEF SameLinks, PageRec, Pages
  <2>3. QED
    BY <2>1, <2>2, RecordWritten
<1>5. RangesGoOn
  BY <1>4, RangesStay DEF RangesGoOn, SameLinks, ActiveIn
<1>6. QED
  BY <1>1, <1>4, <1>5, SameLinksLead, MoveLinks

LEMMA RelinkRanges ==
  ASSUME IndInv, NEW t \in Thread,
         FixSuccessor(t) \/ FixNone(t) \/ WalkOn(t) \/ Peek(t) \/ Join(t)
  PROVE  RangesGoOn
<1>1. page \in Pages /\ \A x \in Page : page[x] \in PageRec
  BY DEF IndInv, TreeTyped, Pages, SoundPage
<1>2. \A x \in Page : /\ page'[x].kind = page[x].kind
                      /\ page'[x].level = page[x].level
                      /\ page'[x].low = page[x].low
  <2>1. CASE page' = page
    BY <2>1
  <2>2. ASSUME NEW p \in Ref, NEW q \in Ref, page' = [page EXCEPT ![p].right = q],
               NEW x \in Page
        PROVE  /\ page'[x].kind = page[x].kind /\ page'[x].level = page[x].level
               /\ page'[x].low = page[x].low
    BY <1>1, <2>2 DEF PageRec, Pages
  <2>3. ASSUME NEW p \in Ref, NEW q \in Ref, page' = [page EXCEPT ![p].prev = q],
               NEW x \in Page
        PROVE  /\ page'[x].kind = page[x].kind /\ page'[x].level = page[x].level
               /\ page'[x].low = page[x].low
    BY <1>1, <2>3 DEF PageRec, Pages
  <2>4. QED
    BY <2>1, <2>2, <2>3, RepairsRelink DEF Relinks
<1>3. QED
  BY <1>2, RangesStay DEF RangesGoOn, ActiveIn

LEMMA SplitChildLinks ==
  ASSUME IndInv, WellFormed(page, root), NEW d, NEW k,
         Linked(page, d), Ranked(page, k), NEW t \in Thread, SplitChild(t)
  PROVE  /\ LinksMove(d) /\ RangesGoOn
         /\ FirstNew \in Live(page')
         /\ FirstNew \in ActiveIn(page')
         /\ page'[FirstNew].level = page[ChildOf(t)].level
         /\ page'[FirstNew].low >= page[ChildOf(t)].low
<1> DEFINE p     == node[t]
           c     == ChildOf(t)
           sep   == SplitKey(page[c])
           b     == FirstNew
           lower == SplitLower(page[c], sep, b)
           upper == SplitUpper(page[c], sep, c)
           above == InstallSplit(page[p], sep, b)
<1>1. page \in Pages /\ page' \in Pages
  BY StepTyped DEF IndInv, TreeTyped, Pages, Step, Insert
<1>2. PICK s : ChildSplits(page, page', p, s, sep, c, c, b)
  BY SplitChildSplits
<1>3. /\ page' = [page EXCEPT ![c] = lower, ![b] = upper, ![p] = above]
      /\ Unallocated # {}
  BY DEF SplitChild
<1>4. b \in Page /\ page[b].kind = "free"
  BY <1>3, NewPagesExist DEF Unallocated
<1> HIDE DEF c, sep, b
<1>5. /\ p \in Page /\ c \in Page /\ c \in ActiveIn(page) /\ p \notin {b, c}
      /\ sep \in Key
  BY <1>1, <1>2, SplitFacts
<1>6. c # b
  BY <1>2 DEF ChildSplits
<1>7. page[c] \in PageRec /\ page[p] \in PageRec
  BY <1>1, <1>5 DEF Pages, SoundPage
<1>8. /\ page'[c] = lower /\ page'[b] = upper /\ page'[p] = above
      /\ \A x \in Page \ {b, c, p} : page'[x] = page[x]
  BY <1>1, <1>3, <1>4, <1>5, <1>6 DEF Pages
<1>9. /\ page'[c].kind = page[c].kind /\ page'[c].level = page[c].level
      /\ page'[c].low = page[c].low /\ page'[c].high = sep
      /\ page'[c].right = b /\ page'[c].prev = page[c].prev
  BY <1>7, <1>8 DEF SplitLower, PageRec
<1>10. /\ page'[b].kind = page[c].kind /\ page'[b].level = page[c].level
       /\ page'[b].low = sep /\ page'[b].high = page[c].high
       /\ page'[b].right = page[c].right /\ page'[b].prev = c
  BY <1>7, <1>8 DEF SplitUpper, PageRec
<1>11. SameLinks(above, page[p])
  BY <1>7 DEF InstallSplit, SameLinks, PageRec
<1>12. \A x \in Page \ {b, c} : SameLinks(page'[x], page[x])
  BY <1>8, <1>11 DEF SameLinks
<1>13. /\ Linked(page', Extended(d, page')) /\ Ranked(page', k)
       /\ Live(page) \subseteq Live(page')
       /\ \A x \in Live(page) : Extended(d, page')[x] = d[x]
  BY <1>1, <1>4, <1>5, <1>9, <1>10, <1>12, SplitLinks, SMTT(30)
<1>14. LinksMove(d)
  BY <1>13 DEF LinksMove, Carries
<1>15. b \in Live(page') /\ b \in ActiveIn(page')
  BY <1>4, <1>5, <1>10 DEF Live, ActiveIn, Active
<1>16. RangesGoOn
  <2>1. \A y \in ActiveIn(page) : y \in Page /\ y # b
    BY <1>4 DEF ActiveIn, Active
  <2>2. QED
    BY <1>9, <1>12, <2>1, RangesStay DEF RangesGoOn, SameLinks
<1>17. page'[b].low >= page[c].low
  <2>1. page'[c].low < page'[c].high
    <3>1. c \in ActiveIn(page')
      BY <1>5, <1>9 DEF ActiveIn, Active
    <3>2. Fenced(page')
      BY SplitChildShape DEF WellFormed
    <3>3. QED
      BY <3>1, <3>2 DEF Fenced
  <2>2. page[c].low \in Int /\ sep \in Int
    BY <1>1, <1>5, Numbers
  <2>3. QED
    BY <1>9, <1>10, <2>1, <2>2
<1>18. QED
  BY <1>10, <1>14, <1>15, <1>16, <1>17 DEF b, c

LEMMA SplitRootLinks ==
  ASSUME IndInv, WellFormed(page, root), NEW d, NEW k,
         Linked(page, d), Ranked(page, k), NEW t \in Thread, SplitRoot(t)
  PROVE  LinksMove(d) /\ RangesGoOn
<1>1. CASE ~Full(page[root])
  <2>1. page' = page
    BY <1>1 DEF SplitRoot
  <2>2. QED
    BY <2>1, MoveLinks, RangesStay DEF RangesGoOn
<1>2. CASE Full(page[root])
  <2> DEFINE c     == root
             sep   == SplitKey(page[c])
             b     == FirstNew
             n     == SecondNew
             lower == [SplitLower(page[c], sep, b) EXCEPT !.isRoot = FALSE]
             upper == SplitUpper(page[c], sep, c)
             top   == RootFromSplit(c, sep, b, page[c].level + 1)
  <2>1. page \in Pages /\ page' \in Pages
    BY StepTyped DEF IndInv, TreeTyped, Pages, Step, Insert
  <2>2. /\ page' = [page EXCEPT ![c] = lower, ![b] = upper, ![n] = top]
        /\ Cardinality(Unallocated) >= 2
    BY <1>2 DEF SplitRoot
  <2>3. /\ b \in Page /\ page[b].kind = "free" /\ b # n
        /\ n \in Page /\ page[n].kind = "free"
    BY <2>2, NewPagesExist DEF Unallocated
  <2>4. c \in Page /\ c \in ActiveIn(page) /\ page[c].kind # "free"
    BY DEF WellFormed, RootSpans, ActiveIn, Active
  <2>5. sep \in Key
    BY <1>2, <2>1, <2>4, SplitKeyInside
  <2>6. c # b /\ c # n
    BY <2>3, <2>4
  <2> HIDE DEF c, sep, b, n
  <2>7. page[c] \in PageRec
    BY <2>1, <2>4 DEF Pages, SoundPage
  <2>8. /\ page'[c] = lower /\ page'[b] = upper /\ page'[n] = top
        /\ \A x \in Page \ {b, c, n} : page'[x] = page[x]
    BY <2>1, <2>2, <2>3, <2>4, <2>6 DEF Pages
  <2>9. /\ page'[c].kind = page[c].kind /\ page'[c].level = page[c].level
        /\ page'[c].low = page[c].low /\ page'[c].high = sep
        /\ page'[c].right = b /\ page'[c].prev = page[c].prev
    BY <2>7, <2>8 DEF SplitLower, PageRec
  <2>10. /\ page'[b].kind = page[c].kind /\ page'[b].level = page[c].level
         /\ page'[b].low = sep /\ page'[b].high = page[c].high
         /\ page'[b].right = page[c].right /\ page'[b].prev = c
    BY <2>7, <2>8 DEF SplitUpper, PageRec
  <2>11. /\ Active(page'[n]) /\ page'[n].high = PosInf
         /\ page'[n].right = Nil /\ page'[n].prev = Nil
    BY <2>8 DEF RootFromSplit, FreePage, Active
  <2>12. \A x \in Page \ {b, c} :
           \/ SameLinks(page'[x], page[x])
           \/ /\ page[x].kind = "free" /\ Active(page'[x])
              /\ page'[x].high = PosInf /\ page'[x].right = Nil /\ page'[x].prev = Nil
    BY <2>3, <2>8, <2>11 DEF SameLinks
  <2>13. /\ Linked(page', Extended(d, page')) /\ Ranked(page', k)
         /\ Live(page) \subseteq Live(page')
         /\ \A x \in Live(page) : Extended(d, page')[x] = d[x]
    BY ONLY <2>1, <2>3, <2>4, <2>5, <2>9, <2>10, <2>12, SplitLinks,
            Linked(page, d), Ranked(page, k)
  <2>14. RangesGoOn
    <3>1. \A y \in ActiveIn(page) : y \in Page /\ y # b /\ page[y].kind # "free"
      BY <2>3 DEF ActiveIn, Active
    <3>2. QED
      BY <2>9, <2>12, <3>1, RangesStay DEF RangesGoOn, SameLinks
  <2>15. QED
    BY <2>13, <2>14 DEF LinksMove, Carries
<1>3. QED
  BY <1>1, <1>2

LEMMA BorrowLinks ==
  ASSUME IndInv, WellFormed(page, root), NEW d, NEW k,
         Linked(page, d), Ranked(page, k), NEW t \in Thread,
         BorrowFromLeft(t) \/ BorrowFromRight(t)
  PROVE  LinksMove(d) /\ RangesGoOn
<1> DEFINE p   == node[t]
           sep == Sep(t)
           l   == LeftOf(t)
           h   == RightOf(t)
<1>1. page \in Pages /\ page' \in Pages
  BY StepTyped DEF IndInv, TreeTyped, Pages, Step, Remove
<1>2. PICK s, b : Borrows(page, page', p, s, sep, l, h, b)
  BY BorrowBorrows
<1>3. \E new_l, new_h :
        /\ \/ \E b2 : new_l = LentLast(page[l], b2) /\ new_h = TookLast(page[l], page[h], sep, b2)
           \/ \E b2 : new_l = TookFirst(page[l], page[h], sep, b2) /\ new_h = LentFirst(page[h], b2)
        /\ \E above : page' = [page EXCEPT ![l] = new_l, ![h] = new_h, ![p] = above]
  BY DEF BorrowFromLeft, BorrowFromRight
<1> HIDE DEF sep, l, h
<1>4. /\ p \in InternalsIn(page) /\ sep \in Separators(page[p])
      /\ s = PrevSlot(page[p], sep) /\ l = page[p].kids[s] /\ h = page[p].kids[sep]
      /\ b \in Key /\ page'[p] = MoveBoundary(page[p], sep, b)
      /\ HalfBelow(page'[l], Survivor(page[l], page[h], sep), b)
      /\ HalfAbove(page'[h], Survivor(page[l], page[h], sep), b)
      /\ \A x \in Page \ {l, h, p} : page'[x] = page[x]
  BY <1>2 DEF Borrows
<1>5. /\ l \in ActiveIn(page) /\ h \in ActiveIn(page) /\ l # h
      /\ page[l].level = page[h].level /\ page[l].kind = page[h].kind
      /\ page[l].high = sep /\ page[h].low = sep /\ sep \in Key
  <2>1. l = page[p].kids[PrevSlot(page[p], sep)] /\ h = page[p].kids[sep]
    BY <1>4
  <2>2. p \in InternalsIn(page) /\ sep \in Separators(page[p])
    BY <1>4
  <2>3. QED
    BY <1>1, <2>1, <2>2, BorrowPair
<1>6. /\ l \in Page /\ h \in Page /\ p \in Page
      /\ page[l] \in PageRec /\ page[h] \in PageRec /\ page[p] \in PageRec
  BY <1>1, <1>4, <1>5 DEF ActiveIn, InternalsIn, Pages, SoundPage
<1>7. p # l /\ p # h
  <2>1. s \in Slots(page[p]) /\ page[page[p].kids[s]].high = sep
    BY <1>1, <1>4, PrevSlotIsNext, PrevChildEnds
  <2>2. p \in InternalsIn(page) /\ sep \in Separators(page[p])
    BY <1>4
  <2>3. p # page[p].kids[s] /\ p # page[p].kids[sep]
    BY <1>1, <2>1, <2>2, Neighbours
  <2>4. QED
    BY <1>4, <2>3
<1>8. Survivor(page[l], page[h], sep).kind = page[h].kind
      /\ Survivor(page[l], page[h], sep).level = page[h].level
      /\ Survivor(page[l], page[h], sep).low = page[l].low
      /\ Survivor(page[l], page[h], sep).high = page[h].high
  BY <1>6 DEF Survivor, PageRec
<1>9. /\ page'[l].kind = page[l].kind /\ page'[l].level = page[l].level
      /\ page'[l].low = page[l].low /\ page'[l].high = b
      /\ page'[h].kind = page[h].kind /\ page'[h].level = page[h].level
      /\ page'[h].low = b /\ page'[h].high = page[h].high
  BY <1>4, <1>5, <1>8 DEF HalfBelow, HalfAbove
<1>10. /\ page'[l].right = page[l].right /\ page'[l].prev = page[l].prev
       /\ page'[h].right = page[h].right /\ page'[h].prev = page[h].prev
  <2>1. PICK new_l, new_h :
        /\ \/ \E b2 : new_l = LentLast(page[l], b2) /\ new_h = TookLast(page[l], page[h], sep, b2)
           \/ \E b2 : new_l = TookFirst(page[l], page[h], sep, b2) /\ new_h = LentFirst(page[h], b2)
        /\ \E above : page' = [page EXCEPT ![l] = new_l, ![h] = new_h, ![p] = above]
    BY <1>3
  <2>2. page'[l] = new_l /\ page'[h] = new_h
    BY <1>1, <1>5, <1>6, <1>7, <2>1 DEF Pages
  <2>3. /\ new_l.right = page[l].right /\ new_l.prev = page[l].prev
        /\ new_h.right = page[h].right /\ new_h.prev = page[h].prev
    BY <1>6, <2>1, ZenonT(40) DEF LentLast, TookLast, TookFirst, LentFirst, PageRec
  <2>4. QED
    BY <2>2, <2>3
<1>11. SameLinks(page'[p], page[p])
  BY <1>4, <1>6 DEF MoveBoundary, SameLinks, PageRec
<1>12. \A x \in Page \ {l, h} : SameLinks(page'[x], page[x])
  BY <1>4, <1>11 DEF SameLinks
<1>13. Linked(page', d) /\ Ranked(page', k) /\ Live(page') = Live(page)
  <2>1. page[l].high = page[h].low /\ page[h].low \in Key /\ b \in Key
    BY <1>4, <1>5
  <2>2. QED
    BY <1>1, <1>5, <1>9, <1>10, <1>12, <2>1, BoundaryLinks
<1>14. RangesGoOn
  <2>1. ActiveIn(page) \subseteq Page
    BY DEF ActiveIn
  <2>2. \A y \in ActiveIn(page) : GoesOnAs(y, y)
    BY <1>9, <1>12, <2>1, RangesStay DEF SameLinks
  <2>3. QED
    BY <2>2 DEF RangesGoOn
<1>15. QED
  BY <1>13, <1>14, MoveLinks

LEMMA MergedLinks ==
  ASSUME IndInv, WellFormed(page, root), NEW d, NEW k,
         Linked(page, d), Ranked(page, k), NEW t \in Thread, Merge(t)
  PROVE  /\ LinksMove(d) /\ RangesGoOn
         /\ LeftOf(t) \in RedirectsIn(page') /\ page'[LeftOf(t)].target = RightOf(t)
         /\ LeftOf(t) \in Live(page) /\ RightOf(t) \in Live(page)
<1> DEFINE p   == node[t]
           sep == Sep(t)
           l   == LeftOf(t)
           h   == RightOf(t)
<1>1. page \in Pages /\ page' \in Pages
  BY StepTyped DEF IndInv, TreeTyped, Pages, Step, Remove
<1>2. /\ p \in InternalsIn(page) /\ sep \in Separators(page[p])
      /\ l = page[p].kids[PrevSlot(page[p], sep)] /\ h = page[p].kids[sep]
  BY RemovePlace DEF Merge, LeftOf, RightOf
<1>3. page' = [page EXCEPT ![l] = Retired(page[l], h),
                           ![h] = Survivor(page[l], page[h], sep),
                           ![p] = DropMerged(page[p], sep)]
  BY DEF Merge
<1> HIDE DEF sep, l, h
<1>4. /\ l \in ActiveIn(page) /\ h \in ActiveIn(page) /\ l # h
      /\ page[l].level = page[h].level /\ page[l].kind = page[h].kind
      /\ page[l].high = sep /\ page[h].low = sep /\ sep \in Key
  BY <1>1, <1>2, BorrowPair
<1>5. /\ l \in Page /\ h \in Page /\ p \in Page
      /\ page[l] \in PageRec /\ page[h] \in PageRec /\ page[p] \in PageRec
  BY <1>1, <1>2, <1>4 DEF ActiveIn, InternalsIn, Pages, SoundPage
<1>6. p # l /\ p # h
  <2>1. /\ PrevSlot(page[p], sep) \in Slots(page[p])
        /\ page[page[p].kids[PrevSlot(page[p], sep)]].high = sep
    BY <1>1, <1>2, <1>4, PrevSlotIsNext
  <2>2. QED
    BY <1>1, <1>2, <2>1, Neighbours, SMTT(30)
<1>7. /\ page'[l] = Retired(page[l], h)
      /\ page'[h] = Survivor(page[l], page[h], sep)
      /\ page'[p] = DropMerged(page[p], sep)
      /\ \A x \in Page \ {l, h, p} : page'[x] = page[x]
  BY <1>1, <1>3, <1>4, <1>5, <1>6 DEF Pages
<1>8. /\ page'[l].kind = "redirect" /\ page'[l].target = h
      /\ page'[l].prev = page[l].prev /\ page'[l].right = page[l].right
  BY <1>5, <1>7 DEF Retired, PageRec
<1>9. /\ page'[h].kind = page[h].kind /\ page'[h].level = page[h].level
      /\ page'[h].low = page[l].low /\ page'[h].high = page[h].high
      /\ page'[h].right = page[h].right /\ page'[h].prev = page[l].prev
  BY <1>5, <1>7 DEF Survivor, PageRec
<1>10. SameLinks(page'[p], page[p])
  BY <1>5, <1>7 DEF DropMerged, SameLinks, PageRec
<1>11. \A x \in Page \ {l, h} : SameLinks(page'[x], page[x])
  BY <1>7, <1>10 DEF SameLinks
<1>12. /\ Linked(page', Redirected(d, l, h)) /\ Ranked(page', Lifted(page, k, l))
       /\ Live(page') = Live(page)
  BY <1>1, <1>4, <1>8, <1>9, <1>11, MergeLinks
<1>13. LinksMove(d)
  BY <1>1, <1>12, LivePages DEF LinksMove, Carries, Redirected
<1>14. l \in RedirectsIn(page') /\ l \in Live(page) /\ h \in Live(page)
  BY <1>1, <1>4, <1>5, <1>8, LivePages DEF RedirectsIn
<1>15. RangesGoOn
  <2>1. GoesOnAs(l, h)
    BY <1>4, <1>5, <1>9 DEF GoesOnAs, ActiveIn, Active
  <2>2. ActiveIn(page) \subseteq Page
    BY DEF ActiveIn
  <2>3. \A y \in ActiveIn(page) \ {l} : GoesOnAs(y, y)
    BY <1>9, <1>11, <2>2, RangesStay DEF SameLinks
  <2>4. QED
    BY <1>8, <2>1, <2>3 DEF RangesGoOn
<1>16. QED
  BY <1>8, <1>13, <1>14, <1>15 DEF l, h

LEMMA ShrinkLinks ==
  ASSUME IndInv, WellFormed(page, root), NEW d, NEW k,
         Linked(page, d), Ranked(page, k), NEW t \in Thread, Shrink(t)
  PROVE  LinksMove(d) /\ RangesGoOn
<1> DEFINE l     == root
           h     == page[root].kids[NegInf]
           empty == page[root].kind = "internal" /\ Separators(page[root]) = {}
<1>1. page \in Pages /\ page' \in Pages
  BY StepTyped DEF IndInv, TreeTyped, Pages, Step, Remove
<1>2. CASE empty
  <2>1. /\ h \in Page
        /\ page' = [page EXCEPT ![h] = PromotedChild(page[h]),
                                ![l] = CollapsedRoot(page[l], h)]
    BY <1>2 DEF Shrink, WriteFree
  <2>2. l \in Page /\ l \in ActiveIn(page) /\ page[l].low = NegInf
    BY DEF WellFormed, RootSpans, ActiveIn
  <2>3. Fits(page, l, NegInf)
    BY <1>2, <2>2, SlotNumbers DEF WellFormed, ChildrenFit, InternalsIn
  <2>4. /\ h \in ActiveIn(page) /\ page[h].low = NegInf
        /\ page[h].level + 1 = page[l].level
    BY <2>2, <2>3 DEF Fits
  <2>5. l # h
    <3>1. page[h].level \in Nat
      BY <1>1, <2>1, Numbers
    <3>2. QED
      BY <2>4, <3>1
  <2>6. page[h] \in PageRec /\ page[l] \in PageRec
    BY <1>1, <2>1, <2>2 DEF Pages, SoundPage
  <2> HIDE DEF l, h
  <2>7. /\ page'[h] = PromotedChild(page[h]) /\ page'[l] = CollapsedRoot(page[l], h)
        /\ \A x \in Page \ {l, h} : page'[x] = page[x]
    BY <1>1, <2>1, <2>2, <2>5 DEF Pages
  <2>8. /\ page'[l].kind = "redirect" /\ page'[l].target = h /\ page'[l].prev = Nil
        /\ page'[l].right = Nil
    BY <2>6, <2>7 DEF CollapsedRoot, PageRec
  <2>9. /\ page'[h].kind = page[h].kind /\ page'[h].level = page[h].level
        /\ page'[h].low = NegInf /\ page'[h].high = PosInf
        /\ page'[h].right = Nil /\ page'[h].prev = Nil
    BY <2>6, <2>7 DEF PromotedChild, PageRec
  <2>10. \A x \in Page \ {l, h} : SameLinks(page'[x], page[x])
    BY <2>7 DEF SameLinks
  <2>11. /\ Linked(page', Redirected(d, l, h)) /\ Ranked(page', Lifted(page, k, l))
         /\ Live(page') = Live(page)
    BY <1>1, <2>2, <2>4, <2>5, <2>8, <2>9, <2>10, CollapseLinks
  <2>12. LinksMove(d)
    BY <1>1, <2>11, LivePages DEF LinksMove, Carries, Redirected
  <2>13. RangesGoOn
    <3>1. l = root /\ root' = h
      BY <1>2 DEF Shrink, l, h
    <3>2. \A y \in ActiveIn(page) \ {l} : GoesOnAs(y, y)
      BY <2>4, <2>9, <2>10, RangesStay DEF SameLinks, ActiveIn
    <3>3. QED
      BY <2>8, <3>1, <3>2 DEF RangesGoOn
  <2>14. QED
    BY <2>12, <2>13
<1>3. CASE ~empty
  <2>1. page' = page
    BY <1>3 DEF Shrink
  <2>2. QED
    BY <2>1, MoveLinks, RangesStay DEF RangesGoOn
<1>4. QED
  BY <1>2, <1>3

LEMMA StepLinks ==
  ASSUME IndInv, WellFormed(page, root), NEW d, NEW k,
         Linked(page, d), Ranked(page, k),
         NEW t \in Thread, Sees(t, d), Start(t) \/ Step(t)
  PROVE  LinksMove(d) /\ RangesGoOn
<1>1. CASE DropGuard(t) \/ FastInsert(t) \/ InsertHere(t) \/ FastRemove(t)
             \/ RemoveHere(t)
  BY <1>1, RecordLinks
<1>2. CASE SplitRoot(t)
  BY <1>2, SplitRootLinks
<1>3. CASE SplitChild(t)
  BY <1>3, SplitChildLinks
<1>4. CASE Shrink(t)
  BY <1>4, ShrinkLinks
<1>5. CASE BorrowFromLeft(t) \/ BorrowFromRight(t)
  BY <1>5, BorrowLinks
<1>6. CASE Merge(t)
  BY <1>6, MergedLinks
<1>7. CASE FixSuccessor(t) \/ FixNone(t) \/ WalkOn(t) \/ Peek(t) \/ Join(t)
  BY <1>7, RepairLinks, RelinkRanges, MoveLinks
<1>8. CASE UNCHANGED <<page, root>>
  BY <1>8, MoveLinks, RangesStay DEF RangesGoOn
<1>9. QED
  BY <1>1, <1>2, <1>3, <1>4, <1>5, <1>6, <1>7, <1>8, StepKinds

-----------------------------------------------------------------------------
(***************************************************************************)
(* What the threads rely on stays true.                                    *)
(***************************************************************************)
\* Only these steps leave their thread in a link repair.
LEMMA RepairSteps ==
  ASSUME ThreadsTyped, NEW t \in Thread, Start(t) \/ Step(t),
         pc'[t] \in {"fix_split", "fix_succ"} \cup MergeFix
  PROVE  \/ SplitChild(t) \/ FixSplit(t) \/ FixSuccessor(t) \/ Merge(t)
         \/ FixStart(t) \/ WalkBack(t) \/ WalkOn(t) \/ Peek(t) \/ Join(t)
<1> USE DEF ThreadsTyped, tree, threads, GoTo, Visit, Retry, Hold, Release, Answer,
            Resume, StoreRecord, EraseRecord, Latched, Attempts, Seeks, MergeFix
<1>1. ~Start(t)
  BY DEF Start
<1>2. ~ReadRoot(t)
  BY DEF ReadRoot
<1>3. ~SeekRestart(t) /\ ~SeekRight(t) /\ ~SeekDown(t)
  BY DEF SeekRestart, SeekRight, SeekDown
<1>4. ~SeekGet(t)
  BY DEF SeekGet
<1>5. ~SeekWriter(t)
  BY DEF SeekWriter
<1>6. ~DropGuard(t) /\ ~Relatch(t) /\ ~FastUpdate(t)
  BY DEF DropGuard, Relatch, FastUpdate
<1>7. ~FastInsert(t)
  BY DEF FastInsert
<1>8. ~FastRemove(t)
  BY DEF FastRemove
<1>9. ~Count(t)
  BY DEF Count
<1>10. ~SplitRoot(t)
  BY DEF SplitRoot
<1>11. ~AttemptRoot(t) /\ ~AttemptRight(t)
  BY DEF AttemptRoot, AttemptRight
<1>12. ~InsertRetry(t)
  BY DEF InsertRetry
<1>13. ~InsertHere(t)
  BY DEF InsertHere
<1>14. ~InsertDown(t)
  BY DEF InsertDown, InsertDescends
<1>15. ~Shrink(t)
  BY DEF Shrink
<1>16. ~RemoveRetry(t)
  BY DEF RemoveRetry
<1>17. ~RemoveHere(t)
  BY DEF RemoveHere
<1>18. ~RemoveDown(t)
  BY DEF RemoveDown, RemoveDescends
<1>19. ~BorrowFromLeft(t) /\ ~BorrowFromRight(t)
  BY DEF BorrowFromLeft, BorrowFromRight, RemoveDescends
<1>20. ~FixNone(t)
  BY DEF FixNone
<1>21. ~Return(t)
  BY DEF Return
<1>22. QED
  BY <1>1, <1>2, <1>3, <1>4, <1>5, <1>6, <1>7, <1>8, <1>9, <1>10, <1>11, <1>12,
     <1>13, <1>14, <1>15, <1>16, <1>17, <1>18, <1>19, <1>20, <1>21
     DEF Step, Seek, Insert, Remove

LEMMA OtherSees ==
  ASSUME IndInv, NEW d, NEW e, Carries(d, e),
         NEW t \in Thread, Start(t) \/ Step(t), NEW u \in Thread \ {t}, Sees(u, d)
  PROVE  Sees(u, e)'
<1> USE DEF IndInv, LatchDiscipline
<1>1. page \in Pages /\ page' \in Pages
  BY StepTyped DEF TreeTyped, Pages
<1>2. pc'[u] = pc[u] /\ fix'[u] = fix[u]
  BY OthersKeep DEF OthersKept
<1>3. Live(page) \subseteq Live(page') /\ Known(page) \subseteq Known(page')
  BY DEF Carries, Known
<1>4. pc[u] \in Repairing => page'[fix[u].cursor] = page[fix[u].cursor]
  <2> SUFFICES ASSUME pc[u] \in Repairing
               PROVE  page'[fix[u].cursor] = page[fix[u].cursor]
    OBVIOUS
  <2> DEFINE p == fix[u].cursor
  <2>1. latch[u] = [page |-> p, mode |-> "write"]
    BY DEF RepairLatched, Repairing
  <2>2. p \in Page /\ p # Nil /\ page[p].kind # "free"
    BY <1>1, LivePages DEF Sees, ActiveIn, Active
  <2>3. PagesKept(t)
    BY PagesKeep
  <2> HIDE DEF p
  <2>4. ~WriteFree(p)
    BY <2>1 DEF WriteFree
  <2>5. latch[t] # [page |-> p, mode |-> "write"]
    BY <2>1, <2>2 DEF LatchesExclusive
  <2>6. page'[p] = page[p]
    BY <2>2, <2>3, <2>4, <2>5 DEF PagesKept
  <2>7. QED
    BY <2>6 DEF p
<1>5. pc[u] \in Repairing => fix[u].cursor \in ActiveIn(page')
  BY <1>4 DEF Sees, ActiveIn
<1>6. pc[u] \in Joining => page'[fix[u].cursor].right = fix[u].survivor
  BY <1>4 DEF Sees, Joining, Repairing
<1>7. pc[u] \in MergeFix => /\ fix[u].retired \in Live(page')
                            /\ fix[u].survivor \in Live(page')
                            /\ e[fix[u].retired] = e[fix[u].survivor]
  BY <1>3 DEF Sees, Carries
<1>8. QED
  BY <1>2, <1>3, <1>5, <1>6, <1>7 DEF Sees

LEMMA OwnSees ==
  ASSUME IndInv, WellFormed(page, root), NEW d, NEW k, Linked(page, d),
         Ranked(page, k), NEW e, Linked(page', e), Carries(d, e),
         NEW t \in Thread, Sees(t, d), Start(t) \/ Step(t)
  PROVE  Sees(t, e)'
<1> DEFINE cur   == fix[t].cursor
           surv  == fix[t].survivor
           right == page[cur].right
<1>1. page \in Pages /\ page' \in Pages /\ ThreadsTyped
  BY StepTyped DEF IndInv, TreeTyped, Pages
<1>2. /\ Live(page) \subseteq Live(page') /\ Known(page) \subseteq Known(page')
      /\ Nil \notin Page /\ Nil \in Known(page) /\ Live(page) \subseteq Known(page)
      /\ ActiveIn(page) \subseteq Live(page) /\ ActiveIn(page) \subseteq Page
  BY <1>1, LivePages DEF Carries, Known
<1>3. \A x \in Page : page[x] \in PageRec
  BY <1>1 DEF Pages, SoundPage
<1>4. \A x \in Page \cap Known(page) :
        page[x].kind # "redirect" => x \in ActiveIn(page)
  BY <1>1, LivePages DEF Known, RedirectsIn
<1>5. CASE pc'[t] \notin {"fix_split", "fix_succ"} \cup MergeFix
  BY <1>5 DEF Sees, MergeFix, Repairing, Joining
<1> USE DEF GoTo, Resume, Hold, WalkFrom
<1>6. CASE SplitChild(t)
  <2>1. FirstNew \in Live(page')
    BY <1>6, SplitChildLinks
  <2>2. pc[t] = "ins" /\ (pc' = pc \/ (pc'[t] = "fix_split" /\ fix'[t].cursor = FirstNew))
    BY <1>1, <1>6 DEF SplitChild, InsertDescends, Attempts, ThreadsTyped
  <2>3. QED
    BY <1>5, <2>1, <2>2 DEF Sees, Known, MergeFix, Repairing, Joining
<1>7. CASE FixSplit(t)
  <2>1. /\ cur \in Page /\ page' = page /\ cur \in Known(page)
        /\ \/ pc'[t] = "ins"
           \/ /\ pc'[t] = "fix_succ" /\ fix' = fix
              /\ page[cur].kind # "redirect" /\ right = surv
    BY <1>1, <1>7 DEF FixSplit, WriteFree, Sees, ThreadsTyped, tree
  <2>2. QED
    BY <1>4, <1>5, <2>1 DEF Sees, MergeFix, Repairing, Joining
<1>8. CASE FixSuccessor(t)
  <2>1. /\ cur \in ActiveIn(page)
        /\ \/ pc'[t] = "ins"
           \/ /\ pc' = pc /\ pc[t] = "fix_succ"
              /\ fix'[t].cursor = cur /\ fix'[t].survivor = page[surv].target
              /\ page' = [page EXCEPT ![cur].right = page[surv].target]
    BY <1>1, <1>8 DEF FixSuccessor, Sees, Repairing, ThreadsTyped, FixRec
  <2> HIDE DEF cur, surv
  <2>2. page' = [page EXCEPT ![cur].right = page[surv].target] =>
          page'[cur].right = page[surv].target /\ cur \in ActiveIn(page')
    BY <1>1, <1>2, <1>3, <2>1 DEF ActiveIn, Active, PageRec, Pages
  <2>3. QED
    BY <1>5, <2>1, <2>2 DEF Sees, MergeFix, Repairing, Joining
<1>9. CASE Merge(t)
  <2>1. /\ LeftOf(t) \in RedirectsIn(page') /\ page'[LeftOf(t)].target = RightOf(t)
        /\ LeftOf(t) \in Live(page) /\ RightOf(t) \in Live(page)
    BY <1>9, MergedLinks
  <2>2. e[LeftOf(t)] = e[RightOf(t)]
    BY <2>1 DEF Linked, Leads
  <2>3. page[LeftOf(t)].prev \in Known(page)
    BY <2>1 DEF Linked, Backed
  <2>4. /\ pc'[t] = "fix_start" /\ fix'[t].cursor = page[LeftOf(t)].prev
        /\ fix'[t].retired = LeftOf(t) /\ fix'[t].survivor = RightOf(t)
    BY <1>1, <1>9 DEF Merge, ThreadsTyped
  <2>5. QED
    BY <1>2, <2>1, <2>2, <2>3, <2>4 DEF Sees, MergeFix, Repairing, Joining
\* Within repair_merged_link.
<1>10. ASSUME pc[t] \in MergeFix, pc'[t] \in MergeFix,
              fix'[t].retired = fix[t].retired, fix'[t].survivor = fix[t].survivor,
              fix'[t].cursor \in Known(page),
              pc'[t] \in Repairing => fix'[t].cursor \in ActiveIn(page'),
              pc'[t] \in Joining => page'[fix'[t].cursor].right = fix'[t].survivor
       PROVE  Sees(t, e)'
  <2>1. /\ fix[t].retired \in Live(page) /\ fix[t].survivor \in Live(page)
        /\ d[fix[t].retired] = d[fix[t].survivor]
    BY <1>10 DEF Sees
  <2>2. e[fix[t].retired] = e[fix[t].survivor]
    BY <2>1 DEF Carries
  <2>3. QED
    BY <1>2, <1>10, <2>1, <2>2 DEF Sees
<1>11. CASE FixStart(t)
  <2>1. /\ pc[t] = "fix_start" /\ pc'[t] \in {"fix_walk", "fix_none"}
        /\ fix'[t].retired = fix[t].retired /\ fix'[t].survivor = fix[t].survivor
        /\ fix'[t].cursor \in {cur, Nil}
    BY <1>1, <1>11 DEF FixStart, ThreadsTyped, FixRec
  <2>2. cur \in Known(page)
    BY <2>1 DEF Sees, MergeFix
  <2>3. QED
    BY <1>2, <1>10, <2>1, <2>2 DEF MergeFix, Repairing, Joining
<1>12. CASE WalkBack(t)
  <2>1. /\ pc[t] = "fix_walk" /\ pc'[t] = "fix_walk"
        /\ fix'[t].retired = fix[t].retired /\ fix'[t].survivor = fix[t].survivor
        /\ fix'[t].cursor \in {page[cur].prev, page[cur].target}
        /\ cur \in Page /\ page[cur].kind = "redirect"
    BY <1>1, <1>12 DEF WalkBack, ThreadsTyped, FixRec, WriteFree
  <2>2. page[cur].prev \in Known(page) /\ page[cur].target \in Known(page)
    <3>1. cur \in RedirectsIn(page) /\ cur \in Live(page)
      BY <2>1 DEF RedirectsIn, Live
    <3>2. QED
      BY <1>2, <3>1 DEF Linked, Leads, Backed
  <2>3. QED
    BY <1>10, <2>1, <2>2 DEF MergeFix, Repairing, Joining
<1>13. CASE WalkOn(t)
  <2>1. /\ pc[t] = "fix_walk" /\ fix' = fix /\ cur \in Page
        /\ page[cur].kind # "redirect" /\ cur \in Known(page)
        /\ \/ pc'[t] = "fix_none"
           \/ pc'[t] = "join_retired" /\ page' = [page EXCEPT ![cur].right = surv]
           \/ pc'[t] = "join_survivor" /\ page' = page /\ right = surv
           \/ pc'[t] = "peek" /\ page' = page
    BY <1>1, <1>13 DEF WalkOn, WriteFree, Sees, MergeFix, ThreadsTyped
  <2>2. cur \in ActiveIn(page)
    BY <1>4, <2>1
  <2> HIDE DEF cur, surv
  <2>3. page' = [page EXCEPT ![cur].right = surv] =>
          page'[cur].right = surv /\ cur \in ActiveIn(page')
    BY <1>1, <1>2, <1>3, <2>2 DEF ActiveIn, Active, PageRec, Pages
  <2>4. fix'[t].cursor = cur /\ fix'[t].survivor = surv
    BY <2>1 DEF cur, surv
  <2>5. QED
    BY <1>10, <2>1, <2>2, <2>3, <2>4 DEF MergeFix, Repairing, Joining
<1>14. CASE Peek(t)
  <2>1. /\ pc[t] = "peek" /\ right \in Page /\ cur \in ActiveIn(page)
    BY <1>14 DEF Peek, ReadFree, Sees, Repairing
  <2>2. /\ fix'[t].retired = fix[t].retired /\ fix'[t].survivor = surv
        /\ \/ /\ pc'[t] = "join_peeked" /\ fix'[t].cursor = cur
              /\ page' = [page EXCEPT ![cur].right = surv]
           \/ pc'[t] = "fix_walk" /\ fix'[t].cursor \in {cur, right}
    BY <1>1, <1>14 DEF Peek, ThreadsTyped, FixRec
  <2>3. right \in Live(page)
    BY <1>1, <1>2, <2>1, RightNeighbour
  <2> HIDE DEF cur, surv, right
  <2>4. page' = [page EXCEPT ![cur].right = surv] =>
          page'[cur].right = surv /\ cur \in ActiveIn(page')
    BY <1>1, <1>2, <1>3, <2>1 DEF ActiveIn, Active, PageRec, Pages
  <2>5. fix'[t].survivor = fix[t].survivor
    BY <2>2 DEF surv
  <2>6. QED
    BY <1>2, <1>10, <2>1, <2>2, <2>3, <2>4, <2>5 DEF MergeFix, Repairing, Joining
<1>15. CASE Join(t)
  <2>1. /\ pc[t] \in {"join_retired", "join_survivor", "join_peeked"}
        /\ surv \in Page /\ cur \in ActiveIn(page) /\ surv \in Live(page)
    BY <1>15 DEF Join, WriteFree, Sees, Repairing, MergeFix
  <2>2. \/ pc'[t] = "del"
        \/ /\ pc'[t] = "fix_walk" /\ page[surv].kind = "redirect"
           /\ fix'[t].retired = fix[t].retired /\ fix'[t].survivor = fix[t].survivor
           /\ fix'[t].cursor \in {page[surv].target, cur}
    BY <1>1, <1>15 DEF Join, ThreadsTyped, FixRec
  <2>3. page[surv].kind = "redirect" => page[surv].target \in Known(page)
    <3>1. page[surv].kind = "redirect" => surv \in RedirectsIn(page)
      BY <2>1 DEF RedirectsIn
    <3>2. QED
      BY <1>2, <3>1 DEF Linked, Leads
  <2>4. QED
    BY <1>2, <1>5, <1>10, <2>1, <2>2, <2>3 DEF MergeFix, Repairing, Joining
<1>16. QED
  BY <1>1, <1>5, <1>6, <1>7, <1>8, <1>9, <1>11, <1>12, <1>13, <1>14, <1>15, RepairSteps

-----------------------------------------------------------------------------
(***************************************************************************)
(* The inductive invariant.                                                *)
(***************************************************************************)
LEMMA NewLinks ==
  ASSUME NEW P, NEW r \in Page, Fresh(P, r)
  PROVE  \E d, k : Linked(P, d) /\ Ranked(P, k)
<1> DEFINE d == [x \in Page |-> x]
           k == [x \in Page |-> 0]
<1>1. P[r] = LeafRoot /\ \A p \in Page \ {r} : P[p] = FreePage
  BY DEF Fresh
<1>2. /\ LeafRoot.kind = "leaf" /\ LeafRoot.low = NegInf /\ LeafRoot.high = PosInf
      /\ LeafRoot.right = Nil /\ LeafRoot.prev = Nil
      /\ FreePage.kind = "free"
  BY DEF LeafRoot, FreePage
<1>3. ActiveIn(P) = {r} /\ RedirectsIn(P) = {} /\ Live(P) = {r}
  BY <1>1, <1>2 DEF ActiveIn, Active, RedirectsIn, Live
<1>4. Leads(P, d) /\ Ranked(P, k)
  BY <1>3 DEF Leads, Ranked, ActiveIn
<1>5. Chained(P, d) /\ Backed(P) /\ Ordered(P, d)
  <2>1. Chained(P, d) /\ Backed(P)
    BY <1>1, <1>2, <1>3 DEF Chained, RightLeads, Backed, Known
  <2>2. k \in [Page -> Nat]
    OBVIOUS
  <2>3. QED
    BY <1>3, <2>1, <2>2 DEF Ordered
<1>6. QED
  BY <1>4, <1>5 DEF Linked

LEMMA InitLinks == Init => LinkInv
<1> SUFFICES ASSUME Init PROVE LinkInv
  OBVIOUS
<1>1. 1 \in Page /\ Fresh(page, 1) /\ \A t \in Thread : pc[t] = "idle"
  BY BoundsAssumption DEF Page, Init, Fresh
<1>2. \A d : \A t \in Thread : Sees(t, d)
  BY <1>1 DEF Sees, MergeFix, Repairing, Joining
<1>3. QED
  BY <1>1, <1>2, NewLinks DEF LinkInv

LEMMA StepLinkInv ==
  ASSUME TreeInv, LinkInv, NEW t \in Thread, Start(t) \/ Step(t)
  PROVE  LinkInv'
<1>1. PICK d, k : /\ Linked(page, d) /\ Ranked(page, k)
                  /\ \A u \in Thread : Sees(u, d)
  BY DEF LinkInv
<1>2. LinksMove(d)
  BY <1>1, StepLinks DEF TreeInv
<1>3. PICK e, j : Linked(page', e) /\ Ranked(page', j) /\ Carries(d, e)
  BY <1>2 DEF LinksMove
<1>4. \A u \in Thread : Sees(u, e)'
  <2> TAKE u \in Thread
  <2>1. CASE u = t
    BY <1>1, <1>3, <2>1, OwnSees DEF TreeInv
  <2>2. CASE u # t
    BY <1>1, <1>3, <2>2, OtherSees DEF TreeInv
  <2>3. QED
    BY <2>1, <2>2
<1>5. QED
  BY <1>3, <1>4 DEF LinkInv

LEMMA NextLinkInv == TreeInv /\ LinkInv /\ [Next]_vars => LinkInv'
<1>1. ASSUME LinkInv, UNCHANGED vars PROVE LinkInv'
  BY <1>1 DEF LinkInv, Sees, vars, tree, threads
<1>2. QED
  BY <1>1, StepLinkInv DEF Next, Terminated

LEMMA LinkInvariance == Spec => [](TreeInv /\ LinkInv)
BY InitTreeInv, NextTreeInv, InitLinks, NextLinkInv, PTL DEF Spec

-----------------------------------------------------------------------------
(***************************************************************************)
(* Where a chain of redirects ends.                                        *)
(***************************************************************************)
\* One step along a redirect, and the walk that Resolve takes.
Onto(q)       == IF q # Nil /\ page[q].kind = "redirect" THEN page[q].target ELSE q
Walk(f, p, n) == f = [i \in 0..n |-> IF i = 0 THEN p ELSE Onto(f[i - 1])]

LEMMA WalkExists == ASSUME NEW p, NEW n \in Nat PROVE \E f : Walk(f, p, n)
<1> DEFINE Missing == {i \in Nat : ~\E f : Walk(f, p, i)}
<1> SUFFICES ASSUME Missing # {} PROVE FALSE
  OBVIOUS
<1>1. PICK m \in Missing : \A i \in Missing : m <= i
  BY LeastExists
<1>2. m \in Nat /\ ~\E f : Walk(f, p, m)
  OBVIOUS
<1>3. m # 0
  <2>1. Walk([i \in 0..0 |-> p], p, 0)
    BY DEF Walk
  <2>2. QED
    BY <1>2, <2>1
<1>4. m - 1 \in Nat /\ m - 1 \notin Missing
  BY <1>1, <1>2, <1>3
<1>5. PICK f : Walk(f, p, m - 1)
  BY <1>4
<1> DEFINE g == [i \in 0..m |-> IF i = m THEN Onto(f[m - 1]) ELSE f[i]]
<1>6. \A i \in 0..m : g[i] = IF i = 0 THEN p ELSE Onto(g[i - 1])
  <2> TAKE i \in 0..m
  <2>1. CASE i = m
    BY <1>2, <1>3, <2>1
  <2>2. CASE i # m
    <3>1. i \in 0..(m - 1) /\ g[i] = f[i] /\ (i # 0 => g[i - 1] = f[i - 1])
      BY <1>2, <2>2
    <3>2. f[i] = IF i = 0 THEN p ELSE Onto(f[i - 1])
      BY <1>5, <3>1 DEF Walk
    <3>3. QED
      BY <3>1, <3>2
  <2>3. QED
    BY <2>1, <2>2
<1>7. g = [i \in 0..m |-> IF i = 0 THEN p ELSE Onto(g[i - 1])]
  BY <1>6
<1>8. Walk(g, p, m)
  BY <1>7 DEF Walk
<1>9. QED
  BY <1>2, <1>8

LEMMA ResolveWalks ==
  ASSUME NEW p PROVE \E f : Walk(f, p, MaxPages) /\ Resolve(p) = f[MaxPages]
<1>1. PICK g : Walk(g, p, MaxPages)
  BY WalkExists, BoundsAssumption
<1> DEFINE f == CHOOSE f : f = [i \in 0..MaxPages |->
                  IF i = 0 THEN p
                  ELSE LET q == f[i - 1]
                       IN  IF q # Nil /\ page[q].kind = "redirect" THEN page[q].target
                           ELSE q]
<1>2. Resolve(p) = f[MaxPages]
  BY DEF Resolve
<1>3. Walk(f, p, MaxPages)
  BY <1>1 DEF Walk, Onto
<1>4. QED
  BY <1>2, <1>3

\* Resolve finds the active page that a live page leads to: a chain of
\* redirects is never longer than there are pages.
LEMMA ResolveLeads ==
  ASSUME NEW d, NEW k, page \in Pages, Leads(page, d), Ranked(page, k),
         NEW p \in Live(page)
  PROVE  Resolve(p) = d[p] /\ d[p] \in ActiveIn(page)
<1>1. PICK f : Walk(f, p, MaxPages) /\ Resolve(p) = f[MaxPages]
  BY ResolveWalks
<1>2. /\ f[0] = p
      /\ \A i \in 0..MaxPages : i # 0 => f[i] = Onto(f[i - 1])
  BY <1>1, BoundsAssumption DEF Walk
<1>3. Live(page) \subseteq Page /\ Nil \notin Page
      /\ Live(page) = ActiveIn(page) \cup RedirectsIn(page)
      /\ ActiveIn(page) \cap RedirectsIn(page) = {}
  BY LivePages
<1>4. Cardinality(RedirectsIn(page)) \in Nat /\ Cardinality(RedirectsIn(page)) <= MaxPages
  <2>1. IsFiniteSet(Page) /\ Cardinality(Page) = MaxPages
    BY FS_Interval, BoundsAssumption DEF Page
  <2>2. RedirectsIn(page) \subseteq Page
    BY DEF RedirectsIn
  <2>3. QED
    BY <2>1, <2>2, FS_Subset, FS_CardinalityType
<1> DEFINE Good(i) == /\ f[i] \in Live(page) /\ d[f[i]] = d[p]
                      /\ f[i] \in RedirectsIn(page) => k[f[i]] + i <= MaxPages
           Bad == {i \in Nat : i <= MaxPages /\ ~Good(i)}
<1>5. Good(0)
  <2>1. p \in RedirectsIn(page) =>
          k[p] \in Nat /\ k[p] <= Cardinality(RedirectsIn(page))
    BY <1>3 DEF Ranked
  <2>2. p \in RedirectsIn(page) => k[p] + 0 <= MaxPages
    BY <1>4, <2>1, BoundsAssumption
  <2>3. QED
    BY <1>2, <2>2
<1>6. ASSUME NEW i \in 0..MaxPages, i # 0, Good(i - 1) PROVE Good(i)
  <2> DEFINE q == f[i - 1]
  <2>1. q \in Live(page) /\ q \in Page /\ f[i] = Onto(q)
    BY <1>2, <1>3, <1>6
  <2>2. CASE q \in RedirectsIn(page)
    <3>1. /\ f[i] = page[q].target /\ f[i] \in Live(page) /\ d[f[i]] = d[q]
          /\ k[f[i]] < k[q] /\ k[q] + (i - 1) <= MaxPages
      BY <1>3, <1>6, <2>1, <2>2 DEF Onto, RedirectsIn, Leads, Ranked
    <3>2. k[f[i]] \in Nat /\ k[q] \in Nat
      BY <1>3, <2>1, <3>1 DEF Ranked
    <3>3. k[f[i]] + i <= MaxPages
      BY <3>1, <3>2, BoundsAssumption
    <3>4. QED
      BY <1>6, <3>1, <3>3
  <2>3. CASE q \notin RedirectsIn(page)
    <3>1. f[i] = q
      BY <2>1, <2>3 DEF Onto, RedirectsIn
    <3>2. QED
      BY <1>6, <2>1, <2>3, <3>1
  <2>4. QED
    BY <2>2, <2>3
<1>7. Bad = {}
  <2> SUFFICES ASSUME Bad # {} PROVE FALSE
    OBVIOUS
  <2>1. PICK m \in Bad : \A i \in Bad : m <= i
    BY LeastExists
  <2>2. m \in Nat /\ m <= MaxPages /\ ~Good(m) /\ m # 0 /\ MaxPages \in Nat
    BY <1>5, BoundsAssumption
  <2> HIDE DEF Good
  <2>3. m \in 0..MaxPages /\ m - 1 \in Nat /\ m - 1 <= MaxPages /\ m - 1 \notin Bad
    BY <2>1, <2>2
  <2>4. Good(m - 1)
    BY <2>3
  <2>5. QED
    BY <1>6, <2>2, <2>3, <2>4
<1>8. Good(MaxPages)
  <2> HIDE DEF Good
  <2>1. QED
    BY <1>7, BoundsAssumption
<1>9. f[MaxPages] \notin RedirectsIn(page)
  <2> SUFFICES ASSUME f[MaxPages] \in RedirectsIn(page) PROVE FALSE
    OBVIOUS
  <2> DEFINE q == f[MaxPages]
  <2>1. q \in Page /\ k[q] \in Nat /\ k[q] + MaxPages <= MaxPages /\ page[q].target \in Page
        /\ k[page[q].target] < k[q]
    BY <1>3, <1>8 DEF Leads, Ranked
  <2>2. k[page[q].target] \in Nat
    BY <2>1 DEF Ranked
  <2>3. QED
    BY <2>1, <2>2, BoundsAssumption
<1>10. QED
  BY <1>1, <1>3, <1>8, <1>9 DEF Leads

-----------------------------------------------------------------------------
(***************************************************************************)
(* Links and redirects lead home.                                          *)
(***************************************************************************)
LEMMA RightLinksFollow == TreeInv /\ LinkInv => RightLinkFindsNeighbour
<1> SUFFICES ASSUME TreeInv, LinkInv, NEW p \in ActivePages, page[p].high # PosInf
             PROVE  /\ page[p].right # Nil
                    /\ Resolve(page[p].right) \in ActivePages
                    /\ page[Resolve(page[p].right)].level = page[p].level
                    /\ page[Resolve(page[p].right)].low = page[p].high
  BY DEF RightLinkFindsNeighbour
<1>1. page \in Pages /\ p \in ActiveIn(page) /\ ActiveIn(page) = ActivePages
  BY DEF TreeInv, IndInv, TreeTyped, Pages, ActivePages, ActiveIn
<1>2. PICK d, k : Linked(page, d) /\ Ranked(page, k)
  BY DEF LinkInv
<1>3. RightLeads(page, d, p)
  BY <1>1, <1>2 DEF Linked, Chained
<1>4. page[p].right \in Live(page) /\ page[p].right # Nil
  BY <1>1, <1>3, LivePages DEF RightLeads
<1>5. Resolve(page[p].right) = d[page[p].right] /\ d[page[p].right] \in ActiveIn(page)
  BY <1>1, <1>2, <1>4, ResolveLeads DEF Linked
<1>6. QED
  BY <1>1, <1>3, <1>4, <1>5 DEF RightLeads

\* Whenever a page ends at a finite fence, its right link and the redirects
\* after it lead to the page of its level that begins there, at every moment
\* of every split, borrow, merge and link repair (the `expect` in Node::route,
\* node.rs).
THEOREM RightLinksLead == Spec => []RightLinkFindsNeighbour
BY RightLinksFollow, LinkInvariance, PTL

LEMMA RedirectsFollow == TreeInv /\ LinkInv => RedirectsEnd
<1> SUFFICES ASSUME TreeInv, LinkInv, NEW p \in Page, page[p].kind = "redirect"
             PROVE  Resolve(p) \in ActivePages
  BY DEF RedirectsEnd
<1>1. page \in Pages /\ p \in Live(page) /\ ActiveIn(page) = ActivePages
  BY DEF TreeInv, IndInv, TreeTyped, Pages, ActivePages, ActiveIn, Live
<1>2. PICK d, k : Linked(page, d) /\ Ranked(page, k)
  BY DEF LinkInv
<1>3. QED
  BY <1>1, <1>2, ResolveLeads DEF Linked

\* Every retired page forwards, through however many pages retired since, to
\* one that is in use (NodeKind::Redirect, node.rs 47-52).
THEOREM RedirectsLeadHome == Spec => []RedirectsEnd
BY RedirectsFollow, LinkInvariance, PTL

-----------------------------------------------------------------------------
(***************************************************************************)
(* The shape that BLinkSafety states.                                      *)
(***************************************************************************)
LEMMA NextIsNext ==
  ASSUME NEW pg, NEW s \in Slot
  PROVE  /\ NextSlot(pg, s) \in Int /\ NextSlot(pg, s) > s
         /\ NextSlot(pg, s) = PosInf \/ NextSlot(pg, s) \in Separators(pg)
         /\ \A x \in Separators(pg) : x > s => NextSlot(pg, s) <= x
<1> DEFINE S == {PosInf} \cup {x \in Separators(pg) : x > s}
<1>1. /\ S \subseteq Nat /\ S # {} /\ PosInf > s
      /\ \A x \in S : x \in Int /\ (x = PosInf \/ x \in Separators(pg))
  BY Numbers, BoundsAssumption DEF Separators, Key, PosInf
<1>2. Min(S) \in S /\ \A y \in S : Min(S) <= y
  BY <1>1, MinIsLeast
<1>3. NextSlot(pg, s) = Min(S)
  BY DEF NextSlot
<1> HIDE DEF S
<1>4. Min(S) > s
  BY <1>1, <1>2 DEF S
<1>5. \A x \in Separators(pg) : x > s => Min(S) <= x
  BY <1>2 DEF S
<1>6. QED
  BY <1>1, <1>2, <1>3, <1>4, <1>5

\* The fences of a child are what its parent says they are.
LEMMA FitsMatch ==
  ASSUME page \in Pages, NEW r, WellFormed(page, r),
         NEW p \in InternalsIn(page), NEW s \in Slots(page[p])
  PROVE  ChildMatches(p, s)
<1> DEFINE c == page[p].kids[s]
           n == NextSlot(page[p], s)
<1>1. /\ c \in ActiveIn(page) /\ page[c].level + 1 = page[p].level
      /\ page[c].low = IF s = NegInf THEN page[p].low ELSE s
      /\ IsNext(page[p], s, page[c].high)
  BY DEF WellFormed, ChildrenFit, Fits
<1>2. p \in Page /\ p \in ActiveIn(page) /\ page[p].kind = "internal"
      /\ c \in Page /\ c # Nil /\ Active(page[c])
  BY <1>1, LivePages DEF InternalsIn, ActiveIn, Active
<1>3. s \in Slot /\ (s = NegInf \/ s \in Separators(page[p]))
  BY SlotNumbers
<1>4. /\ n \in Int /\ n > s /\ (n = PosInf \/ n \in Separators(page[p]))
      /\ \A x \in Separators(page[p]) : x > s => n <= x
  BY <1>3, NextIsNext
<1>5. \A x \in Separators(page[p]) : x \in Key /\ page[p].low < x /\ x < page[p].high
  BY <1>2, SlotNumbers DEF WellFormed, Fenced, Contents
<1>6. page[c].high \in Int /\ page[p].high \in Int
      /\ page[c].level \in Nat /\ page[p].level \in Nat
  BY <1>2, Numbers
<1>7. page[c].high = IF n = PosInf THEN page[p].high ELSE n
  <2>1. CASE n = PosInf
    <3>1. \A x \in Separators(page[p]) : ~(x > s)
      BY <1>4, <1>5, <2>1, Numbers
    <3>2. QED
      BY <1>1, <2>1, <3>1 DEF IsNext
  <2>2. CASE n # PosInf
    <3>1. n \in Separators(page[p]) /\ page[c].high <= n /\ n < page[p].high
      BY <1>1, <1>4, <1>5, <2>2 DEF IsNext
    <3>2. page[c].high \in Separators(page[p]) /\ page[c].high > s
      BY <1>1, <1>4, <1>6, <3>1 DEF IsNext
    <3>3. QED
      BY <1>4, <1>6, <2>2, <3>1, <3>2
  <2>3. QED
    BY <2>1, <2>2
<1>8. page[c].level = page[p].level - 1
  BY <1>1, <1>6
<1>9. QED
  BY <1>1, <1>2, <1>7, <1>8 DEF ChildMatches

\* Each child is in one slot, so there are as many slots as children.
LEMMA ParentsMatch ==
  ASSUME page \in Pages, WellFormed(page, root) PROVE OneParentEach
<1> DEFINE edges == UNION {{<<p, s>> : s \in Slots(page[p])} : p \in Internals}
           C == ActivePages \ {root}
           f == [e \in edges |-> page[e[1]].kids[e[2]]]
<1>1. ActivePages = ActiveIn(page) /\ Internals = InternalsIn(page)
  BY DEF ActivePages, ActiveIn, Internals, InternalsIn
<1>2. \A e \in edges : /\ e = <<e[1], e[2]>>
                       /\ e[1] \in InternalsIn(page) /\ e[2] \in Slots(page[e[1]])
  BY <1>1
<1>3. \A p \in InternalsIn(page) : \A s \in Slots(page[p]) : <<p, s>> \in edges
  BY <1>1
<1>4. \A p \in InternalsIn(page) : \A s \in Slots(page[p]) : page[p].kids[s] \in C
  <2> TAKE p \in InternalsIn(page)
  <2> TAKE s \in Slots(page[p])
  <2> DEFINE c == page[p].kids[s]
  <2>1. Fits(page, p, s)
    BY DEF WellFormed, ChildrenFit
  <2>2. c \in ActiveIn(page) /\ page[c].level + 1 = page[p].level
    BY <2>1 DEF Fits
  <2>3. p \in ActiveIn(page) /\ p \in Page /\ c \in Page
    BY <2>2 DEF InternalsIn, ActiveIn, Active
  <2>4. page[p].level <= page[root].level
    <3>1. p # root => page[p].level < page[root].level
      BY <2>3 DEF WellFormed, Levelled
    <3>2. root \in Page
      BY DEF WellFormed, RootSpans, ActiveIn
    <3>3. QED
      BY <2>3, <3>1, <3>2, Numbers
  <2>5. c # root
    BY <2>2, <2>3, <2>4, Numbers
  <2>6. QED
    BY <1>1, <2>2, <2>5
<1>5. \A c \in C : \E p \in InternalsIn(page) : \E s \in Slots(page[p]) :
        page[p].kids[s] = c
  BY <1>1 DEF WellFormed, Parented
<1> HIDE DEF edges, C
<1>6. \A e \in edges : page[e[1]].kids[e[2]] \in C
  BY <1>2, <1>4
<1>7. {page[e[1]].kids[e[2]] : e \in edges} = C
  <2>1. \A c \in C : \E e \in edges : page[e[1]].kids[e[2]] = c
    <3> TAKE c \in C
    <3>1. PICK p \in InternalsIn(page) : \E s \in Slots(page[p]) : page[p].kids[s] = c
      BY <1>5
    <3>2. PICK s \in Slots(page[p]) : page[p].kids[s] = c
      BY <3>1
    <3>3. <<p, s>> \in edges
      BY <1>3
    <3>4. QED
      BY <3>2, <3>3
  <2>2. QED
    BY <1>6, <2>1
<1>8. \A e, g \in edges : page[e[1]].kids[e[2]] = page[g[1]].kids[g[2]] => e = g
  <2> SUFFICES ASSUME NEW e \in edges, NEW g \in edges,
                      page[e[1]].kids[e[2]] = page[g[1]].kids[g[2]]
               PROVE  e = g
    OBVIOUS
  <2>1. /\ e[1] \in InternalsIn(page) /\ e[2] \in Slots(page[e[1]])
        /\ g[1] \in InternalsIn(page) /\ g[2] \in Slots(page[g[1]])
    BY <1>2
  <2>2. e[1] = g[1] /\ e[2] = g[2]
    BY <2>1, OneSlotEach
  <2>3. e = <<e[1], e[2]>> /\ g = <<g[1], g[2]>>
    BY <1>2
  <2>4. QED
    BY <2>2, <2>3
<1>9. f \in [edges -> C] /\ \A e \in edges : f[e] = page[e[1]].kids[e[2]]
  BY <1>6
<1>10. f \in Injection(edges, C)
  BY <1>8, <1>9 DEF Injection, IsInjective
<1>11. f \in Surjection(edges, C)
  BY <1>7, <1>9 DEF Surjection
<1>12. IsFiniteSet(ActivePages) /\ Cardinality(ActivePages) \in Nat
  <2>1. IsFiniteSet(Page) /\ ActivePages \subseteq Page
    BY FS_Interval, BoundsAssumption DEF Page, ActivePages
  <2>2. QED
    BY <2>1, FS_Subset, FS_CardinalityType
<1>13. IsFiniteSet(C) /\ Cardinality(C) = Cardinality(ActivePages) - 1
  <2>1. root \in ActivePages
    BY <1>1 DEF WellFormed, RootSpans
  <2>2. QED
    BY <1>12, <2>1, FS_RemoveElement DEF C
<1> HIDE DEF f
<1>14. Cardinality(edges) = Cardinality(C)
  BY <1>10, <1>11, <1>13, FS_Injection
<1>15. QED
  BY <1>7, <1>13, <1>14 DEF OneParentEach, edges, C

LEMMA ShapeFollows == TreeInv /\ LinkInv => TreeShape
<1> SUFFICES ASSUME TreeInv, LinkInv PROVE TreeShape
  OBVIOUS
<1>1. /\ page \in Pages /\ WellFormed(page, root)
      /\ ActivePages = ActiveIn(page) /\ Internals = InternalsIn(page)
  BY DEF TreeInv, IndInv, TreeTyped, Pages, ActivePages, ActiveIn, Internals,
         InternalsIn
<1>2. RootCoversAllKeys
  <2>1. /\ root \in ActiveIn(page) /\ page[root].low = NegInf
        /\ page[root].high = PosInf /\ \A p \in Page : page[p].isRoot <=> p = root
    BY <1>1 DEF WellFormed, RootSpans
  <2>2. PICK d, k : Linked(page, d) /\ Ranked(page, k)
    BY DEF LinkInv
  <2>3. page[root].right = Nil /\ page[root].prev = Nil
    BY <2>1, <2>2 DEF Linked, Chained, RightLeads, Backed
  <2>4. QED
    BY <2>1, <2>3 DEF RootCoversAllKeys, ActiveIn
<1>3. ChildrenMatchParents
  <2> SUFFICES ASSUME NEW p \in InternalsIn(page)
               PROVE  /\ page[p].level > 0
                      /\ \A s \in Slots(page[p]) : ChildMatches(p, s)
    BY <1>1 DEF ChildrenMatchParents
  <2>1. p \in Page /\ p \in ActiveIn(page) /\ page[p].kind = "internal"
    BY DEF InternalsIn, ActiveIn, Active
  <2>2. page[p].level # 0 /\ page[p].level \in Nat
    BY <1>1, <2>1, Numbers DEF WellFormed, Levelled
  <2>3. QED
    BY <1>1, <2>2, FitsMatch
<1>4. OneParentEach
  BY <1>1, ParentsMatch
<1>5. ContentsWithinFences
  BY <1>1 DEF WellFormed, Fenced, ContentsWithinFences
<1>6. QED
  BY <1>2, <1>3, <1>4, <1>5 DEF TreeShape

\* Between any two critical sections the tree is a well-formed b-link tree: the
\* root covers every key, the children of a page cover its range without gap or
\* overlap one level down, every other page in use is the child in one slot of
\* one parent, and contents lie within fences (Tree::validate, node.rs, which
\* the code runs at rest only).
THEOREM ShapeHolds == Spec => []TreeShape
BY ShapeFollows, LinkInvariance, PTL

-----------------------------------------------------------------------------
(***************************************************************************)
(* Which fields of a page are in use.                                      *)
(***************************************************************************)
\* Only an internal page has children, only a retired page forwards, and a page
\* not allocated yet points nowhere.
Plain(pg) == /\ pg.kind # "redirect" => pg.target = Nil
             /\ pg.kind # "internal" => \A s \in Slot : pg.kids[s] = Nil
             /\ pg.kind = "free"     => pg.right = Nil

AllPlain(P) == \A p \in Page : Plain(P[p])

LEMMA NewPagesPlain ==
  ASSUME NEW left, NEW right, NEW sep, NEW lvl
  PROVE  Plain(FreePage) /\ Plain(LeafRoot) /\ Plain(RootFromSplit(left, sep, right, lvl))
<1>1. \A s \in Slot : NoKids[s] = Nil
  BY DEF NoKids
<1>2. QED
  BY <1>1 DEF Plain, FreePage, LeafRoot, RootFromSplit

LEMMA SplitPlain ==
  ASSUME NEW pg \in PageRec, Plain(pg), Active(pg), NEW sep \in Key, NEW p
  PROVE  /\ Plain(SplitLower(pg, sep, p)) /\ Plain(SplitUpper(pg, sep, p))
         /\ Plain([SplitLower(pg, sep, p) EXCEPT !.isRoot = FALSE])
<1>1. sep \in Slot /\ NegInf \in Slot
  BY ConstantFields
<1>2. /\ SplitLower(pg, sep, p).kind = pg.kind /\ SplitLower(pg, sep, p).target = pg.target
      /\ \A s \in Slot : SplitLower(pg, sep, p).kids[s] \in {pg.kids[s], Nil}
  BY DEF SplitLower, PageRec
<1>3. /\ SplitUpper(pg, sep, p).kind = pg.kind /\ SplitUpper(pg, sep, p).target = pg.target
      /\ \A s \in Slot : SplitUpper(pg, sep, p).kids[s] \in {pg.kids[s], pg.kids[sep], Nil}
  BY <1>1 DEF SplitUpper, PageRec
<1>4. QED
  BY <1>1, <1>2, <1>3 DEF Plain, Active, SplitLower, PageRec

\* A parent that learns, forgets or moves a separator stays an internal page.
LEMMA ParentPlain ==
  ASSUME NEW pg \in PageRec, Plain(pg), pg.kind = "internal",
         NEW s, NEW p, NEW b
  PROVE  /\ Plain(InstallSplit(pg, s, p)) /\ Plain(DropMerged(pg, s))
         /\ Plain(MoveBoundary(pg, s, b))
BY DEF Plain, InstallSplit, DropMerged, MoveBoundary, PageRec

\* Two siblings of one kind exchange an entry.
LEMMA BorrowPlain ==
  ASSUME NEW left \in PageRec, NEW right \in PageRec, Plain(left), Plain(right),
         left.kind = right.kind, Active(left), NEW sep \in Key, NEW b \in Key
  PROVE  /\ Plain(LentLast(left, b)) /\ Plain(TookLast(left, right, sep, b))
         /\ Plain(TookFirst(left, right, sep, b)) /\ Plain(LentFirst(right, b))
<1>1. sep \in Slot /\ b \in Slot /\ NegInf \in Slot
  BY ConstantFields
<1>2. /\ LentLast(left, b).kind = left.kind /\ LentLast(left, b).target = left.target
      /\ \A s \in Slot : LentLast(left, b).kids[s] \in {left.kids[s], Nil}
  BY <1>1 DEF LentLast, PageRec
<1>3. /\ TookLast(left, right, sep, b).kind = right.kind
      /\ TookLast(left, right, sep, b).target = right.target
      /\ \A s \in Slot : TookLast(left, right, sep, b).kids[s]
                           \in {right.kids[s], right.kids[NegInf], left.kids[b]}
  BY <1>1 DEF TookLast, PageRec
<1>4. /\ TookFirst(left, right, sep, b).kind = left.kind
      /\ TookFirst(left, right, sep, b).target = left.target
      /\ \A s \in Slot : TookFirst(left, right, sep, b).kids[s]
                           \in {left.kids[s], right.kids[NegInf]}
  BY <1>1 DEF TookFirst, PageRec
<1>5. /\ LentFirst(right, b).kind = right.kind /\ LentFirst(right, b).target = right.target
      /\ \A s \in Slot : LentFirst(right, b).kids[s] \in {right.kids[s], right.kids[b], Nil}
  BY <1>1 DEF LentFirst, PageRec
<1>6. left.kind \notin {"free", "redirect"}
  BY DEF Active
<1>7. left.target = Nil /\ right.target = Nil
  BY <1>6 DEF Plain
<1>8. left.kind # "internal" => \A s \in Slot : left.kids[s] = Nil /\ right.kids[s] = Nil
  BY DEF Plain
<1>9. QED
  BY <1>1, <1>2, <1>3, <1>4, <1>5, <1>6, <1>7, <1>8 DEF Plain

LEMMA MergePlain ==
  ASSUME NEW left \in PageRec, NEW right \in PageRec, Plain(left), Plain(right),
         left.kind = right.kind, Active(left), NEW sep \in Key, NEW p
  PROVE  Plain(Retired(left, p)) /\ Plain(Survivor(left, right, sep))
<1>1. NegInf \in Slot /\ \A s \in Slot : NoKids[s] = Nil
  BY ConstantFields DEF NoKids
<1>2. /\ Survivor(left, right, sep).kind = right.kind
      /\ Survivor(left, right, sep).target = right.target
      /\ \A s \in Slot : Survivor(left, right, sep).kids[s]
                           \in {left.kids[s], right.kids[s], right.kids[NegInf]}
  BY DEF Survivor, PageRec
<1>3. QED
  BY <1>1, <1>2 DEF Plain, Active, Retired, PageRec

LEMMA CollapsePlain ==
  ASSUME NEW pg \in PageRec, Plain(pg), Active(pg), NEW p
  PROVE  Plain(PromotedChild(pg)) /\ Plain(CollapsedRoot(pg, p))
<1>1. \A s \in Slot : NoKids[s] = Nil
  BY DEF NoKids
<1>2. QED
  BY <1>1 DEF Plain, PromotedChild, CollapsedRoot, PageRec, Active

LEMMA SplitChildPlain ==
  ASSUME IndInv, WellFormed(page, root), AllPlain(page), NEW t \in Thread, SplitChild(t)
  PROVE  AllPlain(page')
<1> DEFINE p   == node[t]
           c   == ChildOf(t)
           sep == SplitKey(page[c])
           b   == FirstNew
<1>1. page \in Pages /\ page' \in Pages
  BY StepTyped DEF IndInv, TreeTyped, Pages, Step, Insert
<1>2. PICK s : ChildSplits(page, page', p, s, sep, c, c, b)
  BY SplitChildSplits
<1>3. page' = [page EXCEPT ![c] = SplitLower(page[c], sep, b),
                           ![b] = SplitUpper(page[c], sep, c),
                           ![p] = InstallSplit(page[p], sep, b)]
  BY DEF SplitChild
<1>4. page[p].kind = "internal" /\ p \in Page
  BY DEF SplitChild, InsertDescends, Attempts, WriteFree
<1> HIDE DEF p, c, sep, b
<1>5. c \in Page /\ Active(page[c]) /\ sep \in Key
  BY <1>1, <1>2, SplitFacts DEF ActiveIn
<1>6. page[c] \in PageRec /\ page[p] \in PageRec /\ Plain(page[c]) /\ Plain(page[p])
  BY <1>1, <1>4, <1>5 DEF Pages, SoundPage, AllPlain
<1>7. /\ Plain(SplitLower(page[c], sep, b)) /\ Plain(SplitUpper(page[c], sep, c))
      /\ Plain(InstallSplit(page[p], sep, b))
  BY <1>4, <1>5, <1>6, SplitPlain, ParentPlain
<1>8. \A x \in Page : page'[x] \in {page[x], SplitLower(page[c], sep, b),
                                    SplitUpper(page[c], sep, c),
                                    InstallSplit(page[p], sep, b)}
  BY <1>1, <1>3 DEF Pages
<1>9. QED
  BY <1>7, <1>8 DEF AllPlain

LEMMA SplitRootPlain ==
  ASSUME IndInv, WellFormed(page, root), AllPlain(page), NEW t \in Thread, SplitRoot(t)
  PROVE  AllPlain(page')
<1>1. CASE ~Full(page[root])
  BY <1>1 DEF SplitRoot
<1>2. CASE Full(page[root])
  <2> DEFINE c     == root
             sep   == SplitKey(page[c])
             b     == FirstNew
             n     == SecondNew
             lower == [SplitLower(page[c], sep, b) EXCEPT !.isRoot = FALSE]
             upper == SplitUpper(page[c], sep, c)
             top   == RootFromSplit(c, sep, b, page[c].level + 1)
  <2>1. page \in Pages
    BY DEF IndInv, TreeTyped, Pages
  <2>2. page' = [page EXCEPT ![c] = lower, ![b] = upper, ![n] = top]
    BY <1>2 DEF SplitRoot
  <2>3. c \in Page /\ c \in ActiveIn(page) /\ Active(page[c])
    BY DEF WellFormed, RootSpans, ActiveIn
  <2>4. sep \in Key
    BY <1>2, <2>1, <2>3, SplitKeyInside
  <2> HIDE DEF c, sep, b, n
  <2>5. page[c] \in PageRec /\ Plain(page[c])
    BY <2>1, <2>3 DEF Pages, SoundPage, AllPlain
  <2>6. Plain(lower) /\ Plain(upper) /\ Plain(top)
    BY <2>3, <2>4, <2>5, SplitPlain, NewPagesPlain
  <2>7. \A x \in Page : page'[x] \in {page[x], lower, upper, top}
    BY <2>1, <2>2 DEF Pages
  <2>8. QED
    BY <2>6, <2>7 DEF AllPlain
<1>3. QED
  BY <1>1, <1>2

LEMMA PairPlain ==
  ASSUME IndInv, WellFormed(page, root), AllPlain(page), NEW t \in Thread,
         BorrowFromLeft(t) \/ BorrowFromRight(t) \/ Merge(t)
  PROVE  AllPlain(page')
<1> DEFINE p   == node[t]
           sep == Sep(t)
           l   == LeftOf(t)
           h   == RightOf(t)
           PlainAll(a, b, c) == Plain(a) /\ Plain(b) /\ Plain(c)
<1>1. page \in Pages
  BY DEF IndInv, TreeTyped, Pages
<1>2. /\ p \in InternalsIn(page) /\ sep \in Separators(page[p])
      /\ l = page[p].kids[PrevSlot(page[p], sep)] /\ h = page[p].kids[sep]
  BY RemovePlace DEF BorrowFromLeft, BorrowFromRight, Merge, LeftOf, RightOf
<1>3. \/ \E b : /\ b = LendLastBoundary(page[l]) /\ ~AtMinimum(page[l])
                /\ page' = [page EXCEPT ![l] = LentLast(page[l], b),
                                        ![h] = TookLast(page[l], page[h], sep, b),
                                        ![p] = MoveBoundary(page[p], sep, b)]
      \/ \E b : /\ b = LendFirstBoundary(page[h]) /\ ~AtMinimum(page[h])
                /\ page' = [page EXCEPT ![l] = TookFirst(page[l], page[h], sep, b),
                                        ![h] = LentFirst(page[h], b),
                                        ![p] = MoveBoundary(page[p], sep, b)]
      \/ page' = [page EXCEPT ![l] = Retired(page[l], h),
                              ![h] = Survivor(page[l], page[h], sep),
                              ![p] = DropMerged(page[p], sep)]
  BY DEF BorrowFromLeft, BorrowFromRight, Merge
<1> HIDE DEF p, sep, l, h
<1>4. /\ l \in ActiveIn(page) /\ h \in ActiveIn(page) /\ sep \in Key
      /\ page[l].kind = page[h].kind /\ Active(page[l])
  BY <1>1, <1>2, BorrowPair DEF ActiveIn
<1>5. /\ l \in Page /\ h \in Page /\ p \in Page /\ page[p].kind = "internal"
      /\ page[l] \in PageRec /\ page[h] \in PageRec /\ page[p] \in PageRec
      /\ Plain(page[l]) /\ Plain(page[h]) /\ Plain(page[p])
  BY <1>1, <1>2, <1>4 DEF ActiveIn, InternalsIn, Pages, SoundPage, AllPlain
<1>6. ASSUME NEW a, NEW b, NEW c, PlainAll(a, b, c),
             page' = [page EXCEPT ![l] = a, ![h] = b, ![p] = c]
      PROVE  AllPlain(page')
  <2>1. \A x \in Page : page'[x] \in {page[x], a, b, c}
    BY <1>1, <1>6 DEF Pages
  <2>2. QED
    BY <1>6, <2>1 DEF AllPlain
<1>7. ASSUME NEW b, b = LendLastBoundary(page[l]), ~AtMinimum(page[l]),
             page' = [page EXCEPT ![l] = LentLast(page[l], b),
                                  ![h] = TookLast(page[l], page[h], sep, b),
                                  ![p] = MoveBoundary(page[p], sep, b)]
      PROVE  AllPlain(page')
  <2>1. b \in Key
    BY <1>1, <1>4, <1>7, LendLastInside
  <2>2. PlainAll(LentLast(page[l], b), TookLast(page[l], page[h], sep, b),
                 MoveBoundary(page[p], sep, b))
    BY <1>4, <1>5, <2>1, BorrowPlain, ParentPlain
  <2>3. QED
    BY <1>6, <1>7, <2>2
<1>8. ASSUME NEW b, b = LendFirstBoundary(page[h]), ~AtMinimum(page[h]),
             page' = [page EXCEPT ![l] = TookFirst(page[l], page[h], sep, b),
                                  ![h] = LentFirst(page[h], b),
                                  ![p] = MoveBoundary(page[p], sep, b)]
      PROVE  AllPlain(page')
  <2>1. b \in Key
    BY <1>1, <1>4, <1>8, LendFirstInside
  <2>2. PlainAll(TookFirst(page[l], page[h], sep, b), LentFirst(page[h], b),
                 MoveBoundary(page[p], sep, b))
    BY <1>4, <1>5, <2>1, BorrowPlain, ParentPlain
  <2>3. QED
    BY <1>6, <1>8, <2>2
<1>9. ASSUME page' = [page EXCEPT ![l] = Retired(page[l], h),
                                  ![h] = Survivor(page[l], page[h], sep),
                                  ![p] = DropMerged(page[p], sep)]
      PROVE  AllPlain(page')
  <2>1. PlainAll(Retired(page[l], h), Survivor(page[l], page[h], sep),
                 DropMerged(page[p], sep))
    BY <1>4, <1>5, MergePlain, ParentPlain
  <2>2. QED
    BY <1>6, <1>9, <2>1
<1>10. QED
  BY <1>3, <1>7, <1>8, <1>9

LEMMA ShrinkPlain ==
  ASSUME IndInv, WellFormed(page, root), AllPlain(page), NEW t \in Thread, Shrink(t)
  PROVE  AllPlain(page')
<1> DEFINE l     == root
           h     == page[root].kids[NegInf]
           empty == page[root].kind = "internal" /\ Separators(page[root]) = {}
<1>1. page \in Pages
  BY DEF IndInv, TreeTyped, Pages
<1>2. CASE empty
  <2>1. /\ h \in Page
        /\ page' = [page EXCEPT ![h] = PromotedChild(page[h]),
                                ![l] = CollapsedRoot(page[l], h)]
    BY <1>2 DEF Shrink, WriteFree
  <2>2. l \in ActiveIn(page) /\ l \in Page
    BY DEF WellFormed, RootSpans, ActiveIn
  <2>3. Fits(page, l, NegInf)
    BY <1>2, <2>2, SlotNumbers DEF WellFormed, ChildrenFit, InternalsIn
  <2>4. Active(page[h]) /\ Active(page[l])
    BY <2>2, <2>3 DEF Fits, ActiveIn
  <2> HIDE DEF l, h
  <2>5. /\ page[h] \in PageRec /\ page[l] \in PageRec
        /\ Plain(page[h]) /\ Plain(page[l])
    BY <1>1, <2>1, <2>2 DEF Pages, SoundPage, AllPlain
  <2>6. Plain(PromotedChild(page[h])) /\ Plain(CollapsedRoot(page[l], h))
    <3>1. Plain(PromotedChild(page[h]))
      BY <2>4, <2>5, CollapsePlain
    <3>2. Plain(CollapsedRoot(page[l], h))
      BY <2>4, <2>5, CollapsePlain
    <3>3. QED
      BY <3>1, <3>2
  <2>7. \A x \in Page : page'[x] \in {page[x], PromotedChild(page[h]),
                                      CollapsedRoot(page[l], h)}
    BY <1>1, <2>1 DEF Pages
  <2>8. QED
    BY <2>6, <2>7 DEF AllPlain
<1>3. CASE ~empty
  BY <1>3 DEF Shrink
<1>4. QED
  BY <1>2, <1>3

LEMMA RecordPlain ==
  ASSUME IndInv, AllPlain(page), NEW t \in Thread,
         DropGuard(t) \/ FastInsert(t) \/ InsertHere(t) \/ FastRemove(t)
           \/ RemoveHere(t)
  PROVE  AllPlain(page')
<1>1. page \in Pages /\ \A x \in Page : page[x] \in PageRec
  BY DEF IndInv, TreeTyped, Pages, SoundPage
<1>2. ASSUME NEW v, page' = [page EXCEPT ![node[t]].recs[call[t].key] = v]
      PROVE  AllPlain(page')
  <2>1. \A x \in Page : /\ page'[x].kind = page[x].kind /\ page'[x].target = page[x].target
                        /\ page'[x].kids = page[x].kids /\ page'[x].right = page[x].right
    BY <1>1, <1>2 DEF Pages, PageRec
  <2>2. QED
    BY <2>1 DEF AllPlain, Plain
<1>3. QED
  BY <1>2, RecordWritten

\* A repair sets the right link of a page in use only.
LEMMA RelinkPlain ==
  ASSUME IndInv, AllPlain(page), NEW d, NEW t \in Thread, Sees(t, d),
         FixSuccessor(t) \/ FixNone(t) \/ WalkOn(t) \/ Peek(t) \/ Join(t)
  PROVE  AllPlain(page')
<1> DEFINE cur == fix[t].cursor
<1>1. page \in Pages /\ \A x \in Page : page[x] \in PageRec
  BY DEF IndInv, TreeTyped, Pages, SoundPage
<1>2. \/ page' = page
      \/ cur \in Live(page) /\ \E q : page' = [page EXCEPT ![cur].right = q]
      \/ \E p, q : page' = [page EXCEPT ![p].prev = q]
  <2>1. ActiveIn(page) \subseteq Live(page)
    BY DEF ActiveIn, Active, Live
  <2>2. CASE FixSuccessor(t)
    BY <2>1, <2>2 DEF FixSuccessor, Sees, Repairing
  <2>3. CASE FixNone(t)
    BY <2>3 DEF FixNone
  <2>4. CASE WalkOn(t)
    <3>1. cur \in Live(page)
      BY <2>4, ConstantFields DEF WalkOn, WriteFree, Sees, MergeFix, Known
    <3>2. QED
      BY <2>4, <3>1 DEF WalkOn
  <2>5. CASE Peek(t)
    BY <2>1, <2>5 DEF Peek, Sees, Repairing
  <2>6. CASE Join(t)
    BY <2>1, <2>6 DEF Join, Sees, Repairing
  <2>7. QED
    BY <2>2, <2>3, <2>4, <2>5, <2>6
<1> HIDE DEF cur
<1>3. ASSUME cur \in Live(page), NEW q, page' = [page EXCEPT ![cur].right = q]
      PROVE  AllPlain(page')
  <2>1. \A x \in Page : /\ page'[x].kind = page[x].kind /\ page'[x].target = page[x].target
                        /\ page'[x].kids = page[x].kids
                        /\ x # cur => page'[x].right = page[x].right
    BY <1>1, <1>3 DEF Pages, PageRec
  <2>2. QED
    BY <1>3, <2>1 DEF AllPlain, Plain, Live
<1>4. ASSUME NEW p, NEW q, page' = [page EXCEPT ![p].prev = q] PROVE AllPlain(page')
  <2>1. \A x \in Page : /\ page'[x].kind = page[x].kind /\ page'[x].target = page[x].target
                        /\ page'[x].kids = page[x].kids /\ page'[x].right = page[x].right
    BY <1>1, <1>4 DEF Pages, PageRec
  <2>2. QED
    BY <2>1 DEF AllPlain, Plain
<1>5. QED
  BY <1>2, <1>3, <1>4

LEMMA NextPlain == TreeInv /\ LinkInv /\ AllPlain(page) /\ [Next]_vars => AllPlain(page)'
<1> SUFFICES ASSUME TreeInv, LinkInv, AllPlain(page), [Next]_vars PROVE AllPlain(page')
  OBVIOUS
<1>1. IndInv /\ WellFormed(page, root)
  BY DEF TreeInv
<1>2. CASE UNCHANGED vars
  BY <1>2 DEF vars, tree
<1>3. ASSUME NEW t \in Thread, Start(t) \/ Step(t) PROVE AllPlain(page')
  <2>1. PICK d : Sees(t, d)
    BY DEF LinkInv
  <2>2. CASE DropGuard(t) \/ FastInsert(t) \/ InsertHere(t) \/ FastRemove(t)
               \/ RemoveHere(t)
    BY <1>1, <2>2, RecordPlain
  <2>3. CASE SplitRoot(t) \/ SplitChild(t) \/ Shrink(t)
    BY <1>1, <2>3, SplitRootPlain, SplitChildPlain, ShrinkPlain
  <2>4. CASE BorrowFromLeft(t) \/ BorrowFromRight(t) \/ Merge(t)
    BY <1>1, <2>4, PairPlain
  <2>5. CASE FixSuccessor(t) \/ FixNone(t) \/ WalkOn(t) \/ Peek(t) \/ Join(t)
    BY <1>1, <2>1, <2>5, RelinkPlain
  <2>6. CASE UNCHANGED <<page, root>>
    BY <2>6
  <2>7. QED
    BY <1>3, <2>2, <2>3, <2>4, <2>5, <2>6, StepKinds
<1>4. QED
  BY <1>2, <1>3 DEF Next, Terminated

LEMMA NewPlain == ASSUME NEW P, NEW r, Fresh(P, r) PROVE AllPlain(P)
BY NewPagesPlain DEF Fresh, AllPlain

LEMMA PlainInvariance == Spec => [](TreeInv /\ LinkInv /\ AllPlain(page))
<1>1. Init => AllPlain(page)
  <2>1. Init => Fresh(page, 1)
    BY DEF Init, Fresh
  <2>2. QED
    BY <2>1, NewPlain
<1>2. QED
  BY <1>1, InitTreeInv, NextTreeInv, InitLinks, NextLinkInv, NextPlain, PTL DEF Spec

-----------------------------------------------------------------------------
(***************************************************************************)
(* Strong references close no cycle.                                       *)
(***************************************************************************)
\* What a page in use points to: itself when retired, to pages that lead where
\* it leads, by fewer steps; when active, to a page one level down or to one
\* that leads further right in its level.
Descends(d, w, p, q) ==
  \/ d[q] = d[p] /\ w[q] < w[p]
  \/ page[d[q]].level < page[d[p]].level
  \/ page[d[q]].level = page[d[p]].level /\ page[d[p]].low < page[d[q]].low

LEMMA ReferencesDescend ==
  ASSUME page \in Pages, WellFormed(page, root), AllPlain(page),
         NEW d, Leads(page, d), Chained(page, d), NEW w,
         \A p \in RedirectsIn(page) :
           /\ Precedes(page, d, w, p, page[p].target)
           /\ page[p].right # Nil => Precedes(page, d, w, p, page[p].right),
         NEW p \in Live(page), NEW q \in PointsTo(p), q # Nil
  PROVE  q \in Live(page) /\ Descends(d, w, p, q)
<1>1. p \in Page /\ Plain(page[p])
  BY DEF Live, AllPlain
<1>2. \/ q = page[p].right \/ q = page[p].target
      \/ \E s \in Slot : q = page[p].kids[s]
  BY DEF PointsTo
<1>3. CASE p \in RedirectsIn(page)
  <2>1. q = page[p].right \/ q = page[p].target
    BY <1>1, <1>2, <1>3 DEF Plain, RedirectsIn
  <2>2. Precedes(page, d, w, p, q)
    BY <1>3, <2>1
  <2>3. QED
    BY <2>2 DEF Precedes, Descends
<1>4. CASE p \in ActiveIn(page)
  <2>1. d[p] = p /\ page[p].target = Nil
    BY <1>1, <1>4 DEF Leads, Plain, ActiveIn, Active
  <2>2. CASE q = page[p].right
    <3>1. RightLeads(page, d, p)
      BY <1>4 DEF Chained
    <3>2. /\ q \in Live(page) /\ page[d[q]].level = page[p].level
          /\ page[d[q]].low = page[p].high
      BY <2>2, <3>1 DEF RightLeads
    <3>3. page[p].low < page[p].high
      BY <1>4 DEF WellFormed, Fenced
    <3>4. QED
      BY <2>1, <3>2, <3>3 DEF Descends
  <2>3. ASSUME NEW s \in Slot, q = page[p].kids[s]
        PROVE  q \in Live(page) /\ Descends(d, w, p, q)
    <3>1. p \in InternalsIn(page) /\ s \in Slots(page[p])
      BY <1>1, <2>3, Numbers, SlotNumbers DEF Plain, InternalsIn
    <3>2. Fits(page, p, s)
      BY <3>1 DEF WellFormed, ChildrenFit
    <3>3. q \in ActiveIn(page) /\ page[q].level + 1 = page[p].level
      BY <2>3, <3>2 DEF Fits
    <3>4. d[q] = q /\ q \in Live(page) /\ q \in Page
      BY <3>3, LivePages DEF Leads
    <3>5. page[q].level \in Nat
      BY <3>4, Numbers
    <3>6. QED
      BY <2>1, <3>3, <3>4, <3>5 DEF Descends
  <2>4. QED
    BY <1>2, <2>1, <2>2, <2>3
<1>5. QED
  BY <1>3, <1>4, LivePages

\* Some page of any set of pages points to no page of the set: one not in use,
\* or one that no reference within the set descends from.
LEMMA SomePageLeadsOut ==
  ASSUME TreeInv, LinkInv, AllPlain(page), NEW S, S \subseteq Page, S # {}
  PROVE  \E p \in S : PointsTo(p) \cap S = {}
<1>1. page \in Pages /\ WellFormed(page, root)
  BY DEF TreeInv, IndInv, TreeTyped, Pages
<1>2. Nil \notin Page
  BY ConstantFields
<1>3. ASSUME NEW p \in S, page[p].kind = "free" PROVE PointsTo(p) \cap S = {}
  <2>1. Plain(page[p])
    BY <1>3 DEF AllPlain
  <2>2. \A q \in PointsTo(p) : q = Nil
    BY <1>3, <2>1 DEF Plain, PointsTo
  <2>3. QED
    BY <1>2, <2>2
<1>4. ASSUME S \subseteq Live(page) PROVE \E p \in S : PointsTo(p) \cap S = {}
  <2>1. PICK d, w : /\ Leads(page, d) /\ Chained(page, d) /\ w \in [Page -> Nat]
                    /\ \A p \in RedirectsIn(page) :
                         /\ Precedes(page, d, w, p, page[p].target)
                         /\ page[p].right # Nil => Precedes(page, d, w, p, page[p].right)
    BY DEF LinkInv, Linked, Ordered
  <2>2. \A p \in S : /\ d[p] \in Page /\ page[d[p]].level \in Nat
                     /\ page[d[p]].low \in 0..MaxKey /\ w[p] \in Nat
    BY <1>1, <1>4, <2>1, LeadsToActive, Numbers DEF Slot
  <2> DEFINE Levels == {page[d[p]].level : p \in S}
  <2>3. PICK m \in Levels : \A x \in Levels : m <= x
    BY <2>2, LeastExists
  <2> DEFINE Lowest == {p \in S : page[d[p]].level = m}
             Lows   == {page[d[p]].low : p \in Lowest}
  <2>4. MaxKey \in Nat /\ Lows \subseteq 0..MaxKey /\ Lows # {}
    BY <2>2, <2>3, BoundsAssumption
  <2>5. PICK h \in Lows : \A x \in Lows : h >= x
    BY <2>4, GreatestExists
  <2> DEFINE Last == {p \in Lowest : page[d[p]].low = h}
             Ws   == {w[p] : p \in Last}
  <2>6. Ws \subseteq Nat /\ Ws # {}
    BY <2>2, <2>5
  <2>7. PICK n \in Ws : \A x \in Ws : n <= x
    BY <2>6, LeastExists
  <2>8. PICK p \in Last : w[p] = n
    BY <2>7
  <2>9. p \in S /\ page[d[p]].level = m /\ page[d[p]].low = h
    BY <2>8
  <2>10. ASSUME NEW q \in S, Descends(d, w, p, q) PROVE FALSE
    <3>1. /\ page[d[q]].level \in Nat /\ page[d[q]].low \in Int /\ w[q] \in Nat
          /\ page[d[p]].level \in Nat /\ page[d[p]].low \in Int /\ w[p] \in Nat
      BY <2>2, <2>9
    <3>2. m <= page[d[q]].level
      BY <2>3
    <3>3. page[d[q]].level = m => h >= page[d[q]].low
      BY <2>5
    <3>4. page[d[q]].level = m /\ page[d[q]].low = h => n <= w[q]
      BY <2>7
    <3>5. CASE d[q] = d[p] /\ w[q] < w[p]
      BY <2>8, <2>9, <3>1, <3>4, <3>5
    <3>6. CASE page[d[q]].level < page[d[p]].level
      BY <2>9, <3>1, <3>2, <3>6
    <3>7. CASE page[d[q]].level = page[d[p]].level /\ page[d[p]].low < page[d[q]].low
      BY <2>9, <3>1, <3>3, <3>7
    <3>8. QED
      BY <2>10, <3>5, <3>6, <3>7 DEF Descends
  <2>11. \A q \in PointsTo(p) \cap S : Descends(d, w, p, q)
    BY <1>1, <1>2, <1>4, <2>1, <2>9, ReferencesDescend
  <2>12. QED
    BY <2>9, <2>10, <2>11
<1>5. QED
  BY <1>3, <1>4 DEF Live

\* One round of Cyclic, and its rounds.
Strip(S)     == {p \in S : PointsTo(p) \cap S # {}}
Rounds(f, n) == f = [i \in 0..n |-> IF i = 0 THEN Page ELSE Strip(f[i - 1])]

LEMMA RoundsExist == ASSUME NEW n \in Nat PROVE \E f : Rounds(f, n)
<1> DEFINE Missing == {i \in Nat : ~\E f : Rounds(f, i)}
<1> SUFFICES ASSUME Missing # {} PROVE FALSE
  OBVIOUS
<1>1. PICK m \in Missing : \A i \in Missing : m <= i
  BY LeastExists
<1>2. m \in Nat /\ ~\E f : Rounds(f, m)
  OBVIOUS
<1>3. m # 0
  <2>1. Rounds([i \in 0..0 |-> Page], 0)
    BY DEF Rounds
  <2>2. QED
    BY <1>2, <2>1
<1>4. m - 1 \in Nat /\ m - 1 \notin Missing
  BY <1>1, <1>2, <1>3
<1>5. PICK f : Rounds(f, m - 1)
  BY <1>4
<1> DEFINE g == [i \in 0..m |-> IF i = m THEN Strip(f[m - 1]) ELSE f[i]]
<1>6. \A i \in 0..m : g[i] = IF i = 0 THEN Page ELSE Strip(g[i - 1])
  <2> TAKE i \in 0..m
  <2>1. CASE i = m
    BY <1>2, <1>3, <2>1
  <2>2. CASE i # m
    <3>1. i \in 0..(m - 1) /\ g[i] = f[i] /\ (i # 0 => g[i - 1] = f[i - 1])
      BY <1>2, <2>2
    <3>2. f[i] = IF i = 0 THEN Page ELSE Strip(f[i - 1])
      BY <1>5, <3>1 DEF Rounds
    <3>3. QED
      BY <3>1, <3>2
  <2>3. QED
    BY <2>1, <2>2
<1>7. g = [i \in 0..m |-> IF i = 0 THEN Page ELSE Strip(g[i - 1])]
  BY <1>6
<1>8. Rounds(g, m)
  BY <1>7 DEF Rounds
<1>9. QED
  BY <1>2, <1>8

LEMMA CyclicRounds == \E f : Rounds(f, MaxPages) /\ Cyclic = f[MaxPages]
<1>1. PICK g : Rounds(g, MaxPages)
  BY RoundsExist, BoundsAssumption
<1> DEFINE f == CHOOSE f : f = [i \in 0..MaxPages |->
                  IF i = 0 THEN Page
                  ELSE LET left == f[i - 1]
                       IN  {p \in left : PointsTo(p) \cap left # {}}]
<1>2. Cyclic = f[MaxPages]
  BY DEF Cyclic
<1>3. Rounds(f, MaxPages)
  BY <1>1 DEF Rounds, Strip
<1>4. QED
  BY <1>2, <1>3

LEMMA NoCycleFollows == TreeInv /\ LinkInv /\ AllPlain(page) => NoStrongCycle
<1> SUFFICES ASSUME TreeInv, LinkInv, AllPlain(page) PROVE Cyclic = {}
  BY DEF NoStrongCycle
<1>1. PICK f : Rounds(f, MaxPages) /\ Cyclic = f[MaxPages]
  BY CyclicRounds
<1>2. f[0] = Page /\ \A i \in 0..MaxPages : i # 0 => f[i] = Strip(f[i - 1])
  BY <1>1, BoundsAssumption DEF Rounds
<1> DEFINE Small(i) == /\ f[i] \subseteq Page /\ IsFiniteSet(f[i])
                       /\ f[i] = {} \/ Cardinality(f[i]) + i <= MaxPages
           Bad == {i \in Nat : i <= MaxPages /\ ~Small(i)}
<1>3. Small(0)
  <2>1. IsFiniteSet(Page) /\ Cardinality(Page) = MaxPages
    BY FS_Interval, BoundsAssumption DEF Page
  <2>2. QED
    BY <1>2, <2>1, BoundsAssumption
<1>4. ASSUME NEW i \in 0..MaxPages, i # 0, Small(i - 1) PROVE Small(i)
  <2> DEFINE S == f[i - 1]
  <2>1. S \subseteq Page /\ IsFiniteSet(S) /\ f[i] = Strip(S) /\ f[i] \subseteq S
    BY <1>2, <1>4 DEF Strip
  <2>2. CASE S = {}
    BY <2>1, <2>2, FS_EmptySet
  <2>3. CASE S # {}
    <3>1. Cardinality(S) + (i - 1) <= MaxPages
      BY <1>4, <2>3
    <3> HIDE DEF S
    <3>2. PICK p \in S : PointsTo(p) \cap S = {}
      BY <2>1, <2>3, SomePageLeadsOut
    <3>3. f[i] \subseteq S \ {p}
      BY <2>1, <3>2 DEF Strip
    <3>4. /\ IsFiniteSet(S \ {p}) /\ Cardinality(S \ {p}) = Cardinality(S) - 1
          /\ Cardinality(S) \in Nat
      BY <2>1, FS_RemoveElement, FS_CardinalityType
    <3>5. /\ IsFiniteSet(f[i]) /\ Cardinality(f[i]) <= Cardinality(S \ {p})
          /\ Cardinality(f[i]) \in Nat
      BY <3>3, <3>4, FS_Subset, FS_CardinalityType
    <3>6. Cardinality(f[i]) + i <= MaxPages
      BY <3>1, <3>4, <3>5, BoundsAssumption
    <3>7. QED
      BY <2>1, <3>5, <3>6
  <2>4. QED
    BY <2>2, <2>3
<1>5. Bad = {}
  <2> SUFFICES ASSUME Bad # {} PROVE FALSE
    OBVIOUS
  <2>1. PICK m \in Bad : \A i \in Bad : m <= i
    BY LeastExists
  <2>2. m \in Nat /\ m <= MaxPages /\ ~Small(m) /\ m # 0 /\ MaxPages \in Nat
    BY <1>3, BoundsAssumption
  <2> HIDE DEF Small
  <2>3. m \in 0..MaxPages /\ m - 1 \in Nat /\ m - 1 <= MaxPages /\ m - 1 \notin Bad
    BY <2>1, <2>2
  <2>4. Small(m - 1)
    BY <2>3
  <2>5. QED
    BY <1>4, <2>2, <2>3, <2>4
<1>6. Small(MaxPages)
  <2> HIDE DEF Small
  <2>1. QED
    BY <1>5, BoundsAssumption
<1>7. f[MaxPages] = {}
  <2>1. CASE Cardinality(f[MaxPages]) + MaxPages <= MaxPages
    <3>1. Cardinality(f[MaxPages]) \in Nat
      BY <1>6, FS_CardinalityType
    <3>2. Cardinality(f[MaxPages]) = 0
      BY <2>1, <3>1, BoundsAssumption
    <3>3. QED
      BY <1>6, <3>2, FS_EmptySet
  <2>2. QED
    BY <1>6, <2>1
<1>8. QED
  BY <1>1, <1>7

\* Children, right links and the targets of retired pages never close a cycle,
\* so a page's Arc count reaches zero once nothing leads to it (NodeWeak,
\* node.rs 84-85).
THEOREM NoCycles == Spec => []NoStrongCycle
BY NoCycleFollows, PlainInvariance, PTL

================================================================================
