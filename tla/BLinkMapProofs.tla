---------------------------- MODULE BLinkMapProofs ----------------------------
(***************************************************************************)
(* The tree is a linearizable map, and its record counter is exact, for    *)
(* every capacity, key range, page bound, set of threads and workload.     *)
(*                                                                         *)
(* The leaves hold each key at most once, because no two of them share     *)
(* part of the key space.  Splits, borrows, merges, growth, collapse and   *)
(* link repairs move records but keep which keys have which values; a      *)
(* section that writes a record changes one key, that of the call.  So the *)
(* map changes only where the operation that is called takes effect.       *)
(*                                                                         *)
(* BLinkMap::clear, which frees every page and starts a new tree between   *)
(* two calls, keeps all of it and empties the map.                         *)
(*                                                                         *)
(* Scans, first_entry, last_entry, entry_at_or_after and the iterators, for*)
(* every capacity, key range, set of threads and scanners and workload.    *)
(*                                                                         *)
(* The order of keys needs nothing of the tree, since every call of next   *)
(* seeks anew.  That a cursor always has a page to go on to, that an item  *)
(* keeps its record and that first_entry finds the least record need to    *)
(* know where the page leads that the cursor holds by name: an active page *)
(* stays active, or forwards to one that took over, which is a leaf, or    *)
(* leftmost, if the first was (Forwards).  The cursor is placed in relation*)
(* to that page (Placed).                                                  *)
(***************************************************************************)
EXTENDS BLinkLinkProofs, BLinkClear, BLinkScan

-----------------------------------------------------------------------------
(***************************************************************************)
(* Which keys have which values.                                           *)
(***************************************************************************)
Stores(P, k, v) == \E p \in Page : P[p].kind = "leaf" /\ P[p].recs[k] = v

SameRecords(P, Q) == \A k \in Key : \A v \in Val : Stores(Q, k, v) <=> Stores(P, k, v)

LEMMA SplitRecords ==
  ASSUME NEW P \in Pages, NEW Q \in Pages, NEW r, WellFormed(P, r),
         NEW p, NEW s, NEW sep, NEW c, NEW a, NEW b,
         ChildSplits(P, Q, p, s, sep, c, a, b)
  PROVE  SameRecords(P, Q)
<1>1. /\ c \in Page /\ a \in Page /\ b \in Page /\ sep \in Int
      /\ p \in Page /\ p \notin {a, b, c}
  BY SplitFacts
<1>2. /\ P[p].kind = "internal" /\ Q[p].kind = P[p].kind
      /\ \A x \in {a, b} : x = c \/ x \notin ActiveIn(P)
      /\ c \in {a, b}
      /\ HalfBelow(Q[a], P[c], sep) /\ HalfAbove(Q[b], P[c], sep)
      /\ \A x \in Page \ {a, b, p} : Alike(Q[x], P[x])
  BY DEF ChildSplits, InternalsIn
<1> SUFFICES ASSUME NEW k \in Key, NEW v \in Val
             PROVE  Stores(Q, k, v) <=> Stores(P, k, v)
  BY DEF SameRecords
<1>3. k \in Int /\ v # NoVal
  BY Numbers, NoValAssumption
<1>4. ASSUME NEW x \in Page, P[x].kind = "leaf", P[x].recs[k] = v
      PROVE  Stores(Q, k, v)
  <2>1. CASE x = c /\ k < sep
    BY <1>1, <1>2, <1>4, <2>1 DEF HalfBelow, Stores
  <2>2. CASE x = c /\ ~(k < sep)
    BY <1>1, <1>2, <1>4, <2>2 DEF HalfAbove, Stores
  <2>3. CASE x # c
    <3>1. x \in Page \ {a, b, p}
      BY <1>2, <1>4, <2>3 DEF ActiveIn, Active
    <3>2. QED
      BY <1>2, <1>4, <3>1 DEF Alike, Stores
  <2>4. QED
    BY <2>1, <2>2, <2>3
<1>5. ASSUME NEW x \in Page, Q[x].kind = "leaf", Q[x].recs[k] = v
      PROVE  Stores(P, k, v)
  <2>1. CASE x \in {a, b}
    <3>1. P[c].kind = "leaf" /\ P[c].recs[k] = v
      BY <1>2, <1>3, <1>5, <2>1 DEF HalfBelow, HalfAbove
    <3>2. QED
      BY <1>1, <3>1 DEF Stores
  <2>2. CASE x \notin {a, b}
    <3>1. x \in Page \ {a, b, p}
      BY <1>2, <1>5, <2>2
    <3>2. QED
      BY <1>2, <1>5, <3>1 DEF Alike, Stores
  <2>3. QED
    BY <2>1, <2>2
<1>6. QED
  BY <1>4, <1>5 DEF Stores

LEMMA MergeRecords ==
  ASSUME NEW P \in Pages, NEW Q \in Pages, NEW r, WellFormed(P, r),
         NEW p, NEW s, NEW sep, NEW l, NEW h, NEW w,
         ChildrenMerge(P, Q, p, s, sep, l, h, w)
  PROVE  SameRecords(P, Q)
<1>1. /\ l \in Page /\ h \in Page /\ w \in Page /\ sep \in Int
      /\ l \in ActiveIn(P) /\ h \in ActiveIn(P)
      /\ p \in Page /\ p \notin {l, h}
      /\ P[h].low = sep /\ P[l].kind = P[h].kind
  BY MergeFacts
<1>2. /\ P[p].kind = "internal" /\ Q[p].kind = P[p].kind
      /\ w \in {l, h} /\ P[l].high = sep
      /\ Union(Q[w], P[l], P[h], sep)
      /\ \A x \in {l, h} \ {w} : ~Active(Q[x])
      /\ \A x \in Page \ {l, h, p} : Alike(Q[x], P[x])
  BY DEF ChildrenMerge, InternalsIn
<1> SUFFICES ASSUME NEW k \in Key, NEW v \in Val
             PROVE  Stores(Q, k, v) <=> Stores(P, k, v)
  BY DEF SameRecords
<1>3. k \in Int /\ v # NoVal
  BY Numbers, NoValAssumption
<1>4. /\ P[l].kind = "leaf" /\ P[l].recs[k] # NoVal => k < sep
      /\ P[h].kind = "leaf" /\ P[h].recs[k] # NoVal => ~(k < sep)
  BY <1>1, <1>2, <1>3 DEF WellFormed, Fenced, Contents, Records
<1>5. ASSUME NEW x \in Page, P[x].kind = "leaf", P[x].recs[k] = v
      PROVE  Stores(Q, k, v)
  <2>1. CASE x \in {l, h}
    <3>1. Q[w].kind = "leaf" /\ Q[w].recs[k] = v
      BY <1>1, <1>2, <1>3, <1>4, <1>5, <2>1 DEF Union
    <3>2. QED
      BY <1>1, <3>1 DEF Stores
  <2>2. CASE x \notin {l, h}
    <3>1. x \in Page \ {l, h, p}
      BY <1>2, <1>5, <2>2
    <3>2. QED
      BY <1>2, <1>5, <3>1 DEF Alike, Stores
  <2>3. QED
    BY <2>1, <2>2
<1>6. ASSUME NEW x \in Page, Q[x].kind = "leaf", Q[x].recs[k] = v
      PROVE  Stores(P, k, v)
  <2>1. CASE x \in {l, h}
    <3>1. x = w
      BY <1>2, <1>6, <2>1 DEF Active
    <3>2. P[l].kind = "leaf" /\ P[h].kind = "leaf"
      BY <1>1, <1>2, <1>6, <3>1 DEF Union
    <3>3. P[l].recs[k] = v \/ P[h].recs[k] = v
      BY <1>2, <1>6, <3>1 DEF Union
    <3>4. QED
      BY <1>1, <3>2, <3>3 DEF Stores
  <2>2. CASE x \notin {l, h}
    <3>1. x \in Page \ {l, h, p}
      BY <1>2, <1>6, <2>2
    <3>2. QED
      BY <1>2, <1>6, <3>1 DEF Alike, Stores
  <2>3. QED
    BY <2>1, <2>2
<1>7. QED
  BY <1>5, <1>6 DEF Stores

LEMMA GrowRecords ==
  ASSUME NEW P \in Pages, NEW Q \in Pages, NEW r, NEW n, Grows(P, Q, r, n)
  PROVE  SameRecords(P, Q)
<1>1. /\ n \in Page /\ P[n].kind # "leaf" /\ Q[n].kind # "leaf"
      /\ \A x \in Page \ {n} : Q[x].kind = P[x].kind /\ Q[x].recs = P[x].recs
  BY DEF Grows, AlikeUnmarked, ActiveIn, Active
<1>2. QED
  BY <1>1 DEF SameRecords, Stores

LEMMA CollapseRecords ==
  ASSUME NEW P \in Pages, NEW Q \in Pages, NEW r, NEW c, Collapses(P, Q, r, c)
  PROVE  SameRecords(P, Q)
<1>1. /\ P[r].kind # "leaf" /\ Q[r].kind # "leaf"
      /\ \A x \in Page \ {r} : Q[x].kind = P[x].kind /\ Q[x].recs = P[x].recs
  BY DEF Collapses, AlikeUnmarked, Active
<1>2. QED
  BY <1>1 DEF SameRecords, Stores

LEMMA SameRecordsChain ==
  ASSUME NEW P, NEW M, NEW Q, SameRecords(P, M), SameRecords(M, Q)
  PROVE  SameRecords(P, Q)
BY DEF SameRecords

\* The sections that write no record move records at most.
LEMMA StructureRecords ==
  ASSUME IndInv, WellFormed(page, root), NEW t \in Thread,
         \/ SplitRoot(t) \/ SplitChild(t) \/ Shrink(t)
         \/ BorrowFromLeft(t) \/ BorrowFromRight(t) \/ Merge(t)
         \/ FixSuccessor(t) \/ FixNone(t) \/ WalkOn(t) \/ Peek(t) \/ Join(t)
  PROVE  SameRecords(page, page')
<1>1. page \in Pages /\ page' \in Pages
  BY StepTyped DEF IndInv, TreeTyped, Pages, Step, Insert, Remove
<1>2. CASE page' = page
  BY <1>2 DEF SameRecords
<1>3. CASE SplitRoot(t)
  <2>1. CASE Full(page[root])
    <3>1. PICK mid \in Pages :
            /\ Grows(page, mid, root, root')
            /\ ChildSplits(mid, page', root', NegInf, SplitKey(page[root]),
                           root, root, FirstNew)
      BY <1>3, <2>1, SplitRootSplits
    <3>2. SameRecords(page, mid)
      BY <1>1, <3>1, GrowRecords
    <3>3. WellFormed(mid, root')
      BY <1>1, <3>1, GrowKeepsShape
    <3>4. SameRecords(mid, page')
      BY <1>1, <3>1, <3>3, SplitRecords
    <3>5. QED
      BY <3>2, <3>4, SameRecordsChain
  <2>2. CASE ~Full(page[root])
    BY <1>2, <1>3, <2>2 DEF SplitRoot
  <2>3. QED
    BY <2>1, <2>2
<1>4. CASE SplitChild(t)
  <2>1. PICK s : ChildSplits(page, page', node[t], s, SplitKey(page[ChildOf(t)]),
                             ChildOf(t), ChildOf(t), FirstNew)
    BY <1>4, SplitChildSplits
  <2>2. QED
    BY <1>1, <2>1, SplitRecords
<1>5. CASE Shrink(t)
  BY <1>1, <1>2, <1>5, ShrinkCollapses, CollapseRecords
<1>6. CASE BorrowFromLeft(t) \/ BorrowFromRight(t)
  <2>1. PICK s, b : Borrows(page, page', node[t], s, Sep(t), LeftOf(t), RightOf(t), b)
    BY <1>6, BorrowBorrows
  <2>2. PICK M \in Pages :
          /\ WellFormed(M, root)
          /\ ChildrenMerge(page, M, node[t], s, Sep(t), LeftOf(t), RightOf(t), RightOf(t))
          /\ ChildSplits(M, page', node[t], s, b, RightOf(t), LeftOf(t), RightOf(t))
    BY <1>1, <2>1, BorrowSplits
  <2>3. SameRecords(page, M)
    BY <1>1, <2>2, MergeRecords
  <2>4. SameRecords(M, page')
    BY <1>1, <2>2, SplitRecords
  <2>5. QED
    BY <2>3, <2>4, SameRecordsChain
<1>7. CASE Merge(t)
  <2>1. node[t] \in InternalsIn(page) /\ Sep(t) \in Separators(page[node[t]])
    BY <1>7, RemovePlace DEF Merge
  <2>2. page' = Merged(page, node[t], Sep(t))
    BY <1>7 DEF Merge, Merged, LeftOf, RightOf
  <2>3. \E s, l, h : ChildrenMerge(page, page', node[t], s, Sep(t), l, h, h)
    BY <1>1, <2>1, <2>2, MergedMerges
  <2>4. QED
    BY <1>1, <2>3, MergeRecords
<1>8. CASE FixSuccessor(t) \/ FixNone(t) \/ WalkOn(t) \/ Peek(t) \/ Join(t)
  <2>1. \A x \in Page : page[x] \in PageRec
    BY <1>1 DEF Pages, SoundPage
  <2>2. \A x \in Page : page'[x].kind = page[x].kind /\ page'[x].recs = page[x].recs
    <3>1. ASSUME NEW p \in Ref, NEW q \in Ref, page' = [page EXCEPT ![p].right = q]
          PROVE  \A x \in Page : page'[x].kind = page[x].kind /\ page'[x].recs = page[x].recs
      BY <1>1, <2>1, <3>1 DEF PageRec, Pages
    <3>2. ASSUME NEW p \in Ref, NEW q \in Ref, page' = [page EXCEPT ![p].prev = q]
          PROVE  \A x \in Page : page'[x].kind = page[x].kind /\ page'[x].recs = page[x].recs
      BY <1>1, <2>1, <3>2 DEF PageRec, Pages
    <3>3. QED
      BY <1>8, <3>1, <3>2, RepairsRelink DEF Relinks
  <2>3. QED
    BY <2>2 DEF SameRecords, Stores
<1>9. QED
  BY <1>3, <1>4, <1>5, <1>6, <1>7, <1>8

-----------------------------------------------------------------------------
(***************************************************************************)
(* The map that the leaves hold.                                           *)
(***************************************************************************)
Holders(P, k) == {p \in Page : P[p].kind = "leaf" /\ P[p].recs[k] # NoVal}

OneOf(S)    == CHOOSE p \in S : TRUE
MapIn(P, k) == IF Holders(P, k) = {} THEN NoVal ELSE P[OneOf(Holders(P, k))].recs[k]

LEMMA MapValueIs ==
  ASSUME NEW k
  PROVE  /\ MapValue(k) = MapIn(page, k)
         /\ MapValue(k)' = MapIn(page', k)
<1> DEFINE S == {p \in Leaves : page[p].recs[k] # NoVal}
<1>1. /\ MapValue(k) = IF S = {} THEN NoVal ELSE page[OneOf(S)].recs[k]
      /\ MapValue(k)' = IF S' = {} THEN NoVal ELSE page'[OneOf(S')].recs[k]
  BY DEF MapValue, OneOf
<1>2. S = Holders(page, k) /\ S' = Holders(page', k)
  BY DEF Leaves, Holders
<1> HIDE DEF S
<1>3. MapValue(k) = MapIn(page, k)
  BY <1>1, <1>2 DEF MapIn
<1>4. MapValue(k)' = MapIn(page', k)
  BY <1>1, <1>2 DEF MapIn
<1>5. QED
  BY <1>3, <1>4

\* Two leaves that own one key are one leaf.
LEMMA OneLeaf ==
  ASSUME NEW P \in Pages, NEW r, WellFormed(P, r), NEW k \in Key,
         NEW p \in Page, P[p].kind = "leaf", P[p].low <= k, k < P[p].high,
         NEW q \in Page, P[q].kind = "leaf", P[q].low <= k, k < P[q].high
  PROVE  p = q
<1>1. p \in ActiveIn(P) /\ q \in ActiveIn(P)
  BY DEF ActiveIn, Active
<1>2. P[p].level = P[q].level
  BY <1>1 DEF WellFormed, Levelled
<1>3. p # q => P[p].high <= P[q].low \/ P[q].high <= P[p].low
  BY <1>1, <1>2 DEF WellFormed, Apart
<1>4. /\ P[p].low \in Int /\ P[p].high \in Int /\ k \in Int
      /\ P[q].low \in Int /\ P[q].high \in Int
  BY Numbers
<1>5. QED
  BY <1>3, <1>4

LEMMA HoldersOwn ==
  ASSUME NEW P \in Pages, NEW r, WellFormed(P, r), NEW k \in Key,
         NEW p \in Holders(P, k)
  PROVE  /\ p \in Page /\ P[p].kind = "leaf" /\ P[p].low <= k /\ k < P[p].high
         /\ P[p].recs[k] \in Val
<1>1. p \in Page /\ P[p].kind = "leaf" /\ P[p].recs[k] # NoVal /\ p \in ActiveIn(P)
  BY DEF Holders, ActiveIn, Active
<1>2. P[p].low <= k /\ k < P[p].high
  BY <1>1 DEF WellFormed, Fenced, Contents, Records
<1>3. QED
  BY <1>1, <1>2, Numbers

\* The map holds a value where some leaf stores it, and only there.
LEMMA MapStores ==
  ASSUME NEW P \in Pages, NEW r, WellFormed(P, r), NEW k \in Key
  PROVE  /\ MapIn(P, k) \in Val \cup {NoVal}
         /\ \A v \in Val : MapIn(P, k) = v <=> Stores(P, k, v)
<1>1. \A p \in Holders(P, k) : MapIn(P, k) = P[p].recs[k] /\ P[p].recs[k] \in Val
  <2> TAKE p \in Holders(P, k)
  <2> DEFINE c == OneOf(Holders(P, k))
  <2>1. c \in Holders(P, k) /\ Holders(P, k) # {}
    BY DEF OneOf
  <2>2. MapIn(P, k) = P[c].recs[k]
    BY <2>1 DEF MapIn
  <2> HIDE DEF c
  <2>3. c = p /\ P[p].recs[k] \in Val
    BY <2>1, HoldersOwn, OneLeaf
  <2>4. QED
    BY <2>2, <2>3
<1>2. CASE Holders(P, k) = {}
  <2>1. MapIn(P, k) = NoVal
    BY <1>2 DEF MapIn
  <2>2. \A v \in Val : ~Stores(P, k, v)
    BY <1>2, NoValAssumption DEF Stores, Holders
  <2>3. QED
    BY <2>1, <2>2, NoValAssumption
<1>3. CASE Holders(P, k) # {}
  <2>1. PICK p \in Holders(P, k) : TRUE
    BY <1>3
  <2>2. MapIn(P, k) = P[p].recs[k] /\ P[p].recs[k] \in Val
    BY <1>1
  <2>3. Stores(P, k, MapIn(P, k))
    BY <2>2, HoldersOwn DEF Stores
  <2>4. ASSUME NEW v \in Val, Stores(P, k, v) PROVE MapIn(P, k) = v
    <3>1. PICK q \in Page : P[q].kind = "leaf" /\ P[q].recs[k] = v
      BY <2>4 DEF Stores
    <3>2. q \in Holders(P, k)
      BY <3>1, NoValAssumption DEF Holders
    <3>3. QED
      BY <1>1, <3>1, <3>2
  <2>5. QED
    BY <2>2, <2>3, <2>4
<1>4. QED
  BY <1>2, <1>3

LEMMA SameRecordsSameMap ==
  ASSUME NEW P \in Pages, NEW r, WellFormed(P, r),
         NEW Q \in Pages, NEW q, WellFormed(Q, q), SameRecords(P, Q),
         NEW k \in Key
  PROVE  MapIn(Q, k) = MapIn(P, k)
<1>1. /\ MapIn(P, k) \in Val \cup {NoVal} /\ MapIn(Q, k) \in Val \cup {NoVal}
      /\ \A v \in Val : MapIn(Q, k) = v <=> MapIn(P, k) = v
  BY MapStores DEF SameRecords
<1>2. QED
  BY <1>1, NoValAssumption

\* The leaf that owns a key knows what the map holds under it.
LEMMA OwnerKnows ==
  ASSUME NEW P \in Pages, NEW r, WellFormed(P, r), NEW k \in Key,
         NEW p \in Page, P[p].kind = "leaf", P[p].low <= k, k < P[p].high
  PROVE  MapIn(P, k) = P[p].recs[k]
<1>1. P[p].recs[k] \in Val \cup {NoVal}
  BY Numbers
<1>2. CASE P[p].recs[k] \in Val
  <2>1. Stores(P, k, P[p].recs[k])
    BY DEF Stores
  <2>2. QED
    BY <1>2, <2>1, MapStores
<1>3. CASE P[p].recs[k] = NoVal
  <2>1. Holders(P, k) = {}
    <3> SUFFICES ASSUME NEW q \in Holders(P, k) PROVE FALSE
      OBVIOUS
    <3>1. q = p
      BY HoldersOwn, OneLeaf
    <3>2. QED
      BY <1>3, <3>1 DEF Holders
  <2>2. QED
    BY <1>3, <2>1 DEF MapIn
<1>4. QED
  BY <1>1, <1>2, <1>3

\* A leaf that owns a key changes the record under it.
Written(P, Q, p, k, v) == Q = [P EXCEPT ![p].recs[k] = v]

LEMMA WriteRecord ==
  ASSUME NEW P \in Pages, NEW Q \in Pages, NEW r, WellFormed(P, r), WellFormed(Q, r),
         NEW p \in Page, P[p].kind = "leaf",
         NEW k \in Key, P[p].low <= k, k < P[p].high,
         NEW v \in Val \cup {NoVal}, Written(P, Q, p, k, v),
         NEW x \in Key
  PROVE  MapIn(Q, x) = IF x = k THEN v ELSE MapIn(P, x)
<1>1. P[p] \in PageRec /\ P[p].recs \in [Key -> Val \cup {NoVal}]
  BY DEF Pages, SoundPage, PageRec
<1>2. /\ Q[p] = [P[p] EXCEPT !.recs[k] = v]
      /\ \A y \in Page \ {p} : Q[y] = P[y]
  BY DEF Pages, Written
<1>3. /\ Q[p].kind = "leaf" /\ Q[p].low = P[p].low /\ Q[p].high = P[p].high
      /\ Q[p].recs[x] = IF x = k THEN v ELSE P[p].recs[x]
  BY <1>1, <1>2 DEF PageRec
<1>4. CASE x = k
  BY <1>3, <1>4, OwnerKnows
<1>5. CASE x # k
  <2>1. \A w \in Val : Stores(Q, x, w) <=> Stores(P, x, w)
    BY <1>2, <1>3, <1>5 DEF Stores
  <2>2. /\ MapIn(P, x) \in Val \cup {NoVal} /\ MapIn(Q, x) \in Val \cup {NoVal}
        /\ \A w \in Val : MapIn(Q, x) = w <=> MapIn(P, x) = w
    BY <2>1, MapStores
  <2>3. QED
    BY <1>5, <2>2, NoValAssumption
<1>6. QED
  BY <1>4, <1>5

-----------------------------------------------------------------------------
(***************************************************************************)
(* What a step does for the operation that is called.                      *)
(***************************************************************************)
Seeking   == {"root", "seek", "latch"}
Inserting == {"split_root", "ins_root", "ins", "fix_split", "fix_succ"}
Removing  == {"shrink", "del_root", "del", "fix_start", "fix_walk", "peek",
              "join_retired", "join_survivor", "join_peeked", "fix_none"}
Updating  == {"count", "count_slow"}
Ending    == {"shrink_end", "done"}

\* A call that has not taken effect yet, and the result it was given.
Waiting(t) == pc[t] \in Seeking \cup Inserting \cup Removing
                \/ (pc[t] = "guard" /\ call[t].op = "update")

\* A pass belongs to an operation, a guard to another, and an operation that has
\* not taken effect has no result.
Proper(t) ==
  /\ pc[t] \in Inserting => call[t].op = "insert"
  /\ pc[t] \in Removing  => call[t].op = "remove"
  /\ pc[t] \in Updating  => call[t].op \in {"insert", "remove"}
  /\ pc[t] = "guard"     => call[t].op \in {"get", "update"}
  /\ Waiting(t)          => result[t] = NoVal

SameMap == \A x \in Key : MapIn(page', x) = MapIn(page, x)

Begins(t) == /\ pc[t] = "idle" /\ pc'[t] = "root"
             /\ \E c \in Call : call' = [call EXCEPT ![t] = c]
             /\ result' = [result EXCEPT ![t] = NoVal]
             /\ len' = len /\ page' = page

Finishes(t) == /\ pc[t] = "done" /\ pc'[t] = "idle"
              /\ call' = call /\ result' = result /\ len' = len /\ page' = page

\* The pass goes on, to another phase of the operation at most.
GoesOn(t) ==
  \/ \E S \in {Seeking, Inserting, Removing, Ending} : pc[t] \in S /\ pc'[t] \in S
  \/ pc[t] = "latch" /\ pc'[t] = "guard" /\ call[t].op = "update"
  \/ pc[t] = "latch" /\ pc'[t] = "split_root" /\ call[t].op = "insert"
  \/ pc[t] = "latch" /\ pc'[t] = "shrink" /\ call[t].op = "remove"

QuietStep(t) == GoesOn(t) /\ call' = call /\ result' = result /\ len' = len

\* The operation takes effect, and its result is what the map held.
AddsKey(t) == call[t].op = "insert" /\ MapIn(page, call[t].key) = NoVal
DropsKey(t) == call[t].op = "remove" /\ MapIn(page, call[t].key) # NoVal

TakesEffect(t) ==
  /\ Waiting(t)
  /\ pc'[t] \in Updating \cup Ending \/ (pc'[t] = "guard" /\ call[t].op = "get")
  /\ pc'[t] \in Updating <=> AddsKey(t) \/ DropsKey(t)
  /\ call' = call /\ len' = len
  /\ result' = [result EXCEPT ![t] = MapIn(page, call[t].key)]
  /\ \A x \in Key : MapIn(page', x) = IF x = call[t].key
                                      THEN Map!After(call[t], MapIn(page, x))
                                      ELSE MapIn(page, x)

\* A lookup's guard is dropped; an update of the counter is made.
Drops(t) == /\ pc[t] = "guard" /\ call[t].op = "get" /\ pc'[t] = "done"
            /\ call' = call /\ result' = result /\ len' = len /\ page' = page

Counts(t) == /\ pc[t] \in Updating /\ pc'[t] \in Ending
             /\ call' = call /\ result' = result /\ page' = page
             /\ len' = IF call[t].op = "insert" THEN len + 1 ELSE len - 1

\* Passes move on without an effect.
LEMMA PassesGoOn ==
  ASSUME ThreadsTyped, NEW t \in Thread,
         \/ ReadRoot(t) \/ SeekRestart(t) \/ SeekRight(t) \/ SeekDown(t)
         \/ SeekWriter(t) \/ Relatch(t) \/ AttemptRoot(t) \/ AttemptRight(t)
         \/ SplitRoot(t) \/ InsertRetry(t) \/ InsertDown(t) \/ SplitChild(t)
         \/ FixSplit(t) \/ FixSuccessor(t)
         \/ Shrink(t) \/ RemoveRetry(t) \/ RemoveDown(t)
         \/ BorrowFromLeft(t) \/ BorrowFromRight(t) \/ Merge(t)
         \/ FixStart(t) \/ FixNone(t) \/ WalkBack(t) \/ WalkOn(t) \/ Peek(t) \/ Join(t)
  PROVE  QuietStep(t)
<1> USE DEF ThreadsTyped, tree, GoTo, Retry, Resume, Attempts, Seeks, QuietStep, GoesOn,
            Seeking, Inserting, Removing, Ending, InsertDescends, RemoveDescends
<1>1. CASE ReadRoot(t) \/ SeekRestart(t) \/ SeekRight(t) \/ SeekDown(t)
  BY <1>1 DEF ReadRoot, SeekRestart, SeekRight, SeekDown
<1>2. CASE SeekWriter(t) \/ Relatch(t)
  BY <1>2 DEF SeekWriter, Relatch
<1>3. CASE AttemptRoot(t) \/ AttemptRight(t)
  BY <1>3 DEF AttemptRoot, AttemptRight
<1>4. CASE SplitRoot(t) \/ InsertRetry(t) \/ InsertDown(t)
  BY <1>4 DEF SplitRoot, InsertRetry, InsertDown
<1>5. CASE SplitChild(t)
  BY <1>5 DEF SplitChild
<1>6. CASE FixSplit(t) \/ FixSuccessor(t)
  BY <1>6 DEF FixSplit, FixSuccessor
<1>7. CASE Shrink(t) \/ RemoveRetry(t) \/ RemoveDown(t)
  BY <1>7 DEF Shrink, RemoveRetry, RemoveDown
<1>8. CASE BorrowFromLeft(t) \/ BorrowFromRight(t) \/ Merge(t)
  BY <1>8 DEF BorrowFromLeft, BorrowFromRight, Merge
<1>9. CASE FixStart(t) \/ FixNone(t) \/ WalkBack(t)
  BY <1>9 DEF FixStart, FixNone, WalkBack
<1>10. CASE WalkOn(t)
  BY <1>10 DEF WalkOn
<1>11. CASE Peek(t) \/ Join(t)
  BY <1>11 DEF Peek, Join
<1>12. QED
  BY <1>1, <1>2, <1>3, <1>4, <1>5, <1>6, <1>7, <1>8, <1>9, <1>10, <1>11

\* The sections that read or write a record do so in the leaf that owns the key.
LEMMA RecordKnown ==
  ASSUME IndInv, WellFormed(page, root), NEW t \in Thread,
         SeekGet(t) \/ FastUpdate(t) \/ DropGuard(t) \/ FastInsert(t)
           \/ InsertHere(t) \/ FastRemove(t) \/ RemoveHere(t)
  PROVE  /\ node[t] \in Page /\ call[t].key \in Key /\ call[t].val \in Val
         /\ page[node[t]].kind = "leaf"
         /\ page[node[t]].low <= call[t].key /\ call[t].key < page[node[t]].high
         /\ page[node[t]].recs[call[t].key] = MapIn(page, call[t].key)
<1>1. page \in Pages
  BY DEF IndInv, TreeTyped, Pages
<1>2. /\ node[t] \in Page /\ call[t].key \in Key /\ call[t].val \in Val
      /\ page[node[t]].kind = "leaf"
      /\ page[node[t]].low <= call[t].key /\ call[t].key < page[node[t]].high
  <2>1. CASE SeekGet(t) \/ FastUpdate(t)
    <3>1. call[t].key \in Key /\ call[t].val \in Val
      BY DEF IndInv, ThreadsTyped, Call
    <3>2. /\ node[t] \in Page /\ page[node[t]].kind = "leaf"
          /\ Route(page[node[t]], call[t].key) = "here"
      BY <2>1 DEF SeekGet, FastUpdate, Seeks, Latched, ReadFree, WriteFree, OwnsKey
    <3>3. ~(call[t].key < page[node[t]].low) /\ ~(call[t].key >= page[node[t]].high)
      BY <3>2 DEF Route
    <3>4. /\ page[node[t]].low \in Int /\ page[node[t]].high \in Int
          /\ call[t].key \in Int
      BY <1>1, <3>1, <3>2, Numbers
    <3>5. QED
      BY <3>1, <3>2, <3>3, <3>4
  <2>2. QED
    BY <2>1, RecordPlace
<1>3. QED
  BY <1>1, <1>2, OwnerKnows

\* A record is written under the key of the call, and the rest of the map stays.
LEMMA RecordWrites ==
  ASSUME IndInv, WellFormed(page, root), WellFormed(page', root'), NEW t \in Thread,
         DropGuard(t) \/ FastInsert(t) \/ InsertHere(t) \/ FastRemove(t)
           \/ RemoveHere(t),
         NEW v \in Val \cup {NoVal},
         page' = [page EXCEPT ![node[t]].recs[call[t].key] = v]
  PROVE  \A x \in Key : MapIn(page', x) = IF x = call[t].key THEN v ELSE MapIn(page, x)
<1>1. page \in Pages /\ page' \in Pages /\ root' = root
  BY StepTyped DEF IndInv, TreeTyped, Pages, Step, Insert, Remove, Seek,
                   DropGuard, FastInsert, InsertHere, FastRemove, RemoveHere
<1>2. /\ node[t] \in Page /\ call[t].key \in Key /\ page[node[t]].kind = "leaf"
      /\ page[node[t]].low <= call[t].key /\ call[t].key < page[node[t]].high
  BY RecordPlace
<1>3. Written(page, page', node[t], call[t].key, v)
  BY DEF Written
<1>4. QED
  BY <1>1, <1>2, <1>3, WriteRecord

LEMMA StoreEffect ==
  ASSUME IndInv, WellFormed(page, root), WellFormed(page', root'), NEW t \in Thread,
         FastInsert(t) \/ InsertHere(t), StoreRecord(t, node[t]), Proper(t)
  PROVE  TakesEffect(t)
<1> DEFINE k   == call[t].key
           old == MapIn(page, k)
<1>1. /\ k \in Key /\ call[t].val \in Val /\ page[node[t]].recs[k] = old
  BY RecordKnown
<1>2. /\ pc[t] \in {"latch", "ins"} /\ call[t].op = "insert"
      /\ call' = call /\ len' = len
  BY DEF FastInsert, InsertHere, Latched, Attempts, Proper, Inserting
<1>3. Waiting(t)
  BY <1>2 DEF Waiting, Seeking, Inserting
<1>4. /\ result' = [result EXCEPT ![t] = old]
      /\ pc'[t] = IF old = NoVal THEN "count" ELSE "done"
  BY <1>1 DEF StoreRecord, Answer, GoTo, Retry, IndInv, ThreadsTyped
<1>5. page' = [page EXCEPT ![node[t]].recs[k] = call[t].val]
  BY DEF StoreRecord
<1>6. \A x \in Key : MapIn(page', x) = IF x = k THEN call[t].val ELSE MapIn(page, x)
  BY <1>1, <1>5, RecordWrites
<1>7. \A y : Map!After(call[t], y) = call[t].val
  BY <1>2 DEF Map!After
<1>8. pc'[t] \in Updating <=> AddsKey(t) \/ DropsKey(t)
  BY <1>2, <1>4 DEF Updating, AddsKey, DropsKey
<1>9. pc'[t] \in Updating \cup Ending
  BY <1>4 DEF Updating, Ending
<1>10. QED
  BY <1>2, <1>3, <1>4, <1>6, <1>7, <1>8, <1>9 DEF TakesEffect

LEMMA EraseEffect ==
  ASSUME IndInv, WellFormed(page, root), WellFormed(page', root'), NEW t \in Thread,
         FastRemove(t) \/ RemoveHere(t), Proper(t),
         page[node[t]].recs[call[t].key] # NoVal,
         NEW label \in Updating, EraseRecord(t, node[t], label)
  PROVE  TakesEffect(t)
<1> DEFINE k   == call[t].key
           old == MapIn(page, k)
<1>1. k \in Key /\ page[node[t]].recs[k] = old /\ old # NoVal
  BY RecordKnown
<1>2. /\ pc[t] \in {"latch", "del"} /\ call[t].op = "remove"
      /\ call' = call /\ len' = len
  BY DEF FastRemove, RemoveHere, Latched, Attempts, Proper, Removing
<1>3. Waiting(t)
  BY <1>2 DEF Waiting, Seeking, Removing
<1>4. /\ result' = [result EXCEPT ![t] = old] /\ pc'[t] = label
  BY <1>1 DEF EraseRecord, Answer, GoTo, IndInv, ThreadsTyped
<1>5. page' = [page EXCEPT ![node[t]].recs[k] = NoVal]
  BY DEF EraseRecord
<1>6. \A x \in Key : MapIn(page', x) = IF x = k THEN NoVal ELSE MapIn(page, x)
  BY <1>1, <1>5, RecordWrites
<1>7. \A y : Map!After(call[t], y) = NoVal
  BY <1>2 DEF Map!After
<1>8. pc'[t] \in Updating /\ DropsKey(t)
  BY <1>1, <1>2, <1>4 DEF Updating, DropsKey
<1>9. QED
  BY <1>2, <1>3, <1>4, <1>6, <1>7, <1>8 DEF TakesEffect

\* An operation that finds no record, or only reads it, changes no record.
LEMMA ReadEffect ==
  ASSUME ThreadsTyped, NEW t \in Thread, Proper(t), Waiting(t), call[t].key \in Key,
         call' = call, len' = len, page' = page,
         result' = result \/ result' = [result EXCEPT ![t] = MapIn(page, call[t].key)],
         result' = result => MapIn(page, call[t].key) = NoVal,
         call[t].op # "insert",
         MapIn(page, call[t].key) = NoVal \/ call[t].op = "get",
         pc'[t] \in Ending \/ (pc'[t] = "guard" /\ call[t].op = "get")
  PROVE  TakesEffect(t)
<1> DEFINE k   == call[t].key
           old == MapIn(page, k)
<1>1. result' = [result EXCEPT ![t] = old]
  <2>1. CASE result' = result
    <3>1. result[t] = NoVal /\ old = NoVal
      BY <2>1 DEF Proper
    <3>2. result \in [Thread -> Val \cup {NoVal}]
      BY DEF ThreadsTyped
    <3>3. QED
      BY <2>1, <3>1, <3>2
  <2>2. QED
    BY <2>1
<1>2. call[t].op \in {"get", "insert", "remove", "update"}
  BY DEF ThreadsTyped, Call, Op
<1>3. Map!After(call[t], old) = old
  BY <1>2 DEF Map!After
<1>4. pc'[t] \in Updating <=> AddsKey(t) \/ DropsKey(t)
  BY DEF Updating, Ending, AddsKey, DropsKey
<1>5. pc'[t] \in Updating \cup Ending \/ (pc'[t] = "guard" /\ call[t].op = "get")
  OBVIOUS
<1>6. QED
  BY <1>1, <1>3, <1>4, <1>5 DEF TakesEffect

\* Every step is of one of these kinds.
StepEffects(t) ==
  \/ Begins(t) \/ Finishes(t) \/ Drops(t) \/ Counts(t)
  \/ QuietStep(t) /\ SameMap
  \/ TakesEffect(t)

LEMMA StepEffect ==
  ASSUME TreeInv, NEW t \in Thread, Proper(t), Start(t) \/ Step(t)
  PROVE  StepEffects(t)
<1> DEFINE k   == call[t].key
           old == MapIn(page, k)
<1>1. /\ IndInv /\ WellFormed(page, root) /\ WellFormed(page', root')
      /\ ThreadsTyped /\ page \in Pages /\ page' \in Pages
  BY StepTyped, StepShape DEF TreeInv, IndInv, TreeTyped, Pages
<1>2. page' = page => SameMap
  BY DEF SameMap
<1>3. CASE Start(t)
  <2>1. call' \in [Thread -> Call]
    BY <1>1, <1>3, StepTyped DEF IndInv, ThreadsTyped
  <2>2. PICK c : call' = [call EXCEPT ![t] = c]
    BY <1>3 DEF Start
  <2>3. c \in Call
    BY <1>1, <2>1, <2>2 DEF ThreadsTyped
  <2>4. QED
    BY <1>1, <1>3, <2>2, <2>3
       DEF Start, Idle, GoTo, Answer, ThreadsTyped, tree, Begins, StepEffects
<1>4. CASE Return(t)
  BY <1>1, <1>4 DEF Return, GoTo, ThreadsTyped, tree, Finishes, StepEffects
<1>5. CASE Count(t)
  BY <1>1, <1>5 DEF Count, GoTo, Retry, ThreadsTyped, Counts, Updating, Ending, StepEffects
<1>6. CASE SeekGet(t)
  <2>1. k \in Key /\ page[node[t]].recs[k] = old
    BY <1>1, <1>6, RecordKnown
  <2>2. /\ pc[t] = "seek" /\ call[t].op = "get" /\ call' = call /\ len' = len
        /\ page' = page /\ result' = [result EXCEPT ![t] = old]
        /\ pc'[t] \in {"done", "guard"} /\ (result' = result => result[t] = old)
    BY <1>1, <1>6, <2>1 DEF SeekGet, Seeks, GoTo, Retry, Answer, ThreadsTyped, tree
  <2>3. Waiting(t)
    BY <2>2 DEF Waiting, Seeking
  <2>4. QED
    BY <1>1, <2>1, <2>2, <2>3, ReadEffect DEF Ending, Proper, StepEffects
<1>7. CASE FastUpdate(t)
  <2>1. k \in Key /\ page[node[t]].recs[k] = old
    BY <1>1, <1>7, RecordKnown
  <2>2. /\ pc[t] = "latch" /\ call[t].op = "update" /\ call' = call /\ len' = len
        /\ page' = page /\ result' = result
        /\ pc'[t] = IF old = NoVal THEN "done" ELSE "guard"
    BY <1>1, <1>7, <2>1 DEF FastUpdate, Latched, GoTo, Retry, ThreadsTyped, tree
  <2>3. CASE old = NoVal
    <3>1. Waiting(t) /\ pc'[t] \in Ending
      BY <2>2, <2>3 DEF Waiting, Seeking, Ending
    <3>2. QED
      BY <1>1, <2>1, <2>2, <2>3, <3>1, ReadEffect DEF StepEffects
  <2>4. CASE old # NoVal
    BY <1>2, <2>2, <2>4 DEF GoesOn, QuietStep, StepEffects
  <2>5. QED
    BY <2>3, <2>4
<1>8. CASE DropGuard(t)
  <2>1. /\ k \in Key /\ call[t].val \in Val /\ page[node[t]].recs[k] = old
        /\ old # NoVal
    BY <1>1, <1>8, RecordKnown DEF DropGuard, IndInv, GuardHasRecord
  <2>2. /\ pc[t] = "guard" /\ pc'[t] = "done" /\ call' = call /\ len' = len
    BY <1>1, <1>8 DEF DropGuard, GoTo, Retry, ThreadsTyped
  <2>3. CASE call[t].op = "update"
    <3>1. /\ page' = [page EXCEPT ![node[t]].recs[k] = call[t].val]
          /\ result' = [result EXCEPT ![t] = old]
      BY <1>8, <2>1, <2>3 DEF DropGuard, Answer
    <3>2. \A x \in Key : MapIn(page', x) = IF x = k THEN call[t].val ELSE MapIn(page, x)
      BY <1>1, <1>8, <2>1, <3>1, RecordWrites
    <3>3. Map!After(call[t], old) = call[t].val
      BY <2>1, <2>3 DEF Map!After
    <3>4. Waiting(t) /\ pc'[t] \in Ending /\ pc'[t] \notin Updating
          /\ ~AddsKey(t) /\ ~DropsKey(t)
      BY <2>2, <2>3 DEF Waiting, Ending, Updating, AddsKey, DropsKey
    <3>5. QED
      BY <2>2, <3>1, <3>2, <3>3, <3>4 DEF TakesEffect, StepEffects
  <2>4. CASE call[t].op # "update"
    BY <1>8, <2>2, <2>4 DEF DropGuard, Proper, Drops, StepEffects
  <2>5. QED
    BY <2>3, <2>4
<1>9. CASE FastInsert(t)
  <2>1. CASE page[node[t]].recs[k] = NoVal /\ Full(page[node[t]])
    <3>1. /\ pc[t] = "latch" /\ pc'[t] = "split_root" /\ call[t].op = "insert"
          /\ call' = call /\ len' = len /\ page' = page /\ result' = result
      BY <1>1, <1>9, <2>1 DEF FastInsert, Latched, GoTo, Retry, ThreadsTyped
    <3>2. QED
      BY <1>2, <3>1 DEF GoesOn, QuietStep, StepEffects
  <2>2. CASE StoreRecord(t, node[t])
    BY <1>1, <1>9, <2>2, StoreEffect DEF StepEffects
  <2>3. QED
    BY <1>9, <2>1, <2>2 DEF FastInsert
<1>10. CASE InsertHere(t)
  BY <1>1, <1>10, StoreEffect DEF InsertHere, StepEffects
<1>11. CASE FastRemove(t)
  <2>1. k \in Key /\ page[node[t]].recs[k] = old
    BY <1>1, <1>11, RecordKnown
  <2>2. /\ pc[t] = "latch" /\ call[t].op = "remove" /\ call' = call /\ len' = len
    BY <1>11 DEF FastRemove, Latched
  <2>3. CASE old = NoVal
    <3>1. pc'[t] = "done" /\ page' = page /\ result' = result
      BY <1>1, <1>11, <2>1, <2>3 DEF FastRemove, GoTo, Retry, ThreadsTyped
    <3>2. Waiting(t) /\ pc'[t] \in Ending
      BY <2>2, <3>1 DEF Waiting, Seeking, Ending
    <3>3. QED
      BY <1>1, <2>1, <2>2, <2>3, <3>1, <3>2, ReadEffect DEF StepEffects
  <2>4. CASE old # NoVal /\ ~page[node[t]].isRoot /\ AtMinimum(page[node[t]])
    <3>1. pc'[t] = "shrink" /\ page' = page /\ result' = result
      BY <1>1, <1>11, <2>1, <2>4 DEF FastRemove, GoTo, Retry, ThreadsTyped
    <3>2. QED
      BY <1>2, <2>2, <3>1 DEF GoesOn, QuietStep, StepEffects
  <2>5. CASE old # NoVal /\ ~(~page[node[t]].isRoot /\ AtMinimum(page[node[t]]))
    <3>1. EraseRecord(t, node[t], "count") /\ "count" \in Updating
      BY <1>11, <2>1, <2>5 DEF FastRemove, Updating
    <3>2. QED
      BY <1>1, <1>11, <2>1, <2>5, <3>1, EraseEffect DEF StepEffects
  <2>6. QED
    BY <2>3, <2>4, <2>5
<1>12. CASE RemoveHere(t)
  <2>1. k \in Key /\ page[node[t]].recs[k] = old
    BY <1>1, <1>12, RecordKnown
  <2>2. /\ pc[t] = "del" /\ call[t].op = "remove" /\ call' = call /\ len' = len
    BY <1>12 DEF RemoveHere, Attempts, Proper, Removing
  <2>3. CASE old = NoVal
    <3>1. pc'[t] = "shrink_end" /\ page' = page /\ result' = result
      BY <1>1, <1>12, <2>1, <2>3 DEF RemoveHere, GoTo, Retry, ThreadsTyped
    <3>2. Waiting(t) /\ pc'[t] \in Ending
      BY <2>2, <3>1 DEF Waiting, Removing, Ending
    <3>3. QED
      BY <1>1, <2>1, <2>2, <2>3, <3>1, <3>2, ReadEffect DEF StepEffects
  <2>4. CASE old # NoVal
    <3>1. EraseRecord(t, node[t], "count_slow") /\ "count_slow" \in Updating
      BY <1>12, <2>1, <2>4 DEF RemoveHere, Updating
    <3>2. QED
      BY <1>1, <1>12, <2>1, <2>4, <3>1, EraseEffect DEF StepEffects
  <2>5. QED
    BY <2>3, <2>4
<1>13. CASE \/ SplitRoot(t) \/ SplitChild(t) \/ Shrink(t)
            \/ BorrowFromLeft(t) \/ BorrowFromRight(t) \/ Merge(t)
            \/ FixSuccessor(t) \/ FixNone(t) \/ WalkOn(t) \/ Peek(t) \/ Join(t)
  <2>1. QuietStep(t)
    BY <1>1, <1>13, PassesGoOn
  <2>2. SameMap
    BY <1>1, <1>13, StructureRecords, SameRecordsSameMap DEF SameMap
  <2>3. QED
    BY <2>1, <2>2 DEF StepEffects
<1>14. CASE \/ ReadRoot(t) \/ SeekRestart(t) \/ SeekRight(t) \/ SeekDown(t)
            \/ SeekWriter(t) \/ Relatch(t) \/ AttemptRoot(t) \/ AttemptRight(t)
            \/ InsertRetry(t) \/ InsertDown(t) \/ FixSplit(t)
            \/ RemoveRetry(t) \/ RemoveDown(t) \/ FixStart(t) \/ WalkBack(t)
  <2>1. QuietStep(t)
    BY <1>1, <1>14, PassesGoOn
  <2>2. page' = page
    BY <1>14 DEF ReadRoot, SeekRestart, SeekRight, SeekDown, SeekWriter, Relatch,
       AttemptRoot, AttemptRight, InsertRetry, InsertDown, FixSplit, RemoveRetry,
       RemoveDown, FixStart, WalkBack, tree
  <2>3. QED
    BY <1>2, <2>1, <2>2 DEF StepEffects
<1>15. QED
  BY <1>3, <1>4, <1>5, <1>6, <1>7, <1>8, <1>9, <1>10, <1>11, <1>12, <1>13, <1>14
     DEF Step, Seek, Insert, Remove

-----------------------------------------------------------------------------
(***************************************************************************)
(* Passes belong to their operations.                                      *)
(***************************************************************************)
LEMMA EffectsProper ==
  ASSUME TreeInv, NEW t \in Thread, StepEffects(t), Start(t) \/ Step(t),
         \A u \in Thread : Proper(u)
  PROVE  \A u \in Thread : Proper(u)'
<1> USE DEF Seeking, Inserting, Removing, Updating, Ending
<1>1. /\ OthersKept(t) /\ call \in [Thread -> Call]
      /\ result \in [Thread -> Val \cup {NoVal}]
  BY OthersKeep DEF TreeInv, IndInv, ThreadsTyped
<1>2. result' = result \/ \E v : result' = [result EXCEPT ![t] = v]
  BY DEF StepEffects, Begins, Finishes, Drops, Counts, QuietStep, TakesEffect
<1>3. ASSUME NEW u \in Thread, u # t PROVE Proper(u)'
  <2>1. Proper(u) /\ pc'[u] = pc[u] /\ call'[u] = call[u] /\ result'[u] = result[u]
    BY <1>1, <1>2, <1>3 DEF OthersKept
  <2>2. QED
    BY <2>1 DEF Proper, Waiting
<1>4. Proper(t)'
  <2>1. CASE Begins(t)
    <3>1. pc'[t] = "root" /\ result'[t] = NoVal
      BY <1>1, <2>1 DEF Begins
    <3>2. QED
      BY <3>1 DEF Proper, Waiting
  <2>2. CASE Finishes(t) \/ Drops(t) \/ Counts(t)
    <3>1. pc'[t] \in Ending \cup {"idle"}
      BY <2>2 DEF Finishes, Drops, Counts
    <3>2. QED
      BY <3>1 DEF Proper, Waiting
  <2>3. CASE QuietStep(t)
    <3>1. call'[t] = call[t] /\ result'[t] = result[t] /\ GoesOn(t) /\ Proper(t)
      BY <2>3 DEF QuietStep
    <3>2. CASE pc[t] \in Ending /\ pc'[t] \in Ending
      BY <3>2 DEF Proper, Waiting
    <3>3. CASE pc[t] \in Seeking /\ pc'[t] \in Seeking
      BY <3>1, <3>3 DEF Proper, Waiting
    <3>4. CASE pc[t] \in Inserting /\ pc'[t] \in Inserting
      BY <3>1, <3>4 DEF Proper, Waiting
    <3>5. CASE pc[t] \in Removing /\ pc'[t] \in Removing
      BY <3>1, <3>5 DEF Proper, Waiting
    <3>6. CASE pc[t] = "latch"
      <4>1. result'[t] = NoVal
        BY <3>1, <3>6 DEF Proper, Waiting
      <4>2. \/ pc'[t] \in Seeking
            \/ pc'[t] = "guard" /\ call[t].op = "update"
            \/ pc'[t] = "split_root" /\ call[t].op = "insert"
            \/ pc'[t] = "shrink" /\ call[t].op = "remove"
        BY <3>1, <3>6 DEF GoesOn
      <4>3. QED
        BY <3>1, <4>1, <4>2 DEF Proper, Waiting
    <3>7. QED
      BY <3>1, <3>2, <3>3, <3>4, <3>5, <3>6 DEF GoesOn
  <2>4. CASE TakesEffect(t)
    <3>1. call'[t] = call[t]
      BY <2>4 DEF TakesEffect
    <3>2. CASE pc'[t] \in Updating
      <4>1. call[t].op \in {"insert", "remove"}
        BY <2>4, <3>2 DEF TakesEffect, AddsKey, DropsKey
      <4>2. QED
        BY <3>1, <3>2, <4>1 DEF Proper, Waiting
    <3>3. CASE pc'[t] \in Ending
      BY <3>3 DEF Proper, Waiting
    <3>4. CASE pc'[t] = "guard" /\ call[t].op = "get"
      BY <3>1, <3>4 DEF Proper, Waiting
    <3>5. QED
      BY <2>4, <3>2, <3>3, <3>4 DEF TakesEffect
  <2>5. QED
    BY <2>1, <2>2, <2>3, <2>4 DEF StepEffects
<1>5. QED
  BY <1>3, <1>4

-----------------------------------------------------------------------------
(***************************************************************************)
(* The record counter.                                                     *)
(***************************************************************************)
\* A thread that is about to count keeps the leaf latched, and the record that
\* it added is there.
Counted(t) ==
  pc[t] \in Updating =>
    /\ node[t] \in Page /\ latch[t] = [page |-> node[t], mode |-> "write"]
    /\ call[t].op = "insert" => /\ page[node[t]].kind = "leaf"
                                /\ page[node[t]].recs[call[t].key] # NoVal

LEMMA CountedOther ==
  ASSUME IndInv, NEW t \in Thread, Start(t) \/ Step(t), NEW u \in Thread \ {t},
         Counted(u)
  PROVE  Counted(u)'
<1>1. /\ pc'[u] = pc[u] /\ call'[u] = call[u] /\ node'[u] = node[u]
      /\ latch'[u] = latch[u]
  BY OthersKeep DEF OthersKept, IndInv
<1>2. CASE pc[u] \notin Updating
  BY <1>1, <1>2 DEF Counted
<1>3. CASE pc[u] \in Updating
  <2> DEFINE p == node[u]
  <2>1. p \in Page /\ latch[u] = [page |-> p, mode |-> "write"]
    BY <1>3 DEF Counted
  <2>2. p # Nil /\ PagesKept(t)
    BY <2>1, PagesKeep, ConstantFields DEF IndInv, LatchDiscipline, Page, Nil
  <2> HIDE DEF p
  <2>3. ~WriteFree(p) /\ latch[t] # [page |-> p, mode |-> "write"]
    BY <2>1, <2>2 DEF WriteFree, IndInv, LatchDiscipline, LatchesExclusive
  <2>4. page'[p] = page[p] \/ (page[p].kind = "free" /\ page[p].kind # "leaf")
    BY <2>1, <2>2, <2>3 DEF PagesKept
  <2>5. CASE page'[p] = page[p]
    BY <1>1, <1>3, <2>1, <2>5 DEF Counted, p
  <2>6. CASE page[p].kind = "free"
    BY <1>1, <1>3, <2>1, <2>6 DEF Counted, p
  <2>7. QED
    BY <2>4, <2>5, <2>6
<1>4. QED
  BY <1>2, <1>3

\* Only these steps leave their thread about to count.
LEMMA CountedOwn ==
  ASSUME TreeInv, NEW t \in Thread, Proper(t), StepEffects(t), Start(t) \/ Step(t)
  PROVE  Counted(t)'
<1> USE DEF Seeking, Inserting, Removing, Updating, Ending
<1>1. CASE pc'[t] \notin Updating
  BY <1>1 DEF Counted
<1>2. CASE pc'[t] \in Updating
  <2>1. page \in Pages /\ ThreadsTyped /\ IndInv /\ WellFormed(page, root)
    BY DEF TreeInv, IndInv, TreeTyped, Pages
  <2>2. TakesEffect(t)
    BY <1>2 DEF StepEffects, Begins, Finishes, Drops, Counts, QuietStep, GoesOn
  <2>3. /\ pc[t] \notin Updating \cup Ending \cup {"idle"} /\ call' = call
        /\ pc[t] = "guard" => call[t].op = "update"
    BY <2>2 DEF TakesEffect, Waiting
  <2>4. ~QuietStep(t)
    BY <1>2 DEF QuietStep, GoesOn
  <2>5. FastInsert(t) \/ InsertHere(t) \/ FastRemove(t) \/ RemoveHere(t)
    <3>1. ~Start(t) /\ ~Return(t) /\ ~Count(t)
      BY <2>3 DEF Start, Return, Count, Idle
    <3>2. ~SeekGet(t)
      BY <1>2, <2>1 DEF SeekGet, GoTo, Retry, ThreadsTyped
    <3>3. ~FastUpdate(t)
      BY <1>2, <2>1 DEF FastUpdate, GoTo, Retry, ThreadsTyped
    <3>4. ~DropGuard(t)
      BY <1>2, <2>1 DEF DropGuard, GoTo, Retry, ThreadsTyped
    <3>5. QED
      BY <2>1, <2>4, <3>1, <3>2, <3>3, <3>4, PassesGoOn DEF Step, Seek, Insert, Remove
  <2>6. /\ node[t] \in Page /\ call[t].key \in Key /\ call[t].val \in Val
        /\ page[node[t]].kind = "leaf"
    BY <2>1, <2>5, RecordKnown
  <2>7. page[node[t]] \in PageRec
    BY <2>1, <2>6 DEF Pages, SoundPage
  <2>8. CASE FastInsert(t) \/ InsertHere(t)
    <3>1. StoreRecord(t, node[t])
      BY <1>2, <2>1, <2>8 DEF FastInsert, InsertHere, GoTo, Retry, ThreadsTyped
    <3>2. /\ node' = node /\ latch'[t] = [page |-> node[t], mode |-> "write"]
      BY <1>2, <2>1, <3>1 DEF StoreRecord, GoTo, Retry, Hold, ThreadsTyped
    <3>3. page' = [page EXCEPT ![node[t]].recs[call[t].key] = call[t].val]
      BY <3>1 DEF StoreRecord
    <3>4. /\ page'[node[t]].kind = "leaf"
          /\ page'[node[t]].recs[call[t].key] = call[t].val
      BY <2>1, <2>6, <2>7, <3>3 DEF Pages, PageRec
    <3>5. call[t].val # NoVal
      BY <2>6, NoValAssumption
    <3>6. QED
      BY <2>3, <2>6, <3>2, <3>4, <3>5 DEF Counted
  <2>9. CASE FastRemove(t) \/ RemoveHere(t)
    <3>1. \E label : EraseRecord(t, node[t], label)
      BY <1>2, <2>1, <2>9 DEF FastRemove, RemoveHere, GoTo, Retry, ThreadsTyped
    <3>2. /\ node' = node /\ latch'[t] = [page |-> node[t], mode |-> "write"]
      BY <2>1, <3>1 DEF EraseRecord, Hold, ThreadsTyped
    <3>3. call[t].op = "remove"
      BY <2>9 DEF FastRemove, RemoveHere, Latched, Attempts, Proper
    <3>4. QED
      BY <2>3, <2>6, <3>2, <3>3 DEF Counted
  <2>10. QED
    BY <2>5, <2>8, <2>9
<1>3. QED
  BY <1>1, <1>2

StoredIn(P) == {k \in Key : MapIn(P, k) # NoVal}

LEMMA StoredHolders ==
  ASSUME NEW P \in Pages, NEW r, WellFormed(P, r)
  PROVE  StoredIn(P) = {k \in Key : Holders(P, k) # {}}
<1> SUFFICES ASSUME NEW k \in Key
             PROVE  MapIn(P, k) # NoVal <=> Holders(P, k) # {}
  BY DEF StoredIn
<1>1. CASE Holders(P, k) = {}
  BY <1>1 DEF MapIn
<1>2. CASE Holders(P, k) # {}
  <2>1. PICK p \in Holders(P, k) : TRUE
    BY <1>2
  <2>2. p \in Page /\ P[p].kind = "leaf" /\ P[p].recs[k] \in Val
    BY <2>1, HoldersOwn
  <2>3. Stores(P, k, P[p].recs[k])
    BY <2>2 DEF Stores
  <2>4. MapIn(P, k) = P[p].recs[k]
    BY <2>2, <2>3, MapStores
  <2>5. QED
    BY <1>2, <2>2, <2>4, NoValAssumption
<1>3. QED
  BY <1>1, <1>2

LEMMA StoredIs ==
  ASSUME NEW r, NEW q, page \in Pages, page' \in Pages,
         WellFormed(page, r), WellFormed(page', q)
  PROVE  Stored = StoredIn(page) /\ Stored' = StoredIn(page')
<1>1. Stored = {k \in Key : Holders(page, k) # {}}
  BY DEF Stored, Leaves, Holders
<1>2. Stored' = {k \in Key : Holders(page', k) # {}}
  BY DEF Stored, Leaves, Holders
<1>3. QED
  BY <1>1, <1>2, StoredHolders

\* One thread's step moves that thread in or out of the set at most.
LEMMA CountingMoves ==
  ASSUME NEW t \in Thread, OthersKept(t), NEW op
  PROVE  Counting(op)' = IF pc'[t] \in Updating /\ call'[t].op = op
                         THEN Counting(op) \cup {t} ELSE Counting(op) \ {t}
BY DEF Counting, OthersKept, Updating

\* Sets that gain or lose one element.
LEMMA OneMore ==
  ASSUME NEW S, IsFiniteSet(S), NEW x
  PROVE  /\ Cardinality(S) \in Nat
         /\ IsFiniteSet(S \cup {x}) /\ IsFiniteSet(S \ {x})
         /\ x \notin S => Cardinality(S \cup {x}) = Cardinality(S) + 1
         /\ x \in S    => Cardinality(S \ {x}) = Cardinality(S) - 1
BY FS_AddElement, FS_RemoveElement, FS_CardinalityType

LEMMA StoredFinite == IsFiniteSet(Key) /\ IsFiniteSet(Stored)
<1>1. IsFiniteSet(Key)
  BY FS_Interval, BoundsAssumption DEF Key
<1>2. Stored \subseteq Key
  BY DEF Stored
<1>3. QED
  BY <1>1, <1>2, FS_Subset

MapInv == /\ \A t \in Thread : Proper(t)
          /\ \A t \in Thread : Counted(t)
          /\ IsFiniteSet(Counting("insert")) /\ IsFiniteSet(Counting("remove"))
          /\ CounterTracksRecords

LEMMA CounterStep ==
  ASSUME TreeInv, MapInv, NEW t \in Thread, Start(t) \/ Step(t)
  PROVE  /\ IsFiniteSet(Counting("insert"))' /\ IsFiniteSet(Counting("remove"))'
         /\ CounterTracksRecords'
<1> DEFINE I == Counting("insert")
           R == Counting("remove")
           k == call[t].key
<1>1. /\ TreeInv' /\ OthersKept(t) /\ StepEffects(t) /\ Proper(t)
      /\ call \in [Thread -> Call] /\ pc \in [Thread -> Label]
      /\ len \in Int
  BY StepTreeInv, OthersKeep, StepEffect DEF TreeInv, IndInv, ThreadsTyped, TreeTyped, MapInv
<1>2. /\ page \in Pages /\ page' \in Pages
      /\ WellFormed(page, root) /\ WellFormed(page', root')
  BY <1>1 DEF TreeInv, IndInv, TreeTyped, Pages
<1>3. Stored = StoredIn(page) /\ Stored' = StoredIn(page')
  BY <1>2, StoredIs
<1>4. /\ I' = IF pc'[t] \in Updating /\ call'[t].op = "insert"
              THEN I \cup {t} ELSE I \ {t}
      /\ R' = IF pc'[t] \in Updating /\ call'[t].op = "remove"
              THEN R \cup {t} ELSE R \ {t}
  BY <1>1, CountingMoves
<1>5. /\ t \in I <=> pc[t] \in Updating /\ call[t].op = "insert"
      /\ t \in R <=> pc[t] \in Updating /\ call[t].op = "remove"
  BY DEF Counting, Updating
<1>6. /\ IsFiniteSet(I) /\ IsFiniteSet(R) /\ IsFiniteSet(Stored)
      /\ len = Cardinality(Stored) - Cardinality(I) + Cardinality(R)
  BY StoredFinite DEF MapInv, CounterTracksRecords
<1>7. /\ Cardinality(Stored) \in Nat /\ Cardinality(I) \in Nat /\ Cardinality(R) \in Nat
  BY <1>6, OneMore
<1>8. SUFFICES /\ IsFiniteSet(I') /\ IsFiniteSet(R')
               /\ len' = Cardinality(Stored') - Cardinality(I') + Cardinality(R')
  BY DEF CounterTracksRecords
<1> HIDE DEF I, R
<1>9. CASE Begins(t) \/ Finishes(t) \/ Drops(t) \/ (QuietStep(t) /\ SameMap)
  <2>1. pc[t] \notin Updating /\ pc'[t] \notin Updating /\ len' = len
    BY <1>9 DEF Begins, Finishes, Drops, QuietStep, GoesOn, Seeking, Inserting, Removing,
                Ending, Updating
  <2>2. StoredIn(page') = StoredIn(page)
    BY <1>9 DEF Begins, Finishes, Drops, SameMap, StoredIn
  <2>3. I' = I /\ R' = R
    BY <1>4, <1>5, <2>1
  <2>4. QED
    BY <1>3, <1>6, <2>1, <2>2, <2>3
<1>10. CASE Counts(t)
  <2>1. /\ pc[t] \in Updating /\ pc'[t] \notin Updating /\ page' = page /\ call' = call
        /\ len' = IF call[t].op = "insert" THEN len + 1 ELSE len - 1
        /\ call[t].op \in {"insert", "remove"}
    BY <1>1, <1>10 DEF Counts, Ending, Updating, Proper
  <2>2. /\ I' = I \ {t} /\ R' = R \ {t} /\ Stored' = Stored
        /\ t \in I <=> call[t].op = "insert"
        /\ t \in R <=> call[t].op = "remove"
    BY <1>3, <1>4, <1>5, <2>1
  <2>3. IsFiniteSet(I') /\ IsFiniteSet(R')
    BY <1>6, <2>2, OneMore
  <2>4. CASE call[t].op = "insert"
    <3>1. t \in I /\ R' = R /\ len' = len + 1
      BY <2>1, <2>2, <2>4
    <3>2. Cardinality(I') = Cardinality(I) - 1
      BY <1>6, <2>2, <3>1, OneMore
    <3>3. len + 1 = Cardinality(Stored) - (Cardinality(I) - 1) + Cardinality(R)
      <4>1. len = Cardinality(Stored) - Cardinality(I) + Cardinality(R)
        BY <1>6
      <4>2. QED
        BY ONLY <1>7, <4>1
    <3>4. QED
      BY <2>2, <2>3, <3>1, <3>2, <3>3
  <2>5. CASE call[t].op = "remove"
    <3>1. t \in R /\ I' = I /\ len' = len - 1
      BY <2>1, <2>2, <2>5
    <3>2. Cardinality(R') = Cardinality(R) - 1
      BY <1>6, <2>2, <3>1, OneMore
    <3>3. len - 1 = Cardinality(Stored) - Cardinality(I) + (Cardinality(R) - 1)
      <4>1. len = Cardinality(Stored) - Cardinality(I) + Cardinality(R)
        BY <1>6
      <4>2. QED
        BY ONLY <1>7, <4>1
    <3>4. QED
      BY <2>2, <2>3, <3>1, <3>2, <3>3
  <2>6. QED
    BY <2>1, <2>4, <2>5
<1>11. CASE TakesEffect(t)
  <2>1. /\ pc[t] \notin Updating /\ call' = call /\ len' = len
        /\ pc'[t] \in Updating <=> AddsKey(t) \/ DropsKey(t)
    BY <1>11 DEF TakesEffect, Waiting, Seeking, Inserting, Removing, Updating
  <2>2. call[t].op \in Op /\ k \in Key /\ call[t].val \in Val /\ call[t].val # NoVal
    BY <1>1, NoValAssumption DEF Call
  <2>3. \A x \in Key : MapIn(page', x) = IF x = k THEN Map!After(call[t], MapIn(page, x))
                                                  ELSE MapIn(page, x)
    BY <1>11 DEF TakesEffect
  <2>4. t \notin I /\ t \notin R
    BY <1>5, <2>1
  <2> HIDE DEF k
  <2>5. CASE AddsKey(t)
    <3>1. call[t].op = "insert" /\ MapIn(page, k) = NoVal
      BY <2>5 DEF AddsKey, k
    <3>2. Map!After(call[t], MapIn(page, k)) = call[t].val
      BY <3>1 DEF Map!After
    <3>3. Stored' = Stored \cup {k} /\ k \notin Stored
      BY <1>3, <2>2, <2>3, <3>1, <3>2 DEF StoredIn
    <3>4. I' = I \cup {t} /\ R' = R
      BY <1>4, <2>1, <2>4, <2>5, <3>1
    <3>5. /\ Cardinality(Stored') = Cardinality(Stored) + 1
          /\ Cardinality(I') = Cardinality(I) + 1 /\ IsFiniteSet(I')
      BY <1>6, <2>4, <3>3, <3>4, OneMore
    <3>6. QED
      BY <1>1, <1>6, <1>7, <2>1, <3>4, <3>5
  <2>6. CASE DropsKey(t)
    <3>1. call[t].op = "remove" /\ MapIn(page, k) # NoVal
      BY <2>6 DEF DropsKey, k
    <3>2. Map!After(call[t], MapIn(page, k)) = NoVal
      BY <3>1 DEF Map!After
    <3>3. Stored' = Stored \ {k} /\ k \in Stored
      BY <1>3, <2>2, <2>3, <3>1, <3>2 DEF StoredIn
    <3>4. R' = R \cup {t} /\ I' = I
      BY <1>4, <2>1, <2>4, <2>6, <3>1
    <3>5. /\ Cardinality(Stored') = Cardinality(Stored) - 1
          /\ Cardinality(R') = Cardinality(R) + 1 /\ IsFiniteSet(R')
      BY <1>6, <2>4, <3>3, <3>4, OneMore
    <3>6. QED
      BY <1>1, <1>6, <1>7, <2>1, <3>4, <3>5
  <2>7. CASE ~AddsKey(t) /\ ~DropsKey(t)
    <3>1. I' = I /\ R' = R
      BY <1>4, <2>1, <2>4, <2>7
    <3>2. Map!After(call[t], MapIn(page, k)) = NoVal <=> MapIn(page, k) = NoVal
      <4>1. CASE call[t].op = "get"
        BY <4>1 DEF Map!After
      <4>2. CASE call[t].op = "insert"
        BY <2>2, <2>7, <4>2 DEF Map!After, AddsKey, k
      <4>3. CASE call[t].op = "remove"
        BY <2>7, <4>3 DEF Map!After, DropsKey, k
      <4>4. CASE call[t].op = "update"
        BY <2>2, <4>4 DEF Map!After
      <4>5. QED
        BY <2>2, <4>1, <4>2, <4>3, <4>4 DEF Op
    <3>3. Stored' = Stored
      BY <1>3, <2>3, <3>2 DEF StoredIn
    <3>4. QED
      BY <1>6, <2>1, <3>1, <3>3
  <2>8. QED
    BY <2>5, <2>6, <2>7
<1>12. QED
  BY <1>1, <1>9, <1>10, <1>11 DEF StepEffects

LEMMA NewEmpty ==
  ASSUME NEW P, NEW r, Fresh(P, r), NEW k \in Key
  PROVE  MapIn(P, k) = NoVal
<1>1. \A p \in Page : P[p].recs[k] = NoVal
  BY DEF Fresh, LeafRoot, FreePage, NoRecs
<1>2. QED
  BY <1>1 DEF Holders, MapIn

LEMMA InitMapInv == Init => MapInv
<1> SUFFICES ASSUME Init PROVE MapInv
  OBVIOUS
<1>1. \A t \in Thread : pc[t] = "idle"
  BY DEF Init
<1>2. \A t \in Thread : Proper(t) /\ Counted(t)
  BY <1>1 DEF Proper, Counted, Waiting, Seeking, Inserting, Removing, Updating
<1>3. Counting("insert") = {} /\ Counting("remove") = {}
  BY <1>1 DEF Counting
<1>4. Stored = {}
  BY DEF Init, Stored, Leaves, LeafRoot, FreePage, NoRecs
<1>5. len = 0
  BY DEF Init
<1>6. QED
  BY <1>2, <1>3, <1>4, <1>5, FS_EmptySet DEF MapInv, CounterTracksRecords

LEMMA NextMapInv == TreeInv /\ MapInv /\ [Next]_vars => MapInv'
<1>1. ASSUME TreeInv, MapInv, NEW t \in Thread, Start(t) \/ Step(t) PROVE MapInv'
  <2>1. (\A u \in Thread : Proper(u)) /\ (\A u \in Thread : Counted(u))
    BY <1>1 DEF MapInv
  <2>2. StepEffects(t) /\ IndInv
    BY <1>1, <2>1, StepEffect DEF TreeInv
  <2>3. \A u \in Thread : Proper(u)'
    BY <1>1, <2>1, <2>2, EffectsProper
  <2>4. \A u \in Thread : Counted(u)'
    BY <1>1, <2>1, <2>2, CountedOwn, CountedOther
  <2>5. /\ IsFiniteSet(Counting("insert"))' /\ IsFiniteSet(Counting("remove"))'
        /\ CounterTracksRecords'
    BY <1>1, CounterStep
  <2>6. QED
    BY <2>3, <2>4, <2>5 DEF MapInv
<1>2. ASSUME MapInv, UNCHANGED vars PROVE MapInv'
  <2>1. /\ page' = page /\ len' = len /\ pc' = pc /\ call' = call /\ node' = node
        /\ latch' = latch /\ result' = result
    BY <1>2 DEF vars, tree, threads
  <2>2. \A t \in Thread : (Proper(t)' <=> Proper(t)) /\ (Counted(t)' <=> Counted(t))
    BY <2>1 DEF Proper, Waiting, Counted
  <2>3. \A op : Counting(op)' = Counting(op)
    BY <2>1 DEF Counting
  <2>4. Stored' = Stored
    BY <2>1 DEF Stored, Leaves
  <2>5. QED
    BY <1>2, <2>1, <2>2, <2>3, <2>4 DEF MapInv, CounterTracksRecords
<1>3. QED
  BY <1>1, <1>2 DEF Next, Terminated

LEMMA MapInvariance == Spec => [](TreeInv /\ MapInv)
<1>1. Init => TreeInv /\ MapInv
  BY InitTreeInv, InitMapInv
<1>2. TreeInv /\ MapInv /\ [Next]_vars => (TreeInv /\ MapInv)'
  BY NextTreeInv, NextMapInv
<1>3. QED
  BY <1>1, <1>2, PTL DEF Spec

\* The counter is the number of records up to the updates that their threads
\* still owe, whatever splits and merges move the records meanwhile (Tree::len,
\* node.rs).
THEOREM CounterExact == Spec => []CounterTracksRecords
BY MapInvariance, PTL DEF MapInv

\* Threads that have added a record and not counted it yet have added different
\* ones: each keeps its leaf latched.
LEMMA UncountedStored ==
  ASSUME TreeInv, MapInv
  PROVE  Cardinality(Counting("insert")) <= Cardinality(Stored)
<1> DEFINE S == Counting("insert")
           f == [t \in S |-> call[t].key]
<1>1. /\ page \in Pages /\ WellFormed(page, root) /\ LatchesExclusive
      /\ call \in [Thread -> Call]
  BY DEF TreeInv, IndInv, TreeTyped, ThreadsTyped, LatchDiscipline, Pages
<1>2. ASSUME NEW t \in S
      PROVE  /\ t \in Thread /\ call[t].key \in Key
             /\ node[t] \in Page /\ latch[t] = [page |-> node[t], mode |-> "write"]
             /\ node[t] \in Holders(page, call[t].key)
  <2>1. t \in Thread /\ pc[t] \in Updating /\ call[t].op = "insert"
    BY DEF Counting, Updating
  <2>2. Counted(t)
    BY <2>1 DEF MapInv
  <2>3. QED
    BY <1>1, <2>1, <2>2 DEF Counted, Holders, Call
<1>3. \A t \in S : f[t] \in Stored
  <2> TAKE t \in S
  <2>1. call[t].key \in Key /\ node[t] \in Holders(page, call[t].key)
    BY <1>2
  <2>2. QED
    BY <2>1 DEF Stored, Holders, Leaves
<1>4. ASSUME NEW t \in S, NEW u \in S, f[t] = f[u] PROVE t = u
  <2>1. call[t].key = call[u].key
    BY <1>4
  <2>2. node[t] = node[u]
    <3> DEFINE k == call[t].key
    <3>1. k \in Key /\ node[t] \in Holders(page, k) /\ node[u] \in Holders(page, k)
      BY <1>2, <2>1
    <3>2. /\ node[t] \in Page /\ page[node[t]].kind = "leaf"
          /\ page[node[t]].low <= k /\ k < page[node[t]].high
      BY <1>1, <3>1, HoldersOwn
    <3>3. /\ node[u] \in Page /\ page[node[u]].kind = "leaf"
          /\ page[node[u]].low <= k /\ k < page[node[u]].high
      BY <1>1, <3>1, HoldersOwn
    <3> HIDE DEF k
    <3>4. QED
      BY <1>1, <3>1, <3>2, <3>3, OneLeaf
  <2>3. /\ t \in Thread /\ u \in Thread /\ node[t] \in Page
        /\ latch[t] = [page |-> node[t], mode |-> "write"]
        /\ latch[u] = [page |-> node[u], mode |-> "write"]
    BY <1>2
  <2>4. latch[t].page = latch[u].page /\ latch[t].page # Nil /\ latch[t].mode # "read"
    BY <2>2, <2>3 DEF Page, Nil
  <2>5. QED
    BY <1>1, <2>3, <2>4 DEF LatchesExclusive
<1>5. f \in [S -> Stored] /\ \A t, u \in S : f[t] = f[u] => t = u
  BY <1>3, <1>4
<1> HIDE DEF f, S
<1>6. f \in Injection(S, Stored)
  BY <1>5 DEF Injection, IsInjective
<1>7. QED
  BY <1>6, FS_Injection, StoredFinite DEF S

LEMMA LenFollows == TreeInv /\ MapInv => LenNeverUnderflows
<1> SUFFICES ASSUME TreeInv, MapInv PROVE len >= 0
  BY DEF LenNeverUnderflows
<1>1. len = Cardinality(Stored) - Cardinality(Counting("insert"))
                                + Cardinality(Counting("remove"))
  BY DEF MapInv, CounterTracksRecords
<1>2. /\ Cardinality(Stored) \in Nat /\ Cardinality(Counting("insert")) \in Nat
      /\ Cardinality(Counting("remove")) \in Nat
  BY StoredFinite, FS_CardinalityType DEF MapInv
<1>3. QED
  BY <1>1, <1>2, UncountedStored

\* The counter never goes below zero, so that fetch_sub never wraps, although an
\* erased record may be counted before the one added before it
\* (decrement_len, node.rs).
THEOREM LenHolds == Spec => []LenNeverUnderflows
BY LenFollows, MapInvariance, PTL

-----------------------------------------------------------------------------
(***************************************************************************)
(* The tree implements OrderedMap: every step is a stutter or one of the   *)
(* abstract map's.                                                         *)
(***************************************************************************)
StatusOf(t) == IF Idle(t) THEN "idle" ELSE IF TookEffect(t) THEN "done" ELSE "invoked"

MapNow    == [k \in Key |-> MapValue(k)]
StatusNow == [t \in Thread |-> StatusOf(t)]

LEMMA MappedContents ==
  /\ MapNow  = [k \in Key |-> MapIn(page, k)]
  /\ MapNow' = [k \in Key |-> MapIn(page', k)]
<1>1. MapNow = [k \in Key |-> MapIn(page, k)]
  BY MapValueIs DEF MapNow
<1>2. MapNow' = [k \in Key |-> MapValue(k)']
  BY DEF MapNow
<1>3. QED
  BY <1>1, <1>2, MapValueIs

LEMMA MappedStatuses ==
  ASSUME NEW t \in Thread, OthersKept(t)
  PROVE  StatusNow' = [StatusNow EXCEPT ![t] = StatusOf(t)']
<1>1. StatusNow' = [u \in Thread |-> StatusOf(u)']
  BY DEF StatusNow
<1>2. \A u \in Thread \ {t} : StatusOf(u)' = StatusOf(u)
  BY DEF OthersKept, StatusOf, Idle, TookEffect
<1>3. QED
  BY <1>1, <1>2 DEF StatusNow

LEMMA MapInit == Init => Map!Init
<1> SUFFICES ASSUME Init PROVE Map!Init
  OBVIOUS
<1>1. MapNow = [k \in Key |-> NoVal]
  BY NewEmpty, MappedContents DEF Init, Fresh
<1>2. StatusNow = [t \in Thread |-> "idle"]
  BY DEF Init, StatusNow, StatusOf, Idle
<1>3. call \in [Thread -> Call] /\ result = [t \in Thread |-> NoVal]
  BY InitTreeInv DEF Init, TreeInv, IndInv, ThreadsTyped
<1>4. QED
  BY <1>1, <1>2, <1>3 DEF Map!Init, Map!Call, Call, Op, MapNow, StatusNow, StatusOf

LEMMA MapStep ==
  ASSUME TreeInv, MapInv, NEW t \in Thread, Start(t) \/ Step(t)
  PROVE  [Map!Next]_Map!vars
<1>1. /\ OthersKept(t) /\ StepEffects(t) /\ Proper(t)
      /\ call \in [Thread -> Call] /\ result \in [Thread -> Val \cup {NoVal}]
      /\ page \in Pages /\ WellFormed(page, root)
  BY OthersKeep, StepEffect
     DEF TreeInv, IndInv, ThreadsTyped, TreeTyped, MapInv, Pages
<1>2. StatusNow' = [StatusNow EXCEPT ![t] = StatusOf(t)'] /\ StatusNow[t] = StatusOf(t)
  BY <1>1, MappedStatuses DEF StatusNow
<1>3. \A u \in Thread : StatusNow[u] = StatusOf(u)
  BY DEF StatusNow
<1>4. CASE Begins(t)
  <2>1. StatusOf(t) = "idle" /\ StatusOf(t)' = "invoked"
    BY <1>4 DEF Begins, StatusOf, Idle, TookEffect
  <2>2. MapNow' = MapNow
    BY <1>4, MappedContents DEF Begins
  <2>3. Map!Invoke(t)
    BY <1>2, <1>4, <2>1, <2>2
       DEF Begins, Map!Invoke, Map!Call, Call, Op, MapNow, StatusNow, StatusOf
  <2>4. QED
    BY <2>3 DEF Map!Next
<1>5. CASE Finishes(t)
  <2>1. StatusOf(t) = "done" /\ StatusOf(t)' = "idle"
    BY <1>5 DEF Finishes, StatusOf, Idle, TookEffect
  <2>2. MapNow' = MapNow
    BY <1>5, MappedContents DEF Finishes
  <2>3. Map!Return(t)
    BY <1>2, <1>5, <2>1, <2>2
       DEF Finishes, Map!Return, MapNow, StatusNow, StatusOf
  <2>4. QED
    BY <2>3 DEF Map!Next
<1>6. CASE Drops(t) \/ Counts(t) \/ (QuietStep(t) /\ SameMap)
  <2>1. StatusOf(t)' = StatusOf(t)
    BY <1>1, <1>6
       DEF Drops, Counts, QuietStep, GoesOn, Seeking, Inserting, Removing, Ending, Updating,
           StatusOf, Idle, TookEffect
  <2>2. MapNow' = MapNow
    BY <1>6, MappedContents DEF Drops, Counts, SameMap
  <2>3. StatusNow' = StatusNow
    BY <1>2, <2>1 DEF StatusNow
  <2>4. call' = call /\ result' = result
    BY <1>6 DEF Drops, Counts, QuietStep
  <2>5. QED
    BY <2>2, <2>3, <2>4 DEF Map!vars, MapNow, StatusNow, StatusOf
<1>7. CASE TakesEffect(t)
  <2>1. StatusOf(t) = "invoked" /\ StatusOf(t)' = "done"
    BY <1>7 DEF TakesEffect, Waiting, Seeking, Inserting, Removing, Ending, Updating,
                StatusOf, Idle, TookEffect
  <2>2. /\ call[t].key \in Key /\ call' = call
        /\ result' = [result EXCEPT ![t] = MapNow[call[t].key]]
    BY <1>1, <1>7, MappedContents DEF TakesEffect, Call
  <2>3. MapNow' = [MapNow EXCEPT ![call[t].key] =
                                 Map!After(call[t], MapNow[call[t].key])]
    BY <1>7, <2>2, MappedContents DEF TakesEffect
  <2>4. Map!TakeEffect(t)
    BY <1>2, <2>1, <2>2, <2>3 DEF Map!TakeEffect, MapNow, StatusNow, StatusOf
  <2>5. QED
    BY <2>4 DEF Map!Next
<1>8. QED
  BY <1>1, <1>4, <1>5, <1>6, <1>7 DEF StepEffects

LEMMA MapSteps == TreeInv /\ MapInv /\ [Next]_vars => [Map!Next]_Map!vars
<1>1. ASSUME UNCHANGED vars PROVE UNCHANGED Map!vars
  <2>1. page' = page /\ pc' = pc /\ call' = call /\ result' = result
    BY <1>1 DEF vars, tree, threads
  <2>2. MapNow' = MapNow
    BY <2>1, MappedContents
  <2>3. StatusNow' = StatusNow
    BY <2>1 DEF StatusNow, StatusOf, Idle, TookEffect
  <2>4. QED
    BY <2>1, <2>2, <2>3 DEF Map!vars, MapNow, StatusNow, StatusOf
<1>2. QED
  BY <1>1, MapStep DEF Next, Terminated

\* Every operation takes effect on the whole map at one instant between its call
\* and its return, and returns what the map held then (map.rs: "reads and writes
\* are linearizable"): the concurrent tree implements OrderedMap.
THEOREM Linearizable == Spec => LinearizableMap
BY MapInit, MapSteps, MapInvariance, PTL DEF Spec, LinearizableMap, Map!Spec

-----------------------------------------------------------------------------
(***************************************************************************)
(* BLinkMap::clear.  A fresh tree replaces the old one while no call is in *)
(* progress, so no thread relies on a page, a latch or a link.             *)
(***************************************************************************)
\* Everything that holds between two steps.
MapState == TreeInv /\ LinkInv /\ AllPlain(page) /\ MapInv /\ Labelled

LEMMA ClearFacts ==
  ASSUME TreeInv, Clear
  PROVE  /\ root' \in Page /\ Fresh(page', root') /\ len' = 0
         /\ UNCHANGED threads
         /\ \A t \in Thread : pc[t] = "idle" /\ pc'[t] = "idle"
<1>1. Unallocated # {} /\ \A t \in Thread : pc[t] = "idle"
  BY DEF Clear, MayClear, AtRest, Idle
<1>2. FirstNew \in Page
  BY <1>1, NewPagesExist DEF TreeInv, IndInv, TreeTyped, Unallocated
<1>3. QED
  BY <1>1, <1>2 DEF Clear, NewTree, Fresh, threads

LEMMA ClearTreeInv == TreeInv /\ Clear => TreeInv'
<1> SUFFICES ASSUME TreeInv, Clear PROVE TreeInv'
  OBVIOUS
<1>1. /\ root' \in Page /\ Fresh(page', root') /\ len' = 0
      /\ UNCHANGED threads
      /\ \A t \in Thread : pc[t] = "idle" /\ pc'[t] = "idle"
  BY ClearFacts
<1>2. WellFormed(page', root') /\ Bounded(page', root')
  BY <1>1, NewShape, NewBounded
<1>3. FreePage \in SoundPage /\ LeafRoot \in SoundPage
  <2>1. 1 \in Key /\ Nil \in Ref
    BY WorkloadAssumption, BoundsAssumption, ConstantFields DEF Key
  <2>2. QED
    BY <2>1, NewPagesSound
<1>4. TreeTyped'
  BY <1>1, <1>3 DEF Fresh, TreeTyped
<1>5. ThreadsTyped'
  BY <1>1 DEF TreeInv, IndInv, ThreadsTyped, threads
<1>6. LatchDiscipline'
  BY <1>1 DEF TreeInv, IndInv, LatchDiscipline, GuardLatched, RepairLatched,
              LatchesExclusive, threads
<1>7. GuardHasRecord'
  BY <1>1 DEF GuardHasRecord
<1>8. QED
  BY <1>2, <1>4, <1>5, <1>6, <1>7 DEF TreeInv, IndInv

LEMMA ClearLinkInv == TreeInv /\ Clear => LinkInv' /\ AllPlain(page')
<1> SUFFICES ASSUME TreeInv, Clear PROVE LinkInv' /\ AllPlain(page')
  OBVIOUS
<1>1. /\ root' \in Page /\ Fresh(page', root')
      /\ \A t \in Thread : pc'[t] = "idle"
  BY ClearFacts
<1>2. PICK d, k : Linked(page', d) /\ Ranked(page', k)
  BY <1>1, NewLinks
<1>3. \A t \in Thread : Sees(t, d)'
  BY <1>1 DEF Sees, MergeFix, Repairing, Joining
<1>4. QED
  BY <1>1, <1>2, <1>3, NewPlain DEF LinkInv

LEMMA ClearMapInv == TreeInv /\ Clear => MapInv'
<1> SUFFICES ASSUME TreeInv, Clear PROVE MapInv'
  OBVIOUS
<1>1. /\ Fresh(page', root') /\ len' = 0
      /\ \A t \in Thread : pc'[t] = "idle"
  BY ClearFacts
<1>2. \A t \in Thread : Proper(t)' /\ Counted(t)'
  BY <1>1 DEF Proper, Counted, Waiting, Seeking, Inserting, Removing, Updating
<1>3. Counting("insert")' = {} /\ Counting("remove")' = {}
  BY <1>1 DEF Counting
<1>4. Stored' = {}
  BY <1>1 DEF Fresh, Stored, Leaves, LeafRoot, FreePage, NoRecs
<1>5. QED
  BY <1>1, <1>2, <1>3, <1>4, FS_EmptySet DEF MapInv, CounterTracksRecords

LEMMA ClearInvariance == ClearSpec => []MapState
<1>1. ClearInit => MapState
  <2>1. Init => AllPlain(page)
    <3>1. Init => Fresh(page, 1)
      BY DEF Init, Fresh
    <3>2. QED
      BY <3>1, NewPlain
  <2>2. QED
    BY <2>1, InitTreeInv, InitLinks, InitMapInv, InitLabels DEF ClearInit, MapState
<1>2. MapState /\ [ClearNext]_<<vars, cleared>> => MapState'
  <2> SUFFICES ASSUME MapState, [ClearNext]_<<vars, cleared>> PROVE MapState'
    OBVIOUS
  <2>1. TreeInv /\ LinkInv /\ AllPlain(page) /\ MapInv /\ Labelled
    BY DEF MapState
  <2>2. CASE [Next]_vars
    <3>1. TreeInv' /\ LinkInv' /\ MapInv'
      BY <2>1, <2>2, NextTreeInv, NextLinkInv, NextMapInv
    <3>2. AllPlain(page)' /\ Labelled'
      BY <2>1, <2>2, NextPlain, NextLabels
    <3>3. QED
      BY <3>1, <3>2 DEF MapState
  <2>3. CASE Clear
    <3>1. TreeInv' /\ LinkInv' /\ AllPlain(page') /\ MapInv'
      BY <2>1, <2>3, ClearTreeInv, ClearLinkInv, ClearMapInv
    <3>2. Labelled'
      BY <2>1, <2>3, ClearFacts DEF Labelled, threads
    <3>3. QED
      BY <3>1, <3>2 DEF MapState
  <2>4. QED
    BY <2>2, <2>3 DEF ClearNext
<1>3. QED
  BY <1>1, <1>2, PTL DEF ClearSpec

\* A map that is also cleared between calls keeps every promise of its tree: the
\* shape, the occupancy, the links and the counter (BLinkMap::clear, map.rs).
THEOREM ClearKeepsTree ==
  ClearSpec => [](/\ TypeOK /\ LatchDiscipline /\ GuardHasRecord
                  /\ TreeShape /\ OccupancyWithinBounds
                  /\ RightLinkFindsNeighbour /\ RedirectsEnd /\ NoStrongCycle
                  /\ CounterTracksRecords /\ LenNeverUnderflows)
<1>1. MapState => /\ TypeOK /\ LatchDiscipline /\ GuardHasRecord
                  /\ TreeShape /\ OccupancyWithinBounds
                  /\ RightLinkFindsNeighbour /\ RedirectsEnd /\ NoStrongCycle
                  /\ CounterTracksRecords /\ LenNeverUnderflows
  <2> SUFFICES ASSUME MapState
               PROVE  /\ TypeOK /\ LatchDiscipline /\ GuardHasRecord
                      /\ TreeShape /\ OccupancyWithinBounds
                      /\ RightLinkFindsNeighbour /\ RedirectsEnd /\ NoStrongCycle
                      /\ CounterTracksRecords /\ LenNeverUnderflows
    OBVIOUS
  <2>1. TreeInv /\ LinkInv /\ AllPlain(page) /\ MapInv /\ Labelled
    BY DEF MapState
  <2>2. TypeOK /\ LatchDiscipline /\ GuardHasRecord
    BY <2>1, TypeOKSplits DEF TreeInv, IndInv
  <2>3. TreeShape /\ OccupancyWithinBounds
    BY <2>1, ShapeFollows, OccupancyFollows
  <2>4. RightLinkFindsNeighbour /\ RedirectsEnd /\ NoStrongCycle
    BY <2>1, RightLinksFollow, RedirectsFollow, NoCycleFollows
  <2>5. CounterTracksRecords /\ LenNeverUnderflows
    BY <2>1, LenFollows DEF MapInv
  <2>6. QED
    BY <2>2, <2>3, <2>4, <2>5
<1>2. QED
  BY <1>1, ClearInvariance, PTL

\* Clearing is one step of the abstract map: it becomes empty while no operation
\* is in progress (BLinkMap::clear takes &mut self, map.rs).
LEMMA ClearSteps == TreeInv /\ Clear => Map!Clear
<1> SUFFICES ASSUME TreeInv, Clear PROVE Map!Clear
  OBVIOUS
<1>1. /\ Fresh(page', root') /\ UNCHANGED threads
      /\ \A t \in Thread : pc[t] = "idle" /\ pc'[t] = "idle"
  BY ClearFacts
<1>2. MapNow' = [k \in Key |-> NoVal]
  BY <1>1, NewEmpty, MappedContents
<1>3. StatusNow = [t \in Thread |-> "idle"] /\ StatusNow' = StatusNow
  BY <1>1 DEF StatusNow, StatusOf, Idle, threads
<1>4. call' = call /\ result' = result
  BY <1>1 DEF threads
<1>5. QED
  BY <1>2, <1>3, <1>4 DEF Map!Clear, MapNow, StatusNow, StatusOf

\* The map stays linearizable when it is cleared between calls: with clear, too,
\* the tree implements OrderedMap (map.rs).
THEOREM ClearLinearizable == ClearSpec => LinearizableMap
<1>1. ClearInit => Map!Init
  BY MapInit DEF ClearInit
<1>2. MapState /\ [ClearNext]_<<vars, cleared>> => [Map!Next]_Map!vars
  <2> SUFFICES ASSUME MapState, [ClearNext]_<<vars, cleared>> PROVE [Map!Next]_Map!vars
    OBVIOUS
  <2>1. TreeInv /\ MapInv
    BY DEF MapState
  <2>2. CASE [Next]_vars
    BY <2>1, <2>2, MapSteps
  <2>3. CASE Clear
    <3>1. Map!Clear
      BY <2>1, <2>3, ClearSteps
    <3>2. QED
      BY <3>1 DEF Map!Next
  <2>4. QED
    BY <2>2, <2>3 DEF ClearNext
<1>3. QED
  BY <1>1, <1>2, ClearInvariance, PTL DEF ClearSpec, LinearizableMap, Map!Spec

-----------------------------------------------------------------------------
(***************************************************************************)
(* No step of another thread touches a scanner's call or its place in it.  *)
(***************************************************************************)
ThreadMaps == DOMAIN pc = Thread /\ DOMAIN call = Thread

CallsKept(t) == \A u \in Thread \ {t} : pc'[u] = pc[u] /\ call'[u] = call[u]

\* Every action of BLinkTree.
LEMMA TreeStepKeeps ==
  ASSUME ThreadMaps, NEW t \in Thread, Start(t) \/ Step(t)
  PROVE  ThreadMaps' /\ CallsKept(t)
<1> USE DEF ThreadMaps, CallsKept, tree, GoTo, Retry, Resume, StoreRecord, EraseRecord
<1>1. CASE Start(t)
  BY <1>1 DEF Start
<1>2. CASE ReadRoot(t)
  BY <1>2 DEF ReadRoot
<1>3. CASE SeekRestart(t)
  BY <1>3 DEF SeekRestart
<1>4. CASE SeekRight(t)
  BY <1>4 DEF SeekRight
<1>5. CASE SeekDown(t)
  BY <1>5 DEF SeekDown
<1>6. CASE SeekGet(t)
  BY <1>6 DEF SeekGet
<1>7. CASE SeekWriter(t)
  BY <1>7 DEF SeekWriter
<1>8. CASE DropGuard(t)
  BY <1>8 DEF DropGuard
<1>9. CASE Relatch(t)
  BY <1>9 DEF Relatch
<1>10. CASE FastUpdate(t)
  BY <1>10 DEF FastUpdate
<1>11. CASE Count(t)
  BY <1>11 DEF Count
<1>12. CASE AttemptRoot(t)
  BY <1>12 DEF AttemptRoot
<1>13. CASE AttemptRight(t)
  BY <1>13 DEF AttemptRight
<1>14. CASE FastInsert(t)
  BY <1>14 DEF FastInsert
<1>15. CASE SplitRoot(t)
  BY <1>15 DEF SplitRoot
<1>16. CASE InsertRetry(t)
  BY <1>16 DEF InsertRetry
<1>17. CASE InsertHere(t)
  BY <1>17 DEF InsertHere
<1>18. CASE InsertDown(t)
  BY <1>18 DEF InsertDown
<1>19. CASE SplitChild(t)
  BY <1>19 DEF SplitChild
<1>20. CASE FixSplit(t)
  BY <1>20 DEF FixSplit
<1>21. CASE FixSuccessor(t)
  BY <1>21 DEF FixSuccessor
<1>22. CASE FastRemove(t)
  BY <1>22 DEF FastRemove
<1>23. CASE Shrink(t)
  BY <1>23 DEF Shrink
<1>24. CASE RemoveRetry(t)
  BY <1>24 DEF RemoveRetry
<1>25. CASE RemoveHere(t)
  BY <1>25 DEF RemoveHere
<1>26. CASE RemoveDown(t)
  BY <1>26 DEF RemoveDown
<1>27. CASE BorrowFromLeft(t)
  BY <1>27 DEF BorrowFromLeft
<1>28. CASE BorrowFromRight(t)
  BY <1>28 DEF BorrowFromRight
<1>29. CASE Merge(t)
  BY <1>29 DEF Merge
<1>30. CASE FixStart(t)
  BY <1>30 DEF FixStart
<1>31. CASE FixNone(t)
  BY <1>31 DEF FixNone
<1>32. CASE WalkBack(t)
  BY <1>32 DEF WalkBack
<1>33. CASE WalkOn(t)
  BY <1>33 DEF WalkOn
<1>34. CASE Peek(t)
  BY <1>34 DEF Peek
<1>35. CASE Join(t)
  BY <1>35 DEF Join
<1>36. CASE Return(t)
  BY <1>36 DEF Return
<1>37. QED
  BY <1>1, <1>2, <1>3, <1>4, <1>5, <1>6, <1>7, <1>8, <1>9, <1>10, <1>11,
     <1>12, <1>13, <1>14, <1>15, <1>16, <1>17, <1>18, <1>19, <1>20, <1>21,
     <1>22, <1>23, <1>24, <1>25, <1>26, <1>27, <1>28, <1>29, <1>30, <1>31,
     <1>32, <1>33, <1>34, <1>35, <1>36
     DEF Step, Seek, Insert, Remove

-----------------------------------------------------------------------------
(***************************************************************************)
(* The cursor's invariant: what a running call seeks is what the cursor    *)
(* has reached, or the start bound before it has reached anything.         *)
(***************************************************************************)
CursorOK(s) ==
  /\ call[s] \in Call
  /\ last[s] # NegInf => InsideStart(s, last[s])
  /\ pc[s] \in {"edge_root", "edge", "edge_leaf"} =>
       last[s] = NegInf /\ query[s].start.kind = "unbounded"
  /\ pc[s] \in {"root", "seek", "walk"} =>
       IF last[s] = NegInf
       THEN query[s].start.kind # "unbounded" /\ call[s].key = query[s].start.key
       ELSE call[s].key = last[s]

CursorInv == /\ ThreadMaps
             /\ query \in [Scanner -> Queries]
             /\ last  \in [Scanner -> Key \cup {NegInf}]
             /\ \A s \in Scanner : CursorOK(s)

\* The step of s's cursor keeps to the order and the bounds.
Ascends(s) == Yields(s) => /\ last'[s] > last[s]
                           /\ InsideStart(s, last'[s]) /\ InsideEnd(s, last'[s])

LEMMA QueriesTyped == \A q \in Queries : q \in Query
BY ScanAssumption

LEMMA CursorInit == ScanInit => CursorInv
<1> SUFFICES ASSUME ScanInit PROVE CursorInv
  OBVIOUS
<1>1. Call # {}
  <2>1. PICK v \in Val : TRUE
    BY WorkloadAssumption
  <2>2. 1 \in Key
    BY WorkloadAssumption, BoundsAssumption DEF Key
  <2>3. [op |-> "get", key |-> 1, val |-> v] \in Call
    BY <2>2 DEF Call, Op
  <2>4. QED
    BY <2>3
<1>2. (CHOOSE c \in Call : TRUE) \in Call
  BY <1>1
<1>3. ASSUME NEW s \in Scanner PROVE CursorOK(s)
  <2>1. s \in Thread
    BY ScanAssumption
  <2>2. call[s] \in Call /\ pc[s] = "idle" /\ last[s] = NegInf
    BY <1>2, <2>1 DEF ScanInit, Init
  <2>3. QED
    BY <2>2 DEF CursorOK
<1>4. QED
  BY <1>3 DEF CursorInv, ThreadMaps, ScanInit, Init

\* A record that a seek may return is the cursor's next one.
LEMMA FoundIsNext ==
  ASSUME CursorInv, NEW s \in Scanner, pc[s] \in {"seek", "walk"}, NEW pg,
         NEW k \in Above(s, pg)
  PROVE  k \in Key /\ k > last[s] /\ InsideStart(s, k)
<1>1. k \in Key
  BY DEF Above, Records
<1>2. last[s] \in Key \cup {NegInf} /\ query[s] \in Query
  BY QueriesTyped DEF CursorInv
<1>3. query[s].start.key \in Key
  BY <1>2 DEF Query, Bound
<1>4. CASE last[s] = NegInf
  BY <1>1, <1>3, <1>4 DEF CursorInv, CursorOK, Above, InsideStart, Key, NegInf
<1>5. CASE last[s] # NegInf
  <2>1. k > last[s]
    BY <1>5 DEF CursorInv, CursorOK, Above
  <2>2. QED
    BY <1>1, <1>2, <1>3, <1>5, <2>1
       DEF CursorInv, CursorOK, InsideStart, Key, NegInf
<1>6. QED
  BY <1>4, <1>5

\* A record at the edge of the map starts the cursor.
LEMMA EdgeIsNext ==
  ASSUME CursorInv, NEW s \in Scanner, pc[s] = "edge_leaf", NEW k \in Key
  PROVE  k > last[s] /\ InsideStart(s, k)
BY DEF CursorInv, CursorOK, InsideStart, Key, NegInf

\* An item returned in order leaves the cursor in order.
LEMMA ReturnsKeeps ==
  ASSUME CursorInv, NEW s \in Scanner, NEW k \in Key, k > last[s],
         InsideStart(s, k), Returns(s, k), UNCHANGED <<call, query>>
  PROVE  CursorInv' /\ Ascends(s)
<1> USE DEF Returns, GoTo, Retry
<1>1. s \in Thread /\ DOMAIN pc = Thread
  BY ScanAssumption DEF CursorInv, ThreadMaps
<1>2. ASSUME NEW u \in Scanner, u # s PROVE CursorOK(u)'
  <2>1. u \in Thread
    BY ScanAssumption
  <2>2. UNCHANGED <<pc[u], last[u]>>
    BY <1>1, <1>2, <2>1 DEF CursorInv
  <2>3. QED
    BY <2>2 DEF CursorInv, CursorOK, InsideStart
<1>3. CASE InsideEnd(s, k)
  <2>1. last'[s] = k /\ pc'[s] = "item"
    BY <1>1, <1>3 DEF CursorInv
  <2>2. CursorOK(s)'
    BY <2>1 DEF CursorInv, CursorOK, InsideStart
  <2>3. ThreadMaps' /\ last' \in [Scanner -> Key \cup {NegInf}]
    BY <1>3 DEF CursorInv, ThreadMaps
  <2>4. Ascends(s)
    BY <1>3, <2>1 DEF Ascends
  <2>5. QED
    BY <1>2, <2>2, <2>3, <2>4 DEF CursorInv
<1>4. CASE ~InsideEnd(s, k)
  <2>1. pc'[s] = "done" /\ UNCHANGED last
    BY <1>1, <1>4
  <2>2. CursorOK(s)' /\ Ascends(s)
    BY <2>1 DEF CursorInv, CursorOK, InsideStart, Ascends, Yields
  <2>3. ThreadMaps'
    BY <1>4 DEF CursorInv, ThreadMaps
  <2>4. QED
    BY <1>2, <2>1, <2>2, <2>3 DEF CursorInv
<1>5. QED
  BY <1>3, <1>4

\* A step in which nothing is returned and no cursor changes.
Quiet(s) == /\ ThreadMaps' /\ CallsKept(s)
            /\ UNCHANGED cursors
            /\ CursorOK(s)'
            /\ ~Yields(s)

LEMMA QuietKeeps ==
  ASSUME CursorInv, NEW s \in Scanner, Quiet(s)
  PROVE  CursorInv' /\ Ascends(s)
<1>1. ASSUME NEW u \in Scanner, u # s PROVE CursorOK(u)'
  <2>1. u \in Thread
    BY ScanAssumption
  <2>2. UNCHANGED <<pc[u], call[u], query, last>>
    BY <1>1, <2>1 DEF Quiet, CallsKept, cursors
  <2>3. QED
    BY <2>2 DEF CursorInv, CursorOK, InsideStart
<1>2. QED
  BY <1>1 DEF CursorInv, Quiet, Ascends, cursors

\* Beginning a call seeks what the cursor's invariant says.
LEMMA BeginKeeps ==
  ASSUME CursorInv, NEW s \in Scanner, BeginCall(s)
  PROVE  Quiet(s)
<1> DEFINE from == IF last[s] = NegInf THEN query[s].start.key ELSE last[s]
           atEdge == last[s] = NegInf /\ query[s].start.kind = "unbounded"
<1>1. s \in Thread
  BY ScanAssumption
<1>2. call[s] \in Call /\ last[s] \in Key \cup {NegInf} /\ query[s] \in Query
  BY QueriesTyped DEF CursorInv, CursorOK
<1>3. from \in Key
  BY <1>2 DEF Query, Bound
<1>4. UNCHANGED cursors /\ (last[s] # NegInf => InsideStart(s, last[s]))
  BY DEF BeginCall, CursorInv, CursorOK
<1>5. CASE atEdge
  <2>1. pc' = [pc EXCEPT ![s] = "edge_root"] /\ UNCHANGED call
    BY <1>5 DEF BeginCall, GoTo
  <2>2. pc'[s] = "edge_root"
    BY <1>1, <2>1 DEF CursorInv, ThreadMaps
  <2>3. CursorOK(s)'
    BY <1>2, <1>4, <1>5, <2>1, <2>2 DEF CursorOK, cursors, InsideStart
  <2>4. QED
    BY <1>1, <1>4, <2>1, <2>2, <2>3
       DEF Quiet, CursorInv, ThreadMaps, CallsKept, Yields
<1>6. CASE ~atEdge
  <2>1. /\ pc' = [pc EXCEPT ![s] = "root"]
        /\ call' = [call EXCEPT ![s].op = "get", ![s].key = from]
    BY <1>6 DEF BeginCall, GoTo
  <2>2. pc'[s] = "root" /\ call'[s] = [call[s] EXCEPT !.op = "get", !.key = from]
    BY <1>1, <2>1 DEF CursorInv, ThreadMaps
  <2>3. call'[s] \in Call /\ call'[s].key = from
    BY <1>2, <1>3, <2>2 DEF Call, Op
  <2>4. CursorOK(s)'
    BY <1>2, <1>4, <1>6, <2>2, <2>3 DEF CursorOK, cursors, InsideStart
  <2>5. QED
    BY <1>1, <1>4, <2>1, <2>2, <2>4
       DEF Quiet, CursorInv, ThreadMaps, CallsKept, Yields
<1>7. QED
  BY <1>5, <1>6

\* A step that only goes from page to page.
LEMMA WalksKeep ==
  ASSUME CursorInv, NEW s \in Scanner,
         \/ DropItem(s) \/ EdgeRoot(s) \/ EdgeDown(s) \/ EdgeOn(s) \/ EdgeLeaf(s)
         \/ EdgeAgain(s) \/ ScanSeek(s) \/ ScanNextLeaf(s) \/ ScanEnd(s)
         \/ ScanForward(s)
  PROVE  Quiet(s)
<1>1. s \in Thread /\ DOMAIN pc = Thread
  BY ScanAssumption DEF CursorInv, ThreadMaps
<1>2. UNCHANGED cursors /\ UNCHANGED call
  BY DEF DropItem, EdgeRoot, EdgeDown, EdgeOn, EdgeLeaf, EdgeAgain, ScanSeek,
         ReadRoot, SeekRestart, SeekRight, SeekDown, ScanNextLeaf, ScanEnd,
         ScanForward
<1>3. DOMAIN pc' = Thread /\ \A u \in Thread \ {s} : pc'[u] = pc[u]
  BY <1>1 DEF DropItem, EdgeRoot, EdgeDown, EdgeOn, EdgeLeaf, EdgeAgain, ScanSeek,
         ReadRoot, SeekRestart, SeekRight, SeekDown, ScanNextLeaf, ScanEnd,
         ScanForward, GoTo, Retry
<1>4. \/ pc'[s] \in {"idle", "done"}
      \/ /\ pc[s] \in {"edge_root", "edge", "edge_leaf"}
         /\ pc'[s] \in {"edge", "edge_leaf"}
      \/ /\ pc[s] \in {"root", "seek", "walk"}
         /\ pc'[s] \in {"root", "seek", "walk"}
  BY <1>1 DEF DropItem, EdgeRoot, EdgeDown, EdgeOn, EdgeLeaf, EdgeAgain, ScanSeek,
         ReadRoot, SeekRestart, SeekRight, SeekDown, Seeks, ScanNextLeaf, ScanEnd,
         ScanForward, AtEdge, AtLeaf, GoTo, Retry
<1>5. CursorOK(s)'
  BY <1>2, <1>4 DEF CursorInv, CursorOK, cursors, InsideStart
<1>6. QED
  BY <1>2, <1>3, <1>4, <1>5
     DEF Quiet, CursorInv, ThreadMaps, CallsKept, Yields

\* The two steps that can return an item.
LEMMA FindsKeep ==
  ASSUME CursorInv, NEW s \in Scanner, EdgeEntry(s) \/ ScanFound(s)
  PROVE  CursorInv' /\ Ascends(s)
<1>1. s \in Thread /\ DOMAIN pc = Thread
  BY ScanAssumption DEF CursorInv, ThreadMaps
<1>2. CASE ScanFound(s)
  <2> DEFINE pg == page[node[s]]
             k  == Min(Above(s, pg))
  <2>1. pc[s] \in {"seek", "walk"} /\ Above(s, pg) # {} /\ Returns(s, k)
        /\ UNCHANGED <<call, query>>
    BY <1>2 DEF ScanFound, AtLeaf, Seeks, AtEdge
  <2>2. Above(s, pg) \subseteq Nat
    BY BoundsAssumption DEF Above, Records, Key
  <2>3. k \in Above(s, pg)
    BY <2>1, <2>2, MinIsLeast
  <2>4. k \in Key /\ k > last[s] /\ InsideStart(s, k)
    BY <2>1, <2>3, FoundIsNext
  <2>5. QED
    BY <2>1, <2>4, ReturnsKeeps
<1>3. CASE EdgeEntry(s)
  <2> DEFINE found == Records(page[node[s]])
             k     == IF query[s].op = "last" THEN Max(found) ELSE Min(found)
  <2>1. pc[s] = "edge_leaf" /\ UNCHANGED <<call, query>>
    BY <1>3 DEF EdgeEntry, AtEdge
  <2>2. CASE found = {}
    <3>1. pc' = [pc EXCEPT ![s] = "done"] /\ UNCHANGED last
      BY <1>3, <2>2 DEF EdgeEntry, Retry, GoTo
    <3>2. pc'[s] = "done"
      BY <1>1, <3>1
    <3>3. CursorOK(s)'
      BY <2>1, <3>1, <3>2 DEF CursorInv, CursorOK, InsideStart
    <3>4. Quiet(s)
      BY <1>1, <2>1, <3>1, <3>2, <3>3
         DEF Quiet, CursorInv, ThreadMaps, CallsKept, Yields, cursors
    <3>5. QED
      BY <3>4, QuietKeeps
  <2>3. CASE found # {}
    <3>1. Returns(s, k)
      BY <1>3, <2>3 DEF EdgeEntry
    <3>2. found \subseteq 0..MaxKey /\ found \subseteq Nat /\ MaxKey \in Nat
      BY BoundsAssumption DEF Records, Key
    <3>3. Max(found) \in found /\ Min(found) \in found
      BY <2>3, <3>2, MaxIsGreatest, MinIsLeast
    <3>4. k \in Key
      BY <3>3 DEF Records
    <3>5. k > last[s] /\ InsideStart(s, k)
      BY <2>1, <3>4, EdgeIsNext
    <3>6. QED
      BY <2>1, <3>1, <3>4, <3>5, ReturnsKeeps
  <2>4. QED
    BY <2>2, <2>3
<1>4. QED
  BY <1>2, <1>3

\* A scanner's step says nothing of the other scanners.
LEMMA OtherScanners ==
  ASSUME CursorInv, NEW s \in Scanner, BeginCall(s) \/ ScanStep(s)
  PROVE  \A u \in Scanner \ {s} : pc'[u] = pc[u]
<1>1. Scanner \subseteq Thread /\ DOMAIN pc = Thread
  BY ScanAssumption DEF CursorInv, ThreadMaps
<1>2. QED
  BY <1>1 DEF ScanStep, BeginCall, DropItem, EdgeRoot, EdgeDown, EdgeOn, EdgeLeaf,
         EdgeAgain, EdgeEntry, ScanSeek, ReadRoot, SeekRestart, SeekRight,
         SeekDown, ScanFound, ScanNextLeaf, ScanEnd, ScanForward, Returns, GoTo,
         Retry

LEMMA ScannerKeeps ==
  ASSUME CursorInv, NEW s \in Scanner, BeginCall(s) \/ ScanStep(s)
  PROVE  CursorInv' /\ \A u \in Scanner : Ascends(u)
<1>1. CursorInv' /\ Ascends(s)
  BY BeginKeeps, WalksKeep, QuietKeeps, FindsKeep DEF ScanStep
<1>2. \A u \in Scanner \ {s} : Ascends(u)
  BY OtherScanners DEF Ascends, Yields
<1>3. QED
  BY <1>1, <1>2

\* A step of a thread that does not scan.
LEMMA TreeKeeps ==
  ASSUME CursorInv, NEW t \in Thread \ Scanner, Start(t) \/ Step(t),
         UNCHANGED cursors
  PROVE  CursorInv' /\ \A u \in Scanner : Ascends(u)
<1>1. ThreadMaps' /\ CallsKept(t)
  BY TreeStepKeeps DEF CursorInv
<1>2. \A u \in Scanner : UNCHANGED <<pc[u], call[u]>>
  BY <1>1, ScanAssumption DEF CallsKept
<1>3. \A u \in Scanner : CursorOK(u)' /\ Ascends(u)
  BY <1>2 DEF CursorInv, CursorOK, Ascends, Yields, InsideStart, cursors
<1>4. QED
  BY <1>1, <1>3 DEF CursorInv, cursors

LEMMA CursorStep ==
  CursorInv /\ [ScanNext]_scanVars => CursorInv' /\ \A u \in Scanner : Ascends(u)
<1> SUFFICES ASSUME CursorInv, [ScanNext]_scanVars
             PROVE  CursorInv' /\ \A u \in Scanner : Ascends(u)
  OBVIOUS
<1>1. CASE UNCHANGED scanVars
  BY <1>1 DEF scanVars, vars, threads, cursors, CursorInv, CursorOK, ThreadMaps,
              InsideStart, Ascends, Yields
<1>2. CASE \E t \in Thread \ Scanner : (Start(t) \/ Step(t)) /\ UNCHANGED cursors
  BY <1>2, TreeKeeps
<1>3. CASE \E s \in Scanner : BeginCall(s) \/ ScanStep(s)
  BY <1>3, ScannerKeeps
<1>4. QED
  BY <1>1, <1>2, <1>3 DEF ScanNext

-----------------------------------------------------------------------------
\* A cursor's keys come in strictly ascending order and inside its bounds,
\* whatever the other threads do to the pages between and during its calls
\* (Iter and Range, iter.rs: "It never yields keys out of order").
THEOREM CursorsAscend == ScanSpec => ScanAscends
<1>1. CursorInv /\ [ScanNext]_scanVars =>
        [\A s \in Scanner : Yields(s) =>
           /\ last'[s] > last[s]
           /\ InsideStart(s, last'[s]) /\ InsideEnd(s, last'[s])]_scanVars
  BY CursorStep DEF Ascends
<1>2. CursorInv /\ [ScanNext]_scanVars => CursorInv'
  BY CursorStep
<1>3. QED
  BY CursorInit, <1>1, <1>2, PTL DEF ScanSpec, ScanAscends

-----------------------------------------------------------------------------
(***************************************************************************)
(* Where a page leads after a step.  A scanner that walks along an edge of *)
(* the tree holds nothing but the name of a page, so what it knows of that *)
(* page has to survive every step of the others.                           *)
(***************************************************************************)
\* A page that takes over from an active one is a leaf, or leftmost, if the
\* other was.
Follows(new, old) == /\ Active(new)
                     /\ old.kind = "leaf" => new.kind = "leaf"
                     /\ old.low = NegInf  => new.low = NegInf

\* Every active page stays what it was, or forwards to one that took over.
Forwards(P, Q) ==
  \A p \in ActiveIn(P) :
    \/ Follows(Q[p], P[p])
    \/ /\ Q[p].kind = "redirect" /\ Q[p].target \in Page
       /\ Follows(Q[Q[p].target], P[p])

SameEnds(new, old) == new.kind = old.kind /\ new.low = old.low

LEMMA SameEndsForward ==
  ASSUME NEW P, NEW Q, \A p \in ActiveIn(P) : SameEnds(Q[p], P[p])
  PROVE  Forwards(P, Q)
BY DEF Forwards, Follows, SameEnds, ActiveIn, Active

\* A split, when the lower half stays in the page that is split.
LEMMA SplitEnds ==
  ASSUME NEW P, NEW Q, NEW p, NEW s, NEW sep, NEW c, NEW b,
         ChildSplits(P, Q, p, s, sep, c, c, b)
  PROVE  \A x \in ActiveIn(P) : SameEnds(Q[x], P[x])
<1> TAKE x \in ActiveIn(P)
<1>1. x \in Page /\ x # b
  BY DEF ActiveIn, ChildSplits
<1>2. CASE x = c
  BY <1>2 DEF ChildSplits, HalfBelow, SameEnds
<1>3. CASE x = p
  BY <1>3 DEF ChildSplits, SameEnds
<1>4. CASE x \notin {c, b, p}
  BY <1>1, <1>4 DEF ChildSplits, Alike, SameEnds
<1>5. QED
  BY <1>1, <1>2, <1>3, <1>4

LEMMA SplitRootEnds ==
  ASSUME NEW P \in Pages, NEW M \in Pages, NEW Q, NEW r, NEW n, NEW sep, NEW b,
         Grows(P, M, r, n), ChildSplits(M, Q, n, NegInf, sep, r, r, b)
  PROVE  \A x \in ActiveIn(P) : SameEnds(Q[x], P[x])
<1> TAKE x \in ActiveIn(P)
<1>1. SameEnds(M[x], P[x]) /\ x \in ActiveIn(M)
  BY DEF Grows, AlikeUnmarked, ActiveIn, Active, SameEnds
<1>2. SameEnds(Q[x], M[x])
  BY <1>1, SplitEnds
<1>3. QED
  BY <1>1, <1>2 DEF SameEnds

\* A borrow.  The upper page of the pair is not leftmost, before or after.
LEMMA BorrowForwards ==
  ASSUME NEW P \in Pages, NEW Q \in Pages, NEW r, WellFormed(P, r),
         NEW p, NEW s, NEW sep, NEW l, NEW h, NEW b,
         Borrows(P, Q, p, s, sep, l, h, b)
  PROVE  Forwards(P, Q)
<1> DEFINE U == Survivor(P[l], P[h], sep)
<1>1. /\ p \in InternalsIn(P) /\ sep \in Separators(P[p])
      /\ l = P[p].kids[PrevSlot(P[p], sep)] /\ h = P[p].kids[sep]
  BY DEF Borrows
<1>2. /\ HalfBelow(Q[l], U, b) /\ HalfAbove(Q[h], U, b)
      /\ Q[p] = MoveBoundary(P[p], sep, b)
      /\ \A x \in Page \ {l, h, p} : Q[x] = P[x]
  BY DEF Borrows
<1>3. /\ P[l].kind = P[h].kind /\ Union(U, P[l], P[h], sep)
      /\ P[h].low = sep /\ sep \in Key /\ P[h] \in SoundPage
      /\ P[h].kind \in {"leaf", "internal"}
  BY <1>1, BorrowPair
<1>4. SameEnds(Q[l], P[l])
  <2> HIDE DEF U
  <2>1. QED
    BY <1>2, <1>3 DEF HalfBelow, Union, SameEnds
<1>5. Follows(Q[h], P[h])
  <2> HIDE DEF U
  <2>1. QED
    BY <1>2, <1>3, Numbers DEF HalfAbove, Union, Follows, Active
<1>6. SameEnds(Q[p], P[p])
  <2>1. P[p] \in PageRec
    BY <1>1 DEF InternalsIn, Pages, SoundPage
  <2>2. QED
    BY <1>2, <2>1 DEF MoveBoundary, SameEnds, PageRec
<1>7. \A x \in ActiveIn(P) : x \in Page /\ (x # h => SameEnds(Q[x], P[x]))
  BY <1>2, <1>4, <1>6 DEF SameEnds, ActiveIn
<1>8. QED
  BY <1>5, <1>7 DEF Forwards, Follows, SameEnds, ActiveIn, Active

\* A merge retires the lower page in favour of the upper one, which becomes
\* leftmost if the lower one was.
LEMMA MergeForwards ==
  ASSUME NEW P \in Pages, NEW r, WellFormed(P, r),
         NEW p \in InternalsIn(P), NEW sep \in Separators(P[p])
  PROVE  Forwards(P, Merged(P, p, sep))
<1> DEFINE s == PrevSlot(P[p], sep)
           l == P[p].kids[s]
           h == P[p].kids[sep]
           Q == Merged(P, p, sep)
<1>1. ChildrenMerge(P, Q, p, s, sep, l, h, h) /\ Q \in Pages
  BY MergedMerges
<1>2. /\ l \in ActiveIn(P) /\ h \in ActiveIn(P) /\ l # h
      /\ P[l] \in SoundPage /\ P[l].kind = P[h].kind
      /\ P[h].kind \in {"leaf", "internal"}
      /\ P[h].low = sep /\ sep \in Key
  BY BorrowPair
<1>3. Q[l].kind = "redirect" /\ Q[l].target = h
  <2>1. l \in Page /\ l # p
    <3>1. s \in Slots(P[p]) /\ P[l].high = sep
      BY <1>1 DEF ChildrenMerge
    <3>2. p \notin {l, h}
      <4> HIDE DEF s
      <4>1. QED
        BY <3>1, Neighbours
    <3>3. QED
      BY <1>2, <3>2 DEF ActiveIn
  <2>2. Q[l] = Retired(P[l], h)
    BY <1>2, <2>1 DEF Merged, Pages
  <2>3. QED
    BY <1>2, <2>2 DEF Retired, SoundPage, PageRec
<1>4. Union(Q[h], P[l], P[h], sep)
  BY <1>1 DEF ChildrenMerge
<1>5. Follows(Q[h], P[l]) /\ Follows(Q[h], P[h])
  <2> HIDE DEF Q, l, h
  <2>1. sep # NegInf
    BY <1>2, Numbers
  <2>2. Q[h].kind = P[h].kind /\ Q[h].low = P[l].low
    BY <1>4 DEF Union
  <2>3. QED
    BY <1>2, <2>1, <2>2 DEF Follows, Active
<1>6. \A x \in ActiveIn(P) \ {l, h} : SameEnds(Q[x], P[x])
  BY <1>1 DEF ChildrenMerge, Alike, SameEnds, ActiveIn
<1>7. h \in Page
  BY <1>2 DEF ActiveIn
<1> HIDE DEF Q, l, h
<1>8. Forwards(P, Q)
  BY <1>3, <1>5, <1>6, <1>7 DEF Forwards, Follows, SameEnds, ActiveIn, Active
<1>9. QED
  BY <1>8 DEF Q

\* A collapse retires the root in favour of its only child.
LEMMA CollapseForwards ==
  ASSUME NEW P \in Pages, NEW Q \in Pages, NEW r, NEW c, WellFormed(P, r),
         Collapses(P, Q, r, c), Q[r].kind = "redirect", Q[r].target = c
  PROVE  Forwards(P, Q)
<1>1. r \in InternalsIn(P) /\ NegInf \in Slots(P[r])
  BY SlotNumbers DEF Collapses, WellFormed, RootSpans, InternalsIn, ActiveIn
<1>2. c \in ActiveIn(P) /\ c \in Page
  BY <1>1 DEF WellFormed, ChildrenFit, Fits, Collapses, ActiveIn
<1>3. Follows(Q[c], P[r]) /\ Follows(Q[c], P[c])
  BY <1>2 DEF Collapses, Follows, ActiveIn, Active
<1>4. \A x \in ActiveIn(P) \ {r, c} : SameEnds(Q[x], P[x])
  BY DEF Collapses, AlikeUnmarked, SameEnds, ActiveIn
<1>5. QED
  BY <1>2, <1>3, <1>4 DEF Forwards, Follows, SameEnds, ActiveIn, Active

LEMMA StepForwards ==
  ASSUME IndInv, WellFormed(page, root), NEW t \in Thread, Start(t) \/ Step(t)
  PROVE  Forwards(page, page')
<1>1. page \in Pages /\ page' \in Pages
  BY StepTyped DEF IndInv, TreeTyped, Pages
<1>2. CASE DropGuard(t) \/ FastInsert(t) \/ InsertHere(t) \/ FastRemove(t)
             \/ RemoveHere(t)
  <2>1. \A x \in Page : page[x] \in PageRec
    BY <1>1 DEF Pages, SoundPage
  <2>2. ASSUME NEW v \in Val \cup {NoVal},
               page' = [page EXCEPT ![node[t]].recs[call[t].key] = v]
        PROVE  \A x \in ActiveIn(page) : SameEnds(page'[x], page[x])
    BY <1>1, <2>1, <2>2 DEF SameEnds, PageRec, Pages, ActiveIn
  <2>3. \A x \in ActiveIn(page) : SameEnds(page'[x], page[x])
    BY <1>2, <2>2, RecordWritten DEF SameEnds
  <2>4. QED
    BY <2>3, SameEndsForward
<1>3. CASE SplitRoot(t) /\ Full(page[root])
  <2>1. PICK mid \in Pages :
          /\ Grows(page, mid, root, root')
          /\ ChildSplits(mid, page', root', NegInf, SplitKey(page[root]),
                         root, root, FirstNew)
    BY <1>3, SplitRootSplits
  <2>2. QED
    BY <1>1, <2>1, SplitRootEnds, SameEndsForward
<1>4. CASE SplitChild(t)
  <2>1. PICK s : ChildSplits(page, page', node[t], s, SplitKey(page[ChildOf(t)]),
                             ChildOf(t), ChildOf(t), FirstNew)
    BY <1>4, SplitChildSplits
  <2>2. QED
    BY <2>1, SplitEnds, SameEndsForward
<1>5. CASE Shrink(t) /\ page' # page
  <2>1. Collapses(page, page', root, root')
    BY <1>5, ShrinkCollapses
  <2>2. page'[root] = CollapsedRoot(page[root], root') /\ page[root] \in PageRec
    BY <1>1, <1>5 DEF Shrink, WriteFree, Pages, SoundPage, IndInv, TreeTyped
  <2>3. page'[root].kind = "redirect" /\ page'[root].target = root'
    BY <2>2 DEF CollapsedRoot, PageRec
  <2>4. QED
    BY <1>1, <2>1, <2>3, CollapseForwards
<1>6. CASE BorrowFromLeft(t) \/ BorrowFromRight(t)
  <2>1. PICK s, b : Borrows(page, page', node[t], s, Sep(t), LeftOf(t), RightOf(t), b)
    BY <1>6, BorrowBorrows
  <2>2. QED
    BY <1>1, <2>1, BorrowForwards
<1>7. CASE Merge(t)
  <2>1. node[t] \in InternalsIn(page) /\ Sep(t) \in Separators(page[node[t]])
    BY <1>7, RemovePlace DEF Merge
  <2>2. page' = Merged(page, node[t], Sep(t))
    BY <1>7 DEF Merge, Merged, LeftOf, RightOf
  <2>3. QED
    BY <1>1, <2>1, <2>2, MergeForwards
<1>8. CASE FixSuccessor(t) \/ FixNone(t) \/ WalkOn(t) \/ Peek(t) \/ Join(t)
  <2>1. \A x \in Page : page[x] \in PageRec
    BY <1>1 DEF Pages, SoundPage
  <2>2. ASSUME NEW p \in Ref, NEW q \in Ref, page' = [page EXCEPT ![p].right = q]
        PROVE  \A x \in ActiveIn(page) : SameEnds(page'[x], page[x])
    BY <1>1, <2>1, <2>2 DEF SameEnds, PageRec, Pages, ActiveIn
  <2>3. ASSUME NEW p \in Ref, NEW q \in Ref, page' = [page EXCEPT ![p].prev = q]
        PROVE  \A x \in ActiveIn(page) : SameEnds(page'[x], page[x])
    BY <1>1, <2>1, <2>3 DEF SameEnds, PageRec, Pages, ActiveIn
  <2>4. \A x \in ActiveIn(page) : SameEnds(page'[x], page[x])
    BY <1>8, <2>2, <2>3, RepairsRelink DEF Relinks, SameEnds
  <2>5. QED
    BY <2>4, SameEndsForward
<1>9. CASE page' = page
  BY <1>9, SameEndsForward DEF SameEnds
<1>10. SplitRoot(t) => Full(page[root]) \/ page' = page
  BY DEF SplitRoot
<1>11. QED
  BY <1>2, <1>3, <1>4, <1>5, <1>6, <1>7, <1>8, <1>9, <1>10, StepKinds

-----------------------------------------------------------------------------
(***************************************************************************)
(* Where a cursor stands.                                                  *)
(***************************************************************************)
Inside  == {"seek", "walk", "edge", "edge_leaf", "item"}
Outside == {"idle", "root", "edge_root", "done"}

\* A scanner is on a page that exists whenever it is inside the tree.  On its
\* way along the left edge that page leads to a leftmost one, and to a leaf
\* once one was found.
PlacedAt(s, d, label, p) ==
  /\ label \in Inside \cup Outside
  /\ label \in Inside => p \in Live(page)
  /\ label \in Outside => p = Nil
  /\ label \in {"edge", "edge_leaf"} /\ query[s].op # "last" => page[d[p]].low = NegInf
  /\ label = "edge_leaf" => page[d[p]].kind = "leaf"

\* An item is a record of a leaf that its holder has latched.
HasItem(s) == /\ latch[s] = [page |-> node[s], mode |-> "read"]
              /\ page[node[s]].kind = "leaf"
              /\ last[s] \in Records(page[node[s]])

Placed(s, d) == /\ PlacedAt(s, d, pc[s], node[s])
                /\ pc[s] = "item" => HasItem(s)

\* The d of LinkInv, with what the scanners rely on.
PlacesFit(d, k) == /\ Linked(page, d) /\ Ranked(page, k)
                   /\ \A t \in Thread : Sees(t, d)
                   /\ \A s \in Scanner : Placed(s, d)

PlacesInv == \E d, k : PlacesFit(d, k)

\* What a live page leads to.
LEMMA Homes ==
  ASSUME NEW P \in Pages, NEW d, Linked(P, d), NEW p \in Live(P)
  PROVE  /\ p \in Page /\ p # Nil
         /\ d[p] \in ActiveIn(P) /\ d[p] \in Live(P) /\ d[d[p]] = d[p]
         /\ Active(P[p]) => p \in ActiveIn(P) /\ d[p] = p
         /\ P[p].kind # "redirect" => Active(P[p])
         /\ P[p].kind = "redirect" =>
              P[p].target \in Live(P) /\ d[P[p].target] = d[p]
<1>1. p \in Page /\ p # Nil /\ Live(P) = ActiveIn(P) \cup RedirectsIn(P)
  BY LivePages
<1>2. Leads(P, d)
  BY DEF Linked
<1>3. d[p] \in ActiveIn(P) /\ d[d[p]] = d[p]
  BY <1>2, LeadsToActive
<1>4. Active(P[p]) => p \in ActiveIn(P) /\ d[p] = p
  BY <1>1, <1>2 DEF ActiveIn, Leads
<1>5. P[p].kind # "redirect" => Active(P[p])
  BY <1>1 DEF ActiveIn, RedirectsIn
<1>6. P[p].kind = "redirect" => P[p].target \in Live(P) /\ d[P[p].target] = d[p]
  BY <1>1, <1>2 DEF Leads, RedirectsIn
<1>7. QED
  BY <1>1, <1>3, <1>4, <1>5, <1>6

\* A step of a thread that does not scan leaves a scanner placed.
LEMMA OthersLeavePlaced ==
  ASSUME TreeInv, NEW t \in Thread, Start(t) \/ Step(t),
         NEW s \in Scanner, s # t, UNCHANGED cursors,
         NEW d, NEW e, Linked(page, d), Linked(page', e), Carries(d, e),
         Placed(s, d)
  PROVE  Placed(s, e)'
<1> DEFINE p == node[s]
           q == d[p]
<1>1. /\ s \in Thread \ {t} /\ OthersKept(t) /\ Forwards(page, page')
      /\ page \in Pages /\ page' \in Pages
  BY ScanAssumption, OthersKeep, StepForwards, StepTreeInv
     DEF TreeInv, IndInv, TreeTyped, Pages
<1>2. pc'[s] = pc[s] /\ node'[s] = p /\ latch'[s] = latch[s]
      /\ query' = query /\ last' = last
  BY <1>1 DEF OthersKept, cursors
<1> HIDE DEF p, q
<1>3. ASSUME p \in Live(page) PROVE p \in Live(page') /\ Follows(page'[e[p]], page[q])
  <2>1. q \in ActiveIn(page) /\ q \in Live(page) /\ d[q] = d[p]
    BY <1>1, <1>3, Homes DEF q
  <2>2. e[p] = e[q] /\ p \in Live(page')
    BY <1>3, <2>1 DEF Carries
  <2>3. CASE Follows(page'[q], page[q])
    <3>1. e[q] = q
      BY <2>1, <2>3 DEF Linked, Leads, Follows, ActiveIn
    <3>2. QED
      BY <2>2, <2>3, <3>1
  <2>4. CASE /\ page'[q].kind = "redirect" /\ page'[q].target \in Page
             /\ Follows(page'[page'[q].target], page[q])
    <3> DEFINE r == page'[q].target
    <3>1. q \in RedirectsIn(page') /\ r \in ActiveIn(page')
      BY <2>1, <2>4 DEF RedirectsIn, ActiveIn, Follows
    <3>2. e[q] = e[r] /\ e[r] = r
      BY <3>1 DEF Linked, Leads
    <3>3. QED
      BY <2>2, <2>4, <3>2
  <2>5. QED
    BY <1>1, <2>1, <2>3, <2>4 DEF Forwards
<1>4. PlacedAt(s, d, pc[s], p)
  BY DEF Placed, p
<1>5. PlacedAt(s, e, pc[s], node[s])'
  <2>1. pc[s] \in {"edge", "edge_leaf"} => p \in Live(page)
    BY <1>4 DEF PlacedAt, Inside
  <2>2. QED
    BY <1>2, <1>3, <1>4, <2>1 DEF PlacedAt, Follows, q
<1>6. ASSUME pc[s] = "item" PROVE HasItem(s)'
  <2>1. HasItem(s) /\ p \in Live(page)
    BY <1>4, <1>6 DEF Placed, PlacedAt, Inside
  <2>2. p \in Page /\ page[p].kind # "free" /\ latch[s].page = p
    BY <2>1 DEF HasItem, Live, p
  <2>3. page'[p] = page[p]
    BY <1>1, <2>2, LatchedPageKept DEF TreeInv
  <2>4. QED
    BY <1>2, <2>1, <2>3 DEF HasItem, p
<1>7. QED
  BY <1>2, <1>5, <1>6 DEF Placed

-----------------------------------------------------------------------------
(***************************************************************************)
(* What a step of a scanner leaves alone.                                  *)
(***************************************************************************)
\* A scanner changes no page, and keeps to the latch protocol.
ScannerMoves(s) ==
  /\ UNCHANGED <<tree, next, fix, result, filled, made, query>>
  /\ OthersKept(s) /\ Latching(s) /\ ThreadsTyped'
  /\ \A u \in Scanner \ {s} : last'[u] = last[u]
  /\ pc'[s] \in Inside \cup Outside

LEMMA ScannerKeepsTree ==
  ASSUME TreeInv, NEW s \in Scanner, ScannerMoves(s)
  PROVE  TreeInv'
<1>1. s \in Thread
  BY ScanAssumption
<1>2. pc'[s] # "guard" /\ pc'[s] \notin Repairing
  BY DEF ScannerMoves, Inside, Outside, Repairing
<1>3. page' = page /\ root' = root /\ len' = len
  BY DEF ScannerMoves, tree
<1>4. /\ \A u \in Thread : u # s => /\ pc'[u] = pc[u] /\ call'[u] = call[u]
                                    /\ node'[u] = node[u] /\ fix'[u] = fix[u]
                                    /\ latch'[u] = latch[u]
      /\ ThreadsTyped'
  BY DEF ScannerMoves, OthersKept
<1>5. LatchesExclusive'
  BY <1>1, ExclusiveKept DEF ScannerMoves, TreeInv, IndInv, LatchDiscipline
<1>6. GuardLatched'
  BY <1>2, <1>4 DEF GuardLatched, TreeInv, IndInv, LatchDiscipline
<1>7. RepairLatched'
  <2>1. RepairLatched
    BY DEF TreeInv, IndInv, LatchDiscipline
  <2>2. QED
    BY <1>2, <1>4, <2>1 DEF RepairLatched, Repairing
<1>8. GuardHasRecord'
  <2>1. GuardHasRecord
    BY DEF TreeInv, IndInv
  <2>2. \A u \in Thread : pc'[u] = "guard" =>
          pc[u] = "guard" /\ node'[u] = node[u] /\ call'[u] = call[u]
    BY <1>2, <1>4
  <2>3. QED
    BY <1>3, <2>1, <2>2 DEF GuardHasRecord
<1>9. TreeTyped' /\ WellFormed(page', root') /\ Bounded(page', root')
  BY <1>3 DEF TreeInv, IndInv, TreeTyped
<1>10. QED
  BY <1>4, <1>5, <1>6, <1>7, <1>8, <1>9 DEF TreeInv, IndInv, LatchDiscipline

LEMMA ScannerKeepsPlaces ==
  ASSUME NEW d, NEW k, PlacesFit(d, k), NEW s \in Scanner, ScannerMoves(s),
         Placed(s, d)'
  PROVE  PlacesFit(d, k)'
<1>1. page' = page /\ fix' = fix /\ query' = query
  BY DEF ScannerMoves, tree
<1>2. \A u \in Thread \ {s} :
        pc'[u] = pc[u] /\ node'[u] = node[u] /\ latch'[u] = latch[u]
  BY DEF ScannerMoves, OthersKept
<1>3. \A u \in Thread : Sees(u, d)'
  <2> TAKE u \in Thread
  <2>1. CASE u = s
    BY <2>1 DEF ScannerMoves, Inside, Outside, Sees, MergeFix, Repairing, Joining
  <2>2. CASE u # s
    BY <1>1, <1>2, <2>2 DEF PlacesFit, Sees
  <2>3. QED
    BY <2>1, <2>2
<1>4. \A u \in Scanner \ {s} : Placed(u, d)'
  <2> TAKE u \in Scanner \ {s}
  <2>1. u \in Thread \ {s}
    BY ScanAssumption
  <2>2. /\ pc'[u] = pc[u] /\ node'[u] = node[u] /\ latch'[u] = latch[u]
        /\ last'[u] = last[u]
    BY <1>2, <2>1 DEF ScannerMoves
  <2>3. QED
    BY <1>1, <2>2 DEF PlacesFit, Placed, PlacedAt, HasItem
<1>5. QED
  BY <1>1, <1>3, <1>4 DEF PlacesFit

\* A step that takes no item: the scanner goes to another page, and may have
\* dropped its latch.
GoesOnTo(s, label, p) ==
  /\ pc' = [pc EXCEPT ![s] = label] /\ node' = [node EXCEPT ![s] = p]
  /\ \E c \in Call : call' = [call EXCEPT ![s] = c]
  /\ latch' \in {latch, [latch EXCEPT ![s] = NoLatch]}
  /\ UNCHANGED <<tree, next, fix, result, filled, made, cursors>>

LEMMA GoingOn ==
  ASSUME TreeInv, NEW s \in Scanner, NEW d, NEW label, NEW p,
         GoesOnTo(s, label, p), PlacedAt(s, d, label, p), label # "item"
  PROVE  ScannerMoves(s) /\ Placed(s, d)'
<1>1. s \in Thread /\ ThreadsTyped
  BY ScanAssumption DEF TreeInv, IndInv
<1>2. p \in Ref /\ label \in Label
  BY ConstantFields DEF PlacedAt, Inside, Outside, Live, Label, PC
<1>3. pc'[s] = label /\ node'[s] = p /\ page' = page /\ query' = query
  BY <1>1 DEF GoesOnTo, ThreadsTyped, tree, cursors
<1>4. ThreadsTyped'
  BY <1>1, <1>2, ThreadRecords DEF ThreadsTyped, GoesOnTo
<1>5. OthersKept(s) /\ Latching(s)
  BY <1>1 DEF OthersKept, Latching, ThreadsTyped, GoesOnTo
<1>6. ScannerMoves(s)
  BY <1>3, <1>4, <1>5 DEF ScannerMoves, GoesOnTo, cursors, PlacedAt
<1>7. Placed(s, d)'
  BY <1>3 DEF Placed, PlacedAt
<1>8. QED
  BY <1>6, <1>7

\* An item is returned, or its key is past the end.
LEMMA ItemReturned ==
  ASSUME TreeInv, CursorInv, NEW s \in Scanner, NEW d, NEW k,
         k \in Records(page[node[s]]), page[node[s]].kind = "leaf",
         ReadFree(node[s]), Returns(s, k),
         UNCHANGED <<tree, call, next, fix, result, filled, made, query>>
  PROVE  ScannerMoves(s) /\ Placed(s, d)'
<1>1. s \in Thread /\ ThreadsTyped
  BY ScanAssumption DEF TreeInv, IndInv
<1>2. node[s] \in Page /\ node[s] \in Live(page) /\ node[s] \in Ref
  BY ConstantFields DEF ReadFree, Live
<1>3. CASE InsideEnd(s, k)
  <2>1. /\ last' = [last EXCEPT ![s] = k] /\ pc' = [pc EXCEPT ![s] = "item"]
        /\ latch' = [latch EXCEPT ![s] = [page |-> node[s], mode |-> "read"]]
        /\ node' = node
    BY <1>3 DEF Returns, GoTo, Hold
  <2>2. /\ last'[s] = k /\ pc'[s] = "item" /\ node'[s] = node[s]
        /\ latch'[s] = [page |-> node[s], mode |-> "read"]
        /\ page' = page /\ query' = query
    BY <1>1, <2>1 DEF ThreadsTyped, CursorInv, tree
  <2>3. [page |-> node[s], mode |-> "read"] \in LatchRec /\ "item" \in Label
    BY <1>2, ThreadRecords DEF Label
  <2>4. ThreadsTyped'
    BY <1>1, <2>1, <2>3 DEF ThreadsTyped
  <2>5. OthersKept(s)
    BY <1>1, <2>1 DEF OthersKept, ThreadsTyped
  <2>6. Latching(s)
    BY <1>2, <2>2 DEF Latching
  <2>7. \A u \in Scanner \ {s} : last'[u] = last[u]
    BY <2>1 DEF CursorInv
  <2>8. ScannerMoves(s)
    BY <2>2, <2>4, <2>5, <2>6, <2>7 DEF ScannerMoves, Inside
  <2>9. PlacedAt(s, d, "item", node[s])
    BY <1>2 DEF PlacedAt, Inside, Outside
  <2>10. Placed(s, d)'
    BY <2>2, <2>9 DEF Placed, PlacedAt, HasItem
  <2>11. QED
    BY <2>8, <2>10
<1>4. CASE ~InsideEnd(s, k)
  <2>1. /\ pc' = [pc EXCEPT ![s] = "done"] /\ node' = [node EXCEPT ![s] = Nil]
        /\ UNCHANGED <<latch, last>>
    BY <1>4 DEF Returns, Retry, GoTo, Visit
  <2>2. call' = [call EXCEPT ![s] = call[s]] /\ call[s] \in Call
    BY <1>1 DEF ThreadsTyped
  <2>3. GoesOnTo(s, "done", Nil)
    BY <2>1, <2>2 DEF GoesOnTo, cursors
  <2>4. PlacedAt(s, d, "done", Nil)
    BY DEF PlacedAt, Inside, Outside
  <2>5. QED
    BY <2>3, <2>4, GoingOn
<1>5. QED
  BY <1>3, <1>4

-----------------------------------------------------------------------------
(***************************************************************************)
(* Every step of a scanner.                                                *)
(***************************************************************************)
Ready(s, d, k) == TreeInv /\ CursorInv /\ PlacesFit(d, k)

Lands(s, d) == ScannerMoves(s) /\ Placed(s, d)'

LEMMA SameThread ==
  ASSUME TreeInv, NEW s \in Scanner
  PROVE  /\ pc = [pc EXCEPT ![s] = pc[s]] /\ node = [node EXCEPT ![s] = node[s]]
         /\ call = [call EXCEPT ![s] = call[s]] /\ call[s] \in Call
         /\ page \in Pages /\ WellFormed(page, root)
<1>1. s \in Thread /\ ThreadsTyped /\ TreeTyped
  BY ScanAssumption DEF TreeInv, IndInv
<1>2. QED
  BY <1>1 DEF ThreadsTyped, TreeTyped, Pages, TreeInv

\* The calls begin and end.
LEMMA CallsLand ==
  ASSUME NEW s \in Scanner, NEW d, NEW k, Ready(s, d, k), BeginCall(s) \/ DropItem(s)
  PROVE  Lands(s, d)
<1>1. /\ TreeInv /\ CursorInv /\ Placed(s, d)
  BY DEF Ready, PlacesFit
<1>2. CASE BeginCall(s)
  <2>1. call'[s] \in Call
    BY <1>1, <1>2, BeginKeeps DEF Quiet, CursorOK
  <2>2. call' = [call EXCEPT ![s] = call'[s]]
    <3>1. call \in [Thread -> Call] /\ s \in Thread
      BY <1>1, ScanAssumption DEF TreeInv, IndInv, ThreadsTyped
    <3>2. \/ call' = call
          \/ \E from : call' = [call EXCEPT ![s].op = "get", ![s].key = from]
      BY <1>2 DEF BeginCall
    <3>3. QED
      BY <3>1, <3>2
  <2>3. pc[s] = "idle" /\ node[s] = Nil
    BY <1>1, <1>2 DEF BeginCall, Idle, Placed, PlacedAt, Outside
  <2>4. node' = [node EXCEPT ![s] = Nil]
    BY <1>1, <1>2, <2>3, SameThread DEF BeginCall
  <2>5. \E label \in {"edge_root", "root"} : pc' = [pc EXCEPT ![s] = label]
    BY <1>2 DEF BeginCall, GoTo
  <2>6. PICK label \in {"edge_root", "root"} : GoesOnTo(s, label, Nil)
    BY <1>2, <2>1, <2>2, <2>4, <2>5 DEF BeginCall, GoesOnTo
  <2>7. PlacedAt(s, d, label, Nil)
    BY DEF PlacedAt, Inside, Outside
  <2>8. QED
    BY <1>1, <2>6, <2>7, GoingOn DEF Lands
<1>3. CASE DropItem(s)
  <2>1. PICK label \in {"idle", "done"} : GoesOnTo(s, label, Nil)
    BY <1>1, <1>3, SameThread DEF DropItem, GoesOnTo, Retry, GoTo, Visit, Release
  <2>2. PlacedAt(s, d, label, Nil)
    BY DEF PlacedAt, Inside, Outside
  <2>3. QED
    BY <1>1, <2>1, <2>2, GoingOn DEF Lands
<1>4. QED
  BY <1>2, <1>3

\* The outer children of an internal page.
LEMMA EdgeChildFits ==
  ASSUME NEW P \in Pages, NEW r, WellFormed(P, r), NEW p \in InternalsIn(P),
         NEW s \in Scanner
  PROVE  /\ EdgeChild(s, P[p]) \in ActiveIn(P)
         /\ query[s].op # "last" => P[EdgeChild(s, P[p])].low = P[p].low
<1> DEFINE S == {NegInf} \cup Separators(P[p])
<1>1. S \subseteq 0..MaxKey /\ S # {} /\ MaxKey \in Nat
  BY ContentsAreKeys, BoundsAssumption DEF Key, NegInf
<1>2. Max(S) \in S
  BY <1>1, MaxIsGreatest
<1>3. \A x \in Slots(P[p]) : Fits(P, p, x)
  BY DEF WellFormed, ChildrenFit
<1>4. S = Slots(P[p]) /\ NegInf \in S
  BY DEF Slots
<1>5. QED
  BY <1>2, <1>3, <1>4 DEF EdgeChild, Fits

\* Along an edge of the tree, down and across.
LEMMA EdgeLands ==
  ASSUME NEW s \in Scanner, NEW d, NEW k, Ready(s, d, k),
         EdgeRoot(s) \/ EdgeDown(s) \/ EdgeOn(s) \/ EdgeLeaf(s) \/ EdgeAgain(s)
  PROVE  Lands(s, d)
<1>1. /\ TreeInv /\ Placed(s, d) /\ Linked(page, d)
      /\ page \in Pages /\ WellFormed(page, root)
  BY SameThread DEF Ready, PlacesFit
<1>2. ASSUME NEW label \in {"edge", "edge_leaf"}, NEW p \in Live(page),
             GoesOnTo(s, label, p),
             query[s].op # "last" => page[d[p]].low = NegInf,
             label = "edge_leaf" => page[d[p]].kind = "leaf"
      PROVE  Lands(s, d)
  <2>1. PlacedAt(s, d, label, p)
    BY <1>2 DEF PlacedAt, Inside, Outside
  <2>2. QED
    BY <1>1, <1>2, <2>1, GoingOn DEF Lands
<1>3. CASE EdgeRoot(s)
  <2>1. GoesOnTo(s, "edge", root)
    BY <1>1, <1>3, SameThread DEF EdgeRoot, GoesOnTo, GoTo, Visit
  <2>2. root \in ActiveIn(page) /\ page[root].low = NegInf
    BY <1>1 DEF WellFormed, RootSpans
  <2>3. root \in Live(page) /\ d[root] = root
    BY <1>1, <2>2, LivePages DEF Linked, Leads
  <2>4. QED
    BY <1>2, <2>1, <2>2, <2>3
<1>4. CASE pc[s] \in {"edge", "edge_leaf"} /\ (EdgeDown(s) \/ EdgeOn(s) \/ EdgeLeaf(s)
                                               \/ EdgeAgain(s))
  <2> DEFINE p == node[s]
  <2>1. /\ p \in Live(page)
        /\ query[s].op # "last" => page[d[p]].low = NegInf
        /\ pc[s] = "edge_leaf" => page[d[p]].kind = "leaf"
    BY <1>1, <1>4 DEF Placed, PlacedAt, Inside
  <2>2. /\ p \in Page /\ p # Nil
        /\ d[p] \in ActiveIn(page) /\ d[p] \in Live(page) /\ d[d[p]] = d[p]
        /\ Active(page[p]) => p \in ActiveIn(page) /\ d[p] = p
        /\ page[p].kind # "redirect" => Active(page[p])
        /\ page[p].kind = "redirect" =>
             page[p].target \in Live(page) /\ d[page[p].target] = d[p]
    BY <1>1, <2>1, Homes
  <2>3. CASE EdgeDown(s)
    <3> DEFINE c == EdgeChild(s, page[p])
    <3>1. GoesOnTo(s, "edge", c)
      BY <1>1, <2>3, SameThread DEF EdgeDown, AtEdge, GoesOnTo, Visit
    <3>2. p \in InternalsIn(page) /\ d[p] = p
      BY <2>2, <2>3 DEF EdgeDown, InternalsIn, Active
    <3>3. /\ c \in ActiveIn(page)
          /\ query[s].op # "last" => page[c].low = page[p].low
      BY <1>1, <3>2, EdgeChildFits
    <3>4. c \in Live(page) /\ d[c] = c
      BY <1>1, <3>3, LivePages DEF Linked, Leads
    <3> HIDE DEF c
    <3>5. QED
      BY <1>2, <2>1, <3>1, <3>2, <3>3, <3>4
  <2>4. CASE EdgeOn(s) \/ EdgeAgain(s)
    <3> DEFINE q == Onward(page[p])
    <3>1. GoesOnTo(s, pc[s], q)
      BY <1>1, <2>4, SameThread DEF EdgeOn, EdgeAgain, GoesOnTo, Visit
    <3>2. CASE page[p].kind = "redirect"
      <4>1. q \in Live(page) /\ d[q] = d[p]
        BY <2>2, <3>2 DEF Onward
      <4> HIDE DEF q
      <4>2. QED
        BY <1>2, <1>4, <2>1, <3>1, <4>1
    <3>3. CASE page[p].kind # "redirect"
      <4>1. /\ p \in ActiveIn(page) /\ d[p] = p /\ q = page[p].right
            /\ RightLeads(page, d, p)
        BY <1>1, <2>2, <3>3 DEF Onward, Linked, Chained
      <4>2. CASE EdgeOn(s)
        <5>1. query[s].op = "last" /\ page[p].right # Nil /\ pc[s] = "edge"
          BY <2>2, <2>4, <3>3, <4>2 DEF EdgeOn, AtEdge, EdgeStops, Active
        <5>2. q \in Live(page)
          BY <4>1, <5>1 DEF RightLeads
        <5> HIDE DEF q
        <5>3. QED
          BY <1>2, <3>1, <5>1, <5>2
      <4>3. CASE EdgeAgain(s)
        <5>1. /\ Records(page[p]) = {} /\ page[p].right # Nil /\ query[s].op # "last"
              /\ page[p].kind = "leaf"
          BY <2>1, <3>3, <4>1, <4>3 DEF EdgeAgain, AtEdge, EdgeMoves
        <5>2. p # root
          BY <1>1, <4>1, <5>1 DEF RightLeads, WellFormed, RootSpans
        <5>3. N \div 2 <= Cardinality(Records(page[p]))
          BY <1>1, <4>1, <5>1, <5>2, EntryCount
             DEF TreeInv, Bounded, InBounds, Entries, Contents
        <5>4. Cardinality({}) = 0
          BY FS_EmptySet
        <5>5. QED
          BY <5>1, <5>3, <5>4, CapacityAssumption
      <4>4. QED
        BY <2>4, <4>2, <4>3
    <3>4. QED
      BY <3>2, <3>3
  <2>5. CASE EdgeLeaf(s)
    <3>1. GoesOnTo(s, "edge_leaf", p)
      BY <1>1, <2>5, SameThread DEF EdgeLeaf, GoesOnTo, GoTo
    <3>2. page[p].kind = "leaf" /\ d[p] = p
      BY <2>2, <2>5 DEF EdgeLeaf, EdgeStops, Active
    <3>3. QED
      BY <1>2, <2>1, <3>1, <3>2
  <2>6. QED
    BY <1>4, <2>3, <2>4, <2>5
<1>5. QED
  BY <1>3, <1>4 DEF EdgeDown, EdgeOn, EdgeLeaf, EdgeAgain, AtEdge

\* The leaf at the edge is latched again.
LEMMA EdgeEntryLands ==
  ASSUME NEW s \in Scanner, NEW d, NEW k, Ready(s, d, k), EdgeEntry(s)
  PROVE  Lands(s, d)
<1> DEFINE p     == node[s]
           found == Records(page[p])
           key   == IF query[s].op = "last" THEN Max(found) ELSE Min(found)
<1>1. /\ TreeInv /\ CursorInv /\ Placed(s, d) /\ Linked(page, d) /\ page \in Pages
  BY SameThread DEF Ready, PlacesFit
<1>2. pc[s] = "edge_leaf" /\ ReadFree(p) /\ page[p].kind # "redirect"
  BY DEF EdgeEntry, AtEdge, EdgeMoves
<1>3. p \in Live(page) /\ page[d[p]].kind = "leaf"
  BY <1>1, <1>2 DEF Placed, PlacedAt, Inside
<1>4. page[p].kind = "leaf"
  BY <1>1, <1>2, <1>3, Homes
<1>5. CASE found = {}
  <2>1. GoesOnTo(s, "done", Nil)
    BY <1>1, <1>5, SameThread DEF EdgeEntry, GoesOnTo, Retry, GoTo, Visit, cursors
  <2>2. PlacedAt(s, d, "done", Nil)
    BY DEF PlacedAt, Inside, Outside
  <2>3. QED
    BY <1>1, <2>1, <2>2, GoingOn DEF Lands
<1>6. CASE found # {}
  <2>1. /\ Returns(s, key)
        /\ UNCHANGED <<tree, call, next, fix, result, filled, made, query>>
    BY <1>6 DEF EdgeEntry
  <2>2. found \subseteq 0..MaxKey /\ found \subseteq Nat /\ MaxKey \in Nat
    BY BoundsAssumption DEF Records, Key
  <2>3. key \in found
    BY <1>6, <2>2, MaxIsGreatest, MinIsLeast
  <2> HIDE DEF key
  <2>4. QED
    BY <1>1, <1>2, <1>4, <2>1, <2>3, ItemReturned DEF Lands
<1>7. QED
  BY <1>5, <1>6

\* The descent to the leaf of a key.
LEMMA SeekLands ==
  ASSUME NEW s \in Scanner, NEW d, NEW k, Ready(s, d, k), ScanSeek(s)
  PROVE  Lands(s, d)
<1> DEFINE p   == node[s]
           key == call[s].key
<1>1. /\ TreeInv /\ Placed(s, d) /\ Linked(page, d)
      /\ page \in Pages /\ WellFormed(page, root) /\ UNCHANGED cursors
      /\ call[s] \in Call
  BY SameThread DEF Ready, PlacesFit, ScanSeek
<1>2. ASSUME NEW q \in Live(page), GoesOnTo(s, "seek", q) PROVE Lands(s, d)
  <2>1. PlacedAt(s, d, "seek", q)
    BY <1>2 DEF PlacedAt, Inside, Outside
  <2>2. QED
    BY <1>1, <1>2, <2>1, GoingOn DEF Lands
<1>3. CASE ReadRoot(s)
  <2>1. GoesOnTo(s, "seek", root)
    BY <1>1, <1>3, SameThread DEF ReadRoot, GoesOnTo, GoTo, Visit
  <2>2. root \in Live(page)
    BY <1>1, LivePages DEF WellFormed, RootSpans
  <2>3. QED
    BY <1>2, <2>1, <2>2
<1>4. CASE SeekRestart(s)
  <2>1. GoesOnTo(s, "root", Nil)
    BY <1>1, <1>4, SameThread DEF SeekRestart, GoesOnTo, Retry, GoTo, Visit
  <2>2. PlacedAt(s, d, "root", Nil)
    BY DEF PlacedAt, Inside, Outside
  <2>3. QED
    BY <1>1, <2>1, <2>2, GoingOn DEF Lands
<1>5. CASE SeekRight(s)
  <2>1. GoesOnTo(s, "seek", Onward(page[p]))
    BY <1>1, <1>5, SameThread DEF SeekRight, Seeks, GoesOnTo, Visit
  <2>2. p \in Live(page) /\ Route(page[p], key) = "right"
    BY <1>1, <1>5 DEF SeekRight, Seeks, Placed, PlacedAt, Inside
  <2>3. CASE page[p].kind = "redirect"
    <3>1. Onward(page[p]) \in Live(page)
      BY <1>1, <2>2, <2>3, Homes DEF Onward
    <3>2. QED
      BY <1>2, <2>1, <3>1
  <2>4. CASE page[p].kind # "redirect"
    <3>1. p \in ActiveIn(page) /\ p \in Page /\ RightLeads(page, d, p)
      BY <1>1, <2>2, <2>4, Homes DEF Linked, Chained
    <3>2. key >= page[p].high /\ Onward(page[p]) = page[p].right
      BY <2>2, <2>4 DEF Route, Onward
    <3>3. key \in Key
      BY <1>1 DEF Call
    <3>4. page[p].high # PosInf
      BY <1>1, <3>1, <3>2, <3>3, Numbers
    <3>5. Onward(page[p]) \in Live(page)
      BY <3>1, <3>2, <3>4 DEF RightLeads
    <3>6. QED
      BY <1>2, <2>1, <3>5
  <2>5. QED
    BY <2>3, <2>4
<1>6. CASE SeekDown(s)
  <2> DEFINE slot == ChildSlot(page[p], key)
  <2>1. GoesOnTo(s, "seek", Child(page[p], key))
    BY <1>1, <1>6, SameThread DEF SeekDown, Seeks, GoesOnTo, Visit
  <2>2. p \in InternalsIn(page)
    BY <1>6 DEF SeekDown, Seeks, ReadFree, InternalsIn
  <2>3. slot \in Slots(page[p])
    BY ChildSlotExists DEF Slots
  <2> HIDE DEF slot
  <2>4. page[p].kids[slot] \in ActiveIn(page)
    BY <1>1, <2>2, <2>3 DEF WellFormed, ChildrenFit, Fits
  <2>5. Child(page[p], key) \in Live(page)
    BY <1>1, <2>4, LivePages DEF Child, slot
  <2>6. QED
    BY <1>2, <2>1, <2>5
<1>7. QED
  BY <1>3, <1>4, <1>5, <1>6 DEF ScanSeek

\* The walk along the leaves.
LEMMA WalkLands ==
  ASSUME NEW s \in Scanner, NEW d, NEW k, Ready(s, d, k),
         ScanFound(s) \/ ScanNextLeaf(s) \/ ScanEnd(s) \/ ScanForward(s)
  PROVE  Lands(s, d)
<1> DEFINE p == node[s]
<1>1. /\ TreeInv /\ CursorInv /\ Placed(s, d) /\ Linked(page, d) /\ page \in Pages
  BY SameThread DEF Ready, PlacesFit
<1>2. p \in Live(page) /\ ReadFree(p)
  BY <1>1 DEF ScanFound, ScanNextLeaf, ScanEnd, ScanForward, AtLeaf, Seeks, AtEdge,
              Placed, PlacedAt, Inside
<1>3. CASE ScanFound(s)
  <2> DEFINE key == Min(Above(s, page[p]))
  <2>1. /\ Returns(s, key) /\ page[p].kind = "leaf" /\ Above(s, page[p]) # {}
        /\ UNCHANGED <<tree, call, next, fix, result, filled, made, query>>
    BY <1>3 DEF ScanFound, AtLeaf
  <2>2. Above(s, page[p]) \subseteq Nat
    BY BoundsAssumption DEF Above, Records, Key
  <2>3. key \in Above(s, page[p])
    BY <2>1, <2>2, MinIsLeast
  <2>4. key \in Records(page[p])
    BY <2>3 DEF Above
  <2> HIDE DEF key
  <2>5. QED
    BY <1>1, <1>2, <2>1, <2>4, ItemReturned DEF Lands
<1>4. CASE ScanNextLeaf(s)
  <2>1. GoesOnTo(s, "walk", page[p].right)
    BY <1>1, <1>4, SameThread DEF ScanNextLeaf, GoesOnTo, GoTo, Visit
  <2>2. /\ p \in ActiveIn(page) /\ page[p].right # Nil
    BY <1>1, <1>2, <1>4, Homes DEF ScanNextLeaf, AtLeaf
  <2>3. page[p].right \in Live(page)
    BY <1>1, <2>2 DEF Linked, Chained, RightLeads
  <2>4. PlacedAt(s, d, "walk", page[p].right)
    BY <2>3 DEF PlacedAt, Inside, Outside
  <2>5. QED
    BY <1>1, <2>1, <2>4, GoingOn DEF Lands
<1>5. CASE ScanEnd(s)
  <2>1. GoesOnTo(s, "done", Nil)
    BY <1>1, <1>5, SameThread DEF ScanEnd, GoesOnTo, Retry, GoTo, Visit
  <2>2. PlacedAt(s, d, "done", Nil)
    BY DEF PlacedAt, Inside, Outside
  <2>3. QED
    BY <1>1, <2>1, <2>2, GoingOn DEF Lands
<1>6. CASE ScanForward(s)
  <2>1. GoesOnTo(s, "walk", page[p].target)
    BY <1>1, <1>6, SameThread DEF ScanForward, AtEdge, GoesOnTo, Visit
  <2>2. page[p].target \in Live(page)
    BY <1>1, <1>2, <1>6, Homes DEF ScanForward
  <2>3. PlacedAt(s, d, "walk", page[p].target)
    BY <2>2 DEF PlacedAt, Inside, Outside
  <2>4. QED
    BY <1>1, <2>1, <2>3, GoingOn DEF Lands
<1>7. QED
  BY <1>3, <1>4, <1>5, <1>6

-----------------------------------------------------------------------------
(***************************************************************************)
(* The invariant of a tree that is scanned.                                *)
(***************************************************************************)
ScanInv == TreeInv /\ CursorInv /\ PlacesInv

LEMMA ScannerInv ==
  ASSUME ScanInv, NEW s \in Scanner, BeginCall(s) \/ ScanStep(s)
  PROVE  TreeInv' /\ PlacesInv'
<1>1. PICK d, k : PlacesFit(d, k)
  BY DEF ScanInv, PlacesInv
<1>2. Ready(s, d, k)
  BY <1>1 DEF Ready, ScanInv
<1>3. Lands(s, d)
  BY <1>2, CallsLand, EdgeLands, EdgeEntryLands, SeekLands, WalkLands DEF ScanStep
<1>4. PlacesFit(d, k)'
  BY <1>1, <1>3, ScannerKeepsPlaces DEF Lands
<1>5. TreeInv'
  BY <1>3, ScannerKeepsTree DEF Lands, ScanInv
<1>6. QED
  BY <1>4, <1>5 DEF PlacesInv

LEMMA OthersInv ==
  ASSUME ScanInv, NEW t \in Thread \ Scanner, Start(t) \/ Step(t), UNCHANGED cursors
  PROVE  TreeInv' /\ PlacesInv'
<1>1. PICK d, k : PlacesFit(d, k)
  BY DEF ScanInv, PlacesInv
<1>2. TreeInv /\ Linked(page, d) /\ Ranked(page, k) /\ \A u \in Thread : Sees(u, d)
  BY <1>1 DEF ScanInv, PlacesFit
<1>3. LinksMove(d)
  BY <1>2, StepLinks DEF TreeInv
<1>4. PICK e, j : Linked(page', e) /\ Ranked(page', j) /\ Carries(d, e)
  BY <1>3 DEF LinksMove
<1>5. \A u \in Thread : Sees(u, e)'
  <2> TAKE u \in Thread
  <2>1. CASE u = t
    BY <1>2, <1>4, <2>1, OwnSees DEF TreeInv
  <2>2. CASE u # t
    BY <1>2, <1>4, <2>2, OtherSees DEF TreeInv
  <2>3. QED
    BY <2>1, <2>2
<1>6. \A s \in Scanner : Placed(s, e)'
  BY <1>1, <1>2, <1>4, OthersLeavePlaced DEF PlacesFit
<1>7. PlacesFit(e, j)'
  BY <1>4, <1>5, <1>6 DEF PlacesFit
<1>8. QED
  BY <1>2, <1>7, StepTreeInv DEF PlacesInv

LEMMA ScanInvInit == ScanInit => ScanInv
<1> SUFFICES ASSUME ScanInit PROVE ScanInv
  OBVIOUS
<1>1. TreeInv /\ LinkInv /\ CursorInv
  BY InitTreeInv, InitLinks, CursorInit DEF ScanInit
<1>2. PICK d, k : Linked(page, d) /\ Ranked(page, k) /\ \A t \in Thread : Sees(t, d)
  BY <1>1 DEF LinkInv
<1>3. \A s \in Scanner : pc[s] = "idle" /\ node[s] = Nil
  BY ScanAssumption DEF ScanInit, Init
<1>4. \A s \in Scanner : Placed(s, d)
  BY <1>3 DEF Placed, PlacedAt, Inside, Outside
<1>5. QED
  BY <1>1, <1>2, <1>4 DEF ScanInv, PlacesInv, PlacesFit

LEMMA ScanInvNext == ScanInv /\ [ScanNext]_scanVars => ScanInv'
<1> SUFFICES ASSUME ScanInv, [ScanNext]_scanVars PROVE ScanInv'
  OBVIOUS
<1>1. CursorInv'
  BY CursorStep DEF ScanInv
<1>2. CASE UNCHANGED scanVars
  <2>1. UNCHANGED vars /\ UNCHANGED cursors
    BY <1>2 DEF scanVars
  <2>2. TreeInv'
    BY <2>1, NextTreeInv DEF ScanInv
  <2>3. PlacesInv'
    BY <2>1 DEF ScanInv, PlacesInv, PlacesFit, Sees, Placed, PlacedAt, HasItem,
                vars, tree, threads, cursors
  <2>4. QED
    BY <1>1, <2>2, <2>3 DEF ScanInv
<1>3. CASE \E t \in Thread \ Scanner : (Start(t) \/ Step(t)) /\ UNCHANGED cursors
  BY <1>1, <1>3, OthersInv DEF ScanInv
<1>4. CASE \E s \in Scanner : BeginCall(s) \/ ScanStep(s)
  BY <1>1, <1>4, ScannerInv DEF ScanInv
<1>5. QED
  BY <1>2, <1>3, <1>4 DEF ScanNext

LEMMA ScanInvariance == ScanSpec => []ScanInv
BY ScanInvInit, ScanInvNext, PTL DEF ScanSpec

-----------------------------------------------------------------------------
(***************************************************************************)
(* Types, items and the tree below them.                                   *)
(***************************************************************************)
HistoryTyped == /\ steady \in [Scanner -> SUBSET Key]
                /\ maxima \in [Scanner -> SUBSET (Key \cup {NegInf})]

LEMMA MapKeysAreKeys == MapKeys \subseteq Key
BY DEF MapKeys, Records

LEMMA HistoryInit == ScanInit => HistoryTyped
BY DEF ScanInit, HistoryTyped

LEMMA HistoryNext == HistoryTyped /\ [ScanNext]_scanVars => HistoryTyped'
<1> SUFFICES ASSUME HistoryTyped, [ScanNext]_scanVars PROVE HistoryTyped'
  OBVIOUS
<1>1. CASE UNCHANGED scanVars
  BY <1>1 DEF scanVars, history, HistoryTyped
<1>2. CASE Observe
  <2> DEFINE m == Max({NegInf} \cup MapKeys')
  <2>1. MapKeys' \subseteq Key
    BY MapKeysAreKeys DEF MapKeys, Records
  <2>2. m \in Key \cup {NegInf}
    <3>1. {NegInf} \cup MapKeys' \subseteq 0..MaxKey /\ MaxKey \in Nat
      BY <2>1, BoundsAssumption DEF Key, NegInf
    <3>2. m \in {NegInf} \cup MapKeys'
      BY <3>1, MaxIsGreatest
    <3>3. QED
      BY <2>1, <3>2
  <2> HIDE DEF m
  <2>3. steady' \in [Scanner -> SUBSET Key]
    BY <1>2, <2>1 DEF Observe, HistoryTyped
  <2>4. maxima' = [s \in Scanner |->
           IF ~Observes(s) \/ query[s].op # "last" THEN {} ELSE maxima[s] \cup {m}]
    BY <1>2 DEF Observe, m
  <2>5. maxima' \in [Scanner -> SUBSET (Key \cup {NegInf})]
    BY <2>2, <2>4 DEF HistoryTyped
  <2>6. QED
    BY <2>3, <2>5 DEF HistoryTyped
<1>3. QED
  BY <1>1, <1>2 DEF ScanNext

LEMMA ScanTypesFollow == ScanInv /\ HistoryTyped => ScanTypeOK
<1> SUFFICES ASSUME ScanInv, HistoryTyped PROVE ScanTypeOK
  OBVIOUS
<1>1. ThreadsTyped
  BY DEF ScanInv, TreeInv, IndInv
<1>2. ASSUME NEW s \in Scanner
      PROVE  node[s] = Nil <=> pc[s] \in {"idle", "root", "edge_root", "done"}
  <2>1. PICK d, k : PlacesFit(d, k)
    BY DEF ScanInv, PlacesInv
  <2>2. PlacedAt(s, d, pc[s], node[s])
    BY <2>1 DEF PlacesFit, Placed
  <2>3. node[s] \in Live(page) => node[s] # Nil
    BY ConstantFields DEF Live
  <2>4. QED
    BY <2>2, <2>3 DEF PlacedAt, Inside, Outside
<1>3. pc \in [Thread -> ScanPC] /\ node \in [Thread -> Ref]
  BY <1>1 DEF ThreadsTyped, Label, ScanPC
<1>4. query \in [Scanner -> Queries] /\ last \in [Scanner -> Key \cup {NegInf}]
  BY DEF ScanInv, CursorInv
<1>5. QED
  BY <1>2, <1>3, <1>4 DEF ScanTypeOK, HistoryTyped

\* Types; and a cursor that is inside the tree always has a page to latch next,
\* whatever splits and merges it walks through (first_entry, last_entry and
\* entry_at_or_after, node.rs).
THEOREM ScanTypeCorrect == ScanSpec => []ScanTypeOK
<1>1. ScanSpec => []HistoryTyped
  BY HistoryInit, HistoryNext, PTL DEF ScanSpec
<1>2. QED
  BY <1>1, ScanInvariance, ScanTypesFollow, PTL

LEMMA ItemsFollow == ScanInv => ItemHasRecord
BY DEF ScanInv, PlacesInv, PlacesFit, Placed, HasItem, ItemHasRecord

\* The record behind an item stays where it is while the item is held, for any
\* leaf a cursor finds and whatever the writers do (EntryRef::new, iter.rs 173).
THEOREM ItemsKeepRecords == ScanSpec => []ItemHasRecord
BY ItemsFollow, ScanInvariance, PTL

LEMMA PlacesLinked == ScanInv => TreeInv /\ LinkInv
BY DEF ScanInv, PlacesInv, PlacesFit, LinkInv

\* Cursors do not disturb the tree: with any number of them its shape, its
\* occupancy and its links are what BLinkSafety says.
THEOREM TreeHoldsAmongScans ==
  ScanSpec => [](TreeShape /\ OccupancyWithinBounds /\ RightLinkFindsNeighbour
                   /\ RedirectsEnd)
BY ScanInvariance, PlacesLinked, ShapeFollows, OccupancyFollows, RightLinksFollow,
   RedirectsFollow, PTL

-----------------------------------------------------------------------------
(***************************************************************************)
(* first_entry.                                                            *)
(***************************************************************************)
\* The leftmost leaf has the least records, and if it is the last one, too, no
\* other leaf has any.
LEMMA LeftmostLeaf ==
  ASSUME NEW P \in Pages, NEW r, WellFormed(P, r), NEW p \in ActiveIn(P),
         P[p].kind = "leaf", P[p].low = NegInf,
         NEW q \in ActiveIn(P), P[q].kind = "leaf", q # p
  PROVE  P[p].high <= P[q].low /\ P[p].high # PosInf
<1>1. p \in Page /\ q \in Page
  BY DEF ActiveIn
<1>2. P[p].level = 0 /\ P[q].level = 0
  BY DEF WellFormed, Levelled
<1>3. P[p].high <= P[q].low \/ P[q].high <= P[p].low
  BY <1>2 DEF WellFormed, Apart
<1>4. /\ NegInf < P[q].high /\ P[q].low \in Int /\ P[q].low < PosInf
      /\ P[q].high \in Int /\ P[p].high \in Int /\ NegInf \in Int /\ PosInf \in Int
  BY <1>1, Numbers
<1>5. QED
  BY <1>3, <1>4

LEMMA LeftmostRecords ==
  ASSUME NEW P \in Pages, NEW r, WellFormed(P, r), NEW p \in ActiveIn(P),
         P[p].kind = "leaf", P[p].low = NegInf,
         NEW q \in ActiveIn(P), P[q].kind = "leaf", q # p,
         NEW m \in Records(P[p]), NEW k \in Records(P[q])
  PROVE  m < k
<1>1. p \in Page /\ q \in Page /\ m \in Key /\ k \in Key
  BY DEF ActiveIn, Records
<1>2. m < P[p].high /\ P[q].low <= k
  BY DEF WellFormed, Fenced, Contents
<1>3. P[p].high <= P[q].low
  BY LeftmostLeaf
<1>4. P[p].high \in Int /\ P[q].low \in Int /\ m \in Int /\ k \in Int
  BY <1>1, Numbers
<1>5. QED
  BY <1>2, <1>3, <1>4

\* The least of S, if it is in a part of S that is below the rest.
LEMMA LeastOfPart ==
  ASSUME NEW S, NEW T, S \subseteq Nat, T \subseteq S, T # {},
         \A x \in T : \A y \in S \ T : x < y
  PROVE  Min(T) = Min(S) /\ Min(T) \in T /\ \A y \in S : Min(T) <= y
<1>1. Min(T) \in T /\ \A y \in T : Min(T) <= y
  BY MinIsLeast
<1>2. Min(S) \in S /\ \A y \in S : Min(S) <= y
  BY MinIsLeast
<1>3. ASSUME NEW y \in S
      PROVE  Min(T) <= y
  <2>1. CASE y \in T
    BY <1>1, <2>1
  <2>2. CASE y \notin T
    <3>1. Min(T) < y
      BY <1>1, <2>2
    <3>2. Min(T) \in Nat /\ y \in Nat
      BY <1>1
    <3>3. QED
      BY <3>1, <3>2
  <2>3. QED
    BY <2>1, <2>2
<1>4. Min(T) <= Min(S) /\ Min(S) <= Min(T)
  BY <1>1, <1>2, <1>3
<1>5. Min(T) \in Nat /\ Min(S) \in Nat
  BY <1>1, <1>2
<1>6. Min(T) = Min(S)
  BY <1>4, <1>5
<1>7. QED
  BY <1>1, <1>3, <1>6

\* What first_entry says of the map when it returns.
IsLeast(s) ==
  pc[s] = "edge_leaf" /\ query[s].op # "last" =>
    /\ Yields(s)   => last'[s] = Min(MapKeys)
    /\ Exhausts(s) => \A k \in MapKeys : ~InsideEnd(s, k)

LEMMA EndsAreUpward ==
  ASSUME NEW s \in Scanner, query[s] \in Query, NEW m \in Key, NEW k \in Key, m <= k,
         ~InsideEnd(s, m)
  PROVE  ~InsideEnd(s, k)
<1>1. m \in Int /\ k \in Int /\ query[s].end.key \in Int
  BY Numbers DEF Query, Bound
<1>2. QED
  BY <1>1 DEF InsideEnd

LEMMA EdgeEntryLeast ==
  ASSUME ScanInv, NEW s \in Scanner, EdgeEntry(s), query[s].op # "last"
  PROVE  IsLeast(s)
<1> DEFINE p     == node[s]
           found == Records(page[p])
<1>1. PICK d, k : PlacesFit(d, k)
  BY DEF ScanInv, PlacesInv
<1>2. /\ TreeInv /\ Linked(page, d) /\ Placed(s, d) /\ page \in Pages
      /\ WellFormed(page, root) /\ s \in Thread /\ pc \in [Thread -> Label]
      /\ last \in [Scanner -> Key \cup {NegInf}] /\ query[s] \in Query
  BY <1>1, SameThread, QueriesTyped, ScanAssumption
     DEF ScanInv, CursorInv, PlacesFit, TreeInv, IndInv, ThreadsTyped
<1>3. pc[s] = "edge_leaf" /\ ~EdgeMoves(s, page[p])
  BY DEF EdgeEntry, AtEdge
<1>4. p \in Live(page) /\ page[d[p]].kind = "leaf" /\ page[d[p]].low = NegInf
  BY <1>2, <1>3 DEF Placed, PlacedAt, Inside
<1>5. p \in ActiveIn(page) /\ page[p].kind = "leaf" /\ page[p].low = NegInf
  BY <1>2, <1>3, <1>4, Homes DEF EdgeMoves
<1>6. MapKeys = UNION {Records(page[q]) : q \in {x \in ActiveIn(page) : page[x].kind = "leaf"}}
  BY DEF MapKeys, ActiveIn, Active
<1>7. CASE found = {}
  <2>1. page[p].right = Nil
    BY <1>3, <1>7 DEF EdgeMoves
  <2>2. page[p].high = PosInf
    BY <1>2, <1>5, <2>1, LivePages DEF Linked, Chained, RightLeads
  <2>3. \A q \in ActiveIn(page) : page[q].kind = "leaf" => q = p
    BY <1>2, <1>5, <2>2, LeftmostLeaf
  <2>4. MapKeys = {}
    BY <1>6, <1>7, <2>3
  <2>5. pc'[s] = "done"
    BY <1>2, <1>7 DEF EdgeEntry, Retry, GoTo
  <2>6. QED
    BY <2>4, <2>5 DEF IsLeast, Yields
<1>8. CASE found # {}
  <2> DEFINE m == Min(found)
  <2>1. Returns(s, m)
    BY <1>8 DEF EdgeEntry
  <2>2. MapKeys \subseteq Nat /\ MapKeys \subseteq Key
    BY MapKeysAreKeys, BoundsAssumption DEF Key
  <2>3. found \subseteq MapKeys
    BY <1>5, <1>6
  <2>4. \A x \in found : \A y \in MapKeys \ found : x < y
    BY <1>2, <1>5, <1>6, LeftmostRecords
  <2>5. m = Min(MapKeys) /\ m \in found /\ \A y \in MapKeys : m <= y
    <3> HIDE DEF found
    <3>1. QED
      BY <1>8, <2>2, <2>3, <2>4, LeastOfPart
  <2> HIDE DEF m, found
  <2>6. CASE InsideEnd(s, m)
    <3>1. pc'[s] = "item" /\ last'[s] = m
      BY <1>2, <2>1, <2>6 DEF Returns, GoTo
    <3>2. QED
      BY <2>5, <3>1 DEF IsLeast, Exhausts
  <2>7. CASE ~InsideEnd(s, m)
    <3>1. pc'[s] = "done"
      BY <1>2, <2>1, <2>7 DEF Returns, Retry, GoTo
    <3>2. \A y \in MapKeys : ~InsideEnd(s, y)
      BY <1>2, <2>2, <2>3, <2>5, <2>7, EndsAreUpward
    <3>3. QED
      BY <3>1, <3>2 DEF IsLeast, Yields
  <2>8. QED
    BY <2>6, <2>7
<1>9. QED
  BY <1>7, <1>8

LEMMA StepLeast ==
  ASSUME ScanInv, [ScanNext]_scanVars, NEW s \in Scanner PROVE IsLeast(s)
<1> SUFFICES ASSUME pc[s] = "edge_leaf", query[s].op # "last" PROVE IsLeast(s)
  BY DEF IsLeast
<1>1. s \in Thread /\ pc \in [Thread -> Label] /\ DOMAIN pc = Thread
  BY ScanAssumption DEF ScanInv, TreeInv, IndInv, ThreadsTyped
<1>2. CASE pc'[s] = pc[s]
  BY <1>2 DEF IsLeast, Yields, Exhausts
<1>3. CASE UNCHANGED scanVars
  BY <1>2, <1>3 DEF scanVars, vars, threads
<1>4. ASSUME NEW t \in Thread \ Scanner, Start(t) \/ Step(t) PROVE pc'[s] = pc[s]
  BY <1>1, <1>4, OthersKeep DEF OthersKept, ScanInv, TreeInv, IndInv
<1>5. ASSUME NEW u \in Scanner, u # s, BeginCall(u) \/ ScanStep(u)
      PROVE  pc'[s] = pc[s]
  BY <1>5, OtherScanners DEF ScanInv
<1>6. CASE BeginCall(s) \/ ScanStep(s)
  <2>1. EdgeEntry(s) \/ EdgeAgain(s)
    BY <1>6 DEF ScanStep, BeginCall, Idle, DropItem, EdgeRoot, EdgeDown, EdgeOn,
           EdgeLeaf, ScanSeek, ReadRoot, SeekRestart, SeekRight, SeekDown, Seeks,
           ScanFound, ScanNextLeaf, ScanEnd, ScanForward, AtEdge, AtLeaf
  <2>2. CASE EdgeAgain(s)
    BY <1>2, <2>2 DEF EdgeAgain
  <2>3. QED
    BY <2>1, <2>2, EdgeEntryLeast
<1>7. QED
  BY <1>2, <1>3, <1>4, <1>5, <1>6 DEF ScanNext

\* first_entry's record is the least of the whole map at the moment its leaf is
\* latched, although the leaf was found before and may have been split, merged
\* or left by the root since; a leaf that turns out empty belongs to an empty
\* map ("Returns the least key/value record", map.rs 169).
THEOREM FirstEntryIsLeast == ScanSpec => FirstIsLeast
<1>1. ScanInv /\ [ScanNext]_scanVars =>
        [\A s \in Scanner : pc[s] = "edge_leaf" /\ query[s].op # "last" =>
           /\ Yields(s)   => last'[s] = Min(MapKeys)
           /\ Exhausts(s) => \A k \in MapKeys : ~InsideEnd(s, k)]_scanVars
  BY StepLeast DEF IsLeast
<1>2. QED
  BY <1>1, ScanInvariance, PTL DEF ScanSpec, FirstIsLeast

================================================================================
