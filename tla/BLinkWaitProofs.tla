---------------------------- MODULE BLinkWaitProofs ----------------------------
(***************************************************************************)
(* No circle of waits, for every capacity, key range, page bound, set of   *)
(* threads, workload and choice of who calls the map under whose guard.    *)
(*                                                                         *)
(* Every thread that waits has a rank, and it waits only for threads of a  *)
(* higher one, or for threads that wait for nobody.  The rank is where in  *)
(* the key space the page that it asks for, or guards, begins; pages that  *)
(* are no leaves come after the leaves, the root slot after all pages.     *)
(* What makes it work is that a page on which somebody waits is latched,   *)
(* and a latched page is active, with the fences the tree gives it: what a *)
(* link repair asks for is to the right of the page it has.                *)
(*                                                                         *)
(* A call made under a guard is the hard part: it may be anywhere in the   *)
(* tree, and hold pages that were merged away, but no leaf it can still    *)
(* reach is to the left of the guard, whatever the others split, merge or  *)
(* collapse meanwhile (Beyond).                                            *)
(***************************************************************************)
EXTENDS BLinkWait, BLinkLinkProofs

-----------------------------------------------------------------------------
(***************************************************************************)
(* The invariant.                                                          *)
(***************************************************************************)
\* Only these labels hold a latch, and what they hold is active.
Holding == {"guard", "count", "count_slow"} \cup Repairing

Held == \A u \in Thread : latch[u].page # Nil =>
          pc[u] \in Holding /\ latch[u].page \in ActiveIn(page)

\* One thread at a time has the root slot, in a root section.
Gripped ==
  /\ grip \in [Thread -> {"none", "slot", "root"}]
  /\ \A t \in Thread : grip[t] # "none" => AtRootSection(t)
  /\ \A t, u \in Thread : grip[t] # "none" /\ grip[u] # "none" => t = u

\* Where a call made under a guard can be, and what it knows of the guard.
NestedLabel == {"root", "seek", "latch", "guard", "count", "split_root", "ins_root",
                "ins", "fix_split", "fix_succ", "done"}

GuardOver(v) == page[node[KeeperOf(v)]]

Busy(v) == Nested(v) /\ ~Idle(v)

UnderGuard(v) == /\ pc[KeeperOf(v)] = "guard"
                 /\ pc[v] \in NestedLabel /\ call[v].op # "remove"
                 /\ call[v].key >= GuardOver(v).high

\* x leads to an internal page or to a leaf from the key h on.
Beyond(P, d, h, x) == /\ x \in Live(P)
                      /\ P[d[x]].level > 0 \/ P[d[x]].low >= h

\* The call goes on to x.
AimsAt(v, x) == \/ pc[v] \in {"seek", "latch", "ins"} /\ x = node[v]
                \/ /\ pc[v] \in {"fix_split", "fix_succ"}
                   /\ x \in {next[v], fix[v].cursor, fix[v].survivor}

Ahead(v, d) == \A x : AimsAt(v, x) => Beyond(page, d, GuardOver(v).high, x)

WaitLinks == \E d, k : /\ Linked(page, d) /\ Ranked(page, k)
                       /\ \A t \in Thread : Sees(t, d)
                       /\ \A v \in Thread : Busy(v) => Ahead(v, d)

WaitInv == /\ TreeInv /\ WaitLinks
           /\ Held /\ Gripped
           /\ \A v \in Thread : Busy(v) => UnderGuard(v)
-----------------------------------------------------------------------------
(***************************************************************************)
(* What lies beyond a guarded leaf l.  Some other leaf is to its right.    *)
(***************************************************************************)
Guards(P, l) == l \in ActiveIn(P) /\ P[l].kind = "leaf" /\ P[l].high # PosInf

LEMMA RootBeyond ==
  ASSUME NEW P \in Pages, NEW r, WellFormed(P, r), NEW l, Guards(P, l)
  PROVE  r \in ActiveIn(P) /\ P[r].level > 0 /\ P[l].level = 0
<1>1. r \in ActiveIn(P) /\ l # r
  BY DEF WellFormed, RootSpans, Guards
<1>2. P[l].level < P[r].level /\ P[l].level = 0
  BY <1>1 DEF WellFormed, Levelled, Guards
<1>3. QED
  BY <1>1, <1>2

\* A leaf with a key beyond l has no other keys.
LEMMA LeafBeyond ==
  ASSUME NEW P \in Pages, NEW r, WellFormed(P, r), NEW l, Guards(P, l),
         NEW y \in ActiveIn(P), NEW k \in Int,
         P[l].high <= k, P[y].low <= k, k < P[y].high
  PROVE  P[y].level > 0 \/ P[y].low >= P[l].high
<1>1. /\ l \in ActiveIn(P) /\ P[l].level = 0 /\ y \in Page /\ l \in Page
  BY RootBeyond DEF Guards, ActiveIn
<1>2. /\ P[l].low \in Int /\ P[l].high \in Int /\ P[l].low < P[l].high
      /\ P[y].low \in Int /\ P[y].high \in Int /\ P[y].level \in Nat
  BY <1>1, Numbers DEF WellFormed, Fenced
<1>3. y # l
  BY <1>2
<1>4. P[y].level = 0 => P[y].high <= P[l].low \/ P[l].high <= P[y].low
  BY <1>1, <1>3 DEF WellFormed, Apart
<1>5. QED
  BY <1>2, <1>4

\* The child that a search for k goes on to covers k.
LEMMA ChildCovers ==
  ASSUME NEW P \in Pages, NEW r, WellFormed(P, r), NEW p \in InternalsIn(P),
         NEW k \in Int, P[p].low <= k, k < P[p].high
  PROVE  /\ Child(P[p], k) \in ActiveIn(P)
         /\ P[Child(P[p], k)].low <= k /\ k < P[Child(P[p], k)].high
<1> DEFINE s == ChildSlot(P[p], k)
           S == {NegInf} \cup {x \in Separators(P[p]) : x <= k}
           c == P[p].kids[s]
<1>1. s \in Slots(P[p]) /\ s \in S /\ \A x \in S : s >= x
  <2>1. S \subseteq 0..MaxKey /\ S # {} /\ MaxKey \in Nat
    BY ContentsAreKeys, BoundsAssumption DEF Key, NegInf
  <2>2. Max(S) \in S /\ \A x \in S : Max(S) >= x
    BY <2>1, MaxIsGreatest
  <2>3. s = Max(S)
    BY DEF ChildSlot
  <2> HIDE DEF S, s
  <2>4. s \in {NegInf} \cup Separators(P[p])
    BY ChildSlotExists DEF s
  <2>5. QED
    BY <2>2, <2>3, <2>4 DEF Slots
<1>2. Fits(P, p, s)
  BY <1>1 DEF WellFormed, ChildrenFit
<1>3. c \in ActiveIn(P) /\ c \in Page
  BY <1>2 DEF Fits, ActiveIn
<1>4. /\ s \in Int /\ P[c].low \in Int /\ P[c].high \in Int /\ P[p].high \in Int
      /\ P[p].low \in Int
  BY <1>1, <1>3, SlotNumbers, Numbers DEF InternalsIn
<1>5. P[c].low <= k
  <2>1. P[c].low = IF s = NegInf THEN P[p].low ELSE s
    BY <1>2 DEF Fits
  <2>2. s # NegInf => s <= k
    BY <1>1
  <2>3. QED
    BY <2>1, <2>2
<1>6. k < P[c].high
  <2>1. P[c].high = P[p].high \/ (P[c].high \in Separators(P[p]) /\ P[c].high > s)
    BY <1>2 DEF Fits, IsNext
  <2>2. P[c].high \in Separators(P[p]) /\ P[c].high > s => ~(P[c].high <= k)
    BY <1>1, <1>4
  <2>3. QED
    BY <1>4, <2>1, <2>2
<1>7. QED
  BY <1>3, <1>5, <1>6 DEF Child

\* Where a search that is beyond l goes on, it stays beyond l.
LEMMA GoesOnBeyond ==
  ASSUME NEW P \in Pages, NEW r, WellFormed(P, r), NEW d, Linked(P, d),
         NEW l, Guards(P, l), NEW h, h = P[l].high
  PROVE  /\ Beyond(P, d, h, r)
         /\ \A x \in RedirectsIn(P) : Beyond(P, d, h, x) => Beyond(P, d, h, P[x].target)
         /\ \A x \in ActiveIn(P) : Beyond(P, d, h, x) /\ P[x].right # Nil =>
              Beyond(P, d, h, P[x].right)
         /\ \A p \in InternalsIn(P) : \A k \in Int :
              P[p].low <= k /\ k < P[p].high /\ h <= k =>
                Beyond(P, d, h, Child(P[p], k))
<1>1. \A y \in ActiveIn(P) : d[y] = y /\ y \in Live(P)
  BY LivePages DEF Linked, Leads
<1>2. Beyond(P, d, h, r)
  BY <1>1, RootBeyond DEF Beyond
<1>3. ASSUME NEW x \in RedirectsIn(P), Beyond(P, d, h, x)
      PROVE  Beyond(P, d, h, P[x].target)
  BY <1>3 DEF Beyond, Linked, Leads
<1>4. ASSUME NEW x \in ActiveIn(P), Beyond(P, d, h, x), P[x].right # Nil
      PROVE  Beyond(P, d, h, P[x].right)
  <2>1. RightLeads(P, d, x) /\ d[x] = x /\ x \in Page /\ l \in Page
    BY <1>1 DEF Linked, Chained, ActiveIn, Guards
  <2>2. /\ P[x].right \in Live(P)
        /\ P[d[P[x].right]].level = P[x].level
        /\ P[d[P[x].right]].low = P[x].high
    BY <1>4, <2>1 DEF RightLeads
  <2>3. P[x].low < P[x].high /\ P[x].low \in Int /\ P[x].high \in Int /\ h \in Int
    BY <2>1, Numbers DEF WellFormed, Fenced
  <2>4. P[x].level > 0 \/ P[x].low >= h
    BY <1>4, <2>1 DEF Beyond
  <2>5. QED
    BY <2>2, <2>3, <2>4 DEF Beyond
<1>5. ASSUME NEW p \in InternalsIn(P), NEW k \in Int,
             P[p].low <= k, k < P[p].high, h <= k
      PROVE  Beyond(P, d, h, Child(P[p], k))
  <2> DEFINE c == Child(P[p], k)
  <2>1. c \in ActiveIn(P) /\ P[c].low <= k /\ k < P[c].high
    BY <1>5, ChildCovers
  <2> HIDE DEF c
  <2>2. P[c].level > 0 \/ P[c].low >= h
    BY <1>5, <2>1, LeafBeyond
  <2>3. QED
    BY <1>1, <2>1, <2>2 DEF Beyond, c
<1>6. QED
  BY <1>2, <1>3, <1>4, <1>5

\* And what the others split, merge or collapse stays on its side of l.
LEMMA StaysBeyond ==
  ASSUME page \in Pages, page' \in Pages, WellFormed(page, root),
         WellFormed(page', root'), RangesGoOn,
         NEW d, NEW e, Linked(page, d), Linked(page', e), Carries(d, e),
         NEW l, Guards(page, l), page'[l] = page[l], NEW h, h = page[l].high,
         NEW x, Beyond(page, d, h, x)
  PROVE  Beyond(page', e, h, x)
<1> DEFINE y == d[x]
<1>1. /\ x \in Live(page) /\ y \in ActiveIn(page) /\ y \in Page /\ d[y] = y
      /\ y \in Live(page) /\ l \in Page
  BY LeadsToActive, LivePages DEF Beyond, Linked, Guards, ActiveIn
<1>2. x \in Live(page') /\ e[x] = e[y]
  BY <1>1 DEF Carries
<1>3. Guards(page', l) /\ h = page'[l].high
  BY DEF Guards, ActiveIn
<1>4. page[y].level > 0 \/ page[y].low >= h
  BY DEF Beyond
<1> HIDE DEF y
<1>5. ASSUME NEW z, GoesOnAs(y, z), e[y] = z
      PROVE  Beyond(page', e, h, x)
  <2>1. /\ z \in ActiveIn(page') /\ z \in Page /\ page'[z].level = page[y].level
        /\ page'[z].low = page[y].low \/ page'[z].high = page[y].high
    BY <1>5 DEF GoesOnAs, ActiveIn
  <2>2. page'[z].level > 0 \/ page'[z].low >= h
    <3>1. CASE page[y].level > 0 \/ page'[z].low = page[y].low
      BY <1>4, <2>1, <3>1
    <3>2. CASE page[y].low >= h /\ page'[z].high = page[y].high
      <4>1. /\ page[y].low < page[y].high /\ page'[z].low < page'[z].high
        BY <1>1, <2>1 DEF WellFormed, Fenced
      <4>2. /\ page[y].low \in Int /\ page'[z].low \in Int /\ page'[z].high \in Int
            /\ h \in Int
        BY <1>1, <2>1, Numbers
      <4>3. /\ page'[z].high - 1 \in Int /\ h <= page'[z].high - 1
            /\ page'[z].low <= page'[z].high - 1
            /\ page'[z].high - 1 < page'[z].high
        BY <3>2, <4>1, <4>2
      <4>4. QED
        BY <1>3, <2>1, <4>3, LeafBeyond
    <3>3. QED
      BY <1>4, <2>1, <3>1, <3>2
  <2>3. QED
    BY <1>2, <1>5, <2>2 DEF Beyond
<1>6. CASE GoesOnAs(y, y)
  BY <1>5, <1>6 DEF GoesOnAs, Linked, Leads
<1>7. ASSUME page'[y].kind = "redirect"
      PROVE  e[y] = e[page'[y].target]
  BY <1>1, <1>7 DEF Linked, Leads, RedirectsIn
<1>8. CASE page'[y].kind = "redirect" /\ GoesOnAs(y, page'[y].target)
  <2>1. e[page'[y].target] = page'[y].target
    BY <1>8 DEF GoesOnAs, Linked, Leads
  <2>2. QED
    BY <1>5, <1>7, <1>8, <2>1
<1>9. CASE page'[y].kind = "redirect" /\ page'[y].target = root'
  <2>1. Beyond(page', e, h, root') /\ root' \in ActiveIn(page')
    BY <1>3, GoesOnBeyond, RootBeyond
  <2>2. e[y] = root' /\ e[root'] = root'
    BY <1>7, <1>9, <2>1 DEF Linked, Leads
  <2>3. QED
    BY <1>2, <2>1, <2>2 DEF Beyond
<1>10. QED
  BY <1>1, <1>6, <1>8, <1>9 DEF RangesGoOn

-----------------------------------------------------------------------------
(***************************************************************************)
(* A step of the call made under the guard.                                *)
(***************************************************************************)
\* A page on the other side of the edge the call follows from y.
Follows(v, y, x) ==
  \/ page[y].kind = "redirect" /\ x = page[y].target
  \/ Route(page[y], call[v].key) = "right" /\ x = Onward(page[y])
  \/ /\ page[y].kind = "internal" /\ Route(page[y], call[v].key) = "here"
     /\ x = ChildOf(v) /\ y = node[v]

\* Where a step can take it.
Moves(v, x) ==
  \/ AimsAt(v, x)
  \/ x = root
  \/ \E y \in Page : AimsAt(v, y) /\ Follows(v, y, x)
  \/ SplitChild(v) /\ x \in {ChildOf(v), FirstNew, page[ChildOf(v)].right} \ {Nil}

\* The labels and the targets that a step of such a call leads to.
CallGoesOn(v) == /\ pc'[v] \in NestedLabel \cup {"idle"}
                 /\ call'[v] = call[v]
                 /\ \A x : AimsAt(v, x)' => Moves(v, x)

LEMMA NestedMoves ==
  ASSUME IndInv, NEW v \in Thread, pc[v] \in NestedLabel, call[v].op # "remove",
         Step(v)
  PROVE  CallGoesOn(v)
<1> USE DEF IndInv, ThreadsTyped, tree, threads, GoTo, Visit, Retry, Resume,
            StoreRecord, Latched, Attempts, Seeks, ReadFree, WriteFree,
            CallGoesOn, NestedLabel, AimsAt, Moves, Follows
<1>1. CASE ReadRoot(v)
  BY <1>1 DEF ReadRoot
<1>2. CASE SeekRestart(v)
  BY <1>2 DEF SeekRestart
<1>3. CASE SeekRight(v)
  BY <1>3 DEF SeekRight
<1>4. CASE SeekDown(v)
  BY <1>4 DEF SeekDown, ChildOf
<1>5. CASE SeekGet(v)
  BY <1>5 DEF SeekGet
<1>6. CASE SeekWriter(v)
  BY <1>6 DEF SeekWriter
<1>7. CASE DropGuard(v)
  BY <1>7 DEF DropGuard
<1>8. CASE Relatch(v)
  BY <1>8 DEF Relatch
<1>9. CASE FastUpdate(v)
  BY <1>9 DEF FastUpdate
<1>10. CASE Count(v)
  BY <1>10 DEF Count
<1>11. CASE AttemptRoot(v)
  BY <1>11 DEF AttemptRoot
<1>12. CASE AttemptRight(v)
  BY <1>12 DEF AttemptRight
<1>13. CASE FastInsert(v)
  BY <1>13 DEF FastInsert
<1>14. CASE SplitRoot(v)
  BY <1>14 DEF SplitRoot
<1>15. CASE InsertRetry(v)
  BY <1>15 DEF InsertRetry
<1>16. CASE InsertHere(v)
  BY <1>16 DEF InsertHere
<1>17. CASE InsertDown(v)
  BY <1>17 DEF InsertDown, InsertDescends
<1>18. CASE SplitChild(v)
  <2>1. /\ pc[v] = "ins" /\ call' = call
        /\ \/ pc'[v] = "ins" /\ node'[v] \in {ChildOf(v), FirstNew}
           \/ /\ pc'[v] = "fix_split" /\ next'[v] \in {ChildOf(v), FirstNew}
              /\ fix'[v].cursor = FirstNew
              /\ fix'[v].survivor = page[ChildOf(v)].right
              /\ page[ChildOf(v)].right # Nil
    BY <1>18 DEF SplitChild, InsertDescends
  <2>2. ChildOf(v) # Nil /\ FirstNew # Nil
    <3>1. ChildOf(v) \in Page /\ Unallocated # {}
      BY <1>18 DEF SplitChild, InsertDescends
    <3>2. FirstNew \in Page
      BY <3>1, NewPagesExist DEF Unallocated
    <3>3. QED
      BY <3>1, <3>2, ConstantFields
  <2>3. QED
    BY <1>18, <2>1, <2>2
<1>19. CASE FixSplit(v)
  BY <1>19 DEF FixSplit
<1>20. CASE FixSuccessor(v)
  <2>1. CASE page[fix[v].survivor].kind = "redirect"
    <3>1. /\ pc[v] = "fix_succ" /\ pc' = pc /\ next' = next /\ call' = call
          /\ fix[v].survivor \in Page
          /\ fix'[v].cursor = fix[v].cursor
          /\ fix'[v].survivor = page[fix[v].survivor].target
      BY <1>20, <2>1 DEF FixSuccessor, FixRec
    <3>2. QED
      BY <2>1, <3>1
  <2>2. CASE page[fix[v].survivor].kind # "redirect"
    BY <1>20, <2>2 DEF FixSuccessor
  <2>3. QED
    BY <2>1, <2>2
<1>21. CASE Return(v)
  BY <1>21 DEF Return
<1>22. ~Remove(v)
  BY DEF Remove, FastRemove, Shrink, RemoveRetry, RemoveHere, RemoveDown,
         BorrowFromLeft, BorrowFromRight, Merge, RemoveDescends, FixStart, FixNone,
         WalkBack, WalkOn, Peek, Join
<1>23. QED
  BY <1>1, <1>2, <1>3, <1>4, <1>5, <1>6, <1>7, <1>8, <1>9, <1>10, <1>11, <1>12,
     <1>13, <1>14, <1>15, <1>16, <1>17, <1>18, <1>19, <1>20, <1>21, <1>22
     DEF Step, Seek, Insert

\* It stays beyond the guarded leaf l.
LEMMA CallStaysAhead ==
  ASSUME TreeInv, TreeInv', NEW d, NEW k, Linked(page, d), Ranked(page, k),
         NEW e, Linked(page', e), Carries(d, e), RangesGoOn,
         NEW l, Guards(page, l), page'[l] = page[l], NEW h, h = page[l].high,
         NEW v \in Thread, h <= call[v].key, CallGoesOn(v),
         \A x : AimsAt(v, x) => Beyond(page, d, h, x)
  PROVE  \A x : AimsAt(v, x)' => Beyond(page', e, h, x)
<1> DEFINE key == call[v].key
<1>1. /\ page \in Pages /\ page' \in Pages
      /\ WellFormed(page, root) /\ WellFormed(page', root') /\ IndInv
  BY DEF TreeInv, IndInv, TreeTyped, Pages
<1>2. key \in Key /\ key \in Int /\ key < PosInf
  BY <1>1, Numbers DEF IndInv, ThreadsTyped, Call
<1>3. Nil \notin Page /\ Live(page) \subseteq Page
  BY <1>1, LivePages
<1> HIDE DEF key
<1>4. /\ Beyond(page, d, h, root)
      /\ \A x \in RedirectsIn(page) : Beyond(page, d, h, x) =>
           Beyond(page, d, h, page[x].target)
      /\ \A x \in ActiveIn(page) : Beyond(page, d, h, x) /\ page[x].right # Nil =>
           Beyond(page, d, h, page[x].right)
      /\ \A p \in InternalsIn(page) : \A i \in Int :
           page[p].low <= i /\ i < page[p].high /\ h <= i =>
             Beyond(page, d, h, Child(page[p], i))
  BY <1>1, GoesOnBeyond
<1>5. \A y \in Page : page[y].low \in Int /\ page[y].high \in Int
  BY <1>1, Numbers
\* The ways a call goes on from a page y.
<1>6. ASSUME NEW y \in Page, Beyond(page, d, h, y), page[y].kind = "redirect"
      PROVE  Beyond(page, d, h, page[y].target)
  BY <1>4, <1>6 DEF RedirectsIn
<1>7. ASSUME NEW y \in Page, Beyond(page, d, h, y), Route(page[y], key) = "right"
      PROVE  Beyond(page, d, h, Onward(page[y]))
  <2>1. CASE page[y].kind = "redirect"
    BY <1>6, <1>7, <2>1 DEF Onward
  <2>2. CASE page[y].kind # "redirect"
    <3>1. y \in ActiveIn(page)
      BY <1>1, <1>7, <2>2, LivePages DEF Beyond, RedirectsIn
    <3>2. page[y].high <= key
      BY <1>2, <1>5, <1>7, <2>2 DEF Route
    <3>3. page[y].high # PosInf
      BY <1>2, <1>5, <3>2, Numbers
    <3>4. page[y].right \in Live(page)
      BY <3>1, <3>3 DEF Linked, Chained, RightLeads
    <3>5. page[y].right # Nil
      BY <1>3, <3>4
    <3>6. QED
      BY <1>4, <1>7, <2>2, <3>1, <3>5 DEF Onward
  <2>3. QED
    BY <2>1, <2>2
<1>8. ASSUME node[v] \in Page, page[node[v]].kind = "internal",
             Route(page[node[v]], key) = "here"
      PROVE  Beyond(page, d, h, ChildOf(v)) /\ ChildOf(v) \in ActiveIn(page)
  <2>1. node[v] \in InternalsIn(page)
    BY <1>8 DEF InternalsIn
  <2>2. page[node[v]].low <= key /\ key < page[node[v]].high
    BY <1>2, <1>5, <1>8 DEF Route
  <2>3. Beyond(page, d, h, Child(page[node[v]], key))
    BY <1>2, <1>4, <2>1, <2>2 DEF key
  <2>4. Child(page[node[v]], key) \in ActiveIn(page)
    BY <1>1, <1>2, <2>1, <2>2, ChildCovers
  <2>5. QED
    BY <2>3, <2>4 DEF ChildOf, key
\* The pages that were there.
<1>9. ASSUME NEW x, Beyond(page, d, h, x)
      PROVE  Beyond(page', e, h, x)
  BY <1>1, <1>9, StaysBeyond
\* The split.
<1>10. ASSUME SplitChild(v), NEW x \in {ChildOf(v), FirstNew, page[ChildOf(v)].right},
              x # Nil
       PROVE  Beyond(page', e, h, x)
  <2> DEFINE c == ChildOf(v)
  <2>1. /\ node[v] \in Page /\ page[node[v]].kind = "internal"
        /\ Route(page[node[v]], key) = "here"
    BY <1>10 DEF SplitChild, InsertDescends, Attempts, WriteFree, key
  <2>2. Beyond(page, d, h, c) /\ c \in ActiveIn(page)
    BY <1>8, <2>1
  <2>3. /\ FirstNew \in Live(page') /\ FirstNew \in ActiveIn(page')
        /\ page'[FirstNew].level = page[c].level
        /\ page'[FirstNew].low >= page[c].low
    BY <1>1, <1>10, SplitChildLinks
  <2> HIDE DEF c
  <2>4. CASE x = c \/ x = page[c].right
    BY <1>4, <1>9, <1>10, <2>2, <2>4
  <2>5. CASE x = FirstNew
    <3>1. e[x] = x /\ d[c] = c
      BY <2>2, <2>3, <2>5 DEF Linked, Leads
    <3>2. /\ page[c].low \in Int /\ h \in Int /\ page'[FirstNew].low \in Int
      BY <1>1, <2>2, <2>3, Numbers DEF Guards, ActiveIn
    <3>3. page'[FirstNew].level > 0 \/ page'[FirstNew].low >= h
      BY <2>2, <2>3, <3>1, <3>2 DEF Beyond
    <3>4. QED
      BY <2>3, <2>5, <3>1, <3>3 DEF Beyond
  <2>6. QED
    BY <1>10, <2>4, <2>5 DEF c
<1>11. SUFFICES ASSUME NEW x, AimsAt(v, x)' PROVE Beyond(page', e, h, x)
  OBVIOUS
<1>12. Moves(v, x)
  BY <1>11 DEF CallGoesOn
<1>13. ASSUME NEW y \in Page, AimsAt(v, y), Follows(v, y, x)
       PROVE  Beyond(page', e, h, x)
  <2>1. Beyond(page, d, h, y)
    BY <1>13
  <2>2. Beyond(page, d, h, x)
    BY <1>6, <1>7, <1>8, <1>13, <2>1 DEF Follows, key
  <2>3. QED
    BY <1>9, <2>2
<1>14. QED
  BY <1>4, <1>9, <1>10, <1>12, <1>13 DEF Moves

-----------------------------------------------------------------------------
(***************************************************************************)
(* A step keeps the calls made under guards beyond the guarded leaves.     *)
(***************************************************************************)
LEMMA SceneAndNextKept ==
  ASSUME ThreadsTyped, NEW t \in Thread, Start(t) \/ Step(t)
  PROVE  /\ filled'.scene = filled.scene
         /\ \A u \in Thread \ {t} : next'[u] = next[u]
<1> USE DEF ThreadsTyped, Progress, Resume
<1>1. CASE Start(t)
  BY <1>1 DEF Start
<1>2. CASE ReadRoot(t) \/ AttemptRoot(t) \/ AttemptRight(t) \/ Seek(t)
  BY <1>2 DEF ReadRoot, AttemptRoot, AttemptRight, Seek, SeekRestart, SeekRight,
              SeekDown, SeekGet, SeekWriter
<1>3. CASE DropGuard(t) \/ Relatch(t) \/ FastUpdate(t) \/ Count(t)
  BY <1>3 DEF DropGuard, Relatch, FastUpdate, Count
<1>4. CASE Return(t)
  BY <1>4 DEF Return
<1>5. CASE FastInsert(t) \/ SplitRoot(t) \/ InsertRetry(t) \/ InsertHere(t)
             \/ InsertDown(t)
  BY <1>5 DEF FastInsert, SplitRoot, InsertRetry, InsertHere, InsertDown
<1>6. CASE SplitChild(t)
  BY <1>6 DEF SplitChild
<1>7. CASE FixSplit(t) \/ FixSuccessor(t)
  BY <1>7 DEF FixSplit, FixSuccessor
<1>8. CASE FastRemove(t) \/ Shrink(t) \/ RemoveRetry(t) \/ RemoveHere(t)
             \/ RemoveDown(t) \/ BorrowFromLeft(t) \/ BorrowFromRight(t)
  BY <1>8 DEF FastRemove, Shrink, RemoveRetry, RemoveHere, RemoveDown,
              BorrowFromLeft, BorrowFromRight
<1>9. CASE Merge(t)
  BY <1>9 DEF Merge
<1>10. CASE FixStart(t) \/ FixNone(t) \/ WalkBack(t) \/ WalkOn(t) \/ Peek(t)
  BY <1>10 DEF FixStart, FixNone, WalkBack, WalkOn, Peek
<1>11. CASE Join(t)
  BY <1>11 DEF Join
<1>12. QED
  BY <1>1, <1>2, <1>3, <1>4, <1>5, <1>6, <1>7, <1>8, <1>9, <1>10, <1>11
     DEF Step, Insert, Remove

LEMMA StepIsNotIdle ==
  ASSUME NEW t \in Thread, Step(t)
  PROVE  ~Idle(t)
BY DEF Step, Seek, Insert, Remove, Idle, ReadRoot, AttemptRoot, AttemptRight,
       Attempts, Seeks, Latched, SeekRestart, SeekRight, SeekDown, SeekGet, SeekWriter,
       DropGuard, Relatch, FastUpdate, Count, Return, FastInsert, SplitRoot,
       InsertRetry, InsertHere, InsertDown, InsertDescends, SplitChild, FixSplit,
       FixSuccessor, FastRemove, Shrink, RemoveRetry, RemoveHere, RemoveDown,
       RemoveDescends, BorrowFromLeft, BorrowFromRight, Merge, FixStart, FixNone,
       WalkBack, WalkOn, Peek, Join

\* The guard of a busy nested call.
LEMMA GuardOfCall ==
  ASSUME IndInv, NEW v \in Thread, UnderGuard(v)
  PROVE  /\ KeeperOf(v) \in Thread /\ node[KeeperOf(v)] \in Page
         /\ Guards(page, node[KeeperOf(v)])
<1> DEFINE u == KeeperOf(v)
<1>1. u \in Thread
  BY KeeperAssumption DEF KeeperOf, IndInv, ThreadsTyped, Progress
<1>2. /\ pc[u] = "guard" /\ call[v].key >= page[node[u]].high
  BY DEF UnderGuard, GuardOver
<1>3. node[u] \in Page /\ page[node[u]].kind = "leaf"
  BY <1>1, <1>2 DEF IndInv, LatchDiscipline, GuardLatched, GuardHasRecord
<1>4. /\ call[v].key \in Int /\ call[v].key < PosInf /\ PosInf \in Int
      /\ page[node[u]].high \in Int
  BY <1>3, Numbers DEF IndInv, TreeTyped, ThreadsTyped, Call, Pages
<1>5. page[node[u]].high # PosInf
  BY <1>2, <1>4
<1>6. QED
  BY <1>1, <1>3, <1>5 DEF Guards, ActiveIn, Active

\* Whoever steps is not the keeper of a busy call, and a call made under a guard
\* starts as the user of the guard was asked to.
Steps(t) == /\ (Start(t) /\ (Nested(t) => Ascends(t))) \/ Step(t)
            /\ \A v \in Thread : Busy(v) => KeeperOf(v) # t

LEMMA CallsStayAhead ==
  ASSUME TreeInv, TreeInv', NEW t \in Thread, Steps(t),
         NEW d, NEW k, Linked(page, d), Ranked(page, k),
         NEW e, Linked(page', e), Carries(d, e), RangesGoOn,
         \A v \in Thread : Busy(v) => UnderGuard(v) /\ Ahead(v, d),
         NEW v \in Thread, Busy(v)'
  PROVE  UnderGuard(v)' /\ Ahead(v, e)'
<1> DEFINE u == KeeperOf(v)
           l == node[u]
<1>1. ThreadsTyped /\ IndInv
  BY DEF TreeInv, IndInv
<1>2. Start(t) \/ Step(t)
  BY DEF Steps
<1>3. OthersKept(t) /\ filled'.scene = filled.scene
      /\ \A w \in Thread \ {t} : next'[w] = next[w]
  BY <1>1, <1>2, OthersKeep, SceneAndNextKept
<1>4. KeeperOf(v)' = u /\ (Nested(v)' <=> Nested(v))
  BY <1>3 DEF KeeperOf, Nested
<1>5. u \in Thread
  BY <1>1, KeeperAssumption DEF KeeperOf, ThreadsTyped, Progress
\* What is left to show, once the guard is known to be another thread's.
<1>6. ASSUME u # t, pc[u] = "guard"
      PROVE  /\ pc'[u] = "guard" /\ page'[l] = page[l]
             /\ GuardOver(v)' = GuardOver(v) /\ GuardOver(v) = page[l]
  <2>1. pc'[u] = pc[u] /\ node'[u] = l
    BY <1>3, <1>5, <1>6 DEF OthersKept
  <2>2. page'[l] = page[l]
    BY <1>1, <1>2, <1>5, <1>6, GuardedPageKept
  <2>3. GuardOver(v)' = page'[l]
    BY <1>4, <2>1 DEF GuardOver
  <2>4. QED
    BY <1>6, <2>1, <2>2, <2>3 DEF GuardOver
<1> DEFINE Goal == UnderGuard(v)' /\ Ahead(v, e)'
<1>7. CASE Busy(v)
  <2>1. /\ UnderGuard(v) /\ Ahead(v, d) /\ u # t
    BY <1>7 DEF Steps
  <2>2. /\ pc[u] = "guard" /\ pc[v] \in NestedLabel /\ call[v].op # "remove"
        /\ call[v].key >= GuardOver(v).high
    BY <2>1 DEF UnderGuard
  <2>3. Guards(page, l)
    BY <1>1, <2>1, GuardOfCall
  <2>4. /\ pc'[u] = "guard" /\ page'[l] = page[l]
        /\ GuardOver(v)' = GuardOver(v) /\ GuardOver(v) = page[l]
    BY <1>6, <2>1, <2>2
  <2>5. \A x : AimsAt(v, x) => Beyond(page, d, page[l].high, x)
    BY <2>1, <2>4 DEF Ahead
  <2>6. CASE v = t
    <3>1. Step(v) /\ ~Idle(v)
      BY <1>2, <1>7, <2>6 DEF Busy, Start
    <3>2. CallGoesOn(v)
      BY <1>1, <2>2, <3>1, NestedMoves
    <3>3. page[l].high <= call[v].key
      <4>1. page[l].high \in Int /\ call[v].key \in Int
        BY <1>1, <2>1, GuardOfCall, Numbers DEF IndInv, TreeTyped, ThreadsTyped, Call, Pages
      <4>2. QED
        BY <2>2, <2>4, <4>1
    <3>4. \A x : AimsAt(v, x)' => Beyond(page', e, page[l].high, x)
      <4> HIDE DEF l
      <4>1. QED
        BY <2>3, <2>4, <2>5, <3>2, <3>3, CallStaysAhead
    <3>5. UnderGuard(v)'
      <4>1. pc'[v] \in NestedLabel /\ call'[v] = call[v]
        BY <3>2 DEF CallGoesOn, Busy, Idle
      <4>2. pc'[KeeperOf(v)'] = "guard"
        BY <1>4, <2>4
      <4>3. QED
        BY <2>2, <2>4, <4>1, <4>2 DEF UnderGuard
    <3>6. Ahead(v, e)'
      BY <2>4, <3>4 DEF Ahead
    <3>7. QED
      BY <3>5, <3>6
  <2>7. CASE v # t
    <3>1. /\ pc'[v] = pc[v] /\ call'[v] = call[v] /\ node'[v] = node[v]
          /\ next'[v] = next[v] /\ fix'[v] = fix[v]
      BY <1>3, <2>7 DEF OthersKept
    <3>2. UnderGuard(v)'
      <4>1. pc'[KeeperOf(v)'] = "guard"
        BY <1>4, <2>4
      <4>2. QED
        BY <2>2, <2>4, <3>1, <4>1 DEF UnderGuard
    <3>3. \A x : AimsAt(v, x)' => AimsAt(v, x)
      BY <3>1 DEF AimsAt
    <3>4. page \in Pages /\ page' \in Pages /\ WellFormed(page, root)
          /\ WellFormed(page', root')
      BY DEF TreeInv, IndInv, TreeTyped, Pages
    <3>5. \A x : AimsAt(v, x)' => Beyond(page', e, page[l].high, x)
      <4> HIDE DEF l
      <4>1. QED
        BY <2>3, <2>4, <2>5, <3>3, <3>4, StaysBeyond
    <3>6. Ahead(v, e)'
      BY <2>4, <3>5 DEF Ahead
    <3>7. QED
      BY <3>2, <3>6
  <2>8. QED
    BY <2>6, <2>7
<1>8. CASE ~Busy(v)
  <2>1. v = t /\ Start(t) /\ Nested(t) /\ Ascends(t)
    <3>1. Nested(v) /\ Idle(v) /\ pc'[v] # pc[v]
      BY <1>4, <1>8 DEF Busy, Idle
    <3>2. v = t
      BY <1>3, <3>1 DEF OthersKept
    <3>3. QED
      BY <3>1, <3>2, StepIsNotIdle DEF Steps
  <2>2. u # t /\ pc[u] = "guard"
    BY <2>1 DEF Ascends, Nested
  <2>3. /\ pc'[u] = "guard" /\ GuardOver(v)' = page[l]
    BY <1>6, <2>2
  <2>4. pc'[v] = "root"
    BY <1>1, <2>1 DEF Start, GoTo, ThreadsTyped
  <2>5. call'[v].op # "remove" /\ call'[v].key >= page[l].high
    BY <2>1 DEF Ascends
  <2>6. UnderGuard(v)'
    <3>1. pc'[KeeperOf(v)'] = "guard"
      BY <1>4, <2>3
    <3>2. QED
      BY <2>3, <2>4, <2>5, <3>1 DEF UnderGuard, NestedLabel
  <2>7. Ahead(v, e)'
    BY <2>4 DEF Ahead, AimsAt
  <2>8. QED
    BY <2>6, <2>7
<1>9. QED
  BY <1>7, <1>8

-----------------------------------------------------------------------------
(***************************************************************************)
(* What is latched is active.                                              *)
(***************************************************************************)
\* A thread that has a latch after its step has a guard or a repair's page, or a
\* leaf under a pending count.
Holds(t) ==
  latch'[t].page # Nil =>
    \/ pc'[t] \in {"guard"} \cup Repairing
    \/ /\ pc'[t] \in {"count", "count_slow"}
       /\ latch'[t].page \in Page /\ page'[latch'[t].page].kind = "leaf"

LEMMA StepHolds ==
  ASSUME IndInv, Held, NEW t \in Thread, Start(t) \/ Step(t)
  PROVE  Holds(t)
<1>1. page \in [Page -> PageRec] /\ ThreadsTyped
  BY DEF IndInv, TreeTyped, SoundPage
<1>2. NoLatch.page = Nil
  BY DEF NoLatch
<1> USE <1>1, <1>2 DEF ThreadsTyped, tree, threads, GoTo, Visit, Retry, Hold, Release,
     Answer, Resume, WalkFrom, Latched, Attempts, Seeks, OwnsKey, WriteFree, Holds,
     Repairing
<1>3. CASE latch'[t].page = Nil
  BY <1>3
<1>4. latch[t].page # Nil => pc[t] \in Holding
  BY DEF Held
<1>5. CASE Start(t)
  BY <1>4, <1>5 DEF Start, Idle, Holding
<1>6. CASE ReadRoot(t) \/ AttemptRoot(t) \/ AttemptRight(t)
  BY <1>4, <1>6 DEF ReadRoot, AttemptRoot, AttemptRight, Holding
<1>7. CASE SeekRestart(t) \/ SeekRight(t) \/ SeekDown(t) \/ SeekWriter(t)
  BY <1>4, <1>7 DEF SeekRestart, SeekRight, SeekDown, SeekWriter, Holding
<1>8. CASE SeekGet(t)
  BY <1>4, <1>8 DEF SeekGet, Holding
<1>9. CASE DropGuard(t) \/ Count(t)
  BY <1>9 DEF DropGuard, Count
<1>10. CASE Relatch(t) \/ FastUpdate(t)
  BY <1>4, <1>10 DEF Relatch, FastUpdate, Holding
<1>11. CASE Return(t)
  BY <1>4, <1>11 DEF Return, Holding
\* The sections that count a record.
<1>12. ASSUME NEW p \in Page, page[p].kind = "leaf", NEW v, NEW i,
              page' = [page EXCEPT ![p].recs[i] = v]
       PROVE  page'[p].kind = "leaf"
  BY <1>12 DEF PageRec
<1>13. CASE FastInsert(t)
  <2> DEFINE p == node[t]
             i == call[t].key
  <2>1. /\ pc[t] \notin Holding /\ p \in Page /\ page[p].kind = "leaf"
        /\ \/ UNCHANGED latch
           \/ /\ page' = [page EXCEPT ![p].recs[i] = call[t].val]
              /\ \/ UNCHANGED latch
                 \/ pc'[t] = "count" /\ latch'[t].page = p
    BY <1>13 DEF FastInsert, StoreRecord, Holding
  <2> HIDE DEF p, i
  <2>2. QED
    BY <1>4, <1>12, <2>1
<1>14. CASE InsertHere(t)
  BY <1>4, <1>12, <1>14 DEF InsertHere, StoreRecord, Holding
<1>15. CASE FastRemove(t)
  <2> DEFINE p == node[t]
             i == call[t].key
  <2>1. /\ pc[t] \notin Holding /\ p \in Page /\ page[p].kind = "leaf"
        /\ \/ UNCHANGED latch
           \/ /\ page' = [page EXCEPT ![p].recs[i] = NoVal]
              /\ pc'[t] \in {"count", "count_slow"} /\ latch'[t].page = p
    BY <1>15 DEF FastRemove, EraseRecord, Holding
  <2> HIDE DEF p, i
  <2>2. QED
    BY <1>4, <1>12, <2>1
<1>16. CASE RemoveHere(t)
  <2> DEFINE p == node[t]
             i == call[t].key
  <2>1. /\ pc[t] \notin Holding /\ p \in Page /\ page[p].kind = "leaf"
        /\ \/ UNCHANGED latch
           \/ /\ page' = [page EXCEPT ![p].recs[i] = NoVal]
              /\ pc'[t] \in {"count", "count_slow"} /\ latch'[t].page = p
    BY <1>16 DEF RemoveHere, EraseRecord, Holding
  <2> HIDE DEF p, i
  <2>2. QED
    BY <1>4, <1>12, <2>1
<1>17. CASE SplitRoot(t) \/ InsertRetry(t) \/ InsertDown(t) \/ SplitChild(t)
  BY <1>4, <1>17 DEF SplitRoot, InsertRetry, InsertDown, SplitChild, InsertDescends,
                     Holding
<1>18. CASE FixSplit(t)
  BY <1>4, <1>18 DEF FixSplit, Holding
<1>19. CASE FixSuccessor(t)
  BY <1>19 DEF FixSuccessor
<1>20. CASE Shrink(t) \/ RemoveRetry(t) \/ RemoveDown(t)
  BY <1>4, <1>20 DEF Shrink, RemoveRetry, RemoveDown, RemoveDescends, Holding
<1>21. CASE BorrowFromLeft(t) \/ BorrowFromRight(t) \/ Merge(t)
  BY <1>4, <1>21 DEF BorrowFromLeft, BorrowFromRight, Merge, RemoveDescends, Holding
<1>22. CASE FixStart(t) \/ FixNone(t) \/ WalkBack(t)
  BY <1>4, <1>22 DEF FixStart, FixNone, WalkBack, Holding
<1>23. CASE WalkOn(t)
  BY <1>4, <1>23 DEF WalkOn, Holding
<1>24. CASE Peek(t)
  BY <1>24 DEF Peek
<1>25. CASE Join(t)
  BY <1>25 DEF Join
<1>26. QED
  BY <1>5, <1>6, <1>7, <1>8, <1>9, <1>10, <1>11, <1>13, <1>14, <1>15, <1>16, <1>17,
     <1>18, <1>19, <1>20, <1>21, <1>22, <1>23, <1>24, <1>25
     DEF Step, Seek, Insert, Remove

LEMMA HeldKept ==
  ASSUME IndInv, IndInv', Held, NEW t \in Thread, Start(t) \/ Step(t),
         NEW e, Sees(t, e)'
  PROVE  Held'
<1>1. OthersKept(t) /\ Holds(t)
  BY OthersKeep, StepHolds DEF IndInv
<1>2. GuardLatched' /\ RepairLatched' /\ GuardHasRecord'
  BY DEF IndInv, LatchDiscipline
<1>3. ASSUME latch'[t].page # Nil
      PROVE  pc'[t] \in Holding /\ latch'[t].page \in ActiveIn(page')
  <2>1. CASE pc'[t] = "guard"
    <3>1. /\ node'[t] \in Page /\ page'[node'[t]].kind = "leaf"
          /\ \E m : latch'[t] = [page |-> node'[t], mode |-> m]
      BY <1>2, <2>1 DEF GuardLatched, GuardHasRecord
    <3>2. QED
      BY <2>1, <3>1 DEF Holding, ActiveIn, Active
  <2>2. CASE pc'[t] \in Repairing
    <3>1. latch'[t] = [page |-> fix'[t].cursor, mode |-> "write"]
      BY <1>2, <2>2 DEF RepairLatched, Repairing
    <3>2. fix'[t].cursor \in ActiveIn(page')
      BY <2>2 DEF Sees
    <3>3. QED
      BY <2>2, <3>1, <3>2 DEF Holding
  <2>3. CASE pc'[t] \in {"count", "count_slow"} /\ latch'[t].page \in Page
             /\ page'[latch'[t].page].kind = "leaf"
    BY <2>3 DEF Holding, ActiveIn, Active
  <2>4. QED
    BY <1>1, <1>3, <2>1, <2>2, <2>3 DEF Holds
<1>4. ASSUME NEW u \in Thread \ {t}, latch'[u].page # Nil
      PROVE  pc'[u] \in Holding /\ latch'[u].page \in ActiveIn(page')
  <2>1. latch'[u] = latch[u] /\ pc'[u] = pc[u]
    BY <1>1 DEF OthersKept
  <2>2. pc[u] \in Holding /\ latch[u].page \in ActiveIn(page)
    BY <1>4, <2>1 DEF Held
  <2>3. latch[u].page \in Page /\ page[latch[u].page].kind # "free"
    BY <2>2 DEF ActiveIn, Active
  <2>4. page'[latch[u].page] = page[latch[u].page]
    BY <2>3, LatchedPageKept
  <2>5. QED
    BY <2>1, <2>2, <2>4 DEF ActiveIn
<1>5. QED
  BY <1>3, <1>4 DEF Held

-----------------------------------------------------------------------------
(***************************************************************************)
(* The invariant holds.                                                    *)
(***************************************************************************)
LEMMA WaitSteps ==
  ASSUME WaitInv, WaitNext
  PROVE  (\E t \in Thread : Steps(t)) \/ UNCHANGED vars
<1>1. \A v \in Thread : Busy(v) => pc[KeeperOf(v)] = "guard"
  BY DEF WaitInv, UnderGuard
<1>2. ASSUME NEW t \in Thread, WaitStart(t) PROVE Steps(t)
  BY <1>1, <1>2 DEF WaitStart, Steps, Start, Idle
<1>3. ASSUME NEW t \in Thread, RootStep(t) PROVE Steps(t)
  <2>1. AtRootSection(t)
    BY <1>3 DEF RootStep, WaitInv, Gripped
  <2>2. QED
    BY <1>1, <1>3, <2>1 DEF RootStep, Steps, AtRootSection
<1>4. ASSUME NEW t \in Thread, OtherStep(t) PROVE Steps(t)
  BY <1>4 DEF OtherStep, Steps, IsBusyWith, Busy
<1>5. QED
  BY <1>2, <1>3, <1>4 DEF WaitNext, GripSlot, GripRoot, WaitTerminated

LEMMA StepsKeep ==
  ASSUME WaitInv, NEW t \in Thread, Steps(t)
  PROVE  /\ TreeInv' /\ WaitLinks' /\ Held'
         /\ \A v \in Thread : Busy(v)' => UnderGuard(v)'
<1>1. Start(t) \/ Step(t)
  BY DEF Steps
<1>2. TreeInv /\ TreeInv' /\ IndInv /\ IndInv' /\ WellFormed(page, root)
  BY <1>1, StepTreeInv DEF WaitInv, TreeInv
<1>3. PICK d, k : /\ Linked(page, d) /\ Ranked(page, k)
                  /\ \A u \in Thread : Sees(u, d)
                  /\ \A v \in Thread : Busy(v) => Ahead(v, d)
  BY DEF WaitInv, WaitLinks
<1>4. LinksMove(d) /\ RangesGoOn
  BY <1>1, <1>2, <1>3, StepLinks
<1>5. PICK e, j : Linked(page', e) /\ Ranked(page', j) /\ Carries(d, e)
  BY <1>4 DEF LinksMove
<1>6. \A u \in Thread : Sees(u, e)'
  <2> TAKE u \in Thread
  <2>1. CASE u = t
    BY <1>1, <1>2, <1>3, <1>5, <2>1, OwnSees
  <2>2. CASE u # t
    BY <1>1, <1>2, <1>3, <1>5, <2>2, OtherSees
  <2>3. QED
    BY <2>1, <2>2
<1>7. \A v \in Thread : Busy(v) => UnderGuard(v) /\ Ahead(v, d)
  BY <1>3 DEF WaitInv
<1>8. \A v \in Thread : Busy(v)' => UnderGuard(v)' /\ Ahead(v, e)'
  BY <1>2, <1>3, <1>4, <1>5, <1>7, CallsStayAhead
<1>9. Held'
  BY <1>1, <1>2, <1>6, HeldKept DEF WaitInv
<1>10. WaitLinks'
  BY <1>5, <1>6, <1>8 DEF WaitLinks
<1>11. QED
  BY <1>2, <1>8, <1>9, <1>10

LEMMA GripsKept ==
  ASSUME WaitInv, WaitNext
  PROVE  Gripped'
<1>1. Gripped /\ ThreadsTyped
  BY DEF WaitInv, TreeInv, IndInv
<1>2. ASSUME NEW t \in Thread, WaitStart(t) \/ OtherStep(t)
      PROVE  Gripped'
  <2>1. grip' = grip /\ grip[t] = "none" /\ OthersKept(t)
    <3>1. ~AtRootSection(t) /\ grip' = grip /\ (Start(t) \/ Step(t))
      BY <1>2 DEF WaitStart, OtherStep, Start, Idle, AtRootSection
    <3>2. QED
      BY <1>1, <3>1, OthersKeep DEF Gripped
  <2>2. QED
    BY <1>1, <2>1 DEF Gripped, OthersKept, AtRootSection
<1>3. ASSUME NEW t \in Thread, RootStep(t)
      PROVE  Gripped'
  <2>1. \A u \in Thread : grip'[u] = "none"
    BY <1>1, <1>3 DEF RootStep, Gripped
  <2>2. grip' \in [Thread -> {"none", "slot", "root"}]
    BY <1>1, <1>3 DEF RootStep, Gripped
  <2>3. QED
    BY <2>1, <2>2 DEF Gripped
<1>4. ASSUME NEW t \in Thread, GripSlot(t)
      PROVE  Gripped'
  <2>1. /\ pc' = pc /\ grip' = [grip EXCEPT ![t] = "slot"] /\ AtRootSection(t)
        /\ \A u \in Thread \ {t} : grip[u] = "none"
    BY <1>4 DEF GripSlot, vars, threads, Blocks, AsksSlot
  <2>2. QED
    BY <1>1, <2>1 DEF Gripped, AtRootSection
<1>5. ASSUME NEW t \in Thread, GripRoot(t)
      PROVE  Gripped'
  <2>1. pc' = pc /\ grip' = [grip EXCEPT ![t] = "root"] /\ grip[t] = "slot"
    BY <1>5 DEF GripRoot, vars, threads
  <2>2. QED
    BY <1>1, <2>1 DEF Gripped, AtRootSection
<1>6. CASE UNCHANGED <<vars, grip>>
  BY <1>1, <1>6 DEF Gripped, AtRootSection, vars, threads
<1>7. QED
  BY <1>2, <1>3, <1>4, <1>5, <1>6 DEF WaitNext, WaitTerminated

LEMMA VarsKept ==
  ASSUME WaitInv, UNCHANGED vars
  PROVE  /\ TreeInv' /\ WaitLinks' /\ Held'
         /\ \A v \in Thread : Busy(v)' => UnderGuard(v)'
<1>1. TreeInv'
  BY NextTreeInv DEF WaitInv
<1> USE DEF vars, tree, threads, WaitInv
<1>2. WaitLinks'
  <2>1. PICK d, k : /\ Linked(page, d) /\ Ranked(page, k)
                    /\ \A t \in Thread : Sees(t, d)
                    /\ \A v \in Thread : Busy(v) => Ahead(v, d)
    BY DEF WaitLinks
  <2>2. \A t \in Thread : Sees(t, d)'
    BY <2>1 DEF Sees
  <2>3. \A v \in Thread : Busy(v)' => Ahead(v, d)'
    BY <2>1 DEF Busy, Ahead, AimsAt, GuardOver, KeeperOf, Nested, Idle
  <2>4. Linked(page', d) /\ Ranked(page', k)
    BY <2>1
  <2>5. QED
    BY <2>2, <2>3, <2>4 DEF WaitLinks
<1>3. Held'
  BY DEF Held
<1>4. \A v \in Thread : Busy(v)' => UnderGuard(v)'
  BY DEF Busy, UnderGuard, GuardOver, KeeperOf, Nested, Idle
<1>5. QED
  BY <1>1, <1>2, <1>3, <1>4

LEMMA WaitInvInit == WaitInit => WaitInv
<1> SUFFICES ASSUME WaitInit PROVE WaitInv
  OBVIOUS
<1>1. TreeInv /\ LinkInv
  BY InitTreeInv, InitLinks DEF WaitInit
<1>2. \A t \in Thread : Idle(t) /\ latch[t].page = Nil /\ grip[t] = "none"
  BY DEF WaitInit, Init, Idle, NoLatch
<1>3. WaitLinks
  BY <1>1, <1>2 DEF LinkInv, WaitLinks, Busy
<1>4. Held /\ Gripped
  BY <1>2 DEF Held, Gripped, WaitInit
<1>5. QED
  BY <1>1, <1>2, <1>3, <1>4 DEF WaitInv, Busy

LEMMA WaitInvNext == WaitInv /\ [WaitNext]_<<vars, grip>> => WaitInv'
<1>1. ASSUME WaitInv, WaitNext PROVE WaitInv'
  <2>1. /\ TreeInv' /\ WaitLinks' /\ Held'
        /\ \A v \in Thread : Busy(v)' => UnderGuard(v)'
    BY <1>1, WaitSteps, StepsKeep, VarsKept
  <2>2. QED
    BY <1>1, <2>1, GripsKept DEF WaitInv
<1>2. ASSUME WaitInv, UNCHANGED <<vars, grip>> PROVE WaitInv'
  <2>1. /\ TreeInv' /\ WaitLinks' /\ Held'
        /\ \A v \in Thread : Busy(v)' => UnderGuard(v)'
    BY <1>2, VarsKept
  <2>2. Gripped'
    BY <1>2 DEF WaitInv, Gripped, AtRootSection, vars, threads
  <2>3. QED
    BY <2>1, <2>2 DEF WaitInv
<1>3. QED
  BY <1>1, <1>2

LEMMA WaitInvariance == WaitSpec => []WaitInv
BY WaitInvInit, WaitInvNext, PTL DEF WaitSpec

\* Every behaviour in which threads wait as BLinkWait says is one of the tree: to
\* take the root section's latches one at a time, and to call the map under a
\* guard, adds no step that BLinkTree does not have.
THEOREM WaitingImplementsTree == WaitSpec => Spec
<1>1. WaitInit => Init
  BY DEF WaitInit
<1>2. [WaitNext]_<<vars, grip>> => [Next]_vars
  BY DEF WaitNext, WaitStart, RootStep, OtherStep, GripSlot, GripRoot, WaitTerminated,
         Next
<1>3. QED
  BY <1>1, <1>2, PTL DEF WaitSpec, Spec

-----------------------------------------------------------------------------
(***************************************************************************)
(* What threads ask for and what they have.                                *)
(***************************************************************************)
LEMMA AsksByLabel ==
  ASSUME Gripped, NEW t \in Thread
  PROVE  /\ AsksSlot(t) => AsksRead(t) = Nil /\ AsksWrite(t) = Nil /\ pc[t] # "guard"
         /\ AsksRead(t) # Nil =>
              /\ AsksWrite(t) = Nil /\ pc[t] \in {"seek", "peek"}
              /\ pc[t] = "seek" => AsksRead(t) = node[t]
              /\ pc[t] = "peek" => AsksRead(t) = page[fix[t].cursor].right
         /\ pc[t] \in {"guard", "count", "count_slow"} =>
              ~AsksSlot(t) /\ AsksRead(t) = Nil /\ AsksWrite(t) = Nil
         /\ AsksWrite(t) # Nil =>
              /\ pc[t] \in {"latch", "ins", "del"} => AsksWrite(t) = node[t]
              /\ pc[t] \in {"fix_split", "fix_walk"} => AsksWrite(t) = fix[t].cursor
              /\ pc[t] \in Joining => AsksWrite(t) = fix[t].survivor
              /\ pc[t] \in {"latch", "ins", "del", "fix_split", "fix_walk", "fix_none"}
                   \cup Joining \/ grip[t] # "none"
         /\ grip[t] # "none" =>
              /\ AtRootSection(t) /\ AsksRead(t) = Nil /\ ~AsksSlot(t)
              /\ grip[t] = "slot" => AsksWrite(t) = root
              /\ grip[t] = "root" /\ AsksWrite(t) # Nil =>
                   AwaitsChild(t) /\ AsksWrite(t) = page[root].kids[NegInf]
BY DEF Gripped, AsksSlot, ReadsSlot, AtRootSection, AsksRead, AsksWrite, AwaitsChild,
       Joining

\* The only child covers all keys, and it is not the root.
LEMMA OnlyChild ==
  ASSUME TreeInv, page[root].kind = "internal", Separators(page[root]) = {}
  PROVE  LET c == page[root].kids[NegInf]
         IN  /\ c \in ActiveIn(page) /\ c # root
             /\ page[c].high = PosInf /\ page[c].level + 1 = page[root].level
<1>1. page \in Pages /\ WellFormed(page, root) /\ root \in Page
  BY DEF TreeInv, IndInv, TreeTyped, Pages
<1>2. Fits(page, root, NegInf)
  BY <1>1, SlotNumbers DEF WellFormed, ChildrenFit, InternalsIn
<1> DEFINE c == page[root].kids[NegInf]
<1>3. /\ c \in ActiveIn(page) /\ page[c].level + 1 = page[root].level
      /\ page[c].high = page[root].high
  BY <1>2 DEF Fits, IsNext
<1> HIDE DEF c
<1>4. page[root].high = PosInf
  BY <1>1 DEF WellFormed, RootSpans
<1>5. page[root].level \in Nat
  BY <1>1, Numbers
<1>6. QED
  BY <1>3, <1>4, <1>5 DEF c

\* Whatever somebody waits for is active, because somebody has it.
LEMMA HadIsActive ==
  ASSUME WaitInv, NEW u \in Thread, NEW p, p # Nil, HasPage(u, p)
  PROVE  p \in ActiveIn(page)
BY DEF WaitInv, Held, HasPage, TreeInv, WellFormed, RootSpans

\* What keeps t waiting for a page, and that page.
Meets(t, u, p) ==
  \/ p = AsksWrite(t) /\ HasPage(u, p)
  \/ p = AsksRead(t) /\ HasPage(u, p)
  \/ p = AsksRead(t) /\ p = AsksWrite(u) /\ u # t

LEMMA WaitsHow ==
  ASSUME WaitInv, NEW t \in Thread, NEW u \in Thread, WaitsFor(t, u)
  PROVE  \/ AsksSlot(t) /\ grip[u] # "none" /\ u # t
         \/ Asks(t) \in ActiveIn(page) /\ ~AsksSlot(t) /\ Meets(t, u, Asks(t))
         \/ IsBusyWith(t, u)
<1>1. Gripped
  BY DEF WaitInv
<1>2. CASE AsksSlot(t) /\ grip[u] # "none" /\ u # t
  BY <1>2
<1>3. CASE AsksWrite(t) # Nil /\ HasPage(u, AsksWrite(t))
  <2>1. AsksRead(t) = Nil /\ ~AsksSlot(t)
    BY <1>1, <1>3, AsksByLabel
  <2>2. AsksWrite(t) \in ActiveIn(page)
    BY <1>3, HadIsActive
  <2>3. QED
    BY <1>3, <2>1, <2>2 DEF Asks, Meets
<1>4. CASE AsksRead(t) # Nil /\ HasPage(u, AsksRead(t))
  <2>1. ~AsksSlot(t)
    BY <1>1, <1>4, AsksByLabel
  <2>2. AsksRead(t) \in ActiveIn(page)
    BY <1>4, HadIsActive
  <2>3. QED
    BY <1>4, <2>1, <2>2 DEF Asks, Meets
<1>5. CASE TurnsAway(u, t)
  <2>1. /\ u # t /\ AsksRead(t) # Nil /\ AsksRead(t) = AsksWrite(u) /\ AsksWrite(u) # Nil
    BY <1>5 DEF TurnsAway
  <2>2. ~AsksSlot(t) /\ ~AsksSlot(u) /\ AsksRead(u) = Nil
    BY <1>1, <2>1, AsksByLabel
  <2>3. PICK v \in Thread : HasPage(v, AsksWrite(u))
    BY <1>5, <2>2 DEF TurnsAway, Queued, Blocks
  <2>4. AsksWrite(u) \in ActiveIn(page)
    BY <2>1, <2>3, HadIsActive
  <2>5. QED
    BY <2>1, <2>2, <2>4 DEF Asks, Meets
<1>6. CASE IsBusyWith(t, u)
  BY <1>6
<1>7. QED
  BY <1>2, <1>3, <1>4, <1>5, <1>6 DEF WaitsFor, Blocks

-----------------------------------------------------------------------------
(***************************************************************************)
(* The ranks.                                                              *)
(***************************************************************************)
\* Leaves by where they begin, other pages after them.
Spot(p) == IF page[p].level > 0 THEN PosInf + page[p].low ELSE page[p].low

Rank(t) == CASE pc[t] = "guard"                    -> 3 * Spot(node[t]) + 2
             [] pc[t] # "guard" /\ AsksSlot(t)     -> 6 * PosInf
             [] grip[t] # "none"                   -> 6 * PosInf + 1
             [] OTHER -> IF AsksRead(t) # Nil THEN 3 * Spot(AsksRead(t))
                                              ELSE 3 * Spot(AsksWrite(t)) + 1

LEMMA RankIs ==
  ASSUME Gripped, NEW t \in Thread
  PROVE  /\ pc[t] = "guard" => Rank(t) = 3 * Spot(node[t]) + 2
         /\ AsksSlot(t) => Rank(t) = 6 * PosInf
         /\ grip[t] # "none" => Rank(t) = 6 * PosInf + 1
         /\ pc[t] # "guard" /\ ~AsksSlot(t) /\ grip[t] = "none" =>
              Rank(t) = IF AsksRead(t) # Nil THEN 3 * Spot(Asks(t)) ELSE 3 * Spot(Asks(t)) + 1
<1>1. AsksSlot(t) => pc[t] # "guard" /\ grip[t] = "none"
  BY AsksByLabel
<1>2. grip[t] # "none" => pc[t] # "guard"
  BY DEF Gripped, AtRootSection
<1>3. QED
  BY <1>1, <1>2 DEF Rank, Asks

LEMMA Spots ==
  ASSUME TreeInv, NEW p \in ActiveIn(page)
  PROVE  Spot(p) \in Nat /\ Spot(p) < 2 * PosInf
<1>1. /\ page \in Pages /\ p \in Page
  BY DEF TreeInv, IndInv, TreeTyped, Pages, ActiveIn
<1>2. /\ page[p].low \in Int /\ 0 <= page[p].low /\ page[p].low < PosInf /\ PosInf \in Int
  BY <1>1, Numbers
<1>3. QED
  BY <1>2 DEF Spot

\* A page to the right on the same level, or beyond a guarded leaf, comes later.
LEMMA SpotRight ==
  ASSUME TreeInv, NEW p \in ActiveIn(page), NEW q \in ActiveIn(page),
         \/ page[q].level = page[p].level /\ page[q].low = page[p].high
         \/ /\ page[p].level = 0
            /\ page[q].level > 0 \/ page[q].low >= page[p].high
  PROVE  Spot(p) + 1 <= Spot(q)
<1>1. page \in Pages /\ p \in Page /\ q \in Page /\ Fenced(page)
  BY DEF TreeInv, IndInv, TreeTyped, Pages, ActiveIn, WellFormed
<1>2. /\ page[p].low \in Int /\ page[p].high \in Int /\ page[q].low \in Int
      /\ page[p].low < PosInf /\ page[q].low >= 0 /\ PosInf \in Int
      /\ page[p].level \in Nat /\ page[q].level \in Nat
  BY <1>1, Numbers
<1>3. page[p].low < page[p].high
  BY <1>1 DEF Fenced
<1>4. QED
  BY <1>2, <1>3 DEF Spot

\* A thread whose page has no right neighbour has nothing to wait for.
LEMMA HolderWaits ==
  ASSUME WaitInv, NEW u \in Thread, NEW w \in Thread, WaitsFor(u, w),
         NEW p, p # Nil, latch[u].page = p
  PROVE  /\ p \in ActiveIn(page) /\ page[p].high # PosInf
         /\ \/ pc[u] = "guard" /\ node[u] = p
            \/ /\ pc[u] \in Repairing /\ grip[u] = "none" /\ ~AsksSlot(u)
               /\ Asks(u) \in ActiveIn(page)
               /\ page[Asks(u)].level = page[p].level
               /\ page[Asks(u)].low = page[p].high
<1>1. Gripped /\ TreeInv /\ IndInv /\ WellFormed(page, root) /\ page \in Pages
  BY DEF WaitInv, TreeInv, IndInv, TreeTyped, Pages
<1>2. pc[u] \in Holding /\ p \in ActiveIn(page) /\ p \in Page
  BY DEF WaitInv, Held, ActiveIn
<1>3. \/ AsksSlot(u) /\ grip[w] # "none" /\ w # u
      \/ Asks(u) \in ActiveIn(page) /\ ~AsksSlot(u) /\ Meets(u, w, Asks(u))
      \/ IsBusyWith(u, w)
  BY WaitsHow
<1>4. IsBusyWith(u, w) => pc[u] = "guard" /\ UnderGuard(w) /\ KeeperOf(w) = u
  BY DEF WaitInv, IsBusyWith, Busy, UnderGuard
<1>5. Nil \notin ActiveIn(page)
  BY <1>1, LivePages DEF ActiveIn
<1>6. CASE pc[u] = "guard"
  <2>1. IsBusyWith(u, w)
    <3>1. ~AsksSlot(u) /\ Asks(u) = Nil
      BY <1>1, <1>6, AsksByLabel DEF Asks
    <3>2. QED
      BY <1>3, <1>5, <3>1
  <2>2. \E m : latch[u] = [page |-> node[u], mode |-> m]
    BY <1>1, <1>6 DEF IndInv, LatchDiscipline, GuardLatched
  <2>3. Guards(page, node[u])
    BY <1>1, <1>4, <2>1, GuardOfCall
  <2>4. QED
    BY <1>2, <1>6, <2>2, <2>3 DEF Guards
<1>7. CASE pc[u] \in {"count", "count_slow"}
  <2>1. ~AsksSlot(u) /\ Asks(u) = Nil
    BY <1>1, <1>7, AsksByLabel DEF Asks
  <2>2. QED
    BY <1>3, <1>4, <1>5, <1>7, <2>1
<1>8. CASE pc[u] \in Repairing
  <2>1. ~AtRootSection(u) /\ ~ReadsSlot(u)
    BY <1>8 DEF Repairing, AtRootSection, ReadsSlot
  <2>2. grip[u] = "none" /\ ~AsksSlot(u)
    BY <1>1, <2>1 DEF Gripped, AsksSlot
  <2>3. Asks(u) \in ActiveIn(page)
    BY <1>3, <1>4, <1>8, <2>2 DEF Repairing
  <2>4. PICK d : Linked(page, d) /\ Sees(u, d)
    BY DEF WaitInv, WaitLinks
  <2>5. fix[u].cursor = p
    <3>1. latch[u] = [page |-> fix[u].cursor, mode |-> "write"]
      BY <1>1, <1>8 DEF IndInv, LatchDiscipline, RepairLatched, Repairing
    <3>2. QED
      BY <3>1
  <2>6. Asks(u) = page[p].right
    <3>1. pc[u] \in Joining => page[p].right = fix[u].survivor
      BY <2>4, <2>5 DEF Sees
    <3>2. pc[u] = "peek" \/ pc[u] \in Joining
      BY <1>8 DEF Repairing, Joining
    <3>3. Asks(u) # Nil
      BY <1>5, <2>3
    <3>4. CASE pc[u] = "peek"
      <4>1. AsksWrite(u) = Nil
        BY <2>2, <3>4 DEF AsksWrite, AtRootSection, AwaitsChild
      <4>2. AsksRead(u) # Nil
        BY <3>3, <4>1 DEF Asks
      <4>3. QED
        BY <1>1, <2>5, <3>4, <4>2, AsksByLabel DEF Asks
    <3>5. CASE pc[u] \in Joining
      <4>1. AsksRead(u) = Nil
        BY <3>5 DEF AsksRead, Joining
      <4>2. QED
        BY <1>1, <3>1, <3>3, <3>5, <4>1, AsksByLabel DEF Asks
    <3>6. QED
      BY <3>2, <3>4, <3>5
  <2>7. RightLeads(page, d, p)
    BY <1>2, <2>4 DEF Linked, Chained
  <2>8. page[p].right # Nil /\ d[page[p].right] = page[p].right
    BY <1>5, <2>3, <2>4, <2>6 DEF Linked, Leads
  <2>9. QED
    BY <1>2, <1>8, <2>2, <2>3, <2>6, <2>7, <2>8 DEF RightLeads
<1>9. QED
  BY <1>2, <1>6, <1>7, <1>8 DEF Holding

\* The thread that has the root slot asks for pages that nobody waits behind.
LEMMA GripperAsks ==
  ASSUME WaitInv, NEW t \in Thread, grip[t] # "none", Asks(t) # Nil
  PROVE  /\ page[Asks(t)].high = PosInf
         /\ grip[t] = "root" => Asks(t) # root
<1>1. Gripped /\ TreeInv
  BY DEF WaitInv
<1>2. Asks(t) = AsksWrite(t) /\ AsksRead(t) = Nil
  BY <1>1, AsksByLabel DEF Asks
<1>3. grip[t] \in {"slot", "root"}
  BY <1>1 DEF Gripped
<1>4. CASE grip[t] = "slot"
  BY <1>1, <1>2, <1>4, AsksByLabel DEF TreeInv, WellFormed, RootSpans
<1>5. CASE grip[t] = "root"
  <2>1. AwaitsChild(t) /\ Asks(t) = page[root].kids[NegInf]
    BY <1>1, <1>2, <1>5, AsksByLabel
  <2>2. QED
    BY <1>1, <2>1, OnlyChild DEF AwaitsChild
<1>6. QED
  BY <1>3, <1>4, <1>5

LEMMA GuardedSpot ==
  ASSUME TreeInv, NEW t \in Thread, pc[t] = "guard"
  PROVE  node[t] \in ActiveIn(page) /\ page[node[t]].level = 0
<1>1. node[t] \in Page /\ page[node[t]].kind = "leaf" /\ Levelled(page, root)
  BY DEF TreeInv, IndInv, LatchDiscipline, GuardLatched, GuardHasRecord, WellFormed
<1>2. node[t] \in ActiveIn(page)
  BY <1>1 DEF ActiveIn, Active
<1>3. QED
  BY <1>1, <1>2 DEF Levelled

LEMMA RankBounds ==
  ASSUME WaitInv, NEW t \in Thread, NEW u \in Thread, WaitsFor(t, u)
  PROVE  Rank(t) \in 0..(6 * PosInf + 1)
<1>1. Gripped /\ TreeInv /\ PosInf \in Nat
  BY BoundsAssumption DEF WaitInv, PosInf
<1>2. \A p \in ActiveIn(page) : Spot(p) \in Nat /\ Spot(p) < 2 * PosInf
  BY <1>1, Spots
<1>3. CASE pc[t] = "guard"
  <2>1. Rank(t) = 3 * Spot(node[t]) + 2
    BY <1>1, <1>3, RankIs
  <2>2. Spot(node[t]) \in Nat /\ Spot(node[t]) < 2 * PosInf
    BY <1>1, <1>2, <1>3, GuardedSpot
  <2>3. QED
    BY <1>1, <2>1, <2>2
<1>4. CASE AsksSlot(t)
  BY <1>1, <1>4, RankIs
<1>5. CASE grip[t] # "none"
  BY <1>1, <1>5, RankIs
<1>6. CASE pc[t] # "guard" /\ ~AsksSlot(t) /\ grip[t] = "none"
  <2>1. Asks(t) \in ActiveIn(page)
    <3>1. ~IsBusyWith(t, u)
      BY <1>6 DEF WaitInv, IsBusyWith, Busy, UnderGuard
    <3>2. QED
      BY <1>6, <3>1, WaitsHow
  <2>2. Rank(t) = 3 * Spot(Asks(t)) \/ Rank(t) = 3 * Spot(Asks(t)) + 1
    BY <1>1, <1>6, RankIs
  <2>3. Spot(Asks(t)) \in Nat /\ Spot(Asks(t)) < 2 * PosInf
    BY <1>2, <2>1
  <2>4. QED
    BY <1>1, <2>2, <2>3
<1>7. QED
  BY <1>3, <1>4, <1>5, <1>6

\* The page that a call under a guard waits for is further right, or no leaf.
LEMMA CallAsksBeyond ==
  ASSUME WaitInv, NEW t \in Thread, NEW u \in Thread, IsBusyWith(t, u),
         grip[u] = "none", Asks(u) \in ActiveIn(page)
  PROVE  pc[u] # "guard" /\ Spot(node[t]) + 1 <= Spot(Asks(u))
<1>1. Gripped /\ TreeInv /\ page \in Pages
  BY DEF WaitInv, TreeInv, IndInv, TreeTyped, Pages
<1>2. UnderGuard(u) /\ KeeperOf(u) = t /\ Busy(u)
  BY DEF WaitInv, IsBusyWith, Busy
<1>3. PICK d : Linked(page, d) /\ Ahead(u, d)
  BY <1>2 DEF WaitInv, WaitLinks
<1> DEFINE q == Asks(u)
<1>4. q # Nil
  BY <1>1, LivePages DEF ActiveIn
<1>5. pc[u] \in NestedLabel /\ pc[t] = "guard"
  BY <1>2 DEF UnderGuard
<1>6. \/ pc[u] \in {"seek", "latch", "ins"} /\ q = node[u]
      \/ pc[u] = "fix_split" /\ q = fix[u].cursor
      \/ pc[u] = "fix_succ" /\ q = fix[u].survivor
  <2>1. CASE AsksRead(u) # Nil
    <3>1. pc[u] \in {"seek", "peek"} /\ (pc[u] = "seek" => q = node[u])
      BY <1>1, <2>1, AsksByLabel DEF Asks
    <3>2. QED
      BY <1>5, <3>1 DEF NestedLabel
  <2>2. CASE AsksRead(u) = Nil
    <3>1. q = AsksWrite(u) /\ AsksWrite(u) # Nil
      BY <1>4, <2>2 DEF Asks
    <3> HIDE DEF q
    <3>2. pc[u] \in {"latch", "ins", "del", "fix_split", "fix_walk", "fix_none"}
                      \cup Joining
      BY <1>1, <3>1, AsksByLabel
    <3>3. pc[u] \in {"latch", "ins", "fix_split", "fix_succ"}
      BY <1>5, <3>2 DEF NestedLabel, Joining
    <3>4. /\ pc[u] \in {"latch", "ins"} => q = node[u]
          /\ pc[u] = "fix_split" => q = fix[u].cursor
          /\ pc[u] = "fix_succ" => q = fix[u].survivor
      BY <1>1, <3>1, AsksByLabel DEF Joining
    <3>5. QED
      BY <3>3, <3>4
  <2>3. QED
    BY <2>1, <2>2
<1>7. AimsAt(u, q)
  BY <1>6 DEF AimsAt
<1>8. Beyond(page, d, page[node[t]].high, q)
  BY <1>2, <1>3, <1>7 DEF Ahead, GuardOver
<1>9. page[q].level > 0 \/ page[q].low >= page[node[t]].high
  BY <1>3, <1>8 DEF Beyond, Linked, Leads
<1>10. QED
  BY <1>1, <1>5, <1>6, <1>9, GuardedSpot, SpotRight

LEMMA RanksRise ==
  ASSUME WaitInv, NEW t \in Thread, NEW u \in Thread, NEW w \in Thread,
         WaitsFor(t, u), WaitsFor(u, w)
  PROVE  Rank(t) < Rank(u)
<1>1. Gripped /\ TreeInv /\ PosInf \in Nat
  BY BoundsAssumption DEF WaitInv, PosInf
<1>2. \A p \in ActiveIn(page) : Spot(p) \in Nat /\ Spot(p) < 2 * PosInf /\ p # Nil
  BY <1>1, Spots, LivePages DEF ActiveIn, TreeInv, IndInv, TreeTyped, Pages
<1>3. CASE AsksSlot(t) /\ grip[u] # "none"
  BY <1>1, <1>3, RankIs
<1>4. CASE Asks(t) \in ActiveIn(page) /\ ~AsksSlot(t) /\ Meets(t, u, Asks(t))
  <2> DEFINE p == Asks(t)
  <2>1. /\ p \in ActiveIn(page) /\ p # Nil /\ Spot(p) \in Nat /\ Spot(p) < 2 * PosInf
    BY <1>2, <1>4
  <2>2. pc[t] # "guard"
    BY <1>1, <2>1, AsksByLabel DEF Asks
  <2>3. grip[t] = "none" => /\ AsksRead(t) # Nil => Rank(t) = 3 * Spot(p)
                            /\ Rank(t) = 3 * Spot(p) \/ Rank(t) = 3 * Spot(p) + 1
    BY <1>1, <1>4, <2>2, RankIs
  <2>4. CASE latch[u].page = p
    <3>1. /\ page[p].high # PosInf
          /\ \/ pc[u] = "guard" /\ node[u] = p
             \/ /\ pc[u] \in Repairing /\ grip[u] = "none" /\ ~AsksSlot(u)
                /\ Asks(u) \in ActiveIn(page)
                /\ page[Asks(u)].level = page[p].level
                /\ page[Asks(u)].low = page[p].high
      BY <2>1, <2>4, HolderWaits
    <3>2. grip[t] = "none"
      BY <2>1, <3>1, GripperAsks
    <3>3. Rank(t) = 3 * Spot(p) \/ Rank(t) = 3 * Spot(p) + 1
      BY <2>3, <3>2
    <3>4. CASE pc[u] = "guard" /\ node[u] = p
      <4>1. Rank(u) = 3 * Spot(p) + 2
        BY <1>1, <3>4, RankIs
      <4>2. QED
        BY <2>1, <3>3, <4>1
    <3>5. CASE /\ pc[u] \in Repairing /\ grip[u] = "none" /\ ~AsksSlot(u)
               /\ Asks(u) \in ActiveIn(page)
               /\ page[Asks(u)].level = page[p].level
               /\ page[Asks(u)].low = page[p].high
      <4>1. Rank(u) = 3 * Spot(Asks(u)) \/ Rank(u) = 3 * Spot(Asks(u)) + 1
        BY <1>1, <3>5, RankIs DEF Repairing
      <4>2. Spot(p) + 1 <= Spot(Asks(u)) /\ Spot(Asks(u)) \in Nat
        BY <1>1, <1>2, <2>1, <3>5, SpotRight
      <4>3. QED
        BY <2>1, <3>3, <4>1, <4>2
    <3>6. QED
      BY <3>1, <3>4, <3>5
  <2>5. CASE grip[u] = "root" /\ p = root
    <3>1. Rank(u) = 6 * PosInf + 1
      BY <1>1, <2>5, RankIs
    <3>2. grip[t] = "none"
      BY <1>1, <2>1, <2>5, GripperAsks DEF Gripped
    <3>3. QED
      BY <1>1, <2>1, <2>3, <3>1, <3>2
  <2>6. CASE p = AsksRead(t) /\ p = AsksWrite(u)
    <3>1. Rank(t) = 3 * Spot(p)
      BY <1>1, <2>1, <2>3, <2>6, AsksByLabel
    <3>2. AsksRead(u) = Nil /\ ~AsksSlot(u) /\ pc[u] # "guard" /\ Asks(u) = p
      BY <1>1, <2>1, <2>6, AsksByLabel DEF Asks
    <3>3. Rank(u) = 6 * PosInf + 1 \/ Rank(u) = 3 * Spot(p) + 1
      BY <1>1, <3>2, RankIs
    <3>4. QED
      BY <1>1, <2>1, <3>1, <3>3
  <2>7. QED
    BY <1>4, <2>4, <2>5, <2>6 DEF Meets, HasPage
<1>5. CASE IsBusyWith(t, u)
  <2> DEFINE l == node[t]
  <2>1. UnderGuard(u) /\ KeeperOf(u) = t /\ Nested(u) /\ pc[t] = "guard"
    BY <1>5 DEF WaitInv, IsBusyWith, Busy, UnderGuard
  <2>2. Rank(t) = 3 * Spot(l) + 2 /\ Spot(l) \in Nat /\ Spot(l) < 2 * PosInf
    BY <1>1, <1>2, <2>1, GuardedSpot, RankIs
  <2>3. ~IsBusyWith(u, w)
    <3>1. KeeperOf(KeeperOf(w)) = KeeperOf(w)
      BY <1>1, KeeperAssumption DEF KeeperOf, TreeInv, IndInv, ThreadsTyped, Progress
    <3>2. QED
      BY <2>1, <3>1 DEF IsBusyWith, Nested
  <2>4. CASE AsksSlot(u) \/ grip[u] # "none"
    <3>1. Rank(u) = 6 * PosInf \/ Rank(u) = 6 * PosInf + 1
      BY <1>1, <2>4, RankIs
    <3>2. QED
      BY <1>1, <2>2, <3>1
  <2>5. CASE ~AsksSlot(u) /\ grip[u] = "none"
    <3>1. Asks(u) \in ActiveIn(page)
      BY <2>3, <2>5, WaitsHow
    <3>2. pc[u] # "guard" /\ Spot(l) + 1 <= Spot(Asks(u))
      BY <1>5, <2>5, <3>1, CallAsksBeyond
    <3>3. Rank(u) = 3 * Spot(Asks(u)) \/ Rank(u) = 3 * Spot(Asks(u)) + 1
      BY <1>1, <2>5, <3>2, RankIs
    <3>4. Spot(Asks(u)) \in Nat
      BY <1>2, <3>1
    <3>5. QED
      BY <2>2, <3>2, <3>3, <3>4
  <2>6. QED
    BY <2>4, <2>5
<1>6. QED
  BY <1>3, <1>4, <1>5, WaitsHow

-----------------------------------------------------------------------------
(***************************************************************************)
(* The theorems.                                                           *)
(***************************************************************************)
LEMMA NoCycleOfWaits == WaitInv => NoWaitCycle
<1> SUFFICES ASSUME WaitInv, NEW S \in (SUBSET Thread) \ {{}},
                    \A t \in S : \E u \in S : WaitsFor(t, u)
             PROVE  FALSE
  BY DEF NoWaitCycle
<1> DEFINE R == {Rank(t) : t \in S}
           n == 6 * PosInf + 1
<1>1. n \in Nat
  BY BoundsAssumption DEF PosInf
<1>2. R \subseteq 0..n /\ R # {}
  BY RankBounds
<1> HIDE DEF n
<1>3. PICK r \in R : \A x \in R : r >= x
  BY <1>1, <1>2, GreatestExists
<1>4. PICK t \in S : r = Rank(t)
  OBVIOUS
<1>5. PICK u \in S : WaitsFor(t, u)
  OBVIOUS
<1>6. PICK w \in S : WaitsFor(u, w)
  OBVIOUS
<1>7. Rank(t) < Rank(u)
  BY <1>5, <1>6, RanksRise
<1>8. Rank(t) \in Int /\ Rank(u) \in Int /\ Rank(t) >= Rank(u)
  BY <1>1, <1>2, <1>3, <1>4
<1>9. QED
  BY <1>7, <1>8

\* No set of threads waits for each other for ever, whatever the workload, the
\* number of threads and the nesting of calls under guards: every request that
\* blocks goes from the root slot down or to the right, as node.rs 1344 says, and
\* a call under a guard asks for nothing left of it (map.rs 36-38).
THEOREM NoDeadlock == WaitSpec => []NoWaitCycle
BY WaitInvariance, NoCycleOfWaits, PTL

LEMMA RootWaits == WaitInv => RootWaitsForSoleLeafOnly
<1> SUFFICES ASSUME WaitInv, NEW t \in Thread, NEW u \in Thread,
                    grip[t] # "none", pc[u] = "guard", Blocks(u, t)
             PROVE  Leaves = {node[u]}
  BY DEF RootWaitsForSoleLeafOnly
<1> DEFINE p == node[u]
<1>1. /\ Gripped /\ TreeInv /\ IndInv /\ page \in Pages
      /\ RootSpans(page, root) /\ Levelled(page, root) /\ Parented(page, root)
      /\ ChildrenFit(page)
  BY DEF WaitInv, TreeInv, IndInv, TreeTyped, Pages, WellFormed
<1>2. p \in ActiveIn(page) /\ p \in Page /\ page[p].level = 0 /\ page[p].kind = "leaf"
  BY <1>1, GuardedSpot DEF ActiveIn, IndInv, GuardHasRecord
<1>3. HasPage(u, AsksWrite(t)) /\ AsksWrite(t) # Nil
  BY <1>1, AsksByLabel DEF Blocks
<1>4. latch[u].page = p
  <2>1. \E m : latch[u] = [page |-> p, mode |-> m]
    BY <1>1 DEF IndInv, LatchDiscipline, GuardLatched
  <2>2. QED
    BY <2>1
<1>5. AsksWrite(t) = p
  <2>1. grip[u] = "none"
    BY <1>1 DEF Gripped, AtRootSection
  <2>2. QED
    BY <1>3, <1>4, <2>1 DEF HasPage
<1>6. Leaves \subseteq ActiveIn(page) /\ \A x \in Leaves : page[x].level = 0
  BY <1>1 DEF Leaves, ActiveIn, Active, Levelled
<1>7. \A x \in ActiveIn(page) : page[x].level \in Nat
  BY <1>1, Numbers DEF ActiveIn
<1>8. p \in Leaves
  BY <1>2 DEF Leaves
<1> HIDE DEF p
<1>9. CASE grip[t] = "slot"
  <2>1. p = root
    BY <1>1, <1>5, <1>9, AsksByLabel
  <2>2. ASSUME NEW x \in Leaves PROVE x = p
    BY <1>1, <1>2, <1>6, <1>7, <2>1 DEF Levelled
  <2>3. QED
    BY <1>8, <2>2 DEF p
<1>10. CASE grip[t] = "root"
  <2>1. /\ page[root].kind = "internal" /\ Separators(page[root]) = {}
        /\ p = page[root].kids[NegInf]
    BY <1>1, <1>3, <1>5, <1>10, AsksByLabel DEF AwaitsChild
  <2>2. p # root /\ page[root].level = 1
    BY <1>1, <1>2, <2>1, OnlyChild
  <2>3. ASSUME NEW x \in Leaves PROVE x = p
    <3>1. x # root
      BY <1>6, <2>2
    <3>2. PICK q \in InternalsIn(page) : \E s \in Slots(page[q]) : page[q].kids[s] = x
      BY <1>1, <1>6, <3>1 DEF Parented
    <3>3. PICK s \in Slots(page[q]) : page[q].kids[s] = x
      BY <3>2
    <3>4. Fits(page, q, s)
      BY <1>1 DEF ChildrenFit
    <3>5. page[q].level = 1
      <4>1. page[x].level = 0 /\ page[x].level + 1 = page[q].level
        BY <1>6, <3>3, <3>4 DEF Fits
      <4>2. QED
        BY <4>1
    <3>6. q = root
      <4>1. q \in ActiveIn(page)
        BY DEF InternalsIn, ActiveIn, Active
      <4>2. QED
        BY <1>1, <2>2, <3>5, <4>1 DEF Levelled
    <3>7. s = NegInf
      BY <2>1, <3>6 DEF Slots
    <3>8. QED
      BY <2>1, <3>3, <3>6, <3>7
  <2>4. QED
    BY <1>8, <2>3 DEF p
<1>11. QED
  BY <1>1, <1>9, <1>10 DEF Gripped

\* A guard holds up the root slot, and with it every later call, only when its
\* leaf is the only one (map.rs 653-655).
THEOREM GuardsConvoyNobody == WaitSpec => []RootWaitsForSoleLeafOnly
BY WaitInvariance, RootWaits, PTL
=============================================================================
