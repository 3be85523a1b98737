----------------------------- MODULE BLinkSafety -----------------------------
(***************************************************************************)
(* What must be true of the concurrent tree.  The structural invariants    *)
(* are those that Tree::validate checks at rest, restated so that they     *)
(* hold between any two critical sections of any interleaving; the others  *)
(* are promises of src/src/map.rs and src/src/handle.rs.                   *)
(***************************************************************************)
EXTENDS BLinkTree

ActivePages == {p \in Page : Active(page[p])}
Leaves      == {p \in Page : page[p].kind = "leaf"}
Internals   == {p \in Page : page[p].kind = "internal"}

Slots(pg) == {NegInf} \cup Separators(pg)

-----------------------------------------------------------------------------
(***************************************************************************)
(* Tree shape.                                                             *)
(***************************************************************************)
\* The published root is active, marked, covers every key and has no peer, and
\* no other page carries the mark (validate, node.rs 1119-1131).
RootCoversAllKeys ==
  /\ Active(page[root])
  /\ \A p \in Page : page[p].isRoot <=> p = root
  /\ page[root].low = NegInf /\ page[root].high = PosInf
  /\ page[root].prev = Nil   /\ page[root].right = Nil

\* What a parent says of the child in slot s is what the child's fences say.
ChildMatches(p, s) ==
  LET parent == page[p]
      next_s == NextSlot(parent, s)
      c      == parent.kids[s]
  IN  /\ c # Nil
      /\ Active(page[c])
      /\ page[c].level = parent.level - 1
      /\ page[c].low  = IF s = NegInf THEN parent.low ELSE s
      /\ page[c].high = IF next_s = PosInf THEN parent.high ELSE next_s

\* Parents never reach a retired page, children cover their parent's range
\* without gap or overlap, and all leaves are equally deep.
ChildrenMatchParents ==
  \A p \in Internals :
    /\ page[p].level > 0
    /\ \A s \in Slots(page[p]) : ChildMatches(p, s)

\* Every active page but the root is the child in exactly one slot.
OneParentEach ==
  LET edges == UNION {{<<p, s>> : s \in Slots(page[p])} : p \in Internals}
  IN  /\ {page[e[1]].kids[e[2]] : e \in edges} = ActivePages \ {root}
      /\ Cardinality(edges) = Cardinality(ActivePages) - 1

ContentsWithinFences ==
  \A p \in ActivePages : \A k \in Contents(page[p]) :
    page[p].low <= k /\ k < page[p].high

\* The tree is a well-formed b-link tree whenever no critical section is open,
\* not only after writers join: whatever interleaving of splits, borrows,
\* merges, root growth and collapse led there.
TreeShape == /\ RootCoversAllKeys
             /\ ChildrenMatchParents
             /\ OneParentEach
             /\ ContentsWithinFences

\* The preemptive repairs keep every active page but the root at or above its
\* minimum and every page within capacity, although a pass releases the parent
\* before it changes the child (insert_attempt, remove_attempt).
OccupancyWithinBounds ==
  \A p \in ActivePages :
    /\ Occupancy(page[p]) <= N
    /\ p # root => Occupancy(page[p]) >= Minimum(page[p])

-----------------------------------------------------------------------------
(***************************************************************************)
(* Links.                                                                  *)
(***************************************************************************)
\* Where the chain of redirects from p ends.
Resolve(p) ==
  LET f[i \in 0..MaxPages] ==
        IF i = 0 THEN p
        ELSE LET q == f[i - 1]
             IN  IF q # Nil /\ page[q].kind = "redirect" THEN page[q].target
                 ELSE q
  IN  f[MaxPages]

\* A page with a finite high fence has a right link that leads, through pages
\* merged away since, to the page that begins at that fence: the `expect` in
\* Node::route never fires and a search that moves right loses no key, even
\* between a merge or a split and the link repair that follows it.
RightLinkFindsNeighbour ==
  \A p \in ActivePages :
    page[p].high # PosInf =>
      /\ page[p].right # Nil
      /\ LET q == Resolve(page[p].right)
         IN  /\ q \in ActivePages
             /\ page[q].level = page[p].level
             /\ page[q].low = page[p].high

\* A handle cloned at any earlier time still leads somewhere: every retired
\* page forwards to an active one (NodeKind::Redirect, node.rs 47-52).
RedirectsEnd ==
  \A p \in Page : page[p].kind = "redirect" => Resolve(p) \in ActivePages

\* The pages from which strong references lead back to themselves or into such
\* a cycle.
Cyclic ==
  LET rest[i \in 0..MaxPages] ==
        IF i = 0 THEN Page
        ELSE LET left == rest[i - 1]
             IN  {p \in left : PointsTo(p) \cap left # {}}
  IN  rest[MaxPages]

\* "Using Weak prevents sibling-link cycles": children, right links and the
\* targets of retired pages never close a cycle, so every page is freed once
\* nothing leads to it (NodeWeak, node.rs 84-85).
NoStrongCycle == Cyclic = {}

AtRest == \A t \in Thread : Idle(t)

\* Whenever no operation runs each level is a chain of active pages without a
\* retired one, whose back links, where they exist, are right; and an internal
\* root has a separator (validate_sibling_levels, node.rs 1542-1633;
\* validate_node, node.rs 1492-1494).
SiblingChainsAtRest ==
  AtRest =>
    /\ page[root].kind = "internal" => Separators(page[root]) # {}
    /\ \A p \in ActivePages :
         /\ page[p].right = Nil <=> page[p].high = PosInf
         /\ page[p].right # Nil => page[p].right \in ActivePages
         /\ page[p].low = NegInf => page[p].prev = Nil
         /\ page[p].prev # Nil  => /\ page[p].prev \in Reachable
                                   /\ page[page[p].prev].right = p

\* "Parent pointers and the sibling chain are repaired before a mutation
\* returns" (NodeKind::Redirect, node.rs 49-50), and validate_sibling_levels
\* rejects a page that "lost its predecessor" (node.rs 1590-1594): at rest every
\* page but the leftmost one of its level has a back link.
PredecessorKept ==
  AtRest => \A p \in ActivePages : page[p].low # NegInf => page[p].prev # Nil

-----------------------------------------------------------------------------
(***************************************************************************)
(* The record counter.                                                     *)
(***************************************************************************)
Stored == {k \in Key : \E p \in Leaves : page[p].recs[k] # NoVal}

Counting(op) == {t \in Thread : pc[t] \in {"count", "count_slow"} /\ call[t].op = op}

\* len is exact up to the updates still pending under their leaf latches
\* (Tree::len, node.rs 125; try_insert_without_split, node.rs 633-635).
CounterTracksRecords ==
  len = Cardinality(Stored) - Cardinality(Counting("insert"))
                            + Cardinality(Counting("remove"))

\* The AtomicUsize never wraps below zero (decrement_len, node.rs 1083-1086).
LenNeverUnderflows == len >= 0

-----------------------------------------------------------------------------
(***************************************************************************)
(* Guards.                                                                 *)
(***************************************************************************)
\* While a user holds an EntryRef or EntryMut nothing about the page behind it
\* changes: no other thread's insert, split, borrow, merge or link repair
\* reaches a latched page (handle.rs: a guard keeps its leaf latched).
GuardPinsPage ==
  [][\A t \in Thread :
       pc[t] = "guard" /\ pc'[t] = "guard" => page'[node[t]] = page[node[t]]]_vars

\* A guard is a latch on the leaf it stands on: shared for an EntryRef,
\* exclusive for an EntryMut.
GuardLatched ==
  \A t \in Thread : pc[t] = "guard" =>
    /\ node[t] \in Page
    /\ latch[t] = [page |-> node[t],
                   mode |-> IF call[t].op = "get" THEN "read" ELSE "write"]

\* A link repair that waits for the page to its right has its own page latched.
RepairLatched ==
  \A t \in Thread :
    pc[t] \in {"fix_succ", "peek", "join_retired", "join_survivor", "join_peeked"}
      => latch[t] = [page |-> fix[t].cursor, mode |-> "write"]

\* A page latched by two threads is latched shared by both.
LatchesExclusive ==
  \A t, u \in Thread :
    t # u /\ latch[t].page = latch[u].page /\ latch[t].page # Nil =>
      latch[t].mode = "read" /\ latch[u].mode = "read"

\* The latch protocol every other promise rests on.
LatchDiscipline == GuardLatched /\ RepairLatched /\ LatchesExclusive

\* A guard is on an active leaf that still owns its key and holds the record.
GuardHasRecord ==
  \A t \in Thread : pc[t] = "guard" =>
    /\ page[node[t]].kind = "leaf"
    /\ Route(page[node[t]], call[t].key) = "here"
    /\ page[node[t]].recs[call[t].key] # NoVal

-----------------------------------------------------------------------------
(***************************************************************************)
(* Linearizability: the tree implements OrderedMap.  A lookup takes effect *)
(* when its read latch is granted, an update through EntryMut when the     *)
(* guard is dropped, an insert or a remove when the record changes.        *)
(***************************************************************************)
MapValue(k) == LET holders == {p \in Leaves : page[p].recs[k] # NoVal}
               IN  IF holders = {} THEN NoVal
                   ELSE page[CHOOSE p \in holders : TRUE].recs[k]

TookEffect(t) == \/ pc[t] \in {"count", "count_slow", "shrink_end", "done"}
                 \/ pc[t] = "guard" /\ call[t].op = "get"

Map == INSTANCE OrderedMap WITH
         map    <- [k \in Key |-> MapValue(k)],
         status <- [t \in Thread |-> IF Idle(t) THEN "idle"
                                     ELSE IF TookEffect(t) THEN "done"
                                     ELSE "invoked"]

\* Every operation takes effect on the whole map at one instant between its
\* call and its return and returns what the map held then (map.rs: "reads and
\* writes are linearizable").
LinearizableMap == Map!Spec
==============================================================================
