---------------------------- MODULE BLinkValidate ----------------------------
(***************************************************************************)
(* Tree::validate, the check that the tests of src/src/node.rs,            *)
(* src/src/map.rs and src/src/set.rs run after their writers have joined.  *)
(* Here it is itself checked: the tree is damaged in one place, and        *)
(* validate must accept exactly the trees that BLinkSafety calls well      *)
(* formed.                                                                 *)
(***************************************************************************)
EXTENDS BLinkPanic

CONSTANT Damaging  \* the scenes in which the tree is damaged

ASSUME DamagingAssumption == Damaging \subseteq Scene \ Panicking

VARIABLE damaged  \* the tree has been damaged and nothing runs any more

-----------------------------------------------------------------------------
(***************************************************************************)
(* Tree::height and validate_node.                                         *)
(***************************************************************************)
\* The leftmost page of each level, counted from the root; Nil below the leaves.
LevelStart ==
  LET start[i \in 0..MaxPages] ==
        IF i = 0 THEN root
        ELSE IF start[i - 1] = Nil \/ page[start[i - 1]].kind # "internal" THEN Nil
        ELSE page[start[i - 1]].kids[NegInf]
  IN  start

Height == Cardinality({i \in 0..MaxPages : LevelStart[i] # Nil})

WithinFences(pg, k) == pg.low <= k /\ k < pg.high

\* Mutant: separators are not compared with their page's fences, and neither
\* are the children's fences with the separators.
PageValidLoosely(p, asRoot) ==
  LET pg == page[p]
  IN  /\ Occupancy(pg) <= N
      /\ pg.isRoot = asRoot
      /\ ~asRoot => Occupancy(pg) >= Minimum(pg)
      /\ Active(pg)
      /\ \A k \in Records(pg) : WithinFences(pg, k)
      /\ pg.kind = "internal" => \A s \in Slots(pg) : pg.kids[s] # Nil

\* The checks of one page and of what it says about its children.
PageValid(p, asRoot) ==
  LET pg == page[p]
  IN  /\ Occupancy(pg) <= N
      /\ pg.isRoot = asRoot
      /\ ~asRoot => Occupancy(pg) >= Minimum(pg)
      /\ Active(pg)
      /\ \A k \in Contents(pg) : WithinFences(pg, k)
      /\ pg.kind = "internal" =>
           /\ asRoot => Separators(pg) # {}
           /\ \A s \in Slots(pg) :
                LET next_s == NextSlot(pg, s)
                IN  /\ pg.kids[s] # Nil
                    /\ page[pg.kids[s]].low = IF s = NegInf THEN pg.low ELSE s
                    /\ page[pg.kids[s]].high = IF next_s = PosInf THEN pg.high
                                                                  ELSE next_s

\* validate_node from p, d levels above the leaves: the page and all below it.
\* Leaves share one depth when the page at distance d is a leaf on every path.
ValidBelow ==
  LET valid[d \in 0..MaxPages, p \in Page] ==
        /\ PageValid(p, d = Height - 1)
        /\ (page[p].kind = "leaf") = (d = 0)
        /\ d > 0 => \A s \in Slots(page[p]) : valid[d - 1, page[p].kids[s]]
  IN  valid

\* The records met on every path down from p.
CountBelow ==
  LET count[d \in 0..MaxPages, p \in Page] ==
        IF d = 0 THEN Cardinality(Records(page[p]))
        ELSE MapThenSumSet(LAMBDA s : count[d - 1, page[p].kids[s]], Slots(page[p]))
  IN  count

-----------------------------------------------------------------------------
(***************************************************************************)
(* validate_sibling_levels.                                                *)
(***************************************************************************)
TraversalLimit == len + Height + 2

\* The page i steps to the right of p, Nil beyond the end.
Chain(p) ==
  LET at[i \in 0..TraversalLimit] ==
        IF i = 0 THEN p
        ELSE IF at[i - 1] = Nil THEN Nil ELSE page[at[i - 1]].right
  IN  at

Linked(left, right) == /\ page[left].high = page[right].low
                       /\ page[right].prev = left
                       /\ Upgrades(page[right].prev)

ChainValid(p) ==
  LET at == Chain(p)
  IN  /\ at[TraversalLimit] = Nil
      /\ page[p].low = NegInf /\ page[p].prev = Nil
      /\ \A i \in 0..TraversalLimit - 1 : at[i] # Nil =>
           /\ page[at[i]].kind # "redirect"
           /\ IF at[i + 1] = Nil THEN page[at[i]].high = PosInf
                                 ELSE Linked(at[i], at[i + 1])

RootValid == /\ page[root].low = NegInf /\ page[root].high = PosInf
             /\ page[root].prev = Nil   /\ page[root].right = Nil
             /\ page[root].isRoot
             /\ Active(page[root])

Validates == /\ RootValid
             /\ ValidBelow[Height - 1, root]
             /\ CountBelow[Height - 1, root] = len
             /\ \A i \in 0..Height - 1 : ChainValid(LevelStart[i])

-----------------------------------------------------------------------------
(***************************************************************************)
(* Damage: one field of one page of the tree, the root slot or the counter.*)
(***************************************************************************)
InTree == ActivePages \cap Reachable

Allocated == {p \in Page : page[p].kind # "free"}

DamagePage(p) ==
  \/ \E x \in Slot : page' = [page EXCEPT ![p].low = x]
  \/ \E x \in Key \cup {PosInf} : page' = [page EXCEPT ![p].high = x]
  \/ \E q \in Allocated \cup {Nil} : page' = [page EXCEPT ![p].prev = q]
  \/ \E q \in Allocated \cup {Nil} : page' = [page EXCEPT ![p].right = q]
  \/ page' = [page EXCEPT ![p].isRoot = ~@]
  \/ /\ page[p].kind = "leaf"
     /\ \E k \in Key, v \in Val \cup {NoVal} :
          page' = [page EXCEPT ![p].recs[k] = v]
  \/ /\ page[p].kind = "internal"
     /\ \E s \in Slots(page[p]), q \in Allocated :
          page' = [page EXCEPT ![p].kids[s] = q]
  \/ /\ page[p].kind = "internal"
     /\ \E s \in Separators(page[p]) : page' = [page EXCEPT ![p].kids[s] = Nil]

Damage ==
  /\ AtRest /\ ~damaged /\ Filled /\ filled.scene \in Damaging
  /\ \/ \E p \in InTree : DamagePage(p) /\ UNCHANGED <<root, len>>
     \/ root' \in Allocated /\ UNCHANGED <<page, len>>
     \/ len' \in {len - 1, len + 1} \cap Nat /\ UNCHANGED <<page, root>>
  /\ damaged' = TRUE
  /\ UNCHANGED threads

DamageInit == Init /\ damaged = FALSE

DamageNext == \/ ~damaged /\ PanicNext /\ UNCHANGED damaged
              \/ Damage
              \/ damaged /\ UNCHANGED <<vars, damaged>>

DamageSpec == DamageInit /\ [][DamageNext]_<<vars, damaged>>

-----------------------------------------------------------------------------
WellFormed == /\ TreeShape
              /\ OccupancyWithinBounds
              /\ SiblingChainsAtRest
              /\ PredecessorKept
              /\ CounterTracksRecords

\* The test suites' oracle is exact: validate accepts every tree that calls,
\* abandoned ones too, leave well formed, and no tree with a wrong fence, link,
\* child, mark, record or count (node.rs 1112-1146 and 1440-1650).
OracleExact == AtRest => (Validates <=> WellFormed)

\* What every structural test of src/src/node.rs and src/src/map.rs asserts: the
\* tree is valid whenever no call runs (node.rs 1691-1739, map.rs 217).
ValidAtRest == AtRest /\ ~damaged /\ filled.scene \notin Panicking => Validates

\* Every record in the tree is found from the root, also the records on a page
\* whose parent was never told of it ("a stale route is correct even before the
\* parent receives the separator", node.rs 261-262).
SearchFindsRecords ==
  ~damaged => \A p \in Leaves : \A k \in Records(page[p]) : SearchEnd(k) = p
==============================================================================
