----------------------------- MODULE SetCompare -----------------------------
(***************************************************************************)
(* The operations of src/src/set.rs that span two sets: is_disjoint,       *)
(* is_subset, is_superset and ==, next to insert and remove.  A comparison *)
(* reads the two record counters, walks one set item by item and, while    *)
(* the item's guard keeps a leaf of that set read-latched, looks the item  *)
(* up in the other set.                                                    *)
(*                                                                         *)
(* Data abstraction.  A set is its leaves: which leaf owns each value, and *)
(* which values have a record.  Inserts and removes split, merge and       *)
(* refill leaves, so the borders move under a walk.  The pages above the   *)
(* leaves and the chains of links and redirects are BLinkTree's: here the  *)
(* owner of a value is found at once, a reference to a leaf leads at once  *)
(* to the leaf that took its range over, a leaf without neighbours counts  *)
(* as the root, and any two neighbours may have the same parent.           *)
(***************************************************************************)
EXTENDS Integers, FiniteSets, FiniteSetsExt, Sequences

CONSTANTS
  Set,       \* the sets
  MaxValue,  \* values are 1..MaxValue
  N,         \* records a leaf can hold
  MaxLeaf,   \* bound: leaves a set ever has; none is used twice
  Thread,    \* the threads that share the sets
  Scene,     \* the workloads, of which a behaviour follows one
  Initial,   \* per scene: what each set holds at first
  Borders,   \* per scene and set: the leaf that owns each value at first
  Script     \* per scene and thread: a sequence of sets of calls to choose from

Value      == 1..MaxValue
Leaf       == 1..MaxLeaf
Comparison == {"is_disjoint", "is_subset", "eq"}

\* is_superset(self, other) is is_subset(other, self).
Call == [op : Comparison \cup {"insert", "remove"},
         self : Set, other : Set, val : Value]

\* A leaf owns an unbroken range of values.
Unbroken(owner) ==
  \A u, v, w \in Value : u < v /\ v < w /\ owner[u] = owner[w] => owner[v] = owner[u]

\* Leaves hold at most N records, and at least N \div 2 beside others.
Settled(owner, values) ==
  \A l \in Leaf :
    LET fill == Cardinality({v \in values : owner[v] = l})
    IN  /\ fill <= N
        /\ (\E v \in Value : owner[v] = l) /\ (\E v \in Value : owner[v] # l)
             => fill >= N \div 2

ASSUME SetAssumption ==
  /\ IsFiniteSet(Set) /\ Set # {} /\ "none" \notin Set
  /\ MaxValue \in Nat \ {0} /\ MaxLeaf \in Nat \ {0}
  /\ N \in Nat /\ N >= 3
  /\ Initial \in [Scene -> [Set -> SUBSET Value]]
  /\ Borders \in [Scene -> [Set -> [Value -> Leaf]]]
  /\ \A c \in Scene, s \in Set : /\ Unbroken(Borders[c][s])
                              /\ Settled(Borders[c][s], Initial[c][s])
  /\ Script \in [Scene -> [Thread -> Seq(SUBSET Call)]]

VARIABLES
  elems,   \* per set: its values
  len,     \* per set: its record counter
  home,    \* per set: the leaf that owns each value
  leads,   \* per set: the leaf a reference to a leaf leads to
  slipped, \* per thread: the values borrowed over the gap its walk stood in
  pc,      \* per thread: what it does next
  call,    \* per thread: the operation in progress
  size,    \* per thread: self.len() as it was read
  over,    \* per thread: the set a comparison walks
  item,    \* per thread: the last value the walk yielded, 0 before the first
  leaf,    \* per thread: the leaf it holds a reference to
  latch,   \* per thread: the leaf latch held between two steps
  answer,  \* per thread: the value returned
  scene,   \* the scene of this behaviour
  made,    \* per thread: how many calls have been started
  hist     \* per thread: what was true of the two sets since the call began

shape   == <<home, leads, slipped>>
sets    == <<elems, len, shape>>
request == <<call, scene, made>>
cursor  == <<size, over, item, leaf>>
threads == <<pc, request, cursor, latch, answer>>
vars    == <<sets, threads, hist>>

NoLatch == [set |-> "none", leaf |-> 0, mode |-> "none"]

HistRec == [common  : SUBSET Value,   \* in both sets all the time
            lacking : SUBSET Value,   \* in self and not in other all the time
            met     : BOOLEAN,        \* the sets shared a value at some instant
            gap     : BOOLEAN]        \* self was no subset of other at some instant

Label == {"idle", "eq1", "eq2", "len1", "len2", "seek", "hop", "probe", "write",
          "descend", "repair", "enter", "count", "tally", "shrink", "done"}

TypeOK ==
  /\ elems   \in [Set -> SUBSET Value]
  /\ len     \in [Set -> Int]
  /\ home    \in [Set -> [Value -> Leaf]]
  /\ leads   \in [Set -> [Leaf -> Leaf]]
  /\ slipped \in [Thread -> SUBSET Value]
  /\ pc      \in [Thread -> Label]
  /\ call    \in [Thread -> Call]
  /\ size    \in [Thread -> Int]
  /\ over    \in [Thread -> Set]
  /\ item    \in [Thread -> 0..MaxValue]
  /\ leaf    \in [Thread -> Leaf]
  /\ latch   \in [Thread -> {NoLatch} \cup
                            [set : Set, leaf : Leaf, mode : {"read", "write"}]]
  /\ answer  \in [Thread -> BOOLEAN]
  /\ scene   \in Scene
  /\ made    \in [Thread -> Nat]
  /\ hist    \in [Thread -> HistRec]

Snapshot(s, o, e) ==
  [common |-> e[s] \cap e[o], lacking |-> e[s] \ e[o],
   met |-> e[s] \cap e[o] # {}, gap |-> ~(e[s] \subseteq e[o])]

Init ==
  /\ scene   \in Scene
  /\ elems   = Initial[scene]
  /\ len     = [s \in Set |-> Cardinality(elems[s])]
  /\ home    = Borders[scene]
  /\ leads   = [s \in Set |-> [l \in Leaf |-> l]]
  /\ slipped = [t \in Thread |-> {}]
  /\ pc      = [t \in Thread |-> "idle"]
  /\ call    \in [Thread -> {CHOOSE c \in Call : TRUE}]
  /\ size    = [t \in Thread |-> 0]
  /\ over    = [t \in Thread |-> call[t].self]
  /\ item    = [t \in Thread |-> 0]
  /\ leaf    = [t \in Thread |-> 1]
  /\ latch   = [t \in Thread |-> NoLatch]
  /\ answer  = [t \in Thread |-> FALSE]
  /\ made    = [t \in Thread |-> 0]
  /\ hist    = [t \in Thread |-> Snapshot(call[t].self, call[t].other, elems)]

-----------------------------------------------------------------------------
(***************************************************************************)
(* Leaves.                                                                 *)
(***************************************************************************)
Owns(s, l, v) == home[s][v] = l

Records(s, l) == {v \in elems[s] : Owns(s, l, v)}

Fill(s, l) == Cardinality(Records(s, l))

\* x is the left neighbour of y.
Adjacent(s, x, y) ==
  /\ x # y
  /\ \E v \in Value : v + 1 \in Value /\ Owns(s, x, v) /\ Owns(s, y, v + 1)

Beside(s, x, y) == Adjacent(s, x, y) \/ Adjacent(s, y, x)

Sole(s, l) == \A v \in Value : Owns(s, l, v)

\* A leaf no split has made yet.
Unused(s, l) == leads[s][l] = l /\ \A v \in Value : ~Owns(s, l, v)

-----------------------------------------------------------------------------
GoTo(t, label) == pc' = [pc EXCEPT ![t] = label]

Reply(t, b) == GoTo(t, "done") /\ answer' = [answer EXCEPT ![t] = b]

Hold(t, s, l, mode) ==
  latch' = [latch EXCEPT ![t] = [set |-> s, leaf |-> l, mode |-> mode]]

Release(t) == latch' = [latch EXCEPT ![t] = NoLatch]

Has(u, s, l) == latch[u].set = s /\ latch[u].leaf = l

ReadFree(s, l)  == \A u \in Thread : Has(u, s, l) => latch[u].mode = "read"
WriteFree(s, l) == \A u \in Thread : ~Has(u, s, l)

Self(t)    == call[t].self
Other(t)   == call[t].other
Against(t) == IF over[t] = Self(t) THEN Other(t) ELSE Self(t)

Start(t) ==
  /\ pc[t] = "idle"
  /\ made[t] < Len(Script[scene][t])
  /\ \E c \in Script[scene][t][made[t] + 1] :
       /\ call' = [call EXCEPT ![t] = c]
       /\ GoTo(t, CASE c.op \in {"insert", "remove"} -> "write"
                    [] c.op = "eq" -> "eq1"
                    [] OTHER -> "len1")
       /\ over' = [over EXCEPT ![t] = c.self]
  /\ made' = [made EXCEPT ![t] = @ + 1]
  /\ item' = [item EXCEPT ![t] = 0]
  /\ leaf' = [leaf EXCEPT ![t] = 1]
  /\ slipped' = [slipped EXCEPT ![t] = {}]
  /\ UNCHANGED <<elems, len, home, leads, size, latch, answer, scene>>

Return(t) ==
  /\ pc[t] = "done"
  /\ GoTo(t, "idle")
  /\ UNCHANGED <<sets, request, cursor, latch, answer>>

-----------------------------------------------------------------------------
(***************************************************************************)
(* The counters.  == compares them before is_subset does so again.         *)
(***************************************************************************)
\* std::ptr::eq(self, other).
SameSet(t) ==
  /\ pc[t] \in {"eq1", "len1"}
  /\ Self(t) = Other(t)
  /\ Reply(t, call[t].op = "is_disjoint" => len[Self(t)] = 0)
  /\ UNCHANGED <<sets, request, cursor, latch>>

ReadOwnLen(t) ==
  /\ pc[t] \in {"eq1", "len1"}
  /\ Self(t) # Other(t)
  /\ size' = [size EXCEPT ![t] = len[Self(t)]]
  /\ GoTo(t, IF pc[t] = "eq1" THEN "eq2" ELSE "len2")
  /\ UNCHANGED <<sets, request, over, item, leaf, latch, answer>>

EqLens(t) ==
  /\ pc[t] = "eq2"
  /\ IF size[t] = len[Other(t)]
     THEN GoTo(t, "len1") /\ UNCHANGED answer
     ELSE Reply(t, FALSE)
  /\ UNCHANGED <<sets, request, cursor, latch>>

\* is_disjoint walks the set that looks smaller.
SmallerFirst(t) ==
  /\ pc[t] = "len2"
  /\ call[t].op = "is_disjoint"
  /\ over' = [over EXCEPT ![t] = IF size[t] <= len[Other(t)] THEN Self(t)
                                                             ELSE Other(t)]
  /\ GoTo(t, "seek")
  /\ UNCHANGED <<sets, request, size, item, leaf, latch, answer>>

\* is_subset gives up when the counters say that self is larger.
SubsetLens(t) ==
  /\ pc[t] = "len2"
  /\ call[t].op # "is_disjoint"
  /\ IF size[t] > len[Other(t)]
     THEN Reply(t, FALSE)
     ELSE GoTo(t, "seek") /\ UNCHANGED answer
  /\ UNCHANGED <<sets, request, cursor, latch>>

-----------------------------------------------------------------------------
(***************************************************************************)
(* The walk.  Iter::next seeks the leaf that owns the last item, or the    *)
(* leftmost one at first, and hops right from leaf to leaf while it finds  *)
(* nothing greater: it drops a leaf before it latches the next.            *)
(***************************************************************************)
\* Where the search for the next item begins.
From(t) == IF item[t] = 0 THEN 1 ELSE item[t]

\* The leaf that a seek or a reference to a leaf leads to.
At(t) == IF pc[t] = "seek" THEN home[over[t]][From(t)] ELSE leads[over[t]][leaf[t]]

Ahead(t) == {v \in Records(over[t], At(t)) : v > item[t]}

\* Mutant: the item is copied out of its leaf.
YieldUnlatched(t) ==
  /\ pc[t] \in {"seek", "hop"}
  /\ ReadFree(over[t], At(t))
  /\ Ahead(t) # {}
  /\ item' = [item EXCEPT ![t] = Min(Ahead(t))]
  /\ leaf' = [leaf EXCEPT ![t] = At(t)]
  /\ GoTo(t, "probe")
  /\ UNCHANGED <<sets, request, size, over, latch, answer>>

\* The next item; its guard keeps the leaf latched.
Yield(t) ==
  /\ pc[t] \in {"seek", "hop"}
  /\ ReadFree(over[t], At(t))
  /\ Ahead(t) # {}
  /\ item' = [item EXCEPT ![t] = Min(Ahead(t))]
  /\ leaf' = [leaf EXCEPT ![t] = At(t)]
  /\ Hold(t, over[t], At(t), "read")
  /\ GoTo(t, "probe")
  /\ UNCHANGED <<sets, request, size, over, answer>>

\* Mutant: the walk does not notice the last leaf.
PassRunsOff(t) ==
  /\ pc[t] \in {"seek", "hop"}
  /\ ReadFree(over[t], At(t))
  /\ Ahead(t) = {}
  /\ leaf' = [leaf EXCEPT ![t] = IF \E r \in Leaf : Adjacent(over[t], At(t), r)
                                 THEN CHOOSE r \in Leaf : Adjacent(over[t], At(t), r)
                                 ELSE 0]
  /\ GoTo(t, "hop")
  /\ UNCHANGED <<sets, request, size, over, item, latch, answer>>

\* Nothing more in this leaf: drop it and hop to its right neighbour, or the
\* walk is over.
Pass(t) ==
  /\ pc[t] \in {"seek", "hop"}
  /\ ReadFree(over[t], At(t))
  /\ Ahead(t) = {}
  /\ \/ \E r \in Leaf : /\ Adjacent(over[t], At(t), r)
                        /\ leaf' = [leaf EXCEPT ![t] = r]
                        /\ GoTo(t, "hop")
                        /\ UNCHANGED answer
     \/ /\ \A r \in Leaf : ~Adjacent(over[t], At(t), r)
        /\ Reply(t, TRUE)
        /\ UNCHANGED leaf
  /\ UNCHANGED <<sets, request, size, over, item, latch>>

\* Mutant: the item is dropped after the next one is fetched.
ProbeKeepsItem(t) ==
  /\ pc[t] = "probe"
  /\ ReadFree(Against(t), home[Against(t)][item[t]])
  /\ IF item[t] \in elems[Against(t)] <=> call[t].op = "is_disjoint"
     THEN Reply(t, FALSE) /\ Release(t)
     ELSE GoTo(t, "seek") /\ UNCHANGED <<answer, latch>>
  /\ UNCHANGED <<sets, request, cursor>>

\* contains in the other set, under the item's latch, which then goes.
Probe(t) ==
  /\ pc[t] = "probe"
  /\ ReadFree(Against(t), home[Against(t)][item[t]])
  /\ IF item[t] \in elems[Against(t)] <=> call[t].op = "is_disjoint"
     THEN Reply(t, FALSE)
     ELSE GoTo(t, "seek") /\ UNCHANGED answer
  /\ Release(t)
  /\ UNCHANGED <<sets, request, cursor>>

-----------------------------------------------------------------------------
(***************************************************************************)
(* insert and remove: the value, then the counter, under the latch of the  *)
(* leaf that owns the value; first a pass that splits a full leaf or       *)
(* refills a minimal one where that is needed.                             *)
(***************************************************************************)
Inserts(t) == call[t].op = "insert"

Target(t) == home[Self(t)][call[t].val]

\* A value that is there already, or not there to remove.
Pointless(t) == Inserts(t) <=> call[t].val \in elems[Self(t)]

\* The leaf can take a value, or lose one and stay at its minimum.
Room(t) ==
  IF Inserts(t) THEN Fill(Self(t), Target(t)) # N
  ELSE Fill(Self(t), Target(t)) > N \div 2 \/ Sole(Self(t), Target(t))

Update(t, label) ==
  /\ elems' = [elems EXCEPT ![Self(t)] = IF Inserts(t) THEN @ \cup {call[t].val}
                                                     ELSE @ \ {call[t].val}]
  /\ Hold(t, Self(t), Target(t), "write")
  /\ GoTo(t, label)

\* try_insert_without_split and try_remove_without_rebalance.
Write(t) ==
  /\ pc[t] = "write"
  /\ WriteFree(Self(t), Target(t))
  /\ \/ Pointless(t) /\ Reply(t, FALSE) /\ UNCHANGED <<elems, latch>>
     \/ ~Pointless(t) /\ Room(t) /\ Update(t, "count") /\ UNCHANGED answer
     \/ ~Pointless(t) /\ ~Room(t) /\ GoTo(t, "descend")
        /\ UNCHANGED <<elems, latch, answer>>
  /\ UNCHANGED <<len, shape, request, cursor>>

\* The pass below the parent finds room: the parent goes before the leaf is
\* latched again.  A remove latches a neighbour, too.
Descend(t) ==
  /\ pc[t] = "descend"
  /\ WriteFree(Self(t), Target(t))
  /\ Room(t)
  /\ ~Inserts(t) /\ ~Sole(Self(t), Target(t)) =>
       \E x \in Leaf : /\ Beside(Self(t), x, Target(t))
                     /\ WriteFree(Self(t), x)
  /\ GoTo(t, "enter")
  /\ UNCHANGED <<sets, request, cursor, latch, answer>>

\* Mutant: the old page keeps the upper records.
SplitSwapped(t) ==
  LET s == Self(t)
      x == Target(t)
  IN  /\ pc[t] = "descend" /\ Inserts(t) /\ ~Room(t)
      /\ WriteFree(s, x)
      /\ \E r \in Leaf, k \in Records(s, x) :
           /\ Unused(s, r)
           /\ Cardinality({v \in Records(s, x) : v < k}) = N \div 2
           /\ home' = [home EXCEPT ![s] =
                [v \in Value |-> IF Owns(s, x, v) /\ v < k THEN r ELSE home[s][v]]]
           /\ leaf' = [leaf EXCEPT ![t] = r]
      /\ GoTo(t, IF Sole(s, x) THEN "descend"
                 ELSE IF \E y \in Leaf : Adjacent(s, x, y) THEN "repair" ELSE "enter")
      /\ UNCHANGED <<elems, len, leads, slipped, request, size, over, item, latch, answer>>

\* A full leaf keeps its lower N \div 2 records; the root is split before the
\* pass begins.
Split(t) ==
  LET s == Self(t)
      x == Target(t)
  IN  /\ pc[t] = "descend" /\ Inserts(t) /\ ~Room(t)
      /\ WriteFree(s, x)
      /\ \E r \in Leaf, k \in Records(s, x) :
           /\ Unused(s, r)
           /\ Cardinality({v \in Records(s, x) : v < k}) = N \div 2
           /\ home' = [home EXCEPT ![s] =
                [v \in Value |-> IF Owns(s, x, v) /\ v >= k THEN r ELSE home[s][v]]]
           /\ leaf' = [leaf EXCEPT ![t] = r]
      /\ GoTo(t, IF Sole(s, x) THEN "descend"
                 ELSE IF \E y \in Leaf : Adjacent(s, x, y) THEN "repair" ELSE "enter")
      /\ UNCHANGED <<elems, len, leads, slipped, request, size, over, item, latch, answer>>

\* A remove at a minimal leaf has the leaf and a neighbour latched.
Refills(t, x, y) ==
  /\ pc[t] = "descend" /\ ~Inserts(t) /\ ~Room(t)
  /\ Adjacent(Self(t), x, y)
  /\ WriteFree(Self(t), x) /\ WriteFree(Self(t), y)

\* The left leaf lends its last record.
BorrowFromLeft(t) ==
  LET s == Self(t)
      y == Target(t)
  IN  /\ \E x \in Leaf :
           /\ Refills(t, x, y)
           /\ Fill(s, x) > N \div 2
           /\ \E k \in Records(s, x) :
                /\ \A v \in Records(s, x) : v <= k
                /\ home' = [home EXCEPT ![s] =
                     [v \in Value |-> IF Owns(s, x, v) /\ v >= k THEN y ELSE home[s][v]]]
      /\ GoTo(t, "enter")
      /\ UNCHANGED <<elems, len, leads, slipped, request, cursor, latch, answer>>

\* The right leaf lends its first record k and starts at the next one, k2.  The
\* record passes a walk that left x and has not latched y yet.
BorrowFromRight(t) ==
  LET s == Self(t)
      x == Target(t)
  IN  /\ \E y \in Leaf :
           /\ Refills(t, x, y)
           /\ Fill(s, y) > N \div 2
           /\ \E k, k2 \in Records(s, y) :
                /\ k < k2 /\ \A v \in Records(s, y) : v = k \/ v >= k2
                /\ home' = [home EXCEPT ![s] =
                     [v \in Value |-> IF Owns(s, y, v) /\ v < k2 THEN x ELSE home[s][v]]]
                /\ slipped' = [u \in Thread |->
                     IF pc[u] = "hop" /\ over[u] = s /\ leads[s][leaf[u]] = y
                     THEN slipped[u] \cup {k} ELSE slipped[u]]
      /\ GoTo(t, "enter")
      /\ UNCHANGED <<elems, len, leads, request, cursor, latch, answer>>

\* Two minimal leaves: the left one moves into the right one and forwards to
\* it.  The repair starts at the left one's predecessor, or, where that
\* reference is lost, at the survivor.
Merge(t) ==
  LET s == Self(t)
  IN  /\ \E x, y \in Leaf :
           /\ Refills(t, x, y) /\ Target(t) \in {x, y}
           /\ Fill(s, x) <= N \div 2 /\ Fill(s, y) <= N \div 2
           /\ home' = [home EXCEPT ![s] =
                [v \in Value |-> IF Owns(s, x, v) THEN y ELSE home[s][v]]]
           /\ leads' = [leads EXCEPT ![s] =
                [l \in Leaf |-> IF leads[s][l] = x THEN y ELSE leads[s][l]]]
           /\ \E p \in Leaf : /\ p = y \/ Adjacent(s, p, x)
                              /\ leaf' = [leaf EXCEPT ![t] = p]
      /\ GoTo(t, "repair")
      /\ UNCHANGED <<elems, len, slipped, request, size, over, item, latch, answer>>

\* The repairs after a split or a merge walk right over leaves, two latches at a
\* time at most; what they do to the links is BLinkTree's.
Repair(t) ==
  /\ pc[t] = "repair"
  /\ WriteFree(over[t], At(t))
  /\ \/ GoTo(t, "enter") /\ Release(t) /\ UNCHANGED leaf
     \/ \E r \in Leaf : /\ Adjacent(over[t], At(t), r)
                       /\ leaf' = [leaf EXCEPT ![t] = r]
                       /\ (Hold(t, over[t], At(t), "write") \/ Release(t))
                       /\ UNCHANGED pc
  /\ UNCHANGED <<sets, request, size, over, item, answer>>

\* The pass reaches the leaf, which others may have filled or drained since.
Enter(t) ==
  /\ pc[t] = "enter"
  /\ WriteFree(Self(t), Target(t))
  /\ \/ ~Room(t) /\ GoTo(t, "descend") /\ UNCHANGED <<elems, latch, answer>>
     \/ /\ Room(t) /\ Pointless(t)
        /\ GoTo(t, IF Inserts(t) THEN "done" ELSE "shrink")
        /\ answer' = [answer EXCEPT ![t] = FALSE]
        /\ UNCHANGED <<elems, latch>>
     \/ /\ Room(t) /\ ~Pointless(t)
        /\ Update(t, IF Inserts(t) THEN "count" ELSE "tally")
        /\ UNCHANGED answer
  /\ UNCHANGED <<len, shape, request, cursor>>

Count(t) ==
  /\ pc[t] \in {"count", "tally"}
  /\ len' = [len EXCEPT ![Self(t)] = IF Inserts(t) THEN @ + 1 ELSE @ - 1]
  /\ Release(t)
  /\ GoTo(t, IF pc[t] = "tally" THEN "shrink" ELSE "done")
  /\ answer' = [answer EXCEPT ![t] = TRUE]
  /\ UNCHANGED <<elems, shape, request, cursor>>

\* A remove that took the long way ends with shrink_root, which latches the root.
Shrink(t) ==
  /\ pc[t] = "shrink"
  /\ Sole(Self(t), Target(t)) => WriteFree(Self(t), Target(t))
  /\ GoTo(t, "done")
  /\ UNCHANGED <<sets, request, cursor, latch, answer>>

-----------------------------------------------------------------------------
Step(t) == \/ SameSet(t) \/ ReadOwnLen(t) \/ EqLens(t) \/ SmallerFirst(t)
           \/ SubsetLens(t) \/ Yield(t) \/ Pass(t) \/ Probe(t)
           \/ Write(t) \/ Descend(t) \/ Split(t) \/ BorrowFromLeft(t)
           \/ BorrowFromRight(t) \/ Merge(t) \/ Repair(t) \/ Enter(t)
           \/ Count(t) \/ Shrink(t) \/ Return(t)

\* A call in progress remembers what has been true since it began.
Remember ==
  hist' = [t \in Thread |->
    LET now == Snapshot(call'[t].self, call'[t].other, elems')
        old == hist[t]
    IN  IF pc[t] = "idle" THEN now
        ELSE IF pc[t] = "done" THEN old
        ELSE [common  |-> old.common \cap now.common,
              lacking |-> old.lacking \cap now.lacking,
              met     |-> old.met \/ now.met,
              gap     |-> old.gap \/ now.gap]]

Finished == /\ \A t \in Thread : pc[t] = "idle" /\ made[t] = Len(Script[scene][t])
            /\ UNCHANGED vars

Next == \/ (\E t \in Thread : Start(t) \/ Step(t)) /\ Remember
        \/ Finished

Spec == Init /\ [][Next]_vars

-----------------------------------------------------------------------------
Replied(t, ops) == pc[t] = "done" /\ call[t].op \in ops

\* is_disjoint of two sets says no only if they shared a value at some instant
\* of the call, whichever set the racing counters made it walk.  It says yes
\* only if no value was in both all the time, but for a record that a borrow
\* carried past the walk between two leaves (set.rs 131-148, node.rs 548-550).
DisjointAnswersTrue ==
  \A t \in Thread : Replied(t, {"is_disjoint"}) /\ Self(t) # Other(t) =>
    /\ ~answer[t] => hist[t].met
    /\ answer[t] => hist[t].common \subseteq slipped[t]

\* is_subset and == never overlook a value that was in self and not in other
\* all the time, but for such a record; and a walk that says no has met one
\* instant where a value was in self and not in other (set.rs 162-167).
SubsetWalksTrue ==
  \A t \in Thread : Replied(t, {"is_subset", "eq"}) =>
    /\ answer[t] => hist[t].lacking \subseteq slipped[t]
    /\ ~answer[t] /\ item[t] # 0 => hist[t].gap

-----------------------------------------------------------------------------
(***************************************************************************)
(* Who waits for whom: a reader waits for a writer that holds the leaf, or *)
(* that is queued there behind a reader (parking_lot::RwLock).             *)
(***************************************************************************)
\* The latch a thread waits for where it is not free.  The latches of a pass
\* under a parent are tried and never waited for; the root's are.
Wish(t) ==
  CASE pc[t] \in {"seek", "hop"} ->
         [set |-> over[t], leaf |-> At(t), mode |-> "read"]
    [] pc[t] = "probe" ->
         [set |-> Against(t), leaf |-> home[Against(t)][item[t]], mode |-> "read"]
    [] \/ pc[t] \in {"write", "enter"}
       \/ pc[t] \in {"descend", "shrink"} /\ Sole(Self(t), Target(t)) ->
         [set |-> Self(t), leaf |-> Target(t), mode |-> "write"]
    [] pc[t] = "repair" ->
         [set |-> over[t], leaf |-> At(t), mode |-> "write"]
    [] OTHER -> NoLatch

WaitsFor(t, u) ==
  LET w == Wish(t)
  IN  /\ w # NoLatch
      /\ \/ Has(u, w.set, w.leaf) /\ "write" \in {w.mode, latch[u].mode}
         \/ /\ w.mode = "read" /\ Wish(u) = [w EXCEPT !.mode = "write"]
            /\ ~WriteFree(w.set, w.leaf)

\* Comparing sets that other threads change blocks nobody for ever: no set of
\* threads in which each waits for another of the set, or for itself
\* ("Concurrent mutation makes this a weakly consistent traversal", set.rs
\* 129-130 and 152-153).
NoComparisonCycle ==
  LET waits == {p \in Thread \X Thread : WaitsFor(p[1], p[2])}
  IN  \A T \in (SUBSET Thread) \ {{}} : \E t \in T : \A u \in T : <<t, u>> \notin waits

\* Every lookup under an item goes to a set further on in one order of the sets.
OneDirection ==
  \E place \in [Set -> 0..Cardinality(Set)] :
    \A t \in Thread : pc[t] = "probe" => place[over[t]] < place[Against(t)]
=============================================================================
