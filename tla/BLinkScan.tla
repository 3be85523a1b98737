------------------------------ MODULE BLinkScan ------------------------------
(***************************************************************************)
(* Readers that do not know their key: Tree::first_entry, last_entry and   *)
(* entry_at_or_after (src/src/node.rs), and the cursors built on them, Iter*)
(* and Range (src/src/iter.rs).  Scanners are threads that share the tree  *)
(* with BLinkTree's, under the same latches.                               *)
(*                                                                         *)
(* A scanner owns one cursor and calls next until it is exhausted; it drops*)
(* each item before the next call, as a for loop does.  An Iter is a Range *)
(* without bounds: next does the same for both.                            *)
(***************************************************************************)
EXTENDS BLinkTree

CONSTANTS
  Scanner,  \* the threads that scan; the others make BLinkTree's calls
  Queries,  \* the queries a scanner may be created for
  Timely    \* the scenes in which progress is asked for, and fairness assumed

Bound == [kind : {"unbounded", "included", "excluded"}, key : Key]
Query == [op : {"first", "last", "range"}, start : Bound, end : Bound]

\* validate_bounds: any other range panics before there is a cursor.
ValidBounds(q) ==
  q.start.kind # "unbounded" /\ q.end.kind # "unbounded" =>
    \/ q.start.key < q.end.key
    \/ q.start.key = q.end.key /\ "included" \in {q.start.kind, q.end.kind}

ASSUME ScanAssumption ==
  /\ Scanner \subseteq Thread \ {Main}
  /\ \A c \in Scene, s \in Scanner : Script[c][s] = <<>>
  /\ Queries \subseteq {q \in Query : ValidBounds(q)} /\ Queries # {}
  /\ Timely \subseteq Scene
  /\ \A q \in Queries : q.op # "range" =>
       q.start.kind = "unbounded" /\ q.end.kind = "unbounded"

VARIABLES
  query,   \* per scanner: the call or the range it was created for
  last,    \* per scanner: the last key returned, NegInf if none
  steady,  \* history: the keys in the map since the running call began
  maxima   \* history: the greatest key at every instant since it began

cursors  == <<query, last>>
history  == <<steady, maxima>>
scanVars == <<vars, cursors, history>>

\* The scanners' critical sections.  A scanner has "item" while it holds an
\* item, "idle" between two calls and "done" once the cursor is exhausted.
ScanPC == PC \cup {"edge_root", "edge", "edge_leaf", "walk", "item"}

MapKeys == UNION {Records(page[p]) : p \in {x \in Page : page[x].kind = "leaf"}}

\* Types; a cursor has a page to latch next whenever it is inside the tree.
ScanTypeOK ==
  /\ pc     \in [Thread -> ScanPC]
  /\ node   \in [Thread -> Ref]
  /\ \A s \in Scanner :
       node[s] = Nil <=> pc[s] \in {"idle", "root", "edge_root", "done"}
  /\ query  \in [Scanner -> Queries]
  /\ last   \in [Scanner -> Key \cup {NegInf}]
  /\ steady \in [Scanner -> SUBSET Key]
  /\ maxima \in [Scanner -> SUBSET (Key \cup {NegInf})]

ScanInit ==
  /\ Init
  /\ query  \in [Scanner -> Queries]
  /\ last   = [s \in Scanner |-> NegInf]
  /\ steady = [s \in Scanner |-> {}]
  /\ maxima = [s \in Scanner |-> {}]

-----------------------------------------------------------------------------
(***************************************************************************)
(* Bounds.                                                                 *)
(***************************************************************************)
\* inside_end_bound.
InsideEnd(s, k) == LET end == query[s].end
                   IN  \/ end.kind = "unbounded"
                       \/ k < end.key
                       \/ k = end.key /\ end.kind = "included"

InsideStart(s, k) == LET start == query[s].start
                     IN  \/ start.kind = "unbounded"
                         \/ k > start.key
                         \/ k = start.key /\ start.kind = "included"

\* Mutants: every seek excludes its bound; every seek includes it.
AboveExclusive(s, pg) == {k \in Records(pg) : k > call[s].key}
AboveInclusive(s, pg) == {k \in Records(pg) : k >= call[s].key}

\* The records of a leaf that entry_at_or_after may return: only an inclusive
\* start bound is searched for inclusively.
Above(s, pg) ==
  {k \in Records(pg) :
     \/ k > call[s].key
     \/ k = call[s].key /\ last[s] = NegInf /\ query[s].start.kind = "included"}

-----------------------------------------------------------------------------
(***************************************************************************)
(* A call and how it ends.                                                 *)
(***************************************************************************)
\* next, first_key_value, last_key_value.  The first call of next applies the
\* start bound; a later one seeks after the last key returned.
BeginCall(s) ==
  /\ Idle(s)
  /\ Filled
  /\ IF last[s] = NegInf /\ query[s].start.kind = "unbounded"
     THEN GoTo(s, "edge_root") /\ UNCHANGED call
     ELSE LET from == IF last[s] = NegInf THEN query[s].start.key ELSE last[s]
          IN  /\ GoTo(s, "root")
              /\ call' = [call EXCEPT ![s].op = "get", ![s].key = from]
  /\ UNCHANGED <<tree, node, next, fix, latch, result, filled, made, cursors>>

\* Mutant: the latch of the leaf does not stay with the item.
ReturnsUnlatched(s, k) ==
  /\ last' = [last EXCEPT ![s] = k]
  /\ GoTo(s, "item")
  /\ UNCHANGED <<node, latch>>

\* The read latch stays with the item; a key past the end drops it again.
Returns(s, k) ==
  IF InsideEnd(s, k)
  THEN /\ last' = [last EXCEPT ![s] = k]
       /\ GoTo(s, "item")
       /\ Hold(s, node[s], "read")
       /\ UNCHANGED node
  ELSE Retry(s, "done") /\ UNCHANGED <<latch, last>>

\* The item is dropped.  first_key_value and last_key_value return only one.
DropItem(s) ==
  /\ pc[s] = "item"
  /\ Retry(s, IF query[s].op = "range" THEN "idle" ELSE "done")
  /\ Release(s)
  /\ UNCHANGED <<tree, call, next, fix, result, filled, made, cursors>>

-----------------------------------------------------------------------------
(***************************************************************************)
(* leftmost_leaf and rightmost_leaf, then first_entry and last_entry, which*)
(* latch the leaf found a second time.                                     *)
(***************************************************************************)
EdgeRoot(s) ==
  /\ pc[s] = "edge_root"
  /\ GoTo(s, "edge")
  /\ Visit(s, root)
  /\ UNCHANGED <<tree, call, next, fix, latch, result, filled, made, cursors>>

\* Mutant: the last child for every query.
EdgeChildLast(s, pg) == pg.kids[Max({NegInf} \cup Separators(pg))]

\* children[0] or children.last().
EdgeChild(s, pg) ==
  IF query[s].op = "last" THEN pg.kids[Max({NegInf} \cup Separators(pg))]
                          ELSE pg.kids[NegInf]

\* Mutant: the split links that appeared since the root was read are ignored.
EdgeStopsAtLeaf(s, pg) == pg.kind = "leaf"

EdgeStops(s, pg) ==
  pg.kind = "leaf" /\ (query[s].op = "last" => pg.right = Nil)

AtEdge(s, label) == pc[s] = label /\ ReadFree(node[s])

EdgeDown(s) ==
  /\ AtEdge(s, "edge")
  /\ page[node[s]].kind = "internal"
  /\ Visit(s, EdgeChild(s, page[node[s]]))
  /\ UNCHANGED <<tree, pc, call, next, fix, latch, result, filled, made, cursors>>

EdgeOn(s) ==
  /\ AtEdge(s, "edge")
  /\ page[node[s]].kind # "internal" /\ ~EdgeStops(s, page[node[s]])
  /\ Visit(s, Onward(page[node[s]]))
  /\ UNCHANGED <<tree, pc, call, next, fix, latch, result, filled, made, cursors>>

\* The leaf is returned without its latch.
EdgeLeaf(s) ==
  /\ AtEdge(s, "edge")
  /\ EdgeStops(s, page[node[s]])
  /\ GoTo(s, "edge_leaf")
  /\ UNCHANGED <<tree, call, node, next, fix, latch, result, filled, made, cursors>>

\* Only first_entry steps over an empty leaf.
EdgeMoves(s, pg) ==
  \/ pg.kind = "redirect"
  \/ Records(pg) = {} /\ pg.right # Nil /\ query[s].op # "last"

EdgeAgain(s) ==
  /\ AtEdge(s, "edge_leaf")
  /\ EdgeMoves(s, page[node[s]])
  /\ Visit(s, Onward(page[node[s]]))
  /\ UNCHANGED <<tree, pc, call, next, fix, latch, result, filled, made, cursors>>

EdgeEntry(s) ==
  /\ AtEdge(s, "edge_leaf")
  /\ ~EdgeMoves(s, page[node[s]])
  /\ LET found == Records(page[node[s]])
     IN  IF found = {}
         THEN Retry(s, "done") /\ UNCHANGED <<latch, last>>
         ELSE Returns(s, IF query[s].op = "last" THEN Max(found) ELSE Min(found))
  /\ UNCHANGED <<tree, call, next, fix, result, filled, made, query>>

-----------------------------------------------------------------------------
(***************************************************************************)
(* entry_at_or_after: leaf_read_for as in BLinkTree, then one leaf after   *)
(* the other, of which no two are latched together.                        *)
(***************************************************************************)
ScanSeek(s) == /\ ReadRoot(s) \/ SeekRestart(s) \/ SeekRight(s) \/ SeekDown(s)
               /\ UNCHANGED cursors

\* An active leaf is latched: the one leaf_read_for found, or a later one.
AtLeaf(s) == /\ Seeks(s, "here") \/ AtEdge(s, "walk")
             /\ page[node[s]].kind = "leaf"

ScanFound(s) ==
  /\ AtLeaf(s)
  /\ Above(s, page[node[s]]) # {}
  /\ Returns(s, Min(Above(s, page[node[s]])))
  /\ UNCHANGED <<tree, call, next, fix, result, filled, made, query>>

ScanNextLeaf(s) ==
  /\ AtLeaf(s)
  /\ Above(s, page[node[s]]) = {}
  /\ page[node[s]].right # Nil
  /\ GoTo(s, "walk")
  /\ Visit(s, page[node[s]].right)
  /\ UNCHANGED <<tree, call, next, fix, latch, result, filled, made, cursors>>

ScanEnd(s) ==
  /\ AtLeaf(s)
  /\ Above(s, page[node[s]]) = {}
  /\ page[node[s]].right = Nil
  /\ Retry(s, "done")
  /\ UNCHANGED <<tree, call, next, fix, latch, result, filled, made, cursors>>

\* The next leaf was merged away before it was latched.
ScanForward(s) ==
  /\ AtEdge(s, "walk")
  /\ page[node[s]].kind = "redirect"
  /\ Visit(s, page[node[s]].target)
  /\ UNCHANGED <<tree, pc, call, next, fix, latch, result, filled, made, cursors>>

ScanStep(s) ==
  \/ DropItem(s)
  \/ EdgeRoot(s) \/ EdgeDown(s) \/ EdgeOn(s) \/ EdgeLeaf(s)
  \/ EdgeAgain(s) \/ EdgeEntry(s)
  \/ ScanSeek(s) \/ ScanFound(s) \/ ScanNextLeaf(s) \/ ScanEnd(s) \/ ScanForward(s)

-----------------------------------------------------------------------------
(***************************************************************************)
(* The specification.  The history watches every step from outside.        *)
(***************************************************************************)
Observes(s) == pc'[s] \notin {"idle", "item", "done"}

Observe ==
  /\ steady' = [s \in Scanner |->
       IF ~Observes(s) THEN {}
       ELSE IF Idle(s) THEN MapKeys' ELSE steady[s] \cap MapKeys']
  /\ maxima' = [s \in Scanner |->
       IF ~Observes(s) \/ query[s].op # "last" THEN {}
       ELSE maxima[s] \cup {Max({NegInf} \cup MapKeys')}]

TreeStep(t) == Step(t) /\ UNCHANGED cursors /\ Observe

ScanFinished == /\ \A t \in Thread \ Scanner : Idle(t) /\ MayCall(t) = {}
                /\ \A s \in Scanner : pc[s] = "done"

ScanNext ==
  \/ \E t \in Thread \ Scanner : /\ Start(t) \/ Step(t)
                                 /\ UNCHANGED cursors
                                 /\ Observe
  \/ \E s \in Scanner : (BeginCall(s) \/ ScanStep(s)) /\ Observe
  \/ (ScanFinished \/ OutOfPages) /\ UNCHANGED scanVars

InTime == filled.scene \in Timely

\* Fairness: a thread whose latch can be granted runs on, and a user drops an
\* item or a guard in the end (handle.rs and iter.rs ask for it).  Nobody has
\* to make a call, or to call next again.
ScanSpec ==
  /\ ScanInit /\ [][ScanNext]_scanVars
  /\ \A t \in Thread \ Scanner : WF_scanVars(InTime /\ TreeStep(t))
  /\ \A s \in Scanner : WF_scanVars(InTime /\ ScanStep(s) /\ Observe)

-----------------------------------------------------------------------------
(***************************************************************************)
(* Properties.                                                             *)
(***************************************************************************)
\* The step is the one in which s's running call returns an item, or ends
\* without one.
Yields(s)   == pc[s] # "item" /\ pc'[s] = "item"
Exhausts(s) == pc[s] # "item" /\ pc[s] # "done" /\ pc'[s] = "done"

\* Keys come in strictly ascending order and inside the bounds, through any
\* split, borrow or merge between two calls ("It never yields keys out of
\* order", iter.rs 26-27).
ScanAscends ==
  [][\A s \in Scanner : Yields(s) =>
       /\ last'[s] > last[s]
       /\ InsideStart(s, last'[s]) /\ InsideEnd(s, last'[s])]_scanVars

\* A key of the range that is in the map from the moment a call of next begins
\* until it returns is not passed over ("it observes every record that remains
\* present while the cursor passes it", iter.rs 24-25).
ScanMissesNothing ==
  [][\A s \in Scanner : query[s].op = "range" =>
       LET due == {k \in steady[s] :
                     k > last[s] /\ InsideStart(s, k) /\ InsideEnd(s, k)}
       IN  /\ Yields(s)   => \A k \in due : k >= last'[s]
           /\ Exhausts(s) => due = {}]_scanVars

\* The record behind an item stays where it is while the item is held, although
\* the leaf was found through an unlatched walk along the chain (EntryRef::new in
\* iter.rs 173 and map.rs 170-179).
ItemHasRecord ==
  \A s \in Scanner : pc[s] = "item" => /\ page[node[s]].kind = "leaf"
                                        /\ last[s] \in Records(page[node[s]])

\* first_entry's record is the least of the whole map at the moment its leaf is
\* latched, although the leaf was found before that ("Returns the least
\* key/value record", map.rs 169).
FirstIsLeast ==
  [][\A s \in Scanner : pc[s] = "edge_leaf" /\ query[s].op # "last" =>
       /\ Yields(s)   => last'[s] = Min(MapKeys)
       /\ Exhausts(s) => \A k \in MapKeys : ~InsideEnd(s, k)]_scanVars

\* last_entry's record was the greatest of the map at some moment of the call,
\* and it finds none only if the map was empty at some moment ("Returns the
\* greatest key/value record", map.rs 175).
LastIsGreatest ==
  [][\A s \in Scanner : query[s].op = "last" =>
       /\ Yields(s)   => last'[s] \in maxima[s]
       /\ Exhausts(s) => NegInf \in maxima[s]]_scanVars

\* Every other call returns too, once the items that block it are dropped: the
\* retry loops of insert and remove and the walks of the link repairs end, as
\* long as no second structural writer keeps failing the first one's try_write.
EveryCallReturns ==
  \A t \in Thread \ Scanner : InTime /\ ~Idle(t) ~> Idle(t)

\* Every call of next, first_key_value and last_key_value returns, whatever
\* redirects the walk meets, once the other threads have dropped their guards.
EveryScanReturns ==
  \A s \in Scanner : InTime /\ ~Idle(s) ~> (Idle(s) \/ pc[s] = "done")
==============================================================================
