------------------------------ MODULE BLinkTree ------------------------------
(***************************************************************************)
(* The concurrent tree of src/src/node.rs: get, get_mut, insert and remove *)
(* with preemptive splits, borrows, merges, root growth and root collapse, *)
(* and the sibling-link repairs that run after the structural latches are  *)
(* dropped.                                                                *)
(*                                                                         *)
(* Grain of atomicity.  Threads interact through page latches only.  An    *)
(* action is one critical section: from the point where the thread holds   *)
(* every latch the section uses to the point where it drops them.  Between *)
(* two actions a thread keeps the Arcs it holds (node, next, fix) and, at  *)
(* most, one latch (latch): a leaf behind a user's guard or under a        *)
(* pending count update, or the page a link repair holds while it waits    *)
(* for the page to its right.                                              *)
(***************************************************************************)
EXTENDS BLinkPages, Sequences

CONSTANTS
  Thread,   \* the threads that share the map
  Main,     \* the thread that fills the map before the others start
  Scene,    \* the workloads, of which a behaviour follows one
  Prefill,  \* per scene: the calls Main makes first, in order
  Script    \* per scene and thread, then: a sequence of sets of calls to
            \* choose from

Op   == {"get", "insert", "remove", "update"}
Call == [op : Op, key : Key, val : Val]

ASSUME WorkloadAssumption ==
  /\ MaxKey >= 1 /\ Val # {}
  /\ Main \in Thread
  /\ Scene # {}
  /\ Prefill \in [Scene -> Seq(Call)]
  /\ Script \in [Scene -> [Thread -> Seq(SUBSET Call)]]

VARIABLES
  page,     \* every page
  root,     \* the root slot
  len,      \* the record counter
  pc,       \* per thread: the next critical section
  call,     \* per thread: the operation in progress
  node,     \* per thread: the page the traversal has reached
  next,     \* per thread: where a pass goes on after a link repair
  fix,      \* per thread: the arguments of a pending link repair
  latch,    \* per thread: the latch held between two actions
  result,   \* per thread: the value to return
  filled,   \* the scene, and how many of its Prefill calls have returned
  made      \* per thread: how many Script calls have been started

tree    == <<page, root, len>>
threads == <<pc, call, node, next, fix, latch, result, filled, made>>
vars    == <<tree, threads>>

FixRec   == [cursor : Ref, retired : Ref, survivor : Ref]
LatchRec == [page : Ref, mode : {"none", "read", "write"}]

NoFix   == [cursor |-> Nil, retired |-> Nil, survivor |-> Nil]
NoLatch == [page |-> Nil, mode |-> "none"]

PC == {"idle", "root", "seek", "latch", "guard", "split_root", "ins_root",
       "ins", "fix_split", "fix_succ", "shrink", "del_root", "del",
       "fix_start", "fix_walk", "join_retired", "join_survivor", "peek",
       "join_peeked", "fix_none", "count", "count_slow", "shrink_end", "done"}

Progress == {f \in [scene : Scene, calls : Nat] : f.calls <= Len(Prefill[f.scene])}

TypeOK ==
  /\ page   \in [Page -> PageRec]
  /\ \A p \in Page : page[p].kind = "redirect" => page[p].target # Nil
  /\ root   \in Page
  /\ len    \in Int
  /\ pc     \in [Thread -> PC]
  /\ call   \in [Thread -> Call]
  /\ node   \in [Thread -> Ref]
  /\ next   \in [Thread -> Ref]
  /\ fix    \in [Thread -> FixRec]
  /\ latch  \in [Thread -> LatchRec]
  /\ result \in [Thread -> Val \cup {NoVal}]
  /\ filled \in Progress
  /\ made   \in [Thread -> Nat]

Init ==
  /\ page   = [p \in Page |-> IF p = 1 THEN LeafRoot ELSE FreePage]
  /\ root   = 1
  /\ len    = 0
  /\ pc     = [t \in Thread |-> "idle"]
  /\ call   \in [Thread -> {CHOOSE c \in Call : TRUE}]
  /\ node   = [t \in Thread |-> Nil]
  /\ next   = [t \in Thread |-> Nil]
  /\ fix    = [t \in Thread |-> NoFix]
  /\ latch  = [t \in Thread |-> NoLatch]
  /\ result = [t \in Thread |-> NoVal]
  /\ filled \in [scene : Scene, calls : {0}]
  /\ made   = [t \in Thread |-> 0]

-----------------------------------------------------------------------------
(***************************************************************************)
(* Latches and Arcs.                                                       *)
(***************************************************************************)
\* The page exists and its read or write latch can be granted.
ReadFree(p)  == p \in Page /\ \A u \in Thread : latch[u].page = p
                                               => latch[u].mode = "read"

\* Mutant: a writer does not wait for readers.
WriteFreeOfWriters(p) == p \in Page /\ \A u \in Thread : latch[u].page = p
                                                    => latch[u].mode # "write"

WriteFree(p) == p \in Page /\ \A u \in Thread : latch[u].page # p

\* Another thread runs an operation and may hold any latch for the length of
\* one of its critical sections, which try_write_arc can hit.  A thread with a
\* guard, a cursor's item (BLinkScan) or a pending count holds that one latch and
\* no other.
Contention(t) ==
  \E u \in Thread \ {t} :
    pc[u] \notin {"idle", "done", "guard", "item", "count", "count_slow"}

\* The Arcs that keep a page allocated.  A repair's predecessor is a Weak
\* until fix_start has upgraded it.
HeldBy(t) == {node[t], next[t], fix[t].retired, fix[t].survivor, latch[t].page}
               \cup (IF pc[t] = "fix_start" THEN {} ELSE {fix[t].cursor})

PointsTo(p) == {page[p].right, page[p].target} \cup {page[p].kids[s] : s \in Slot}

Reachable ==
  LET reach[i \in 0..MaxPages] ==
        IF i = 0
        THEN ({root} \cup UNION {HeldBy(t) : t \in Thread}) \ {Nil}
        ELSE LET near == reach[i - 1]
             IN  near \cup (UNION {PointsTo(p) : p \in near} \ {Nil})
  IN  reach[MaxPages]

\* Mutant: the predecessor was captured as an empty Weak.
UpgradesNever(p) == FALSE

\* Weak::upgrade succeeds.
Upgrades(p) == p # Nil /\ p \in Reachable

\* Arc::new: pages are taken in order and an identity is never reused.
Unallocated == {p \in Page : page[p].kind = "free"}
FirstNew    == Min(Unallocated)
SecondNew   == Min(Unallocated \ {FirstNew})

-----------------------------------------------------------------------------
(***************************************************************************)
(* Thread bookkeeping.  GoTo moves a thread on and keeps everything else;  *)
(* the variants also say where its traversal stands.                       *)
(***************************************************************************)
Idle(t) == pc[t] = "idle"

GoTo(t, label) == pc' = [pc EXCEPT ![t] = label]

Visit(t, p) == node' = [node EXCEPT ![t] = p]

\* The thread drops its traversal Arc and starts again at label.
Retry(t, label) == GoTo(t, label) /\ Visit(t, Nil)

Hold(t, p, mode) == latch' = [latch EXCEPT ![t] = [page |-> p, mode |-> mode]]

\* Mutant: the latch is leaked.
ReleaseNever(t) == UNCHANGED latch

Release(t)       == latch' = [latch EXCEPT ![t] = NoLatch]

Answer(t, v) == result' = [result EXCEPT ![t] = v]

\* The map is in the shape the scene starts from.
Filled == filled.calls = Len(Prefill[filled.scene])

\* The calls t may make now: Main fills the map before anyone else starts.
MayCall(t) ==
  IF ~Filled
  THEN IF t = Main THEN {Prefill[filled.scene][filled.calls + 1]} ELSE {}
  ELSE LET script == Script[filled.scene][t]
       IN  IF made[t] < Len(script) THEN script[made[t] + 1] ELSE {}

Start(t) ==
  /\ Idle(t)
  /\ \E c \in MayCall(t) : call' = [call EXCEPT ![t] = c]
  /\ made' = IF Filled THEN [made EXCEPT ![t] = @ + 1] ELSE made
  /\ GoTo(t, "root")
  /\ Answer(t, NoVal)
  /\ UNCHANGED <<tree, node, next, fix, latch, filled>>

Return(t) ==
  /\ pc[t] = "done"
  /\ GoTo(t, "idle")
  /\ filled' = IF Filled THEN filled ELSE [filled EXCEPT !.calls = @ + 1]
  /\ UNCHANGED <<tree, call, node, next, fix, latch, result, made>>

-----------------------------------------------------------------------------
(***************************************************************************)
(* leaf_read_for: root_node, then one read latch at a time.                *)
(***************************************************************************)
ReadRoot(t) ==
  /\ pc[t] = "root"
  /\ GoTo(t, "seek")
  /\ Visit(t, root)
  /\ UNCHANGED <<tree, call, next, fix, latch, result, filled, made>>

\* The read latch on the visited page is granted; its route is known.
Seeks(t, route) ==
  /\ pc[t] = "seek"
  /\ ReadFree(node[t])
  /\ Route(page[node[t]], call[t].key) = route

SeekRestart(t) ==
  /\ Seeks(t, "restart")
  /\ Retry(t, "root")
  /\ UNCHANGED <<tree, call, next, fix, latch, result, filled, made>>

SeekRight(t) ==
  /\ Seeks(t, "right")
  /\ Visit(t, Onward(page[node[t]]))
  /\ UNCHANGED <<tree, pc, call, next, fix, latch, result, filled, made>>

SeekDown(t) ==
  /\ Seeks(t, "here")
  /\ page[node[t]].kind = "internal"
  /\ Visit(t, Child(page[node[t]], call[t].key))
  /\ UNCHANGED <<tree, pc, call, next, fix, latch, result, filled, made>>

\* get: the leaf's read latch becomes the EntryRef, or the key is absent.
SeekGet(t) ==
  /\ Seeks(t, "here")
  /\ page[node[t]].kind = "leaf"
  /\ call[t].op = "get"
  /\ LET found == page[node[t]].recs[call[t].key]
     IN  /\ Answer(t, found)
         /\ IF found = NoVal
            THEN Retry(t, "done") /\ UNCHANGED latch
            ELSE GoTo(t, "guard") /\ Hold(t, node[t], "read") /\ UNCHANGED node
  /\ UNCHANGED <<tree, call, next, fix, filled, made>>

\* Mutant: the read latch is kept while the write latch is asked for.
SeekWriterKeepsLatch(t) ==
  /\ Seeks(t, "here")
  /\ page[node[t]].kind = "leaf"
  /\ call[t].op # "get"
  /\ GoTo(t, "latch")
  /\ Hold(t, node[t], "read")
  /\ UNCHANGED <<tree, call, node, next, fix, result, filled, made>>

\* leaf_write_for drops the read latch before it asks for the write latch.
SeekWriter(t) ==
  /\ Seeks(t, "here")
  /\ page[node[t]].kind = "leaf"
  /\ call[t].op # "get"
  /\ GoTo(t, "latch")
  /\ UNCHANGED <<tree, call, node, next, fix, latch, result, filled, made>>

Seek(t) == SeekRestart(t) \/ SeekRight(t) \/ SeekDown(t) \/ SeekGet(t)
             \/ SeekWriter(t)

\* The user drops the guard.  An EntryMut was written through before that;
\* the latch hides the moment.
DropGuard(t) ==
  /\ pc[t] = "guard"
  /\ LET k == call[t].key
     IN  IF call[t].op = "update"
         THEN /\ page' = [page EXCEPT ![node[t]].recs[k] = call[t].val]
              /\ Answer(t, page[node[t]].recs[k])
         ELSE UNCHANGED <<page, result>>
  /\ Retry(t, "done")
  /\ Release(t)
  /\ UNCHANGED <<root, len, call, next, fix, filled, made>>

-----------------------------------------------------------------------------
(***************************************************************************)
(* leaf_write_for's second half and the operation it latches the leaf for. *)
(***************************************************************************)
\* Mutant: the leaf is not revalidated after the write latch is granted.
OwnsKeyUnchecked(t) == page[node[t]].kind = "leaf"

OwnsKey(t) == /\ page[node[t]].kind = "leaf"
              /\ Route(page[node[t]], call[t].key) = "here"

Relatch(t) ==
  /\ pc[t] = "latch"
  /\ WriteFree(node[t])
  /\ ~OwnsKey(t)
  /\ Retry(t, "root")
  /\ UNCHANGED <<tree, call, next, fix, latch, result, filled, made>>

Latched(t, op) == /\ pc[t] = "latch"
                  /\ WriteFree(node[t])
                  /\ OwnsKey(t)
                  /\ call[t].op = op

\* Mutant: the EntryMut does not keep the leaf's latch.
FastUpdateUnlatched(t) ==
  /\ Latched(t, "update")
  /\ IF page[node[t]].recs[call[t].key] = NoVal
     THEN Retry(t, "done")
     ELSE GoTo(t, "guard") /\ UNCHANGED node
  /\ UNCHANGED <<tree, call, next, fix, latch, result, filled, made>>

\* get_mut: the write latch becomes the EntryMut, or the key is absent.
FastUpdate(t) ==
  /\ Latched(t, "update")
  /\ IF page[node[t]].recs[call[t].key] = NoVal
     THEN Retry(t, "done") /\ UNCHANGED latch
     ELSE GoTo(t, "guard") /\ Hold(t, node[t], "write") /\ UNCHANGED node
  /\ UNCHANGED <<tree, call, next, fix, result, filled, made>>

\* Mutants: a replacement returns nothing; the leaf is unlatched before the
\* counter is updated; a replacement is counted too.
StoreRecordForgets(t, p) ==
  LET k == call[t].key
  IN  /\ page' = [page EXCEPT ![p].recs[k] = call[t].val]
      /\ UNCHANGED result
      /\ IF page[p].recs[k] = NoVal
         THEN GoTo(t, "count") /\ Hold(t, p, "write") /\ UNCHANGED node
         ELSE Retry(t, "done") /\ UNCHANGED latch

StoreRecordUnlatched(t, p) ==
  LET k == call[t].key
  IN  /\ page' = [page EXCEPT ![p].recs[k] = call[t].val]
      /\ Answer(t, page[p].recs[k])
      /\ IF page[p].recs[k] = NoVal
         THEN GoTo(t, "count") /\ UNCHANGED <<node, latch>>
         ELSE Retry(t, "done") /\ UNCHANGED latch

StoreRecordCountsAll(t, p) ==
  /\ page' = [page EXCEPT ![p].recs[call[t].key] = call[t].val]
  /\ Answer(t, page[p].recs[call[t].key])
  /\ GoTo(t, "count")
  /\ Hold(t, p, "write")
  /\ UNCHANGED node

\* LeafNode::insert and the counter update that follows under the same latch.
StoreRecord(t, p) ==
  LET k == call[t].key
  IN  /\ page' = [page EXCEPT ![p].recs[k] = call[t].val]
      /\ Answer(t, page[p].recs[k])
      /\ IF page[p].recs[k] = NoVal
         THEN GoTo(t, "count") /\ Hold(t, p, "write") /\ UNCHANGED node
         ELSE Retry(t, "done") /\ UNCHANGED latch

\* try_insert_without_split.
FastInsert(t) ==
  /\ Latched(t, "insert")
  /\ IF page[node[t]].recs[call[t].key] = NoVal /\ Full(page[node[t]])
     THEN Retry(t, "split_root") /\ UNCHANGED <<page, latch, result>>
     ELSE StoreRecord(t, node[t])
  /\ UNCHANGED <<root, len, call, next, fix, filled, made>>

\* entries.remove and the counter update that follows under the same latch.
EraseRecord(t, p, label) ==
  LET k == call[t].key
  IN  /\ page' = [page EXCEPT ![p].recs[k] = NoVal]
      /\ Answer(t, page[p].recs[k])
      /\ GoTo(t, label)
      /\ Hold(t, p, "write")
      /\ UNCHANGED node

\* try_remove_without_rebalance.
FastRemove(t) ==
  /\ Latched(t, "remove")
  /\ LET leaf == page[node[t]]
     IN  CASE leaf.recs[call[t].key] = NoVal ->
                Retry(t, "done") /\ UNCHANGED <<page, latch, result>>
           [] leaf.recs[call[t].key] # NoVal /\ ~leaf.isRoot /\ AtMinimum(leaf) ->
                Retry(t, "shrink") /\ UNCHANGED <<page, latch, result>>
           [] OTHER -> EraseRecord(t, node[t], "count")
  /\ UNCHANGED <<root, len, call, next, fix, filled, made>>

\* fetch_add or fetch_sub, then the leaf latch is dropped.
Count(t) ==
  /\ pc[t] \in {"count", "count_slow"}
  /\ len' = IF call[t].op = "insert" THEN len + 1 ELSE len - 1
  /\ Release(t)
  /\ Retry(t, IF pc[t] = "count_slow" THEN "shrink_end" ELSE "done")
  /\ UNCHANGED <<page, root, call, next, fix, result, filled, made>>

-----------------------------------------------------------------------------
(***************************************************************************)
(* The structural insert: split_root_if_full, then insert_attempt, over    *)
(* and over until a pass reaches a leaf with room.                         *)
(***************************************************************************)
\* split_root_if_full, under the root-slot and root-page latches.  A root
\* has no successor, so its repair_split_backlink has nothing to do.
SplitRoot(t) ==
  /\ pc[t] = "split_root"
  /\ WriteFree(root)
  /\ IF ~Full(page[root])
     THEN UNCHANGED <<page, root>>
     ELSE /\ Cardinality(Unallocated) >= 2
          /\ LET old == page[root]
                 sep == SplitKey(old)
             IN  page' = [page EXCEPT
                   ![root]      = [SplitLower(old, sep, FirstNew)
                                     EXCEPT !.isRoot = FALSE],
                   ![FirstNew]  = SplitUpper(old, sep, root),
                   ![SecondNew] = RootFromSplit(root, sep, FirstNew,
                                                old.level + 1)]
          /\ root' = SecondNew
  /\ GoTo(t, "ins_root")
  /\ UNCHANGED <<len, call, node, next, fix, latch, result, filled, made>>

\* insert_attempt and remove_attempt begin at the root they clone here.
AttemptRoot(t) ==
  /\ \/ pc[t] = "ins_root" /\ GoTo(t, "ins")
     \/ pc[t] = "del_root" /\ GoTo(t, "del")
  /\ Visit(t, root)
  /\ UNCHANGED <<tree, call, next, fix, latch, result, filled, made>>

\* The write latch on the visited page of a structural pass is granted.
Attempts(t, label, route) ==
  /\ pc[t] = label
  /\ WriteFree(node[t])
  /\ Route(page[node[t]], call[t].key) = route

AttemptRight(t) ==
  /\ Attempts(t, "ins", "right") \/ Attempts(t, "del", "right")
  /\ Visit(t, Onward(page[node[t]]))
  /\ UNCHANGED <<tree, pc, call, next, fix, latch, result, filled, made>>

\* try_write_arc on p fails: another thread holds it, for a while or longer.
TryFails(t, p) == ~WriteFree(p) \/ Contention(t)

\* The child the key belongs to, the boundary with the sibling a removal pairs
\* it with, and the two pages at that boundary.
ChildOf(t) == Child(page[node[t]], call[t].key)
Sep(t)     == Boundary(page[node[t]], call[t].key)
LeftOf(t)  == page[node[t]].kids[PrevSlot(page[node[t]], Sep(t))]
RightOf(t) == page[node[t]].kids[Sep(t)]

\* A pass that cannot go on from a page gives up and a new one begins.
InsertRetry(t) ==
  /\ \/ Attempts(t, "ins", "restart")
     \/ /\ Attempts(t, "ins", "here")
        /\ \/ Full(page[node[t]])
           \/ page[node[t]].kind = "internal" /\ TryFails(t, ChildOf(t))
  /\ Retry(t, "split_root")
  /\ UNCHANGED <<tree, call, next, fix, latch, result, filled, made>>

InsertHere(t) ==
  /\ Attempts(t, "ins", "here")
  /\ page[node[t]].kind = "leaf"
  /\ ~Full(page[node[t]])
  /\ StoreRecord(t, node[t])
  /\ UNCHANGED <<root, len, call, next, fix, filled, made>>

\* The visited internal page has room and its child's latch is granted.
InsertDescends(t) ==
  /\ Attempts(t, "ins", "here")
  /\ page[node[t]].kind = "internal"
  /\ ~Full(page[node[t]])
  /\ WriteFree(ChildOf(t))

InsertDown(t) ==
  /\ InsertDescends(t)
  /\ ~Full(page[ChildOf(t)])
  /\ Visit(t, ChildOf(t))
  /\ UNCHANGED <<tree, pc, call, next, fix, latch, result, filled, made>>

\* The child is full: split it, tell the parent, drop the latches, and repair
\* the old successor's back link before going on.
SplitChild(t) ==
  /\ InsertDescends(t)
  /\ Full(page[ChildOf(t)])
  /\ Unallocated # {}
  /\ LET child  == ChildOf(t)
         old    == page[child]
         sep    == SplitKey(old)
         target == IF call[t].key >= sep THEN FirstNew ELSE child
     IN  /\ page' = [page EXCEPT
              ![child]    = SplitLower(old, sep, FirstNew),
              ![FirstNew] = SplitUpper(old, sep, child),
              ![node[t]]  = InstallSplit(page[node[t]], sep, FirstNew)]
         /\ IF old.right = Nil
            THEN Visit(t, target) /\ UNCHANGED <<pc, next, fix>>
            ELSE /\ GoTo(t, "fix_split")
                 /\ next' = [next EXCEPT ![t] = target]
                 /\ fix' = [fix EXCEPT ![t] = [cursor   |-> FirstNew,
                                               retired  |-> child,
                                               survivor |-> old.right]]
                 /\ UNCHANGED node
  /\ UNCHANGED <<root, len, call, latch, result, filled, made>>

-----------------------------------------------------------------------------
(***************************************************************************)
(* repair_split_backlink: fix.cursor is the new right page, fix.survivor   *)
(* its successor; fix.retired is only the pass's child_ref, whose Arc lives*)
(* as long.  Both repairs end by resuming the pass that left them.         *)
(***************************************************************************)
Resume(t, label) ==
  /\ GoTo(t, label)
  /\ Visit(t, next[t])
  /\ next' = [next EXCEPT ![t] = Nil]
  /\ fix'  = [fix EXCEPT ![t] = NoFix]

\* Mutant: the repair does not ask whether the new page still precedes the
\* old successor.
FixSplitUnchecked(t) ==
  /\ pc[t] = "fix_split"
  /\ WriteFree(fix[t].cursor)
  /\ GoTo(t, "fix_succ")
  /\ Hold(t, fix[t].cursor, "write")
  /\ UNCHANGED <<tree, call, node, next, fix, result, filled, made>>

FixSplit(t) ==
  /\ pc[t] = "fix_split"
  /\ WriteFree(fix[t].cursor)
  /\ LET new == page[fix[t].cursor]
     IN  IF new.kind = "redirect" \/ new.right # fix[t].survivor
         THEN Resume(t, "ins") /\ UNCHANGED latch
         ELSE /\ GoTo(t, "fix_succ")
              /\ Hold(t, fix[t].cursor, "write")
              /\ UNCHANGED <<node, next, fix>>
  /\ UNCHANGED <<tree, call, result, filled, made>>

\* The new page stays latched while the repair waits for its successor and
\* steps over successors that were merged away.
FixSuccessor(t) ==
  /\ pc[t] = "fix_succ"
  /\ WriteFree(fix[t].survivor)
  /\ LET new  == fix[t].cursor
         succ == fix[t].survivor
     IN  IF page[succ].kind = "redirect"
         THEN /\ page' = [page EXCEPT ![new].right = page[succ].target]
              /\ fix'  = [fix EXCEPT ![t].survivor = page[succ].target]
              /\ UNCHANGED <<pc, node, next, latch>>
         ELSE /\ page' = [page EXCEPT ![succ].prev = new]
              /\ Release(t)
              /\ Resume(t, "ins")
  /\ UNCHANGED <<root, len, call, result, filled, made>>

-----------------------------------------------------------------------------
(***************************************************************************)
(* The structural remove: shrink_root, then remove_attempt, over and over, *)
(* and shrink_root again when the record is gone.                          *)
(***************************************************************************)
\* One turn of shrink_root's loop.
Shrink(t) ==
  /\ pc[t] \in {"shrink", "shrink_end"}
  /\ WriteFree(root)
  /\ IF page[root].kind = "internal" /\ Separators(page[root]) = {}
     THEN LET child == page[root].kids[NegInf]
          IN  /\ WriteFree(child)
              /\ page' = [page EXCEPT ![child] = PromotedChild(page[child]),
                                      ![root]  = CollapsedRoot(page[root], child)]
              /\ root' = child
              /\ UNCHANGED pc
     ELSE /\ GoTo(t, IF pc[t] = "shrink" THEN "del_root" ELSE "done")
          /\ UNCHANGED <<page, root>>
  /\ UNCHANGED <<len, call, node, next, fix, latch, result, filled, made>>

\* Mutants: the pass does not re-check the page once its parent is released;
\* the root is held to a minimum too.
UnsafeNever(pg)     == FALSE
UnsafeEvenRoot(pg)  == AtMinimum(pg)

\* The page is a non-root page that a removal could leave underfull.
Unsafe(pg) == ~pg.isRoot /\ AtMinimum(pg)

RemoveRetry(t) ==
  /\ \/ Attempts(t, "del", "restart")
     \/ /\ Attempts(t, "del", "here")
        /\ LET pg == page[node[t]]
           IN  \/ Unsafe(pg)
               \/ /\ pg.kind = "internal"
                  /\ Separators(pg) # {} =>
                       TryFails(t, LeftOf(t)) \/ TryFails(t, RightOf(t))
  /\ Retry(t, "shrink")
  /\ UNCHANGED <<tree, call, next, fix, latch, result, filled, made>>

RemoveHere(t) ==
  /\ Attempts(t, "del", "here")
  /\ page[node[t]].kind = "leaf"
  /\ ~Unsafe(page[node[t]])
  /\ IF page[node[t]].recs[call[t].key] = NoVal
     THEN Retry(t, "shrink_end") /\ UNCHANGED <<page, latch, result>>
     ELSE EraseRecord(t, node[t], "count_slow")
  /\ UNCHANGED <<root, len, call, next, fix, filled, made>>

\* The visited internal page is safe and both children's latches are granted.
RemoveDescends(t) ==
  /\ Attempts(t, "del", "here")
  /\ page[node[t]].kind = "internal"
  /\ ~Unsafe(page[node[t]])
  /\ Separators(page[node[t]]) # {}
  /\ WriteFree(LeftOf(t)) /\ WriteFree(RightOf(t))

RemoveDown(t) ==
  /\ RemoveDescends(t)
  /\ ~AtMinimum(page[ChildOf(t)])
  /\ Visit(t, ChildOf(t))
  /\ UNCHANGED <<tree, pc, call, next, fix, latch, result, filled, made>>

\* The child is the right one of the pair and its left sibling can lend.
BorrowFromLeft(t) ==
  /\ RemoveDescends(t)
  /\ ChildOf(t) = RightOf(t)
  /\ AtMinimum(page[RightOf(t)]) /\ ~AtMinimum(page[LeftOf(t)])
  /\ LET left  == LeftOf(t)
         right == RightOf(t)
         b     == LendLastBoundary(page[left])
     IN  page' = [page EXCEPT
           ![left]    = LentLast(page[left], b),
           ![right]   = TookLast(page[left], page[right], Sep(t), b),
           ![node[t]] = MoveBoundary(page[node[t]], Sep(t), b)]
  /\ Visit(t, RightOf(t))
  /\ UNCHANGED <<root, len, pc, call, next, fix, latch, result, filled, made>>

\* The child is the first one and its right sibling can lend.
BorrowFromRight(t) ==
  /\ RemoveDescends(t)
  /\ ChildOf(t) = LeftOf(t)
  /\ AtMinimum(page[LeftOf(t)]) /\ ~AtMinimum(page[RightOf(t)])
  /\ LET left  == LeftOf(t)
         right == RightOf(t)
         b     == LendFirstBoundary(page[right])
     IN  page' = [page EXCEPT
           ![left]    = TookFirst(page[left], page[right], Sep(t), b),
           ![right]   = LentFirst(page[right], b),
           ![node[t]] = MoveBoundary(page[node[t]], Sep(t), b)]
  /\ Visit(t, LeftOf(t))
  /\ UNCHANGED <<root, len, pc, call, next, fix, latch, result, filled, made>>

\* Neither can lend: left merges into right, which the pass goes on from once
\* repair_merged_link has run.
Merge(t) ==
  /\ RemoveDescends(t)
  /\ AtMinimum(page[LeftOf(t)]) /\ AtMinimum(page[RightOf(t)])
  /\ LET left  == LeftOf(t)
         right == RightOf(t)
     IN  /\ page' = [page EXCEPT
              ![left]    = Retired(page[left], right),
              ![right]   = Survivor(page[left], page[right], Sep(t)),
              ![node[t]] = DropMerged(page[node[t]], Sep(t))]
         /\ next' = [next EXCEPT ![t] = right]
         /\ fix'  = [fix EXCEPT ![t] = [cursor   |-> page[left].prev,
                                        retired  |-> left,
                                        survivor |-> right]]
  /\ GoTo(t, "fix_start")
  /\ UNCHANGED <<root, len, call, node, latch, result, filled, made>>

-----------------------------------------------------------------------------
(***************************************************************************)
(* repair_merged_link: walk right from the predecessor that the retired    *)
(* page knew (fix.cursor) until the link to fix.retired or fix.survivor is *)
(* found; compact the redirects met on the way.                            *)
(***************************************************************************)
WalkFrom(t, p) == fix' = [fix EXCEPT ![t].cursor = p]

FixStart(t) ==
  /\ pc[t] = "fix_start"
  /\ IF Upgrades(fix[t].cursor)
     THEN GoTo(t, "fix_walk") /\ UNCHANGED fix
     ELSE GoTo(t, "fix_none") /\ WalkFrom(t, Nil)
  /\ UNCHANGED <<tree, call, node, next, latch, result, filled, made>>

\* The survivor becomes a page without a predecessor.
FixNone(t) ==
  /\ pc[t] = "fix_none"
  /\ WriteFree(fix[t].survivor)
  /\ page' = [page EXCEPT ![fix[t].survivor].prev = Nil]
  /\ Resume(t, "del")
  /\ UNCHANGED <<root, len, call, latch, result, filled, made>>

\* A predecessor that was itself retired gives an earlier page to start from.
WalkBack(t) ==
  /\ pc[t] = "fix_walk"
  /\ WriteFree(fix[t].cursor)
  /\ LET cursor == page[fix[t].cursor]
     IN  /\ cursor.kind = "redirect"
         /\ WalkFrom(t, IF Upgrades(cursor.prev) THEN cursor.prev
                                                 ELSE cursor.target)
  /\ UNCHANGED <<tree, pc, call, node, next, latch, result, filled, made>>

\* The cursor is active: look at its right link and keep the cursor latched
\* while waiting for a page to its right.
WalkOn(t) ==
  /\ pc[t] = "fix_walk"
  /\ WriteFree(fix[t].cursor)
  /\ page[fix[t].cursor].kind # "redirect"
  /\ LET cur   == fix[t].cursor
         right == page[cur].right
     IN  CASE right = Nil ->
                GoTo(t, "fix_none") /\ UNCHANGED <<page, latch, fix>>
           [] right # Nil /\ right = fix[t].retired ->
                /\ page' = [page EXCEPT ![cur].right = fix[t].survivor]
                /\ GoTo(t, "join_retired") /\ Hold(t, cur, "write")
                /\ UNCHANGED fix
           [] right # Nil /\ right = fix[t].survivor ->
                GoTo(t, "join_survivor") /\ Hold(t, cur, "write")
                /\ UNCHANGED <<page, fix>>
           [] OTHER ->
                GoTo(t, "peek") /\ Hold(t, cur, "write")
                /\ UNCHANGED <<page, fix>>
  /\ UNCHANGED <<root, len, call, node, next, result, filled, made>>

\* The page to the cursor's right is read-latched: pass over it, or cut it out
\* of the chain when it is a redirect.
Peek(t) ==
  /\ pc[t] = "peek"
  /\ ReadFree(page[fix[t].cursor].right)
  /\ LET cur   == fix[t].cursor
         right == page[cur].right
     IN  IF page[right].kind = "redirect"
         THEN /\ page' = [page EXCEPT ![cur].right = page[right].target]
              /\ UNCHANGED fix
              /\ IF page[right].target = fix[t].survivor
                 THEN GoTo(t, "join_peeked") /\ UNCHANGED latch
                 ELSE GoTo(t, "fix_walk") /\ Release(t)
         ELSE /\ WalkFrom(t, right)
              /\ GoTo(t, "fix_walk")
              /\ Release(t)
              /\ UNCHANGED page
  /\ UNCHANGED <<root, len, call, node, next, result, filled, made>>

\* The survivor's latch is granted while the cursor is held.  A survivor that
\* was merged away meanwhile sends the walk on.
Join(t) ==
  /\ pc[t] \in {"join_retired", "join_survivor", "join_peeked"}
  /\ WriteFree(fix[t].survivor)
  /\ LET cur  == fix[t].cursor
         surv == page[fix[t].survivor]
     IN  IF surv.kind # "redirect"
         THEN /\ page' = [page EXCEPT ![fix[t].survivor].prev = cur]
              /\ Resume(t, "del")
         ELSE /\ page' = IF pc[t] = "join_peeked" THEN page
                         ELSE [page EXCEPT ![cur].right = surv.target]
              /\ WalkFrom(t, IF pc[t] = "join_retired" THEN surv.target ELSE cur)
              /\ GoTo(t, "fix_walk")
              /\ UNCHANGED <<node, next>>
  /\ Release(t)
  /\ UNCHANGED <<root, len, call, result, filled, made>>

-----------------------------------------------------------------------------
Insert(t) == \/ FastInsert(t) \/ SplitRoot(t)
             \/ InsertRetry(t) \/ InsertHere(t) \/ InsertDown(t) \/ SplitChild(t)
             \/ FixSplit(t) \/ FixSuccessor(t)

Remove(t) == \/ FastRemove(t) \/ Shrink(t)
             \/ RemoveRetry(t) \/ RemoveHere(t) \/ RemoveDown(t)
             \/ BorrowFromLeft(t) \/ BorrowFromRight(t) \/ Merge(t)
             \/ FixStart(t) \/ FixNone(t) \/ WalkBack(t) \/ WalkOn(t)
             \/ Peek(t) \/ Join(t)

Step(t) == \/ ReadRoot(t) \/ Seek(t) \/ DropGuard(t)
           \/ Relatch(t) \/ FastUpdate(t) \/ Count(t)
           \/ AttemptRoot(t) \/ AttemptRight(t)
           \/ Insert(t) \/ Remove(t) \/ Return(t)

\* The program is over: every thread has made its calls and returned.
Finished == \A t \in Thread : Idle(t) /\ MayCall(t) = {}

\* The bound MaxPages is used up: a root split has to wait for ever.  (A thread
\* that splits a full root and one that merges the halves back can take turns
\* as long as each keeps failing a try_write, and the model reuses no page.)
OutOfPages == Cardinality(Unallocated) < 2

Terminated == (Finished \/ OutOfPages) /\ UNCHANGED vars

Next == (\E t \in Thread : Start(t) \/ Step(t)) \/ Terminated

Spec == Init /\ [][Next]_vars
==============================================================================
