----------------------------- MODULE BLinkPanic -----------------------------
(***************************************************************************)
(* A user's Ord::cmp that panics.  Latches are guards that unwinding drops *)
(* (parking_lot does not poison), so the tree lives on with whatever the   *)
(* abandoned call had done.  src/src/node.rs compares keys while it seeks, *)
(* before it changes anything, with one exception: insert_attempt compares *)
(* once more after split_full and before insert_split.                     *)
(***************************************************************************)
EXTENDS BLinkSafety

CONSTANT Panicking  \* the scenes in which comparisons may panic

ASSUME PanickingAssumption == Panicking \subseteq Scene

\* The call is abandoned with its latches and Arcs dropped.  The calls that
\* fill the map do not panic.
Unwind(t) ==
  /\ Filled /\ filled.scene \in Panicking
  /\ Retry(t, "idle")
  /\ UNCHANGED <<root, len, call, next, fix, latch, result, filled, made>>

\* A comparison of a search, or of a pass, before it changes anything.
SearchUnwinds(t) ==
  /\ \/ pc[t] = "seek" /\ ReadFree(node[t])
     \/ pc[t] \in {"latch", "ins", "del"} /\ WriteFree(node[t])
  /\ Unwind(t)
  /\ UNCHANGED page

\* Mutant: the right half of the records goes with the unwound right page.
SplitUnwindsEarly(t) ==
  /\ InsertDescends(t)
  /\ Full(page[ChildOf(t)])
  /\ Unallocated # {}
  /\ LET child == ChildOf(t)
         sep   == SplitKey(page[child])
     IN  page' = [page EXCEPT
           ![child]    = SplitLowerUnlinked(page[child], sep, FirstNew),
           ![FirstNew] = SplitUpper(page[child], sep, child)]
  /\ Unwind(t)

\* goes_right: the child is split and linked, the parent is never told, and the
\* back link of the old successor is not repaired.
SplitUnwinds(t) ==
  /\ InsertDescends(t)
  /\ Full(page[ChildOf(t)])
  /\ Unallocated # {}
  /\ LET child == ChildOf(t)
         sep   == SplitKey(page[child])
     IN  page' = [page EXCEPT
           ![child]    = SplitLower(page[child], sep, FirstNew),
           ![FirstNew] = SplitUpper(page[child], sep, child)]
  /\ Unwind(t)

PanicNext == Next \/ \E t \in Thread : SearchUnwinds(t) \/ SplitUnwinds(t)

-----------------------------------------------------------------------------
\* Where a search for k from the root ends while nobody changes the tree.
SearchEnd(k) ==
  LET at[i \in 0..(2 * MaxPages)] ==
        IF i = 0 THEN root
        ELSE LET p == at[i - 1]
             IN  IF p = Nil THEN Nil
                 ELSE CASE Route(page[p], k) = "right" -> Onward(page[p])
                        [] Route(page[p], k) = "here" /\ page[p].kind = "internal"
                             -> Child(page[p], k)
                        [] OTHER -> p
  IN  at[2 * MaxPages]

=============================================================================
