----------------------------- MODULE MCBLinkScan -----------------------------
(***************************************************************************)
(* Scenes for the scanners: ThreadA changes the tree while ThreadB scans   *)
(* it.                                                                     *)
(***************************************************************************)
EXTENDS BLinkScan, Workloads

ScannerB == {ThreadB}

Unbounded    == [kind |-> "unbounded", key |-> 1]
Included(k)  == [kind |-> "included",  key |-> k]
Excluded(k)  == [kind |-> "excluded",  key |-> k]

Ask(op)          == [op |-> op, start |-> Unbounded, end |-> Unbounded]
Between(lo, hi)  == [op |-> "range", start |-> lo, end |-> hi]

\* The tree loses its leaves, its root and its last record, and gets one back.
Collapse == AB(<<{Rem(1), Rem(2)}, {Rem(1), Rem(2)}, {Ins(3)}>>, <<>>)

\* The root splits, a leaf inside splits, leaves borrow from the left and merge.
Grow == AB(<<{Ins(4)}, {Rem(5), Rem(6), Rem(7)}, {Rem(6), Rem(7)}>>, <<>>)

\* Two internal pages borrow, merge and split under the root.
Levels == AB(<<{Rem(1), Rem(3), Ins(6)}, {Rem(2), Ins(7)}>>, <<>>)

Scenes  == {"ends", "ranges", "levels"}
Shapes  == [ends |-> TwoLeaves, ranges |-> FullRoot, levels |-> ThreeLevels]
Calls   == [ends |-> Collapse, ranges |-> Grow, levels |-> Levels]
Ends    == {"ends", "levels"}
AnyScan == {Ask("first"), Ask("last"), Ask("range"),
            Between(Included(2), Excluded(7)), Between(Excluded(3), Included(6)),
            Between(Included(4), Unbounded)}

\* Leaf [1] borrows from its right neighbour below a cursor.
SkipScene == {"skip"}
SkipShape == [skip |-> LendingPair]
SkipCalls == [skip |-> AB(<<{Rem(1)}>>, <<>>)]
Iterate   == {Ask("range")}

\* The only leaf splits.
LastScene == {"last"}
LastShape == [last |-> FullRootLeaf]
LastCalls == [last |-> AB(<<{Ins(4)}>>, <<>>)]
Greatest  == {Ask("last")}
==============================================================================
