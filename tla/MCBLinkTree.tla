----------------------------- MODULE MCBLinkTree -----------------------------
(***************************************************************************)
(* Scenes in which two threads change the tree at the same time, and one   *)
(* in which the map is cleared between their calls.                        *)
(***************************************************************************)
EXTENDS BLinkClear, Workloads

\* Merges, borrows and root collapse among four minimal leaves.
Merges == AB(<<{Rem(1), Rem(2), Rem(3), Rem(4)}, {Rem(1), Rem(3), Ins(5)}>>,
             <<{Rem(1), Rem(2), Rem(3), Rem(4)}, {Rem(2), Rem(4), Ins(5)}>>)

\* Internal pages borrow, merge and split; the root grows and collapses.
Levels == AB(<<{Rem(1), Rem(5), Ins(6)}, {Rem(2), Ins(7)}>>,
             <<{Rem(3), Rem(4), Ins(6)}, {Rem(4), Ins(7)}>>)

\* Splits of a page with a successor, while the new page splits again and the
\* successor merges.
Splits == AB(<<{Ins(4)}, {Ins(8), Rem(2)}>>,
             <<{Ins(4), Rem(6)}, {Rem(6), Rem(7), Ins(5)}, {Rem(1), Ins(9)}>>)

\* Every operation on one record.
OneKey == LET all == {Ins(1), Put(1), Rem(1), Get(1), Upd(1)}
          IN  Both(<<all, all>>)

\* Calls between which the map is cleared.
Round  == {Ins(5), Rem(1), Rem(3), Get(1)}
Rounds == AB(<<Round, Round>>, <<Round>>)

\* One thread merges at the right end while the other merges to its left.
LostLink == AB(<<{Rem(4)}>>, <<{Rem(3)}, {Rem(4)}, {Ins(5)}>>)

Scenes == {"merges", "levels", "splits", "record", "clear"}
Shapes == [merges |-> FourLeaves, levels |-> ThreeLevels, splits |-> FullLeaf,
           record |-> Empty, clear |-> Uneven]
Calls  == [merges |-> Merges, levels |-> Levels, splits |-> Splits,
           record |-> OneKey, clear |-> Rounds]
Clears == [s \in Scenes |-> IF s = "clear" THEN 2 ELSE 0]

LostScene  == {"lost"}
LostShape  == [lost |-> FourLeaves]
LostCalls  == [lost |-> LostLink]
LostClears == [lost |-> 0]
==============================================================================
