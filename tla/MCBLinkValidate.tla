--------------------------- MODULE MCBLinkValidate ---------------------------
(***************************************************************************)
(* Scenes for an even capacity, N = 4: trees at rest after any two calls,  *)
(* a tree that is damaged, and writers whose comparisons panic.            *)
(***************************************************************************)
EXTENDS BLinkValidate, Workloads

\* Leaves [1,2][3,4,5][6,7] and [8,9][10,11][12,13,14] under two internal pages.
SixLeaves == Fill(<<1, 2, 3, 5, 6, 7, 8, 9, 10, 11, 12, 13, 14, 4>>)

\* Leaves [3,4,5][6,7] and [8,9][10,11][12,13,14]: the left internal page is at
\* its minimum.
FiveLeaves == SixLeaves \o Strip(<<1, 2>>)

\* Leaves [1,2][3,5,6,9]: the right leaf is full.
FullRight == Fill(<<1, 2, 3, 5, 6, 9>>)

\* Two writers split the full leaf, and the page that was split off.
Inserts == AB(<<{Ins(4), Ins(8)}, {Ins(8), Get(6)}>>,
              <<{Ins(2), Ins(7)}, {Ins(7), Ins(10)}, {Ins(4), Get(5)}>>)

\* A borrow from either side, a merge or a plain removal before the damage, or
\* nothing.
OneChange == AB(<<{Rem(1), Rem(6), Rem(9), Rem(12)}>>, <<>>)

Scenes  == {"calls", "damage", "panic"}
Shapes  == [calls |-> FiveLeaves, damage |-> SixLeaves, panic |-> FullRight]
Calls   == [calls |-> Serial(2), damage |-> OneChange, panic |-> Inserts]
Panics  == {"panic"}
Damages == {"damage"}
==============================================================================
