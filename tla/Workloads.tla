------------------------------ MODULE Workloads ------------------------------
(***************************************************************************)
(* Words for the scenes that TLC plays: calls, and the shapes that a       *)
(* sequence of calls gives the tree before the scene begins.  Each scene   *)
(* fills the map with a fixed sequence of calls, and then lets the threads *)
(* choose calls from small sets in every interleaving.                     *)
(***************************************************************************)
EXTENDS BLinkTree

CONSTANTS ThreadA, ThreadB, Old, New

TwoThreads == {ThreadA, ThreadB}

Do(op, k, v) == [op |-> op, key |-> k, val |-> v]
Ins(k) == Do("insert", k, Old)
Put(k) == Do("insert", k, New)
Rem(k) == Do("remove", k, Old)
Get(k) == Do("get",    k, Old)
Upd(k) == Do("update", k, New)

Fill(seq)  == [i \in DOMAIN seq |-> Ins(seq[i])]
Strip(seq) == [i \in DOMAIN seq |-> Rem(seq[i])]

Both(seq) == [t \in Thread |-> seq]
AB(a, b)  == [t \in Thread |-> CASE t = ThreadA -> a
                                 [] t = ThreadB -> b
                                 [] OTHER       -> <<>>]

\* n calls of any kind that changes the tree's shape.
AnyChange == [op : {"insert", "remove"}, key : Key, val : {Old}]
Serial(n) == AB([i \in 1..n |-> AnyChange], <<>>)

-----------------------------------------------------------------------------
(***************************************************************************)
(* Shapes for N = 3.                                                       *)
(***************************************************************************)
\* The empty map.
Empty == <<>>

\* A full leaf root [1,2,3].
FullRootLeaf == Fill(<<1, 2, 3>>)

\* Leaves [1][2] under an internal root.
TwoLeaves == Fill(<<1, 2, 3, 4>>) \o Strip(<<3, 4>>)

\* Leaves [1][2,3] under an internal root.
LendingPair == Fill(<<1, 2, 3, 4>>) \o Strip(<<4>>)

\* Leaves [1][2,3,4] under an internal root.
Uneven == Fill(<<1, 2, 3, 4>>)

\* Leaves [1][2][3][4] under one internal root.
FourLeaves == Fill(<<1, 2, 3, 4, 5, 6>>) \o Strip(<<5, 6>>)

\* Leaves [1][2] and [3][4][5] under two internal pages and a root.
ThreeLevels == Fill(<<1, 2, 3, 4, 5, 6, 7>>) \o Strip(<<6, 7>>)

\* Leaves [1,2,3][6][7]: a full leaf with two keys to spare before its fence,
\* and to its right two leaves that merge when one of them shrinks.
FullLeaf == Fill(<<1, 6, 7, 8, 9>>) \o Strip(<<8, 9>>) \o Fill(<<2, 3>>)

\* Leaves [1,2,3][5][6][7] under a full internal root.
FullRoot == Fill(<<1, 5, 6, 7, 8, 9>>) \o Strip(<<8, 9>>) \o Fill(<<2, 3>>)
==============================================================================
