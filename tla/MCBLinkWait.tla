----------------------------- MODULE MCBLinkWait -----------------------------
(***************************************************************************)
(* Scenes about waiting: users who keep guards, and call the map again     *)
(* under one, while other threads split, merge and collapse.               *)
(***************************************************************************)
EXTENDS BLinkWait, Workloads

CONSTANTS ThreadC, ThreadD

FourThreads == {ThreadA, ThreadB, ThreadC, ThreadD}

ABCD(a, b, c, d) == [t \in Thread |-> CASE t = ThreadA -> a
                                         [] t = ThreadB -> b
                                         [] t = ThreadC -> c
                                         [] t = ThreadD -> d]

\* ThreadC's calls are made under ThreadA's guard, ThreadD's under ThreadB's.
UnderGuards == ABCD(ThreadA, ThreadB, ThreadA, ThreadB)
OnTheirOwn  == [t \in Thread |-> t]

\* Two users keep a guard while they call a leaf further right; between its
\* guards each changes the tree around the other's.
Ascending == ABCD(<<{Get(1), Upd(3)}, {Rem(3), Ins(5)}>>,
                  <<{Rem(2), Rem(3), Rem(4)}, {Upd(1), Get(2)}>>,
                  <<{Get(2), Upd(3), Get(4), Ins(5)}>>,
                  <<{Upd(2), Get(3), Upd(4)}>>)

\* Three threads empty the tree down to one leaf, on which a guard is held.
Collapse == ABCD(<<{Rem(1), Rem(3)}>>,
                 <<{Rem(2), Rem(4)}>>,
                 <<{Get(2), Upd(4), Rem(3)}>>,
                 <<>>)

\* Readers and updaters keep guards while the other thread restructures.
Guards == AB(<<{Get(1), Get(2), Upd(1), Upd(2), Upd(3)}, {Get(3), Upd(2)}>>,
             <<{Rem(1), Rem(2), Ins(4)}, {Rem(2), Ins(4)}, {Ins(5), Rem(3)}>>)

Scenes  == {"reentry", "collapse", "guards"}
Shapes  == [s \in Scenes |-> FourLeaves]
Calls   == [reentry |-> Ascending, collapse |-> Collapse, guards |-> Guards]
Keepers == [s \in Scenes |-> IF s = "reentry" THEN UnderGuards ELSE OnTheirOwn]
==============================================================================
