---------------------------- MODULE MCSetCompare ----------------------------
(***************************************************************************)
(* Workloads for TLC: two sets of at most four values in one to three      *)
(* leaves of at most three records.                                        *)
(***************************************************************************)
EXTENDS SetCompare

CONSTANTS SetA, SetB, ThreadA, ThreadB, ThreadC, ThreadD

TwoSets     == {SetA, SetB}
FourThreads == {ThreadA, ThreadB, ThreadC, ThreadD}

Do(op, s, o, v) == [op |-> op, self |-> s, other |-> o, val |-> v]
Ins(s, v) == Do("insert", s, s, v)
Rem(s, v) == Do("remove", s, s, v)
Ask(op, s, o) == Do(op, s, o, 1)

Workload(a, b, c, d) == [t \in Thread |-> CASE t = ThreadA -> a
                                            [] t = ThreadB -> b
                                            [] t = ThreadC -> c
                                            [] t = ThreadD -> d]

Both(a, b) == [s \in Set |-> IF s = SetA THEN a ELSE b]

\* A new leaf starts at each of the cuts.
Cut(cuts) == [v \in Value |-> 1 + Cardinality({c \in cuts : c <= v})]

\* Every comparison of A with B while two threads change both.  In A, 1 is in a
\* minimal leaf beside one that lends; in B a minimal leaf is the last one.
Changes(s, vs) == [op : {"insert", "remove"}, self : {s}, other : {s}, val : vs]
Compare == Workload(<<[op : Comparison, self : {SetA}, other : {SetB}, val : {1}]>>,
                    <<Changes(SetA, {1, 2}), Changes(SetA, {1, 3})>>,
                    <<Changes(SetB, {2, 4})>>,
                    <<>>)

\* Two threads compare in the same direction.
OneWay == Workload(<<{Ask("is_subset", SetA, SetB)}>>, <<{Ask("eq", SetA, SetB)}>>,
                   <<{Ins(SetA, 3), Rem(SetA, 2)}>>,
                   <<{Rem(SetB, 1)}>>)

\* A full leaf ahead of the walk is split, by either of two writers; or a set is
\* compared with itself.
Fuller == Workload(<<{Ask("is_subset", SetA, SetB)} \cup
                     {Ask(op, SetA, SetA) : op \in Comparison}>>,
                   <<{Ins(SetA, 5)}>>,
                   <<{Ins(SetA, 5), Rem(SetA, 1)}>>,
                   <<>>)

\* A root leaf is split, and minimal leaves are merged until one is left.
Resize == Workload(<<{Ask("is_disjoint", SetA, SetB)}>>,
                   <<{Rem(SetA, 1)}, {Rem(SetA, 3)}>>,
                   <<{Ins(SetB, 1)}, {Rem(SetA, 2)}>>,
                   <<>>)

\* Two threads ask whether the same two sets are disjoint.
BothWays == Workload(<<{Ask("is_disjoint", SetA, SetB)}>>,
                     <<{Ask("is_disjoint", SetA, SetB)}>>,
                     <<{Ins(SetA, 3), Rem(SetA, 2)}, {Ins(SetA, 1)}>>,
                     <<{Ins(SetB, 3), Rem(SetB, 2)}, {Ins(SetB, 1)}>>)

\* One remove borrows the record that the walk is about to meet.
Borrowed == Workload(<<{Ask("is_disjoint", SetA, SetB)}>>, <<{Rem(SetA, 1)}>>, <<>>, <<>>)

Scenes  == {"compare", "oneway", "fuller", "resize", "skip"}
AtFirst == [compare |-> Both({1, 2, 3}, {1, 2, 4}),
            oneway  |-> Both({1, 2}, {1, 2}),
            fuller  |-> Both({1, 2, 3, 4}, {1, 3, 4, 5}),
            resize  |-> Both({1, 2, 3}, {4, 5, 6}),
            skip    |-> Both({1, 2, 3}, {2, 4, 5})]
Leaves  == [compare |-> Both(Cut({2}), Cut({3})),
            oneway  |-> Both(Cut({2}), Cut({2})),
            fuller  |-> Both(Cut({2}), Cut({4})),
            resize  |-> Both(Cut({2, 3}), Cut({})),
            skip    |-> Both(Cut({2}), Cut({}))]
Calls   == [compare |-> Compare, oneway |-> OneWay, fuller |-> Fuller,
            resize  |-> Resize, skip |-> Borrowed]

CrossScene  == {"cross"}
CrossFirst  == [cross |-> Both({1, 2}, {1, 2})]
CrossLeaves == [cross |-> Both(Cut({2}), Cut({2}))]
CrossCalls  == [cross |-> BothWays]
=============================================================================
