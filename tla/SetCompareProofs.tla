-------------------------- MODULE SetCompareProofs --------------------------
(***************************************************************************)
(* Proofs about SetCompare: types, the answers of comparisons that race    *)
(* with insert and remove, and the condition under which comparisons of    *)
(* any number of sets never block each other for ever.                     *)
(***************************************************************************)
EXTENDS SetCompare, FiniteSetTheorems, WellFoundedInduction, TLAPS

-----------------------------------------------------------------------------
(***************************************************************************)
(* The least and the greatest of bounded numbers.                          *)
(***************************************************************************)
\* The next item of a walk: Min of the values ahead is one of them.
LEMMA MinIsLeast ==
  ASSUME NEW S, S \subseteq Nat, S # {}
  PROVE  Min(S) \in S /\ \A y \in S : Min(S) <= y
<1>1. PICK x \in S : \A y \in S : ~(<<y, x>> \in OpToRel(<, Nat))
  BY NatLessThanWellFounded, WFMin, Zenon
<1>2. \A y \in S : ~(y < x)
  BY <1>1 DEF OpToRel
<1>3. \A y \in S : x <= y
  BY <1>2
<1>4. QED
  BY <1>3 DEF Min

\* Among things ranked by numbers up to n one has the highest rank.
LEMMA HighestExists ==
  ASSUME NEW n \in Nat, NEW T, T # {}, NEW rank, \A t \in T : rank[t] \in 0..n
  PROVE  \E t \in T : \A u \in T : rank[u] <= rank[t]
<1> DEFINE D == {n - rank[t] : t \in T}
<1>1. D \subseteq Nat /\ D # {}
  OBVIOUS
<1>2. PICK m \in D : \A d \in D : m <= d
  <2> HIDE DEF D
  <2> QED
    BY <1>1, MinIsLeast
<1>3. PICK t \in T : m = n - rank[t]
  OBVIOUS
<1>4. ASSUME NEW u \in T
      PROVE  rank[u] <= rank[t]
  <2>1. n - rank[u] \in D
    OBVIOUS
  <2>2. n - rank[t] <= n - rank[u]
    BY <1>2, <1>3, <2>1
  <2>3. rank[u] \in Int /\ rank[t] \in Int
    OBVIOUS
  <2>4. QED
    BY <2>2, <2>3
<1>5. QED
  BY <1>4

-----------------------------------------------------------------------------
(***************************************************************************)
(* Types.                                                                  *)
(***************************************************************************)
ThreadTypes ==
  /\ pc     \in [Thread -> Label]
  /\ call   \in [Thread -> Call]
  /\ size   \in [Thread -> Int]
  /\ over   \in [Thread -> Set]
  /\ item   \in [Thread -> 0..MaxValue]
  /\ leaf   \in [Thread -> Leaf]
  /\ answer \in [Thread -> BOOLEAN]
  /\ made   \in [Thread -> Nat]

LatchTypes ==
  latch \in [Thread -> {NoLatch} \cup
                       [set : Set, leaf : Leaf, mode : {"read", "write"}]]

SetTypes == elems \in [Set -> SUBSET Value] /\ len \in [Set -> Int] /\ scene \in Scene

ShapeTypes ==
  /\ home    \in [Set -> [Value -> Leaf]]
  /\ leads   \in [Set -> [Leaf -> Leaf]]
  /\ slipped \in [Thread -> SUBSET Value]

HistTypes == hist \in [Thread -> HistRec]

LEMMA TypeParts ==
  TypeOK <=> ThreadTypes /\ LatchTypes /\ SetTypes /\ ShapeTypes /\ HistTypes
BY DEF TypeOK, ThreadTypes, LatchTypes, SetTypes, ShapeTypes, HistTypes

LEMMA CallFields ==
  ASSUME NEW c \in Call
  PROVE  /\ c.op \in Comparison \cup {"insert", "remove"}
         /\ c.self \in Set /\ c.other \in Set /\ c.val \in Value
BY DEF Call

LEMMA SnapshotTyped ==
  ASSUME NEW e \in [Set -> SUBSET Value], NEW s \in Set, NEW o \in Set
  PROVE  Snapshot(s, o, e) \in HistRec
BY DEF Snapshot, HistRec

\* Initially, too, every thread has a call: which one does not matter.
LEMMA InitTyped == Init => TypeOK
<1> SUFFICES ASSUME Init PROVE TypeOK
  OBVIOUS
<1> USE SetAssumption
<1>1. PICK s \in Set : TRUE
  OBVIOUS
<1>2. [op |-> "insert", self |-> s, other |-> s, val |-> 1] \in Call
  BY DEF Call, Comparison, Value
<1>3. (CHOOSE c \in Call : TRUE) \in Call
  BY <1>2
<1>4. call \in [Thread -> Call]
  BY <1>3 DEF Init
<1>5. elems \in [Set -> SUBSET Value] /\ scene \in Scene
  BY DEF Init
<1>6. \A x \in Set : Cardinality(elems[x]) \in Int
  <2>1. IsFiniteSet(Value)
    BY FS_Interval, 1 \in Int, MaxValue \in Int DEF Value
  <2>2. \A x \in Set : IsFiniteSet(elems[x])
    BY <2>1, <1>5, FS_Subset
  <2>3. QED
    BY <2>2, FS_CardinalityType
<1>7. len \in [Set -> Int]
  BY <1>6 DEF Init
<1>8. \A t \in Thread : call[t].self \in Set /\ call[t].other \in Set
  BY <1>4, CallFields
<1>9. hist \in [Thread -> HistRec]
  BY <1>8, <1>5, SnapshotTyped DEF Init
<1>10. over \in [Thread -> Set]
  BY <1>8 DEF Init
<1>11. home \in [Set -> [Value -> Leaf]] /\ leads \in [Set -> [Leaf -> Leaf]]
  BY <1>5 DEF Init
<1>12. 1 \in Leaf
  BY DEF Leaf
<1>13. pc \in [Thread -> Label]
  BY DEF Init, Label
<1>14. QED
  BY <1>4, <1>5, <1>7, <1>9, <1>10, <1>11, <1>12, <1>13 DEF Init, TypeOK

\* The calls a workload offers are calls.
LEMMA ScriptedCalls ==
  ASSUME SetTypes, ThreadTypes, NEW t \in Thread, made[t] < Len(Script[scene][t]),
         NEW c \in Script[scene][t][made[t] + 1]
  PROVE  c \in Call
<1>1. Script[scene][t] \in Seq(SUBSET Call)
  BY SetAssumption DEF SetTypes
<1>2. made[t] + 1 \in 1..Len(Script[scene][t])
  <2>1. made[t] \in Nat /\ Len(Script[scene][t]) \in Nat
    BY <1>1 DEF ThreadTypes
  <2>2. QED
    BY <2>1
<1>3. Script[scene][t][made[t] + 1] \in SUBSET Call
  BY <1>1, <1>2
<1>4. QED
  BY <1>3

LEMMA StartTyped ==
  ASSUME TypeOK, NEW t \in Thread, Start(t)
  PROVE  ThreadTypes' /\ LatchTypes' /\ SetTypes' /\ ShapeTypes'
<1> USE SetAssumption, TypeParts
<1>1. PICK c \in Script[scene][t][made[t] + 1] :
        /\ call' = [call EXCEPT ![t] = c]
        /\ GoTo(t, CASE c.op \in {"insert", "remove"} -> "write"
                     [] c.op = "eq" -> "eq1"
                     [] OTHER -> "len1")
        /\ over' = [over EXCEPT ![t] = c.self]
  BY DEF Start
<1>2. c \in Call
  BY ScriptedCalls DEF Start
<1>3. c.self \in Set
  BY <1>2, CallFields
<1>4. ThreadTypes'
  BY <1>1, <1>2, <1>3 DEF Start, ThreadTypes, GoTo, Leaf, Label
<1>5. ShapeTypes'
  BY DEF Start, ShapeTypes
<1>6. QED
  BY <1>4, <1>5 DEF Start, LatchTypes, SetTypes

\* Where a thread's requests go.
LEMMA Whereabouts ==
  ASSUME TypeOK, NEW t \in Thread
  PROVE  /\ Self(t) \in Set /\ Other(t) \in Set /\ over[t] \in Set /\ Against(t) \in Set
         /\ call[t].val \in Value /\ Target(t) \in Leaf
         /\ From(t) \in Value /\ At(t) \in Leaf /\ leaf[t] \in Leaf
<1> USE TypeParts
<1>1. /\ Self(t) \in Set /\ Other(t) \in Set /\ over[t] \in Set
      /\ call[t].val \in Value /\ leaf[t] \in Leaf /\ item[t] \in 0..MaxValue
  BY CallFields DEF Self, Other, ThreadTypes
<1>2. Against(t) \in Set /\ Target(t) \in Leaf
  BY <1>1 DEF Against, Target, ShapeTypes
<1>3. From(t) \in Value
  BY <1>1, SetAssumption DEF From, Value
<1>4. At(t) \in Leaf
  BY <1>1, <1>3 DEF At, ShapeTypes
<1>5. QED
  BY <1>1, <1>2, <1>3, <1>4

\* What the next item is.
LEMMA NextItem ==
  ASSUME TypeOK, NEW t \in Thread, Ahead(t) # {}
  PROVE  /\ Min(Ahead(t)) \in Ahead(t)
         /\ Min(Ahead(t)) \in Value
         /\ \A v \in Ahead(t) : Min(Ahead(t)) <= v
<1>1. elems[over[t]] \subseteq Value
  BY TypeParts DEF ThreadTypes, SetTypes
<1>2. Ahead(t) \subseteq Value
  BY <1>1 DEF Ahead, Records
<1>3. Ahead(t) \subseteq Nat
  BY <1>2 DEF Value
<1>4. QED
  BY <1>2, <1>3, MinIsLeast

\* The walk keeps the types.
LEMMA WalkTyped ==
  ASSUME TypeOK, NEW t \in Thread, Yield(t) \/ Pass(t) \/ Probe(t)
  PROVE  ThreadTypes' /\ LatchTypes' /\ SetTypes' /\ ShapeTypes'
<1> USE TypeParts
<1>1. SetTypes' /\ ShapeTypes'
  BY DEF Yield, Pass, Probe, sets, shape, request, SetTypes, ShapeTypes
<1>2. over[t] \in Set /\ At(t) \in Leaf
  BY Whereabouts
<1>3. CASE Yield(t)
  <2>1. Min(Ahead(t)) \in 0..MaxValue
    BY <1>3, NextItem DEF Yield, Value
  <2>2. ThreadTypes'
    BY <1>2, <1>3, <2>1 DEF Yield, GoTo, ThreadTypes, Label, request
  <2>3. LatchTypes'
    BY <1>2, <1>3 DEF Yield, Hold, LatchTypes
  <2>4. QED
    BY <1>1, <2>2, <2>3
<1>4. CASE Pass(t)
  <2>1. \/ \E r \in Leaf : leaf' = [leaf EXCEPT ![t] = r] /\ GoTo(t, "hop") /\ UNCHANGED answer
        \/ Reply(t, TRUE) /\ UNCHANGED leaf
    BY <1>4 DEF Pass
  <2>2. /\ \E label \in Label : pc' = [pc EXCEPT ![t] = label]
        /\ UNCHANGED leaf \/ \E r \in Leaf : leaf' = [leaf EXCEPT ![t] = r]
        /\ UNCHANGED answer \/ answer' = [answer EXCEPT ![t] = TRUE]
    BY <2>1 DEF Reply, GoTo, Label
  <2>3. UNCHANGED <<call, made, size, over, item>>
    BY <1>4 DEF Pass, request
  <2>4. ThreadTypes'
    <3>1. pc' \in [Thread -> Label]
      BY <2>2 DEF ThreadTypes
    <3>2. leaf' \in [Thread -> Leaf]
      BY <2>2 DEF ThreadTypes
    <3>3. answer' \in [Thread -> BOOLEAN]
      BY <2>2 DEF ThreadTypes
    <3>4. QED
      BY <2>3, <3>1, <3>2, <3>3 DEF ThreadTypes
  <2>5. QED
    BY <1>1, <1>4, <2>4 DEF Pass, LatchTypes
<1>5. CASE Probe(t)
  <2>1. ThreadTypes'
    BY <1>5 DEF Probe, Reply, GoTo, ThreadTypes, Label, request, cursor
  <2>2. QED
    BY <1>1, <1>5, <2>1 DEF Probe, Release, LatchTypes
<1>6. QED
  BY <1>3, <1>4, <1>5

\* A value enters or leaves one set.
LEMMA UpdateTyped ==
  ASSUME TypeOK, NEW t \in Thread, NEW label \in Label, Update(t, label)
  PROVE  /\ elems' \in [Set -> SUBSET Value] /\ LatchTypes'
         /\ pc' = [pc EXCEPT ![t] = label]
<1>1. Self(t) \in Set /\ Target(t) \in Leaf /\ call[t].val \in Value
  BY Whereabouts
<1>2. LatchTypes'
  BY <1>1, TypeParts DEF Update, Hold, LatchTypes
<1>3. elems \in [Set -> SUBSET Value]
  BY TypeParts DEF SetTypes
<1>4. /\ elems[Self(t)] \cup {call[t].val} \in SUBSET Value
      /\ elems[Self(t)] \ {call[t].val} \in SUBSET Value
  BY <1>1, <1>3
<1>5. elems' \in [Set -> SUBSET Value]
  BY <1>1, <1>3, <1>4 DEF Update
<1>6. QED
  BY <1>2, <1>5 DEF Update, GoTo

\* The updates keep the types.
LEMMA WriteTyped ==
  ASSUME TypeOK, NEW t \in Thread, Write(t) \/ Enter(t) \/ Count(t) \/ Shrink(t) \/ Descend(t)
  PROVE  ThreadTypes' /\ LatchTypes' /\ SetTypes' /\ ShapeTypes'
<1> USE TypeParts
<1>1. ShapeTypes'
  BY DEF Write, Enter, Count, Shrink, Descend, sets, shape, ShapeTypes
<1>2. CASE Write(t) \/ Enter(t)
  <2>1. \/ /\ \E label \in Label : GoTo(t, label)
           /\ \E b \in BOOLEAN : answer' = [answer EXCEPT ![t] = b]
           /\ UNCHANGED <<elems, latch>>
        \/ /\ \E label \in Label : GoTo(t, label)
           /\ UNCHANGED <<elems, latch, answer>>
        \/ \E label \in Label : Update(t, label) /\ UNCHANGED answer
    <3>1. CASE Write(t)
      <4>1. \/ Reply(t, FALSE) /\ UNCHANGED <<elems, latch>>
            \/ Update(t, "count") /\ UNCHANGED answer
            \/ GoTo(t, "descend") /\ UNCHANGED <<elems, latch, answer>>
        BY <3>1, Zenon DEF Write
      <4>2. QED
        BY <4>1 DEF Reply, Label
    <3>2. CASE Enter(t)
      <4>1. \/ GoTo(t, "descend") /\ UNCHANGED <<elems, latch, answer>>
            \/ /\ GoTo(t, IF Inserts(t) THEN "done" ELSE "shrink")
               /\ answer' = [answer EXCEPT ![t] = FALSE]
               /\ UNCHANGED <<elems, latch>>
            \/ Update(t, IF Inserts(t) THEN "count" ELSE "tally") /\ UNCHANGED answer
        BY <3>2, Zenon DEF Enter
      <4>2. /\ (IF Inserts(t) THEN "done" ELSE "shrink") \in Label
            /\ (IF Inserts(t) THEN "count" ELSE "tally") \in Label
            /\ "descend" \in Label
        BY DEF Label
      <4>3. QED
        BY <4>1, <4>2
    <3>3. QED
      BY <1>2, <3>1, <3>2
  <2>2. UNCHANGED <<len, request, cursor>>
    BY <1>2 DEF Write, Enter
  <2>3. ThreadTypes'
    <3>1. /\ \E label \in Label : pc' = [pc EXCEPT ![t] = label]
          /\ \/ UNCHANGED answer
             \/ \E b \in BOOLEAN : answer' = [answer EXCEPT ![t] = b]
      BY <2>1 DEF GoTo, Update
    <3>2. QED
      BY <2>2, <3>1 DEF ThreadTypes, request, cursor
  <2>4. LatchTypes' /\ elems' \in [Set -> SUBSET Value]
    <3>1. CASE UNCHANGED <<elems, latch>>
      BY <3>1 DEF LatchTypes, SetTypes
    <3>2. QED
      BY <2>1, <3>1, UpdateTyped
  <2>5. QED
    BY <1>1, <2>2, <2>3, <2>4 DEF SetTypes, request
<1>3. CASE Count(t)
  <2>1. ThreadTypes' /\ LatchTypes'
    BY <1>3 DEF Count, GoTo, Release, ThreadTypes, LatchTypes, Label, request, cursor
  <2>2. len' \in [Set -> Int]
    <3>1. \A s \in Set : len[s] \in Int
      BY DEF SetTypes
    <3>2. QED
      BY <1>3, <3>1, Whereabouts DEF Count, SetTypes
  <2>3. QED
    BY <1>1, <1>3, <2>1, <2>2 DEF Count, SetTypes, request
<1>4. CASE Shrink(t) \/ Descend(t)
  BY <1>1, <1>4 DEF Shrink, Descend, GoTo, ThreadTypes, LatchTypes, SetTypes, Label,
       request, cursor, sets
<1>5. QED
  BY <1>2, <1>3, <1>4

-----------------------------------------------------------------------------
(***************************************************************************)
(* The four ways in which borders move.                                    *)
(***************************************************************************)
\* Only set s changes its leaves.
Elsewhere(s) ==
  \A r \in Set : r # s => home'[r] = home[r] /\ leads'[r] = leads[r]

\* x keeps what lies below k; y, new or its right neighbour, gets the rest.
Raises(s, x, y, k) ==
  /\ Elsewhere(s) /\ leads'[s] = leads[s] /\ slipped' = slipped
  /\ x # y /\ Owns(s, x, k) /\ \E v \in Value : v < k /\ Owns(s, x, v)
  /\ WriteFree(s, x)
  /\ Unused(s, y) \/ (Adjacent(s, x, y) /\ WriteFree(s, y))
  /\ \A v \in Value : home'[s][v] = IF Owns(s, x, v) /\ v >= k THEN y ELSE home[s][v]

\* x gets what y owns below k2: one record, which passes whoever hops to y.
Lowers(s, x, y, k2) ==
  /\ Elsewhere(s) /\ leads'[s] = leads[s]
  /\ Adjacent(s, x, y) /\ Owns(s, y, k2)
  /\ WriteFree(s, x) /\ WriteFree(s, y)
  /\ \A v \in Value : home'[s][v] = IF Owns(s, y, v) /\ v < k2 THEN x ELSE home[s][v]
  /\ \A u \in Thread : slipped[u] \subseteq slipped'[u]
  /\ \A u \in Thread, v \in Value :
       /\ pc[u] = "hop" /\ over[u] = s /\ leads[s][leaf[u]] = y
       /\ v \in Records(s, y) /\ v < k2
       => v \in slipped'[u]

\* y gets what x owns, and x leads to y.
Merges(s, x, y) ==
  /\ Elsewhere(s) /\ slipped' = slipped
  /\ Adjacent(s, x, y) /\ WriteFree(s, x) /\ WriteFree(s, y)
  /\ \A v \in Value : home'[s][v] = IF Owns(s, x, v) THEN y ELSE home[s][v]
  /\ \A l \in Leaf : leads'[s][l] = IF leads[s][l] = x THEN y ELSE leads[s][l]

Moves(s) == \E x, y \in Leaf : \/ \E k \in Value : Raises(s, x, y, k) \/ Lowers(s, x, y, k)
                               \/ Merges(s, x, y)

\* A structural change leaves the rest of its set and every other set as it is.
LEMMA Rehomed ==
  ASSUME ShapeTypes, NEW s \in Set, NEW f \in [Value -> Leaf], home' = [home EXCEPT ![s] = f]
  PROVE  /\ home' \in [Set -> [Value -> Leaf]]
         /\ home'[s] = f
         /\ \A r \in Set : r # s => home'[r] = home[r]
BY DEF ShapeTypes

\* The lower half of a full leaf is not empty, nor is what a lender keeps.
LEMMA LowerHalf ==
  ASSUME TypeOK, NEW s \in Set, NEW x \in Leaf, NEW k \in Records(s, x),
         \/ Cardinality({v \in Records(s, x) : v < k}) = N \div 2
         \/ Fill(s, x) > N \div 2 /\ \A v \in Records(s, x) : v <= k
  PROVE  /\ k \in Value /\ Owns(s, x, k)
         /\ \E v \in Value : v < k /\ Owns(s, x, v)
<1>1. elems[s] \subseteq Value
  BY TypeParts DEF SetTypes
<1>2. Records(s, x) \subseteq Value /\ \A v \in Records(s, x) : Owns(s, x, v)
  BY <1>1 DEF Records
<1>3. N \div 2 >= 1 /\ N \div 2 \in Nat
  BY SetAssumption
<1>4. \E v \in Records(s, x) : v < k
  <2> SUFFICES ASSUME \A v \in Records(s, x) : ~(v < k)
               PROVE  FALSE
    OBVIOUS
  <2>1. CASE Cardinality({v \in Records(s, x) : v < k}) = N \div 2
    <3>1. {v \in Records(s, x) : v < k} = {}
      OBVIOUS
    <3>2. Cardinality({v \in Records(s, x) : v < k}) = 0
      BY <3>1, FS_EmptySet
    <3>3. QED
      BY <1>3, <2>1, <3>2
  <2>2. CASE Fill(s, x) > N \div 2 /\ \A v \in Records(s, x) : v <= k
    <3>1. \A v \in Records(s, x) : v = k
      BY <1>2, <2>2 DEF Value
    <3>2. Records(s, x) = {k}
      BY <3>1
    <3>3. Fill(s, x) = 1
      BY <3>2, FS_Singleton DEF Fill
    <3>4. QED
      BY <1>3, <2>2, <3>3
  <2>3. QED
    BY <2>1, <2>2
<1>5. QED
  BY <1>2, <1>4

LEMMA SplitMoves ==
  ASSUME TypeOK, NEW t \in Thread, Split(t)
  PROVE  /\ \E y \in Leaf, k \in Value : /\ Raises(Self(t), Target(t), y, k)
                                         /\ leaf' = [leaf EXCEPT ![t] = y]
         /\ ShapeTypes'
<1> DEFINE s == Self(t)
           x == Target(t)
<1>1. s \in Set /\ x \in Leaf /\ ShapeTypes
  BY Whereabouts, TypeParts
<1>2. PICK y \in Leaf, k \in Records(s, x) :
        /\ Unused(s, y)
        /\ Cardinality({v \in Records(s, x) : v < k}) = N \div 2
        /\ home' = [home EXCEPT ![s] =
             [v \in Value |-> IF Owns(s, x, v) /\ v >= k THEN y ELSE home[s][v]]]
        /\ leaf' = [leaf EXCEPT ![t] = y]
  BY DEF Split
<1>3. WriteFree(s, x) /\ leads' = leads /\ slipped' = slipped
  BY DEF Split
<1> HIDE DEF s, x
<1>4. k \in Value /\ Owns(s, x, k) /\ \E v \in Value : v < k /\ Owns(s, x, v)
  BY <1>1, <1>2, LowerHalf
<1>5. [v \in Value |-> IF Owns(s, x, v) /\ v >= k THEN y ELSE home[s][v]] \in [Value -> Leaf]
  BY <1>1 DEF ShapeTypes
<1>6. /\ home' \in [Set -> [Value -> Leaf]]
      /\ home'[s] = [v \in Value |-> IF Owns(s, x, v) /\ v >= k THEN y ELSE home[s][v]]
      /\ \A r \in Set : r # s => home'[r] = home[r]
  BY <1>1, <1>2, <1>5, Rehomed
<1>7. x # y
  BY <1>2, <1>4 DEF Unused
<1>8. Raises(s, x, y, k)
  BY <1>2, <1>3, <1>4, <1>6, <1>7 DEF Raises, Elsewhere
<1>9. ShapeTypes'
  BY <1>1, <1>3, <1>6 DEF ShapeTypes
<1>10. QED
  BY <1>2, <1>4, <1>8, <1>9 DEF s, x

LEMMA LeftLends ==
  ASSUME TypeOK, NEW t \in Thread, BorrowFromLeft(t)
  PROVE  Moves(Self(t)) /\ ShapeTypes'
<1> DEFINE s == Self(t)
           y == Target(t)
<1>1. s \in Set /\ y \in Leaf /\ ShapeTypes
  BY Whereabouts, TypeParts
<1>0. PICK x \in Leaf :
        /\ Refills(t, x, y)
        /\ Fill(s, x) > N \div 2
        /\ \E k \in Records(s, x) :
             /\ \A v \in Records(s, x) : v <= k
             /\ home' = [home EXCEPT ![s] =
                  [v \in Value |-> IF Owns(s, x, v) /\ v >= k THEN y ELSE home[s][v]]]
  BY DEF BorrowFromLeft
<1>2. PICK k \in Records(s, x) :
        /\ Refills(t, x, y)
        /\ Fill(s, x) > N \div 2
        /\ \A v \in Records(s, x) : v <= k
        /\ home' = [home EXCEPT ![s] =
             [v \in Value |-> IF Owns(s, x, v) /\ v >= k THEN y ELSE home[s][v]]]
  BY <1>0
<1>3. Adjacent(s, x, y) /\ WriteFree(s, x) /\ WriteFree(s, y)
  BY <1>2 DEF Refills
<1>4. leads' = leads /\ slipped' = slipped
  BY DEF BorrowFromLeft
<1> HIDE DEF s, y
<1>5. k \in Value /\ Owns(s, x, k) /\ \E v \in Value : v < k /\ Owns(s, x, v)
  BY <1>1, <1>2, LowerHalf
<1>6. [v \in Value |-> IF Owns(s, x, v) /\ v >= k THEN y ELSE home[s][v]] \in [Value -> Leaf]
  BY <1>1 DEF ShapeTypes
<1>7. /\ home' \in [Set -> [Value -> Leaf]]
      /\ home'[s] = [v \in Value |-> IF Owns(s, x, v) /\ v >= k THEN y ELSE home[s][v]]
      /\ \A r \in Set : r # s => home'[r] = home[r]
  BY <1>1, <1>2, <1>6, Rehomed
<1>8. x # y
  BY <1>3 DEF Adjacent
<1>9. Raises(s, x, y, k)
  BY <1>3, <1>4, <1>5, <1>7, <1>8 DEF Raises, Elsewhere
<1>10. ShapeTypes'
  BY <1>1, <1>4, <1>7 DEF ShapeTypes
<1>11. QED
  BY <1>1, <1>5, <1>9, <1>10 DEF Moves, s

LEMMA RightLends ==
  ASSUME TypeOK, NEW t \in Thread, BorrowFromRight(t)
  PROVE  Moves(Self(t)) /\ ShapeTypes'
<1> DEFINE s == Self(t)
           x == Target(t)
<1>1. s \in Set /\ x \in Leaf /\ ShapeTypes
  BY Whereabouts, TypeParts
<1>0. PICK y \in Leaf :
        /\ Refills(t, x, y)
        /\ \E k, k2 \in Records(s, y) :
             /\ k < k2 /\ \A v \in Records(s, y) : v = k \/ v >= k2
             /\ home' = [home EXCEPT ![s] =
                  [v \in Value |-> IF Owns(s, y, v) /\ v < k2 THEN x ELSE home[s][v]]]
             /\ slipped' = [u \in Thread |->
                  IF pc[u] = "hop" /\ over[u] = s /\ leads[s][leaf[u]] = y
                  THEN slipped[u] \cup {k} ELSE slipped[u]]
  BY DEF BorrowFromRight
<1>2. PICK k \in Records(s, y), k2 \in Records(s, y) :
        /\ k < k2 /\ \A v \in Records(s, y) : v = k \/ v >= k2
        /\ home' = [home EXCEPT ![s] =
             [v \in Value |-> IF Owns(s, y, v) /\ v < k2 THEN x ELSE home[s][v]]]
        /\ slipped' = [u \in Thread |->
             IF pc[u] = "hop" /\ over[u] = s /\ leads[s][leaf[u]] = y
             THEN slipped[u] \cup {k} ELSE slipped[u]]
  BY <1>0
<1>3. Adjacent(s, x, y) /\ WriteFree(s, x) /\ WriteFree(s, y)
  BY <1>0 DEF Refills
<1>4. leads' = leads
  BY DEF BorrowFromRight
<1> HIDE DEF s, x
<1>5. Records(s, y) \subseteq Value /\ Owns(s, y, k2)
  BY <1>1, TypeParts DEF Records, SetTypes
<1>6. [v \in Value |-> IF Owns(s, y, v) /\ v < k2 THEN x ELSE home[s][v]] \in [Value -> Leaf]
  BY <1>1 DEF ShapeTypes
<1>7. /\ home' \in [Set -> [Value -> Leaf]]
      /\ home'[s] = [v \in Value |-> IF Owns(s, y, v) /\ v < k2 THEN x ELSE home[s][v]]
      /\ \A r \in Set : r # s => home'[r] = home[r]
  BY <1>1, <1>2, <1>6, Rehomed
<1>8. /\ \A u \in Thread : slipped[u] \subseteq slipped'[u]
      /\ \A u \in Thread, v \in Value :
           /\ pc[u] = "hop" /\ over[u] = s /\ leads[s][leaf[u]] = y
           /\ v \in Records(s, y) /\ v < k2
           => v \in slipped'[u]
  <2>1. \A v \in Records(s, y) : v < k2 => v = k
    BY <1>2, <1>5 DEF Value
  <2>2. QED
    BY <1>2, <2>1
<1>9. Lowers(s, x, y, k2)
  BY <1>3, <1>4, <1>5, <1>7, <1>8 DEF Lowers, Elsewhere
<1>10. slipped' \in [Thread -> SUBSET Value]
  <2>1. k \in Value
    BY <1>5
  <2>2. QED
    BY <1>1, <1>2, <2>1 DEF ShapeTypes
<1>11. ShapeTypes'
  BY <1>1, <1>4, <1>7, <1>10 DEF ShapeTypes
<1>12. QED
  BY <1>1, <1>5, <1>9, <1>11 DEF Moves, s

LEMMA MergeMoves ==
  ASSUME TypeOK, NEW t \in Thread, Merge(t)
  PROVE  /\ \E x, y, p \in Leaf : /\ Merges(Self(t), x, y)
                                  /\ p = y \/ Adjacent(Self(t), p, x)
                                  /\ leaf' = [leaf EXCEPT ![t] = p]
         /\ ShapeTypes'
<1> DEFINE s == Self(t)
<1>1. s \in Set /\ ShapeTypes
  BY Whereabouts, TypeParts
<1>2. PICK x \in Leaf, y \in Leaf :
        /\ Refills(t, x, y)
        /\ home' = [home EXCEPT ![s] =
             [v \in Value |-> IF Owns(s, x, v) THEN y ELSE home[s][v]]]
        /\ leads' = [leads EXCEPT ![s] =
             [l \in Leaf |-> IF leads[s][l] = x THEN y ELSE leads[s][l]]]
        /\ \E p \in Leaf : /\ p = y \/ Adjacent(s, p, x)
                           /\ leaf' = [leaf EXCEPT ![t] = p]
  BY DEF Merge
<1>3. Adjacent(s, x, y) /\ WriteFree(s, x) /\ WriteFree(s, y)
  BY <1>2 DEF Refills
<1>4. slipped' = slipped
  BY DEF Merge
<1> HIDE DEF s
<1>5. [v \in Value |-> IF Owns(s, x, v) THEN y ELSE home[s][v]] \in [Value -> Leaf]
  BY <1>1 DEF ShapeTypes
<1>6. /\ home' \in [Set -> [Value -> Leaf]]
      /\ home'[s] = [v \in Value |-> IF Owns(s, x, v) THEN y ELSE home[s][v]]
      /\ \A r \in Set : r # s => home'[r] = home[r]
  BY <1>1, <1>2, <1>5, Rehomed
<1>7. /\ leads' \in [Set -> [Leaf -> Leaf]]
      /\ leads'[s] = [l \in Leaf |-> IF leads[s][l] = x THEN y ELSE leads[s][l]]
      /\ \A r \in Set : r # s => leads'[r] = leads[r]
  BY <1>1, <1>2 DEF ShapeTypes
<1>8. Merges(s, x, y)
  BY <1>3, <1>4, <1>6, <1>7 DEF Merges, Elsewhere
<1>9. ShapeTypes'
  BY <1>1, <1>4, <1>6, <1>7 DEF ShapeTypes
<1>10. QED
  BY <1>2, <1>8, <1>9 DEF s

\* What a pass under a parent does.
Restructures(t) == Split(t) \/ BorrowFromLeft(t) \/ BorrowFromRight(t) \/ Merge(t)

LEMMA RestructureMoves ==
  ASSUME TypeOK, NEW t \in Thread, Restructures(t)
  PROVE  Moves(Self(t)) /\ ShapeTypes'
<1>1. Self(t) \in Set /\ Target(t) \in Leaf
  BY Whereabouts
<1>2. CASE Split(t)
  BY <1>1, <1>2, SplitMoves DEF Moves
<1>3. CASE BorrowFromLeft(t) \/ BorrowFromRight(t)
  BY <1>3, LeftLends, RightLends
<1>4. CASE Merge(t)
  BY <1>4, MergeMoves DEF Moves
<1>5. QED
  BY <1>2, <1>3, <1>4 DEF Restructures

\* Who restructures or repairs keeps its request and its set's values.
LEMMA RestructureKeeps ==
  ASSUME TypeOK, NEW t \in Thread, Restructures(t)
  PROVE  /\ elems' = elems /\ len' = len /\ UNCHANGED request
         /\ over' = over /\ item' = item /\ size' = size /\ latch' = latch /\ answer' = answer
         /\ pc[t] = "descend"
         /\ \E label \in {"descend", "repair", "enter"} : pc' = [pc EXCEPT ![t] = label]
         /\ \E l \in Leaf : leaf' = [leaf EXCEPT ![t] = l]
<1>0. leaf = [leaf EXCEPT ![t] = leaf[t]] /\ leaf[t] \in Leaf
  BY TypeParts DEF ThreadTypes
<1>1. CASE Split(t)
  BY <1>1 DEF Split, GoTo
<1>2. CASE BorrowFromLeft(t)
  BY <1>0, <1>2 DEF BorrowFromLeft, GoTo, cursor, Refills
<1>3. CASE BorrowFromRight(t)
  BY <1>0, <1>3 DEF BorrowFromRight, GoTo, cursor, Refills
<1>4. CASE Merge(t)
  BY <1>4 DEF Merge, GoTo, Refills
<1>5. QED
  BY <1>1, <1>2, <1>3, <1>4 DEF Restructures

LEMMA RestructureTyped ==
  ASSUME TypeOK, NEW t \in Thread, Restructures(t)
  PROVE  ThreadTypes' /\ LatchTypes' /\ SetTypes' /\ ShapeTypes'
<1>1. ShapeTypes'
  BY RestructureMoves
<1>2. ThreadTypes'
  BY RestructureKeeps, TypeParts DEF ThreadTypes, Label, request
<1>3. LatchTypes' /\ SetTypes'
  BY RestructureKeeps, TypeParts DEF LatchTypes, SetTypes, request
<1>4. QED
  BY <1>1, <1>2, <1>3

LEMMA RepairTyped ==
  ASSUME TypeOK, NEW t \in Thread, Repair(t)
  PROVE  ThreadTypes' /\ LatchTypes' /\ SetTypes' /\ ShapeTypes'
<1> USE TypeParts
<1>1. /\ \/ GoTo(t, "enter") /\ Release(t) /\ UNCHANGED leaf
         \/ \E r \in Leaf : /\ leaf' = [leaf EXCEPT ![t] = r]
                            /\ Hold(t, over[t], At(t), "write") \/ Release(t)
                            /\ UNCHANGED pc
      /\ UNCHANGED <<sets, request, size, over, item, answer>>
  BY DEF Repair
<1>2. ThreadTypes'
  BY <1>1 DEF GoTo, ThreadTypes, Label, request
<1>3. LatchTypes'
  BY <1>1, Whereabouts DEF Hold, Release, LatchTypes
<1>4. QED
  BY <1>1, <1>2, <1>3 DEF SetTypes, ShapeTypes, sets, shape, request

LEMMA StepTyped ==
  ASSUME TypeOK, NEW t \in Thread, Step(t)
  PROVE  ThreadTypes' /\ LatchTypes' /\ SetTypes' /\ ShapeTypes'
<1> USE TypeParts
<1>1. CASE SameSet(t) \/ EqLens(t) \/ SubsetLens(t) \/ Return(t)
  BY <1>1 DEF SameSet, EqLens, SubsetLens, Return, Reply, GoTo, ThreadTypes, LatchTypes,
              SetTypes, ShapeTypes, Label, sets, shape, request, cursor
<1>2. CASE ReadOwnLen(t)
  <2>1. len[Self(t)] \in Int
    BY Whereabouts DEF SetTypes
  <2>2. QED
    BY <1>2, <2>1 DEF ReadOwnLen, GoTo, ThreadTypes, LatchTypes, SetTypes, ShapeTypes,
                      Label, sets, shape, request
<1>3. CASE SmallerFirst(t)
  BY <1>3, Whereabouts DEF SmallerFirst, GoTo, ThreadTypes, LatchTypes, SetTypes,
                           ShapeTypes, Label, sets, shape, request
<1>4. QED
  BY <1>1, <1>2, <1>3, WalkTyped, WriteTyped, RepairTyped, RestructureTyped
     DEF Step, Restructures

LEMMA HistTyped ==
  ASSUME TypeOK, ThreadTypes', SetTypes', Remember
  PROVE  HistTypes'
<1> SUFFICES ASSUME NEW t \in Thread
             PROVE  hist'[t] \in HistRec
  BY DEF HistTypes, Remember
<1>1. Snapshot(call'[t].self, call'[t].other, elems') \in HistRec
  BY CallFields, SnapshotTyped DEF ThreadTypes, SetTypes
<1>2. hist[t] \in HistRec
  BY TypeParts DEF HistTypes
<1> DEFINE now == Snapshot(call'[t].self, call'[t].other, elems')
           old == hist[t]
<1>3. [common  |-> old.common \cap now.common,
       lacking |-> old.lacking \cap now.lacking,
       met     |-> old.met \/ now.met,
       gap     |-> old.gap \/ now.gap] \in HistRec
  <2> HIDE DEF now, old
  <2>1. old \in HistRec /\ now \in HistRec
    BY <1>1, <1>2 DEF now, old
  <2>2. /\ old.common \in SUBSET Value /\ old.lacking \in SUBSET Value
        /\ now.common \in SUBSET Value /\ now.lacking \in SUBSET Value
        /\ (old.met \/ now.met) \in BOOLEAN /\ (old.gap \/ now.gap) \in BOOLEAN
    BY <2>1 DEF HistRec
  <2>3. QED
    BY <2>2, Zenon DEF HistRec
<1>4. QED
  BY <1>1, <1>2, <1>3 DEF Remember

LEMMA NextTyped == ASSUME TypeOK, [Next]_vars PROVE TypeOK'
<1>1. CASE UNCHANGED vars
  BY <1>1 DEF vars, threads, sets, shape, request, cursor, TypeOK
<1>2. ASSUME NEW t \in Thread, Start(t) \/ Step(t), Remember
      PROVE  TypeOK'
  <2>1. ThreadTypes' /\ LatchTypes' /\ SetTypes' /\ ShapeTypes'
    BY <1>2, StartTyped, StepTyped
  <2>2. HistTypes'
    BY <1>2, <2>1, HistTyped
  <2>3. QED
    BY <2>1, <2>2 DEF TypeOK, ThreadTypes, LatchTypes, SetTypes, ShapeTypes, HistTypes
<1>3. QED
  BY <1>1, <1>2 DEF Next, Finished

\* Every state is well typed, whatever the sets, threads and workloads.
THEOREM TypeCorrect == Spec => []TypeOK
<1>1. Init => TypeOK
  BY InitTyped
<1>2. TypeOK /\ [Next]_vars => TypeOK'
  BY NextTyped
<1>3. QED
  BY <1>1, <1>2, PTL DEF Spec

-----------------------------------------------------------------------------
(***************************************************************************)
(* The leaves, and where a call stands.                                    *)
(***************************************************************************)
\* Every leaf owns an unbroken range, and who owns something leads to itself.
Whole(s)  == Unbroken(home[s])
Active(s) == \A v \in Value : leads[s][home[s][v]] = home[s][v]

Formed == \A s \in Set : Whole(s) /\ Active(s)

\* A thread between two leaves is on its way to one that owns something.
OnItsWay(t) == pc[t] \in {"hop", "repair"} => \E v \in Value : Owns(over[t], At(t), v)

\* A walk between two leaves has left v behind.
Left(t, v) == \A w \in Value : Owns(over[t], At(t), w) => v < w

\* What the walk has looked up: everything before its cursor.
Passed(t, v) == \/ v < item[t]
                \/ v = item[t] /\ pc[t] # "probe"
                \/ pc[t] = "hop" /\ Left(t, v)

\* A comparison starts at the beginning, and a writer stays in its set.
Opened(t) ==
  /\ pc[t] \in {"write", "descend", "repair", "enter", "count", "tally", "shrink"} =>
       call[t].op \in {"insert", "remove"} /\ over[t] = Self(t)
  /\ pc[t] \in {"eq1", "eq2", "len1", "len2"} =>
       call[t].op \in Comparison /\ over[t] = Self(t) /\ item[t] = 0
  /\ pc[t] \in {"eq1", "eq2"} => call[t].op = "eq"

\* is_disjoint walks either set, the others walk self.
Walking(t) == pc[t] \in {"seek", "hop", "probe"} =>
  /\ call[t].op \in Comparison
  /\ over[t] = Self(t) \/ (over[t] = Other(t) /\ call[t].op = "is_disjoint")

\* The item that is looked up is in its set, in the leaf its guard has latched.
Latched(t) == pc[t] = "probe" =>
  /\ item[t] \in elems[over[t]] /\ home[over[t]][item[t]] = leaf[t]
  /\ latch[t] = [set |-> over[t], leaf |-> leaf[t], mode |-> "read"]

\* A repair that holds a leaf asks for one further right.
Rightward(t) == pc[t] = "repair" /\ latch[t] # NoLatch =>
  /\ latch[t].set = over[t] /\ latch[t].leaf \in Leaf
  /\ \E v \in Value : Owns(over[t], latch[t].leaf, v)
  /\ \A v, w \in Value : Owns(over[t], latch[t].leaf, v) /\ Owns(over[t], At(t), w) => v < w

\* Latches outlive a step only under an item, in a repair and between a write
\* and its count.
Bare(t) == pc[t] \notin {"probe", "repair", "count", "tally"} => latch[t] = NoLatch

\* No value the walk has passed would have made it say no all the time, but for
\* those that slipped by.
Clean(t, v) ==
  /\ call[t].op = "is_disjoint" => v \notin hist[t].common \ slipped[t]
  /\ call[t].op # "is_disjoint" => v \notin hist[t].lacking \ slipped[t]

Walked(t) == pc[t] \in {"seek", "hop", "probe"} =>
  \A v \in Value : Passed(t, v) => Clean(t, v)

Answered(t) == pc[t] = "done" =>
  /\ call[t].op = "is_disjoint" /\ Self(t) # Other(t) =>
       /\ ~answer[t] => hist[t].met
       /\ answer[t] => hist[t].common \subseteq slipped[t]
  /\ call[t].op \in {"is_subset", "eq"} =>
       /\ answer[t] => hist[t].lacking \subseteq slipped[t]
       /\ ~answer[t] /\ item[t] # 0 => hist[t].gap

Stands(t) == /\ OnItsWay(t) /\ Opened(t) /\ Walking(t) /\ Latched(t)
             /\ Rightward(t) /\ Bare(t) /\ Walked(t) /\ Answered(t)

CompareInv == TypeOK /\ Formed /\ \A t \in Thread : Stands(t)

-----------------------------------------------------------------------------
(***************************************************************************)
(* Neighbours, and what the moving borders leave in place.                 *)
(***************************************************************************)
\* The left of two neighbours lies before the right one.
LEMMA AdjacentApart ==
  ASSUME ShapeTypes, NEW s \in Set, Whole(s), NEW x, NEW y, Adjacent(s, x, y),
         NEW u \in Value, NEW w \in Value, Owns(s, x, u), Owns(s, y, w)
  PROVE  u < w
<1> DEFINE own == home[s]
<1>1. PICK m \in Value : m + 1 \in Value /\ own[m] = x /\ own[m + 1] = y /\ x # y
  BY DEF Adjacent, Owns
<1>2. own[u] = x /\ own[w] = y
  BY DEF Owns
<1>3. \A a, b, c \in Value : a < b /\ b < c /\ own[a] = own[c] => own[b] = own[a]
  BY DEF Whole, Unbroken
<1> HIDE DEF own
<1>4. SUFFICES ASSUME w < u PROVE FALSE
  <2>1. u # w
    BY <1>1, <1>2
  <2>2. u \in Int /\ w \in Int
    BY DEF Value
  <2>3. QED
    BY <2>1, <2>2, <1>4
<1>5. CASE w <= m
  <2>1. w < m
    BY <1>1, <1>2, <1>5 DEF Value
  <2>2. m < m + 1
    BY DEF Value
  <2>3. own[m] = own[w]
    BY ONLY <1>1, <1>2, <1>3, <2>1, <2>2, w \in Value
  <2>4. QED
    BY <1>1, <1>2, <2>3
<1>6. CASE ~(w <= m)
  <2>1. m < m + 1 /\ m + 1 < u
    BY <1>1, <1>4, <1>6 DEF Value
  <2>2. own[m + 1] = own[m]
    BY ONLY <1>1, <1>2, <1>3, <2>1, u \in Value
  <2>3. QED
    BY <1>1, <2>2
<1>7. QED
  BY <1>5, <1>6

\* Nothing lies between two neighbours: what is before one is before the other.
LEMMA AdjacentTogether ==
  ASSUME ShapeTypes, NEW s \in Set, Whole(s), NEW x, NEW y, Adjacent(s, x, y),
         NEW u \in Value, NEW v \in Value, NEW w \in Value,
         home[s][u] \in {x, y}, home[s][w] \in {x, y}, home[s][v] \notin {x, y}, v < u
  PROVE  v < w
<1> DEFINE own == home[s]
<1>1. PICK m \in Value : m + 1 \in Value /\ own[m] = x /\ own[m + 1] = y /\ x # y
  BY DEF Adjacent, Owns
<1>3. \A a, b, c \in Value : a < b /\ b < c /\ own[a] = own[c] => own[b] = own[a]
  BY DEF Whole, Unbroken
<1>4. own[u] \in {x, y} /\ own[w] \in {x, y} /\ own[v] \notin {x, y}
  OBVIOUS
<1> HIDE DEF own
<1>5. SUFFICES ASSUME w < v PROVE FALSE
  <2>1. v # w
    BY <1>4
  <2>2. v \in Int /\ w \in Int
    BY DEF Value
  <2>3. QED
    BY <2>1, <2>2, <1>5
<1>6. v # m /\ v # m + 1
  BY <1>1, <1>4
<1>7. own[w] # own[u]
  BY ONLY <1>3, <1>4, <1>5, v < u, u \in Value, v \in Value, w \in Value
<1>8. CASE own[w] = x /\ own[u] = y
  <2>1. v < m \/ m + 1 < v
    BY <1>1, <1>6 DEF Value
  <2>2. CASE v < m
    BY ONLY <1>1, <1>3, <1>4, <1>5, <1>8, <2>2, v \in Value, w \in Value
  <2>3. CASE m + 1 < v
    BY ONLY <1>1, <1>3, <1>4, <1>8, <2>3, v < u, v \in Value, u \in Value
  <2>4. QED
    BY <2>1, <2>2, <2>3
<1>9. CASE own[w] = y /\ own[u] = x
  <2>1. u < w
    BY <1>9, AdjacentApart DEF Owns, own
  <2>2. QED
    BY <2>1, <1>5 DEF Value
<1>10. QED
  BY <1>4, <1>7, <1>8, <1>9

\* A split or a loan to the right keeps every range unbroken.
LEMMA RaisesForms ==
  ASSUME ShapeTypes, ShapeTypes', NEW s \in Set, Whole(s), Active(s),
         NEW x \in Leaf, NEW y \in Leaf, NEW k \in Value, Raises(s, x, y, k)
  PROVE  Whole(s)' /\ Active(s)'
<1> DEFINE own == home[s]
           new == home'[s]
<1>1. /\ x # y /\ leads'[s] = leads[s]
      /\ Unused(s, y) \/ Adjacent(s, x, y)
      /\ \A v \in Value : new[v] = IF own[v] = x /\ v >= k THEN y ELSE own[v]
  BY DEF Raises, Owns
<1>2. \A a, b, c \in Value : a < b /\ b < c /\ own[a] = own[c] => own[b] = own[a]
  BY DEF Whole, Unbroken
<1>3. ASSUME NEW a \in Value, NEW b \in Value, NEW c \in Value, a < b, b < c, new[a] = new[c]
      PROVE  new[b] = new[a]
  <2>1. CASE own[a] = own[c]
    <3>1. own[b] = own[a]
      BY <1>2, <1>3, <2>1
    <3>2. (own[a] = x /\ a >= k) => b >= k
      BY <1>3 DEF Value
    <3>3. (own[c] = x /\ ~(c >= k)) => ~(b >= k)
      BY <1>3 DEF Value
    <3> HIDE DEF own, new
    <3>4. QED
      BY ONLY <1>1, <1>3, <2>1, <3>1, <3>2, <3>3
  <2>2. CASE own[a] # own[c]
    <3>1. \/ own[a] = x /\ a >= k /\ own[c] = y
          \/ own[a] = y /\ own[c] = x
      BY <1>1, <1>3, <2>2
    <3>2. Adjacent(s, x, y)
      BY <1>1, <3>1 DEF Unused, Owns
    <3>3. own[a] = x /\ a >= k /\ own[c] = y
      <4>1. ~(own[a] = y /\ own[c] = x)
        <5> SUFFICES ASSUME own[a] = y, own[c] = x PROVE FALSE
          OBVIOUS
        <5>1. c < a
          BY <3>2, AdjacentApart DEF Owns
        <5>2. QED
          BY <5>1, <1>3 DEF Value
      <4>2. QED
        BY <3>1, <4>1
    <3>4. own[b] \in {x, y}
      <4> SUFFICES ASSUME own[b] \notin {x, y} PROVE FALSE
        OBVIOUS
      <4>1. own[a] \in {x, y} /\ own[c] \in {x, y}
        BY <3>3
      <4>2. b < a
        BY <3>2, <4>1, <1>3, AdjacentTogether
      <4>3. QED
        BY <4>2, <1>3 DEF Value
    <3>5. b >= k
      BY <1>3, <3>3 DEF Value
    <3>6. new[b] = y /\ new[a] = y
      BY <1>1, <3>3, <3>4, <3>5
    <3>7. QED
      BY <3>6
  <2>3. QED
    BY <2>1, <2>2
<1>4. Whole(s)'
  BY <1>3 DEF Whole, Unbroken
<1>5. leads[s][y] = y
  <2>1. CASE Unused(s, y)
    BY <2>1 DEF Unused
  <2>2. CASE Adjacent(s, x, y)
    BY <2>2 DEF Adjacent, Owns, Active
  <2>3. QED
    BY <1>1, <2>1, <2>2
<1>6. \A v \in Value : leads[s][own[v]] = own[v]
  BY DEF Active
<1>7. \A v \in Value : leads'[s][new[v]] = new[v]
  BY <1>1, <1>5, <1>6
<1>8. QED
  BY <1>4, <1>7 DEF Active

\* So does a loan to the left.
LEMMA LowersForms ==
  ASSUME ShapeTypes, ShapeTypes', NEW s \in Set, Whole(s), Active(s),
         NEW x \in Leaf, NEW y \in Leaf, NEW k \in Value, Lowers(s, x, y, k)
  PROVE  Whole(s)' /\ Active(s)'
<1> DEFINE own == home[s]
           new == home'[s]
<1>1. /\ Adjacent(s, x, y) /\ leads'[s] = leads[s] /\ x # y
      /\ \A v \in Value : new[v] = IF own[v] = y /\ v < k THEN x ELSE own[v]
  BY DEF Lowers, Owns, Adjacent
<1>2. \A a, b, c \in Value : a < b /\ b < c /\ own[a] = own[c] => own[b] = own[a]
  BY DEF Whole, Unbroken
<1>3. ASSUME NEW a \in Value, NEW b \in Value, NEW c \in Value, a < b, b < c, new[a] = new[c]
      PROVE  new[b] = new[a]
  <2>1. CASE own[a] = own[c]
    <3>1. own[b] = own[a]
      BY <1>2, <1>3, <2>1
    <3>2. (own[c] = y /\ c < k) => b < k
      BY <1>3 DEF Value
    <3>3. (own[a] = y /\ ~(a < k)) => ~(b < k)
      BY <1>3 DEF Value
    <3> HIDE DEF own, new
    <3>4. QED
      BY ONLY <1>1, <1>3, <2>1, <3>1, <3>2, <3>3
  <2>2. CASE own[a] # own[c]
    <3>1. \/ own[a] = x /\ own[c] = y /\ c < k
          \/ own[a] = y /\ own[c] = x
      BY <1>1, <1>3, <2>2
    <3>3. own[a] = x /\ own[c] = y /\ c < k
      <4>1. ~(own[a] = y /\ own[c] = x)
        <5> SUFFICES ASSUME own[a] = y, own[c] = x PROVE FALSE
          OBVIOUS
        <5>1. c < a
          BY <1>1, AdjacentApart DEF Owns
        <5>2. QED
          BY <5>1, <1>3 DEF Value
      <4>2. QED
        BY <3>1, <4>1
    <3>4. own[b] \in {x, y}
      <4> SUFFICES ASSUME own[b] \notin {x, y} PROVE FALSE
        OBVIOUS
      <4>1. own[a] \in {x, y} /\ own[c] \in {x, y}
        BY <3>3
      <4>2. b < a
        BY <1>1, <4>1, <1>3, AdjacentTogether
      <4>3. QED
        BY <4>2, <1>3 DEF Value
    <3>5. b < k
      BY <1>3, <3>3 DEF Value
    <3>6. new[b] = x /\ new[a] = x
      BY <1>1, <3>3, <3>4, <3>5
    <3>7. QED
      BY <3>6
  <2>3. QED
    BY <2>1, <2>2
<1>4. Whole(s)'
  BY <1>3 DEF Whole, Unbroken
<1>5. \A v \in Value : leads[s][own[v]] = own[v]
  BY DEF Active
<1>6. leads[s][x] = x
  BY <1>1, <1>5 DEF Adjacent, Owns
<1>7. \A v \in Value : leads'[s][new[v]] = new[v]
  BY <1>1, <1>5, <1>6
<1>8. QED
  BY <1>4, <1>7 DEF Active

\* And a merge.
LEMMA MergesForms ==
  ASSUME ShapeTypes, ShapeTypes', NEW s \in Set, Whole(s), Active(s),
         NEW x \in Leaf, NEW y \in Leaf, Merges(s, x, y)
  PROVE  Whole(s)' /\ Active(s)'
<1> DEFINE own == home[s]
           new == home'[s]
<1>1. /\ Adjacent(s, x, y) /\ x # y
      /\ \A v \in Value : new[v] = IF own[v] = x THEN y ELSE own[v]
      /\ \A l \in Leaf : leads'[s][l] = IF leads[s][l] = x THEN y ELSE leads[s][l]
  BY DEF Merges, Owns, Adjacent
<1>2. \A a, b, c \in Value : a < b /\ b < c /\ own[a] = own[c] => own[b] = own[a]
  BY DEF Whole, Unbroken
<1>3. ASSUME NEW a \in Value, NEW b \in Value, NEW c \in Value, a < b, b < c, new[a] = new[c]
      PROVE  new[b] = new[a]
  <2>1. CASE own[a] = own[c]
    <3>1. own[b] = own[a]
      BY <1>2, <1>3, <2>1
    <3>2. QED
      BY <1>1, <3>1
  <2>2. CASE own[a] # own[c]
    <3>1. own[a] \in {x, y} /\ own[c] \in {x, y}
      BY <1>1, <1>3, <2>2
    <3>2. own[b] \in {x, y}
      <4> SUFFICES ASSUME own[b] \notin {x, y} PROVE FALSE
        OBVIOUS
      <4>1. b < a
        BY <1>1, <3>1, <1>3, AdjacentTogether
      <4>2. QED
        BY <4>1, <1>3 DEF Value
    <3>3. new[b] = y /\ new[a] = y
      BY <1>1, <3>1, <3>2
    <3>4. QED
      BY <3>3
  <2>3. QED
    BY <2>1, <2>2
<1>4. Whole(s)'
  BY <1>3 DEF Whole, Unbroken
<1>5. \A v \in Value : leads[s][own[v]] = own[v] /\ own[v] \in Leaf
  BY DEF Active, ShapeTypes
<1>6. leads[s][y] = y
  BY <1>1, <1>5 DEF Adjacent, Owns
<1>7. \A v \in Value : leads'[s][new[v]] = new[v]
  BY <1>1, <1>5, <1>6
<1>8. QED
  BY <1>4, <1>7 DEF Active

LEMMA MovesForm ==
  ASSUME ShapeTypes, ShapeTypes', NEW s \in Set, Formed, Moves(s)
  PROVE  Formed'
<1>1. Whole(s) /\ Active(s)
  BY DEF Formed
<1>2. Whole(s)' /\ Active(s)' /\ Elsewhere(s)
  <2>1. PICK x \in Leaf, y \in Leaf : \/ \E k \in Value : Raises(s, x, y, k) \/ Lowers(s, x, y, k)
                                      \/ Merges(s, x, y)
    BY DEF Moves
  <2>2. Elsewhere(s)
    BY <2>1 DEF Raises, Lowers, Merges
  <2>3. QED
    BY <1>1, <2>1, <2>2, RaisesForms, LowersForms, MergesForms
<1>3. ASSUME NEW r \in Set, r # s
      PROVE  Whole(r)' /\ Active(r)'
  <2>1. home'[r] = home[r] /\ leads'[r] = leads[r] /\ Whole(r) /\ Active(r)
    BY <1>2, <1>3 DEF Elsewhere, Formed
  <2>2. QED
    BY <2>1 DEF Whole, Active, Unbroken
<1>4. QED
  BY <1>2, <1>3 DEF Formed

\* A reference that led to a leaf with a range leads to one; it has left
\* nothing new behind, but for what a borrow took from the leaf it leads to.
LEMMA StillOnItsWay ==
  ASSUME ShapeTypes, ShapeTypes', NEW s \in Set, Formed, Moves(s), NEW l \in Leaf,
         \E w \in Value : home[s][w] = leads[s][l]
  PROVE  /\ \E w \in Value : home'[s][w] = leads'[s][l]
         /\ \A v \in Value :
              (\A w \in Value : home'[s][w] = leads'[s][l] => v < w) =>
                \/ \A w \in Value : home[s][w] = leads[s][l] => v < w
                \/ \E x, y \in Leaf, k \in Value :
                     Lowers(s, x, y, k) /\ leads[s][l] = y /\ home[s][v] = y /\ v < k
<1> DEFINE own == home[s]
           new == home'[s]
           P == leads[s][l]
           Q == leads'[s][l]
<1>1. \A a, b, c \in Value : a < b /\ b < c /\ own[a] = own[c] => own[b] = own[a]
  BY DEF Formed, Whole, Unbroken
<1>2. PICK x \in Leaf, y \in Leaf : \/ \E k \in Value : Raises(s, x, y, k) \/ Lowers(s, x, y, k)
                                    \/ Merges(s, x, y)
  BY DEF Moves
<1>3. PICK p \in Value : own[p] = P
  OBVIOUS
<1>4. ASSUME NEW k \in Value, Raises(s, x, y, k)
      PROVE  /\ \E w \in Value : new[w] = Q
             /\ \A v \in Value : (\A w \in Value : new[w] = Q => v < w) =>
                                 (\A w \in Value : own[w] = P => v < w)
  <2>1. /\ x # y /\ Q = P /\ own[k] = x
        /\ \A v \in Value : new[v] = IF own[v] = x /\ v >= k THEN y ELSE own[v]
    BY <1>4 DEF Raises, Owns
  <2>2. PICK j \in Value : j < k /\ own[j] = x
    BY <1>4 DEF Raises, Owns
  <2> HIDE DEF own, new, P, Q
  <2>3. CASE P = x
    <3>1. new[j] = x
      BY <2>1, <2>2 DEF Value
    <3>2. ASSUME NEW v \in Value, \A w \in Value : new[w] = Q => v < w, NEW w \in Value, own[w] = P
          PROVE  v < w
      <4>1. v < j
        BY <2>1, <2>3, <3>1, <3>2
      <4>2. CASE w >= k
        BY <2>2, <4>1, <4>2 DEF Value
      <4>3. CASE ~(w >= k)
        BY <2>1, <2>3, <3>2, <4>3
      <4>4. QED
        BY <4>2, <4>3
    <3>3. QED
      BY <2>1, <2>3, <3>1, <3>2
  <2>4. CASE P # x
    BY <1>3, <2>1, <2>4
  <2>5. QED
    BY <2>3, <2>4
<1>5. ASSUME NEW k \in Value, Lowers(s, x, y, k)
      PROVE  /\ \E w \in Value : new[w] = Q
             /\ \A v \in Value : (\A w \in Value : new[w] = Q => v < w) =>
                   \/ \A w \in Value : own[w] = P => v < w
                   \/ P = y /\ own[v] = y /\ v < k
  <2>1. /\ x # y /\ Q = P /\ own[k] = y
        /\ \A v \in Value : new[v] = IF own[v] = y /\ v < k THEN x ELSE own[v]
    BY <1>5 DEF Lowers, Owns, Adjacent
  <2> HIDE DEF own, new, P, Q
  <2>3. CASE P = y
    <3>1. new[k] = y
      BY <2>1 DEF Value
    <3>2. ASSUME NEW v \in Value, \A w \in Value : new[w] = Q => v < w,
                 NEW w \in Value, own[w] = P, ~(v < w)
          PROVE  own[v] = y /\ v < k
      <4>1. v < k
        BY <2>1, <2>3, <3>1, <3>2
      <4>2. CASE v = w
        BY <2>3, <3>2, <4>1, <4>2
      <4>3. CASE v # w
        <5>1. w < v
          BY <3>2, <4>3 DEF Value
        <5>2. own[v] = own[w]
          BY <1>1, <2>1, <2>3, <3>2, <4>1, <5>1
        <5>3. QED
          BY <2>3, <3>2, <4>1, <5>2
      <4>4. QED
        BY <4>2, <4>3
    <3>3. QED
      BY <2>1, <2>3, <3>1, <3>2
  <2>4. CASE P # y
    BY <1>3, <2>1, <2>4
  <2>5. QED
    BY <2>3, <2>4
<1>6. ASSUME Merges(s, x, y)
      PROVE  /\ \E w \in Value : new[w] = Q
             /\ \A v \in Value : (\A w \in Value : new[w] = Q => v < w) =>
                                 (\A w \in Value : own[w] = P => v < w)
  <2>1. /\ x # y /\ Q = (IF P = x THEN y ELSE P)
        /\ \A v \in Value : new[v] = IF own[v] = x THEN y ELSE own[v]
    BY <1>6 DEF Merges, Owns, Adjacent
  <2> HIDE DEF own, new, P, Q
  <2>2. QED
    BY <1>3, <2>1
<1>7. QED
  BY <1>2, <1>4, <1>5, <1>6

\* Nobody moves a border of a latched leaf.
LEMMA LatchedKept ==
  ASSUME ShapeTypes, NEW s \in Set, Formed, Moves(s), NEW h \in Leaf,
         ~WriteFree(s, h), \E a \in Value : home[s][a] = h
  PROVE  \A v \in Value : home'[s][v] = h <=> home[s][v] = h
<1>1. PICK x \in Leaf, y \in Leaf : \/ \E k \in Value : Raises(s, x, y, k) \/ Lowers(s, x, y, k)
                                    \/ Merges(s, x, y)
  BY DEF Moves
<1>2. h # x
  BY <1>1 DEF Raises, Lowers, Merges
<1>3. h # y
  <2>1. WriteFree(s, y) \/ Unused(s, y)
    BY <1>1 DEF Raises, Lowers, Merges
  <2>2. QED
    BY <2>1 DEF Unused, Owns
<1>4. QED
  BY <1>1, <1>2, <1>3 DEF Raises, Lowers, Merges, Owns

\* What lies behind a latched leaf stays behind it.
LEMMA KeepsRight ==
  ASSUME ShapeTypes, NEW s \in Set, Formed, Moves(s), NEW h \in Leaf, NEW l \in Leaf,
         ~WriteFree(s, h), \E a \in Value : home[s][a] = h,
         \E w \in Value : home[s][w] = leads[s][l],
         \A v, w \in Value : home[s][v] = h /\ home[s][w] = leads[s][l] => v < w
  PROVE  \A v, w \in Value : home'[s][v] = h /\ home'[s][w] = leads'[s][l] => v < w
<1> DEFINE own == home[s]
           new == home'[s]
           P == leads[s][l]
           Q == leads'[s][l]
<1> SUFFICES ASSUME NEW v \in Value, NEW w \in Value, new[v] = h, new[w] = Q
             PROVE  v < w
  OBVIOUS
<1>1. own[v] = h
  BY LatchedKept
<1>2. PICK p \in Value : own[p] = P
  OBVIOUS
<1>3. v < p
  BY <1>1, <1>2
<1>4. PICK x \in Leaf, y \in Leaf : \/ \E k \in Value : Raises(s, x, y, k) \/ Lowers(s, x, y, k)
                                    \/ Merges(s, x, y)
  BY DEF Moves
<1>5. own[w] = P \/ (Adjacent(s, x, y) /\ P \in {x, y} /\ own[w] \in {x, y})
  <2>1. ASSUME NEW k \in Value, Raises(s, x, y, k)
        PROVE  own[w] = P \/ (Adjacent(s, x, y) /\ P \in {x, y} /\ own[w] \in {x, y})
    <3>1. /\ x # y /\ Q = P
          /\ Unused(s, y) \/ Adjacent(s, x, y)
          /\ \A a \in Value : new[a] = IF own[a] = x /\ a >= k THEN y ELSE own[a]
      BY <2>1 DEF Raises, Owns
    <3>2. own[w] # P => P = y /\ own[w] = x
      BY <3>1
    <3>3. P = y => ~Unused(s, y)
      BY <1>2 DEF Unused, Owns
    <3>4. QED
      BY <3>1, <3>2, <3>3
  <2>2. ASSUME NEW k \in Value, Lowers(s, x, y, k)
        PROVE  own[w] = P \/ (Adjacent(s, x, y) /\ P \in {x, y} /\ own[w] \in {x, y})
    <3>1. /\ Adjacent(s, x, y) /\ Q = P
          /\ \A a \in Value : new[a] = IF own[a] = y /\ a < k THEN x ELSE own[a]
      BY <2>2 DEF Lowers, Owns
    <3>2. QED
      BY <3>1
  <2>3. ASSUME Merges(s, x, y)
        PROVE  own[w] = P \/ (Adjacent(s, x, y) /\ P \in {x, y} /\ own[w] \in {x, y})
    <3>1. /\ Adjacent(s, x, y) /\ Q = (IF P = x THEN y ELSE P)
          /\ \A a \in Value : new[a] = IF own[a] = x THEN y ELSE own[a]
      BY <2>3 DEF Merges, Owns
    <3>2. QED
      BY <3>1
  <2>4. QED
    BY <1>4, <2>1, <2>2, <2>3
<1>6. CASE own[w] = P
  BY <1>1, <1>6
<1>7. CASE Adjacent(s, x, y) /\ P \in {x, y} /\ own[w] \in {x, y}
  <2>1. h \notin {x, y}
    <3>1. WriteFree(s, x)
      BY <1>4 DEF Raises, Lowers, Merges
    <3>2. WriteFree(s, y) \/ Unused(s, y)
      BY <1>4 DEF Raises, Lowers, Merges
    <3>3. ~Unused(s, y)
      BY <1>7 DEF Unused, Adjacent, Owns
    <3>4. QED
      BY <3>1, <3>2, <3>3
  <2>2. own[p] \in {x, y} /\ own[v] \notin {x, y} /\ Whole(s)
    BY <1>1, <1>2, <1>7, <2>1 DEF Formed
  <2>3. QED
    BY <1>3, <1>7, <2>2, AdjacentTogether
<1>8. QED
  BY <1>5, <1>6, <1>7

-----------------------------------------------------------------------------
(***************************************************************************)
(* What a step changes.                                                    *)
(***************************************************************************)
\* What a call remembers is true of the state the step leads to, and only
\* shrinks; an answered call keeps what it remembers.
Noted(t) ==
  /\ hist[t].common \subseteq elems[Self(t)] \cap elems[Other(t)]
  /\ hist[t].lacking \subseteq elems[Self(t)] \ elems[Other(t)]
  /\ elems[Self(t)] \cap elems[Other(t)] # {} => hist[t].met
  /\ ~(elems[Self(t)] \subseteq elems[Other(t)]) => hist[t].gap

LEMMA HistFields ==
  ASSUME NEW c, NEW l, NEW m, NEW g,
         NEW h, h = [common |-> c, lacking |-> l, met |-> m, gap |-> g]
  PROVE  h.common = c /\ h.lacking = l /\ h.met = m /\ h.gap = g
OBVIOUS

LEMMA HistNotes ==
  ASSUME TypeOK, Remember, NEW t \in Thread
  PROVE  /\ pc[t] # "done" => Noted(t)'
         /\ pc[t] = "done" => hist'[t] = hist[t]
         /\ pc[t] \notin {"idle", "done"} =>
              /\ hist'[t].common \subseteq hist[t].common
              /\ hist'[t].lacking \subseteq hist[t].lacking
<1> DEFINE now == Snapshot(call'[t].self, call'[t].other, elems')
           old == hist[t]
<1>1. hist'[t] = IF pc[t] = "idle" THEN now
                 ELSE IF pc[t] = "done" THEN old
                 ELSE [common  |-> old.common \cap now.common,
                       lacking |-> old.lacking \cap now.lacking,
                       met     |-> old.met \/ now.met,
                       gap     |-> old.gap \/ now.gap]
  BY DEF Remember
<1>2. /\ now.common = elems'[call'[t].self] \cap elems'[call'[t].other]
      /\ now.lacking = elems'[call'[t].self] \ elems'[call'[t].other]
      /\ now.met <=> elems'[call'[t].self] \cap elems'[call'[t].other] # {}
      /\ now.gap <=> ~(elems'[call'[t].self] \subseteq elems'[call'[t].other])
  BY DEF Snapshot
<1> HIDE DEF now, old
<1>3. CASE pc[t] = "idle"
  BY <1>1, <1>2, <1>3 DEF Noted, Self, Other
<1>4. CASE pc[t] = "done"
  BY <1>1, <1>4 DEF old
<1>5. CASE pc[t] \notin {"idle", "done"}
  <2>1. hist'[t] = [common  |-> old.common \cap now.common,
                    lacking |-> old.lacking \cap now.lacking,
                    met     |-> old.met \/ now.met,
                    gap     |-> old.gap \/ now.gap]
    BY <1>1, <1>5, Zenon
  <2>2. /\ hist'[t].common = old.common \cap now.common
        /\ hist'[t].lacking = old.lacking \cap now.lacking
        /\ hist'[t].met = (old.met \/ now.met)
        /\ hist'[t].gap = (old.gap \/ now.gap)
    BY <2>1, HistFields
  <2>3. QED
    BY <1>2, <1>5, <2>2, Zenon DEF Noted, Self, Other, old
<1>6. QED
  BY <1>3, <1>4, <1>5

\* Only a pass under a parent moves borders.
LEMMA BordersKept ==
  ASSUME NEW t \in Thread, Start(t) \/ Step(t), ~Restructures(t)
  PROVE  /\ home' = home /\ leads' = leads
         /\ Start(t) \/ slipped' = slipped
<1>1. CASE Start(t)
  BY <1>1 DEF Start
<1>2. CASE SameSet(t) \/ ReadOwnLen(t) \/ EqLens(t) \/ SmallerFirst(t) \/ SubsetLens(t)
  BY <1>2 DEF SameSet, ReadOwnLen, EqLens, SmallerFirst, SubsetLens, sets, shape
<1>3. CASE Yield(t) \/ Pass(t) \/ Probe(t)
  BY <1>3 DEF Yield, Pass, Probe, sets, shape
<1>4. CASE Write(t) \/ Descend(t) \/ Repair(t) \/ Enter(t) \/ Count(t) \/ Shrink(t) \/ Return(t)
  BY <1>4 DEF Write, Descend, Repair, Enter, Count, Shrink, Return, sets, shape
<1>5. QED
  BY <1>1, <1>2, <1>3, <1>4 DEF Step, Restructures

\* What a step of a writer does to its own variables.
LEMMA WriterSteps ==
  ASSUME NEW t \in Thread, Write(t) \/ Enter(t)
  PROVE  /\ UNCHANGED request /\ UNCHANGED cursor /\ UNCHANGED shape
         /\ pc[t] \in {"write", "enter"} /\ WriteFree(Self(t), Target(t))
         /\ \/ \E label \in {"done", "descend", "shrink"} : GoTo(t, label) /\ UNCHANGED <<elems, latch>>
            \/ \E label \in {"count", "tally"} : Update(t, label)
         /\ UNCHANGED answer \/ \E b \in BOOLEAN : answer' = [answer EXCEPT ![t] = b]
<1>1. CASE Write(t)
  <2>1. /\ UNCHANGED request /\ UNCHANGED cursor /\ UNCHANGED shape
        /\ pc[t] = "write" /\ WriteFree(Self(t), Target(t))
    BY <1>1 DEF Write
  <2>2. \/ Reply(t, FALSE) /\ UNCHANGED <<elems, latch>>
        \/ Update(t, "count") /\ UNCHANGED answer
        \/ GoTo(t, "descend") /\ UNCHANGED <<elems, latch, answer>>
    BY <1>1, Zenon DEF Write
  <2>3. QED
    BY <2>1, <2>2 DEF Reply
<1>2. CASE Enter(t)
  <2>1. /\ UNCHANGED request /\ UNCHANGED cursor /\ UNCHANGED shape
        /\ pc[t] = "enter" /\ WriteFree(Self(t), Target(t))
    BY <1>2 DEF Enter
  <2>2. \/ GoTo(t, "descend") /\ UNCHANGED <<elems, latch, answer>>
        \/ /\ GoTo(t, IF Inserts(t) THEN "done" ELSE "shrink")
           /\ answer' = [answer EXCEPT ![t] = FALSE]
           /\ UNCHANGED <<elems, latch>>
        \/ Update(t, IF Inserts(t) THEN "count" ELSE "tally") /\ UNCHANGED answer
    BY <1>2, Zenon DEF Enter
  <2>3. CASE Inserts(t)
    BY <2>1, <2>2, <2>3
  <2>4. CASE ~Inserts(t)
    BY <2>1, <2>2, <2>4
  <2>5. QED
    BY <2>3, <2>4
<1>3. QED
  BY <1>1, <1>2

\* A thread's step is its own.
LEMMA OthersKeep ==
  ASSUME TypeOK, NEW t \in Thread, Start(t) \/ Step(t), NEW u \in Thread, u # t
  PROVE  /\ pc'[u] = pc[u] /\ call'[u] = call[u] /\ over'[u] = over[u]
         /\ item'[u] = item[u] /\ leaf'[u] = leaf[u] /\ latch'[u] = latch[u]
         /\ answer'[u] = answer[u] /\ slipped[u] \subseteq slipped'[u]
<1> USE DEF GoTo, Reply, Hold, Release, request, cursor
<1>0. \A f \in {pc, call, over, item, leaf, latch, answer, slipped} : u \in DOMAIN f
  BY TypeParts DEF ThreadTypes, LatchTypes, ShapeTypes
<1>1. slipped[u] \subseteq slipped'[u]
  <2>1. CASE Start(t)
    BY <1>0, <2>1 DEF Start
  <2>2. CASE Restructures(t)
    <3>1. PICK x \in Leaf, y \in Leaf :
            \/ \E k \in Value : Raises(Self(t), x, y, k) \/ Lowers(Self(t), x, y, k)
            \/ Merges(Self(t), x, y)
      BY <2>2, RestructureMoves DEF Moves
    <3>2. QED
      BY <3>1 DEF Raises, Lowers, Merges
  <2>3. QED
    BY <2>1, <2>2, BordersKept
<1>2. CASE Start(t)
  BY <1>0, <1>1, <1>2 DEF Start
<1>3. CASE SameSet(t) \/ ReadOwnLen(t) \/ EqLens(t) \/ SmallerFirst(t) \/ SubsetLens(t)
  BY <1>0, <1>1, <1>3 DEF SameSet, ReadOwnLen, EqLens, SmallerFirst, SubsetLens
<1>4. CASE Yield(t) \/ Pass(t) \/ Probe(t)
  BY <1>0, <1>1, <1>4 DEF Yield, Pass, Probe
<1>5. CASE Write(t) \/ Enter(t)
  <2>1. /\ UNCHANGED request /\ UNCHANGED cursor
        /\ \E label \in Label : GoTo(t, label)
        /\ UNCHANGED latch \/ Hold(t, Self(t), Target(t), "write")
        /\ UNCHANGED answer \/ \E b \in BOOLEAN : answer' = [answer EXCEPT ![t] = b]
    BY <1>5, WriterSteps DEF Update, Label
  <2>2. QED
    BY <1>0, <1>1, <2>1
<1>6. CASE Descend(t) \/ Repair(t) \/ Count(t) \/ Shrink(t) \/ Return(t)
  BY <1>0, <1>1, <1>6 DEF Descend, Repair, Count, Shrink, Return
<1>7. CASE Restructures(t)
  BY <1>0, <1>1, <1>7, RestructureKeeps
<1>8. QED
  BY <1>2, <1>3, <1>4, <1>5, <1>6, <1>7 DEF Step, Restructures

\* No value leaves or enters a leaf that some thread has latched.
LEMMA LatchedLeafKept ==
  ASSUME TypeOK, NEW t \in Thread, Start(t) \/ Step(t),
         NEW u \in Thread, NEW s \in Set, NEW v \in Value, Has(u, s, home[s][v])
  PROVE  v \in elems'[s] <=> v \in elems[s]
<1>1. CASE Write(t) \/ Enter(t)
  <2>1. elems \in [Set -> SUBSET Value]
    BY TypeParts DEF SetTypes
  <2>2. \/ UNCHANGED elems
        \/ elems' = [elems EXCEPT ![Self(t)] = IF Inserts(t) THEN @ \cup {call[t].val}
                                                           ELSE @ \ {call[t].val}]
    BY <1>1, WriterSteps DEF Update
  <2>3. ~(Self(t) = s /\ call[t].val = v)
    BY <1>1, WriterSteps DEF WriteFree, Target
  <2>4. QED
    BY <2>1, <2>2, <2>3
<1>2. CASE Restructures(t)
  BY <1>2, RestructureKeeps
<1>3. CASE ~(Write(t) \/ Enter(t) \/ Restructures(t))
  <2>1. elems' = elems
    <3>1. CASE Start(t)
      BY <3>1 DEF Start
    <3>2. CASE SameSet(t) \/ ReadOwnLen(t) \/ EqLens(t) \/ SmallerFirst(t) \/ SubsetLens(t)
      BY <3>2 DEF SameSet, ReadOwnLen, EqLens, SmallerFirst, SubsetLens, sets
    <3>3. CASE Yield(t) \/ Pass(t) \/ Probe(t)
      BY <3>3 DEF Yield, Pass, Probe, sets
    <3>4. CASE Descend(t) \/ Repair(t) \/ Count(t) \/ Shrink(t) \/ Return(t)
      BY <3>4 DEF Descend, Repair, Count, Shrink, Return, sets
    <3>5. QED
      BY <1>3, <3>1, <3>2, <3>3, <3>4 DEF Step, Restructures
  <2>2. QED
    BY <2>1
<1>4. QED
  BY <1>1, <1>2, <1>3

\* A value that is not in the set a walk goes over need not be looked up.
LEMMA NotThere ==
  ASSUME NEW t \in Thread, Noted(t)', NEW v, v \notin elems'[over'[t]],
         over'[t] = Self(t)' \/ (over'[t] = Other(t)' /\ call'[t].op = "is_disjoint")
  PROVE  Clean(t, v)'
<1>1. /\ hist'[t].common \subseteq elems'[Self(t)'] \cap elems'[Other(t)']
      /\ hist'[t].lacking \subseteq elems'[Self(t)'] \ elems'[Other(t)']
  BY DEF Noted
<1>2. QED
  BY <1>1 DEF Clean

\* What was passed cleanly stays so.
LEMMA StaysClean ==
  ASSUME TypeOK, Remember, NEW t \in Thread, NEW v, pc[t] \notin {"idle", "done"}, Clean(t, v),
         call'[t] = call[t], slipped[t] \subseteq slipped'[t]
  PROVE  Clean(t, v)'
BY HistNotes DEF Clean

\* So another thread's call stands where it stood.
LEMMA OthersStand ==
  ASSUME CompareInv, TypeOK', NEW t \in Thread, Start(t) \/ Step(t), Remember,
         NEW u \in Thread, u # t
  PROVE  Stands(u)'
<1>1. TypeOK /\ Stands(u) /\ Formed /\ ShapeTypes /\ ShapeTypes'
  BY TypeParts DEF CompareInv, TypeOK, ShapeTypes
<1>2. /\ pc'[u] = pc[u] /\ call'[u] = call[u] /\ over'[u] = over[u]
      /\ item'[u] = item[u] /\ leaf'[u] = leaf[u] /\ latch'[u] = latch[u]
      /\ answer'[u] = answer[u] /\ slipped[u] \subseteq slipped'[u]
  BY <1>1, OthersKeep
<1>3. (Opened(u) /\ Walking(u) /\ Bare(u))'
  BY <1>1, <1>2 DEF Stands, Opened, Walking, Bare, Self, Other
<1>4. over[u] \in Set /\ leaf[u] \in Leaf /\ Self(t) \in Set
  BY <1>1, Whereabouts
<1>5. \/ home'[over[u]] = home[over[u]] /\ leads'[over[u]] = leads[over[u]]
      \/ Restructures(t) /\ Moves(Self(t)) /\ over[u] = Self(t)
  <2>1. CASE Restructures(t)
    <3>1. Moves(Self(t))
      BY <1>1, <2>1, RestructureMoves
    <3>2. Elsewhere(Self(t))
      BY <3>1 DEF Moves, Raises, Lowers, Merges
    <3>3. QED
      BY <1>4, <2>1, <3>1, <3>2 DEF Elsewhere
  <2>2. CASE ~Restructures(t)
    BY <2>2, BordersKept
  <2>3. QED
    BY <2>1, <2>2
<1>6. pc[u] \in {"hop", "repair"} => At(u) = leads[over[u]][leaf[u]]
  BY DEF At
<1>7. pc[u] \in {"hop", "repair"} => At(u)' = leads'[over[u]][leaf[u]]
  BY <1>2 DEF At
<1>8. OnItsWay(u)'
  <2> SUFFICES ASSUME pc[u] \in {"hop", "repair"}
               PROVE  \E v \in Value : home'[over[u]][v] = leads'[over[u]][leaf[u]]
    BY <1>2, <1>7 DEF OnItsWay, Owns
  <2>1. \E v \in Value : home[over[u]][v] = leads[over[u]][leaf[u]]
    BY <1>1, <1>6 DEF Stands, OnItsWay, Owns
  <2>2. QED
    BY <1>1, <1>4, <1>5, <2>1, StillOnItsWay
<1>9. Latched(u)'
  <2> SUFFICES ASSUME pc[u] = "probe"
               PROVE  item[u] \in elems'[over[u]] /\ home'[over[u]][item[u]] = leaf[u]
    BY <1>1, <1>2 DEF Stands, Latched
  <2>1. /\ item[u] \in elems[over[u]] /\ home[over[u]][item[u]] = leaf[u]
        /\ latch[u] = [set |-> over[u], leaf |-> leaf[u], mode |-> "read"]
    BY <1>1 DEF Stands, Latched
  <2>2. item[u] \in Value
    BY <1>1, <1>4, <2>1, TypeParts DEF SetTypes
  <2>3. Has(u, over[u], leaf[u])
    BY <2>1 DEF Has
  <2>4. item[u] \in elems'[over[u]]
    BY <1>1, <1>4, <2>1, <2>2, <2>3, LatchedLeafKept
  <2>5. ~WriteFree(over[u], leaf[u])
    BY <2>3 DEF WriteFree
  <2>6. home'[over[u]][item[u]] = leaf[u]
    BY <1>1, <1>4, <1>5, <2>1, <2>2, <2>5, LatchedKept
  <2>7. QED
    BY <2>4, <2>6
<1>10. Rightward(u)'
  <2> SUFFICES ASSUME pc[u] = "repair", latch[u] # NoLatch
               PROVE  /\ latch[u].set = over[u] /\ latch[u].leaf \in Leaf
                      /\ \E v \in Value : home'[over[u]][v] = latch[u].leaf
                      /\ \A v, w \in Value : /\ home'[over[u]][v] = latch[u].leaf
                                             /\ home'[over[u]][w] = leads'[over[u]][leaf[u]]
                                             => v < w
    BY <1>2, <1>7 DEF Rightward, Owns, NoLatch
  <2>1. /\ latch[u].set = over[u] /\ latch[u].leaf \in Leaf
        /\ \E v \in Value : home[over[u]][v] = latch[u].leaf
        /\ \A v, w \in Value : /\ home[over[u]][v] = latch[u].leaf
                               /\ home[over[u]][w] = leads[over[u]][leaf[u]]
                               => v < w
    BY <1>1, <1>6 DEF Stands, Rightward, Owns
  <2>2. \E v \in Value : home[over[u]][v] = leads[over[u]][leaf[u]]
    BY <1>1, <1>6 DEF Stands, OnItsWay, Owns
  <2>3. ~WriteFree(over[u], latch[u].leaf)
    BY <2>1 DEF WriteFree, Has
  <2>4. CASE home'[over[u]] = home[over[u]] /\ leads'[over[u]] = leads[over[u]]
    BY <2>1, <2>4
  <2>5. CASE Moves(Self(t)) /\ over[u] = Self(t)
    <3>1. \A v \in Value : home'[over[u]][v] = latch[u].leaf <=> home[over[u]][v] = latch[u].leaf
      BY <1>1, <1>4, <2>1, <2>3, <2>5, LatchedKept
    <3>2. \A v, w \in Value : /\ home'[over[u]][v] = latch[u].leaf
                              /\ home'[over[u]][w] = leads'[over[u]][leaf[u]]
                              => v < w
      BY <1>1, <1>4, <2>1, <2>2, <2>3, <2>5, KeepsRight
    <3>3. QED
      BY <2>1, <3>1, <3>2
  <2>6. QED
    BY <1>5, <2>4, <2>5
<1>11. Walked(u)'
  <2> SUFFICES ASSUME pc[u] \in {"seek", "hop", "probe"}, NEW v \in Value, Passed(u, v)'
               PROVE  Clean(u, v)'
    BY <1>2 DEF Walked
  <2>1. CASE Passed(u, v)
    <3>1. Clean(u, v)
      BY <1>1, <2>1 DEF Stands, Walked
    <3>2. QED
      BY <1>1, <1>2, <3>1, StaysClean
  <2>2. CASE ~Passed(u, v)
    <3>1. pc[u] = "hop" /\ Left(u, v)' /\ ~Left(u, v)
      BY <1>2, <2>2 DEF Passed
    <3>2. \A w \in Value : home'[over[u]][w] = leads'[over[u]][leaf[u]] => v < w
      BY <1>2, <1>7, <3>1 DEF Left, Owns
    <3>3. ~ \A w \in Value : home[over[u]][w] = leads[over[u]][leaf[u]] => v < w
      BY <1>6, <3>1 DEF Left, Owns
    <3>4. Restructures(t) /\ Moves(over[u])
      BY <1>5, <3>2, <3>3
    <3>5. \E w \in Value : home[over[u]][w] = leads[over[u]][leaf[u]]
      BY <1>1, <1>6, <3>1 DEF Stands, OnItsWay, Owns
    <3>6. PICK x \in Leaf, y \in Leaf, k \in Value :
            /\ Lowers(over[u], x, y, k)
            /\ leads[over[u]][leaf[u]] = y /\ home[over[u]][v] = y /\ v < k
      BY <1>1, <1>4, <3>2, <3>3, <3>4, <3>5, StillOnItsWay
    <3>7. CASE v \in elems[over[u]]
      <4>1. v \in Records(over[u], y)
        BY <3>6, <3>7 DEF Records, Owns
      <4>2. v \in slipped'[u]
        BY <3>1, <3>6, <4>1 DEF Lowers
      <4>3. QED
        BY <4>2 DEF Clean
    <3>8. CASE v \notin elems[over[u]]
      <4>1. v \notin elems'[over'[u]]
        BY <1>1, <1>2, <3>4, <3>8, RestructureKeeps
      <4>2. Noted(u)'
        BY <1>1, <3>1, HistNotes
      <4>3. QED
        BY <1>2, <1>3, <3>1, <4>1, <4>2, NotThere DEF Walking
    <3>9. QED
      BY <3>7, <3>8
  <2>3. QED
    BY <2>1, <2>2
<1>12. Answered(u)'
  BY <1>1, <1>2, HistNotes DEF Stands, Answered, Self, Other
<1>13. QED
  BY <1>3, <1>8, <1>9, <1>10, <1>11, <1>12 DEF Stands

-----------------------------------------------------------------------------
(***************************************************************************)
(* The thread that steps.                                                  *)
(***************************************************************************)
LEMMA StartStands ==
  ASSUME CompareInv, NEW t \in Thread, Start(t)
  PROVE  Stands(t)'
<1> USE TypeParts
<1>1. PICK c \in Script[scene][t][made[t] + 1] :
        /\ call' = [call EXCEPT ![t] = c]
        /\ GoTo(t, CASE c.op \in {"insert", "remove"} -> "write"
                     [] c.op = "eq" -> "eq1"
                     [] OTHER -> "len1")
        /\ over' = [over EXCEPT ![t] = c.self]
  BY DEF Start
<1>2. c \in Call
  BY ScriptedCalls DEF Start, CompareInv
<1>3. c.op \in Comparison \cup {"insert", "remove"}
  BY <1>2, CallFields
<1>4. /\ call'[t] = c /\ over'[t] = c.self /\ item'[t] = 0
      /\ pc'[t] = CASE c.op \in {"insert", "remove"} -> "write"
                    [] c.op = "eq" -> "eq1"
                    [] OTHER -> "len1"
  BY <1>1 DEF Start, GoTo, CompareInv, ThreadTypes
<1>5. \/ c.op \in {"insert", "remove"} /\ pc'[t] = "write"
      \/ c.op = "eq" /\ pc'[t] = "eq1"
      \/ c.op \in Comparison /\ pc'[t] = "len1"
  BY <1>3, <1>4 DEF Comparison
<1>6. Bare(t)'
  BY DEF Start, CompareInv, Stands, Bare
<1>7. QED
  BY <1>4, <1>5, <1>6
     DEF Comparison, Self, Stands, OnItsWay, Opened, Walking, Latched, Rightward, Walked, Answered

\* The counters decide: the walk has not begun.
LEMMA LensStand ==
  ASSUME CompareInv, NEW t \in Thread,
         ReadOwnLen(t) \/ EqLens(t) \/ SmallerFirst(t) \/ SubsetLens(t)
  PROVE  Stands(t)'
<1> USE TypeParts DEF GoTo, Reply
<1>1. TypeOK /\ Stands(t)
  BY DEF CompareInv
<1>2. ThreadTypes
  BY <1>1
<1>3. /\ pc[t] \in {"eq1", "eq2", "len1", "len2"}
      /\ pc'[t] \in {"eq2", "len1", "len2", "seek", "done"}
      /\ pc'[t] = "done" => ~answer'[t] /\ call[t].op # "is_disjoint"
      /\ call' = call /\ item' = item /\ leaf' = leaf /\ latch' = latch
      /\ pc'[t] \in {"eq2", "len1", "len2"} => over' = over
      /\ pc'[t] = "seek" => \/ over'[t] = Self(t)
                            \/ over'[t] = Other(t) /\ call[t].op = "is_disjoint"
  <2>1. CASE ReadOwnLen(t)
    BY <2>1, <1>2 DEF ReadOwnLen, ThreadTypes, request
  <2>2. CASE EqLens(t)
    BY <2>2, <1>1, <1>2 DEF EqLens, ThreadTypes, Stands, Opened, request, cursor
  <2>3. CASE SmallerFirst(t)
    BY <2>3, <1>2 DEF SmallerFirst, ThreadTypes, request
  <2>4. CASE SubsetLens(t)
    BY <2>4, <1>1, <1>2 DEF SubsetLens, ThreadTypes, Stands, Opened, request, cursor
  <2>5. QED
    BY <2>1, <2>2, <2>3, <2>4
<1>4. Opened(t)'
  <2>1. pc'[t] \in {"eq1", "eq2"} => pc[t] = "eq1"
    BY <1>2, <1>3 DEF ReadOwnLen, EqLens, SmallerFirst, SubsetLens, ThreadTypes
  <2>2. QED
    BY <1>1, <1>3, <2>1 DEF Stands, Opened, Self
<1>5. Walking(t)'
  BY <1>1, <1>3 DEF Stands, Opened, Walking, Self, Other
<1>6. Walked(t)'
  <2> SUFFICES ASSUME NEW v \in Value, pc'[t] = "seek"
               PROVE  ~Passed(t, v)'
    BY <1>3 DEF Walked
  <2>1. item'[t] = 0
    BY <1>1, <1>3 DEF Stands, Opened
  <2>2. v \in Nat /\ v > 0
    BY DEF Value
  <2>3. QED
    BY <2>1, <2>2 DEF Passed
<1>7. Answered(t)'
  <2>1. pc'[t] = "done" => item'[t] = 0
    BY <1>1, <1>3 DEF Stands, Opened
  <2>2. QED
    BY <1>3, <2>1 DEF Answered
<1>8. Bare(t)'
  BY <1>1, <1>3 DEF Stands, Bare
<1>9. QED
  BY <1>3, <1>4, <1>5, <1>6, <1>7, <1>8 DEF Stands, OnItsWay, Latched, Rightward

LEMMA SameSetStands ==
  ASSUME CompareInv, NEW t \in Thread, Remember, SameSet(t)
  PROVE  Stands(t)'
<1>1. TypeOK /\ ThreadTypes /\ Stands(t)
  BY TypeParts DEF CompareInv
<1>2. /\ pc[t] \in {"eq1", "len1"} /\ pc'[t] = "done" /\ call' = call /\ latch' = latch
      /\ Self(t) = Other(t)
      /\ call[t].op # "is_disjoint" => answer'[t]
  BY <1>1 DEF SameSet, Reply, GoTo, ThreadTypes, request
<1>3. hist'[t].lacking = {}
  BY <1>1, <1>2, HistNotes DEF Noted, Self, Other
<1>4. Answered(t)'
  BY <1>2, <1>3 DEF Answered, Self, Other
<1>5. Bare(t)'
  BY <1>1, <1>2 DEF Stands, Bare
<1>6. QED
  BY <1>2, <1>4, <1>5 DEF Stands, OnItsWay, Opened, Walking, Latched, Rightward, Walked

\* The leaf a walk has reached owns a value at or before any it has not passed.
LEMMA NotPassed ==
  ASSUME TypeOK, NEW t \in Thread, pc[t] \in {"seek", "hop"}, NEW v \in Value, ~Passed(t, v)
  PROVE  /\ item[t] \in 0..MaxValue /\ v > item[t]
         /\ \E w \in Value : w <= v /\ home[over[t]][w] = At(t)
<1>1. item[t] \in 0..MaxValue /\ From(t) \in Value
  BY TypeParts, Whereabouts DEF ThreadTypes
<1>2. v > item[t]
  BY <1>1 DEF Passed, Value
<1>3. CASE pc[t] = "seek"
  <2>1. From(t) <= v
    BY <1>1, <1>2 DEF From, Value
  <2>2. home[over[t]][From(t)] = At(t)
    BY <1>3 DEF At
  <2>3. QED
    BY <1>1, <1>2, <2>1, <2>2
<1>4. CASE pc[t] = "hop"
  <2>1. PICK w \in Value : Owns(over[t], At(t), w) /\ ~(v < w)
    BY <1>4 DEF Passed, Left
  <2>2. w <= v
    BY <2>1 DEF Value
  <2>3. QED
    BY <1>1, <1>2, <2>1, <2>2 DEF Owns
<1>5. QED
  BY <1>3, <1>4

\* And any value between two of a leaf is the leaf's.
LEMMA Between ==
  ASSUME Formed, NEW s \in Set, NEW u \in Value, NEW v \in Value, NEW w \in Value,
         u <= v, v <= w, home[s][u] = home[s][w]
  PROVE  home[s][v] = home[s][u]
<1>1. CASE u = v \/ v = w
  BY <1>1
<1>2. CASE u # v /\ v # w
  <2>1. u < v /\ v < w
    BY <1>2 DEF Value
  <2>2. QED
    BY <2>1 DEF Formed, Whole, Unbroken
<1>3. QED
  BY <1>1, <1>2

\* What lies between two items of a walk is not in the set it walks.
LEMMA YieldStands ==
  ASSUME CompareInv, NEW t \in Thread, Remember, Yield(t)
  PROVE  Stands(t)'
<1>1. TypeOK /\ ThreadTypes /\ LatchTypes /\ Stands(t) /\ Formed
  BY TypeParts DEF CompareInv
<1>2. /\ pc[t] \in {"seek", "hop"} /\ pc'[t] = "probe"
      /\ elems' = elems /\ call' = call /\ over' = over /\ home' = home /\ slipped' = slipped
      /\ item'[t] = Min(Ahead(t)) /\ leaf'[t] = At(t)
      /\ latch'[t] = [set |-> over[t], leaf |-> At(t), mode |-> "read"]
  BY <1>1 DEF Yield, GoTo, Hold, ThreadTypes, LatchTypes, sets, shape, request
<1> DEFINE m == Min(Ahead(t))
<1>3. m \in Ahead(t) /\ m \in Value /\ \A v \in Ahead(t) : m <= v
  BY <1>1, NextItem DEF Yield
<1>4. m \in elems[over[t]] /\ home[over[t]][m] = At(t) /\ over[t] \in Set
  BY <1>1, <1>3, Whereabouts DEF Ahead, Records, Owns
<1>5. Walking(t)'
  BY <1>1, <1>2 DEF Stands, Walking, Self, Other
<1>6. Latched(t)'
  BY <1>2, <1>4 DEF Latched
<1>7. Noted(t)'
  BY <1>1, <1>2, HistNotes
<1>8. Walked(t)'
  <2> SUFFICES ASSUME NEW v \in Value, Passed(t, v)'
               PROVE  Clean(t, v)'
    BY DEF Walked
  <2>1. CASE Passed(t, v)
    <3>1. Clean(t, v)
      BY <1>1, <1>2, <2>1 DEF Stands, Walked
    <3>2. QED
      BY <1>1, <1>2, <3>1, StaysClean
  <2>2. CASE ~Passed(t, v)
    <3>1. v < m
      BY <1>2 DEF Passed
    <3>2. PICK w \in Value : w <= v /\ home[over[t]][w] = At(t)
      BY <1>1, <1>2, <2>2, NotPassed
    <3>3. v > item[t]
      BY <1>1, <1>2, <2>2, NotPassed
    <3>4. v <= m
      BY <1>3, <3>1 DEF Value
    <3>5. home[over[t]][v] = At(t)
      BY <1>1, <1>3, <1>4, <3>2, <3>4, Between
    <3>6. v \notin Ahead(t)
      BY <1>3, <3>1 DEF Value
    <3>7. v \notin elems'[over'[t]]
      BY <1>2, <3>3, <3>5, <3>6 DEF Ahead, Records, Owns
    <3>8. QED
      BY <1>2, <1>5, <1>7, <3>7, NotThere DEF Walking
  <2>3. QED
    BY <2>1, <2>2
<1>9. QED
  BY <1>2, <1>5, <1>6, <1>8 DEF Stands, OnItsWay, Opened, Rightward, Bare, Answered

\* Right of a leaf without right neighbour lies nothing.
LEMMA LastLeaf ==
  ASSUME ShapeTypes, NEW s \in Set, NEW l \in Leaf, \A r \in Leaf : ~Adjacent(s, l, r),
         NEW w \in Value, NEW v \in Value, home[s][w] = l, w <= v
  PROVE  home[s][v] = l
<1> SUFFICES ASSUME home[s][v] # l PROVE FALSE
  OBVIOUS
<1> DEFINE B == {u \in Value : u > w /\ home[s][u] # l}
<1>1. v \in B
  <2>1. v > w
    BY v # w DEF Value
  <2>2. QED
    BY <2>1
<1>2. B \subseteq Nat
  BY DEF Value
<1>3. PICK u \in B : \A y \in B : u <= y
  <2> HIDE DEF B
  <2>1. Min(B) \in B /\ \A y \in B : Min(B) <= y
    BY <1>1, <1>2, MinIsLeast
  <2>2. QED
    BY <2>1
<1>4. u \in Value /\ u > w /\ home[s][u] # l
  OBVIOUS
<1>5. u - 1 \in Value /\ (u - 1) + 1 = u
  <2>1. u \in Int /\ w \in Int /\ u > w /\ w >= 1 /\ u <= MaxValue /\ MaxValue \in Int
    BY <1>4, SetAssumption DEF Value
  <2>2. QED
    BY ONLY <2>1 DEF Value
<1>6. home[s][u - 1] = l
  <2>1. CASE u - 1 = w
    BY <2>1
  <2>2. CASE u - 1 # w
    <3>1. u - 1 > w
      BY <1>4, <2>2 DEF Value
    <3>2. u - 1 \notin B
      BY <1>3, <1>4 DEF Value
    <3>3. QED
      BY <1>5, <3>1, <3>2
  <2>3. QED
    BY <2>1, <2>2
<1>7. home[s][u] \in Leaf
  BY <1>4 DEF ShapeTypes
<1>8. Adjacent(s, l, home[s][u])
  BY <1>4, <1>5, <1>6 DEF Adjacent, Owns
<1>9. QED
  BY <1>7, <1>8

\* A leaf without items ahead holds none that the walk has not passed.
LEMMA PassStands ==
  ASSUME CompareInv, NEW t \in Thread, Remember, Pass(t)
  PROVE  Stands(t)'
<1>1. TypeOK /\ ThreadTypes /\ ShapeTypes /\ Stands(t) /\ Formed
  BY TypeParts DEF CompareInv
<1>2. /\ pc[t] \in {"seek", "hop"} /\ Ahead(t) = {}
      /\ elems' = elems /\ call' = call /\ over' = over /\ item' = item /\ latch' = latch
      /\ home' = home /\ leads' = leads /\ slipped' = slipped
      /\ \/ /\ pc'[t] = "hop"
            /\ Adjacent(over[t], At(t), leaf'[t]) /\ leaf'[t] \in Leaf
         \/ /\ \A r \in Leaf : ~Adjacent(over[t], At(t), r)
            /\ pc'[t] = "done" /\ answer'[t] = TRUE
  <2>1. \/ \E r \in Leaf : /\ Adjacent(over[t], At(t), r)
                           /\ leaf' = [leaf EXCEPT ![t] = r]
                           /\ GoTo(t, "hop")
        \/ /\ \A r \in Leaf : ~Adjacent(over[t], At(t), r)
           /\ Reply(t, TRUE)
    BY DEF Pass
  <2>2. QED
    BY <1>1, <2>1 DEF Pass, Reply, GoTo, ThreadTypes, sets, shape, request
<1>3. over[t] \in Set /\ At(t) \in Leaf
  BY <1>1, Whereabouts
<1>4. Noted(t)'
  BY <1>1, <1>2, HistNotes
<1>5. /\ call'[t].op \in Comparison
      /\ over'[t] = Self(t)' \/ (over'[t] = Other(t)' /\ call'[t].op = "is_disjoint")
  BY <1>1, <1>2 DEF Stands, Walking, Self, Other
<1>6. ASSUME NEW v \in Value, Passed(t, v)
      PROVE  Clean(t, v)'
  <2>1. Clean(t, v)
    BY <1>1, <1>2, <1>6 DEF Stands, Walked
  <2>2. QED
    BY <1>1, <1>2, <2>1, StaysClean
<1>7. ASSUME NEW v \in Value, ~Passed(t, v), home[over[t]][v] = At(t)
      PROVE  Clean(t, v)'
  <2>1. v > item[t]
    BY <1>1, <1>2, <1>7, NotPassed
  <2>2. v \notin elems'[over'[t]]
    BY <1>2, <1>7, <2>1 DEF Ahead, Records, Owns
  <2>3. QED
    BY <1>4, <1>5, <2>2, NotThere
<1>8. CASE pc'[t] = "hop"
  <2>1. PICK j \in Value : /\ j + 1 \in Value /\ home[over[t]][j] = At(t)
                           /\ home[over[t]][j + 1] = leaf'[t]
    BY <1>2, <1>8 DEF Adjacent, Owns
  <2>2. At(t)' = leaf'[t]
    BY <1>1, <1>2, <1>3, <1>8, <2>1 DEF At, Formed, Active
  <2>3. OnItsWay(t)'
    BY <1>2, <2>1, <2>2 DEF OnItsWay, Owns
  <2>4. Walked(t)'
    <3> SUFFICES ASSUME NEW v \in Value, Passed(t, v)', ~Passed(t, v)
                 PROVE  Clean(t, v)'
      BY <1>6 DEF Walked
    <3>1. Left(t, v)'
      BY <1>2 DEF Passed
    <3>2. v < j + 1
      BY <1>2, <2>1, <2>2, <3>1 DEF Left, Owns
    <3>3. v <= j
      BY <3>2 DEF Value
    <3>4. PICK w \in Value : w <= v /\ home[over[t]][w] = At(t)
      BY <1>1, <1>2, NotPassed
    <3>5. home[over[t]][v] = At(t)
      BY <1>1, <1>3, <2>1, <3>3, <3>4, Between
    <3>6. QED
      BY <1>7, <3>5
  <2>5. Walking(t)'
    BY <1>5 DEF Walking
  <2>6. Bare(t)'
    BY <1>1, <1>2 DEF Stands, Bare
  <2>7. QED
    BY <1>8, <2>3, <2>4, <2>5, <2>6 DEF Stands, Opened, Latched, Rightward, Answered
<1>9. CASE pc'[t] = "done"
  <2>1. ASSUME NEW v \in Value
        PROVE  Clean(t, v)'
    <3>1. CASE ~Passed(t, v)
      <4>1. PICK w \in Value : w <= v /\ home[over[t]][w] = At(t)
        BY <1>1, <1>2, <3>1, NotPassed
      <4>2. home[over[t]][v] = At(t)
        BY <1>1, <1>2, <1>3, <1>9, <4>1, LastLeaf
      <4>3. QED
        BY <1>7, <3>1, <4>2
    <3>2. QED
      BY <1>6, <3>1
  <2>2. hist'[t].common \subseteq Value /\ hist'[t].lacking \subseteq Value
    <3>1. hist[t] \in HistRec
      BY <1>1, TypeParts DEF HistTypes
    <3>2. QED
      BY <1>1, <1>2, <3>1, HistNotes DEF HistRec
  <2>3. /\ call'[t].op = "is_disjoint" => hist'[t].common \subseteq slipped'[t]
        /\ call'[t].op # "is_disjoint" => hist'[t].lacking \subseteq slipped'[t]
    BY <2>1, <2>2 DEF Clean
  <2>4. Answered(t)'
    BY <1>2, <1>9, <2>3 DEF Answered
  <2>5. Bare(t)'
    BY <1>1, <1>2 DEF Stands, Bare
  <2>6. QED
    BY <1>9, <2>4, <2>5 DEF Stands, OnItsWay, Opened, Walking, Latched, Rightward, Walked
<1>10. QED
  BY <1>2, <1>8, <1>9

\* The lookup happens while the item is in its set, so that what it finds is
\* true of the two sets at one instant.
LEMMA ProbeStands ==
  ASSUME CompareInv, NEW t \in Thread, Remember, Probe(t)
  PROVE  Stands(t)'
<1> DEFINE Found == item[t] \in elems[Against(t)]
<1>1. TypeOK /\ ThreadTypes /\ LatchTypes /\ Stands(t)
  BY TypeParts DEF CompareInv
<1>2. /\ pc[t] = "probe"
      /\ elems' = elems /\ call' = call /\ over' = over /\ item' = item /\ slipped' = slipped
      /\ latch'[t] = NoLatch
      /\ \/ /\ Found <=> call[t].op = "is_disjoint"
            /\ pc'[t] = "done" /\ answer'[t] = FALSE
         \/ /\ ~(Found <=> call[t].op = "is_disjoint")
            /\ pc'[t] = "seek"
  <2>1. \/ (Found <=> call[t].op = "is_disjoint") /\ Reply(t, FALSE)
        \/ ~(Found <=> call[t].op = "is_disjoint") /\ GoTo(t, "seek")
    BY DEF Probe
  <2>2. QED
    BY <1>1, <2>1 DEF Probe, Reply, GoTo, Release, ThreadTypes, LatchTypes, sets, shape,
                      request, cursor
<1>3. Noted(t)'
  BY <1>1, <1>2, HistNotes
<1>4. /\ item[t] \in elems[over[t]]
      /\ \/ over[t] = Self(t) /\ Against(t) = Other(t)
         \/ /\ over[t] = Other(t) /\ Against(t) = Self(t)
            /\ call[t].op = "is_disjoint"
  BY <1>1, <1>2 DEF Stands, Latched, Walking, Against
<1>5. CASE pc'[t] = "done"
  <2>1. call[t].op = "is_disjoint" => hist'[t].met
    <3> SUFFICES ASSUME call[t].op = "is_disjoint"
                 PROVE  elems[Self(t)] \cap elems[Other(t)] # {}
      BY <1>2, <1>3 DEF Noted, Self, Other
    <3>1. item[t] \in elems[Against(t)]
      BY <1>2, <1>5
    <3>2. QED
      BY <1>4, <3>1
  <2>2. call[t].op # "is_disjoint" => hist'[t].gap
    <3> SUFFICES ASSUME call[t].op # "is_disjoint"
                 PROVE  ~(elems[Self(t)] \subseteq elems[Other(t)])
      BY <1>2, <1>3 DEF Noted, Self, Other
    <3>1. item[t] \notin elems[Against(t)]
      BY <1>2, <1>5
    <3>2. QED
      BY <1>4, <3>1
  <2>3. Answered(t)'
    BY <1>2, <1>5, <2>1, <2>2 DEF Answered
  <2>4. QED
    BY <1>2, <1>5, <2>3
       DEF Stands, OnItsWay, Opened, Walking, Latched, Rightward, Bare, Walked
<1>6. CASE pc'[t] = "seek"
  <2>1. ASSUME NEW v \in Value, Passed(t, v)'
        PROVE  Clean(t, v)'
    <3>1. CASE Passed(t, v)
      <4>1. Clean(t, v)
        BY <1>1, <1>2, <3>1 DEF Stands, Walked
      <4>2. QED
        BY <1>1, <1>2, <4>1, StaysClean
    <3>2. CASE v = item[t]
      <4>1. CASE call[t].op = "is_disjoint"
        BY <1>2, <1>3, <1>4, <1>6, <3>2, <4>1 DEF Noted, Self, Other, Clean
      <4>2. CASE call[t].op # "is_disjoint"
        BY <1>2, <1>3, <1>4, <1>6, <3>2, <4>2 DEF Noted, Self, Other, Clean
      <4>3. QED
        BY <4>1, <4>2
    <3>3. QED
      BY <1>2, <1>6, <2>1, <3>1, <3>2 DEF Passed
  <2>2. Walked(t)'
    BY <2>1 DEF Walked
  <2>3. Walking(t)'
    BY <1>1, <1>2 DEF Stands, Walking, Self, Other
  <2>4. QED
    BY <1>2, <1>6, <2>2, <2>3
       DEF Stands, OnItsWay, Opened, Latched, Rightward, Bare, Answered
<1>7. QED
  BY <1>2, <1>5, <1>6

\* A pass that splits, borrows or merges holds no latch afterwards, and its
\* repair starts at a leaf that owns something.
LEMMA RestructureStands ==
  ASSUME CompareInv, TypeOK', NEW t \in Thread, Restructures(t)
  PROVE  Stands(t)'
<1>1. TypeOK /\ ThreadTypes /\ ShapeTypes /\ ShapeTypes' /\ Stands(t) /\ Formed
  BY TypeParts DEF CompareInv, TypeOK, ShapeTypes
<1>2. /\ pc[t] = "descend" /\ pc'[t] \in {"descend", "repair", "enter"}
      /\ call' = call /\ over' = over /\ latch' = latch
  BY <1>1, RestructureKeeps DEF request, ThreadTypes
<1>3. Opened(t)' /\ over[t] = Self(t) /\ Self(t) \in Set
  BY <1>1, <1>2, Whereabouts DEF Stands, Opened, Self
<1>4. latch'[t] = NoLatch
  BY <1>1, <1>2 DEF Stands, Bare
<1>5. Formed'
  BY <1>1, <1>3, RestructureMoves, MovesForm
<1>6. OnItsWay(t)'
  <2> SUFFICES ASSUME pc'[t] = "repair"
               PROVE  \E v \in Value : home'[Self(t)][v] = leads'[Self(t)][leaf'[t]]
    BY <1>2, <1>3 DEF OnItsWay, Owns, At
  <2>1. \E v \in Value : home'[Self(t)][v] = leaf'[t]
    <3>1. CASE Split(t)
      <4>1. PICK y \in Leaf, k \in Value : /\ Raises(Self(t), Target(t), y, k)
                                           /\ leaf' = [leaf EXCEPT ![t] = y]
        BY <1>1, <3>1, SplitMoves
      <4>2. leaf'[t] = y
        BY <1>1, <4>1 DEF ThreadTypes
      <4>3. home'[Self(t)][k] = y
        BY <4>1 DEF Raises, Owns, Value
      <4>4. QED
        BY <4>2, <4>3
    <3>2. CASE Merge(t)
      <4>1. PICK x \in Leaf, y \in Leaf, p \in Leaf :
              /\ Merges(Self(t), x, y)
              /\ p = y \/ Adjacent(Self(t), p, x)
              /\ leaf' = [leaf EXCEPT ![t] = p]
        BY <1>1, <3>2, MergeMoves
      <4>2. leaf'[t] = p
        BY <1>1, <4>1 DEF ThreadTypes
      <4>3. CASE p = y
        <5>1. PICK v \in Value : home[Self(t)][v] = x
          BY <4>1 DEF Merges, Adjacent, Owns
        <5>2. home'[Self(t)][v] = y
          BY <4>1, <5>1 DEF Merges, Owns
        <5>3. QED
          BY <4>2, <4>3, <5>2
      <4>4. CASE Adjacent(Self(t), p, x)
        <5>1. PICK v \in Value : home[Self(t)][v] = p /\ p # x
          BY <4>4 DEF Adjacent, Owns
        <5>2. home'[Self(t)][v] = p
          BY <4>1, <5>1 DEF Merges, Owns
        <5>3. QED
          BY <4>2, <5>2
      <4>5. QED
        BY <4>1, <4>3, <4>4
    <3>3. ~(BorrowFromLeft(t) \/ BorrowFromRight(t))
      <4>1. BorrowFromLeft(t) \/ BorrowFromRight(t) => pc' = [pc EXCEPT ![t] = "enter"]
        BY DEF BorrowFromLeft, BorrowFromRight, GoTo
      <4>2. QED
        BY <1>1, <4>1 DEF ThreadTypes
    <3>4. QED
      BY <3>1, <3>2, <3>3 DEF Restructures
  <2>2. PICK v \in Value : home'[Self(t)][v] = leaf'[t]
    BY <2>1
  <2>3. leads'[Self(t)][leaf'[t]] = leaf'[t]
    BY <1>3, <1>5, <2>2 DEF Formed, Active
  <2>4. QED
    BY <2>2, <2>3
<1>7. QED
  BY <1>2, <1>3, <1>4, <1>6
     DEF Stands, Walking, Latched, Rightward, Bare, Walked, Answered

\* A repair that keeps a leaf latched goes on to the right neighbour.
LEMMA RepairStands ==
  ASSUME CompareInv, NEW t \in Thread, Repair(t)
  PROVE  Stands(t)'
<1>1. TypeOK /\ ThreadTypes /\ ShapeTypes /\ LatchTypes /\ Stands(t) /\ Formed
  BY TypeParts DEF CompareInv
<1>2. over[t] \in Set /\ At(t) \in Leaf
  BY <1>1, Whereabouts
<1>3. /\ pc[t] = "repair" /\ call' = call /\ over' = over /\ home' = home /\ leads' = leads
      /\ \/ pc'[t] = "enter" /\ latch'[t] = NoLatch
         \/ /\ pc'[t] = "repair" /\ leaf'[t] \in Leaf
            /\ Adjacent(over[t], At(t), leaf'[t])
            /\ \/ latch'[t] = [set |-> over[t], leaf |-> At(t), mode |-> "write"]
               \/ latch'[t] = NoLatch
  BY <1>1 DEF Repair, GoTo, Hold, Release, ThreadTypes, LatchTypes, sets, shape, request
<1>4. Opened(t)'
  BY <1>1, <1>3 DEF Stands, Opened, Self
<1>5. CASE pc'[t] = "enter"
  BY <1>3, <1>4, <1>5
     DEF Stands, OnItsWay, Walking, Latched, Rightward, Bare, Walked, Answered
<1>6. CASE pc'[t] = "repair"
  <2>1. PICK j \in Value : /\ j + 1 \in Value /\ home[over[t]][j] = At(t)
                           /\ home[over[t]][j + 1] = leaf'[t]
    BY <1>3, <1>6 DEF Adjacent, Owns
  <2>2. At(t)' = leaf'[t]
    BY <1>1, <1>2, <1>3, <1>6, <2>1 DEF At, Formed, Active
  <2>3. OnItsWay(t)'
    BY <1>3, <2>1, <2>2 DEF OnItsWay, Owns
  <2>4. Rightward(t)'
    <3> SUFFICES ASSUME latch'[t] # NoLatch
                 PROVE  Rightward(t)'
      BY DEF Rightward, NoLatch
    <3>1. latch'[t].set = over[t] /\ latch'[t].leaf = At(t)
      BY <1>3, <1>6
    <3>2. \A v, w \in Value : home[over[t]][v] = At(t) /\ home[over[t]][w] = leaf'[t] => v < w
      BY <1>1, <1>2, <1>3, <1>6, AdjacentApart DEF Owns, Formed
    <3>3. QED
      BY <1>2, <1>3, <2>1, <2>2, <3>1, <3>2 DEF Rightward, Owns
  <2>5. QED
    BY <1>4, <1>6, <2>3, <2>4 DEF Stands, Walking, Latched, Bare, Walked, Answered
<1>7. QED
  BY <1>3, <1>5, <1>6

LEMMA WriterStands ==
  ASSUME CompareInv, NEW t \in Thread,
         Write(t) \/ Enter(t) \/ Descend(t) \/ Count(t) \/ Shrink(t) \/ Return(t)
  PROVE  Stands(t)'
<1>1. ThreadTypes /\ LatchTypes /\ Stands(t)
  BY TypeParts DEF CompareInv
<1>2. \/ /\ pc[t] \in {"write", "enter", "descend", "count", "tally", "shrink"}
         /\ call' = call /\ over' = over
         /\ pc'[t] \in {"done", "descend", "shrink", "count", "tally", "enter"}
         /\ pc'[t] \in {"count", "tally"} \/ latch'[t] = NoLatch
      \/ pc'[t] = "idle" /\ latch'[t] = NoLatch
  <2>1. CASE Write(t) \/ Enter(t)
    <3>1. /\ pc[t] \in {"write", "enter"} /\ call' = call /\ over' = over
          /\ \/ \E label \in {"done", "descend", "shrink"} :
                  pc' = [pc EXCEPT ![t] = label] /\ latch' = latch
             \/ \E label \in {"count", "tally"} : pc' = [pc EXCEPT ![t] = label]
      BY <2>1, WriterSteps DEF request, cursor, Update, GoTo
    <3>2. latch[t] = NoLatch
      BY <1>1, <3>1 DEF Stands, Bare
    <3>3. /\ pc'[t] \in {"done", "descend", "shrink", "count", "tally"}
          /\ pc'[t] \in {"count", "tally"} \/ latch' = latch
      BY <1>1, <3>1 DEF ThreadTypes
    <3>4. QED
      BY <3>1, <3>2, <3>3
  <2>2. CASE Count(t)
    BY <1>1, <2>2 DEF Count, GoTo, Release, ThreadTypes, LatchTypes, request, cursor
  <2>3. CASE Descend(t) \/ Shrink(t)
    <3>1. pc[t] \in {"descend", "shrink"} /\ latch' = latch
      BY <2>3 DEF Descend, Shrink
    <3>2. latch[t] = NoLatch
      BY <1>1, <3>1 DEF Stands, Bare
    <3>3. QED
      BY <1>1, <2>3, <3>1, <3>2 DEF Descend, Shrink, GoTo, ThreadTypes, request, cursor
  <2>4. CASE Return(t)
    <3>1. latch[t] = NoLatch
      BY <1>1, <2>4 DEF Stands, Bare, Return
    <3>2. QED
      BY <1>1, <2>4, <3>1 DEF Return, GoTo, ThreadTypes
  <2>5. QED
    BY <2>1, <2>2, <2>3, <2>4
<1>3. CASE pc'[t] = "idle" /\ latch'[t] = NoLatch
  BY <1>3 DEF Stands, OnItsWay, Opened, Walking, Latched, Rightward, Bare, Walked, Answered
<1>4. CASE pc'[t] # "idle"
  <2>1. call[t].op \in {"insert", "remove"} /\ over[t] = Self(t)
    BY <1>1, <1>2, <1>4 DEF Stands, Opened
  <2>2. Opened(t)' /\ Answered(t)'
    BY <1>2, <1>4, <2>1 DEF Opened, Answered, Self
  <2>3. QED
    BY <1>2, <1>4, <2>2 DEF Stands, OnItsWay, Walking, Latched, Rightward, Bare, Walked
<1>5. QED
  BY <1>2, <1>3, <1>4

-----------------------------------------------------------------------------
(***************************************************************************)
(* The invariant, and the answers.                                         *)
(***************************************************************************)
LEMMA InitCompare == Init => CompareInv
<1> SUFFICES ASSUME Init
             PROVE  Formed /\ \A t \in Thread : Stands(t)
  BY InitTyped DEF CompareInv
<1>1. Formed
  <2> SUFFICES ASSUME NEW s \in Set
               PROVE  Whole(s) /\ Active(s)
    BY DEF Formed
  <2>1. home[s] = Borders[scene][s] /\ home[s] \in [Value -> Leaf] /\ Unbroken(home[s])
    BY SetAssumption DEF Init
  <2>2. leads[s] = [l \in Leaf |-> l]
    BY DEF Init
  <2>3. QED
    BY <2>1, <2>2 DEF Whole, Active
<1>2. ASSUME NEW t \in Thread
      PROVE  Stands(t)
  <2>1. pc[t] = "idle" /\ latch[t] = NoLatch
    BY DEF Init
  <2>2. QED
    BY <2>1 DEF Stands, OnItsWay, Opened, Walking, Latched, Rightward, Bare, Walked, Answered
<1>3. QED
  BY <1>1, <1>2

LEMMA NextCompare == ASSUME CompareInv, [Next]_vars PROVE CompareInv'
<1>1. TypeOK' /\ TypeOK /\ Formed
  BY NextTyped DEF CompareInv
<1>2. CASE UNCHANGED vars
  <2>1. Formed'
    BY <1>1, <1>2 DEF Formed, Whole, Active, vars, sets, shape
  <2>2. ASSUME NEW t \in Thread
        PROVE  Stands(t)'
    <3>1. Stands(t)
      BY DEF CompareInv
    <3>2. /\ elems' = elems /\ home' = home /\ leads' = leads /\ slipped' = slipped
          /\ pc' = pc /\ call' = call /\ over' = over /\ item' = item /\ leaf' = leaf
          /\ latch' = latch /\ answer' = answer /\ hist' = hist
      BY <1>2 DEF vars, threads, sets, shape, request, cursor
    <3>3. At(t)' = At(t) /\ Self(t)' = Self(t) /\ Other(t)' = Other(t)
      BY <3>2 DEF At, From, Self, Other
    <3>4. (OnItsWay(t) /\ Opened(t) /\ Walking(t) /\ Latched(t) /\ Rightward(t) /\ Bare(t))'
      BY <3>1, <3>2, <3>3 DEF Stands, OnItsWay, Opened, Walking, Latched, Rightward, Bare, Owns
    <3>5. \A v \in Value : (Passed(t, v)' <=> Passed(t, v)) /\ (Clean(t, v)' <=> Clean(t, v))
      BY <3>2, <3>3 DEF Passed, Left, Owns, Clean
    <3>6. (Walked(t) /\ Answered(t))'
      BY <3>1, <3>2, <3>3, <3>5 DEF Stands, Walked, Answered
    <3>7. QED
      BY <3>4, <3>6 DEF Stands
  <2>3. QED
    BY <1>1, <2>1, <2>2 DEF CompareInv
<1>3. ASSUME NEW t \in Thread, Start(t) \/ Step(t), Remember
      PROVE  CompareInv'
  <2>1. Formed'
    <3>1. CASE Restructures(t)
      <4>1. ShapeTypes /\ ShapeTypes' /\ Self(t) \in Set
        BY <1>1, Whereabouts DEF TypeOK, ShapeTypes
      <4>2. QED
        BY <1>1, <3>1, <4>1, RestructureMoves, MovesForm
    <3>2. CASE ~Restructures(t)
      <4>1. home' = home /\ leads' = leads
        BY <1>3, <3>2, BordersKept
      <4>2. QED
        BY <1>1, <4>1 DEF Formed, Whole, Active
    <3>3. QED
      BY <3>1, <3>2
  <2>2. ASSUME NEW u \in Thread
        PROVE  Stands(u)'
    <3>1. CASE u # t
      BY <1>1, <1>3, <3>1, OthersStand
    <3>2. Start(t) => Stands(t)'
      BY StartStands
    <3>3. Step(t) => Stands(t)'
      <4> SUFFICES ASSUME Step(t) PROVE Stands(t)'
        OBVIOUS
      <4>1. CASE Restructures(t)
        BY <1>1, <4>1, RestructureStands
      <4>2. CASE SameSet(t) \/ ReadOwnLen(t) \/ EqLens(t) \/ SmallerFirst(t) \/ SubsetLens(t)
        BY <1>3, <4>2, SameSetStands, LensStand
      <4>3. CASE Yield(t) \/ Pass(t) \/ Probe(t)
        BY <1>3, <4>3, YieldStands, PassStands, ProbeStands
      <4>4. CASE Repair(t)
        BY <4>4, RepairStands
      <4>5. CASE Write(t) \/ Enter(t) \/ Descend(t) \/ Count(t) \/ Shrink(t) \/ Return(t)
        BY <4>5, WriterStands
      <4>6. QED
        BY <4>1, <4>2, <4>3, <4>4, <4>5 DEF Step, Restructures
    <3>4. QED
      BY <1>3, <3>1, <3>2, <3>3
  <2>3. QED
    BY <1>1, <2>1, <2>2 DEF CompareInv
<1>4. QED
  BY <1>2, <1>3 DEF Next, Finished

LEMMA CompareHolds == Spec => []CompareInv
<1>1. Init => CompareInv
  BY InitCompare
<1>2. CompareInv /\ [Next]_vars => CompareInv'
  BY NextCompare
<1>3. QED
  BY <1>1, <1>2, PTL DEF Spec

\* is_disjoint says no only if the sets shared a value at some instant of the
\* call, and yes only if no value was in both all the time but those that a
\* borrow carried past its walk between two leaves, however inserts and removes
\* of any number of threads split, refill and merge leaves between its steps.
THEOREM DisjointIsTrue == Spec => []DisjointAnswersTrue
<1>1. CompareInv => DisjointAnswersTrue
  BY DEF CompareInv, Stands, Answered, DisjointAnswersTrue, Replied
<1>2. QED
  BY <1>1, CompareHolds, PTL

\* is_subset and == say yes only if no value was in self and not in other all
\* the time but those that a borrow carried past the walk; a walk says no only
\* if self was no subset of other at some instant.
THEOREM SubsetIsTrue == Spec => []SubsetWalksTrue
<1>1. CompareInv => SubsetWalksTrue
  BY DEF CompareInv, Stands, Answered, SubsetWalksTrue, Replied
<1>2. QED
  BY <1>1, CompareHolds, PTL

-----------------------------------------------------------------------------
(***************************************************************************)
(* Waiting.                                                                *)
(***************************************************************************)
\* What a thread asks for, and that the leaf it asks for owns something.
LEMMA WishOf ==
  ASSUME CompareInv, NEW t \in Thread
  PROVE  /\ pc[t] = "probe" =>
              Wish(t) = [set |-> Against(t), leaf |-> home[Against(t)][item[t]], mode |-> "read"]
         /\ pc[t] = "repair" =>
              Wish(t) = [set |-> over[t], leaf |-> At(t), mode |-> "write"]
         /\ pc[t] \in {"count", "tally"} => Wish(t) = NoLatch
         /\ Wish(t) # NoLatch =>
              /\ Wish(t).set \in Set /\ Wish(t).mode \in {"read", "write"}
              /\ \E v \in Value : home[Wish(t).set][v] = Wish(t).leaf
<1>1. TypeOK /\ Stands(t) /\ ThreadTypes /\ SetTypes
  BY TypeParts DEF CompareInv
<1>2. /\ Self(t) \in Set /\ over[t] \in Set /\ Against(t) \in Set
      /\ call[t].val \in Value /\ From(t) \in Value
  BY <1>1, Whereabouts
<1>3. /\ pc[t] \in {"seek", "hop"} =>
           Wish(t) = [set |-> over[t], leaf |-> At(t), mode |-> "read"]
      /\ pc[t] = "probe" =>
           Wish(t) = [set |-> Against(t), leaf |-> home[Against(t)][item[t]], mode |-> "read"]
      /\ \/ pc[t] \in {"write", "enter"}
         \/ pc[t] \in {"descend", "shrink"} /\ Sole(Self(t), Target(t))
         => Wish(t) = [set |-> Self(t), leaf |-> Target(t), mode |-> "write"]
      /\ pc[t] = "repair" =>
           Wish(t) = [set |-> over[t], leaf |-> At(t), mode |-> "write"]
      /\ ~ \/ pc[t] \in {"seek", "hop", "probe", "write", "enter", "repair"}
           \/ pc[t] \in {"descend", "shrink"} /\ Sole(Self(t), Target(t))
         => Wish(t) = NoLatch
  BY DEF Wish
<1>4. CASE pc[t] \in {"seek", "hop", "repair"}
  <2>1. \E v \in Value : home[over[t]][v] = At(t)
    <3>1. CASE pc[t] = "seek"
      BY <1>2, <3>1 DEF At
    <3>2. CASE pc[t] \in {"hop", "repair"}
      BY <1>1, <3>2 DEF Stands, OnItsWay, Owns
    <3>3. QED
      BY <1>4, <3>1, <3>2
  <2>2. Wish(t).set = over[t] /\ Wish(t).leaf = At(t) /\ Wish(t).mode \in {"read", "write"}
    BY <1>3, <1>4
  <2>3. QED
    BY <1>2, <1>3, <1>4, <2>1, <2>2
<1>5. CASE pc[t] = "probe"
  <2>1. item[t] \in Value
    BY <1>1, <1>2, <1>5 DEF Stands, Latched, SetTypes
  <2>2. /\ Wish(t).set = Against(t) /\ Wish(t).leaf = home[Against(t)][item[t]]
        /\ Wish(t).mode \in {"read", "write"}
    BY <1>3, <1>5
  <2>3. QED
    BY <1>2, <1>3, <1>5, <2>1, <2>2
<1>6. CASE \/ pc[t] \in {"write", "enter"}
           \/ pc[t] \in {"descend", "shrink"} /\ Sole(Self(t), Target(t))
  <2>1. Wish(t).set = Self(t) /\ Wish(t).leaf = Target(t) /\ Wish(t).mode \in {"read", "write"}
    BY <1>3, <1>6
  <2>2. QED
    BY <1>2, <1>3, <1>6, <2>1 DEF Target
<1>7. CASE ~ \/ pc[t] \in {"seek", "hop", "probe", "write", "enter", "repair"}
             \/ pc[t] \in {"descend", "shrink"} /\ Sole(Self(t), Target(t))
  BY <1>3, <1>7
<1>8. QED
  BY <1>4, <1>5, <1>6, <1>7

\* The least value of a leaf tells how far right the leaf lies.
First(s, l) == Min({v \in Value : home[s][v] = l})

LEMMA FirstOf ==
  ASSUME NEW s, NEW l, \E v \in Value : home[s][v] = l
  PROVE  First(s, l) \in Value /\ home[s][First(s, l)] = l
<1> DEFINE O == {v \in Value : home[s][v] = l}
<1>1. O \subseteq Nat /\ O # {}
  BY DEF Value
<1>2. Min(O) \in O
  <2> HIDE DEF O
  <2> QED
    BY <1>1, MinIsLeast
<1>3. QED
  BY <1>2 DEF First

\* Whoever is waited for and waits, too, asks for a later set, for a leaf
\* further right, or is the writer queued before a reader.
LEMMA WaitReachesFurther ==
  ASSUME CompareInv, NEW n \in Nat, NEW place \in [Set -> 0..n],
         \A t \in Thread : pc[t] = "probe" => place[over[t]] < place[Against(t)],
         NEW t \in Thread, NEW u \in Thread, WaitsFor(t, u), Wish(u) # NoLatch
  PROVE  \/ place[Wish(t).set] < place[Wish(u).set]
         \/ /\ Wish(u).set = Wish(t).set
            /\ First(Wish(t).set, Wish(t).leaf) < First(Wish(u).set, Wish(u).leaf)
         \/ /\ Wish(u).set = Wish(t).set /\ Wish(u).leaf = Wish(t).leaf
            /\ Wish(t).mode = "read" /\ Wish(u).mode = "write"
<1> DEFINE w == Wish(t)
<1>1. Stands(u)
  BY DEF CompareInv
<1>2. /\ w # NoLatch /\ w.set \in Set
      /\ \/ Has(u, w.set, w.leaf)
         \/ w.mode = "read" /\ Wish(u) = [w EXCEPT !.mode = "write"]
  BY WishOf DEF WaitsFor
<1>3. CASE Has(u, w.set, w.leaf)
  <2>1. latch[u].set = w.set /\ latch[u].leaf = w.leaf
    BY <1>3 DEF Has
  <2>2. latch[u] # NoLatch
    BY <1>2, <2>1, SetAssumption DEF NoLatch
  <2>3. pc[u] \in {"probe", "repair"}
    BY <1>1, <2>2, WishOf DEF Stands, Bare
  <2>4. CASE pc[u] = "probe"
    <3>1. over[u] = w.set
      BY <1>1, <2>1, <2>4 DEF Stands, Latched
    <3>2. Wish(u).set = Against(u)
      BY <2>4, WishOf
    <3>3. QED
      BY <2>4, <3>1, <3>2
  <2>5. CASE pc[u] = "repair"
    <3>1. /\ latch[u].set = over[u]
          /\ \E v \in Value : home[over[u]][v] = latch[u].leaf
          /\ \A v, x \in Value : home[over[u]][v] = latch[u].leaf /\ home[over[u]][x] = At(u) => v < x
      BY <1>1, <2>2, <2>5 DEF Stands, Rightward, Owns
    <3>2. Wish(u).set = over[u] /\ Wish(u).leaf = At(u)
      BY <2>5, WishOf
    <3>3. \E v \in Value : home[over[u]][v] = At(u)
      BY <3>2, WishOf
    <3>4. First(over[u], latch[u].leaf) < First(over[u], At(u))
      BY <3>1, <3>3, FirstOf
    <3>5. QED
      BY <2>1, <3>1, <3>2, <3>4
  <2>6. QED
    BY <2>3, <2>4, <2>5
<1>4. CASE w.mode = "read" /\ Wish(u) = [w EXCEPT !.mode = "write"]
  <2>1. w = [set |-> w.set, leaf |-> w.leaf, mode |-> w.mode]
    BY <1>2, WishOf DEF Wish
  <2>2. Wish(u).set = w.set /\ Wish(u).leaf = w.leaf /\ Wish(u).mode = "write"
    BY <1>4, <2>1
  <2>3. QED
    BY <1>4, <2>2
<1>5. QED
  BY <1>2, <1>3, <1>4

\* Comparisons that all look from a set to one further on in some order, be it
\* by address or because they all ask the same question, never block each other
\* for ever, with any number of sets, threads, queued writers and repairs that
\* go right with a leaf in hand: what the two is_disjoint calls of the cross
\* scene lack is this order.
THEOREM OrderedComparisonsGoOn == Spec => [](OneDirection => NoComparisonCycle)
<1>1. ASSUME CompareInv, OneDirection
      PROVE  NoComparisonCycle
  <2> DEFINE n == Cardinality(Set)
  <2>1. n \in Nat
    BY SetAssumption, FS_CardinalityType
  <2>2. PICK place \in [Set -> 0..n] :
          \A t \in Thread : pc[t] = "probe" => place[over[t]] < place[Against(t)]
    BY <1>1 DEF OneDirection
  <2> HIDE DEF n
  <2>3. SUFFICES ASSUME NEW T \in SUBSET Thread, T # {},
                        \A t \in T : \E u \in T : WaitsFor(t, u)
                 PROVE  FALSE
    BY DEF NoComparisonCycle
  <2> DEFINE At1(t) == Wish(t).set
             At2(t) == First(Wish(t).set, Wish(t).leaf)
  <2>4. ASSUME NEW t \in T
        PROVE  /\ Wish(t) # NoLatch /\ At1(t) \in Set /\ place[At1(t)] \in 0..n
               /\ At2(t) \in Value
    <3>1. Wish(t) # NoLatch
      BY <2>3 DEF WaitsFor
    <3>2. At1(t) \in Set /\ \E v \in Value : home[Wish(t).set][v] = Wish(t).leaf
      BY <1>1, <3>1, WishOf
    <3>3. QED
      BY <3>1, <3>2, FirstOf
  <2>5. PICK t \in T : \A u \in T : place[At1(u)] <= place[At1(t)]
    <3> DEFINE rank == [u \in T |-> place[At1(u)]]
    <3>1. \A u \in T : rank[u] \in 0..n
      BY <2>4
    <3>2. \E x \in T : \A u \in T : rank[u] <= rank[x]
      <4> HIDE DEF rank
      <4> QED
        BY <2>1, <2>3, <3>1, HighestExists
    <3>3. QED
      BY <3>2
  <2> DEFINE R == {u \in T : At1(u) = At1(t)}
  <2>6. PICK x \in R : \A u \in R : At2(u) <= At2(x)
    <3> DEFINE rank == [u \in R |-> At2(u)]
    <3>1. \A u \in R : rank[u] \in 0..MaxValue
      BY <2>4 DEF Value
    <3>2. R # {} /\ MaxValue \in Nat
      BY SetAssumption
    <3>3. \E y \in R : \A u \in R : rank[u] <= rank[y]
      <4> HIDE DEF rank, R
      <4> QED
        BY <3>1, <3>2, HighestExists
    <3>4. QED
      BY <3>3
  <2>7. ASSUME NEW y \in R, At2(y) = At2(x)
        PROVE  \E u \in R : /\ Wish(u).leaf = Wish(y).leaf
                            /\ Wish(y).mode = "read" /\ Wish(u).mode = "write"
    <3>1. PICK u \in T : WaitsFor(y, u)
      BY <2>3
    <3>2. Wish(u) # NoLatch
      BY <2>4
    <3>3. \/ place[At1(y)] < place[At1(u)]
          \/ At1(u) = At1(y) /\ At2(y) < At2(u)
          \/ /\ At1(u) = At1(y) /\ Wish(u).leaf = Wish(y).leaf
             /\ Wish(y).mode = "read" /\ Wish(u).mode = "write"
      BY <1>1, <2>1, <2>2, <3>1, <3>2, WaitReachesFurther
    <3>4. ~(place[At1(y)] < place[At1(u)])
      <4>1. place[At1(u)] <= place[At1(y)]
        BY <2>5, <2>7
      <4>2. place[At1(u)] \in Int /\ place[At1(y)] \in Int
        BY <2>4, <2>7
      <4> HIDE DEF At1
      <4>3. QED
        BY <4>1, <4>2
    <3>5. ~(At1(u) = At1(y) /\ At2(y) < At2(u))
      <4> SUFFICES ASSUME At1(u) = At1(y) PROVE ~(At2(y) < At2(u))
        OBVIOUS
      <4>1. At2(u) <= At2(y)
        BY <2>6, <2>7
      <4>2. At2(u) \in Int /\ At2(y) \in Int
        BY <2>4, <2>7 DEF Value
      <4> HIDE DEF At2
      <4>3. QED
        BY <4>1, <4>2
    <3>6. QED
      BY <2>7, <3>3, <3>4, <3>5
  <2>8. PICK u \in R : Wish(u).leaf = Wish(x).leaf /\ Wish(u).mode = "write"
    BY <2>7
  <2>9. At2(u) = At2(x)
    BY <2>8
  <2>10. Wish(u).mode = "read"
    BY <2>7, <2>9
  <2>11. QED
    BY <2>8, <2>10
<1>2. QED
  BY <1>1, CompareHolds, PTL
=============================================================================
