--------------------------- MODULE FixedArrayProofs -------------------------
(***************************************************************************)
(* The representation invariants of Array<T> hold for any number of arrays *)
(* and elements and for any capacities.  TypeOK, RangeInitialized and      *)
(* OwnedOnce are inductive together: that an element leaves one range and  *)
(* enters another needs that it was in one place only, and a destructor    *)
(* starts for the first time because what an array owns is alive.          *)
(*                                                                         *)
(* Each operation is first described by what it does to the slots (Enters, *)
(* Leaves, Joins, Divides).  From that follow the invariant and, with it,  *)
(* that the operation does the same to the sequence of initialized slots   *)
(* as OwnedSequences: the array refines it.                                *)
(***************************************************************************)
EXTENDS FixedArray, SequenceTheorems, TLAPS

Inv == TypeOK /\ RangeInitialized /\ OwnedOnce

Bytes == Elem \cup {NoElem}

\* Capacities are numbers.
LEMMA CapNat == \A c \in Caps \cup {0} : c \in Nat
  BY CapsAssumption

\* Facts every step uses about the arrays of a state.
LEMMA Shape ==
  ASSUME Inv, NEW a \in Arr
  PROVE  /\ len[a] \in Nat /\ cap[a] \in Nat /\ len[a] <= cap[a]
         /\ mem[a] \in [0..(cap[a] - 1) -> Bytes]
         /\ \A i \in Initialized(a) :
              /\ i \in 0..(cap[a] - 1) /\ mem[a][i] \in Elem
              /\ mem[a][i] \notin user /\ drops[mem[a][i]] = 0
<1>1. len[a] \in Nat /\ cap[a] \in Nat /\ len[a] <= cap[a]
  <2>1. len[a] \in Nat /\ cap[a] \in Caps \cup {0}
    BY DEF Inv, TypeOK
  <2>2. len[a] <= cap[a]
    BY DEF Inv, RangeInitialized
  <2> QED BY <2>1, <2>2, CapNat
<1>2. mem[a] \in [0..(cap[a] - 1) -> Bytes]
  BY DEF Inv, TypeOK, Bytes
<1>3. \A i \in Initialized(a) : i \in 0..(cap[a] - 1)
  BY <1>1 DEF Initialized
<1>4. \A i \in Initialized(a) : mem[a][i] \in Elem
  BY DEF Inv, RangeInitialized
<1>5. \A i \in Initialized(a) : mem[a][i] \notin user /\ drops[mem[a][i]] = 0
  BY DEF Inv, OwnedOnce, OwnedAlive
<1> QED BY <1>1, <1>2, <1>3, <1>4, <1>5

\* A copy within bounds writes bytes, and only where it should.
LEMMA CopiedBytes ==
  ASSUME NEW c \in Nat, NEW d \in Nat, NEW i \in Nat, NEW j \in Nat, NEW n \in Nat,
         NEW src \in [0..(c - 1) -> Bytes], NEW dst \in [0..(d - 1) -> Bytes],
         i + n <= c
  PROVE  /\ Copied(src, i, dst, j, n) \in [0..(d - 1) -> Bytes]
         /\ \A k \in 0..(d - 1) :
              /\ j <= k /\ k < j + n => Copied(src, i, dst, j, n)[k] = src[i + (k - j)]
              /\ k < j \/ k >= j + n => Copied(src, i, dst, j, n)[k] = dst[k]
<1>1. ASSUME NEW k \in 0..(d - 1), j <= k, k < j + n
      PROVE  i + (k - j) \in 0..(c - 1)
  BY <1>1
<1> QED BY <1>1 DEF Copied

\* A new behaviour starts without arrays.
LEMMA InitInv == Init => Inv
  BY DEF Init, Inv, TypeOK, Status, RangeInitialized, OwnedOnce, SlotsDistinct,
         OwnedAlive, NothingForgotten, FreedEmpty, Initialized

LEMMA WithCapacityInv ==
  ASSUME Inv, NEW a \in Arr, NEW c \in Caps, WithCapacity(a, c)
  PROVE  Inv'
<1>1. len[a] = 0
  BY DEF Inv, OwnedOnce, FreedEmpty, WithCapacity
<1>2. TypeOK'
  BY CapsAssumption DEF Inv, TypeOK, Status, WithCapacity, Allocate, Bare
<1>3. \A b \in Arr : Initialized(b)' = Initialized(b)
                     /\ \A i \in Initialized(b) : mem'[b][i] = mem[b][i]
  BY <1>1 DEF Inv, TypeOK, Initialized, WithCapacity
<1>4. RangeInitialized'
  BY <1>1, <1>3, CapsAssumption
  DEF Inv, TypeOK, RangeInitialized, WithCapacity, Allocate
<1>5. SlotsDistinct' /\ OwnedAlive' /\ NothingForgotten'
  BY <1>3 DEF Inv, OwnedOnce, SlotsDistinct, OwnedAlive, NothingForgotten,
              WithCapacity
<1>6. FreedEmpty'
  BY <1>1 DEF Inv, TypeOK, OwnedOnce, FreedEmpty, WithCapacity, Allocate
<1> QED BY <1>2, <1>4, <1>5, <1>6 DEF Inv, OwnedOnce

\* What a step does to the slots: it leaves every array but those in A alone.
Untouched(A) ==
  \A b \in Arr \ A : Initialized(b)' = Initialized(b) /\ mem'[b] = mem[b]

\* When elements only change places, the parts of Inv' follow from three facts
\* about the slots: every element was in one before, no two slots have the same
\* element, and every element is still in one.
LEMMA Rearranged ==
  ASSUME Inv, TypeOK', FreedEmpty', SlotsDistinct', UNCHANGED <<user, drops>>,
         \A b \in Arr : len'[b] <= cap'[b],
         \A b \in Arr : \A i \in Initialized(b)' :
            \E c \in Arr : \E j \in Initialized(c) : mem'[b][i] = mem[c][j],
         \A b \in Arr : \A i \in Initialized(b) :
            \E c \in Arr : \E j \in Initialized(c)' : mem'[c][j] = mem[b][i]
  PROVE  Inv'
<1>1. RangeInitialized'
  BY Shape DEF RangeInitialized
<1>2. OwnedAlive'
  BY DEF Inv, OwnedOnce, OwnedAlive
<1>3. NothingForgotten'
  <2> SUFFICES ASSUME NEW e \in Elem, e \notin user, drops[e] # 1
               PROVE  \E c \in Arr : \E j \in Initialized(c)' : mem'[c][j] = e
    BY DEF NothingForgotten
  <2>1. PICK b \in Arr : \E i \in Initialized(b) : mem[b][i] = e
    BY DEF Inv, OwnedOnce, NothingForgotten
  <2> QED BY <2>1
<1> QED BY <1>1, <1>2, <1>3 DEF Inv, OwnedOnce

\* split_off: array b gets the elements of array a from index at on.
Divides(a, b, at, T) ==
  /\ T \in [0..(cap[a] - 1) -> Bytes]
  /\ mem' = [mem EXCEPT ![b] = T]
  /\ \A k \in 0..(len[a] - at - 1) : T[k] = mem[a][at + k]

LEMMA SplitOffDivides ==
  ASSUME Inv, NEW a \in Arr, NEW b \in Arr, NEW at \in 0..len[a], SplitOff(a, b, at)
  PROVE  \E T : Divides(a, b, at, T)
<1> DEFINE T == Copied(mem[a], at, Bare(cap[a]), 0, len[a] - at)
<1>1. /\ len[a] \in Nat /\ cap[a] \in Nat /\ len[a] <= cap[a] /\ at \in Nat
      /\ len[a] - at \in Nat /\ at + (len[a] - at) <= cap[a]
      /\ mem[a] \in [0..(cap[a] - 1) -> Bytes]
      /\ Bare(cap[a]) \in [0..(cap[a] - 1) -> Bytes]
  <2>1. len[a] \in Nat /\ cap[a] \in Nat /\ len[a] <= cap[a]
        /\ mem[a] \in [0..(cap[a] - 1) -> Bytes]
    BY Shape
  <2> QED BY <2>1 DEF Bare, Bytes
<1>2. /\ T \in [0..(cap[a] - 1) -> Bytes]
      /\ \A k \in 0..(len[a] - at - 1) : T[k] = mem[a][at + k]
  <2>1. DOMAIN T = 0..(cap[a] - 1)
    BY <1>1 DEF Copied
  <2>2. ASSUME NEW k \in 0..(len[a] - at - 1)
        PROVE  T[k] = mem[a][at + k]
    BY <1>1 DEF Copied
  <2>3. ASSUME NEW k \in 0..(cap[a] - 1), k > len[a] - at - 1
        PROVE  T[k] = Bare(cap[a])[k]
    BY <1>1, <2>3 DEF Copied
  <2>4. ASSUME NEW k \in 0..(cap[a] - 1)
        PROVE  T[k] \in Bytes
    <3>1. CASE k <= len[a] - at - 1
      <4>1. at + k \in 0..(cap[a] - 1) /\ k \in 0..(len[a] - at - 1)
        BY <1>1, <3>1
      <4> QED BY <1>1, <2>2, <4>1
    <3>2. CASE k > len[a] - at - 1
      BY <1>1, <2>3, <3>2
    <3> QED BY <1>1, <3>1, <3>2
  <2>5. T = [k \in 0..(cap[a] - 1) |-> T[k]]
    BY <2>1 DEF Copied
  <2> QED BY <2>2, <2>4, <2>5
<1>3. mem' = [mem EXCEPT ![b] = T]
  BY DEF SplitOff
<1> HIDE DEF T
<1> QED BY <1>2, <1>3 DEF Divides

LEMMA SplitOffInv ==
  ASSUME Inv, NEW a \in Arr, NEW b \in Arr, NEW at \in 0..len[a], SplitOff(a, b, at)
  PROVE  Inv'
<1> DEFINE OldArr(x)    == IF x = b THEN a ELSE x
           OldPos(x, i) == IF x = b THEN at + i ELSE i
<1>1. a # b /\ len[b] = 0
  BY DEF Inv, OwnedOnce, FreedEmpty, SplitOff, Live
<1>2. /\ len[a] \in Nat /\ cap[a] \in Nat /\ len[a] <= cap[a] /\ at \in Nat
      /\ len[a] - at \in Nat
  <2>1. len[a] \in Nat /\ cap[a] \in Nat /\ len[a] <= cap[a]
    BY Shape
  <2> QED BY <2>1
<1> PICK T : Divides(a, b, at, T)
  BY SplitOffDivides
<1>3. /\ T \in [0..(cap[a] - 1) -> Bytes]
      /\ \A k \in 0..(len[a] - at - 1) : T[k] = mem[a][at + k]
  BY DEF Divides
<1>4. mem' = [mem EXCEPT ![b] = T]
  BY DEF Divides
<1>5. TypeOK'
  <2>1. status' \in [Arr -> Status]
    BY DEF Inv, TypeOK, SplitOff, Allocate, Status
  <2>2. cap' \in [Arr -> Caps \cup {0}] /\ cap' = [cap EXCEPT ![b] = cap[a]]
    BY DEF Inv, TypeOK, SplitOff, Allocate
  <2>3. len' \in [Arr -> Nat]
    BY <1>2 DEF Inv, TypeOK, SplitOff, SplitLengths
  <2>4. \A x \in Arr : mem'[x] \in [0..(cap'[x] - 1) -> Bytes]
    BY <1>3, <1>4, <2>2, Shape DEF Inv, TypeOK
  <2> QED BY <1>4, <2>1, <2>2, <2>3, <2>4 DEF Inv, TypeOK, SplitOff, Bytes
<1>6. /\ Initialized(a)' = 0..(at - 1) /\ Initialized(b)' = 0..(len[a] - at - 1)
      /\ Untouched({a, b}) /\ mem'[a] = mem[a] /\ mem'[b] = T
  BY <1>1, <1>4 DEF SplitOff, SplitLengths, Inv, TypeOK, Initialized, Untouched
<1>7. FreedEmpty'
  BY <1>2 DEF Inv, TypeOK, OwnedOnce, FreedEmpty, SplitOff, Allocate, SplitLengths, Live
<1>8. \A x \in Arr : len'[x] <= cap'[x]
  BY <1>2, Shape DEF Inv, TypeOK, SplitOff, Allocate, SplitLengths
<1>9. \A x \in Arr : \A i \in Initialized(x)' :
        /\ i \in Int
        /\ OldArr(x) \in Arr /\ OldPos(x, i) \in Initialized(OldArr(x))
        /\ mem'[x][i] = mem[OldArr(x)][OldPos(x, i)]
  <2> TAKE x \in Arr
  <2> TAKE i \in Initialized(x)'
  <2>1. CASE x = a
    <3>1. i \in 0..(at - 1) /\ OldArr(x) = a /\ OldPos(x, i) = i
      BY <1>1, <1>6, <2>1
    <3>2. i \in Initialized(a)
      BY <1>2, <3>1 DEF Initialized
    <3> QED BY <1>6, <2>1, <3>1, <3>2
  <2>2. CASE x = b
    <3>1. i \in 0..(len[a] - at - 1) /\ OldArr(x) = a /\ OldPos(x, i) = at + i
      BY <1>6, <2>2
    <3>2. at + i \in Initialized(a)
      BY <1>2, <3>1 DEF Initialized
    <3>3. T[i] = mem[a][at + i] /\ i \in Int
      BY <1>3, <3>1
    <3>4. mem'[x][i] = T[i]
      BY <1>6, <2>2
    <3> QED BY <3>1, <3>2, <3>3, <3>4
  <2>3. CASE x \notin {a, b}
    <3>1. i \in Initialized(x) /\ OldArr(x) = x /\ OldPos(x, i) = i
      BY <1>6, <2>3 DEF Untouched
    <3>2. i \in Int
      BY <3>1 DEF Initialized
    <3> QED BY <1>6, <2>3, <3>1, <3>2 DEF Untouched
  <2> QED BY <2>1, <2>2, <2>3
<1>10. SlotsDistinct'
  <2> SUFFICES ASSUME NEW x \in Arr, NEW y \in Arr,
                      NEW i \in Initialized(x)', NEW j \in Initialized(y)',
                      mem'[x][i] = mem'[y][j]
               PROVE  x = y /\ i = j
    BY DEF SlotsDistinct
  <2> HIDE DEF OldArr, OldPos
  <2>1. OldArr(x) = OldArr(y) /\ OldPos(x, i) = OldPos(y, j)
    BY <1>9 DEF Inv, OwnedOnce, SlotsDistinct
  <2>2. i \in Int /\ j \in Int
    BY <1>9
  <2>3. CASE x \in {a, b} /\ y \in {a, b}
    BY <1>1, <1>2, <1>6, <2>1, <2>2, <2>3, SMTT(30) DEF OldArr, OldPos
  <2>4. CASE x \notin {a, b} \/ y \notin {a, b}
    BY <2>1, <2>4 DEF OldArr, OldPos
  <2> QED BY <2>3, <2>4
<1>11. \A x \in Arr : \A i \in Initialized(x) :
         \E y \in Arr : \E j \in Initialized(y)' : mem'[y][j] = mem[x][i]
  <2> TAKE x \in Arr
  <2> TAKE i \in Initialized(x)
  <2>1. CASE x = a /\ i < at
    <3>1. i \in 0..(at - 1)
      BY <1>2, <2>1 DEF Initialized
    <3> QED BY <1>6, <2>1, <3>1
  <2>2. CASE x = a /\ i >= at
    <3>1. i - at \in 0..(len[a] - at - 1) /\ at + (i - at) = i
      BY <1>2, <2>2 DEF Initialized
    <3>2. T[i - at] = mem[a][i]
      BY <1>3, <3>1
    <3> QED BY <1>6, <2>2, <3>1, <3>2
  <2>3. CASE x = b
    BY <1>1, <2>3 DEF Initialized
  <2>4. CASE x \notin {a, b}
    BY <1>6, <2>4 DEF Untouched
  <2>5. i \in Int
    BY DEF Initialized
  <2> QED BY <1>2, <2>1, <2>2, <2>3, <2>4, <2>5
<1>12. UNCHANGED <<user, drops>>
  BY DEF SplitOff
<1> QED
  <2>1. \A x \in Arr : \A i \in Initialized(x)' :
          \E y \in Arr : \E j \in Initialized(y) : mem'[x][i] = mem[y][j]
    <3> HIDE DEF OldArr, OldPos
    <3> QED BY <1>9
  <2> QED BY <1>5, <1>7, <1>8, <1>10, <1>11, <1>12, <2>1, Rearranged

\* append_from and prepend_from: array a gets b's elements from slot q on, and
\* its own move to slot p.
Joins(a, b, p, q, T) ==
  /\ T \in [0..(cap[a] - 1) -> Bytes]
  /\ mem' = [mem EXCEPT ![a] = T]
  /\ \A k \in 0..(len[a] - 1) : T[p + k] = mem[a][k]
  /\ \A k \in 0..(len[b] - 1) : T[q + k] = mem[b][k]

LEMMA TakesInv ==
  ASSUME Inv, NEW a \in Arr, NEW b \in Arr, Takes(a, b),
         NEW p \in Nat, NEW q \in Nat,
         \/ p = 0 /\ q = len[a]
         \/ p = len[b] /\ q = 0,
         NEW T, Joins(a, b, p, q, T)
  PROVE  Inv'
<1> /\ T \in [0..(cap[a] - 1) -> Bytes]
    /\ mem' = [mem EXCEPT ![a] = T]
    /\ \A k \in 0..(len[a] - 1) : T[p + k] = mem[a][k]
    /\ \A k \in 0..(len[b] - 1) : T[q + k] = mem[b][k]
  BY DEF Joins
<1> DEFINE Own(i)       == p <= i /\ i < p + len[a]
           OldArr(x, i) == IF x = a /\ ~Own(i) THEN b ELSE x
           OldPos(x, i) == IF x # a THEN i ELSE IF Own(i) THEN i - p ELSE i - q
<1>1. a # b /\ len[a] + len[b] <= cap[a]
  BY DEF Takes
<1>2. len[a] \in Nat /\ cap[a] \in Nat /\ len[b] \in Nat
  BY Shape
<1>3. len' = [len EXCEPT ![a] = len[a] + len[b], ![b] = 0]
      /\ UNCHANGED <<status, cap, user, drops>>
  BY DEF Takes
<1>4. TypeOK'
  <2>1. len' \in [Arr -> Nat]
    <3>1. len \in [Arr -> Nat] /\ len[a] + len[b] \in Nat
      BY <1>2 DEF Inv, TypeOK
    <3> QED BY <1>3, <3>1
  <2>2. \A x \in Arr : mem'[x] \in [0..(cap[x] - 1) -> Bytes]
    BY Shape DEF Inv, TypeOK
  <2> QED BY <1>3, <2>1, <2>2 DEF Inv, TypeOK, Bytes
<1>5. /\ Initialized(a)' = 0..(len[a] + len[b] - 1) /\ Initialized(b)' = {}
      /\ Untouched({a, b}) /\ mem'[a] = T /\ mem'[b] = mem[b]
  BY <1>1, <1>3 DEF Inv, TypeOK, Initialized, Untouched
<1>6. FreedEmpty'
  BY <1>3 DEF Inv, TypeOK, OwnedOnce, FreedEmpty, Takes, Live
<1>7. \A x \in Arr : len'[x] <= cap'[x]
  <2> TAKE x \in Arr
  <2>1. len[x] <= cap[x] /\ cap'[x] = cap[x] /\ 0 <= cap[b]
    BY <1>3, Shape
  <2>2. len'[x] = IF x = b THEN 0 ELSE IF x = a THEN len[a] + len[b] ELSE len[x]
    BY <1>3 DEF Inv, TypeOK
  <2> QED BY <1>1, <2>1, <2>2
<1>8. \A x \in Arr : \A i \in Initialized(x)' :
        /\ i \in Int
        /\ OldArr(x, i) \in Arr /\ OldPos(x, i) \in Initialized(OldArr(x, i))
        /\ mem'[x][i] = mem[OldArr(x, i)][OldPos(x, i)]
  <2> TAKE x \in Arr
  <2> TAKE i \in Initialized(x)'
  <2>1. CASE x = a /\ Own(i)
    <3>1. i \in Int /\ OldArr(x, i) = a /\ OldPos(x, i) = i - p
      BY <1>5, <2>1
    <3>2. i - p \in 0..(len[a] - 1) /\ p + (i - p) = i
      BY <1>2, <2>1, <3>1
    <3>3. T[i] = mem[a][i - p]
      BY <3>2
    <3> QED BY <1>5, <2>1, <3>1, <3>2, <3>3 DEF Initialized
  <2>2. CASE x = a /\ ~Own(i)
    <3>1. i \in 0..(len[a] + len[b] - 1) /\ OldArr(x, i) = b /\ OldPos(x, i) = i - q
      BY <1>1, <1>5, <2>2
    <3>2. i - q \in 0..(len[b] - 1) /\ q + (i - q) = i
      BY <1>2, <2>2, <3>1
    <3>3. T[i] = mem[b][i - q]
      BY <3>2
    <3>4. mem'[x][i] = T[i]
      BY <1>5, <2>2
    <3>5. i \in Int /\ i - q \in Initialized(b)
      BY <3>1, <3>2 DEF Initialized
    <3> HIDE DEF OldArr, OldPos
    <3> QED BY <3>1, <3>3, <3>4, <3>5
  <2>3. CASE x # a
    <3>1. x # b
      BY <1>5
    <3>2. i \in Initialized(x) /\ OldArr(x, i) = x /\ OldPos(x, i) = i
      BY <1>5, <2>3, <3>1 DEF Untouched
    <3>3. i \in Int
      BY <3>2 DEF Initialized
    <3> QED BY <1>5, <2>3, <3>1, <3>2, <3>3 DEF Untouched
  <2> QED BY <2>1, <2>2, <2>3
<1>9. SlotsDistinct'
  <2> SUFFICES ASSUME NEW x \in Arr, NEW y \in Arr,
                      NEW i \in Initialized(x)', NEW j \in Initialized(y)',
                      mem'[x][i] = mem'[y][j]
               PROVE  x = y /\ i = j
    BY DEF SlotsDistinct
  <2> HIDE DEF OldArr, OldPos
  <2>1. OldArr(x, i) = OldArr(y, j) /\ OldPos(x, i) = OldPos(y, j)
    BY <1>8 DEF Inv, OwnedOnce, SlotsDistinct
  <2>2. i \in Int /\ j \in Int /\ x # b /\ y # b
    BY <1>5, <1>8
  <2>3. CASE x = a /\ y = a
    <3>1. i \in 0..(len[a] + len[b] - 1) /\ j \in 0..(len[a] + len[b] - 1)
      BY <1>5, <2>3
    <3> QED BY <1>1, <1>2, <2>1, <2>2, <2>3, <3>1 DEF OldArr, OldPos
  <2>4. CASE x # a \/ y # a
    BY <2>1, <2>2, <2>4 DEF OldArr, OldPos
  <2> QED BY <2>3, <2>4
<1>10. \A x \in Arr : \A i \in Initialized(x) :
         \E y \in Arr : \E j \in Initialized(y)' : mem'[y][j] = mem[x][i]
  <2> TAKE x \in Arr
  <2> TAKE i \in Initialized(x)
  <2>1. CASE x = a
    <3>1. i \in 0..(len[a] - 1) /\ p + i \in 0..(len[a] + len[b] - 1)
      BY <1>2, <2>1 DEF Initialized
    <3> QED BY <1>5, <2>1, <3>1, ZenonT(40)
  <2>2. CASE x = b
    <3>1. i \in 0..(len[b] - 1) /\ q + i \in 0..(len[a] + len[b] - 1)
      BY <1>2, <2>2 DEF Initialized
    <3>2. T[q + i] = mem[b][i]
      BY <3>1
    <3>3. q + i \in Initialized(a)' /\ mem'[a][q + i] = T[q + i]
      BY <1>5, <3>1
    <3> QED BY <2>2, <3>2, <3>3
  <2>3. CASE x \notin {a, b}
    BY <1>5, <2>3 DEF Untouched
  <2> QED BY <2>1, <2>2, <2>3
<1> QED
  <2>1. \A x \in Arr : \A i \in Initialized(x)' :
          \E y \in Arr : \E j \in Initialized(y) : mem'[x][i] = mem[y][j]
    <3> HIDE DEF OldArr, OldPos
    <3> QED BY <1>8
  <2> QED BY <1>3, <1>4, <1>6, <1>7, <1>9, <1>10, <2>1, Rearranged

LEMMA AppendFromJoins ==
  ASSUME Inv, NEW a \in Arr, NEW b \in Arr, AppendFrom(a, b)
  PROVE  \E T : Joins(a, b, 0, len[a], T)
<1> DEFINE T == Copied(mem[b], 0, mem[a], len[a], len[b])
<1>1. Takes(a, b) /\ mem' = [mem EXCEPT ![a] = T]
  BY DEF AppendFrom
<1>2. /\ len[a] \in Nat /\ cap[a] \in Nat /\ len[b] \in Nat /\ cap[b] \in Nat
      /\ len[b] <= cap[b] /\ len[a] + len[b] <= cap[a]
      /\ mem[a] \in [0..(cap[a] - 1) -> Bytes]
      /\ mem[b] \in [0..(cap[b] - 1) -> Bytes]
  <2>1. len[a] + len[b] <= cap[a]
    BY DEF AppendFrom, Takes
  <2> QED BY <2>1, Shape
<1>3. T = [k \in 0..(cap[a] - 1) |-> T[k]]
  BY <1>2 DEF Copied
<1>4. ASSUME NEW k \in 0..(len[a] - 1) PROVE T[0 + k] = mem[a][k]
  BY <1>2 DEF Copied
<1>5. ASSUME NEW k \in 0..(len[b] - 1) PROVE T[len[a] + k] = mem[b][k]
  <2>1. /\ len[a] + k \in 0..(cap[a] - 1) /\ (len[a] + k) - len[a] = k
        /\ len[a] <= len[a] + k /\ len[a] + k < len[a] + len[b] /\ 0 + k = k
    BY <1>2, SMTT(30)
  <2> QED BY <1>2, <2>1 DEF Copied
<1>6. ASSUME NEW k \in 0..(cap[a] - 1) PROVE T[k] \in Bytes
  <2>1. CASE len[a] <= k /\ k < len[a] + len[b]
    <3>1. k - len[a] \in 0..(len[b] - 1) /\ k - len[a] \in 0..(cap[b] - 1)
          /\ len[a] + (k - len[a]) = k
      BY <1>2, <2>1, SMTT(30)
    <3> QED BY <1>2, <1>5, <3>1
  <2>2. CASE ~(len[a] <= k /\ k < len[a] + len[b])
    BY <1>2, <2>2 DEF Copied
  <2> QED BY <2>1, <2>2
<1> HIDE DEF T
<1>7. T \in [0..(cap[a] - 1) -> Bytes]
  BY <1>3, <1>6
<1>8. /\ \A k \in 0..(len[a] - 1) : T[0 + k] = mem[a][k]
      /\ \A k \in 0..(len[b] - 1) : T[len[a] + k] = mem[b][k]
  BY <1>4, <1>5
<1> QED BY <1>1, <1>7, <1>8 DEF Joins

LEMMA PrependFromJoins ==
  ASSUME Inv, NEW a \in Arr, NEW b \in Arr, PrependFrom(a, b)
  PROVE  \E T : Joins(a, b, len[b], 0, T)
<1> DEFINE S == Shifted(mem[a], 0, len[b], len[a])
           T == Copied(mem[b], 0, S, 0, len[b])
<1>1. Takes(a, b) /\ mem' = [mem EXCEPT ![a] = T]
  BY DEF PrependFrom
<1>2. /\ len[a] \in Nat /\ cap[a] \in Nat /\ len[b] \in Nat /\ cap[b] \in Nat
      /\ len[b] <= cap[b] /\ len[a] + len[b] <= cap[a]
      /\ mem[a] \in [0..(cap[a] - 1) -> Bytes]
      /\ mem[b] \in [0..(cap[b] - 1) -> Bytes]
  <2>1. len[a] + len[b] <= cap[a]
    BY DEF PrependFrom, Takes
  <2> QED BY <2>1, Shape
<1>3. DOMAIN S = 0..(cap[a] - 1) /\ T = [k \in 0..(cap[a] - 1) |-> T[k]]
  BY <1>2 DEF Copied, Shifted
<1>4. ASSUME NEW k \in 0..(cap[a] - 1)
      PROVE  T[k] = IF k < len[b] THEN mem[b][k]
                    ELSE IF k < len[b] + len[a] THEN mem[a][k - len[b]]
                    ELSE mem[a][k]
  <2>1. T[k] = IF k < len[b] THEN mem[b][k] ELSE S[k]
    <3>1. 0 + (k - 0) = k /\ 0 + len[b] = len[b] /\ 0 <= k
      BY <1>2
    <3> HIDE DEF S
    <3> QED BY <1>3, <3>1 DEF Copied
  <2>2. k >= len[b] => S[k] = IF k < len[b] + len[a] THEN mem[a][k - len[b]]
                              ELSE mem[a][k]
    <3>1. 0 + len[b] = len[b] /\ 0 + (k - len[b]) = k - len[b]
      BY <1>2
    <3> QED BY <1>2, <3>1 DEF Shifted, Copied
  <2> QED BY <1>2, <2>1, <2>2
<1> HIDE DEF S, T
<1>5. ASSUME NEW k \in 0..(len[a] - 1) PROVE T[len[b] + k] = mem[a][k]
  <2>1. /\ len[b] + k \in 0..(cap[a] - 1) /\ (len[b] + k) - len[b] = k
        /\ ~(len[b] + k < len[b]) /\ len[b] + k < len[b] + len[a]
    BY <1>2, SMTT(30)
  <2> QED BY <1>4, <2>1
<1>6. ASSUME NEW k \in 0..(len[b] - 1) PROVE T[0 + k] = mem[b][k]
  <2>1. 0 + k = k /\ k \in 0..(cap[a] - 1) /\ k < len[b]
    BY <1>2
  <2> QED BY <1>4, <2>1
<1>7. ASSUME NEW k \in 0..(cap[a] - 1) PROVE T[k] \in Bytes
  <2>1. CASE k < len[b]
    <3>1. k \in 0..(cap[b] - 1) /\ T[k] = mem[b][k]
      BY <1>2, <1>4, <2>1
    <3> QED BY <1>2, <3>1
  <2>2. CASE k >= len[b] /\ k < len[b] + len[a]
    <3>1. k - len[b] \in 0..(cap[a] - 1)
      BY <1>2, <2>2
    <3>2. T[k] = mem[a][k - len[b]]
      BY <1>2, <1>4, <2>2
    <3> QED BY <1>2, <3>1, <3>2
  <2>3. CASE k >= len[b] + len[a]
    BY <1>2, <1>4, <2>3
  <2> QED BY <1>2, <2>1, <2>2, <2>3
<1>8. T \in [0..(cap[a] - 1) -> Bytes]
  BY <1>3, <1>7
<1>9. /\ \A k \in 0..(len[a] - 1) : T[len[b] + k] = mem[a][k]
      /\ \A k \in 0..(len[b] - 1) : T[0 + k] = mem[b][k]
  BY <1>5, <1>6
<1> QED BY <1>1, <1>8, <1>9 DEF Joins

-----------------------------------------------------------------------------
(***************************************************************************)
(* One element comes in at index i of array a: push (i is the end), insert. *)
(***************************************************************************)
\* T has e at index i, and what was at i and beyond one further.
OpensAt(a, i, e, T) ==
  /\ mem' = [mem EXCEPT ![a] = T]
  /\ T[i] = e
  /\ \A k \in 0..(i - 1) : T[k] = mem[a][k]
  /\ \A k \in (i + 1)..len[a] : T[k] = mem[a][k - 1]

Enters(a, i, e) ==
  /\ Live(a) /\ len[a] < cap[a]
  /\ Give(e)
  /\ len' = [len EXCEPT ![a] = @ + 1]
  /\ \E T \in [0..(cap[a] - 1) -> Bytes] : OpensAt(a, i, e, T)
  /\ UNCHANGED <<status, cap>>

LEMMA EntersInv ==
  ASSUME Inv, NEW a \in Arr, NEW e \in user, NEW i \in 0..len[a], Enters(a, i, e)
  PROVE  Inv'
<1> PICK T \in [0..(cap[a] - 1) -> Bytes] : OpensAt(a, i, e, T)
  BY DEF Enters
<1> /\ Live(a) /\ len[a] < cap[a] /\ Give(e) /\ UNCHANGED <<status, cap>>
    /\ len' = [len EXCEPT ![a] = @ + 1]
  BY DEF Enters
<1> /\ mem' = [mem EXCEPT ![a] = T] /\ T[i] = e
    /\ \A k \in 0..(i - 1) : T[k] = mem[a][k]
    /\ \A k \in (i + 1)..len[a] : T[k] = mem[a][k - 1]
  BY DEF OpensAt
<1>1. /\ e \in Elem /\ drops[e] = 0
      /\ \A b \in Arr : \A k \in Initialized(b) : mem[b][k] # e
  BY Shape DEF Inv, TypeOK, OwnedOnce, OwnedAlive
<1>2. len[a] \in Nat /\ cap[a] \in Nat /\ i \in Nat
  BY Shape
<1>3. TypeOK'
  <2>1. len' \in [Arr -> Nat]
    BY <1>2 DEF Inv, TypeOK
  <2>2. \A x \in Arr : mem'[x] \in [0..(cap[x] - 1) -> Bytes]
    BY Shape DEF Inv, TypeOK
  <2>3. user' \subseteq Elem
    BY DEF Inv, TypeOK, Give
  <2> QED BY <2>1, <2>2, <2>3 DEF Inv, TypeOK, Bytes, Give
<1>4. /\ Initialized(a)' = 0..len[a] /\ mem'[a] = T /\ Untouched({a})
  BY <1>2 DEF Inv, TypeOK, Initialized, Untouched
<1>5. \A k \in 0..len[a] :
        \/ k = i
        \/ k < i /\ k \in Initialized(a) /\ mem'[a][k] = mem[a][k]
        \/ k > i /\ k - 1 \in Initialized(a) /\ mem'[a][k] = mem[a][k - 1]
  <2> TAKE k \in 0..len[a]
  <2>1. CASE k < i
    <3>1. k \in 0..(i - 1)
      BY <1>2, <2>1
    <3>2. k \in Initialized(a)
      BY <1>2, <2>1 DEF Initialized
    <3> QED BY <1>4, <2>1, <3>1, <3>2
  <2>2. CASE k > i
    <3>1. k \in (i + 1)..len[a]
      BY <1>2, <2>2
    <3>2. k - 1 \in Initialized(a)
      BY <1>2, <2>2 DEF Initialized
    <3> QED BY <1>4, <2>2, <3>1, <3>2
  <2> QED BY <1>2, <2>1, <2>2
<1>6. \A x \in Arr : \A k \in Initialized(x)' :
        \/ x = a /\ k = i /\ mem'[x][k] = e
        \/ \E l \in Initialized(x) : mem'[x][k] = mem[x][l]
  <2> TAKE x \in Arr
  <2> TAKE k \in Initialized(x)'
  <2>1. CASE x = a
    <3>1. k \in 0..len[a] /\ mem'[a][i] = e
      BY <1>4, <2>1
    <3> QED BY <1>5, <2>1, <3>1
  <2>2. CASE x # a
    BY <1>4, <2>2 DEF Untouched
  <2> QED BY <2>1, <2>2
<1>7. \A x \in Arr : \A k \in Initialized(x) :
        \E l \in Initialized(x)' : mem'[x][l] = mem[x][k]
  <2> TAKE x \in Arr
  <2> TAKE k \in Initialized(x)
  <2>1. CASE x = a /\ k < i
    <3>1. k \in 0..(i - 1) /\ k \in 0..len[a]
      BY <1>2, <2>1 DEF Initialized
    <3> QED BY <1>4, <2>1, <3>1
  <2>2. CASE x = a /\ k >= i
    <3>1. k + 1 \in (i + 1)..len[a] /\ k + 1 \in 0..len[a] /\ (k + 1) - 1 = k
      BY <1>2, <2>2 DEF Initialized
    <3>2. T[k + 1] = mem[a][k]
      BY <3>1
    <3> QED BY <1>4, <2>2, <3>1, <3>2
  <2>3. CASE x # a
    BY <1>4, <2>3 DEF Untouched
  <2>4. k \in Int
    BY DEF Initialized
  <2> QED BY <1>2, <2>1, <2>2, <2>3, <2>4
<1>8. RangeInitialized'
  <2> SUFFICES ASSUME NEW x \in Arr
               PROVE  /\ len'[x] <= cap'[x]
                      /\ \A k \in Initialized(x)' : mem'[x][k] \in Elem
    BY DEF RangeInitialized
  <2>1. len'[x] <= cap'[x]
    <3>1. len[x] <= cap[x] /\ len'[x] = IF x = a THEN len[a] + 1 ELSE len[x]
      BY Shape DEF Inv, TypeOK
    <3> QED BY <1>2, <3>1
  <2> QED BY <1>1, <1>6, <2>1, Shape
<1>9. SlotsDistinct'
  <2> SUFFICES ASSUME NEW x \in Arr, NEW y \in Arr,
                      NEW k \in Initialized(x)', NEW l \in Initialized(y)',
                      mem'[x][k] = mem'[y][l]
               PROVE  x = y /\ k = l
    BY DEF SlotsDistinct
  <2>1. CASE x = a /\ y = a
    <3>1. k \in 0..len[a] /\ l \in 0..len[a]
      BY <1>4, <2>1
    <3>2. CASE k = i
      <4>1. mem'[a][l] = e
        BY <1>4, <2>1, <3>2
      <4> QED BY <1>1, <1>5, <2>1, <3>1, <3>2, <4>1
    <3>3. CASE l = i
      <4>1. mem'[a][k] = e
        BY <1>4, <2>1, <3>3
      <4> QED BY <1>1, <1>5, <2>1, <3>1, <3>3, <4>1
    <3>4. CASE k # i /\ l # i
      <4> DEFINE K == IF k < i THEN k ELSE k - 1
                 L == IF l < i THEN l ELSE l - 1
      <4>1. /\ K \in Initialized(a) /\ L \in Initialized(a)
            /\ mem[a][K] = mem'[a][k] /\ mem[a][L] = mem'[a][l]
        BY <1>2, <1>5, <3>1, <3>4
      <4> HIDE DEF K, L
      <4>2. K = L
        BY <2>1, <4>1 DEF Inv, OwnedOnce, SlotsDistinct
      <4> QED BY <1>2, <2>1, <3>1, <3>4, <4>2 DEF K, L
    <3> QED BY <3>2, <3>3, <3>4
  <2>2. CASE x # a \/ y # a
    BY <1>1, <1>4, <1>6, <2>2 DEF Inv, OwnedOnce, SlotsDistinct, Untouched
  <2> QED BY <2>1, <2>2
<1>10. OwnedAlive'
  BY <1>1, <1>6 DEF Inv, OwnedOnce, OwnedAlive, Give
<1>11. NothingForgotten'
  <2> SUFFICES ASSUME NEW f \in Elem, f \notin user', drops'[f] # 1
               PROVE  \E c \in Arr : \E j \in Initialized(c)' : mem'[c][j] = f
    BY DEF NothingForgotten
  <2>1. CASE f = e
    BY <1>2, <1>4, <2>1
  <2>2. CASE f # e
    <3>1. PICK b \in Arr : \E k \in Initialized(b) : mem[b][k] = f
      BY <2>2 DEF Inv, OwnedOnce, NothingForgotten, Give
    <3> QED BY <1>7, <3>1
  <2> QED BY <2>1, <2>2
<1>12. FreedEmpty'
  BY DEF Inv, TypeOK, OwnedOnce, FreedEmpty, Live
<1> QED BY <1>3, <1>8, <1>9, <1>10, <1>11, <1>12 DEF Inv, OwnedOnce

LEMMA PushEnters ==
  ASSUME Inv, NEW a \in Arr, NEW e \in user, Push(a, e)
  PROVE  Enters(a, len[a], e)
<1> DEFINE T == [mem[a] EXCEPT ![len[a]] = e]
           i == len[a]
<1>1. /\ len[a] \in Nat /\ cap[a] \in Nat /\ len[a] < cap[a]
      /\ mem[a] \in [0..(cap[a] - 1) -> Bytes] /\ e \in Bytes
  BY Shape DEF Push, Inv, TypeOK, Bytes
<1>2. len[a] \in 0..(cap[a] - 1)
  BY <1>1
<1>3. /\ T \in [0..(cap[a] - 1) -> Bytes] /\ T[i] = e /\ i \in 0..len[a]
      /\ \A k \in 0..(i - 1) : T[k] = mem[a][k]
      /\ \A k \in (i + 1)..len[a] : T[k] = mem[a][k - 1]
  BY <1>1, <1>2
<1>4. mem' = [mem EXCEPT ![a] = T]
  BY DEF Push, Inv, TypeOK
<1>5. /\ Live(a) /\ Give(e) /\ UNCHANGED <<status, cap>>
      /\ len' = [len EXCEPT ![a] = @ + 1]
  BY DEF Push
<1> HIDE DEF T
<1> QED BY <1>1, <1>3, <1>4, <1>5 DEF Enters, OpensAt

LEMMA InsertEnters ==
  ASSUME Inv, NEW a \in Arr, NEW i \in 0..len[a], NEW e \in user, Insert(a, i, e)
  PROVE  Enters(a, i, e)
<1> DEFINE S == Shifted(mem[a], i, 1, len[a] - i)
           T == [S EXCEPT ![i] = e]
<1>1. /\ len[a] \in Nat /\ cap[a] \in Nat /\ len[a] < cap[a] /\ i \in Nat
      /\ mem[a] \in [0..(cap[a] - 1) -> Bytes] /\ e \in Bytes
  BY Shape DEF Insert, Inv, TypeOK, Bytes
<1>2. S = [k \in 0..(cap[a] - 1) |-> S[k]]
  BY <1>1 DEF Shifted, Copied
<1>3. ASSUME NEW k \in 0..(cap[a] - 1)
      PROVE  S[k] = IF i < k /\ k <= len[a] THEN mem[a][k - 1] ELSE mem[a][k]
  <2>1. /\ i + (k - (i + 1)) = k - 1
        /\ (i + 1 <= k /\ k < (i + 1) + (len[a] - i)) <=> (i < k /\ k <= len[a])
    BY <1>1
  <2> QED BY <1>1, <2>1 DEF Shifted, Copied
<1>4. ASSUME NEW k \in 0..(cap[a] - 1) PROVE S[k] \in Bytes
  <2>1. i < k => k - 1 \in 0..(cap[a] - 1)
    BY <1>1
  <2> QED BY <1>1, <1>3, <2>1
<1> HIDE DEF S
<1>5. S \in [0..(cap[a] - 1) -> Bytes]
  BY <1>2, <1>4
<1>6. T \in [0..(cap[a] - 1) -> Bytes] /\ T[i] = e
  BY <1>1, <1>5
<1>7. \A k \in 0..(i - 1) : T[k] = mem[a][k]
  <2> TAKE k \in 0..(i - 1)
  <2>1. k \in 0..(cap[a] - 1) /\ k # i /\ ~(i < k)
    BY <1>1
  <2> QED BY <1>3, <1>5, <2>1
<1>8. \A k \in (i + 1)..len[a] : T[k] = mem[a][k - 1]
  <2> TAKE k \in (i + 1)..len[a]
  <2>1. k \in 0..(cap[a] - 1) /\ k # i /\ i < k /\ k <= len[a]
    BY <1>1
  <2> QED BY <1>3, <1>5, <2>1
<1>9. /\ Live(a) /\ Give(e) /\ UNCHANGED <<status, cap>>
      /\ len' = [len EXCEPT ![a] = @ + 1] /\ mem' = [mem EXCEPT ![a] = T]
  BY DEF Insert, S
<1> HIDE DEF T
<1> QED BY <1>1, <1>6, <1>7, <1>8, <1>9 DEF Enters, OpensAt

-----------------------------------------------------------------------------
(***************************************************************************)
(* The element at index i of array a goes: remove, pop (i is the last      *)
(* index), and a turn of clear, whose destructor it starts.                *)
(***************************************************************************)
\* What was beyond index i of array a is one nearer.
ClosesAt(a, i) ==
  /\ DOMAIN mem' = Arr /\ mem'[a] \in [0..(cap[a] - 1) -> Bytes]
  /\ \A x \in Arr \ {a} : mem'[x] = mem[x]
  /\ \A k \in 0..(i - 1) : mem'[a][k] = mem[a][k]
  /\ \A k \in i..(len[a] - 2) : mem'[a][k] = mem[a][k + 1]

\* The user gets the element, or its destructor starts.
Taken(e)   == user' = user \cup {e} /\ drops' = drops
Dropped(e) == user' = user /\ drops' = [drops EXCEPT ![e] = @ + 1]

Leaves(a, i) ==
  /\ i \in Initialized(a)
  /\ status' \in [Arr -> Status]
  /\ \A x \in Arr : status'[x] \in {"none", "freed"} => status[x] \in {"none", "freed"}
  /\ cap' = cap
  /\ len' = [len EXCEPT ![a] = @ - 1]
  /\ ClosesAt(a, i)

LEMMA LeavesInv ==
  ASSUME Inv, NEW a \in Arr, NEW i, Leaves(a, i),
         Taken(mem[a][i]) \/ Dropped(mem[a][i])
  PROVE  Inv'
<1> /\ i \in Initialized(a)
    /\ status' \in [Arr -> Status]
    /\ \A x \in Arr : status'[x] \in {"none", "freed"} => status[x] \in {"none", "freed"}
    /\ cap' = cap /\ len' = [len EXCEPT ![a] = @ - 1]
  BY DEF Leaves
<1> /\ DOMAIN mem' = Arr /\ mem'[a] \in [0..(cap[a] - 1) -> Bytes]
    /\ \A x \in Arr \ {a} : mem'[x] = mem[x]
    /\ \A k \in 0..(i - 1) : mem'[a][k] = mem[a][k]
    /\ \A k \in i..(len[a] - 2) : mem'[a][k] = mem[a][k + 1]
  BY DEF Leaves, ClosesAt
<1> DEFINE e == mem[a][i]
<1>1. /\ e \in Elem /\ drops[e] = 0 /\ e \notin user
      /\ \A b \in Arr : \A k \in Initialized(b) : mem[b][k] = e => b = a /\ k = i
  BY Shape DEF Inv, OwnedOnce, SlotsDistinct
<1> HIDE DEF e
<1>2. len[a] \in Nat /\ cap[a] \in Nat /\ i \in 0..(len[a] - 1)
  BY Shape DEF Initialized
<1>3. \/ user' = user \cup {e} /\ drops' = drops
      \/ user' = user /\ drops' = [drops EXCEPT ![e] = @ + 1]
  BY DEF e, Taken, Dropped
<1>4. TypeOK'
  <2>1. len' \in [Arr -> Nat]
    <3>1. len \in [Arr -> Nat] /\ len[a] - 1 \in Nat
      BY <1>2 DEF Inv, TypeOK
    <3> QED BY <3>1
  <2>2. \A x \in Arr : mem'[x] \in [0..(cap[x] - 1) -> Bytes]
    BY Shape DEF Inv, TypeOK
  <2>3. user' \subseteq Elem /\ drops' \in [Elem -> Nat]
    <3>1. user \subseteq Elem /\ drops \in [Elem -> Nat]
      BY DEF Inv, TypeOK
    <3>2. [drops EXCEPT ![e] = @ + 1] \in [Elem -> Nat] /\ user \cup {e} \subseteq Elem
      BY <1>1, <3>1
    <3> QED BY <1>3, <3>1, <3>2
  <2> QED BY <2>1, <2>2, <2>3 DEF Inv, TypeOK, Bytes
<1>5. /\ Initialized(a)' = 0..(len[a] - 2) /\ Untouched({a})
  <2>1. len'[a] = len[a] - 1 /\ (len[a] - 1) - 1 = len[a] - 2
    BY <1>2 DEF Inv, TypeOK
  <2> QED BY <2>1 DEF Inv, TypeOK, Initialized, Untouched
<1>6. \A k \in 0..(len[a] - 2) :
        \/ k < i /\ k \in Initialized(a) /\ mem'[a][k] = mem[a][k]
        \/ k >= i /\ k + 1 \in Initialized(a) /\ mem'[a][k] = mem[a][k + 1]
  <2> TAKE k \in 0..(len[a] - 2)
  <2>1. CASE k < i
    <3>1. k \in 0..(i - 1)
      BY <1>2, <2>1
    <3>2. k \in Initialized(a)
      BY <1>2, <2>1 DEF Initialized
    <3> QED BY <1>5, <2>1, <3>1, <3>2
  <2>2. CASE k >= i
    <3>1. k \in i..(len[a] - 2)
      BY <1>2, <2>2
    <3>2. k + 1 \in Initialized(a)
      BY <1>2, <2>2 DEF Initialized
    <3> QED BY <1>5, <2>2, <3>1, <3>2
  <2> QED BY <1>2, <2>1, <2>2
<1>7. \A x \in Arr : \A k \in Initialized(x)' :
        \E l \in Initialized(x) : mem'[x][k] = mem[x][l] /\ mem[x][l] # e
  <2> TAKE x \in Arr
  <2> TAKE k \in Initialized(x)'
  <2>1. CASE x = a
    <3>1. k \in 0..(len[a] - 2)
      BY <1>5, <2>1
    <3>2. CASE k < i
      <4>1. k \in Initialized(a) /\ mem'[a][k] = mem[a][k] /\ k # i
        BY <1>2, <1>6, <3>1, <3>2
      <4> QED BY <1>1, <2>1, <4>1
    <3>3. CASE k >= i
      <4>1. k + 1 \in Initialized(a) /\ mem'[a][k] = mem[a][k + 1] /\ k + 1 # i
        BY <1>2, <1>6, <3>1, <3>3
      <4> QED BY <1>1, <2>1, <4>1
    <3> QED BY <1>2, <3>1, <3>2, <3>3
  <2>2. CASE x # a
    BY <1>1, <1>5, <2>2 DEF Untouched
  <2> QED BY <2>1, <2>2
<1>8. \A x \in Arr : \A k \in Initialized(x) :
        mem[x][k] # e => \E l \in Initialized(x)' : mem'[x][l] = mem[x][k]
  <2> TAKE x \in Arr
  <2> TAKE k \in Initialized(x)
  <2> HAVE mem[x][k] # e
  <2>1. CASE x = a /\ k < i
    <3>1. k \in 0..(i - 1) /\ k \in 0..(len[a] - 2)
      BY <1>2, <2>1 DEF Initialized
    <3> QED BY <1>5, <2>1, <3>1
  <2>2. CASE x = a /\ k > i
    <3>1. k - 1 \in i..(len[a] - 2) /\ k - 1 \in 0..(len[a] - 2) /\ (k - 1) + 1 = k
      BY <1>2, <2>2 DEF Initialized
    <3>2. mem'[a][k - 1] = mem[a][k]
      BY <3>1
    <3> QED BY <1>5, <2>2, <3>1, <3>2
  <2>3. CASE x = a /\ k = i
    BY <2>3 DEF e
  <2>4. CASE x # a
    BY <1>5, <2>4 DEF Untouched
  <2>5. k \in Int
    BY DEF Initialized
  <2> QED BY <1>2, <2>1, <2>2, <2>3, <2>4, <2>5
<1>9. RangeInitialized'
  <2> SUFFICES ASSUME NEW x \in Arr
               PROVE  /\ len'[x] <= cap'[x]
                      /\ \A k \in Initialized(x)' : mem'[x][k] \in Elem
    BY DEF RangeInitialized
  <2>1. len'[x] <= cap'[x]
    <3>1. /\ len[x] <= cap[x] /\ len[x] \in Nat /\ cap[x] \in Nat
          /\ len'[x] = IF x = a THEN len[a] - 1 ELSE len[x]
      BY Shape DEF Inv, TypeOK
    <3> QED BY <1>2, <3>1
  <2>2. \A l \in Initialized(x) : mem[x][l] \in Elem
    BY Shape
  <2> QED BY <1>7, <2>1, <2>2
<1>10. SlotsDistinct'
  <2> SUFFICES ASSUME NEW x \in Arr, NEW y \in Arr,
                      NEW k \in Initialized(x)', NEW l \in Initialized(y)',
                      mem'[x][k] = mem'[y][l]
               PROVE  x = y /\ k = l
    BY DEF SlotsDistinct
  <2>1. CASE x = a /\ y = a
    <3> DEFINE K == IF k < i THEN k ELSE k + 1
               L == IF l < i THEN l ELSE l + 1
    <3>1. k \in 0..(len[a] - 2) /\ l \in 0..(len[a] - 2)
      BY <1>5, <2>1
    <3>2. /\ K \in Initialized(a) /\ L \in Initialized(a)
          /\ mem[a][K] = mem'[a][k] /\ mem[a][L] = mem'[a][l]
      BY <1>2, <1>6, <3>1
    <3> HIDE DEF K, L
    <3>3. K = L
      BY <2>1, <3>2 DEF Inv, OwnedOnce, SlotsDistinct
    <3> QED BY <1>2, <2>1, <3>1, <3>3 DEF K, L
  <2>2. CASE x # a \/ y # a
    BY <1>5, <1>7, <2>2 DEF Inv, OwnedOnce, SlotsDistinct, Untouched
  <2> QED BY <2>1, <2>2
<1>11. OwnedAlive'
  <2>1. \A x \in Arr : \A k \in Initialized(x)' :
          mem'[x][k] \notin user' /\ drops'[mem'[x][k]] = 0
    <3> TAKE x \in Arr
    <3> TAKE k \in Initialized(x)'
    <3>1. /\ mem'[x][k] \in Elem /\ mem'[x][k] # e
          /\ mem'[x][k] \notin user /\ drops[mem'[x][k]] = 0
      BY <1>7, Shape
    <3> QED BY <1>3, <3>1 DEF Inv, TypeOK
  <2>2. \A f \in user' : drops'[f] = 0
    BY <1>1, <1>3 DEF Inv, TypeOK, OwnedOnce, OwnedAlive
  <2> QED BY <2>1, <2>2 DEF OwnedAlive
<1>12. NothingForgotten'
  <2> SUFFICES ASSUME NEW f \in Elem, f \notin user', drops'[f] # 1
               PROVE  \E c \in Arr : \E j \in Initialized(c)' : mem'[c][j] = f
    BY DEF NothingForgotten
  <2>1. f # e /\ f \notin user /\ drops[f] # 1
    BY <1>1, <1>3 DEF Inv, TypeOK
  <2>2. PICK b \in Arr : \E k \in Initialized(b) : mem[b][k] = f
    BY <2>1 DEF Inv, OwnedOnce, NothingForgotten
  <2> QED BY <1>8, <2>1, <2>2
<1>13. FreedEmpty'
  <2> SUFFICES ASSUME NEW x \in Arr, status'[x] \in {"none", "freed"}
               PROVE  len'[x] = 0
    BY DEF FreedEmpty
  <2>1. len[x] = 0
    BY DEF Inv, OwnedOnce, FreedEmpty
  <2>2. x # a
    BY <1>2, <2>1
  <2> QED BY <2>1, <2>2 DEF Inv, TypeOK
<1> QED BY <1>4, <1>9, <1>10, <1>11, <1>12, <1>13 DEF Inv, OwnedOnce

LEMMA RemoveLeaves ==
  ASSUME Inv, NEW a \in Arr, NEW i \in 0..(len[a] - 1), Remove(a, i)
  PROVE  Leaves(a, i) /\ Taken(mem[a][i])
<1> DEFINE T == Copied(mem[a], i + 1, mem[a], i, len[a] - i - 1)
<1>1. /\ len[a] \in Nat /\ cap[a] \in Nat /\ len[a] <= cap[a] /\ i \in Nat
      /\ mem[a] \in [0..(cap[a] - 1) -> Bytes]
  BY Shape
<1>2. T = [k \in 0..(cap[a] - 1) |-> T[k]]
  BY <1>1 DEF Copied
<1>3. ASSUME NEW k \in 0..(cap[a] - 1)
      PROVE  T[k] = IF i <= k /\ k < len[a] - 1 THEN mem[a][k + 1] ELSE mem[a][k]
  <2>1. /\ (i + 1) + (k - i) = k + 1
        /\ (i <= k /\ k < i + (len[a] - i - 1)) <=> (i <= k /\ k < len[a] - 1)
    BY <1>1
  <2> QED BY <1>1, <2>1 DEF Copied
<1>4. ASSUME NEW k \in 0..(cap[a] - 1) PROVE T[k] \in Bytes
  <2>1. k < len[a] - 1 => k + 1 \in 0..(cap[a] - 1)
    BY <1>1
  <2> QED BY <1>1, <1>3, <2>1
<1>5. /\ DOMAIN mem' = Arr
      /\ \A x \in Arr : mem'[x] = IF x = a THEN T ELSE mem[x]
  BY DEF Remove, Inv, TypeOK
<1> HIDE DEF T
<1>6. T \in [0..(cap[a] - 1) -> Bytes] /\ mem'[a] = T
  BY <1>2, <1>4, <1>5
<1>7. \A k \in 0..(i - 1) : T[k] = mem[a][k]
  <2> TAKE k \in 0..(i - 1)
  <2>1. k \in 0..(cap[a] - 1) /\ ~(i <= k)
    BY <1>1
  <2> QED BY <1>3, <2>1
<1>8. \A k \in i..(len[a] - 2) : T[k] = mem[a][k + 1]
  <2> TAKE k \in i..(len[a] - 2)
  <2>1. k \in 0..(cap[a] - 1) /\ i <= k /\ k < len[a] - 1
    BY <1>1
  <2> QED BY <1>3, <2>1
<1>9. /\ i \in Initialized(a) /\ status' \in [Arr -> Status] /\ UNCHANGED cap
      /\ \A x \in Arr : status'[x] \in {"none", "freed"} => status[x] \in {"none", "freed"}
      /\ len' = [len EXCEPT ![a] = @ - 1]
      /\ user' = user \cup {mem[a][i]} /\ UNCHANGED drops
  BY DEF Remove, Inv, TypeOK, Initialized
<1> QED BY <1>5, <1>6, <1>7, <1>8, <1>9 DEF Leaves, ClosesAt, Taken

\* pop and a turn of clear leave the bytes alone.
LEMMA LastLeaves ==
  ASSUME Inv, NEW a \in Arr, len[a] # 0,
         status' \in [Arr -> Status],
         \A x \in Arr : status'[x] \in {"none", "freed"} => status[x] \in {"none", "freed"},
         UNCHANGED <<cap, mem>>,
         len' = [len EXCEPT ![a] = @ - 1]
  PROVE  Leaves(a, len[a] - 1)
<1> DEFINE i == len[a] - 1
<1>1. len[a] \in Nat /\ mem[a] \in [0..(cap[a] - 1) -> Bytes]
  BY Shape
<1>2. /\ i \in Initialized(a)
      /\ \A k \in 0..(i - 1) : mem'[a][k] = mem[a][k]
      /\ \A k \in i..(len[a] - 2) : mem'[a][k] = mem[a][k + 1]
  BY <1>1 DEF Initialized
<1>3. /\ DOMAIN mem' = Arr /\ mem'[a] \in [0..(cap[a] - 1) -> Bytes]
      /\ \A x \in Arr \ {a} : mem'[x] = mem[x]
  BY <1>1 DEF Inv, TypeOK
<1> QED BY <1>2, <1>3 DEF Leaves, ClosesAt

LEMMA PopLeaves ==
  ASSUME Inv, NEW a \in Arr, Pop(a)
  PROVE  Leaves(a, len[a] - 1) /\ Taken(mem[a][len[a] - 1])
BY LastLeaves DEF Pop, Inv, TypeOK, Taken

LEMMA DestroyLastLeaves ==
  ASSUME Inv, NEW a \in Arr, NEW panics \in BOOLEAN, DestroyLast(a, panics)
  PROVE  Leaves(a, len[a] - 1) /\ Dropped(mem[a][len[a] - 1])
<1>1. /\ status' \in [Arr -> Status]
      /\ \A x \in Arr : status'[x] \in {"none", "freed"} => status[x] \in {"none", "freed"}
  BY DEF DestroyLast, Inv, TypeOK, Status
<1> QED BY <1>1, LastLeaves DEF DestroyLast, LeavesRange, Destroyed, Dropped

-----------------------------------------------------------------------------
(***************************************************************************)
(* The steps that touch no slot.                                           *)
(***************************************************************************)
LEMMA RefuseInv ==
  ASSUME Inv, NEW a \in Arr, NEW i \in 0..cap[a], NEW e \in user, Refuse(a, i, e)
  PROVE  Inv'
<1>1. /\ e \in Elem /\ drops[e] = 0
      /\ \A b \in Arr : \A k \in Initialized(b) : mem[b][k] # e
  BY Shape DEF Inv, TypeOK, OwnedOnce, OwnedAlive
<1>2. \A b \in Arr : Initialized(b)' = Initialized(b)
  BY DEF Refuse, Initialized
<1>3. TypeOK'
  BY <1>1 DEF Refuse, Destroyed, Inv, TypeOK
<1>4. RangeInitialized' /\ SlotsDistinct' /\ FreedEmpty'
  BY <1>2 DEF Refuse, Inv, OwnedOnce, RangeInitialized, SlotsDistinct, FreedEmpty
<1>5. OwnedAlive'
  <2>1. drops' = [drops EXCEPT ![e] = @ + 1] /\ user' = user \ {e} /\ UNCHANGED mem
    BY DEF Refuse, Destroyed
  <2>2. \A b \in Arr : \A k \in Initialized(b) :
          mem[b][k] \notin user' /\ drops'[mem[b][k]] = 0
    BY <1>1, <2>1, Shape DEF Inv, TypeOK
  <2>3. \A f \in user' : drops'[f] = 0
    BY <1>1, <2>1 DEF Inv, TypeOK, OwnedOnce, OwnedAlive
  <2> QED BY <1>2, <2>1, <2>2, <2>3 DEF OwnedAlive
<1>6. NothingForgotten'
  BY <1>1, <1>2 DEF Refuse, Destroyed, Inv, TypeOK, OwnedOnce, NothingForgotten
<1> QED BY <1>3, <1>4, <1>5, <1>6 DEF Inv, OwnedOnce

\* An array changes its status; it is empty if it is freed.
LEMMA StatusInv ==
  ASSUME Inv, NEW a \in Arr, NEW s \in Status, s = "freed" => len[a] = 0,
         s # "none", status' = [status EXCEPT ![a] = s],
         UNCHANGED <<cap, len, mem, user, drops>>
  PROVE  Inv'
<1>1. \A b \in Arr : Initialized(b)' = Initialized(b)
  BY DEF Initialized
<1>2. TypeOK' /\ FreedEmpty'
  BY DEF Inv, TypeOK, OwnedOnce, FreedEmpty
<1>3. RangeInitialized' /\ SlotsDistinct' /\ OwnedAlive' /\ NothingForgotten'
  BY <1>1 DEF Inv, OwnedOnce, RangeInitialized, SlotsDistinct, OwnedAlive,
              NothingForgotten
<1> QED BY <1>2, <1>3 DEF Inv, OwnedOnce

\* Every step keeps the invariant: one case per operation.
LEMMA NextInv == Inv /\ [Next]_vars => Inv'
<1> SUFFICES ASSUME Inv, [Next]_vars PROVE Inv'
  OBVIOUS
<1>1. ASSUME NEW a \in Arr, NEW c \in Caps, WithCapacity(a, c) PROVE Inv'
  BY <1>1, WithCapacityInv
<1>2. ASSUME NEW a \in Arr, OneElement(a) PROVE Inv'
  <2>1. CASE \E e \in user : \E i \in 0..len[a] : Enters(a, i, e)
    BY <2>1, EntersInv
  <2>2. CASE \E i : Leaves(a, i) /\ Taken(mem[a][i])
    BY <2>2, LeavesInv
  <2>3. CASE \E e \in user : Push(a, e)
    <3>1. len[a] \in 0..len[a]
      BY Shape
    <3> QED BY <2>1, <2>3, <3>1, PushEnters
  <2>4. CASE \E i \in 0..cap[a], e \in user : Refuse(a, i, e)
    BY <2>4, RefuseInv
  <2>5. CASE \E i \in 0..len[a], e \in user : Insert(a, i, e)
    BY <2>1, <2>5, InsertEnters
  <2>6. CASE (\E i \in 0..(len[a] - 1) : Remove(a, i)) \/ Pop(a)
    BY <2>2, <2>6, RemoveLeaves, PopLeaves
  <2> QED BY <1>2, <2>3, <2>4, <2>5, <2>6 DEF OneElement
<1>3. ASSUME NEW a \in Arr, ManyElements(a) PROVE Inv'
  <2>1. ASSUME NEW b \in Arr, AppendFrom(a, b) \/ PrependFrom(a, b) PROVE Inv'
    <3>1. Takes(a, b) /\ len[a] \in Nat /\ len[b] \in Nat /\ 0 \in Nat
      BY <2>1, Shape DEF AppendFrom, PrependFrom
    <3>2. \/ \E T : Joins(a, b, 0, len[a], T)
          \/ \E T : Joins(a, b, len[b], 0, T)
      BY <2>1, AppendFromJoins, PrependFromJoins
    <3> QED BY <3>1, <3>2, TakesInv
  <2> QED BY <1>3, <2>1, SplitOffInv DEF ManyElements
<1>4. ASSUME NEW a \in Arr, Releasing(a) PROVE Inv'
  <2>1. CASE BeginClear(a) \/ BeginDrop(a) \/ Cleared(a) \/ Deallocate(a)
    BY <2>1, StatusInv DEF BeginClear, BeginDrop, Cleared, Deallocate, Status
  <2>2. CASE \E panics \in BOOLEAN : DestroyLast(a, panics)
    BY <2>2, DestroyLastLeaves, LeavesInv
  <2> QED BY <1>4, <2>1, <2>2 DEF Releasing
<1>5. CASE UNCHANGED vars
  BY <1>5 DEF vars, Inv, TypeOK, RangeInitialized, OwnedOnce, SlotsDistinct,
     OwnedAlive, NothingForgotten, FreedEmpty, Initialized
<1> QED BY <1>1, <1>2, <1>3, <1>4, <1>5 DEF Next, Finished

\* The types: what every run of the model checker assumes about the arrays.
THEOREM ArrayTypes == Spec => []TypeOK
<1>1. Inv => TypeOK
  BY DEF Inv
<1> QED BY InitInv, NextInv, <1>1, PTL DEF Spec

\* array.rs, representation invariants: only elements in 0..len, and len <= cap.
THEOREM ArrayRange == Spec => []RangeInitialized
<1>1. Inv => RangeInitialized
  BY DEF Inv
<1> QED BY InitInv, NextInv, <1>1, PTL DEF Spec

\* Every element has one owner until it is destroyed, and is destroyed once,
\* whatever the capacities and whichever destructors panic.
THEOREM ArrayOwnership == Spec => []OwnedOnce
<1>1. Inv => OwnedOnce
  BY DEF Inv
<1> QED BY InitInv, NextInv, <1>1, PTL DEF Spec

-----------------------------------------------------------------------------
(***************************************************************************)
(* Every operation does to the sequence of initialized elements what the   *)
(* sequence specification says.  First its sequence operations, position   *)
(* by position.                                                            *)
(***************************************************************************)
LEMMA Concatenated ==
  ASSUME NEW S, NEW s \in Seq(S), NEW t \in Seq(S)
  PROVE  /\ s \o t \in Seq(S) /\ Len(s \o t) = Len(s) + Len(t)
         /\ \A k \in 1..Len(s) : (s \o t)[k] = s[k]
         /\ \A k \in 1..Len(t) : (s \o t)[Len(s) + k] = t[k]
<1>1. ASSUME NEW k \in 1..Len(t)
      PROVE  /\ Len(s) + k \in 1..(Len(s) + Len(t))
             /\ ~(Len(s) + k <= Len(s)) /\ (Len(s) + k) - Len(s) = k
  OBVIOUS
<1>2. ASSUME NEW k \in 1..Len(s) PROVE k \in 1..(Len(s) + Len(t)) /\ k <= Len(s)
  OBVIOUS
<1> QED BY <1>1, <1>2, ConcatProperties

LEMMA Part ==
  ASSUME NEW S, NEW s \in Seq(S), NEW i \in 1..(Len(s) + 1), NEW j \in 0..Len(s),
         i <= j + 1
  PROVE  /\ SubSeq(s, i, j) \in Seq(S) /\ Len(SubSeq(s, i, j)) = j - i + 1
         /\ \A k \in 1..(j - i + 1) : SubSeq(s, i, j)[k] = s[i + k - 1]
<1>1. i \in Int /\ j \in Int /\ \A k \in i..j : s[k] \in S
  BY ElementOfSeq
<1>2. Len(SubSeq(s, i, j)) = IF i <= j THEN j - i + 1 ELSE 0
  BY <1>1, SubSeqProperties
<1> QED BY <1>1, <1>2, SubSeqProperties

\* t is s, of length n, with e put in at position i.
Widened(t, s, n, i, e) ==
  /\ t \in Seq(Elem) /\ Len(t) = n + 1 /\ t[i] = e
  /\ \A k \in 1..(i - 1) : t[k] = s[k]
  /\ \A k \in (i + 1)..(n + 1) : t[k] = s[k - 1]

LEMMA InsertedAt ==
  ASSUME NEW s \in Seq(Elem), NEW n \in Nat, Len(s) = n,
         NEW i \in 1..(n + 1), NEW e \in Elem
  PROVE  Widened(Sequence!InsertAt(s, i, e), s, n, i, e)
<1> DEFINE L == SubSeq(s, 1, i - 1)
           M == L \o <<e>>
           R == SubSeq(s, i, Len(s))
<1>1. L \in Seq(Elem) /\ Len(L) = i - 1 /\ \A k \in 1..(i - 1) : L[k] = s[k]
  OBVIOUS
<1>2. /\ R \in Seq(Elem) /\ Len(R) = n - i + 1
      /\ \A k \in 1..(n - i + 1) : R[k] = s[i + k - 1]
  OBVIOUS
<1>3. Sequence!InsertAt(s, i, e) = M \o R
  BY DEF Sequence!InsertAt
<1> HIDE DEF L, R
<1>4. M \in Seq(Elem) /\ Len(M) = i /\ M[i] = e /\ \A k \in 1..(i - 1) : M[k] = s[k]
  BY <1>1
<1> DEFINE C == M \o R
<1>5. /\ C \in Seq(Elem) /\ Len(C) = n + 1
      /\ \A k \in 1..i : C[k] = M[k]
      /\ \A k \in (i + 1)..(n + 1) : C[k] = R[k - i]
  <2> HIDE DEF M
  <2> QED BY <1>2, <1>4
<1> HIDE DEF C, M
<1>6. ASSUME NEW k \in (i + 1)..(n + 1) PROVE C[k] = s[k - 1]
  <2>1. k - i \in 1..(n - i + 1) /\ i + (k - i) - 1 = k - 1
    OBVIOUS
  <2> QED BY <1>2, <1>5, <2>1
<1>7. C[i] = e /\ \A k \in 1..(i - 1) : C[k] = s[k]
  <2>1. i \in 1..i /\ \A k \in 1..(i - 1) : k \in 1..i
    OBVIOUS
  <2> QED BY <1>4, <1>5, <2>1
<1>8. Widened(C, s, n, i, e)
  BY <1>5, <1>6, <1>7 DEF Widened
<1> QED BY <1>3, <1>8 DEF C

LEMMA RemovedAt ==
  ASSUME NEW S, NEW s \in Seq(S), NEW i \in 1..Len(s)
  PROVE  LET t == Sequence!RemoveAt(s, i)
         IN  /\ t \in Seq(S) /\ Len(t) = Len(s) - 1
             /\ \A k \in 1..(i - 1) : t[k] = s[k]
             /\ \A k \in i..(Len(s) - 1) : t[k] = s[k + 1]
<1> DEFINE L == SubSeq(s, 1, i - 1)
           R == SubSeq(s, i + 1, Len(s))
<1>1. L \in Seq(S) /\ Len(L) = i - 1 /\ \A k \in 1..(i - 1) : L[k] = s[k]
  OBVIOUS
<1>2. /\ R \in Seq(S) /\ Len(R) = Len(s) - i
      /\ \A k \in 1..(Len(s) - i) : R[k] = s[i + k]
  OBVIOUS
<1>3. Sequence!RemoveAt(s, i) = L \o R
  BY DEF Sequence!RemoveAt
<1> HIDE DEF L, R
<1> DEFINE C == L \o R
<1>4. /\ C \in Seq(S) /\ Len(C) = Len(L) + Len(R)
      /\ \A k \in 1..Len(L) : C[k] = L[k]
      /\ \A k \in 1..Len(R) : C[Len(L) + k] = R[k]
  <2>1. L \in Seq(S) /\ R \in Seq(S)
    BY <1>1, <1>2
  <2>2. \A x, y \in Seq(S) :
          /\ x \o y \in Seq(S) /\ Len(x \o y) = Len(x) + Len(y)
          /\ \A k \in 1..Len(x) : (x \o y)[k] = x[k]
          /\ \A k \in 1..Len(y) : (x \o y)[Len(x) + k] = y[k]
    BY Concatenated
  <2> QED BY <2>1, <2>2, Zenon
<1> HIDE DEF C
<1>5. ASSUME NEW k \in i..(Len(s) - 1) PROVE C[k] = s[k + 1]
  <2>1. k - i + 1 \in 1..Len(R) /\ Len(L) + (k - i + 1) = k /\ i + (k - i + 1) = k + 1
    BY <1>1, <1>2
  <2>2. C[k] = R[k - i + 1] /\ R[k - i + 1] = s[k + 1]
    BY <1>2, <1>4, <2>1
  <2> QED BY <2>2
<1>6. Len(C) = Len(s) - 1 /\ \A k \in 1..(i - 1) : C[k] = s[k]
  BY <1>1, <1>2, <1>4
<1> QED BY <1>3, <1>4, <1>5, <1>6 DEF C

\* The first n places of an allocation, read as a sequence.
Contents(m, n) == [i \in 1..n |-> m[i - 1]]

LEMMA ContentsSeq ==
  ASSUME NEW m, NEW n \in Nat, \A k \in 0..(n - 1) : m[k] \in Elem
  PROVE  /\ Contents(m, n) \in Seq(Elem) /\ Len(Contents(m, n)) = n
         /\ \A k \in 1..n : Contents(m, n)[k] = m[k - 1]
<1>1. Contents(m, n) \in [1..n -> Elem]
  BY DEF Contents
<1> QED BY <1>1 DEF Contents

LEMMA ItemsAre ==
  ASSUME Inv, NEW a \in Arr
  PROVE  /\ Items(a) \in Seq(Elem) /\ Len(Items(a)) = len[a]
         /\ \A k \in 1..len[a] : Items(a)[k] = mem[a][k - 1]
<1>1. len[a] \in Nat /\ \A k \in 0..(len[a] - 1) : mem[a][k] \in Elem
  BY Shape DEF Initialized
<1> QED BY <1>1, ContentsSeq DEF Contents, Items

LEMMA NextItemsAre ==
  ASSUME Inv', NEW a \in Arr
  PROVE  /\ Items(a)' \in Seq(Elem) /\ Len(Items(a)') = len'[a]
         /\ \A k \in 1..len'[a] : Items(a)'[k] = mem'[a][k - 1]
<1>1. len'[a] \in Nat /\ \A k \in 0..(len'[a] - 1) : mem'[a][k] \in Elem
  BY DEF Inv, TypeOK, RangeInitialized, Initialized
<1> QED BY <1>1, ContentsSeq DEF Contents, Items

LEMMA SameItems ==
  ASSUME NEW A, \A x \in Arr \ A : len'[x] = len[x] /\ mem'[x] = mem[x]
  PROVE  \A x \in Arr \ A : Items(x)' = Items(x)
BY DEF Items

-----------------------------------------------------------------------------
(***************************************************************************)
(* The operations, step by step.  Position i + 1 of a sequence is index i. *)
(***************************************************************************)
LEMMA EntersPuts ==
  ASSUME Inv, Inv', NEW a \in Arr, NEW e \in user, NEW i \in 0..len[a], Enters(a, i, e)
  PROVE  /\ i + 1 \in 1..(Len(Items(a)) + 1)
         /\ Sequence!Put(a, i + 1, e)
<1> DEFINE t == Sequence!InsertAt(Items(a), i + 1, e)
<1>1. /\ len' = [len EXCEPT ![a] = @ + 1] /\ len \in [Arr -> Nat]
      /\ user' = user \ {e} /\ drops' = drops /\ e \in Elem
  BY DEF Enters, Give, Inv, TypeOK
<1>2. PICK T : OpensAt(a, i, e, T)
  BY DEF Enters
<1>3. /\ mem' = [mem EXCEPT ![a] = T] /\ DOMAIN mem = Arr
      /\ T[i] = e
      /\ \A k \in 0..(i - 1) : T[k] = mem[a][k]
      /\ \A k \in (i + 1)..len[a] : T[k] = mem[a][k - 1]
  BY <1>2 DEF OpensAt, Inv, TypeOK
<1>4. len[a] \in Nat /\ i \in Nat /\ len'[a] = len[a] + 1 /\ mem'[a] = T
  BY <1>1, <1>3
<1>5. \A x \in Arr \ {a} : Items(x)' = Items(x)
  <2>1. \A x \in Arr \ {a} : len'[x] = len[x] /\ mem'[x] = mem[x]
    BY <1>1, <1>3
  <2> QED BY <2>1, SameItems
<1>6. /\ Items(a) \in Seq(Elem) /\ Len(Items(a)) = len[a]
      /\ \A k \in 1..len[a] : Items(a)[k] = mem[a][k - 1]
  BY ItemsAre
<1>7. /\ Items(a)' \in Seq(Elem) /\ Len(Items(a)') = len[a] + 1
      /\ \A k \in 1..(len[a] + 1) : Items(a)'[k] = T[k - 1]
  BY <1>4, NextItemsAre
<1>8. i + 1 \in 1..(Len(Items(a)) + 1)
  BY <1>4, <1>6
<1>9. /\ t \in Seq(Elem) /\ Len(t) = len[a] + 1 /\ t[i + 1] = e
      /\ \A k \in 1..i : t[k] = Items(a)[k]
      /\ \A k \in (i + 2)..(len[a] + 1) : t[k] = Items(a)[k - 1]
  <2> DEFINE j == i + 1
             r == Sequence!InsertAt(Items(a), j, e)
  <2>1. j - 1 = i /\ j + 1 = i + 2 /\ j \in 1..(len[a] + 1)
    BY <1>4
  <2> HIDE DEF j
  <2>2. Widened(r, Items(a), len[a], j, e)
    BY <1>1, <1>4, <1>6, <2>1, InsertedAt
  <2>3. r = t
    BY DEF j
  <2> HIDE DEF r, t
  <2> QED BY <2>1, <2>2, <2>3 DEF j, Widened
<1> HIDE DEF t
<1>10. ASSUME NEW k \in 1..(len[a] + 1) PROVE Items(a)'[k] = t[k]
  <2>1. CASE k <= i
    <3>1. k \in 1..i /\ k \in 1..len[a] /\ k - 1 \in 0..(i - 1)
      BY <1>4, <2>1
    <3> QED BY <1>3, <1>6, <1>7, <1>9, <3>1
  <2>2. CASE k = i + 1
    <3>1. k - 1 = i
      BY <1>4, <2>2
    <3> QED BY <1>3, <1>7, <1>9, <2>2, <3>1
  <2>3. CASE k > i + 1
    <3>1. /\ k \in (i + 2)..(len[a] + 1) /\ k - 1 \in 1..len[a]
          /\ k - 1 \in (i + 1)..len[a]
      BY <1>4, <2>3
    <3> QED BY <1>3, <1>6, <1>7, <1>9, <3>1
  <2> QED BY <1>4, <2>1, <2>2, <2>3
<1>11. Items(a)' = t
  BY <1>7, <1>9, <1>10, SeqEqual
<1>12. [x \in Arr |-> Items(x)]' = [[x \in Arr |-> Items(x)] EXCEPT ![a] = t]
  BY <1>5, <1>11
<1> QED BY <1>1, <1>8, <1>12 DEF Sequence!Put, t

LEMMA LeavesShortens ==
  ASSUME Inv, Inv', NEW a \in Arr, NEW i, Leaves(a, i)
  PROVE  /\ i + 1 \in 1..Len(Items(a)) /\ Items(a)[i + 1] = mem[a][i]
         /\ [x \in Arr |-> Items(x)]' =
              [[x \in Arr |-> Items(x)] EXCEPT ![a] = Sequence!RemoveAt(@, i + 1)]
<1> DEFINE t == Sequence!RemoveAt(Items(a), i + 1)
<1>1. /\ len' = [len EXCEPT ![a] = @ - 1] /\ len \in [Arr -> Nat]
      /\ i \in 0..(len[a] - 1)
  BY DEF Leaves, Initialized, Inv, TypeOK
<1>2. /\ \A x \in Arr \ {a} : mem'[x] = mem[x]
      /\ \A k \in 0..(i - 1) : mem'[a][k] = mem[a][k]
      /\ \A k \in i..(len[a] - 2) : mem'[a][k] = mem[a][k + 1]
  BY DEF Leaves, ClosesAt
<1>3. len[a] \in Nat /\ i \in Nat /\ i < len[a] /\ len'[a] = len[a] - 1
  BY <1>1
<1>4. \A x \in Arr \ {a} : Items(x)' = Items(x)
  <2>1. \A x \in Arr \ {a} : len'[x] = len[x] /\ mem'[x] = mem[x]
    BY <1>1, <1>2
  <2> QED BY <2>1, SameItems
<1>5. /\ Items(a) \in Seq(Elem) /\ Len(Items(a)) = len[a]
      /\ \A k \in 1..len[a] : Items(a)[k] = mem[a][k - 1]
  BY ItemsAre
<1>6. /\ Items(a)' \in Seq(Elem) /\ Len(Items(a)') = len[a] - 1
      /\ \A k \in 1..(len[a] - 1) : Items(a)'[k] = mem'[a][k - 1]
  BY <1>3, NextItemsAre
<1>7. i + 1 \in 1..Len(Items(a)) /\ Items(a)[i + 1] = mem[a][i]
  <2>1. i + 1 \in 1..len[a] /\ (i + 1) - 1 = i
    BY <1>3
  <2> QED BY <1>5, <2>1
<1>8. /\ t \in Seq(Elem) /\ Len(t) = len[a] - 1
      /\ \A k \in 1..i : t[k] = Items(a)[k]
      /\ \A k \in (i + 1)..(len[a] - 1) : t[k] = Items(a)[k + 1]
  <2>1. (i + 1) - 1 = i
    BY <1>3
  <2> QED BY <1>5, <1>7, <2>1, RemovedAt, ZenonT(40)
<1> HIDE DEF t
<1>9. ASSUME NEW k \in 1..(len[a] - 1) PROVE Items(a)'[k] = t[k]
  <2>1. CASE k <= i
    <3>1. k \in 1..i /\ k \in 1..len[a] /\ k - 1 \in 0..(i - 1)
      BY <1>3, <2>1
    <3> QED BY <1>2, <1>5, <1>6, <1>8, <3>1
  <2>2. CASE k > i
    <3>1. /\ k \in (i + 1)..(len[a] - 1) /\ k + 1 \in 1..len[a]
          /\ k - 1 \in i..(len[a] - 2) /\ (k - 1) + 1 = k /\ (k + 1) - 1 = k
      BY <1>3, <2>2
    <3>2. Items(a)'[k] = mem[a][k]
      BY <1>2, <1>6, <3>1
    <3>3. t[k] = mem[a][k]
      BY <1>5, <1>8, <3>1
    <3> QED BY <3>2, <3>3
  <2> QED BY <1>3, <2>1, <2>2
<1>10. Items(a)' = t
  BY <1>6, <1>8, <1>9, SeqEqual
<1>11. [x \in Arr |-> Items(x)]' = [[x \in Arr |-> Items(x)] EXCEPT ![a] = t]
  BY <1>4, <1>10
<1> QED BY <1>7, <1>11 DEF t

LEMMA LeavesTakes ==
  ASSUME Inv, Inv', NEW a \in Arr, NEW i, Leaves(a, i), Taken(mem[a][i])
  PROVE  i + 1 \in 1..Len(Items(a)) /\ Sequence!Take(a, i + 1)
BY LeavesShortens DEF Taken, Sequence!Take

LEMMA LeavesDestroys ==
  ASSUME Inv, Inv', NEW a \in Arr, Leaves(a, len[a] - 1), Dropped(mem[a][len[a] - 1])
  PROVE  Sequence!DestroyLast(a)
<1> DEFINE s == Items(a)
           e == mem[a][len[a] - 1]
<1>1. /\ s \in Seq(Elem) /\ Len(s) = len[a] /\ len[a] \in Nat
      /\ len[a] - 1 \in Initialized(a)
  BY ItemsAre DEF Leaves, Inv, TypeOK
<1>2. len[a] \in 1..Len(s) /\ (len[a] - 1) + 1 = len[a]
  BY <1>1 DEF Initialized
<1>3. /\ s[len[a]] = e
      /\ [x \in Arr |-> Items(x)]' =
           [[x \in Arr |-> Items(x)] EXCEPT ![a] = Sequence!RemoveAt(@, len[a])]
  BY <1>2, LeavesShortens
<1>4. Sequence!Last(s) = e /\ s # <<>>
  BY <1>1, <1>2, <1>3, EmptySeq DEF Sequence!Last
<1>5. Sequence!RemoveAt(s, len[a]) = Sequence!Front(s)
  <2> DEFINE r == Sequence!RemoveAt(s, len[a])
             f == Sequence!Front(s)
  <2>1. /\ r \in Seq(Elem) /\ Len(r) = Len(s) - 1
        /\ \A k \in 1..(len[a] - 1) : r[k] = s[k]
    BY <1>1, <1>2, RemovedAt
  <2>2. /\ f \in Seq(Elem) /\ Len(f) = Len(s) - 1
        /\ \A k \in 1..(len[a] - 1) : f[k] = s[k]
    <3> HIDE DEF s
    <3>1. 1 \in 1..(Len(s) + 1) /\ Len(s) - 1 \in 0..Len(s) /\ 1 <= (Len(s) - 1) + 1
      BY <1>1, <1>2
    <3>2. /\ f \in Seq(Elem) /\ Len(f) = (Len(s) - 1) - 1 + 1
          /\ \A k \in 1..((Len(s) - 1) - 1 + 1) : f[k] = s[1 + k - 1]
      BY <1>1, <3>1, Part DEF Sequence!Front
    <3>3. (Len(s) - 1) - 1 + 1 = len[a] - 1 /\ \A k \in 1..(len[a] - 1) : 1 + k - 1 = k
      BY <1>1
    <3> QED BY <1>1, <3>2, <3>3
  <2> HIDE DEF r, f
  <2>3. r = f
    BY <1>1, <2>1, <2>2, SeqEqual
  <2> QED BY <2>3 DEF r, f
<1>6. {x \in Elem : drops[x] > 0}' = {x \in Elem : drops[x] > 0} \cup {e}
  <2>1. /\ drops' = [drops EXCEPT ![e] = @ + 1] /\ drops \in [Elem -> Nat]
        /\ e \in Elem
    BY <1>1, Shape DEF Dropped, Inv, TypeOK
  <2> HIDE DEF e
  <2> QED BY <2>1
<1>7. user' = user
  BY DEF Dropped
<1>8. [x \in Arr |-> Items(x)]' =
        [[x \in Arr |-> Items(x)] EXCEPT ![a] = Sequence!Front(@)]
  BY <1>3, <1>5
<1> QED BY <1>4, <1>6, <1>7, <1>8 DEF Sequence!DestroyLast

LEMMA JoinsConcatenate ==
  ASSUME Inv, Inv', NEW a \in Arr, NEW b \in Arr, Takes(a, b),
         NEW p \in Nat, NEW q \in Nat, NEW T, Joins(a, b, p, q, T)
  PROVE  LET A == Items(a)  B == Items(b)  C == Items(a)'
         IN  /\ A \in Seq(Elem) /\ Len(A) = len[a]
             /\ B \in Seq(Elem) /\ Len(B) = len[b]
             /\ C \in Seq(Elem) /\ Len(C) = len[a] + len[b]
             /\ \A k \in 1..len[a] : p + k \in 1..Len(C) => C[p + k] = A[k]
             /\ \A k \in 1..len[b] : q + k \in 1..Len(C) => C[q + k] = B[k]
             /\ [x \in Arr |-> Items(x)]' =
                  [[x \in Arr |-> Items(x)] EXCEPT ![a] = C, ![b] = <<>>]
<1>1. /\ a # b /\ len \in [Arr -> Nat] /\ len[a] \in Nat /\ len[b] \in Nat
      /\ len' = [len EXCEPT ![a] = len[a] + len[b], ![b] = 0]
  BY DEF Takes, Inv, TypeOK
<1>2. /\ mem' = [mem EXCEPT ![a] = T] /\ DOMAIN mem = Arr
      /\ \A k \in 0..(len[a] - 1) : T[p + k] = mem[a][k]
      /\ \A k \in 0..(len[b] - 1) : T[q + k] = mem[b][k]
  BY DEF Joins, Inv, TypeOK
<1>3. len'[a] = len[a] + len[b] /\ len'[b] = 0 /\ mem'[a] = T
  BY <1>1, <1>2
<1>4. \A x \in Arr \ {a, b} : Items(x)' = Items(x)
  <2>1. \A x \in Arr \ {a, b} : len'[x] = len[x] /\ mem'[x] = mem[x]
    BY <1>1, <1>2
  <2> QED BY <2>1, SameItems
<1>5. /\ Items(a) \in Seq(Elem) /\ Len(Items(a)) = len[a]
      /\ \A k \in 1..len[a] : Items(a)[k] = mem[a][k - 1]
      /\ Items(b) \in Seq(Elem) /\ Len(Items(b)) = len[b]
      /\ \A k \in 1..len[b] : Items(b)[k] = mem[b][k - 1]
  BY ItemsAre
<1>6. /\ Items(a)' \in Seq(Elem) /\ Len(Items(a)') = len[a] + len[b]
      /\ \A k \in 1..(len[a] + len[b]) : Items(a)'[k] = T[k - 1]
  BY <1>3, NextItemsAre
<1>7. Items(b)' = <<>>
  <2>1. Items(b)' \in Seq(Elem) /\ Len(Items(b)') = 0
    BY <1>3, NextItemsAre
  <2> QED BY <2>1, EmptySeq
<1>8. ASSUME NEW k \in 1..len[a], p + k \in 1..(len[a] + len[b])
      PROVE  Items(a)'[p + k] = Items(a)[k]
  <2>1. k - 1 \in 0..(len[a] - 1) /\ (p + k) - 1 = p + (k - 1)
    BY <1>1
  <2> QED BY <1>2, <1>5, <1>6, <1>8, <2>1
<1>9. ASSUME NEW k \in 1..len[b], q + k \in 1..(len[a] + len[b])
      PROVE  Items(a)'[q + k] = Items(b)[k]
  <2>1. k - 1 \in 0..(len[b] - 1) /\ (q + k) - 1 = q + (k - 1)
    BY <1>1
  <2> QED BY <1>2, <1>5, <1>6, <1>9, <2>1
<1>10. [x \in Arr |-> Items(x)]' =
         [[x \in Arr |-> Items(x)] EXCEPT ![a] = Items(a)', ![b] = <<>>]
  BY <1>1, <1>4, <1>7
<1> QED BY <1>5, <1>6, <1>8, <1>9, <1>10

\* Two sequences one after the other, position by position.
LEMMA IsConcatenation ==
  ASSUME NEW S, NEW s \in Seq(S), NEW t \in Seq(S), NEW r \in Seq(S),
         Len(r) = Len(s) + Len(t),
         \A k \in 1..Len(s) : r[k] = s[k],
         \A k \in 1..Len(t) : r[Len(s) + k] = t[k]
  PROVE  r = s \o t
<1>1. ASSUME NEW k \in 1..Len(r) PROVE r[k] = (s \o t)[k]
  <2>1. CASE k <= Len(s)
    <3>1. k \in 1..Len(s)
      BY <2>1
    <3>2. (s \o t)[k] = s[k]
      BY <3>1, Concatenated
    <3> QED BY <3>1, <3>2
  <2>2. CASE k > Len(s)
    <3>1. k - Len(s) \in 1..Len(t) /\ Len(s) + (k - Len(s)) = k
      BY <2>2
    <3>2. (s \o t)[Len(s) + (k - Len(s))] = t[k - Len(s)]
      BY <3>1, Concatenated
    <3> QED BY <3>1, <3>2
  <2> QED BY <2>1, <2>2
<1>2. s \o t \in Seq(S) /\ Len(s \o t) = Len(s) + Len(t)
  BY Concatenated
<1> QED BY <1>1, <1>2, SeqEqual

LEMMA AppendFromAppends ==
  ASSUME Inv, Inv', NEW a \in Arr, NEW b \in Arr, AppendFrom(a, b)
  PROVE  Sequence!Append2(a, b)
<1> DEFINE A == Items(a)
           B == Items(b)
           C == Items(a)'
           p == 0
           q == len[a]
<1>1. Takes(a, b) /\ p \in Nat /\ q \in Nat
  BY DEF AppendFrom, Inv, TypeOK
<1>2. PICK T : Joins(a, b, p, q, T)
  BY AppendFromJoins
<1>3. /\ A \in Seq(Elem) /\ Len(A) = len[a]
      /\ B \in Seq(Elem) /\ Len(B) = len[b]
      /\ C \in Seq(Elem) /\ Len(C) = len[a] + len[b]
      /\ \A k \in 1..len[a] : p + k \in 1..Len(C) => C[p + k] = A[k]
      /\ \A k \in 1..len[b] : q + k \in 1..Len(C) => C[q + k] = B[k]
      /\ [x \in Arr |-> Items(x)]' =
           [[x \in Arr |-> Items(x)] EXCEPT ![a] = C, ![b] = <<>>]
  <2> HIDE DEF p, q
  <2> QED BY <1>1, <1>2, JoinsConcatenate
<1>4. C = A \o B
  <2> HIDE DEF A, B, C
  <2>1. /\ \A k \in 1..Len(A) : p + k = k /\ k \in 1..Len(C)
        /\ \A k \in 1..Len(B) : q + k = Len(A) + k /\ q + k \in 1..Len(C)
    BY <1>3
  <2>2. Len(C) = Len(A) + Len(B)
    BY <1>3
  <2>3. /\ \A k \in 1..Len(A) : C[k] = A[k]
        /\ \A k \in 1..Len(B) : C[Len(A) + k] = B[k]
    <3> HIDE DEF p, q
    <3> QED BY <1>3, <2>1
  <2> QED BY <1>3, <2>2, <2>3, IsConcatenation
<1>5. a # b /\ user' = user /\ drops' = drops
  BY DEF AppendFrom, Takes
<1> HIDE DEF C
<1> QED BY <1>3, <1>4, <1>5 DEF Sequence!Append2

LEMMA PrependFromPrepends ==
  ASSUME Inv, Inv', NEW a \in Arr, NEW b \in Arr, PrependFrom(a, b)
  PROVE  Sequence!Prepend2(a, b)
<1> DEFINE A == Items(a)
           B == Items(b)
           C == Items(a)'
           p == len[b]
           q == 0
<1>1. Takes(a, b) /\ p \in Nat /\ q \in Nat
  BY DEF PrependFrom, Inv, TypeOK
<1>2. PICK T : Joins(a, b, p, q, T)
  BY PrependFromJoins
<1>3. /\ A \in Seq(Elem) /\ Len(A) = len[a]
      /\ B \in Seq(Elem) /\ Len(B) = len[b]
      /\ C \in Seq(Elem) /\ Len(C) = len[a] + len[b]
      /\ \A k \in 1..len[a] : p + k \in 1..Len(C) => C[p + k] = A[k]
      /\ \A k \in 1..len[b] : q + k \in 1..Len(C) => C[q + k] = B[k]
      /\ [x \in Arr |-> Items(x)]' =
           [[x \in Arr |-> Items(x)] EXCEPT ![a] = C, ![b] = <<>>]
  <2> HIDE DEF p, q
  <2> QED BY <1>1, <1>2, JoinsConcatenate
<1>4. C = B \o A
  <2> HIDE DEF A, B, C
  <2>1. /\ \A k \in 1..Len(B) : q + k = k /\ k \in 1..Len(C)
        /\ \A k \in 1..Len(A) : p + k = Len(B) + k /\ p + k \in 1..Len(C)
    BY <1>3
  <2>2. Len(C) = Len(B) + Len(A)
    BY <1>3
  <2>3. /\ \A k \in 1..Len(B) : C[k] = B[k]
        /\ \A k \in 1..Len(A) : C[Len(B) + k] = A[k]
    <3> HIDE DEF p, q
    <3> QED BY <1>3, <2>1
  <2> QED BY <1>3, <2>2, <2>3, IsConcatenation
<1>5. a # b /\ user' = user /\ drops' = drops
  BY DEF PrependFrom, Takes
<1> HIDE DEF C
<1> QED BY <1>3, <1>4, <1>5 DEF Sequence!Prepend2

LEMMA SplitOffSplits ==
  ASSUME Inv, Inv', NEW a \in Arr, NEW b \in Arr, NEW at \in 0..len[a],
         SplitOff(a, b, at)
  PROVE  /\ at + 1 \in 1..(Len(Items(a)) + 1)
         /\ Sequence!Split(a, b, at + 1)
<1> DEFINE A == Items(a)
           L == SubSeq(A, 1, at)
           R == SubSeq(A, at + 1, Len(A))
<1>1. /\ a # b /\ len[b] = 0 /\ len[a] \in Nat /\ at \in Nat /\ at <= len[a]
      /\ len \in [Arr -> Nat]
      /\ len' = [len EXCEPT ![b] = len[a] - at, ![a] = at]
      /\ user' = user /\ drops' = drops
  BY DEF Inv, TypeOK, OwnedOnce, FreedEmpty, SplitOff, SplitLengths, Live
<1>2. PICK T : Divides(a, b, at, T)
  BY SplitOffDivides
<1>3. /\ mem' = [mem EXCEPT ![b] = T] /\ DOMAIN mem = Arr
      /\ \A k \in 0..(len[a] - at - 1) : T[k] = mem[a][at + k]
  BY <1>2 DEF Divides, Inv, TypeOK
<1>4. len'[a] = at /\ len'[b] = len[a] - at /\ mem'[a] = mem[a] /\ mem'[b] = T
  BY <1>1, <1>3
<1>5. \A x \in Arr \ {a, b} : Items(x)' = Items(x)
  <2>1. \A x \in Arr \ {a, b} : len'[x] = len[x] /\ mem'[x] = mem[x]
    BY <1>1, <1>3
  <2> QED BY <2>1, SameItems
<1>6. /\ A \in Seq(Elem) /\ Len(A) = len[a]
      /\ \A k \in 1..len[a] : A[k] = mem[a][k - 1]
  BY ItemsAre
<1>7. Items(b) = <<>>
  <2>1. Items(b) \in Seq(Elem) /\ Len(Items(b)) = 0
    BY <1>1, ItemsAre
  <2> QED BY <2>1, EmptySeq
<1>8. /\ Items(a)' \in Seq(Elem) /\ Len(Items(a)') = at
      /\ \A k \in 1..at : Items(a)'[k] = mem[a][k - 1]
  BY <1>4, NextItemsAre
<1>9. /\ Items(b)' \in Seq(Elem) /\ Len(Items(b)') = len[a] - at
      /\ \A k \in 1..(len[a] - at) : Items(b)'[k] = T[k - 1]
  BY <1>4, NextItemsAre
<1> HIDE DEF A
<1>10. Items(a)' = L
  <2>1. 1 \in 1..(Len(A) + 1) /\ at \in 0..Len(A) /\ 1 <= at + 1 /\ at - 1 + 1 = at
    BY <1>1, <1>6
  <2>2. /\ L \in Seq(Elem) /\ Len(L) = at
        /\ \A k \in 1..at : L[k] = A[1 + k - 1]
    BY <1>6, <2>1, Part
  <2> HIDE DEF L
  <2>3. ASSUME NEW k \in 1..at PROVE Items(a)'[k] = L[k]
    <3>1. 1 + k - 1 = k /\ k \in 1..len[a]
      BY <1>1
    <3> QED BY <1>6, <1>8, <2>2, <3>1
  <2> QED BY <1>8, <2>2, <2>3, SeqEqual
<1>11. Items(b)' = R
  <2>1. /\ at + 1 \in 1..(Len(A) + 1) /\ Len(A) \in 0..Len(A) /\ at + 1 <= Len(A) + 1
        /\ Len(A) - (at + 1) + 1 = len[a] - at
    BY <1>1, <1>6
  <2>2. /\ R \in Seq(Elem) /\ Len(R) = len[a] - at
        /\ \A k \in 1..(len[a] - at) : R[k] = A[(at + 1) + k - 1]
    BY <1>6, <2>1, Part
  <2> HIDE DEF R
  <2>3. ASSUME NEW k \in 1..(len[a] - at) PROVE Items(b)'[k] = R[k]
    <3>1. /\ (at + 1) + k - 1 = at + k /\ at + k \in 1..len[a]
          /\ k - 1 \in 0..(len[a] - at - 1) /\ (at + k) - 1 = at + (k - 1)
      BY <1>1
    <3>2. R[k] = mem[a][at + (k - 1)]
      BY <1>6, <2>2, <3>1
    <3>3. Items(b)'[k] = mem[a][at + (k - 1)]
      BY <1>3, <1>9, <3>1
    <3> QED BY <3>2, <3>3
  <2> QED BY <1>9, <2>2, <2>3, SeqEqual
<1>12. [x \in Arr |-> Items(x)]' =
         [[x \in Arr |-> Items(x)] EXCEPT ![a] = L, ![b] = R]
  BY <1>1, <1>5, <1>10, <1>11
<1>13. (at + 1) - 1 = at /\ at + 1 \in 1..(Len(A) + 1)
  BY <1>1, <1>6
<1> HIDE DEF L, R
<1>14. /\ [x \in Arr |-> Items(x)]' =
            [[x \in Arr |-> Items(x)] EXCEPT ![a] = SubSeq(A, 1, (at + 1) - 1),
                                             ![b] = SubSeq(A, at + 1, Len(A))]
  BY <1>12, <1>13 DEF L, R
<1> QED BY <1>1, <1>7, <1>13, <1>14 DEF Sequence!Split, A

LEMMA Stutters ==
  ASSUME NEW a \in Arr, UNCHANGED <<user, drops>>,
         \A x \in Arr : len'[x] = len[x],
         \A x \in Arr : len[x] = 0 \/ mem'[x] = mem[x]
  PROVE  UNCHANGED <<[x \in Arr |-> Items(x)], user, {e \in Elem : drops[e] > 0}>>
<1>1. ASSUME NEW x \in Arr PROVE Items(x)' = Items(x)
  <2>1. CASE len[x] = 0
    BY <2>1 DEF Items
  <2>2. CASE mem'[x] = mem[x]
    BY <2>2 DEF Items
  <2> QED BY <2>1, <2>2
<1> QED BY <1>1

LEMMA RefuseRefuses ==
  ASSUME Inv, NEW a \in Arr, NEW i \in 0..cap[a], NEW e \in user, Refuse(a, i, e)
  PROVE  Sequence!Refuse(e)
<1>1. /\ drops' = [drops EXCEPT ![e] = @ + 1] /\ user' = user \ {e}
      /\ UNCHANGED <<len, mem>> /\ e \in Elem /\ drops \in [Elem -> Nat]
  BY DEF Refuse, Destroyed, Inv, TypeOK
<1>2. [x \in Arr |-> Items(x)]' = [x \in Arr |-> Items(x)]
  BY <1>1 DEF Items
<1>3. {x \in Elem : drops[x] > 0}' = {x \in Elem : drops[x] > 0} \cup {e}
  BY <1>1
<1> QED BY <1>1, <1>2, <1>3 DEF Sequence!Refuse

-----------------------------------------------------------------------------
\* The variables of OwnedSequences, as the array determines them.
Mapped == <<[a \in Arr |-> Items(a)], user, {e \in Elem : drops[e] > 0}>>

LEMMA SequenceInit == Init => Sequence!Init
<1> SUFFICES ASSUME Init PROVE Sequence!Init
  OBVIOUS
<1>1. ASSUME NEW a \in Arr PROVE Items(a) = <<>>
  <2>1. Items(a) \in Seq(Elem) /\ Len(Items(a)) = 0
    BY InitInv, ItemsAre DEF Init
  <2> QED BY <2>1, EmptySeq
<1>2. {e \in Elem : drops[e] > 0} = {}
  BY DEF Init
<1> QED BY <1>1, <1>2 DEF Init, Sequence!Init

\* Allocation, the begin and the end of clear and drop: no element moves.
LEMMA QuietSteps ==
  ASSUME Inv, NEW a \in Arr,
         \/ \E c \in Caps : WithCapacity(a, c)
         \/ BeginClear(a) \/ BeginDrop(a) \/ Cleared(a) \/ Deallocate(a)
         \/ UNCHANGED vars
  PROVE  UNCHANGED Mapped
<1>1. len' = len /\ UNCHANGED <<user, drops>>
  BY DEF WithCapacity, BeginClear, BeginDrop, Cleared, Deallocate, vars
<1>2. \A x \in Arr : len[x] = 0 \/ mem'[x] = mem[x]
  <2>1. CASE \E c \in Caps : WithCapacity(a, c)
    <3>1. len[a] = 0
      BY <2>1 DEF WithCapacity, Inv, OwnedOnce, FreedEmpty
    <3> QED BY <2>1, <3>1 DEF WithCapacity, Inv, TypeOK
  <2>2. CASE mem' = mem
    BY <2>2
  <2> QED BY <2>1, <2>2 DEF BeginClear, BeginDrop, Cleared, Deallocate, vars
<1> QED BY <1>1, <1>2, Stutters DEF Mapped

LEMMA SequenceStep == Inv /\ [Next]_vars => [Sequence!Next]_Mapped
<1> SUFFICES ASSUME Inv, [Next]_vars PROVE [Sequence!Next]_Mapped
  OBVIOUS
<1> USE DEF Sequence!Next
<1>1. Inv'
  BY NextInv
<1>2. ASSUME NEW a \in Arr, OneElement(a) PROVE [Sequence!Next]_Mapped
  <2>1. ASSUME NEW e \in user, NEW i \in 0..len[a], Enters(a, i, e)
        PROVE  Sequence!Next
    BY <1>1, <2>1, EntersPuts
  <2>2. ASSUME NEW i, Leaves(a, i), Taken(mem[a][i]) PROVE Sequence!Next
    BY <1>1, <2>2, LeavesTakes
  <2>3. CASE \E e \in user : Push(a, e)
    <3>1. len[a] \in 0..len[a]
      BY Shape
    <3> QED BY <2>1, <2>3, <3>1, PushEnters
  <2>4. CASE \E i \in 0..cap[a], e \in user : Refuse(a, i, e)
    BY <2>4, RefuseRefuses
  <2>5. CASE \E i \in 0..len[a], e \in user : Insert(a, i, e)
    BY <2>1, <2>5, InsertEnters
  <2>6. CASE (\E i \in 0..(len[a] - 1) : Remove(a, i)) \/ Pop(a)
    BY <2>2, <2>6, RemoveLeaves, PopLeaves
  <2> QED BY <1>2, <2>3, <2>4, <2>5, <2>6 DEF OneElement
<1>3. ASSUME NEW a \in Arr, ManyElements(a) PROVE Sequence!Next
  <2>1. ASSUME NEW b \in Arr, NEW at \in 0..len[a], SplitOff(a, b, at)
        PROVE  Sequence!Next
    BY <1>1, <2>1, SplitOffSplits
  <2>2. ASSUME NEW b \in Arr, AppendFrom(a, b) \/ PrependFrom(a, b)
        PROVE  Sequence!Next
    BY <1>1, <2>2, AppendFromAppends, PrependFromPrepends
  <2> QED BY <1>3, <2>1, <2>2 DEF ManyElements
<1>4. ASSUME NEW a \in Arr, Releasing(a) PROVE [Sequence!Next]_Mapped
  <2>1. CASE BeginClear(a) \/ BeginDrop(a) \/ Cleared(a) \/ Deallocate(a)
    BY <2>1, QuietSteps
  <2>2. CASE \E panics \in BOOLEAN : DestroyLast(a, panics)
    BY <1>1, <2>2, DestroyLastLeaves, LeavesDestroys
  <2> QED BY <1>4, <2>1, <2>2 DEF Releasing
<1>5. ASSUME NEW a \in Arr, NEW c \in Caps, WithCapacity(a, c)
      PROVE  UNCHANGED Mapped
  BY <1>5, QuietSteps
<1>6. CASE UNCHANGED vars
  BY <1>6 DEF vars, Mapped, Items
<1> QED BY <1>2, <1>3, <1>4, <1>5, <1>6 DEF Next, Finished

\* Array<T> implements a sequence: each operation does to the order of the
\* elements what its documentation says, for any capacities and whichever
\* destructors panic (array.rs: insert, remove, split_off, append_from and the
\* others).
THEOREM ArrayIsSequence == Spec => ActsAsSequence
<1>1. Init => Sequence!Init
  BY SequenceInit
<1>2. Inv /\ [Next]_vars => [Sequence!Next]_<<[a \in Arr |-> Items(a)], user,
                                            {e \in Elem : drops[e] > 0}>>
  BY SequenceStep DEF Mapped
<1> QED BY InitInv, NextInv, <1>1, <1>2, PTL DEF Spec, ActsAsSequence, Sequence!Spec
=============================================================================
