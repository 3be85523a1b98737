--------------------------- MODULE PageArraysProofs ---------------------------
(***************************************************************************)
(* The index arithmetic of node.rs is right for every capacity, key range  *)
(* and family of pages: the arrays stay sorted and within capacity, the    *)
(* binary searches find what they look for, and every change of the arrays *)
(* is the change of PageFamily.                                            *)
(***************************************************************************)
EXTENDS PageArrays, FiniteSetTheorems, SequenceTheorems, TLAPS

-----------------------------------------------------------------------------
(***************************************************************************)
(* Sequences with an element more, or less, and parts of sequences.        *)
(***************************************************************************)
\* r is s with e at index i.
HasAt(r, s, i, e) ==
  /\ Len(r) = Len(s) + 1
  /\ \A j \in 1..(Len(s) + 1) :
       r[j] = IF j < i THEN s[j] ELSE IF j = i THEN e ELSE s[j - 1]

LEMMA Inserted ==
  ASSUME NEW T, NEW s \in Seq(T), NEW i \in 1..(Len(s) + 1), NEW e \in T
  PROVE  InsertAt(s, i, e) \in Seq(T) /\ HasAt(InsertAt(s, i, e), s, i, e)
<1> DEFINE a == SubSeq(s, 1, i - 1)
           b == SubSeq(s, i, Len(s))
<1>0. Len(s) \in Nat
  OBVIOUS
<1>1. /\ a \in Seq(T) /\ Len(a) = i - 1
      /\ \A j \in 1..(i - 1) : a[j] = s[j]
  <2>1. \A j \in 1..(i - 1) : s[j] \in T
    BY <1>0
  <2>2. /\ SubSeq(s, 1, i - 1) \in Seq(T)
        /\ Len(SubSeq(s, 1, i - 1)) = IF 1 <= i - 1 THEN i - 1 - 1 + 1 ELSE 0
        /\ \A j \in 1..(i - 1 - 1 + 1) : SubSeq(s, 1, i - 1)[j] = s[1 + j - 1]
    BY <1>0, <2>1, SubSeqProperties
  <2>3. QED
    BY <1>0, <2>2
<1>2. /\ b \in Seq(T) /\ Len(b) = Len(s) - i + 1
      /\ \A j \in 1..(Len(s) - i + 1) : b[j] = s[i + j - 1]
  <2>1. \A j \in i..Len(s) : s[j] \in T
    BY <1>0
  <2>2. /\ SubSeq(s, i, Len(s)) \in Seq(T)
        /\ Len(SubSeq(s, i, Len(s))) = IF i <= Len(s) THEN Len(s) - i + 1 ELSE 0
        /\ \A j \in 1..(Len(s) - i + 1) : SubSeq(s, i, Len(s))[j] = s[i + j - 1]
    BY <1>0, <2>1, SubSeqProperties
  <2>3. QED
    BY <1>0, <2>2
<1>3. InsertAt(s, i, e) = (a \o <<e>>) \o b
  BY DEF InsertAt
<1> HIDE DEF a, b
<1>4. /\ a \o <<e>> \in Seq(T) /\ Len(a \o <<e>>) = i
      /\ \A j \in 1..i : (a \o <<e>>)[j] = IF j < i THEN s[j] ELSE e
  <2>1. <<e>> \in Seq(T) /\ Len(<<e>>) = 1 /\ <<e>>[1] = e
    OBVIOUS
  <2>2. /\ a \o <<e>> \in Seq(T) /\ Len(a \o <<e>>) = Len(a) + 1
        /\ \A j \in 1..(Len(a) + 1) : (a \o <<e>>)[j] =
                     IF j <= Len(a) THEN a[j] ELSE <<e>>[j - Len(a)]
    BY <1>1, <2>1, ConcatProperties
  <2>3. Len(a) = i - 1 /\ i \in Nat
    BY <1>0, <1>1
  <2>4. ASSUME NEW j \in 1..i
        PROVE  (a \o <<e>>)[j] = IF j < i THEN s[j] ELSE e
    <3>1. CASE j < i
      BY <1>1, <2>2, <2>3, <3>1
    <3>2. CASE j = i
      <4>1. j \in 1..(Len(a) + 1) /\ ~(j <= Len(a)) /\ j - Len(a) = 1 /\ ~(j < i)
        BY <2>3, <3>2
      <4>2. (a \o <<e>>)[j] = <<e>>[1]
        BY <2>2, <4>1, Zenon
      <4>3. QED
        BY <2>1, <4>1, <4>2, Zenon
    <3>3. QED
      BY <2>3, <3>1, <3>2
  <2>5. QED
    BY <2>2, <2>3, <2>4
<1> DEFINE c == a \o <<e>>
<1>5. /\ c \o b \in Seq(T)
      /\ Len(c \o b) = Len(c) + Len(b)
      /\ \A j \in 1..(Len(c) + Len(b)) : (c \o b)[j] =
                     IF j <= Len(c) THEN c[j] ELSE b[j - Len(c)]
  <2>1. c \in Seq(T) /\ b \in Seq(T)
    BY <1>2, <1>4
  <2> HIDE DEF c
  <2>2. QED
    BY <2>1, ConcatProperties
<1>6. Len(c) = i /\ \A j \in 1..i : c[j] = IF j < i THEN s[j] ELSE e
  BY <1>4
<1>7. InsertAt(s, i, e) = c \o b
  BY <1>3
<1> HIDE DEF c
<1>8. Len(c \o b) = Len(s) + 1
  BY <1>0, <1>2, <1>5, <1>6
<1>9. ASSUME NEW j \in 1..(Len(s) + 1)
      PROVE  (c \o b)[j] = IF j < i THEN s[j] ELSE IF j = i THEN e ELSE s[j - 1]
  <2>1. (c \o b)[j] = IF j <= i THEN c[j] ELSE b[j - i]
    BY <1>0, <1>2, <1>5, <1>6
  <2>2. CASE j <= i
    BY <1>0, <1>6, <2>1, <2>2
  <2>3. CASE j > i
    <3>1. j - i \in 1..(Len(s) - i + 1)
      BY <1>0, <2>3
    <3>2. b[j - i] = s[i + (j - i) - 1]
      BY <1>2, <3>1
    <3>3. QED
      BY <1>0, <2>1, <2>3, <3>2
  <2>4. j <= i \/ j > i
    BY <1>0
  <2>5. QED
    BY <2>2, <2>3, <2>4, Zenon
<1>10. HasAt(c \o b, s, i, e)
  BY <1>8, <1>9 DEF HasAt
<1>11. QED
  BY <1>5, <1>7, <1>10

LEMMA Removed ==
  ASSUME NEW T, NEW s \in Seq(T), NEW i \in 1..Len(s)
  PROVE  /\ RemoveAt(s, i) \in Seq(T)
         /\ Len(RemoveAt(s, i)) = Len(s) - 1
         /\ \A j \in 1..(Len(s) - 1) :
              RemoveAt(s, i)[j] = IF j < i THEN s[j] ELSE s[j + 1]
<1> DEFINE a == SubSeq(s, 1, i - 1)
           b == SubSeq(s, i + 1, Len(s))
<1>0. Len(s) \in Nat
  OBVIOUS
<1>1. /\ a \in Seq(T) /\ Len(a) = i - 1
      /\ \A j \in 1..(i - 1) : a[j] = s[j]
  <2>1. \A j \in 1..(i - 1) : s[j] \in T
    BY <1>0
  <2>2. /\ SubSeq(s, 1, i - 1) \in Seq(T)
        /\ Len(SubSeq(s, 1, i - 1)) = IF 1 <= i - 1 THEN i - 1 - 1 + 1 ELSE 0
        /\ \A j \in 1..(i - 1 - 1 + 1) : SubSeq(s, 1, i - 1)[j] = s[1 + j - 1]
    BY <1>0, <2>1, SubSeqProperties
  <2>3. QED
    BY <1>0, <2>2
<1>2. /\ b \in Seq(T) /\ Len(b) = Len(s) - i
      /\ \A j \in 1..(Len(s) - i) : b[j] = s[i + j]
  <2>1. \A j \in (i + 1)..Len(s) : s[j] \in T
    BY <1>0
  <2>2. /\ SubSeq(s, i + 1, Len(s)) \in Seq(T)
        /\ Len(SubSeq(s, i + 1, Len(s))) = IF i + 1 <= Len(s)
                                           THEN Len(s) - (i + 1) + 1 ELSE 0
        /\ \A j \in 1..(Len(s) - (i + 1) + 1) :
             SubSeq(s, i + 1, Len(s))[j] = s[i + 1 + j - 1]
    BY <1>0, <2>1, SubSeqProperties
  <2>3. QED
    BY <1>0, <2>2
<1>3. RemoveAt(s, i) = a \o b
  BY DEF RemoveAt
<1> HIDE DEF a, b
<1>4. /\ a \o b \in Seq(T)
      /\ Len(a \o b) = i - 1 + (Len(s) - i)
      /\ \A j \in 1..(i - 1 + (Len(s) - i)) : (a \o b)[j] =
                     IF j <= i - 1 THEN a[j] ELSE b[j - (i - 1)]
  <2>1. a \in Seq(T) /\ b \in Seq(T)
    BY ONLY <1>1, <1>2
  <2>2. /\ a \o b \in Seq(T)
        /\ Len(a \o b) = Len(a) + Len(b)
        /\ \A j \in 1..(Len(a) + Len(b)) : (a \o b)[j] =
                       IF j <= Len(a) THEN a[j] ELSE b[j - Len(a)]
    BY ONLY <2>1, ConcatProperties
  <2>3. Len(a) = i - 1 /\ Len(b) = Len(s) - i
    BY ONLY <1>1, <1>2
  <2>4. QED
    BY ONLY <2>2, <2>3
<1>5. QED
  BY <1>0, <1>1, <1>2, <1>3, <1>4

-----------------------------------------------------------------------------
(***************************************************************************)
(* The same, and parts and joins, said by where the elements are.          *)
(***************************************************************************)
\* r is s with x after the first c elements; without element p; the first c
\* elements; the others; s and then t.
IsInserted(r, s, c, x) ==
  /\ Len(r) = Len(s) + 1
  /\ r[c + 1] = x
  /\ \A j \in 1..c : r[j] = s[j]
  /\ \A j \in (c + 1)..Len(s) : r[j + 1] = s[j]

IsRemoved(r, s, p) ==
  /\ Len(r) = Len(s) - 1
  /\ \A j \in 1..(p - 1) : r[j] = s[j]
  /\ \A j \in p..(Len(s) - 1) : r[j] = s[j + 1]

IsLower(r, s, c) == Len(r) = c /\ \A j \in 1..c : r[j] = s[j]

IsUpper(r, s, c) == /\ Len(r) = Len(s) - c
                    /\ \A j \in 1..(Len(s) - c) : r[j] = s[c + j]

IsJoined(r, s, t) == /\ Len(r) = Len(s) + Len(t)
                     /\ \A j \in 1..Len(s) : r[j] = s[j]
                     /\ \A j \in 1..Len(t) : r[Len(s) + j] = t[j]

IsReplaced(r, s, p, x) == /\ Len(r) = Len(s)
                          /\ \A j \in 1..Len(s) : r[j] = IF j = p THEN x ELSE s[j]

LEMMA ArrInserted ==
  ASSUME NEW T, NEW s \in Seq(T), NEW c \in 0..Len(s), NEW x \in T
  PROVE  ArrInsert(s, c, x) \in Seq(T) /\ IsInserted(ArrInsert(s, c, x), s, c, x)
<1>0. Len(s) \in Nat /\ c \in Nat /\ c <= Len(s)
  OBVIOUS
<1>1. PICK i \in 1..(Len(s) + 1) : i = c + 1
  BY <1>0
<1>2. PICK r : r = ArrInsert(s, c, x)
  OBVIOUS
<1>3. r = InsertAt(s, i, x)
  BY <1>1, <1>2 DEF ArrInsert
<1>4. /\ r \in Seq(T) /\ Len(r) = Len(s) + 1
      /\ \A j \in 1..(Len(s) + 1) :
           r[j] = IF j < i THEN s[j] ELSE IF j = i THEN x ELSE s[j - 1]
  <2>1. InsertAt(s, i, x) \in Seq(T) /\ HasAt(InsertAt(s, i, x), s, i, x)
    BY Inserted, Zenon
  <2>2. r \in Seq(T) /\ HasAt(r, s, i, x)
    BY <1>3, <2>1, Zenon
  <2>3. QED
    BY <2>2 DEF HasAt
<1>5. ASSUME NEW j \in 1..c PROVE r[j] = s[j]
  BY <1>0, <1>1, <1>4
<1>6. ASSUME NEW j \in (c + 1)..Len(s) PROVE r[j + 1] = s[j]
  <2>1. j + 1 \in 1..(Len(s) + 1) /\ ~(j + 1 < i) /\ j + 1 # i /\ (j + 1) - 1 = j
    BY <1>0, <1>1
  <2>2. QED
    BY <1>4, <2>1
<1>7. r[c + 1] = x
  BY <1>0, <1>1, <1>4
<1>8. QED
  BY <1>2, <1>4, <1>5, <1>6, <1>7 DEF IsInserted

LEMMA ArrRemoved ==
  ASSUME NEW T, NEW s \in Seq(T), NEW c \in 0..(Len(s) - 1)
  PROVE  ArrRemove(s, c) \in Seq(T) /\ IsRemoved(ArrRemove(s, c), s, c + 1)
<1>0. Len(s) \in Nat /\ c \in Nat /\ c < Len(s)
  OBVIOUS
<1>1. PICK i \in 1..Len(s) : i = c + 1
  BY <1>0
<1>2. PICK r : r = ArrRemove(s, c)
  OBVIOUS
<1>3. r = RemoveAt(s, i)
  BY <1>1, <1>2 DEF ArrRemove
<1>4. /\ r \in Seq(T) /\ Len(r) = Len(s) - 1
      /\ \A j \in 1..(Len(s) - 1) : r[j] = IF j < i THEN s[j] ELSE s[j + 1]
  <2>1. /\ RemoveAt(s, i) \in Seq(T) /\ Len(RemoveAt(s, i)) = Len(s) - 1
        /\ \A j \in 1..(Len(s) - 1) : RemoveAt(s, i)[j] = IF j < i THEN s[j] ELSE s[j + 1]
    BY Removed, Zenon
  <2>2. QED
    BY <1>3, <2>1, Zenon
<1>5. ASSUME NEW j \in 1..(i - 1) PROVE r[j] = s[j]
  BY <1>0, <1>1, <1>4
<1>6. ASSUME NEW j \in i..(Len(s) - 1) PROVE r[j] = s[j + 1]
  BY <1>0, <1>1, <1>4
<1>7. IsRemoved(r, s, i)
  BY <1>4, <1>5, <1>6 DEF IsRemoved
<1>8. QED
  BY <1>1, <1>2, <1>4, <1>7, Zenon

LEMMA LowerPart ==
  ASSUME NEW T, NEW s \in Seq(T), NEW c \in 0..Len(s)
  PROVE  Below(s, c) \in Seq(T) /\ IsLower(Below(s, c), s, c)
<1>0. Len(s) \in Nat
  OBVIOUS
<1>1. \A j \in 1..c : s[j] \in T
  BY <1>0
<1>2. /\ SubSeq(s, 1, c) \in Seq(T)
      /\ Len(SubSeq(s, 1, c)) = IF 1 <= c THEN c - 1 + 1 ELSE 0
      /\ \A j \in 1..(c - 1 + 1) : SubSeq(s, 1, c)[j] = s[1 + j - 1]
  BY <1>0, <1>1, SubSeqProperties
<1>3. QED
  BY <1>0, <1>2 DEF Below, IsLower

LEMMA UpperPart ==
  ASSUME NEW T, NEW s \in Seq(T), NEW c \in 0..Len(s)
  PROVE  From(s, c) \in Seq(T) /\ IsUpper(From(s, c), s, c)
<1>0. Len(s) \in Nat
  OBVIOUS
<1>1. \A j \in (c + 1)..Len(s) : s[j] \in T
  BY <1>0
<1>2. /\ SubSeq(s, c + 1, Len(s)) \in Seq(T)
      /\ Len(SubSeq(s, c + 1, Len(s))) = IF c + 1 <= Len(s)
                                         THEN Len(s) - (c + 1) + 1 ELSE 0
      /\ \A j \in 1..(Len(s) - (c + 1) + 1) :
           SubSeq(s, c + 1, Len(s))[j] = s[c + 1 + j - 1]
  BY <1>0, <1>1, SubSeqProperties
<1>3. QED
  BY <1>0, <1>2 DEF From, IsUpper

LEMMA WithoutLast ==
  ASSUME NEW T, NEW s \in Seq(T), Len(s) # 0
  PROVE  /\ Front(s) \in Seq(T) /\ IsRemoved(Front(s), s, Len(s))
         /\ Last(s) = s[Len(s)] /\ Last(s) \in T
<1>1. Len(s) \in Nat /\ Len(s) - 1 \in 0..Len(s)
  OBVIOUS
<1>2. Front(s) = Below(s, Len(s) - 1)
  BY DEF Front, Below
<1>3. Front(s) \in Seq(T) /\ IsLower(Front(s), s, Len(s) - 1)
  BY <1>1, <1>2, LowerPart
<1>4. QED
  BY <1>1, <1>3 DEF Last, IsLower, IsRemoved

LEMMA Appended ==
  ASSUME NEW T, NEW s \in Seq(T), NEW x \in T
  PROVE  Append(s, x) \in Seq(T) /\ IsInserted(Append(s, x), s, Len(s), x)
BY DEF IsInserted

LEMMA Joined ==
  ASSUME NEW T, NEW s \in Seq(T), NEW t \in Seq(T)
  PROVE  s \o t \in Seq(T) /\ IsJoined(s \o t, s, t)
BY DEF IsJoined

LEMMA Replaced ==
  ASSUME NEW T, NEW s \in Seq(T), NEW p \in 1..Len(s), NEW x \in T
  PROVE  ReplaceAt(s, p, x) \in Seq(T) /\ IsReplaced(ReplaceAt(s, p, x), s, p, x)
BY ExceptSeq DEF ReplaceAt, IsReplaced

-----------------------------------------------------------------------------
(***************************************************************************)
(* Ascending sequences of numbers.                                         *)
(***************************************************************************)
LEMMA LeastNumber ==
  ASSUME NEW S, S \subseteq Nat, S # {}
  PROVE  \E x \in S : \A y \in S : x <= y
<1>1. PICK x \in S : \A y \in S : ~(<<y, x>> \in OpToRel(<, Nat))
  BY NatLessThanWellFounded, WFMin, Zenon
<1>2. \A y \in S : ~(y < x)
  BY <1>1 DEF OpToRel
<1>3. QED
  BY <1>2

\* s is strictly ascending.
Climbs(s) == \A i, j \in 1..Len(s) : i < j => s[i] < s[j]

\* c of the elements of s are at most k.
Ranks(s, k, c) == /\ c \in 0..Len(s)
                  /\ \A i \in 1..Len(s) : s[i] <= k <=> i <= c

\* There is such a number.
LEMMA RankExists ==
  ASSUME NEW s \in Seq(Nat), Climbs(s), NEW k \in Int
  PROVE  \E c : Ranks(s, k, c)
<1> DEFINE More == {m \in Nat : m = Len(s) \/ (m + 1 \in 1..Len(s) /\ s[m + 1] > k)}
<1>0. Len(s) \in Nat /\ \A i \in 1..Len(s) : s[i] \in Nat
  OBVIOUS
<1>1. More \subseteq Nat /\ More # {}
  BY <1>0
<1> HIDE DEF More
<1>2. PICK c \in More : \A m \in More : c <= m
  BY <1>1, LeastNumber
<1>3. c \in Nat /\ c <= Len(s)
  BY <1>0, <1>2 DEF More
<1>4. ASSUME NEW i \in 1..Len(s), i <= c
      PROVE  s[i] <= k
  <2>1. i - 1 \notin More
    BY <1>0, <1>2, <1>3, <1>4
  <2>2. i - 1 \in Nat /\ (i - 1) + 1 = i
    BY <1>0
  <2>3. QED
    BY <1>0, <2>1, <2>2 DEF More
<1>5. ASSUME NEW i \in 1..Len(s), i > c
      PROVE  s[i] > k
  <2>1. c + 1 \in 1..Len(s) /\ s[c + 1] > k
    BY <1>0, <1>2, <1>3, <1>5 DEF More
  <2>2. i = c + 1 \/ s[c + 1] < s[i]
    BY <1>0, <1>3, <1>5, <2>1 DEF Climbs
  <2>3. QED
    BY <1>0, <2>1, <2>2
<1>6. QED
  BY <1>0, <1>3, <1>4, <1>5 DEF Ranks

\* Elements 1 to m of s are m numbers.
LEMMA ClimbingCount ==
  ASSUME NEW s \in Seq(Nat), Climbs(s), NEW m \in 0..Len(s)
  PROVE  /\ IsFiniteSet({s[i] : i \in 1..m})
         /\ Cardinality({s[i] : i \in 1..m}) = m
<1> DEFINE S == {s[i] : i \in 1..m}
           f == [i \in 1..m |-> s[i]]
<1>0. Len(s) \in Nat /\ m \in Nat /\ \A i \in 1..Len(s) : s[i] \in Nat
  OBVIOUS
<1>1. IsFiniteSet(1..m) /\ Cardinality(1..m) = m
  BY <1>0, FS_Interval
<1>2. \A i, j \in 1..m : i # j => s[i] # s[j]
  BY <1>0 DEF Climbs
<1>3. f \in Bijection(1..m, S)
  BY <1>2 DEF Bijection, Injection, Surjection, IsInjective
<1>4. ExistsBijection(1..m, S)
  BY <1>3 DEF ExistsBijection
<1> HIDE DEF S
<1>5. IsFiniteSet(S) /\ Cardinality(S) = Cardinality(1..m)
  BY <1>1, <1>4, FS_Bijection
<1>6. QED
  BY <1>1, <1>5 DEF S

-----------------------------------------------------------------------------
(***************************************************************************)
(* The binary search of child_index.                                       *)
(***************************************************************************)
\* f is the search for k in s.
Halving(s, k, f) ==
  f = [span \in (0..Len(s)) \X (0..Len(s)) |->
         LET low    == span[1]
             high   == span[2]
             middle == low + (high - low) \div 2
         IN  IF low >= high THEN low
             ELSE IF At(s, middle) > k THEN f[<<low, middle>>]
             ELSE f[<<middle + 1, high>>]]

Nearest(c, low, high) == IF low >= high \/ c < low THEN low
                         ELSE IF c > high THEN high ELSE c

LEMMA MiddleBetween ==
  ASSUME NEW low \in Nat, NEW high \in Nat, low < high
  PROVE  LET middle == low + (high - low) \div 2
         IN  middle \in Nat /\ low <= middle /\ middle < high
OBVIOUS

LEMMA HalvingExists ==
  ASSUME NEW s \in Seq(Nat), NEW k \in Int, NEW c, Ranks(s, k, c)
  PROVE  Halving(s, k, [span \in (0..Len(s)) \X (0..Len(s)) |-> Nearest(c, span[1], span[2])])
<1> DEFINE f == [span \in (0..Len(s)) \X (0..Len(s)) |-> Nearest(c, span[1], span[2])]
<1>0. Len(s) \in Nat /\ \A i \in 1..Len(s) : s[i] \in Nat
  OBVIOUS
<1>1. c \in 0..Len(s) /\ \A i \in 1..Len(s) : s[i] <= k <=> i <= c
  BY DEF Ranks
<1>2. \A low, high \in 0..Len(s) : f[<<low, high>>] = Nearest(c, low, high)
  OBVIOUS
<1> HIDE DEF f
<1>3. ASSUME NEW low \in 0..Len(s), NEW high \in 0..Len(s)
      PROVE  Nearest(c, low, high) =
               IF low >= high THEN low
               ELSE LET middle == low + (high - low) \div 2
                    IN  IF At(s, middle) > k THEN f[<<low, middle>>] ELSE f[<<middle + 1, high>>]
  <2>1. CASE low >= high
    BY <2>1 DEF Nearest
  <2>2. CASE low < high
    <3> DEFINE middle == low + (high - low) \div 2
    <3>1. middle \in 0..Len(s) /\ low <= middle /\ middle < high /\ middle + 1 \in 1..Len(s)
      BY <1>0, <2>2, MiddleBetween
    <3> HIDE DEF middle
    <3>2. s[middle + 1] > k <=> ~(middle + 1 <= c)
      BY <1>0, <1>1, <3>1
    <3>3. f[<<low, middle>>] = Nearest(c, low, middle)
      BY <1>2, <3>1
    <3>4. f[<<middle + 1, high>>] = Nearest(c, middle + 1, high)
      BY <1>0, <1>2, <3>1
    <3>5. Nearest(c, low, high) = IF ~(middle + 1 <= c) THEN Nearest(c, low, middle)
                                  ELSE Nearest(c, middle + 1, high)
      BY <1>0, <1>1, <2>2, <3>1 DEF Nearest
    <3>6. Nearest(c, low, high) =
            IF At(s, middle) > k THEN f[<<low, middle>>] ELSE f[<<middle + 1, high>>]
      BY <3>2, <3>3, <3>4, <3>5 DEF At
    <3>7. ~(low >= high)
      BY <2>2
    <3>8. QED
      BY <3>6, <3>7 DEF middle
  <2>3. QED
    BY <1>0, <2>1, <2>2
<1>4. QED
  BY <1>3 DEF Halving, f

LEMMA HalvingFinds ==
  ASSUME NEW s \in Seq(Nat), NEW k \in Int, NEW c, Ranks(s, k, c), NEW f, Halving(s, k, f)
  PROVE  f[<<0, Len(s)>>] = c
<1>0. Len(s) \in Nat /\ \A i \in 1..Len(s) : s[i] \in Nat
  OBVIOUS
<1>1. c \in 0..Len(s) /\ \A i \in 1..Len(s) : s[i] <= k <=> i <= c
  BY DEF Ranks
<1>2. \A low, high \in 0..Len(s) :
        f[<<low, high>>] = IF low >= high THEN low
                       ELSE LET middle == low + (high - low) \div 2
                            IN  IF At(s, middle) > k THEN f[<<low, middle>>]
                                                     ELSE f[<<middle + 1, high>>]
  BY DEF Halving
<1> DEFINE Wrong == {n \in Nat : \E low, high \in 0..Len(s) :
                       /\ low <= c /\ c <= high /\ high - low = n
                       /\ f[<<low, high>>] # c}
<1>3. ASSUME Wrong # {} PROVE FALSE
  <2>1. PICK n \in Wrong : \A m \in Wrong : n <= m
    BY <1>3, LeastNumber
  <2>2. PICK low \in 0..Len(s), high \in 0..Len(s) :
          low <= c /\ c <= high /\ high - low = n /\ f[<<low, high>>] # c
    BY <2>1
  <2>3. \A a, b \in 0..Len(s) :
          a <= c /\ c <= b /\ b - a \in Nat /\ b - a < n => f[<<a, b>>] = c
    <3> TAKE a \in 0..Len(s), b \in 0..Len(s)
    <3> HAVE a <= c /\ c <= b /\ b - a \in Nat /\ b - a < n
    <3>1. b - a \notin Wrong
      <4> HIDE DEF Wrong
      <4>1. n \in Nat
        BY <2>1 DEF Wrong
      <4>2. ~(n <= b - a)
        BY <1>0, <4>1
      <4>3. QED
        BY <2>1, <4>2
    <3>2. QED
      BY <3>1
  <2> HIDE DEF Wrong
  <2>4. CASE low = high
    <3>1. f[<<low, high>>] = low
      <4>1. low >= high
        BY <1>0, <2>4
      <4>2. QED
        BY <1>2, <4>1, Zenon
    <3>2. low = c
      BY <1>0, <1>1, <2>2, <2>4
    <3>3. QED
      BY <2>2, <3>1, <3>2
  <2>5. CASE low < high
    <3> DEFINE middle == low + (high - low) \div 2
    <3>1. middle \in 0..Len(s) /\ low <= middle /\ middle < high /\ middle + 1 \in 1..Len(s)
      BY <1>0, <2>5, MiddleBetween
    <3>2. f[<<low, high>>] = IF At(s, middle) > k THEN f[<<low, middle>>] ELSE f[<<middle + 1, high>>]
      BY <1>2, <2>5
    <3> HIDE DEF middle
    <3>3. s[middle + 1] > k <=> ~(middle + 1 <= c)
      BY <1>0, <1>1, <3>1
    <3>4. CASE middle + 1 <= c
      <4>1. f[<<low, high>>] = f[<<middle + 1, high>>]
        BY <3>2, <3>3, <3>4 DEF At
      <4>2. middle + 1 \in 0..Len(s) /\ high - (middle + 1) \in Nat /\ high - (middle + 1) < n
        BY <1>0, <2>2, <3>1
      <4>3. f[<<middle + 1, high>>] = c
        BY <2>2, <2>3, <3>4, <4>2
      <4>4. QED
        BY <2>2, <4>1, <4>3
    <3>5. CASE ~(middle + 1 <= c)
      <4>1. f[<<low, high>>] = f[<<low, middle>>]
        BY <3>2, <3>3, <3>5 DEF At
      <4>2. c <= middle /\ middle - low \in Nat /\ middle - low < n
        BY <1>0, <1>1, <2>2, <3>1, <3>5
      <4>3. f[<<low, middle>>] = c
        BY <2>2, <2>3, <3>1, <4>2
      <4>4. QED
        BY <2>2, <4>1, <4>3
    <3>6. QED
      BY <3>4, <3>5
  <2>6. low = high \/ low < high
    BY <1>0, <1>1, <2>2
  <2>7. QED
    BY <2>4, <2>5, <2>6
<1>4. Len(s) \in 0..Len(s) /\ 0 \in 0..Len(s) /\ Len(s) - 0 \in Nat
  BY <1>0
<1>5. Len(s) - 0 \notin Wrong
  BY <1>3
<1>6. 0 <= c /\ c <= Len(s)
  BY <1>0, <1>1
<1>7. ~(f[<<0, Len(s)>>] # c)
  BY <1>4, <1>5, <1>6
<1>8. QED
  BY <1>7

\* child_index returns how many separators are at most k.
LEMMA ChildIndexRanks ==
  ASSUME NEW pg, pg.keys \in Seq(Nat), Climbs(pg.keys), NEW k \in Int
  PROVE  Ranks(pg.keys, k, ChildIndex(pg, k))
<1>1. PICK c : Ranks(pg.keys, k, c)
  BY RankExists
<1> DEFINE f == CHOOSE f : f = [span \in (0..Len(pg.keys)) \X (0..Len(pg.keys)) |->
                  LET low    == span[1]
                      high   == span[2]
                      middle == low + (high - low) \div 2
                  IN  IF low >= high THEN low
                      ELSE IF At(pg.keys, middle) > k THEN f[<<low, middle>>]
                      ELSE f[<<middle + 1, high>>]]
<1>2. ChildIndex(pg, k) = f[<<0, Len(pg.keys)>>]
  BY DEF ChildIndex
<1>3. \E g : Halving(pg.keys, k, g)
  BY <1>1, HalvingExists
<1>4. Halving(pg.keys, k, f)
  BY <1>3 DEF Halving
<1> HIDE DEF f
<1>5. f[<<0, Len(pg.keys)>>] = c
  BY <1>1, <1>4, HalvingFinds
<1>6. QED
  BY <1>1, <1>2, <1>5

-----------------------------------------------------------------------------
(***************************************************************************)
(* A column of ascending keys with a column of values, and the map they    *)
(* stand for: a leaf's records, and the separators of an internal page     *)
(* with the children to their right.                                       *)
(***************************************************************************)
\* The columns a and b stand for the map f, whose other keys have none.
Maps(a, b, f, none) ==
  /\ f = [k \in Key |-> f[k]]
  /\ \A i \in 1..Len(a) : f[a[i]] = b[i]
  /\ \A k \in Key : (\A i \in 1..Len(a) : a[i] # k) => f[k] = none

\* A column of keys, each once, in ascending order.
Column(a) == a \in Seq(Key) /\ Climbs(a)

LEMMA KeyTypes == MaxKey \in Nat /\ Key \subseteq Nat /\ 0 \notin Key /\ MaxKey + 1 \notin Key
BY ArraysAssumption DEF Key

LEMMA KeysOf ==
  ASSUME NEW a \in Seq(Key)
  PROVE  Len(a) \in Nat /\ \A i \in 1..Len(a) : a[i] \in Key /\ a[i] \in Nat
<1>1. Len(a) \in Nat /\ \A i \in 1..Len(a) : a[i] \in Key
  OBVIOUS
<1>2. QED
  BY <1>1, KeyTypes

LEMMA Distinct ==
  ASSUME NEW a, Column(a), NEW i \in 1..Len(a), NEW j \in 1..Len(a), a[i] = a[j]
  PROVE  i = j
<1>1. a \in Seq(Key)
  BY DEF Column
<1>2. Len(a) \in Nat /\ \A x \in 1..Len(a) : a[x] \in Nat
  BY <1>1, KeysOf
<1>3. QED
  BY <1>2 DEF Column, Climbs

LEMMA SameMaps ==
  ASSUME NEW a, NEW b, NEW none, NEW f, NEW g, Maps(a, b, f, none), Maps(a, b, g, none),
         a \in Seq(Key)
  PROVE  f = g
<1>1. \A k \in Key : f[k] = g[k]
  <2> TAKE k \in Key
  <2>1. CASE \E i \in 1..Len(a) : a[i] = k
    BY <2>1 DEF Maps
  <2>2. CASE \A i \in 1..Len(a) : a[i] # k
    BY <2>2 DEF Maps
  <2>3. QED
    BY <2>1, <2>2
<1>2. f = [k \in Key |-> f[k]] /\ g = [k \in Key |-> g[k]]
  BY DEF Maps
<1>3. QED
  BY <1>1, <1>2

\* c keys are below k, and the others above.
Fits(a, c, k) == /\ c \in 0..Len(a)
                 /\ \A i \in 1..c : a[i] < k
                 /\ \A i \in (c + 1)..Len(a) : a[i] > k

LEMMA InsertedFrom ==
  ASSUME NEW s, NEW r, Len(s) \in Nat, NEW c \in 0..Len(s), NEW x, IsInserted(r, s, c, x),
         NEW j \in 1..(Len(s) + 1)
  PROVE  \/ j \in 1..c /\ j \in 1..Len(s) /\ r[j] = s[j]
         \/ j = c + 1 /\ r[j] = x
         \/ j - 1 \in (c + 1)..Len(s) /\ j - 1 \in 1..Len(s) /\ r[j] = s[j - 1]
<1>1. CASE j <= c
  BY <1>1 DEF IsInserted
<1>2. CASE j = c + 1
  BY <1>2 DEF IsInserted
<1>3. CASE j > c + 1
  <2>1. j - 1 \in (c + 1)..Len(s) /\ j - 1 \in 1..Len(s) /\ (j - 1) + 1 = j
    BY <1>3
  <2>2. r[(j - 1) + 1] = s[j - 1]
    BY <2>1 DEF IsInserted
  <2>3. QED
    BY <2>1, <2>2
<1>4. QED
  BY <1>1, <1>2, <1>3

LEMMA InsertColumn ==
  ASSUME NEW a, Column(a), NEW r \in Seq(Key), NEW c, NEW k \in Key, Fits(a, c, k),
         IsInserted(r, a, c, k)
  PROVE  Column(r)
<1>0. a \in Seq(Key) /\ Climbs(a)
  BY DEF Column
<1>1. Len(a) \in Nat /\ c \in 0..Len(a) /\ k \in Nat /\ \A i \in 1..Len(a) : a[i] \in Nat
  BY <1>0, KeysOf, KeyTypes DEF Fits
<1>2. \A i \in 1..c : a[i] < k
  BY DEF Fits
<1>3. \A i \in (c + 1)..Len(a) : k < a[i]
  BY <1>1 DEF Fits
<1>4. Len(r) = Len(a) + 1
  BY DEF IsInserted
<1>5. SUFFICES ASSUME NEW i \in 1..(Len(a) + 1), NEW j \in 1..(Len(a) + 1), i < j
               PROVE  r[i] < r[j]
  BY <1>4 DEF Column, Climbs
<1>6. \/ i \in 1..c /\ i \in 1..Len(a) /\ r[i] = a[i]
      \/ i = c + 1 /\ r[i] = k
      \/ i - 1 \in (c + 1)..Len(a) /\ i - 1 \in 1..Len(a) /\ r[i] = a[i - 1]
  BY <1>1, InsertedFrom
<1>7. \/ j \in 1..c /\ j \in 1..Len(a) /\ r[j] = a[j]
      \/ j = c + 1 /\ r[j] = k
      \/ j - 1 \in (c + 1)..Len(a) /\ j - 1 \in 1..Len(a) /\ r[j] = a[j - 1]
  BY <1>1, InsertedFrom
<1>8. CASE j \in 1..c /\ j \in 1..Len(a) /\ r[j] = a[j]
  BY <1>0, <1>1, <1>5, <1>6, <1>8 DEF Climbs
<1>9. CASE j = c + 1 /\ r[j] = k
  BY <1>1, <1>2, <1>5, <1>6, <1>9
<1>10. CASE j - 1 \in (c + 1)..Len(a) /\ j - 1 \in 1..Len(a) /\ r[j] = a[j - 1]
  <2>1. CASE i \in 1..c /\ i \in 1..Len(a) /\ r[i] = a[i]
    <3>1. i < j - 1
      BY <1>1, <1>10, <2>1
    <3>2. QED
      BY <1>0, <1>10, <2>1, <3>1 DEF Climbs
  <2>2. CASE i = c + 1 /\ r[i] = k
    BY <1>3, <1>10, <2>2
  <2>3. CASE i - 1 \in (c + 1)..Len(a) /\ i - 1 \in 1..Len(a) /\ r[i] = a[i - 1]
    <3>1. i - 1 < j - 1
      BY <1>1, <1>5
    <3>2. QED
      BY <1>0, <1>10, <2>3, <3>1 DEF Climbs
  <2>4. QED
    BY <1>6, <2>1, <2>2, <2>3
<1>11. QED
  BY <1>7, <1>8, <1>9, <1>10

LEMMA InsertMaps ==
  ASSUME NEW a, Column(a), NEW b, NEW f, NEW none, Maps(a, b, f, none), Len(b) = Len(a),
         NEW r \in Seq(Key), NEW q, NEW c, NEW k \in Key, NEW v, Fits(a, c, k),
         IsInserted(r, a, c, k), IsInserted(q, b, c, v)
  PROVE  Maps(r, q, [f EXCEPT ![k] = v], none)
<1> DEFINE g == [f EXCEPT ![k] = v]
<1>0. a \in Seq(Key) /\ Climbs(a)
  BY DEF Column
<1>1. Len(a) \in Nat /\ c \in 0..Len(a) /\ k \in Nat /\ \A i \in 1..Len(a) : a[i] \in Nat /\ a[i] \in Key
  BY <1>0, KeysOf, KeyTypes DEF Fits
<1>2. \A i \in 1..Len(a) : a[i] # k
  BY <1>1 DEF Fits
<1>3. f = [y \in Key |-> f[y]]
  BY DEF Maps
<1>4. g = [y \in Key |-> g[y]] /\ \A y \in Key : g[y] = IF y = k THEN v ELSE f[y]
  BY <1>3
<1> HIDE DEF g
<1>5. Len(r) = Len(a) + 1
  BY DEF IsInserted
<1>6. ASSUME NEW j \in 1..(Len(a) + 1) PROVE g[r[j]] = q[j]
  <2>1. \/ j \in 1..c /\ j \in 1..Len(a) /\ r[j] = a[j]
        \/ j = c + 1 /\ r[j] = k
        \/ j - 1 \in (c + 1)..Len(a) /\ j - 1 \in 1..Len(a) /\ r[j] = a[j - 1]
    BY <1>1, InsertedFrom
  <2>2. \/ j \in 1..c /\ j \in 1..Len(a) /\ q[j] = b[j]
        \/ j = c + 1 /\ q[j] = v
        \/ j - 1 \in (c + 1)..Len(a) /\ j - 1 \in 1..Len(a) /\ q[j] = b[j - 1]
    BY <1>1, InsertedFrom
  <2>3. CASE j \in 1..c
    <3>1. r[j] = a[j] /\ q[j] = b[j] /\ j \in 1..Len(a)
      BY <1>1, <2>1, <2>2, <2>3
    <3>2. QED
      BY <1>1, <1>2, <1>4, <3>1 DEF Maps
  <2>4. CASE j = c + 1
    <3>1. r[j] = k /\ q[j] = v
      BY <1>1, <2>1, <2>2, <2>4
    <3>2. QED
      BY <1>4, <3>1
  <2>5. CASE j - 1 \in (c + 1)..Len(a)
    <3>1. r[j] = a[j - 1] /\ q[j] = b[j - 1] /\ j - 1 \in 1..Len(a)
      BY <1>1, <2>1, <2>2, <2>5
    <3>2. QED
      BY <1>1, <1>2, <1>4, <3>1 DEF Maps
  <2>6. QED
    BY <2>1, <2>3, <2>4, <2>5
<1>7. ASSUME NEW y \in Key, \A j \in 1..(Len(a) + 1) : r[j] # y
      PROVE  g[y] = none
  <2>1. y # k
    <3>1. c + 1 \in 1..(Len(a) + 1) /\ r[c + 1] = k
      BY <1>1 DEF IsInserted
    <3>2. QED
      BY <1>7, <3>1
  <2>2. ASSUME NEW i \in 1..Len(a) PROVE a[i] # y
    <3>1. CASE i <= c
      <4>1. i \in 1..(Len(a) + 1) /\ r[i] = a[i]
        BY <1>1, <3>1 DEF IsInserted
      <4>2. QED
        BY <1>7, <4>1
    <3>2. CASE i > c
      <4>1. i + 1 \in 1..(Len(a) + 1) /\ r[i + 1] = a[i]
        BY <1>1, <3>2 DEF IsInserted
      <4>2. QED
        BY <1>7, <4>1
    <3>3. QED
      BY <1>1, <3>1, <3>2
  <2>3. f[y] = none
    BY <2>2 DEF Maps
  <2>4. QED
    BY <1>4, <2>1, <2>3
<1>8. Maps(r, q, g, none)
  BY <1>4, <1>5, <1>6, <1>7 DEF Maps
<1>9. QED
  BY <1>8 DEF g

LEMMA UpdateMaps ==
  ASSUME NEW a, Column(a), NEW b, NEW f, NEW none, Maps(a, b, f, none), Len(b) = Len(a),
         NEW q, NEW p \in 1..Len(a), NEW v, IsReplaced(q, b, p, v)
  PROVE  Maps(a, q, [f EXCEPT ![a[p]] = v], none)
<1> DEFINE g == [f EXCEPT ![a[p]] = v]
<1>1. Len(a) \in Nat /\ \A i \in 1..Len(a) : a[i] \in Key
  BY KeysOf DEF Column
<1>2. \A i \in 1..Len(a) : i # p => a[i] # a[p]
  BY Distinct
<1>3. f = [y \in Key |-> f[y]]
  BY DEF Maps
<1>4. g = [y \in Key |-> g[y]] /\ \A y \in Key : g[y] = IF y = a[p] THEN v ELSE f[y]
  BY <1>1, <1>3
<1> HIDE DEF g
<1>5. ASSUME NEW j \in 1..Len(a) PROVE g[a[j]] = q[j]
  BY <1>1, <1>2, <1>4 DEF IsReplaced, Maps
<1>6. ASSUME NEW y \in Key, \A j \in 1..Len(a) : a[j] # y PROVE g[y] = none
  BY <1>4, <1>6 DEF Maps
<1>7. QED
  BY <1>4, <1>5, <1>6 DEF Maps, g

LEMMA RemovedFrom ==
  ASSUME NEW s, NEW r, Len(s) \in Nat, NEW p \in 1..Len(s), IsRemoved(r, s, p),
         NEW j \in 1..(Len(s) - 1)
  PROVE  \/ j \in 1..(p - 1) /\ j \in 1..Len(s) /\ r[j] = s[j]
         \/ j \in p..(Len(s) - 1) /\ j + 1 \in 1..Len(s) /\ r[j] = s[j + 1]
<1>1. CASE j < p
  BY <1>1 DEF IsRemoved
<1>2. CASE j >= p
  BY <1>2 DEF IsRemoved
<1>3. QED
  BY <1>1, <1>2

LEMMA RemoveColumn ==
  ASSUME NEW a, Column(a), NEW r \in Seq(Key), NEW p \in 1..Len(a), IsRemoved(r, a, p)
  PROVE  Column(r)
<1>0. a \in Seq(Key) /\ Climbs(a)
  BY DEF Column
<1>1. Len(a) \in Nat /\ \A i \in 1..Len(a) : a[i] \in Nat
  BY <1>0, KeysOf
<1>2. Len(r) = Len(a) - 1
  BY DEF IsRemoved
<1>3. SUFFICES ASSUME NEW i \in 1..(Len(a) - 1), NEW j \in 1..(Len(a) - 1), i < j
               PROVE  r[i] < r[j]
  BY <1>2 DEF Column, Climbs
<1>4. \/ i \in 1..(p - 1) /\ i \in 1..Len(a) /\ r[i] = a[i]
      \/ i \in p..(Len(a) - 1) /\ i + 1 \in 1..Len(a) /\ r[i] = a[i + 1]
  BY <1>1, RemovedFrom
<1>5. \/ j \in 1..(p - 1) /\ j \in 1..Len(a) /\ r[j] = a[j]
      \/ j \in p..(Len(a) - 1) /\ j + 1 \in 1..Len(a) /\ r[j] = a[j + 1]
  BY <1>1, RemovedFrom
<1>6. i < j + 1 /\ i + 1 < j + 1
  BY <1>1, <1>3
<1>7. QED
  BY <1>0, <1>1, <1>3, <1>4, <1>5, <1>6 DEF Climbs

LEMMA RemoveMaps ==
  ASSUME NEW a, Column(a), NEW b, NEW f, NEW none, Maps(a, b, f, none), Len(b) = Len(a),
         NEW r \in Seq(Key), NEW q, NEW p \in 1..Len(a), IsRemoved(r, a, p), IsRemoved(q, b, p)
  PROVE  Maps(r, q, [f EXCEPT ![a[p]] = none], none)
<1> DEFINE g == [f EXCEPT ![a[p]] = none]
<1>1. Len(a) \in Nat /\ \A i \in 1..Len(a) : a[i] \in Key
  BY KeysOf DEF Column
<1>2. \A i \in 1..Len(a) : i # p => a[i] # a[p]
  BY Distinct
<1>3. f = [y \in Key |-> f[y]]
  BY DEF Maps
<1>4. g = [y \in Key |-> g[y]] /\ \A y \in Key : g[y] = IF y = a[p] THEN none ELSE f[y]
  BY <1>1, <1>3
<1> HIDE DEF g
<1>5. Len(r) = Len(a) - 1
  BY DEF IsRemoved
<1>6. ASSUME NEW j \in 1..(Len(a) - 1) PROVE g[r[j]] = q[j]
  <2>1. CASE j \in 1..(p - 1)
    <3>1. r[j] = a[j] /\ q[j] = b[j] /\ j \in 1..Len(a) /\ j # p
      BY <1>1, <2>1 DEF IsRemoved
    <3>2. QED
      BY <1>1, <1>2, <1>4, <3>1 DEF Maps
  <2>2. CASE j \in p..(Len(a) - 1)
    <3>1. r[j] = a[j + 1] /\ q[j] = b[j + 1] /\ j + 1 \in 1..Len(a) /\ j + 1 # p
      BY <1>1, <2>2 DEF IsRemoved
    <3>2. QED
      BY <1>1, <1>2, <1>4, <3>1 DEF Maps
  <2>3. QED
    BY <1>1, <2>1, <2>2
<1>7. ASSUME NEW y \in Key, \A j \in 1..(Len(a) - 1) : r[j] # y
      PROVE  g[y] = none
  <2>1. ASSUME NEW i \in 1..Len(a), i # p PROVE a[i] # y
    <3>1. CASE i < p
      <4>1. i \in 1..(Len(a) - 1) /\ r[i] = a[i]
        BY <1>1, <3>1 DEF IsRemoved
      <4>2. QED
        BY <1>7, <4>1
    <3>2. CASE i > p
      <4>1. i - 1 \in 1..(Len(a) - 1) /\ i - 1 \in p..(Len(a) - 1) /\ (i - 1) + 1 = i
        BY <1>1, <3>2
      <4>2. r[i - 1] = a[i]
        BY <4>1 DEF IsRemoved
      <4>3. QED
        BY <1>7, <4>1, <4>2
    <3>3. QED
      BY <1>1, <2>1, <3>1, <3>2
  <2>2. CASE y = a[p]
    BY <1>4, <2>2
  <2>3. CASE y # a[p]
    <3>1. f[y] = none
      BY <2>1, <2>3 DEF Maps
    <3>2. QED
      BY <1>4, <2>3, <3>1
  <2>4. QED
    BY <2>2, <2>3
<1>8. QED
  BY <1>4, <1>5, <1>6, <1>7 DEF Maps, g

\* The first c keys are those in S.
Parts(a, c, S) == /\ c \in 0..Len(a)
                  /\ \A i \in 1..c : a[i] \in S
                  /\ \A i \in (c + 1)..Len(a) : a[i] \notin S

LEMMA LowerColumn ==
  ASSUME NEW a, Column(a), NEW r \in Seq(Key), NEW c \in 0..Len(a), IsLower(r, a, c)
  PROVE  Column(r)
<1>1. Len(a) \in Nat
  BY KeysOf DEF Column
<1>2. QED
  BY <1>1 DEF Column, Climbs, IsLower

LEMMA UpperColumn ==
  ASSUME NEW a, Column(a), NEW r \in Seq(Key), NEW c \in 0..Len(a), IsUpper(r, a, c)
  PROVE  Column(r)
<1>1. Len(a) \in Nat /\ Climbs(a)
  BY KeysOf DEF Column
<1>2. SUFFICES ASSUME NEW i \in 1..(Len(a) - c), NEW j \in 1..(Len(a) - c), i < j
               PROVE  r[i] < r[j]
  BY DEF Column, Climbs, IsUpper
<1>3. c + i \in 1..Len(a) /\ c + j \in 1..Len(a) /\ c + i < c + j
  BY <1>1, <1>2
<1>4. r[i] = a[c + i] /\ r[j] = a[c + j]
  BY DEF IsUpper
<1>5. QED
  BY <1>1, <1>3, <1>4 DEF Climbs

LEMMA LowerMaps ==
  ASSUME NEW a, Column(a), NEW b, NEW f, NEW none, Maps(a, b, f, none), Len(b) = Len(a),
         NEW r \in Seq(Key), NEW q, NEW c, NEW S, Parts(a, c, S), IsLower(r, a, c), IsLower(q, b, c)
  PROVE  Maps(r, q, [k \in Key |-> IF k \in S THEN f[k] ELSE none], none)
<1> DEFINE g == [k \in Key |-> IF k \in S THEN f[k] ELSE none]
<1>1. Len(a) \in Nat /\ c \in 0..Len(a) /\ \A i \in 1..Len(a) : a[i] \in Key
  BY KeysOf DEF Column, Parts
<1>2. ASSUME NEW j \in 1..c PROVE g[r[j]] = q[j]
  BY <1>1 DEF Parts, Maps, IsLower
<1>3. ASSUME NEW y \in Key, \A j \in 1..c : r[j] # y PROVE g[y] = none
  <2>1. CASE y \in S
    <3>1. \A i \in 1..Len(a) : a[i] # y
      BY <1>1, <1>3, <2>1 DEF Parts, IsLower
    <3>2. QED
      BY <3>1 DEF Maps
  <2>2. QED
    BY <2>1
<1>4. g = [k \in Key |-> g[k]]
  OBVIOUS
<1>5. QED
  BY <1>2, <1>3, <1>4 DEF Maps, IsLower

LEMMA UpperMaps ==
  ASSUME NEW a, Column(a), NEW b, NEW f, NEW none, Maps(a, b, f, none), Len(b) = Len(a),
         NEW r \in Seq(Key), NEW q, NEW c, NEW S, Parts(a, c, S), IsUpper(r, a, c), IsUpper(q, b, c)
  PROVE  Maps(r, q, [k \in Key |-> IF k \in S THEN none ELSE f[k]], none)
<1> DEFINE g == [k \in Key |-> IF k \in S THEN none ELSE f[k]]
<1>1. Len(a) \in Nat /\ c \in 0..Len(a) /\ \A i \in 1..Len(a) : a[i] \in Key
  BY KeysOf DEF Column, Parts
<1>2. ASSUME NEW j \in 1..(Len(a) - c) PROVE g[r[j]] = q[j]
  <2>1. c + j \in (c + 1)..Len(a) /\ c + j \in 1..Len(a) /\ r[j] = a[c + j] /\ q[j] = b[c + j]
    BY <1>1 DEF IsUpper
  <2>2. QED
    BY <1>1, <2>1 DEF Parts, Maps
<1>3. ASSUME NEW y \in Key, \A j \in 1..(Len(a) - c) : r[j] # y PROVE g[y] = none
  <2>1. CASE y \notin S
    <3>1. ASSUME NEW i \in (c + 1)..Len(a) PROVE a[i] # y
      <4>1. i - c \in 1..(Len(a) - c) /\ c + (i - c) = i
        BY <1>1
      <4>2. r[i - c] = a[c + (i - c)]
        BY <4>1 DEF IsUpper
      <4>3. QED
        BY <1>3, <4>1, <4>2
    <3>2. \A i \in 1..Len(a) : a[i] # y
      BY <1>1, <2>1, <3>1 DEF Parts
    <3>3. QED
      BY <2>1, <3>2 DEF Maps
  <2>2. QED
    BY <2>1
<1>4. g = [k \in Key |-> g[k]]
  OBVIOUS
<1>5. QED
  BY <1>2, <1>3, <1>4 DEF Maps, IsUpper

\* The keys of s are below sep, those of t are not.
Splits(s, t, sep) == /\ \A i \in 1..Len(s) : s[i] < sep
                     /\ \A i \in 1..Len(t) : sep <= t[i]

LEMMA JoinedFrom ==
  ASSUME NEW s, NEW t, NEW r, Len(s) \in Nat, Len(t) \in Nat, IsJoined(r, s, t),
         NEW j \in 1..(Len(s) + Len(t))
  PROVE  \/ j \in 1..Len(s) /\ r[j] = s[j]
         \/ j > Len(s) /\ j - Len(s) \in 1..Len(t) /\ r[j] = t[j - Len(s)]
<1>1. CASE j <= Len(s)
  BY <1>1 DEF IsJoined
<1>2. CASE j > Len(s)
  <2>1. j - Len(s) \in 1..Len(t) /\ Len(s) + (j - Len(s)) = j
    BY <1>2
  <2>2. r[Len(s) + (j - Len(s))] = t[j - Len(s)]
    BY <2>1 DEF IsJoined
  <2>3. QED
    BY <1>2, <2>1, <2>2
<1>3. QED
  BY <1>1, <1>2

LEMMA JoinColumn ==
  ASSUME NEW s, Column(s), NEW t, Column(t), NEW sep \in Nat, Splits(s, t, sep),
         NEW r \in Seq(Key), IsJoined(r, s, t)
  PROVE  Column(r)
<1>1. /\ Len(s) \in Nat /\ Len(t) \in Nat /\ Climbs(s) /\ Climbs(t)
      /\ \A i \in 1..Len(s) : s[i] \in Nat
      /\ \A i \in 1..Len(t) : t[i] \in Nat
  BY KeysOf DEF Column
<1>2. SUFFICES ASSUME NEW i \in 1..(Len(s) + Len(t)), NEW j \in 1..(Len(s) + Len(t)), i < j
               PROVE  r[i] < r[j]
  BY DEF Column, Climbs, IsJoined
<1>3. \/ i \in 1..Len(s) /\ r[i] = s[i]
      \/ i > Len(s) /\ i - Len(s) \in 1..Len(t) /\ r[i] = t[i - Len(s)]
  BY <1>1, JoinedFrom
<1>4. \/ j \in 1..Len(s) /\ r[j] = s[j]
      \/ j > Len(s) /\ j - Len(s) \in 1..Len(t) /\ r[j] = t[j - Len(s)]
  BY <1>1, JoinedFrom
<1>5. i - Len(s) < j - Len(s)
  BY <1>1, <1>2
<1>6. QED
  BY SMTT(30), <1>1, <1>2, <1>3, <1>4, <1>5 DEF Climbs, Splits

LEMMA JoinMaps ==
  ASSUME NEW s, Column(s), NEW t, Column(t), NEW sep \in Nat, Splits(s, t, sep),
         NEW r \in Seq(Key), IsJoined(r, s, t), NEW none,
         NEW b, NEW f, Maps(s, b, f, none), Len(b) = Len(s),
         NEW d, NEW g, Maps(t, d, g, none), Len(d) = Len(t),
         NEW q, IsJoined(q, b, d)
  PROVE  Maps(r, q, [k \in Key |-> IF k < sep THEN f[k] ELSE g[k]], none)
<1> DEFINE h == [k \in Key |-> IF k < sep THEN f[k] ELSE g[k]]
<1>1. /\ Len(s) \in Nat /\ Len(t) \in Nat
      /\ \A i \in 1..Len(s) : s[i] \in Key /\ s[i] \in Nat
      /\ \A i \in 1..Len(t) : t[i] \in Key /\ t[i] \in Nat
  BY KeysOf DEF Column
<1>2. ASSUME NEW j \in 1..(Len(s) + Len(t)) PROVE h[r[j]] = q[j]
  <2>1. CASE j <= Len(s)
    <3>1. j \in 1..Len(s) /\ r[j] = s[j] /\ q[j] = b[j]
      BY <1>1, <2>1 DEF IsJoined
    <3>2. QED
      BY <1>1, <3>1 DEF Splits, Maps
  <2>2. CASE j > Len(s)
    <3>1. j - Len(s) \in 1..Len(t) /\ Len(s) + (j - Len(s)) = j
      BY <1>1, <2>2
    <3>2. r[j] = t[j - Len(s)] /\ q[j] = d[j - Len(s)]
      <4>1. r[Len(s) + (j - Len(s))] = t[j - Len(s)]
        BY ONLY <3>1, IsJoined(r, s, t) DEF IsJoined
      <4>2. j - Len(s) \in 1..Len(d) /\ Len(b) + (j - Len(s)) = j
        BY ONLY <3>1, Len(b) = Len(s), Len(d) = Len(t)
      <4>3. q[Len(b) + (j - Len(s))] = d[j - Len(s)]
        BY ONLY <4>2, IsJoined(q, b, d) DEF IsJoined
      <4>4. QED
        BY ONLY <3>1, <4>1, <4>2, <4>3
    <3>3. ~(t[j - Len(s)] < sep) /\ t[j - Len(s)] \in Key
      BY <1>1, <3>1 DEF Splits
    <3>4. QED
      BY <3>1, <3>2, <3>3 DEF Maps
  <2>3. QED
    BY <1>1, <2>1, <2>2
<1>3. ASSUME NEW y \in Key, \A j \in 1..(Len(s) + Len(t)) : r[j] # y
      PROVE  h[y] = none
  <2>1. ASSUME NEW i \in 1..Len(s) PROVE s[i] # y
    BY <1>1, <1>3 DEF IsJoined
  <2>2. ASSUME NEW i \in 1..Len(t) PROVE t[i] # y
    <3>1. r[Len(s) + i] = t[i]
      BY DEF IsJoined
    <3>2. Len(s) + i \in 1..(Len(s) + Len(t))
      BY <1>1
    <3>3. QED
      BY <1>3, <3>1, <3>2
  <2>3. f[y] = none /\ g[y] = none
    BY <2>1, <2>2 DEF Maps
  <2>4. QED
    BY <2>3
<1>4. h = [k \in Key |-> h[k]]
  OBVIOUS
<1> HIDE DEF h
<1>5. Maps(r, q, h, none)
  BY <1>2, <1>3, <1>4 DEF Maps, IsJoined
<1>6. QED
  BY <1>5 DEF h

LEMMA RekeyColumn ==
  ASSUME NEW a, Column(a), NEW r \in Seq(Key), NEW p \in 1..Len(a), NEW k \in Key,
         \A i \in 1..(p - 1) : a[i] < k, \A i \in (p + 1)..Len(a) : k < a[i],
         IsReplaced(r, a, p, k)
  PROVE  Column(r)
<1>1. Len(a) \in Nat /\ k \in Nat /\ Climbs(a) /\ \A i \in 1..Len(a) : a[i] \in Nat
  BY KeysOf, KeyTypes DEF Column
<1>2. SUFFICES ASSUME NEW i \in 1..Len(a), NEW j \in 1..Len(a), i < j
               PROVE  r[i] < r[j]
  BY DEF Column, Climbs, IsReplaced
<1>3. r[i] = (IF i = p THEN k ELSE a[i]) /\ r[j] = (IF j = p THEN k ELSE a[j])
  BY DEF IsReplaced
<1>4. CASE i = p
  BY <1>1, <1>2, <1>3, <1>4
<1>5. CASE j = p
  BY <1>1, <1>2, <1>3, <1>5
<1>6. CASE i # p /\ j # p
  BY <1>1, <1>2, <1>3, <1>6 DEF Climbs
<1>7. QED
  BY <1>4, <1>5, <1>6

LEMMA RekeyMaps ==
  ASSUME NEW a, Column(a), NEW b, NEW f, NEW none, Maps(a, b, f, none), Len(b) = Len(a),
         NEW r \in Seq(Key), NEW p \in 1..Len(a), NEW k \in Key,
         \A i \in 1..(p - 1) : a[i] < k, \A i \in (p + 1)..Len(a) : k < a[i],
         IsReplaced(r, a, p, k)
  PROVE  Maps(r, b, [y \in Key |-> IF y = k THEN f[a[p]]
                                   ELSE IF y = a[p] THEN none ELSE f[y]], none)
<1> DEFINE g == [y \in Key |-> IF y = k THEN f[a[p]] ELSE IF y = a[p] THEN none ELSE f[y]]
<1>1. Len(a) \in Nat /\ k \in Nat /\ Climbs(a) /\ \A i \in 1..Len(a) : a[i] \in Nat /\ a[i] \in Key
  BY KeysOf, KeyTypes DEF Column
<1>2. \A i \in 1..Len(a) : i # p => a[i] # k /\ a[i] # a[p]
  <2> TAKE i \in 1..Len(a)
  <2>1. i # p => a[i] # a[p]
    BY Distinct
  <2>2. i < p \/ i > p \/ i = p
    BY <1>1
  <2>3. QED
    BY <1>1, <2>1, <2>2
<1>3. ASSUME NEW j \in 1..Len(a) PROVE g[r[j]] = b[j]
  BY <1>1, <1>2 DEF IsReplaced, Maps
<1>4. ASSUME NEW y \in Key, \A j \in 1..Len(a) : r[j] # y PROVE g[y] = none
  <2>1. y # k
    BY <1>4 DEF IsReplaced
  <2>2. y # a[p] => \A j \in 1..Len(a) : a[j] # y
    BY <1>4 DEF IsReplaced
  <2>3. QED
    BY <2>1, <2>2 DEF Maps
<1>5. g = [k_1 \in Key |-> g[k_1]]
  OBVIOUS
<1>6. QED
  BY <1>3, <1>4, <1>5 DEF Maps, IsReplaced

-----------------------------------------------------------------------------
(***************************************************************************)
(* A leaf's records.                                                       *)
(***************************************************************************)
Entry == [key : Key, value : Val]

KeysIn(e)   == [i \in 1..Len(e) |-> e[i].key]
ValuesIn(e) == [i \in 1..Len(e) |-> e[i].value]

\* e is a leaf's array for the records f.
Holds(e, f) == /\ e \in Seq(Entry) /\ Column(KeysIn(e))
               /\ Maps(KeysIn(e), ValuesIn(e), f, NoVal)

LEMMA EntryColumns ==
  ASSUME NEW e \in Seq(Entry)
  PROVE  /\ Len(e) \in Nat
         /\ KeysIn(e) \in Seq(Key) /\ Len(KeysIn(e)) = Len(e)
         /\ ValuesIn(e) \in Seq(Val) /\ Len(ValuesIn(e)) = Len(e)
         /\ \A i \in 1..Len(e) : /\ e[i] \in Entry /\ e[i].key \in Key /\ e[i].value \in Val
                                 /\ KeysIn(e)[i] = e[i].key /\ ValuesIn(e)[i] = e[i].value
<1>1. Len(e) \in Nat /\ \A i \in 1..Len(e) : e[i] \in Entry
  OBVIOUS
<1>2. \A i \in 1..Len(e) : e[i].key \in Key /\ e[i].value \in Val
  BY <1>1 DEF Entry
<1>3. KeysIn(e) \in [1..Len(e) -> Key] /\ ValuesIn(e) \in [1..Len(e) -> Val]
  BY <1>2 DEF KeysIn, ValuesIn
<1>4. KeysIn(e) \in Seq(Key) /\ ValuesIn(e) \in Seq(Val)
  BY <1>1, <1>3
<1>5. Len(KeysIn(e)) = Len(e) /\ Len(ValuesIn(e)) = Len(e)
  BY <1>1, <1>3, <1>4, LenProperties
<1>6. QED
  BY <1>1, <1>2, <1>4, <1>5 DEF KeysIn, ValuesIn

LEMMA NoEntries == Holds(<<>>, [k \in Key |-> NoVal])
<1>1. <<>> \in Seq(Entry) /\ Len(<<>>) = 0
  OBVIOUS
<1>2. KeysIn(<<>>) \in Seq(Key) /\ Len(KeysIn(<<>>)) = 0
  BY <1>1, EntryColumns
<1>3. QED
  BY <1>1, <1>2 DEF Holds, Column, Climbs, Maps

LEMMA StoreUpdates ==
  ASSUME NEW e, NEW f, Holds(e, f), NEW i \in 1..Len(e), NEW v \in Val
  PROVE  LET r == [e EXCEPT ![i].value = v]
         IN  Holds(r, [f EXCEPT ![e[i].key] = v]) /\ Len(r) = Len(e)
<1> DEFINE x == [e[i] EXCEPT !.value = v]
           r == [e EXCEPT ![i] = x]
<1>0. e \in Seq(Entry) /\ Column(KeysIn(e)) /\ Maps(KeysIn(e), ValuesIn(e), f, NoVal)
  BY DEF Holds
<1>1. x \in Entry /\ x.key = e[i].key /\ x.value = v
  BY <1>0, EntryColumns DEF Entry
<1>2. [e EXCEPT ![i].value = v] = r
  OBVIOUS
<1> HIDE DEF x
<1>3. r \in Seq(Entry) /\ Len(r) = Len(e) /\ \A j \in 1..Len(e) : r[j] = IF j = i THEN x ELSE e[j]
  BY <1>0, <1>1, ExceptSeq
<1> HIDE DEF r
<1>4. KeysIn(r) = KeysIn(e)
  BY <1>1, <1>3 DEF KeysIn
<1>5. IsReplaced(ValuesIn(r), ValuesIn(e), i, v)
  BY <1>0, <1>1, <1>3, EntryColumns DEF IsReplaced
<1>6. Len(ValuesIn(e)) = Len(KeysIn(e)) /\ i \in 1..Len(KeysIn(e)) /\ KeysIn(e)[i] = e[i].key
  BY <1>0, EntryColumns
<1>7. Maps(KeysIn(e), ValuesIn(r), [f EXCEPT ![e[i].key] = v], NoVal)
  BY <1>0, <1>5, <1>6, UpdateMaps
<1>8. QED
  BY <1>0, <1>2, <1>3, <1>4, <1>7 DEF Holds

LEMMA StoreInserts ==
  ASSUME NEW e, NEW f, Holds(e, f), NEW x \in Entry, NEW c, Fits(KeysIn(e), c, x.key),
         NEW r \in Seq(Entry), IsInserted(r, e, c, x)
  PROVE  Holds(r, [f EXCEPT ![x.key] = x.value])
<1>0. e \in Seq(Entry) /\ Column(KeysIn(e)) /\ Maps(KeysIn(e), ValuesIn(e), f, NoVal)
  BY DEF Holds
<1>1. /\ Len(e) \in Nat /\ Len(KeysIn(e)) = Len(e) /\ Len(ValuesIn(e)) = Len(e)
      /\ \A i \in 1..Len(e) : KeysIn(e)[i] = e[i].key /\ ValuesIn(e)[i] = e[i].value
  BY <1>0, EntryColumns
<1>2. /\ KeysIn(r) \in Seq(Key) /\ Len(KeysIn(r)) = Len(r) /\ Len(ValuesIn(r)) = Len(r)
      /\ \A i \in 1..Len(r) : KeysIn(r)[i] = r[i].key /\ ValuesIn(r)[i] = r[i].value
  BY EntryColumns
<1>3. x.key \in Key /\ c \in 0..Len(e)
  BY <1>1 DEF Entry, Fits
<1>4. IsInserted(KeysIn(r), KeysIn(e), c, x.key) /\ IsInserted(ValuesIn(r), ValuesIn(e), c, x.value)
  <2>1. /\ Len(r) = Len(e) + 1 /\ r[c + 1] = x
        /\ \A j \in 1..c : r[j] = e[j]
        /\ \A j \in (c + 1)..Len(e) : r[j + 1] = e[j]
    BY DEF IsInserted
  <2>2. /\ c + 1 \in 1..Len(r)
        /\ \A j \in 1..c : j \in 1..Len(e) /\ j \in 1..Len(r)
        /\ \A j \in (c + 1)..Len(e) : j \in 1..Len(e) /\ j + 1 \in 1..Len(r)
    BY <1>1, <1>3, <2>1
  <2>3. IsInserted(KeysIn(r), KeysIn(e), c, x.key)
    BY ONLY <1>1, <1>2, <2>1, <2>2 DEF IsInserted
  <2>4. IsInserted(ValuesIn(r), ValuesIn(e), c, x.value)
    BY ONLY <1>1, <1>2, <2>1, <2>2 DEF IsInserted
  <2>5. QED
    BY <2>3, <2>4
<1>5. Column(KeysIn(r))
  BY <1>0, <1>2, <1>3, <1>4, InsertColumn
<1>6. Maps(KeysIn(r), ValuesIn(r), [f EXCEPT ![x.key] = x.value], NoVal)
  BY <1>0, <1>1, <1>2, <1>3, <1>4, InsertMaps
<1>7. QED
  BY <1>5, <1>6 DEF Holds

LEMMA StoreRemoves ==
  ASSUME NEW e, NEW f, Holds(e, f), NEW p \in 1..Len(e), NEW r \in Seq(Entry), IsRemoved(r, e, p)
  PROVE  Holds(r, [f EXCEPT ![e[p].key] = NoVal])
<1>0. e \in Seq(Entry) /\ Column(KeysIn(e)) /\ Maps(KeysIn(e), ValuesIn(e), f, NoVal)
  BY DEF Holds
<1>1. /\ Len(e) \in Nat /\ Len(KeysIn(e)) = Len(e) /\ Len(ValuesIn(e)) = Len(e)
      /\ \A i \in 1..Len(e) : KeysIn(e)[i] = e[i].key /\ ValuesIn(e)[i] = e[i].value
  BY <1>0, EntryColumns
<1>2. /\ KeysIn(r) \in Seq(Key) /\ Len(KeysIn(r)) = Len(r) /\ Len(ValuesIn(r)) = Len(r)
      /\ \A i \in 1..Len(r) : KeysIn(r)[i] = r[i].key /\ ValuesIn(r)[i] = r[i].value
  BY EntryColumns
<1>4. IsRemoved(KeysIn(r), KeysIn(e), p) /\ IsRemoved(ValuesIn(r), ValuesIn(e), p)
  <2>1. /\ Len(r) = Len(e) - 1
        /\ \A j \in 1..(p - 1) : r[j] = e[j]
        /\ \A j \in p..(Len(e) - 1) : r[j] = e[j + 1]
    BY DEF IsRemoved
  <2>2. /\ \A j \in 1..(p - 1) : j \in 1..Len(e) /\ j \in 1..Len(r)
        /\ \A j \in p..(Len(e) - 1) : j + 1 \in 1..Len(e) /\ j \in 1..Len(r)
    BY <1>1, <2>1
  <2>3. IsRemoved(KeysIn(r), KeysIn(e), p)
    <3>1. \A j \in 1..(p - 1) : KeysIn(r)[j] = KeysIn(e)[j]
      BY ONLY SMTT(30), <1>1, <1>2, <2>1, <2>2
    <3>2. ASSUME NEW j \in p..(Len(e) - 1) PROVE KeysIn(r)[j] = KeysIn(e)[j + 1]
      <4>1. r[j] = e[j + 1] /\ j \in 1..Len(r) /\ j + 1 \in 1..Len(e)
        BY <2>1, <2>2
      <4>2. QED
        BY <1>1, <1>2, <4>1
    <3>3. Len(KeysIn(r)) = Len(KeysIn(e)) - 1
      BY <1>1, <1>2, <2>1
    <3>4. QED
      BY <1>1, <3>1, <3>2, <3>3 DEF IsRemoved
  <2>4. IsRemoved(ValuesIn(r), ValuesIn(e), p)
    <3>1. \A j \in 1..(p - 1) : ValuesIn(r)[j] = ValuesIn(e)[j]
      BY ONLY <1>1, <1>2, <2>1, <2>2
    <3>2. ASSUME NEW j \in p..(Len(e) - 1) PROVE ValuesIn(r)[j] = ValuesIn(e)[j + 1]
      <4>1. r[j] = e[j + 1] /\ j \in 1..Len(r) /\ j + 1 \in 1..Len(e)
        BY <2>1, <2>2
      <4>2. QED
        BY <1>1, <1>2, <4>1
    <3>3. Len(ValuesIn(r)) = Len(ValuesIn(e)) - 1
      BY <1>1, <1>2, <2>1
    <3>4. QED
      BY <1>1, <3>1, <3>2, <3>3 DEF IsRemoved
  <2>5. QED
    BY <2>3, <2>4
<1>5. Column(KeysIn(r))
  BY <1>0, <1>1, <1>2, <1>4, RemoveColumn
<1>6. Maps(KeysIn(r), ValuesIn(r), [f EXCEPT ![KeysIn(e)[p]] = NoVal], NoVal)
  BY <1>0, <1>1, <1>2, <1>4, RemoveMaps
<1>7. QED
  BY <1>1, <1>5, <1>6 DEF Holds

LEMMA StoreLower ==
  ASSUME NEW e, NEW f, Holds(e, f), NEW c, NEW S, Parts(KeysIn(e), c, S),
         NEW r \in Seq(Entry), IsLower(r, e, c)
  PROVE  Holds(r, [k \in Key |-> IF k \in S THEN f[k] ELSE NoVal])
<1>0. e \in Seq(Entry) /\ Column(KeysIn(e)) /\ Maps(KeysIn(e), ValuesIn(e), f, NoVal)
  BY DEF Holds
<1>1. /\ Len(e) \in Nat /\ Len(KeysIn(e)) = Len(e) /\ Len(ValuesIn(e)) = Len(e)
      /\ \A i \in 1..Len(e) : KeysIn(e)[i] = e[i].key /\ ValuesIn(e)[i] = e[i].value
  BY <1>0, EntryColumns
<1>2. /\ KeysIn(r) \in Seq(Key) /\ Len(KeysIn(r)) = Len(r) /\ Len(ValuesIn(r)) = Len(r)
      /\ \A i \in 1..Len(r) : KeysIn(r)[i] = r[i].key /\ ValuesIn(r)[i] = r[i].value
  BY EntryColumns
<1>3. c \in 0..Len(KeysIn(e))
  BY DEF Parts
<1>4. IsLower(KeysIn(r), KeysIn(e), c) /\ IsLower(ValuesIn(r), ValuesIn(e), c)
  BY <1>1, <1>2, <1>3 DEF IsLower
<1>5. Column(KeysIn(r))
  BY <1>0, <1>2, <1>3, <1>4, LowerColumn
<1>6. Maps(KeysIn(r), ValuesIn(r), [k \in Key |-> IF k \in S THEN f[k] ELSE NoVal], NoVal)
  BY <1>0, <1>1, <1>2, <1>4, LowerMaps
<1>7. QED
  BY <1>5, <1>6 DEF Holds

LEMMA StoreUpper ==
  ASSUME NEW e, NEW f, Holds(e, f), NEW c, NEW S, Parts(KeysIn(e), c, S),
         NEW r \in Seq(Entry), IsUpper(r, e, c)
  PROVE  Holds(r, [k \in Key |-> IF k \in S THEN NoVal ELSE f[k]])
<1>0. e \in Seq(Entry) /\ Column(KeysIn(e)) /\ Maps(KeysIn(e), ValuesIn(e), f, NoVal)
  BY DEF Holds
<1>1. /\ Len(e) \in Nat /\ Len(KeysIn(e)) = Len(e) /\ Len(ValuesIn(e)) = Len(e)
      /\ \A i \in 1..Len(e) : KeysIn(e)[i] = e[i].key /\ ValuesIn(e)[i] = e[i].value
  BY <1>0, EntryColumns
<1>2. /\ KeysIn(r) \in Seq(Key) /\ Len(KeysIn(r)) = Len(r) /\ Len(ValuesIn(r)) = Len(r)
      /\ \A i \in 1..Len(r) : KeysIn(r)[i] = r[i].key /\ ValuesIn(r)[i] = r[i].value
  BY EntryColumns
<1>3. c \in 0..Len(KeysIn(e)) /\ c \in 0..Len(e) /\ \A j \in 1..(Len(e) - c) : c + j \in 1..Len(e)
  BY <1>1 DEF Parts
<1>4. IsUpper(KeysIn(r), KeysIn(e), c) /\ IsUpper(ValuesIn(r), ValuesIn(e), c)
  BY <1>1, <1>2, <1>3 DEF IsUpper
<1>5. Column(KeysIn(r))
  BY <1>0, <1>2, <1>3, <1>4, UpperColumn
<1>6. Maps(KeysIn(r), ValuesIn(r), [k \in Key |-> IF k \in S THEN NoVal ELSE f[k]], NoVal)
  BY <1>0, <1>1, <1>2, <1>4, UpperMaps
<1>7. QED
  BY <1>5, <1>6 DEF Holds

LEMMA StoreJoins ==
  ASSUME NEW e, NEW f, Holds(e, f), NEW d, NEW g, Holds(d, g), NEW sep \in Nat,
         Splits(KeysIn(e), KeysIn(d), sep), NEW r \in Seq(Entry), IsJoined(r, e, d)
  PROVE  Holds(r, [k \in Key |-> IF k < sep THEN f[k] ELSE g[k]])
<1>0. /\ e \in Seq(Entry) /\ Column(KeysIn(e)) /\ Maps(KeysIn(e), ValuesIn(e), f, NoVal)
      /\ d \in Seq(Entry) /\ Column(KeysIn(d)) /\ Maps(KeysIn(d), ValuesIn(d), g, NoVal)
  BY DEF Holds
<1>1. /\ Len(e) \in Nat /\ Len(KeysIn(e)) = Len(e) /\ Len(ValuesIn(e)) = Len(e)
      /\ \A i \in 1..Len(e) : KeysIn(e)[i] = e[i].key /\ ValuesIn(e)[i] = e[i].value
  BY <1>0, EntryColumns
<1>2. /\ KeysIn(r) \in Seq(Key) /\ Len(KeysIn(r)) = Len(r) /\ Len(ValuesIn(r)) = Len(r)
      /\ \A i \in 1..Len(r) : KeysIn(r)[i] = r[i].key /\ ValuesIn(r)[i] = r[i].value
  BY EntryColumns
<1>3. /\ Len(d) \in Nat /\ Len(KeysIn(d)) = Len(d) /\ Len(ValuesIn(d)) = Len(d)
      /\ \A i \in 1..Len(d) : KeysIn(d)[i] = d[i].key /\ ValuesIn(d)[i] = d[i].value
  BY <1>0, EntryColumns
<1>4. Len(r) = Len(e) + Len(d) /\ \A j \in 1..Len(d) : Len(e) + j \in 1..Len(r)
  BY <1>1, <1>3 DEF IsJoined
<1>5. IsJoined(KeysIn(r), KeysIn(e), KeysIn(d)) /\ IsJoined(ValuesIn(r), ValuesIn(e), ValuesIn(d))
  <2>1. /\ \A j \in 1..Len(e) : r[j] = e[j] /\ j \in 1..Len(r)
        /\ \A j \in 1..Len(d) : r[Len(e) + j] = d[j]
    BY <1>1, <1>3, <1>4 DEF IsJoined
  <2>2. IsJoined(KeysIn(r), KeysIn(e), KeysIn(d))
    <3>1. \A j \in 1..Len(e) : KeysIn(r)[j] = KeysIn(e)[j]
      BY <1>1, <1>2, <2>1
    <3>2. ASSUME NEW j \in 1..Len(d) PROVE KeysIn(r)[Len(e) + j] = KeysIn(d)[j]
      <4>1. Len(e) + j \in 1..Len(r) /\ r[Len(e) + j] = d[j]
        BY <1>4, <2>1
      <4>2. QED
        BY <1>2, <1>3, <4>1
    <3>3. QED
      BY <1>1, <1>2, <1>3, <1>4, <3>1, <3>2 DEF IsJoined
  <2>3. IsJoined(ValuesIn(r), ValuesIn(e), ValuesIn(d))
    <3>1. \A j \in 1..Len(e) : ValuesIn(r)[j] = ValuesIn(e)[j]
      BY <1>1, <1>2, <2>1
    <3>2. ASSUME NEW j \in 1..Len(d) PROVE ValuesIn(r)[Len(e) + j] = ValuesIn(d)[j]
      <4>1. Len(e) + j \in 1..Len(r) /\ r[Len(e) + j] = d[j]
        BY <1>4, <2>1
      <4>2. QED
        BY <1>2, <1>3, <4>1
    <3>3. QED
      BY <1>1, <1>2, <1>3, <1>4, <3>1, <3>2 DEF IsJoined
  <2>4. QED
    BY <2>2, <2>3
<1>6. Column(KeysIn(r))
  BY <1>0, <1>2, <1>5, JoinColumn
<1>7. Maps(KeysIn(r), ValuesIn(r), [k \in Key |-> IF k < sep THEN f[k] ELSE g[k]], NoVal)
  <2>1. Len(ValuesIn(e)) = Len(KeysIn(e)) /\ Len(ValuesIn(d)) = Len(KeysIn(d)) /\ KeysIn(r) \in Seq(Key)
    BY <1>1, <1>2, <1>3
  <2>2. QED
    BY <1>0, <1>5, <2>1, JoinMaps
<1>8. QED
  BY <1>6, <1>7 DEF Holds

-----------------------------------------------------------------------------
(***************************************************************************)
(* An internal page's separators and children.                             *)
(***************************************************************************)
Different(s) == \A i, j \in 1..Len(s) : i # j => s[i] # s[j]

LEMMA DifferentInserted ==
  ASSUME NEW s, Different(s), Len(s) \in Nat, NEW c \in 0..Len(s), NEW x,
         \A i \in 1..Len(s) : s[i] # x, NEW r, IsInserted(r, s, c, x)
  PROVE  Different(r)
<1>1. SUFFICES ASSUME NEW i \in 1..(Len(s) + 1), NEW j \in 1..(Len(s) + 1), i # j
               PROVE  r[i] # r[j]
  BY DEF Different, IsInserted
<1>2. \/ i \in 1..c /\ i \in 1..Len(s) /\ r[i] = s[i]
      \/ i = c + 1 /\ r[i] = x
      \/ i - 1 \in (c + 1)..Len(s) /\ i - 1 \in 1..Len(s) /\ r[i] = s[i - 1]
  BY InsertedFrom
<1>3. \/ j \in 1..c /\ j \in 1..Len(s) /\ r[j] = s[j]
      \/ j = c + 1 /\ r[j] = x
      \/ j - 1 \in (c + 1)..Len(s) /\ j - 1 \in 1..Len(s) /\ r[j] = s[j - 1]
  BY InsertedFrom
<1>4. i - 1 # j - 1
  BY <1>1
<1>5. QED
  BY <1>1, <1>2, <1>3, <1>4 DEF Different

LEMMA DifferentRemoved ==
  ASSUME NEW s, Different(s), Len(s) \in Nat, NEW p \in 1..Len(s), NEW r, IsRemoved(r, s, p)
  PROVE  Different(r)
<1>1. SUFFICES ASSUME NEW i \in 1..(Len(s) - 1), NEW j \in 1..(Len(s) - 1), i # j
               PROVE  r[i] # r[j]
  BY DEF Different, IsRemoved
<1>2. \/ i \in 1..(p - 1) /\ i \in 1..Len(s) /\ r[i] = s[i]
      \/ i \in p..(Len(s) - 1) /\ i + 1 \in 1..Len(s) /\ r[i] = s[i + 1]
  BY RemovedFrom
<1>3. \/ j \in 1..(p - 1) /\ j \in 1..Len(s) /\ r[j] = s[j]
      \/ j \in p..(Len(s) - 1) /\ j + 1 \in 1..Len(s) /\ r[j] = s[j + 1]
  BY RemovedFrom
<1>4. i + 1 # j + 1
  BY <1>1
<1>5. QED
  BY <1>1, <1>2, <1>3, <1>4 DEF Different

LEMMA DifferentParts ==
  ASSUME NEW s, Different(s), Len(s) \in Nat, NEW c \in 0..Len(s), NEW r,
         IsLower(r, s, c) \/ IsUpper(r, s, c)
  PROVE  Different(r)
<1>1. CASE IsLower(r, s, c)
  BY <1>1 DEF Different, IsLower
<1>2. CASE IsUpper(r, s, c)
  <2>1. SUFFICES ASSUME NEW i \in 1..(Len(s) - c), NEW j \in 1..(Len(s) - c), i # j
                 PROVE  r[i] # r[j]
    BY <1>2 DEF Different, IsUpper
  <2>2. c + i \in 1..Len(s) /\ c + j \in 1..Len(s) /\ c + i # c + j
    BY <2>1
  <2>3. r[i] = s[c + i] /\ r[j] = s[c + j]
    BY <1>2 DEF IsUpper
  <2>4. QED
    BY <2>2, <2>3 DEF Different
<1>3. QED
  BY <1>1, <1>2

\* s and t have no element in common.
Apart(s, t) == \A i \in 1..Len(s), j \in 1..Len(t) : s[i] # t[j]

LEMMA DifferentJoined ==
  ASSUME NEW s, Different(s), Len(s) \in Nat, NEW t, Different(t), Len(t) \in Nat,
         Apart(s, t), NEW r, IsJoined(r, s, t)
  PROVE  Different(r)
<1>1. SUFFICES ASSUME NEW i \in 1..(Len(s) + Len(t)), NEW j \in 1..(Len(s) + Len(t)), i # j
               PROVE  r[i] # r[j]
  BY DEF Different, IsJoined
<1>2. \/ i \in 1..Len(s) /\ r[i] = s[i]
      \/ i > Len(s) /\ i - Len(s) \in 1..Len(t) /\ r[i] = t[i - Len(s)]
  BY JoinedFrom
<1>3. \/ j \in 1..Len(s) /\ r[j] = s[j]
      \/ j > Len(s) /\ j - Len(s) \in 1..Len(t) /\ r[j] = t[j - Len(s)]
  BY JoinedFrom
<1>4. i - Len(s) # j - Len(s)
  BY <1>1
<1>5. QED
  BY <1>1, <1>2, <1>3, <1>4 DEF Different, Apart

-----------------------------------------------------------------------------
Edges(a, ch) == [i \in 1..Len(a) |-> ch[i + 1]]
OnKeys(g)    == [s \in Key |-> g[s]]

\* a and ch are an internal page's arrays for the children g.
Branches(a, ch, g) ==
  /\ Column(a)
  /\ ch \in Seq(Page) /\ Len(ch) = Len(a) + 1 /\ Different(ch)
  /\ g = [s \in 0..MaxKey |-> g[s]]
  /\ g[0] = ch[1]
  /\ Maps(a, Edges(a, ch), OnKeys(g), Nil)

LEMMA EdgesOf ==
  ASSUME NEW a \in Seq(Key), NEW ch \in Seq(Page), Len(ch) = Len(a) + 1
  PROVE  /\ Len(a) \in Nat /\ Len(ch) \in Nat
         /\ Len(Edges(a, ch)) = Len(a)
         /\ \A i \in 1..Len(a) : Edges(a, ch)[i] = ch[i + 1]
         /\ \A i \in 1..Len(ch) : ch[i] \in Page
<1>1. Len(a) \in Nat /\ Len(ch) \in Nat /\ \A i \in 1..Len(ch) : ch[i] \in Page
  OBVIOUS
<1>2. \A i \in 1..Len(a) : i + 1 \in 1..Len(ch)
  BY <1>1
<1>3. Edges(a, ch) \in [1..Len(a) -> Page]
  BY <1>1, <1>2 DEF Edges
<1>4. Edges(a, ch) \in Seq(Page)
  BY <1>1, <1>3
<1>5. Len(Edges(a, ch)) = Len(a)
  BY <1>1, <1>3, <1>4, LenProperties
<1>6. QED
  BY <1>1, <1>5 DEF Edges

LEMMA BranchFacts ==
  ASSUME NEW a, NEW ch, NEW g, Branches(a, ch, g)
  PROVE  /\ a \in Seq(Key) /\ Len(a) \in Nat /\ Climbs(a)
         /\ \A i \in 1..Len(a) : a[i] \in Key /\ a[i] \in Nat
         /\ Len(ch) \in Nat /\ Len(ch) = Len(a) + 1
         /\ \A i \in 1..Len(ch) : ch[i] \in Page
         /\ Len(Edges(a, ch)) = Len(a)
         /\ \A i \in 1..Len(a) : Edges(a, ch)[i] = ch[i + 1]
         /\ \A i \in 1..Len(a) : g[a[i]] = ch[i + 1]
         /\ Column(a) /\ Different(ch) /\ Maps(a, Edges(a, ch), OnKeys(g), Nil)
<1>1. a \in Seq(Key) /\ ch \in Seq(Page) /\ Len(ch) = Len(a) + 1 /\ Climbs(a)
  BY DEF Branches, Column
<1>2. /\ Len(a) \in Nat /\ Len(ch) \in Nat
      /\ Len(Edges(a, ch)) = Len(a)
      /\ \A i \in 1..Len(a) : Edges(a, ch)[i] = ch[i + 1]
      /\ \A i \in 1..Len(ch) : ch[i] \in Page
  BY <1>1, EdgesOf
<1>3. \A i \in 1..Len(a) : a[i] \in Key /\ a[i] \in Nat
  BY <1>1, KeysOf
<1>4. \A i \in 1..Len(a) : OnKeys(g)[a[i]] = Edges(a, ch)[i]
  BY DEF Branches, Maps
<1>5. Column(a) /\ Different(ch) /\ Maps(a, Edges(a, ch), OnKeys(g), Nil)
  BY DEF Branches
<1>6. \A i \in 1..Len(a) : g[a[i]] = ch[i + 1]
  BY <1>2, <1>3, <1>4 DEF OnKeys
<1>7. QED
  BY <1>1, <1>2, <1>3, <1>5, <1>6

LEMMA BranchesNew ==
  ASSUME NEW r \in Seq(Key), NEW q \in Seq(Page), Column(r), Len(q) = Len(r) + 1, Different(q),
         NEW h, h = [s \in 0..MaxKey |-> h[s]], h[0] = q[1], Maps(r, Edges(r, q), OnKeys(h), Nil)
  PROVE  Branches(r, q, h)
BY DEF Branches

LEMMA SlotTypes == Key \subseteq 0..MaxKey /\ 0 \in 0..MaxKey /\ 0 \notin Key /\ Key = (0..MaxKey) \ {0}
BY KeyTypes DEF Key

LEMMA BranchInserted ==
  ASSUME NEW a, NEW ch, NEW g, Branches(a, ch, g), NEW c, NEW k \in Key, Fits(a, c, k),
         NEW x \in Page, \A i \in 1..Len(ch) : ch[i] # x,
         NEW r \in Seq(Key), IsInserted(r, a, c, k), NEW q \in Seq(Page), IsInserted(q, ch, c + 1, x)
  PROVE  Branches(r, q, [g EXCEPT ![k] = x])
<1> DEFINE h == [g EXCEPT ![k] = x]
<1>0. c \in 0..Len(a)
  BY DEF Fits
<1>1. /\ Len(a) \in Nat /\ Len(ch) = Len(a) + 1 /\ Len(ch) \in Nat /\ c \in 0..Len(a) /\ Column(a)
      /\ Len(Edges(a, ch)) = Len(a) /\ Different(ch) /\ Maps(a, Edges(a, ch), OnKeys(g), Nil)
      /\ \A i \in 1..Len(a) : Edges(a, ch)[i] = ch[i + 1]
  BY <1>0, BranchFacts
<1>2. Len(r) = Len(a) + 1 /\ Len(q) = Len(ch) + 1 /\ Len(q) = Len(r) + 1
  BY <1>1 DEF IsInserted
<1>3. Len(Edges(r, q)) = Len(r) /\ \A i \in 1..Len(r) : Edges(r, q)[i] = q[i + 1]
  BY <1>2, EdgesOf
<1>4. /\ q[c + 1 + 1] = x
      /\ \A j \in 1..(c + 1) : q[j] = ch[j]
      /\ \A j \in (c + 1 + 1)..Len(ch) : q[j + 1] = ch[j]
  BY DEF IsInserted
<1>5. IsInserted(Edges(r, q), Edges(a, ch), c, x)
  <2>1. Edges(r, q)[c + 1] = x
    BY <1>1, <1>2, <1>3, <1>4
  <2>2. ASSUME NEW j \in 1..c PROVE Edges(r, q)[j] = Edges(a, ch)[j]
    <3>1. j \in 1..Len(r) /\ j \in 1..Len(a) /\ j + 1 \in 1..(c + 1)
      BY <1>1, <1>2
    <3>2. QED
      BY <1>1, <1>3, <1>4, <3>1
  <2>3. ASSUME NEW j \in (c + 1)..Len(a) PROVE Edges(r, q)[j + 1] = Edges(a, ch)[j]
    <3>1. j + 1 \in 1..Len(r) /\ j \in 1..Len(a) /\ j + 1 \in (c + 1 + 1)..Len(ch)
      BY <1>1, <1>2
    <3>2. QED
      BY <1>1, <1>3, <1>4, <3>1
  <2>4. QED
    BY <1>1, <1>2, <1>3, <2>1, <2>2, <2>3 DEF IsInserted
<1>6. Maps(r, Edges(r, q), [OnKeys(g) EXCEPT ![k] = x], Nil)
  BY <1>1, <1>5, InsertMaps
<1>7. h = [s \in 0..MaxKey |-> h[s]] /\ h[0] = g[0] /\ OnKeys(h) = [OnKeys(g) EXCEPT ![k] = x]
  BY SlotTypes DEF Branches, OnKeys
<1>8. h[0] = q[1]
  BY <1>1, <1>4, <1>7 DEF Branches
<1>9. Column(r)
  BY <1>1, InsertColumn
<1>10. Different(q)
  <2>1. c + 1 \in 0..Len(ch)
    BY <1>1
  <2>2. QED
    BY <1>1, <2>1, DifferentInserted
<1> HIDE DEF h
<1>11. Branches(r, q, h)
  BY <1>2, <1>6, <1>7, <1>8, <1>9, <1>10, BranchesNew
<1>12. QED
  BY <1>11 DEF h

\* h without the separator before which p - 1 others come; the child to its
\* right takes the slot before.
SlotBefore(a, p) == IF p = 1 THEN 0 ELSE a[p - 1]

Dropped(a, p, g) == [[g EXCEPT ![SlotBefore(a, p)] = g[a[p]]] EXCEPT ![a[p]] = Nil]

LEMMA BranchDroppedFirst ==
  ASSUME NEW a, NEW ch, NEW g, Branches(a, ch, g), 1 \in 1..Len(a),
         NEW r \in Seq(Key), IsRemoved(r, a, 1), NEW q \in Seq(Page), IsRemoved(q, ch, 1)
  PROVE  Branches(r, q, [[g EXCEPT ![0] = g[a[1]]] EXCEPT ![a[1]] = Nil])
<1> DEFINE h == [[g EXCEPT ![0] = g[a[1]]] EXCEPT ![a[1]] = Nil]
<1>1. /\ Len(a) \in Nat /\ Len(ch) = Len(a) + 1 /\ Len(ch) \in Nat /\ Column(a)
      /\ Len(Edges(a, ch)) = Len(a) /\ Different(ch) /\ Maps(a, Edges(a, ch), OnKeys(g), Nil)
      /\ \A i \in 1..Len(a) : Edges(a, ch)[i] = ch[i + 1]
      /\ a[1] \in Key /\ g[a[1]] = ch[2]
  BY BranchFacts
<1>2. Len(r) = Len(a) - 1 /\ Len(q) = Len(ch) - 1 /\ Len(q) = Len(r) + 1
  BY <1>1 DEF IsRemoved
<1>3. Len(Edges(r, q)) = Len(r) /\ \A i \in 1..Len(r) : Edges(r, q)[i] = q[i + 1]
  BY <1>2, EdgesOf
<1>4. \A j \in 1..(Len(ch) - 1) : q[j] = ch[j + 1]
  BY DEF IsRemoved
<1>5. IsRemoved(Edges(r, q), Edges(a, ch), 1)
  <2>1. ASSUME NEW j \in 1..(Len(a) - 1) PROVE Edges(r, q)[j] = Edges(a, ch)[j + 1]
    <3>1. j \in 1..Len(r) /\ j + 1 \in 1..Len(a) /\ j + 1 \in 1..(Len(ch) - 1)
      BY <1>1, <1>2
    <3>2. QED
      BY <1>1, <1>3, <1>4, <3>1
  <2>2. QED
    BY <1>1, <1>2, <1>3, <2>1 DEF IsRemoved
<1>6. Maps(r, Edges(r, q), [OnKeys(g) EXCEPT ![a[1]] = Nil], Nil)
  BY <1>1, <1>5, RemoveMaps
<1>7. h = [s \in 0..MaxKey |-> h[s]] /\ h[0] = g[a[1]] /\ OnKeys(h) = [OnKeys(g) EXCEPT ![a[1]] = Nil]
  BY <1>1, SlotTypes DEF Branches, OnKeys
<1>8. h[0] = q[1]
  BY <1>1, <1>4, <1>7
<1>9. Column(r)
  BY <1>1, RemoveColumn
<1>10. Different(q)
  <2>1. 1 \in 1..Len(ch)
    BY <1>1
  <2>2. QED
    BY <1>1, <2>1, DifferentRemoved
<1> HIDE DEF h
<1>11. Branches(r, q, h)
  BY <1>2, <1>6, <1>7, <1>8, <1>9, <1>10, BranchesNew
<1>12. QED
  BY <1>11 DEF h

LEMMA BranchDroppedLater ==
  ASSUME NEW a, NEW ch, NEW g, Branches(a, ch, g), NEW p \in 1..Len(a), p # 1,
         NEW r \in Seq(Key), IsRemoved(r, a, p), NEW q \in Seq(Page), IsRemoved(q, ch, p)
  PROVE  Branches(r, q, [[g EXCEPT ![a[p - 1]] = g[a[p]]] EXCEPT ![a[p]] = Nil])
<1> DEFINE h == [[g EXCEPT ![a[p - 1]] = g[a[p]]] EXCEPT ![a[p]] = Nil]
           b == [Edges(a, ch) EXCEPT ![p - 1] = ch[p + 1]]
<1>0. Len(a) \in Nat /\ p - 1 \in 1..Len(a)
  BY BranchFacts
<1>1. /\ Len(a) \in Nat /\ Len(ch) = Len(a) + 1 /\ Len(ch) \in Nat /\ Column(a)
      /\ Len(Edges(a, ch)) = Len(a) /\ Different(ch) /\ Maps(a, Edges(a, ch), OnKeys(g), Nil)
      /\ \A i \in 1..Len(a) : Edges(a, ch)[i] = ch[i + 1]
      /\ a[p] \in Key /\ g[a[p]] = ch[p + 1] /\ a[p - 1] \in Key
  BY <1>0, BranchFacts
<1>2. Len(r) = Len(a) - 1 /\ Len(q) = Len(ch) - 1 /\ Len(q) = Len(r) + 1
  BY <1>1 DEF IsRemoved
<1>3. Len(Edges(r, q)) = Len(r) /\ \A i \in 1..Len(r) : Edges(r, q)[i] = q[i + 1]
  BY <1>2, EdgesOf
<1>4. (\A j \in 1..(p - 1) : q[j] = ch[j]) /\ \A j \in p..(Len(ch) - 1) : q[j] = ch[j + 1]
  BY DEF IsRemoved
<1>5. Len(b) = Len(a) /\ \A j \in 1..Len(a) : b[j] = IF j = p - 1 THEN ch[p + 1] ELSE ch[j + 1]
  <2>1. Edges(a, ch) = [j \in 1..Len(a) |-> ch[j + 1]]
    BY DEF Edges
  <2>2. b = [j \in 1..Len(a) |-> IF j = p - 1 THEN ch[p + 1] ELSE ch[j + 1]]
    BY <1>0, <2>1
  <2>3. \A j \in 1..Len(a) : b[j] \in Page
    BY SMTT(30), <1>0, <1>1, <2>2, BranchFacts
  <2>4. b \in [1..Len(a) -> Page]
    BY <2>2, <2>3
  <2>5. Len(b) = Len(a)
    BY <1>0, <2>4, LenProperties
  <2>6. QED
    BY <2>2, <2>5
<1> HIDE DEF b
<1>6. Maps(a, b, [OnKeys(g) EXCEPT ![a[p - 1]] = ch[p + 1]], Nil)
  <2>1. IsReplaced(b, Edges(a, ch), p - 1, ch[p + 1])
    BY <1>1, <1>5 DEF IsReplaced
  <2>2. QED
    BY <1>0, <1>1, <2>1, UpdateMaps
<1>7. IsRemoved(Edges(r, q), b, p)
  <2>1. ASSUME NEW j \in 1..(p - 1) PROVE Edges(r, q)[j] = b[j]
    <3>1. j \in 1..Len(r) /\ j \in 1..Len(a) /\ j + 1 \in 1..(Len(ch) - 1)
      BY <1>1, <1>2
    <3>2. CASE j = p - 1
      <4>1. j + 1 = p /\ p \in p..(Len(ch) - 1)
        BY <1>1, <3>2
      <4>2. QED
        BY <1>3, <1>4, <1>5, <3>1, <3>2, <4>1
    <3>3. CASE j # p - 1
      <4>1. j + 1 \in 1..(p - 1)
        BY <3>3
      <4>2. QED
        BY <1>3, <1>4, <1>5, <3>1, <3>3, <4>1
    <3>4. QED
      BY <3>2, <3>3
  <2>2. ASSUME NEW j \in p..(Len(a) - 1) PROVE Edges(r, q)[j] = b[j + 1]
    <3>1. j \in 1..Len(r) /\ j + 1 \in 1..Len(a) /\ j + 1 \in p..(Len(ch) - 1) /\ j + 1 # p - 1
      BY <1>1, <1>2
    <3>2. QED
      BY <1>3, <1>4, <1>5, <3>1
  <2>3. QED
    BY <1>1, <1>2, <1>3, <1>5, <2>1, <2>2 DEF IsRemoved
<1>8. Maps(r, Edges(r, q), [[OnKeys(g) EXCEPT ![a[p - 1]] = ch[p + 1]] EXCEPT ![a[p]] = Nil], Nil)
  BY <1>1, <1>5, <1>6, <1>7, RemoveMaps
<1>9. /\ h = [s \in 0..MaxKey |-> h[s]] /\ h[0] = g[0]
      /\ OnKeys(h) = [[OnKeys(g) EXCEPT ![a[p - 1]] = ch[p + 1]] EXCEPT ![a[p]] = Nil]
  BY <1>1, SlotTypes DEF Branches, OnKeys
<1>10. h[0] = q[1]
  <2>1. 1 \in 1..(p - 1)
    BY <1>0
  <2>2. QED
    BY <1>4, <1>9, <2>1 DEF Branches
<1>11. Column(r)
  BY <1>1, RemoveColumn
<1>12. Different(q)
  <2>1. p \in 1..Len(ch)
    BY <1>1
  <2>2. QED
    BY <1>1, <2>1, DifferentRemoved
<1> HIDE DEF h
<1>13. Branches(r, q, h)
  BY <1>2, <1>8, <1>9, <1>10, <1>11, <1>12, BranchesNew
<1>14. QED
  BY <1>13 DEF h

LEMMA BranchDropped ==
  ASSUME NEW a, NEW ch, NEW g, Branches(a, ch, g), NEW p \in 1..Len(a),
         NEW r \in Seq(Key), IsRemoved(r, a, p), NEW q \in Seq(Page), IsRemoved(q, ch, p)
  PROVE  Branches(r, q, Dropped(a, p, g))
<1>1. CASE p = 1
  <2>1. 1 \in 1..Len(a) /\ IsRemoved(r, a, 1) /\ IsRemoved(q, ch, 1)
    BY <1>1
  <2>2. Branches(r, q, [[g EXCEPT ![0] = g[a[1]]] EXCEPT ![a[1]] = Nil])
    BY <2>1, BranchDroppedFirst
  <2>3. QED
    BY <1>1, <2>2 DEF Dropped, SlotBefore
<1>2. CASE p # 1
  <2>1. Branches(r, q, [[g EXCEPT ![a[p - 1]] = g[a[p]]] EXCEPT ![a[p]] = Nil])
    BY <1>2, BranchDroppedLater
  <2>2. QED
    BY <1>2, <2>1 DEF Dropped, SlotBefore
<1>3. QED
  BY <1>1, <1>2

\* The children below a separator, from it on, and of two pages that join.
Under(g, sep)    == [s \in 0..MaxKey |-> IF s < sep THEN g[s] ELSE Nil]
Over(g, sep)     == [s \in 0..MaxKey |-> IF s = 0 THEN g[sep] ELSE IF s > sep THEN g[s] ELSE Nil]
Fused(g, h, sep) == [s \in 0..MaxKey |-> IF s < sep THEN g[s]
                                         ELSE IF s = sep THEN h[0] ELSE h[s]]

LEMMA BranchLower ==
  ASSUME NEW a, NEW ch, NEW g, Branches(a, ch, g), NEW m \in Nat, m + 1 \in 1..Len(a),
         NEW sep, sep = a[m + 1],
         NEW r \in Seq(Key), IsLower(r, a, m), NEW q \in Seq(Page), IsLower(q, ch, m + 1)
  PROVE  Branches(r, q, Under(g, sep))
<1> DEFINE h == [s \in 0..MaxKey |-> IF s < sep THEN g[s] ELSE Nil]
           S == {k \in Key : k < sep}
<1>1. /\ Len(a) \in Nat /\ Len(ch) = Len(a) + 1 /\ Len(ch) \in Nat /\ Column(a) /\ Climbs(a)
      /\ Len(Edges(a, ch)) = Len(a) /\ Different(ch) /\ Maps(a, Edges(a, ch), OnKeys(g), Nil)
      /\ \A i \in 1..Len(a) : Edges(a, ch)[i] = ch[i + 1]
      /\ \A i \in 1..Len(a) : a[i] \in Key /\ a[i] \in Nat
  BY BranchFacts
<1>2. Len(r) = m /\ Len(q) = m + 1 /\ m \in 0..Len(a) /\ m + 1 \in 0..Len(ch)
  BY <1>1 DEF IsLower
<1>3. Len(Edges(r, q)) = Len(r) /\ \A i \in 1..Len(r) : Edges(r, q)[i] = q[i + 1]
  BY <1>2, EdgesOf
<1>4. \A j \in 1..(m + 1) : q[j] = ch[j]
  BY DEF IsLower
<1>5. IsLower(Edges(r, q), Edges(a, ch), m)
  <2>1. ASSUME NEW j \in 1..m PROVE Edges(r, q)[j] = Edges(a, ch)[j]
    <3>1. j \in 1..Len(r) /\ j \in 1..Len(a) /\ j + 1 \in 1..(m + 1)
      BY <1>1, <1>2
    <3>2. QED
      BY <1>1, <1>3, <1>4, <3>1
  <2>2. QED
    BY <1>2, <1>3, <2>1 DEF IsLower
<1>6. Parts(a, m, S)
  <2>1. ASSUME NEW i \in 1..m PROVE a[i] \in S
    <3>1. i \in 1..Len(a) /\ i < m + 1
      BY <1>1
    <3>2. QED
      BY <1>1, <3>1 DEF Climbs
  <2>2. ASSUME NEW i \in (m + 1)..Len(a) PROVE a[i] \notin S
    <3>1. i \in 1..Len(a) /\ (i = m + 1 \/ m + 1 < i)
      BY <1>1
    <3>2. i = m + 1 \/ a[m + 1] < a[i]
      BY <1>1, <3>1 DEF Climbs
    <3>3. QED
      BY <1>1, <3>1, <3>2
  <2>3. QED
    BY <1>2, <2>1, <2>2 DEF Parts
<1> HIDE DEF S
<1>7. Maps(r, Edges(r, q), [k \in Key |-> IF k \in S THEN OnKeys(g)[k] ELSE Nil], Nil)
  BY <1>1, <1>5, <1>6, LowerMaps
<1>8. OnKeys(h) = [k \in Key |-> IF k \in S THEN OnKeys(g)[k] ELSE Nil]
  BY SlotTypes DEF OnKeys, S
<1>9. h = [s \in 0..MaxKey |-> h[s]] /\ h[0] = g[0]
  <2>1. 0 < sep
    BY <1>1, KeyTypes DEF Key
  <2>2. QED
    BY <2>1, SlotTypes
<1> HIDE DEF h
<1>10. h[0] = q[1]
  <2>1. 1 \in 1..(m + 1)
    OBVIOUS
  <2>2. QED
    BY <1>4, <1>9, <2>1 DEF Branches
<1>11. Column(r)
  BY <1>1, <1>2, LowerColumn
<1>12. Different(q)
  BY <1>1, <1>2, DifferentParts
<1>13. Branches(r, q, h)
  BY <1>2, <1>7, <1>8, <1>9, <1>10, <1>11, <1>12, BranchesNew
<1>14. QED
  BY <1>13 DEF h, Under

LEMMA BranchUpper ==
  ASSUME NEW a, NEW ch, NEW g, Branches(a, ch, g), NEW m \in Nat, m + 1 \in 1..Len(a),
         NEW sep, sep = a[m + 1],
         NEW r \in Seq(Key), IsUpper(r, a, m + 1), NEW q \in Seq(Page), IsUpper(q, ch, m + 1)
  PROVE  Branches(r, q, Over(g, sep))
<1> DEFINE h == [s \in 0..MaxKey |-> IF s = 0 THEN g[sep] ELSE IF s > sep THEN g[s] ELSE Nil]
           S == {k \in Key : k <= sep}
<1>1. /\ Len(a) \in Nat /\ Len(ch) = Len(a) + 1 /\ Len(ch) \in Nat /\ Column(a) /\ Climbs(a)
      /\ Len(Edges(a, ch)) = Len(a) /\ Different(ch) /\ Maps(a, Edges(a, ch), OnKeys(g), Nil)
      /\ \A i \in 1..Len(a) : Edges(a, ch)[i] = ch[i + 1]
      /\ \A i \in 1..Len(a) : a[i] \in Key /\ a[i] \in Nat
      /\ g[a[m + 1]] = ch[m + 1 + 1]
  BY BranchFacts
<1>2. /\ Len(r) = Len(a) - (m + 1) /\ Len(q) = Len(ch) - (m + 1) /\ Len(q) = Len(r) + 1
      /\ m + 1 \in 0..Len(a) /\ m + 1 \in 0..Len(ch)
  BY <1>1 DEF IsUpper
<1>3. Len(Edges(r, q)) = Len(r) /\ \A i \in 1..Len(r) : Edges(r, q)[i] = q[i + 1]
  BY <1>2, EdgesOf
<1>4. \A j \in 1..(Len(ch) - (m + 1)) : q[j] = ch[m + 1 + j]
  BY DEF IsUpper
<1>5. IsUpper(Edges(r, q), Edges(a, ch), m + 1)
  <2>1. ASSUME NEW j \in 1..(Len(a) - (m + 1)) PROVE Edges(r, q)[j] = Edges(a, ch)[m + 1 + j]
    <3>1. /\ j \in 1..Len(r) /\ m + 1 + j \in 1..Len(a) /\ j + 1 \in 1..(Len(ch) - (m + 1))
          /\ m + 1 + (j + 1) = (m + 1 + j) + 1
      BY <1>1, <1>2
    <3>2. QED
      BY <1>1, <1>3, <1>4, <3>1
  <2>2. QED
    BY <1>1, <1>2, <1>3, <2>1 DEF IsUpper
<1>6. Parts(a, m + 1, S)
  <2>1. ASSUME NEW i \in 1..(m + 1) PROVE a[i] \in S
    <3>1. i \in 1..Len(a) /\ (i = m + 1 \/ i < m + 1)
      BY <1>1
    <3>2. i = m + 1 \/ a[i] < a[m + 1]
      BY <1>1, <3>1 DEF Climbs
    <3>3. QED
      BY <1>1, <3>1, <3>2
  <2>2. ASSUME NEW i \in (m + 1 + 1)..Len(a) PROVE a[i] \notin S
    <3>1. i \in 1..Len(a) /\ m + 1 < i
      BY <1>1
    <3>2. a[m + 1] < a[i]
      BY <1>1, <3>1 DEF Climbs
    <3>3. QED
      BY <1>1, <3>1, <3>2
  <2>3. QED
    BY <1>2, <2>1, <2>2 DEF Parts
<1> HIDE DEF S
<1>7. Maps(r, Edges(r, q), [k \in Key |-> IF k \in S THEN Nil ELSE OnKeys(g)[k]], Nil)
  BY <1>1, <1>5, <1>6, UpperMaps
<1>8. OnKeys(h) = [k \in Key |-> IF k \in S THEN Nil ELSE OnKeys(g)[k]]
  <2>1. ASSUME NEW k \in Key PROVE h[k] = IF k \in S THEN Nil ELSE OnKeys(g)[k]
    <3>1. k # 0 /\ k \in 0..MaxKey /\ k \in Nat /\ sep \in Nat
      BY <1>1, SlotTypes, KeyTypes
    <3>2. k \in S <=> ~(k > sep)
      BY <3>1 DEF S
    <3>3. QED
      BY <3>1, <3>2 DEF OnKeys
  <2> HIDE DEF h
  <2>2. QED
    BY <2>1 DEF OnKeys
<1>9. h = [s \in 0..MaxKey |-> h[s]] /\ h[0] = g[sep]
  BY SlotTypes
<1> HIDE DEF h
<1>10. h[0] = q[1]
  <2>1. 1 \in 1..(Len(ch) - (m + 1))
    BY <1>1
  <2>2. QED
    BY <1>1, <1>4, <1>9, <2>1
<1>11. Column(r)
  BY <1>1, <1>2, UpperColumn
<1>12. Different(q)
  BY <1>1, <1>2, DifferentParts
<1>13. Branches(r, q, h)
  BY <1>2, <1>7, <1>8, <1>9, <1>10, <1>11, <1>12, BranchesNew
<1>14. QED
  BY <1>13 DEF h, Over

LEMMA BranchPushed ==
  ASSUME NEW a, NEW ch, NEW g, Branches(a, ch, g), NEW sep \in Key, \A i \in 1..Len(a) : sep < a[i],
         NEW x \in Page, \A i \in 1..Len(ch) : ch[i] # x,
         NEW r \in Seq(Key), IsInserted(r, a, 0, sep), NEW q \in Seq(Page), IsInserted(q, ch, 0, x)
  PROVE  Branches(r, q, [[g EXCEPT ![sep] = g[0]] EXCEPT ![0] = x])
<1> DEFINE h == [[g EXCEPT ![sep] = g[0]] EXCEPT ![0] = x]
<1>1. /\ Len(a) \in Nat /\ Len(ch) = Len(a) + 1 /\ Len(ch) \in Nat /\ Column(a)
      /\ Len(Edges(a, ch)) = Len(a) /\ Different(ch) /\ Maps(a, Edges(a, ch), OnKeys(g), Nil)
      /\ \A i \in 1..Len(a) : Edges(a, ch)[i] = ch[i + 1] /\ a[i] \in Nat
  BY BranchFacts
<1>2. Len(r) = Len(a) + 1 /\ Len(q) = Len(ch) + 1 /\ Len(q) = Len(r) + 1
  BY <1>1 DEF IsInserted
<1>3. Len(Edges(r, q)) = Len(r) /\ \A i \in 1..Len(r) : Edges(r, q)[i] = q[i + 1]
  BY <1>2, EdgesOf
<1>4. q[1] = x /\ \A j \in 1..Len(ch) : q[j + 1] = ch[j]
  BY DEF IsInserted
<1>5. IsInserted(Edges(r, q), Edges(a, ch), 0, g[0])
  <2>1. Edges(r, q)[1] = g[0]
    <3>1. 1 \in 1..Len(r) /\ 1 \in 1..Len(ch)
      BY <1>1, <1>2
    <3>2. QED
      BY <1>3, <1>4, <3>1 DEF Branches
  <2>2. ASSUME NEW j \in 1..Len(a) PROVE Edges(r, q)[j + 1] = Edges(a, ch)[j]
    <3>1. j + 1 \in 1..Len(r) /\ j \in 1..Len(a) /\ j + 1 \in 1..Len(ch)
      BY <1>1, <1>2
    <3>2. QED
      BY <1>1, <1>3, <1>4, <3>1
  <2>3. QED
    BY <1>1, <1>2, <1>3, <2>1, <2>2 DEF IsInserted
<1>6. Fits(a, 0, sep)
  BY <1>1, KeyTypes DEF Fits
<1>7. Maps(r, Edges(r, q), [OnKeys(g) EXCEPT ![sep] = g[0]], Nil)
  BY <1>1, <1>5, <1>6, InsertMaps
<1>8. h = [s \in 0..MaxKey |-> h[s]] /\ h[0] = x /\ OnKeys(h) = [OnKeys(g) EXCEPT ![sep] = g[0]]
  BY SlotTypes DEF Branches, OnKeys
<1> HIDE DEF h
<1>9. Column(r)
  BY <1>1, <1>6, InsertColumn
<1>10. Different(q)
  <2>1. 0 \in 0..Len(ch)
    BY <1>1
  <2>2. QED
    BY <1>1, <2>1, DifferentInserted
<1>11. Branches(r, q, h)
  BY <1>2, <1>4, <1>7, <1>8, <1>9, <1>10, BranchesNew
<1>12. QED
  BY <1>11 DEF h

LEMMA BranchPopped ==
  ASSUME NEW a, NEW ch, NEW g, Branches(a, ch, g), Len(a) # 0,
         NEW r \in Seq(Key), IsRemoved(r, a, Len(a)), NEW q \in Seq(Page), IsRemoved(q, ch, Len(ch))
  PROVE  Branches(r, q, [g EXCEPT ![a[Len(a)]] = Nil])
<1> DEFINE h == [g EXCEPT ![a[Len(a)]] = Nil]
<1>1. /\ Len(a) \in Nat /\ Len(ch) = Len(a) + 1 /\ Len(ch) \in Nat /\ Column(a)
      /\ Len(Edges(a, ch)) = Len(a) /\ Different(ch) /\ Maps(a, Edges(a, ch), OnKeys(g), Nil)
      /\ \A i \in 1..Len(a) : Edges(a, ch)[i] = ch[i + 1] /\ a[i] \in Key
  BY BranchFacts
<1>2. Len(r) = Len(a) - 1 /\ Len(q) = Len(ch) - 1 /\ Len(q) = Len(r) + 1 /\ Len(a) \in 1..Len(a)
  BY <1>1 DEF IsRemoved
<1>3. Len(Edges(r, q)) = Len(r) /\ \A i \in 1..Len(r) : Edges(r, q)[i] = q[i + 1]
  BY <1>2, EdgesOf
<1>4. \A j \in 1..(Len(ch) - 1) : q[j] = ch[j]
  BY DEF IsRemoved
<1>5. IsRemoved(Edges(r, q), Edges(a, ch), Len(a))
  <2>1. ASSUME NEW j \in 1..(Len(a) - 1) PROVE Edges(r, q)[j] = Edges(a, ch)[j]
    <3>1. j \in 1..Len(r) /\ j \in 1..Len(a) /\ j + 1 \in 1..(Len(ch) - 1)
      BY <1>1, <1>2
    <3>2. QED
      BY <1>1, <1>3, <1>4, <3>1
  <2>2. QED
    BY <1>1, <1>2, <1>3, <2>1 DEF IsRemoved
<1>6. Maps(r, Edges(r, q), [OnKeys(g) EXCEPT ![a[Len(a)]] = Nil], Nil)
  BY <1>1, <1>2, <1>5, RemoveMaps
<1>7. h = [s \in 0..MaxKey |-> h[s]] /\ h[0] = g[0] /\ OnKeys(h) = [OnKeys(g) EXCEPT ![a[Len(a)]] = Nil]
  BY <1>1, <1>2, SlotTypes DEF Branches, OnKeys
<1> HIDE DEF h
<1>8. h[0] = q[1]
  <2>1. 1 \in 1..(Len(ch) - 1)
    BY <1>1
  <2>2. QED
    BY <1>4, <1>7, <2>1 DEF Branches
<1>9. Column(r)
  BY <1>1, <1>2, RemoveColumn
<1>10. Different(q)
  <2>1. Len(ch) \in 1..Len(ch)
    BY <1>1
  <2>2. QED
    BY <1>1, <2>1, DifferentRemoved
<1>11. Branches(r, q, h)
  BY <1>2, <1>6, <1>7, <1>8, <1>9, <1>10, BranchesNew
<1>12. QED
  BY <1>11 DEF h

LEMMA BranchRekeyed ==
  ASSUME NEW a, NEW ch, NEW g, Branches(a, ch, g), NEW p \in 1..Len(a), NEW k \in Key,
         \A i \in 1..(p - 1) : a[i] < k, \A i \in (p + 1)..Len(a) : k < a[i],
         NEW r \in Seq(Key), IsReplaced(r, a, p, k)
  PROVE  Branches(r, ch, [s \in 0..MaxKey |-> IF s = k THEN g[a[p]]
                                              ELSE IF s = a[p] THEN Nil ELSE g[s]])
<1> DEFINE h == [s \in 0..MaxKey |-> IF s = k THEN g[a[p]] ELSE IF s = a[p] THEN Nil ELSE g[s]]
<1>1. /\ Len(a) \in Nat /\ Len(ch) = Len(a) + 1 /\ Len(ch) \in Nat /\ Column(a)
      /\ Len(Edges(a, ch)) = Len(a) /\ Different(ch) /\ Maps(a, Edges(a, ch), OnKeys(g), Nil)
      /\ a[p] \in Key
  BY BranchFacts
<1>2. Len(r) = Len(a) /\ Edges(r, ch) = Edges(a, ch)
  BY DEF IsReplaced, Edges
<1>3. Maps(r, Edges(a, ch), [y \in Key |-> IF y = k THEN OnKeys(g)[a[p]]
                                           ELSE IF y = a[p] THEN Nil ELSE OnKeys(g)[y]], Nil)
  BY <1>1, RekeyMaps
<1>4. OnKeys(h) = [y \in Key |-> IF y = k THEN OnKeys(g)[a[p]]
                                 ELSE IF y = a[p] THEN Nil ELSE OnKeys(g)[y]]
  BY <1>1, SlotTypes DEF OnKeys
<1>5. h = [s \in 0..MaxKey |-> h[s]] /\ h[0] = g[0]
  BY <1>1, SlotTypes
<1> HIDE DEF h
<1>6. h[0] = ch[1]
  BY <1>5 DEF Branches
<1>7. Column(r)
  BY <1>1, RekeyColumn
<1>8. ch \in Seq(Page)
  BY DEF Branches
<1>9. Branches(r, ch, h)
  BY <1>1, <1>2, <1>3, <1>4, <1>5, <1>6, <1>7, <1>8, BranchesNew
<1>10. QED
  BY <1>9 DEF h

LEMMA BranchJoined ==
  ASSUME NEW a, NEW ch, NEW g, Branches(a, ch, g), NEW b, NEW dh, NEW h, Branches(b, dh, h),
         NEW sep \in Key, \A i \in 1..Len(a) : a[i] < sep, \A i \in 1..Len(b) : sep < b[i],
         Apart(ch, dh),
         NEW u \in Seq(Key), IsInserted(u, a, Len(a), sep),
         NEW r \in Seq(Key), IsJoined(r, u, b), NEW q \in Seq(Page), IsJoined(q, ch, dh)
  PROVE  Branches(r, q, Fused(g, h, sep))
<1> DEFINE f == [s \in 0..MaxKey |-> IF s < sep THEN g[s] ELSE IF s = sep THEN h[0] ELSE h[s]]
           w == Append(Edges(a, ch), dh[1])
           j1 == [OnKeys(g) EXCEPT ![sep] = dh[1]]
<1>1. /\ Len(a) \in Nat /\ Len(ch) = Len(a) + 1 /\ Len(ch) \in Nat /\ Column(a)
      /\ Len(Edges(a, ch)) = Len(a) /\ Different(ch) /\ Maps(a, Edges(a, ch), OnKeys(g), Nil)
      /\ \A i \in 1..Len(a) : Edges(a, ch)[i] = ch[i + 1] /\ a[i] \in Nat
      /\ \A i \in 1..Len(ch) : ch[i] \in Page
  BY BranchFacts
<1>2. /\ Len(b) \in Nat /\ Len(dh) = Len(b) + 1 /\ Len(dh) \in Nat /\ Column(b)
      /\ Len(Edges(b, dh)) = Len(b) /\ Different(dh) /\ Maps(b, Edges(b, dh), OnKeys(h), Nil)
      /\ \A i \in 1..Len(b) : Edges(b, dh)[i] = dh[i + 1] /\ b[i] \in Nat
      /\ \A i \in 1..Len(dh) : dh[i] \in Page
  BY BranchFacts
<1>3. sep \in Nat /\ sep + 1 \in Nat
  BY KeyTypes
<1>4. Fits(a, Len(a), sep)
  BY <1>1 DEF Fits
<1>5. Column(u) /\ Len(u) = Len(a) + 1
  <2>1. Column(u)
    BY <1>1, <1>4, InsertColumn
  <2>2. QED
    BY <2>1 DEF IsInserted
<1>6. Len(w) = Len(a) + 1 /\ w[Len(a) + 1] = dh[1] /\ \A j \in 1..Len(a) : w[j] = ch[j + 1]
  <2>1. Edges(a, ch) \in Seq(Page)
    <3>1. \A i \in 1..Len(a) : ch[i + 1] \in Page
      BY <1>1
    <3>2. Edges(a, ch) \in [1..Len(a) -> Page]
      BY <3>1 DEF Edges
    <3>3. Len(a) \in Nat
      BY <1>1
    <3>4. QED
      BY ONLY <3>2, <3>3
  <2>2. dh[1] \in Page
    BY <1>2
  <2>3. Len(w) = Len(Edges(a, ch)) + 1 /\ w[Len(Edges(a, ch)) + 1] = dh[1]
    BY <2>1, <2>2
  <2>4. \A j \in 1..Len(Edges(a, ch)) : w[j] = Edges(a, ch)[j]
    BY <2>1, <2>2
  <2> HIDE DEF w
  <2>5. QED
    BY <1>1, <2>3, <2>4
<1> HIDE DEF w
<1>7. Maps(u, w, j1, Nil)
  <2>1. IsInserted(w, Edges(a, ch), Len(a), dh[1])
    BY <1>1, <1>6 DEF IsInserted
  <2>2. QED
    BY <1>1, <1>4, <2>1, InsertMaps
<1> HIDE DEF j1
<1>8. Splits(u, b, sep + 1)
  <2>1. ASSUME NEW i \in 1..Len(u) PROVE u[i] < sep + 1
    <3>1. CASE i \in 1..Len(a)
      BY <1>1, <1>3, <3>1 DEF IsInserted
    <3>2. CASE i = Len(a) + 1
      BY <1>1, <1>3, <3>2 DEF IsInserted
    <3>3. QED
      BY <1>1, <1>5, <3>1, <3>2
  <2>2. \A i \in 1..Len(b) : sep + 1 <= b[i]
    BY <1>2, <1>3
  <2>3. QED
    BY <2>1, <2>2 DEF Splits
<1>9. Len(r) = Len(u) + Len(b) /\ Len(q) = Len(ch) + Len(dh) /\ Len(q) = Len(r) + 1
  BY <1>1, <1>2, <1>5 DEF IsJoined
<1>10. Len(Edges(r, q)) = Len(r) /\ \A i \in 1..Len(r) : Edges(r, q)[i] = q[i + 1]
  BY <1>9, EdgesOf
<1>11. (\A j \in 1..Len(ch) : q[j] = ch[j]) /\ \A j \in 1..Len(dh) : q[Len(ch) + j] = dh[j]
  BY DEF IsJoined
<1>12. IsJoined(Edges(r, q), w, Edges(b, dh))
  <2>1. ASSUME NEW j \in 1..Len(w) PROVE Edges(r, q)[j] = w[j]
    <3>1. CASE j \in 1..Len(a)
      <4>1. j + 1 \in 1..Len(ch) /\ j \in 1..Len(r)
        BY <1>1, <1>2, <1>5, <1>9, <3>1
      <4>2. QED
        BY <1>6, <1>10, <1>11, <3>1, <4>1
    <3>2. CASE j = Len(a) + 1
      <4>1. j + 1 = Len(ch) + 1 /\ 1 \in 1..Len(dh) /\ j \in 1..Len(r)
        BY <1>1, <1>2, <1>5, <1>9, <3>2
      <4>2. q[Len(ch) + 1] = dh[1]
        BY <1>11, <4>1
      <4>3. Edges(r, q)[j] = q[j + 1]
        BY <1>10, <4>1
      <4>4. QED
        BY <1>6, <3>2, <4>1, <4>2, <4>3
    <3>3. j \in 1..Len(a) \/ j = Len(a) + 1
      BY <1>1, <1>6
    <3>4. QED
      BY <3>1, <3>2, <3>3, Zenon
  <2>2. ASSUME NEW j \in 1..Len(b) PROVE Edges(r, q)[Len(w) + j] = Edges(b, dh)[j]
    <3>1. Len(w) + j \in 1..Len(r) /\ j + 1 \in 1..Len(dh) /\ (Len(w) + j) + 1 = Len(ch) + (j + 1)
      BY <1>1, <1>2, <1>5, <1>6, <1>9
    <3>2. Edges(r, q)[Len(w) + j] = q[Len(ch) + (j + 1)]
      BY <1>10, <3>1
    <3>3. q[Len(ch) + (j + 1)] = dh[j + 1]
      BY <1>11, <3>1
    <3>4. QED
      BY <1>2, <3>2, <3>3
  <2>3. QED
    BY <1>2, <1>5, <1>6, <1>9, <1>10, <2>1, <2>2 DEF IsJoined
<1>13. Maps(r, Edges(r, q), [k \in Key |-> IF k < sep + 1 THEN j1[k] ELSE OnKeys(h)[k]], Nil)
  BY <1>2, <1>3, <1>5, <1>6, <1>7, <1>8, <1>12, JoinMaps
<1>14. OnKeys(f) = [k \in Key |-> IF k < sep + 1 THEN j1[k] ELSE OnKeys(h)[k]]
  <2>1. ASSUME NEW k \in Key PROVE f[k] = IF k < sep + 1 THEN j1[k] ELSE h[k]
    <3>1. k \in Nat /\ k \in 0..MaxKey
      BY KeyTypes, SlotTypes
    <3>2. f[k] = IF k < sep THEN g[k] ELSE IF k = sep THEN h[0] ELSE h[k]
      BY <3>1
    <3>3. j1[k] = IF k = sep THEN dh[1] ELSE g[k]
      BY DEF j1, OnKeys
    <3>4. k < sep + 1 <=> k < sep \/ k = sep
      BY <1>3, <3>1
    <3>5. ~(sep < sep)
      BY <1>3
    <3>6. h[0] = dh[1]
      BY DEF Branches
    <3> HIDE DEF f
    <3>7. QED
      BY <3>2, <3>3, <3>4, <3>5, <3>6
  <2> HIDE DEF f
  <2>2. QED
    BY <2>1 DEF OnKeys
<1>15. f = [s \in 0..MaxKey |-> f[s]] /\ f[0] = g[0]
  <2>1. 0 < sep
    BY KeyTypes DEF Key
  <2>2. QED
    BY <2>1, SlotTypes
<1> HIDE DEF f
<1>16. f[0] = q[1]
  <2>1. 1 \in 1..Len(ch)
    BY <1>1
  <2>2. QED
    BY <1>11, <1>15, <2>1 DEF Branches
<1>17. Column(r)
  BY <1>2, <1>3, <1>5, <1>8, JoinColumn
<1>18. Different(q)
  BY <1>1, <1>2, DifferentJoined
<1>19. Branches(r, q, f)
  BY <1>9, <1>13, <1>14, <1>15, <1>16, <1>17, <1>18, BranchesNew
<1>20. QED
  BY <1>19 DEF f, Fused

-----------------------------------------------------------------------------
(***************************************************************************)
(* Whole pages.                                                            *)
(***************************************************************************)
ArrayPage ==
  [kind : {"free", "leaf", "internal", "redirect"}, isRoot : BOOLEAN,
   low : 0..MaxKey, high : 1..(MaxKey + 1), prev : 0..MaxPages,
   right : 0..MaxPages, target : 0..MaxPages,
   entries : Seq(Entry), keys : Seq(Key), children : Seq(Page)]

RecsOf(pg) == AbsPage(pg).recs
KidsOf(pg) == AbsPage(pg).kids
NoRecs     == [k \in Key |-> NoVal]
NoKids     == [s \in 0..MaxKey |-> Nil]

\* The page's arrays are those of the map it stands for, and arrays that its
\* kind has no use for are empty.
Sound(pg) ==
  /\ pg \in ArrayPage
  /\ IF pg.kind = "internal" THEN Branches(pg.keys, pg.children, KidsOf(pg))
     ELSE pg.keys = <<>> /\ pg.children = <<>> /\ KidsOf(pg) = NoKids
  /\ IF pg.kind = "leaf" THEN Holds(pg.entries, RecsOf(pg))
     ELSE pg.entries = <<>> /\ RecsOf(pg) = NoRecs

ColumnOf(pg) == IF IsLeaf(pg) THEN KeysIn(pg.entries) ELSE pg.keys

LEMMA AbsFields ==
  ASSUME NEW pg
  PROVE  AbsPage(pg) =
           [kind |-> pg.kind, level |-> 0, isRoot |-> pg.isRoot,
            low |-> pg.low, high |-> pg.high, prev |-> pg.prev, right |-> pg.right,
            target |-> pg.target, recs |-> RecsOf(pg), kids |-> KidsOf(pg)]
BY DEF AbsPage, RecsOf, KidsOf

LEMMA RecsAre ==
  ASSUME NEW pg, NEW f, Holds(pg.entries, f)
  PROVE  RecsOf(pg) = f
<1> DEFINE e == pg.entries
<1>1. e \in Seq(Entry) /\ Column(KeysIn(e)) /\ Maps(KeysIn(e), ValuesIn(e), f, NoVal)
  BY DEF Holds
<1>2. /\ Len(KeysIn(e)) = Len(e) /\ DOMAIN e = 1..Len(e)
      /\ \A i \in 1..Len(e) : KeysIn(e)[i] = e[i].key /\ ValuesIn(e)[i] = e[i].value
  BY <1>1, EntryColumns
<1>3. RecsOf(pg) = [k \in Key |->
        IF \E i \in DOMAIN e : e[i].key = k
        THEN e[CHOOSE i \in DOMAIN e : e[i].key = k].value ELSE NoVal]
  BY DEF RecsOf, AbsPage
<1> HIDE DEF e
<1>4. ASSUME NEW k \in Key PROVE RecsOf(pg)[k] = f[k]
  <2>1. CASE \E i \in DOMAIN e : e[i].key = k
    <3>1. PICK i \in 1..Len(e) : i = (CHOOSE j \in DOMAIN e : e[j].key = k) /\ e[i].key = k
      BY <1>2, <2>1
    <3>2. RecsOf(pg)[k] = e[i].value
      BY <1>3, <2>1, <3>1
    <3>3. f[KeysIn(e)[i]] = ValuesIn(e)[i]
      BY <1>1, <1>2, <3>1 DEF Maps
    <3>4. QED
      BY <1>2, <3>1, <3>2, <3>3
  <2>2. CASE ~\E i \in DOMAIN e : e[i].key = k
    <3>1. RecsOf(pg)[k] = NoVal
      BY <1>3, <2>2
    <3>2. f[k] = NoVal
      BY <1>1, <1>2, <2>2 DEF Maps
    <3>3. QED
      BY <3>1, <3>2
  <2>3. QED
    BY <2>1, <2>2
<1>5. f = [k \in Key |-> f[k]] /\ RecsOf(pg) = [k \in Key |-> RecsOf(pg)[k]]
  BY <1>1, <1>3 DEF Maps
<1>6. QED
  BY <1>4, <1>5

LEMMA KidsAre ==
  ASSUME NEW pg, NEW g, Branches(pg.keys, pg.children, g)
  PROVE  KidsOf(pg) = g
<1> DEFINE a == pg.keys
           ch == pg.children
<1>1. /\ Len(a) \in Nat /\ Len(ch) = Len(a) + 1 /\ Maps(a, Edges(a, ch), OnKeys(g), Nil)
      /\ \A i \in 1..Len(a) : g[a[i]] = ch[i + 1]
      /\ \A i \in 1..Len(a) : a[i] \in Key /\ a[i] \in Nat
      /\ a \in Seq(Key)
  BY BranchFacts
<1>2. DOMAIN a = 1..Len(a) /\ ch # <<>>
  BY <1>1
<1>3. KidsOf(pg) = [s \in 0..MaxKey |->
        IF s = 0 /\ ch # <<>> THEN ch[1]
        ELSE IF \E i \in DOMAIN a : a[i] = s
        THEN ch[(CHOOSE i \in DOMAIN a : a[i] = s) + 1] ELSE 0]
  BY DEF KidsOf, AbsPage, NegInf, Nil
<1>4. g = [s \in 0..MaxKey |-> g[s]] /\ g[0] = ch[1]
  BY DEF Branches
<1> HIDE DEF a, ch
<1>5. ASSUME NEW s \in 0..MaxKey PROVE KidsOf(pg)[s] = g[s]
  <2>1. CASE s = 0
    BY <1>2, <1>3, <1>4, <2>1
  <2>2. CASE s # 0 /\ \E i \in DOMAIN a : a[i] = s
    <3>1. PICK i \in 1..Len(a) : i = (CHOOSE j \in DOMAIN a : a[j] = s) /\ a[i] = s
      BY <1>2, <2>2
    <3>2. KidsOf(pg)[s] = ch[i + 1]
      BY <1>3, <2>2, <3>1
    <3>3. QED
      BY <1>1, <3>1, <3>2
  <2>3. CASE s # 0 /\ ~\E i \in DOMAIN a : a[i] = s
    <3>1. KidsOf(pg)[s] = 0
      BY <1>3, <2>3
    <3>2. s \in Key
      BY <2>3, SlotTypes
    <3>3. OnKeys(g)[s] = Nil
      BY <1>1, <1>2, <2>3, <3>2 DEF Maps
    <3>4. QED
      BY <3>1, <3>2, <3>3 DEF OnKeys, Nil
  <2>4. QED
    BY <2>1, <2>2, <2>3
<1>6. KidsOf(pg) = [s \in 0..MaxKey |-> KidsOf(pg)[s]]
  BY <1>3
<1>7. QED
  BY <1>4, <1>5, <1>6

LEMMA NoKidsAre ==
  ASSUME NEW pg, pg.keys = <<>>, pg.children = <<>>
  PROVE  KidsOf(pg) = NoKids
BY DEF KidsOf, AbsPage, NoKids, Nil

LEMMA NoRecsAre ==
  ASSUME NEW pg, pg.entries = <<>>
  PROVE  RecsOf(pg) = NoRecs
BY NoEntries, RecsAre DEF NoRecs

LEMMA SoundLeaf ==
  ASSUME NEW q \in ArrayPage, q.kind = "leaf", q.keys = <<>>, q.children = <<>>,
         NEW f, Holds(q.entries, f)
  PROVE  Sound(q) /\ RecsOf(q) = f /\ KidsOf(q) = NoKids
BY RecsAre, NoKidsAre DEF Sound

LEMMA SoundInternal ==
  ASSUME NEW q \in ArrayPage, q.kind = "internal", q.entries = <<>>,
         NEW g, Branches(q.keys, q.children, g)
  PROVE  Sound(q) /\ RecsOf(q) = NoRecs /\ KidsOf(q) = g
BY KidsAre, NoRecsAre DEF Sound

LEMMA SoundEmpty ==
  ASSUME NEW q \in ArrayPage, q.kind \notin {"leaf", "internal"},
         q.entries = <<>>, q.keys = <<>>, q.children = <<>>
  PROVE  Sound(q) /\ RecsOf(q) = NoRecs /\ KidsOf(q) = NoKids
BY NoKidsAre, NoRecsAre DEF Sound

\* Ascending arrays without duplicates are always arrays of some map.
LEMMA SomeRecords ==
  ASSUME NEW e \in Seq(Entry), Column(KeysIn(e))
  PROVE  \E f : Holds(e, f)
<1> DEFINE f == [k \in Key |-> IF \E i \in 1..Len(e) : e[i].key = k
                               THEN e[CHOOSE i \in 1..Len(e) : e[i].key = k].value ELSE NoVal]
<1>1. /\ Len(KeysIn(e)) = Len(e)
      /\ \A i \in 1..Len(e) : /\ KeysIn(e)[i] = e[i].key /\ ValuesIn(e)[i] = e[i].value
                              /\ e[i].key \in Key
  BY EntryColumns
<1>2. ASSUME NEW i \in 1..Len(e) PROVE f[e[i].key] = e[i].value
  <2>1. PICK j \in 1..Len(e) : j = (CHOOSE x \in 1..Len(e) : e[x].key = e[i].key)
                               /\ e[j].key = e[i].key
    OBVIOUS
  <2>2. KeysIn(e)[j] = KeysIn(e)[i]
    BY <1>1, <2>1
  <2>3. j = i
    <3>1. i \in 1..Len(KeysIn(e)) /\ j \in 1..Len(KeysIn(e))
      BY <1>1
    <3>2. QED
      BY <2>2, <3>1, Distinct
  <2>4. f[e[i].key] = e[j].value
    BY <1>1, <2>1
  <2>5. QED
    BY <2>3, <2>4
<1>3. f = [k \in Key |-> f[k]] /\ \A k \in Key : (\A i \in 1..Len(e) : e[i].key # k) => f[k] = NoVal
  OBVIOUS
<1> HIDE DEF f
<1>4. Maps(KeysIn(e), ValuesIn(e), f, NoVal)
  BY <1>1, <1>2, <1>3 DEF Maps
<1>5. QED
  BY <1>4 DEF Holds

LEMMA SomeBranches ==
  ASSUME NEW a, Column(a), NEW ch \in Seq(Page), Len(ch) = Len(a) + 1, Different(ch)
  PROVE  \E g : Branches(a, ch, g)
<1> DEFINE g == [s \in 0..MaxKey |-> IF s = 0 THEN ch[1]
                                     ELSE IF \E i \in 1..Len(a) : a[i] = s
                                     THEN ch[(CHOOSE i \in 1..Len(a) : a[i] = s) + 1] ELSE 0]
<1>0. a \in Seq(Key)
  BY DEF Column
<1>1. /\ Len(Edges(a, ch)) = Len(a)
      /\ \A i \in 1..Len(a) : Edges(a, ch)[i] = ch[i + 1]
      /\ \A i \in 1..Len(a) : a[i] \in Key
  BY <1>0, EdgesOf, KeysOf
<1>2. ASSUME NEW i \in 1..Len(a) PROVE g[a[i]] = ch[i + 1]
  <2>1. PICK j \in 1..Len(a) : j = (CHOOSE x \in 1..Len(a) : a[x] = a[i]) /\ a[j] = a[i]
    OBVIOUS
  <2>2. j = i
    BY <2>1, Distinct
  <2>3. g[a[i]] = ch[j + 1]
    BY <1>1, <2>1, SlotTypes
  <2>4. QED
    BY <2>2, <2>3
<1>3. /\ g = [s \in 0..MaxKey |-> g[s]] /\ g[0] = ch[1]
      /\ \A s \in Key : (\A i \in 1..Len(a) : a[i] # s) => g[s] = 0
  BY SlotTypes
<1> HIDE DEF g
<1>4. Maps(a, Edges(a, ch), OnKeys(g), Nil)
  BY <1>1, <1>2, <1>3 DEF Maps, OnKeys, Nil
<1>5. Branches(a, ch, g)
  BY <1>3, <1>4 DEF Branches
<1>6. QED
  BY <1>5

-----------------------------------------------------------------------------
(***************************************************************************)
(* What PageFamily computes from sets, said with indices.                  *)
(***************************************************************************)
Elements(a) == {a[i] : i \in 1..Len(a)}

Holder(pg) == Sound(pg) /\ pg.kind \in {"leaf", "internal"}

LEMMA ColumnFacts ==
  ASSUME NEW pg, Holder(pg)
  PROVE  /\ Column(ColumnOf(pg)) /\ ColumnOf(pg) \in Seq(Key) /\ ColumnOf(pg) \in Seq(Nat)
         /\ Climbs(ColumnOf(pg)) /\ Len(ColumnOf(pg)) \in Nat
         /\ Occupancy(pg) = Len(ColumnOf(pg))
         /\ \A i \in 1..Len(ColumnOf(pg)) : ColumnOf(pg)[i] \in Key /\ ColumnOf(pg)[i] \in Nat
<1>1. Column(ColumnOf(pg)) /\ Occupancy(pg) = Len(ColumnOf(pg))
  <2>1. CASE pg.kind = "leaf"
    <3>1. Holds(pg.entries, RecsOf(pg))
      BY <2>1 DEF Holder, Sound
    <3>2. Column(KeysIn(pg.entries)) /\ Len(KeysIn(pg.entries)) = Len(pg.entries)
      BY <3>1, EntryColumns DEF Holds
    <3>3. QED
      BY <2>1, <3>2 DEF ColumnOf, Occupancy, IsLeaf
  <2>2. CASE pg.kind = "internal"
    <3>1. Branches(pg.keys, pg.children, KidsOf(pg))
      BY <2>2 DEF Holder, Sound
    <3>2. QED
      BY <2>2, <3>1 DEF Branches, ColumnOf, Occupancy, IsLeaf
  <2>3. QED
    BY <2>1, <2>2 DEF Holder
<1>2. ColumnOf(pg) \in Seq(Key) /\ Climbs(ColumnOf(pg))
  BY <1>1 DEF Column
<1>3. /\ Len(ColumnOf(pg)) \in Nat
      /\ \A i \in 1..Len(ColumnOf(pg)) : ColumnOf(pg)[i] \in Key /\ ColumnOf(pg)[i] \in Nat
  BY <1>2, KeysOf
<1>4. ColumnOf(pg) \in Seq(Nat)
  BY <1>2, KeyTypes, SeqMonotonic
<1>5. QED
  BY <1>1, <1>2, <1>3, <1>4

LEMMA SeparatorsAre ==
  ASSUME NEW pg, Sound(pg), pg.kind = "internal"
  PROVE  Family!Separators(AbsPage(pg)) = Elements(pg.keys)
<1>1. Branches(pg.keys, pg.children, KidsOf(pg))
  BY DEF Sound
<1> DEFINE a == pg.keys
           ch == pg.children
<1>2. /\ Len(a) \in Nat /\ Len(ch) = Len(a) + 1
      /\ \A i \in 1..Len(a) : a[i] \in Key /\ KidsOf(pg)[a[i]] = ch[i + 1]
      /\ \A i \in 1..Len(ch) : ch[i] \in Page
      /\ Maps(a, Edges(a, ch), OnKeys(KidsOf(pg)), Nil)
  BY <1>1, BranchFacts
<1>3. AbsPage(pg).kids = KidsOf(pg)
  BY DEF KidsOf
<1>4. Family!Separators(AbsPage(pg)) = {s \in Key : KidsOf(pg)[s] # Nil}
  BY <1>3 DEF Family!Separators, Family!Key, Family!Nil, Key, Nil
<1> HIDE DEF a, ch
<1>5. ASSUME NEW i \in 1..Len(a) PROVE a[i] \in Key /\ KidsOf(pg)[a[i]] # Nil
  <2>1. ch[i + 1] \in Page
    BY <1>2
  <2>2. QED
    BY <1>2, <2>1 DEF Page, Nil
<1>6. ASSUME NEW s \in Key, KidsOf(pg)[s] # Nil PROVE \E i \in 1..Len(a) : a[i] = s
  BY <1>2, <1>6 DEF Maps, OnKeys
<1>7. QED
  BY <1>4, <1>5, <1>6 DEF Elements, a

LEMMA RecordsAre ==
  ASSUME NEW pg, Sound(pg), pg.kind = "leaf"
  PROVE  Family!Records(AbsPage(pg)) = Elements(KeysIn(pg.entries))
<1>1. Holds(pg.entries, RecsOf(pg))
  BY DEF Sound
<1> DEFINE e == pg.entries
           a == KeysIn(e)
<1>2. /\ e \in Seq(Entry) /\ Maps(a, ValuesIn(e), RecsOf(pg), NoVal)
  BY <1>1 DEF Holds
<1>3. /\ Len(a) = Len(e) /\ \A i \in 1..Len(e) : a[i] \in Key /\ ValuesIn(e)[i] \in Val
  BY <1>2, EntryColumns
<1>4. AbsPage(pg).recs = RecsOf(pg)
  BY DEF RecsOf
<1>5. Family!Records(AbsPage(pg)) = {k \in Key : RecsOf(pg)[k] # NoVal}
  BY <1>4 DEF Family!Records, Family!Key, Key
<1> HIDE DEF e, a
<1>6. ASSUME NEW i \in 1..Len(a) PROVE a[i] \in Key /\ RecsOf(pg)[a[i]] # NoVal
  BY <1>2, <1>3, ArraysAssumption DEF Maps
<1>7. ASSUME NEW k \in Key, RecsOf(pg)[k] # NoVal PROVE \E i \in 1..Len(a) : a[i] = k
  BY <1>2, <1>7 DEF Maps
<1>8. QED
  BY <1>5, <1>6, <1>7 DEF Elements, a, e

LEMMA ContentsAre ==
  ASSUME NEW pg, Holder(pg)
  PROVE  /\ Family!Contents(AbsPage(pg)) = Elements(ColumnOf(pg))
         /\ Family!Occupancy(AbsPage(pg)) = Occupancy(pg)
         /\ Family!Minimum(AbsPage(pg)) = Minimum(pg)
         /\ Family!Active(AbsPage(pg))
         /\ Family!AtMinimum(AbsPage(pg)) <=> AtMinimum(pg)
         /\ Family!Full(AbsPage(pg)) <=> Occupancy(pg) = N
<1>1. AbsPage(pg).kind = pg.kind
  BY AbsFields
<1>2. Family!Contents(AbsPage(pg)) = Elements(ColumnOf(pg))
  BY <1>1, SeparatorsAre, RecordsAre DEF Family!Contents, ColumnOf, IsLeaf, Holder
<1>3. Family!Active(AbsPage(pg))
  BY <1>1 DEF Family!Active, Holder
<1>4. Family!Minimum(AbsPage(pg)) = Minimum(pg)
  BY <1>1 DEF Family!Minimum, Minimum, Holder, IsLeaf
<1>5. Family!Occupancy(AbsPage(pg)) = Occupancy(pg)
  <2>1. Cardinality(Elements(ColumnOf(pg))) = Len(ColumnOf(pg))
    <3>1. Len(ColumnOf(pg)) \in 0..Len(ColumnOf(pg))
      BY ColumnFacts
    <3>2. QED
      BY <3>1, ColumnFacts, ClimbingCount DEF Elements
  <2>2. Family!Occupancy(AbsPage(pg)) = Cardinality(Family!Contents(AbsPage(pg)))
    BY <1>3 DEF Family!Occupancy, Family!Cardinality, Cardinality
  <2>3. Occupancy(pg) = Len(ColumnOf(pg))
    BY ColumnFacts
  <2>4. QED
    BY <1>2, <2>1, <2>2, <2>3, Zenon
<1>6. QED
  BY <1>2, <1>3, <1>4, <1>5 DEF Family!AtMinimum, AtMinimum, Family!Full

LEMMA GreatestIs ==
  ASSUME NEW S, S \subseteq Int, NEW x \in S, \A y \in S : y <= x
  PROVE  Family!Max(S) = x
<1>1. \A z \in S : (\A y \in S : z >= y) => z = x
  <2> TAKE z \in S
  <2> HAVE \A y \in S : z >= y
  <2>1. z >= x /\ z <= x /\ z \in Int /\ x \in Int
    OBVIOUS
  <2>2. QED
    BY <2>1
<1>2. \A y \in S : x >= y
  OBVIOUS
<1>3. QED
  BY <1>1, <1>2 DEF Family!Max

LEMMA LeastIs ==
  ASSUME NEW S, S \subseteq Int, NEW x \in S, \A y \in S : x <= y
  PROVE  Family!Min(S) = x
<1>1. \A z \in S : (\A y \in S : z <= y) => z = x
  <2> TAKE z \in S
  <2> HAVE \A y \in S : z <= y
  <2>1. z >= x /\ z <= x /\ z \in Int /\ x \in Int
    OBVIOUS
  <2>2. QED
    BY <2>1
<1>2. QED
  BY <1>1 DEF Family!Min

\* The slot of the child with p separators to its left.
SlotOf(a, p) == IF p = 0 THEN 0 ELSE a[p]

LEMMA SlotsAre ==
  ASSUME NEW pg, Sound(pg), pg.kind = "internal"
  PROVE  LET a == pg.keys
         IN  /\ \A k \in Key : \A c : Ranks(a, k, c) =>
                  Family!ChildSlot(AbsPage(pg), k) = SlotOf(a, c)
             /\ \A p \in 0..Len(a) : Family!NextSlot(AbsPage(pg), SlotOf(a, p))
                                       = IF p = Len(a) THEN MaxKey + 1 ELSE a[p + 1]
             /\ \A p \in 1..Len(a) : Family!PrevSlot(AbsPage(pg), a[p]) = SlotBefore(a, p)
<1> DEFINE a == pg.keys
<1>0. Branches(pg.keys, pg.children, KidsOf(pg))
  BY DEF Sound
<1>1. /\ Len(a) \in Nat /\ Climbs(a)
      /\ \A i \in 1..Len(a) : a[i] \in Key /\ a[i] \in Nat
  BY <1>0, BranchFacts
<1>2. Family!Separators(AbsPage(pg)) = Elements(a)
  BY SeparatorsAre
<1>3. \A i \in 1..Len(a) : 0 < a[i] /\ a[i] < MaxKey + 1
  BY <1>1, KeyTypes DEF Key
<1> HIDE DEF a
<1>4. ASSUME NEW k \in Key, NEW c, Ranks(a, k, c)
      PROVE  Family!ChildSlot(AbsPage(pg), k) = SlotOf(a, c)
  <2> DEFINE S == {0} \cup {s \in Elements(a) : s <= k}
  <2>1. c \in 0..Len(a) /\ \A i \in 1..Len(a) : a[i] <= k <=> i <= c
    BY <1>4 DEF Ranks
  <2>2. S \subseteq Int
    BY <1>1 DEF Elements
  <2>3. SlotOf(a, c) \in S
    BY <1>1, <2>1 DEF Elements, SlotOf
  <2>4. ASSUME NEW y \in S PROVE y <= SlotOf(a, c)
    <3>1. CASE y = 0
      BY <1>1, <1>3, <2>1, <3>1 DEF SlotOf
    <3>2. CASE y # 0
      <4>1. PICK i \in 1..Len(a) : y = a[i] /\ a[i] <= k
        BY <3>2 DEF Elements
      <4>2. i <= c /\ c \in 1..Len(a)
        BY <1>1, <2>1, <4>1
      <4>3. i = c \/ a[i] < a[c]
        BY <1>1, <4>2 DEF Climbs
      <4>4. QED
        BY <1>1, <4>1, <4>2, <4>3 DEF SlotOf
    <3>3. QED
      BY <3>1, <3>2
  <2> HIDE DEF S
  <2>5. Family!Max(S) = SlotOf(a, c)
    BY <2>2, <2>3, <2>4, GreatestIs
  <2>6. QED
    BY <1>2, <2>5 DEF Family!ChildSlot, Family!NegInf, S
<1>5. ASSUME NEW p \in 0..Len(a)
      PROVE  Family!NextSlot(AbsPage(pg), SlotOf(a, p)) = IF p = Len(a) THEN MaxKey + 1 ELSE a[p + 1]
  <2> DEFINE S == {MaxKey + 1} \cup {s \in Elements(a) : s > SlotOf(a, p)}
             x == IF p = Len(a) THEN MaxKey + 1 ELSE a[p + 1]
  <2>1. S \subseteq Int
    BY <1>1, KeyTypes DEF Elements
  <2>2. SlotOf(a, p) \in Nat
    BY <1>1 DEF SlotOf
  <2>3. \A i \in 1..Len(a) : a[i] > SlotOf(a, p) <=> i > p
    <3> TAKE i \in 1..Len(a)
    <3>1. CASE p = 0
      BY <1>3, <3>1 DEF SlotOf
    <3>2. CASE p # 0
      <4>1. p \in 1..Len(a)
        BY <3>2
      <4>2. i < p => a[i] < a[p]
        BY <1>1, <4>1 DEF Climbs
      <4>3. p < i => a[p] < a[i]
        BY <1>1, <4>1 DEF Climbs
      <4>4. i = p \/ i < p \/ p < i
        BY <1>1
      <4>5. QED
        BY <1>1, <3>2, <4>1, <4>2, <4>3, <4>4 DEF SlotOf
    <3>3. QED
      BY <3>1, <3>2
  <2>4. x \in S
    <3>1. CASE p = Len(a)
      BY <3>1
    <3>2. CASE p # Len(a)
      <4>1. p + 1 \in 1..Len(a) /\ p + 1 > p
        BY <1>1, <3>2
      <4>2. QED
        BY <2>3, <3>2, <4>1 DEF Elements
    <3>3. QED
      BY <3>1, <3>2
  <2>5. ASSUME NEW y \in S PROVE x <= y
    <3>1. CASE y = MaxKey + 1
      <4>1. x = MaxKey + 1 \/ x < MaxKey + 1
        <5>1. p # Len(a) => p + 1 \in 1..Len(a)
          BY <1>1
        <5>2. QED
          BY <1>3, <5>1
      <4>2. x \in Int
        BY <2>1, <2>4
      <4>3. QED
        BY <3>1, <4>1, <4>2, KeyTypes
    <3>2. CASE y # MaxKey + 1
      <4>1. PICK i \in 1..Len(a) : y = a[i] /\ i > p
        BY <2>3, <3>2 DEF Elements
      <4>2. p # Len(a) /\ p + 1 \in 1..Len(a) /\ (i = p + 1 \/ p + 1 < i)
        BY <1>1, <4>1
      <4>3. i = p + 1 \/ a[p + 1] < a[i]
        BY <1>1, <4>2 DEF Climbs
      <4>4. QED
        BY <1>1, <4>1, <4>2, <4>3
    <3>3. QED
      BY <3>1, <3>2
  <2> HIDE DEF S, x
  <2>6. Family!Min(S) = x
    BY <2>1, <2>4, <2>5, LeastIs
  <2>7. QED
    BY <1>2, <2>6 DEF Family!NextSlot, Family!PosInf, S, x
<1>6. ASSUME NEW p \in 1..Len(a)
      PROVE  Family!PrevSlot(AbsPage(pg), a[p]) = SlotBefore(a, p)
  <2> DEFINE S == {0} \cup {s \in Elements(a) : s < a[p]}
  <2>1. S \subseteq Int
    BY <1>1 DEF Elements
  <2>2. \A i \in 1..Len(a) : a[i] < a[p] <=> i < p
    <3> TAKE i \in 1..Len(a)
    <3>1. i < p => a[i] < a[p]
      BY <1>1 DEF Climbs
    <3>2. p < i => a[p] < a[i]
      BY <1>1 DEF Climbs
    <3>3. i = p \/ i < p \/ p < i
      BY <1>1
    <3>4. QED
      BY <1>1, <3>1, <3>2, <3>3
  <2>3. SlotBefore(a, p) \in S
    <3>1. CASE p = 1
      BY <3>1 DEF SlotBefore
    <3>2. CASE p # 1
      <4>1. p - 1 \in 1..Len(a) /\ p - 1 < p
        BY <1>1, <3>2
      <4>2. QED
        BY <2>2, <3>2, <4>1 DEF SlotBefore, Elements
    <3>3. QED
      BY <3>1, <3>2
  <2>4. ASSUME NEW y \in S PROVE y <= SlotBefore(a, p)
    <3>1. CASE y = 0
      <4>1. p # 1 => p - 1 \in 1..Len(a)
        BY <1>1
      <4>2. QED
        BY <1>1, <3>1, <4>1 DEF SlotBefore
    <3>2. CASE y # 0
      <4>1. PICK i \in 1..Len(a) : y = a[i] /\ i < p
        BY <2>2, <3>2 DEF Elements
      <4>2. p # 1 /\ p - 1 \in 1..Len(a) /\ (i = p - 1 \/ i < p - 1)
        BY <1>1, <4>1
      <4>3. i = p - 1 \/ a[i] < a[p - 1]
        BY <1>1, <4>2 DEF Climbs
      <4>4. QED
        BY <1>1, <4>1, <4>2, <4>3 DEF SlotBefore
    <3>3. QED
      BY <3>1, <3>2
  <2> HIDE DEF S
  <2>5. Family!Max(S) = SlotBefore(a, p)
    BY <2>1, <2>3, <2>4, GreatestIs
  <2>6. QED
    BY <1>2, <2>5 DEF Family!PrevSlot, Family!NegInf, S
<1>7. QED
  BY <1>4, <1>5, <1>6 DEF a

-----------------------------------------------------------------------------
(***************************************************************************)
(* A page with other arrays, or with another header.                       *)
(***************************************************************************)
LEMMA LeafWith ==
  ASSUME NEW pg, Sound(pg), pg.kind = "leaf", NEW e, NEW f, Holds(e, f)
  PROVE  LET q == [pg EXCEPT !.entries = e]
         IN  /\ Sound(q) /\ q.kind = "leaf" /\ q.entries = e
             /\ AbsPage(q) = [AbsPage(pg) EXCEPT !.recs = f]
<1> DEFINE q == [pg EXCEPT !.entries = e]
<1>1. pg \in ArrayPage /\ pg.keys = <<>> /\ pg.children = <<>> /\ KidsOf(pg) = NoKids
  BY DEF Sound
<1>2. e \in Seq(Entry)
  BY DEF Holds
<1>3. /\ q \in ArrayPage /\ q.entries = e
      /\ q.kind = "leaf" /\ q.isRoot = pg.isRoot /\ q.low = pg.low /\ q.high = pg.high
      /\ q.prev = pg.prev /\ q.right = pg.right /\ q.target = pg.target
      /\ q.keys = <<>> /\ q.children = <<>>
  BY <1>1, <1>2 DEF ArrayPage
<1> HIDE DEF q
<1>4. Sound(q) /\ RecsOf(q) = f /\ KidsOf(q) = NoKids
  BY <1>3, SoundLeaf
<1>5. AbsPage(q) = [AbsPage(pg) EXCEPT !.recs = f]
  BY <1>1, <1>3, <1>4, AbsFields
<1>6. QED
  BY <1>3, <1>4, <1>5 DEF q

WithArrays(pg, a, ch) == [pg EXCEPT !.keys = a, !.children = ch]
WithKids(abs, g)      == [abs EXCEPT !.kids = g]

LEMMA InternalWith ==
  ASSUME NEW pg, Sound(pg), pg.kind = "internal", NEW a, NEW ch, NEW g, Branches(a, ch, g)
  PROVE  LET q == WithArrays(pg, a, ch)
         IN  /\ Sound(q) /\ q.kind = "internal" /\ q.keys = a /\ q.children = ch
             /\ AbsPage(q) = WithKids(AbsPage(pg), g)
<1>0. PICK q : q = [pg EXCEPT !.keys = a, !.children = ch]
  OBVIOUS
<1>1. pg \in ArrayPage /\ pg.entries = <<>> /\ RecsOf(pg) = NoRecs
  BY DEF Sound
<1>2. a \in Seq(Key) /\ ch \in Seq(Page)
  BY DEF Branches, Column
<1>3. /\ q \in ArrayPage /\ q.entries = <<>>
      /\ q.kind = "internal" /\ q.isRoot = pg.isRoot /\ q.low = pg.low /\ q.high = pg.high
      /\ q.prev = pg.prev /\ q.right = pg.right /\ q.target = pg.target
      /\ q.keys = a /\ q.children = ch
  BY <1>0, <1>1, <1>2 DEF ArrayPage
<1>4. Sound(q) /\ RecsOf(q) = NoRecs /\ KidsOf(q) = g
  BY <1>3, SoundInternal
<1>5. AbsPage(q) = WithKids(AbsPage(pg), g)
  <2>1. AbsPage(q) = [kind |-> pg.kind, level |-> 0, isRoot |-> pg.isRoot,
            low |-> pg.low, high |-> pg.high, prev |-> pg.prev, right |-> pg.right,
            target |-> pg.target, recs |-> RecsOf(pg), kids |-> g]
    BY ONLY <1>1, <1>3, <1>4, AbsFields, pg.kind = "internal"
  <2>2. AbsPage(pg) = [kind |-> pg.kind, level |-> 0, isRoot |-> pg.isRoot,
            low |-> pg.low, high |-> pg.high, prev |-> pg.prev, right |-> pg.right,
            target |-> pg.target, recs |-> RecsOf(pg), kids |-> KidsOf(pg)]
    BY ONLY AbsFields
  <2>3. QED
    BY ONLY <2>1, <2>2 DEF WithKids
<1>6. QED
  BY <1>0, <1>3, <1>4, <1>5 DEF WithArrays

LEMMA HeaderWith ==
  ASSUME NEW pg, Sound(pg), NEW q \in ArrayPage, q.kind = pg.kind, q.entries = pg.entries,
         q.keys = pg.keys, q.children = pg.children
  PROVE  Sound(q) /\ RecsOf(q) = RecsOf(pg) /\ KidsOf(q) = KidsOf(pg) /\ ColumnOf(q) = ColumnOf(pg)
         /\ Occupancy(q) = Occupancy(pg) /\ Minimum(q) = Minimum(pg)
<1>1. RecsOf(q) = RecsOf(pg) /\ KidsOf(q) = KidsOf(pg)
  BY DEF RecsOf, KidsOf, AbsPage
<1>2. QED
  BY <1>1 DEF Sound, ColumnOf, IsLeaf, Occupancy, Minimum

-----------------------------------------------------------------------------
(***************************************************************************)
(* The leaf's binary search, insertion and removal.                        *)
(***************************************************************************)
LEMMA SearchFinds ==
  ASSUME NEW pg, Sound(pg), pg.kind = "leaf", NEW k \in Key
  PROVE  LET a == KeysIn(pg.entries)
             c == Search(pg, k).index
         IN  /\ c \in 0..Len(a) /\ Len(a) \in Nat /\ Len(pg.entries) = Len(a)
             /\ \A i \in 1..c : a[i] < k
             /\ \A i \in (c + 1)..Len(a) : k <= a[i]
             /\ Search(pg, k).found => c + 1 \in 1..Len(a) /\ a[c + 1] = k
             /\ ~Search(pg, k).found => Fits(a, c, k)
             /\ Search(pg, k).found <=> RecsOf(pg)[k] # NoVal
<1> DEFINE e == pg.entries
           a == KeysIn(e)
           S == {i \in DOMAIN e : e[i].key < k}
<1>0. Holds(e, RecsOf(pg))
  BY DEF Sound
<1>1. e \in Seq(Entry) /\ Column(a) /\ Maps(a, ValuesIn(e), RecsOf(pg), NoVal)
  BY <1>0 DEF Holds
<1>2. /\ Len(a) = Len(e) /\ Len(e) \in Nat /\ DOMAIN e = 1..Len(e) /\ a \in Seq(Key)
      /\ \A i \in 1..Len(e) : e[i].key = a[i] /\ ValuesIn(e)[i] \in Val
  BY <1>1, EntryColumns
<1>3. Climbs(a) /\ a \in Seq(Nat) /\ \A i \in 1..Len(a) : a[i] \in Nat
  BY <1>1, <1>2, KeysOf, KeyTypes, SeqMonotonic DEF Column
<1>4. k \in Nat /\ k - 1 \in Int
  BY KeyTypes
<1>5. /\ Search(pg, k).found <=> \E i \in DOMAIN e : e[i].key = k
      /\ Search(pg, k).index = Cardinality(S)
  BY DEF Search
<1> HIDE DEF a, e
<1>6. PICK c : Ranks(a, k - 1, c)
  BY <1>3, <1>4, RankExists
<1>7. c \in 0..Len(a) /\ \A i \in 1..Len(a) : a[i] < k <=> i <= c
  BY <1>3, <1>4, <1>6 DEF Ranks
<1>8. S = 1..c
  BY <1>2, <1>7
<1>9. Cardinality(1..c) = c
  <2>1. c \in Nat
    BY <1>7
  <2>2. QED
    BY <2>1, FS_Interval
<1>10. Search(pg, k).index = c
  BY <1>5, <1>8, <1>9
<1>11. \A i \in (c + 1)..Len(a) : k <= a[i]
  BY <1>2, <1>3, <1>4, <1>7
<1>12. ASSUME Search(pg, k).found PROVE c + 1 \in 1..Len(a) /\ a[c + 1] = k
  <2>1. PICK i \in 1..Len(a) : a[i] = k
    BY <1>2, <1>5, <1>12
  <2>2. ~(i <= c)
    BY <1>4, <1>7, <2>1
  <2>3. c + 1 \in 1..Len(a) /\ (i = c + 1 \/ c + 1 < i)
    BY <1>2, <1>7, <2>2
  <2>4. i = c + 1 \/ a[c + 1] < k
    BY <1>3, <2>1, <2>3 DEF Climbs
  <2>5. ~(a[c + 1] < k)
    BY <1>3, <1>4, <1>11, <2>3
  <2>6. QED
    BY <2>1, <2>3, <2>4, <2>5
<1>13. ASSUME ~Search(pg, k).found PROVE Fits(a, c, k)
  <2>1. \A i \in 1..Len(a) : a[i] # k
    BY <1>2, <1>5, <1>13
  <2>2. QED
    BY <1>2, <1>3, <1>4, <1>7, <2>1 DEF Fits
<1>14. Search(pg, k).found <=> RecsOf(pg)[k] # NoVal
  <2>1. Search(pg, k).found <=> \E i \in 1..Len(a) : a[i] = k
    BY <1>2, <1>5
  <2>2. \A i \in 1..Len(a) : RecsOf(pg)[a[i]] # NoVal
    BY <1>1, <1>2, ArraysAssumption DEF Maps
  <2>3. (\A i \in 1..Len(a) : a[i] # k) => RecsOf(pg)[k] = NoVal
    BY <1>1 DEF Maps
  <2>4. QED
    BY <2>1, <2>2, <2>3
<1>15. \A i \in 1..c : a[i] < k
  BY <1>2, <1>7
<1>16. QED
  BY <1>2, <1>7, <1>10, <1>11, <1>12, <1>13, <1>14, <1>15 DEF a, e

LEMMA StoredIs ==
  ASSUME NEW pg, Sound(pg), pg.kind = "leaf", NEW k \in Key, NEW v \in Val
  PROVE  LET q == Stored(pg, k, v)
         IN  /\ Sound(q) /\ q.kind = "leaf"
             /\ AbsPage(q) = [AbsPage(pg) EXCEPT !.recs[k] = v]
             /\ Len(q.entries) = IF Search(pg, k).found THEN Len(pg.entries)
                                 ELSE Len(pg.entries) + 1
<1> DEFINE e == pg.entries
           c == Search(pg, k).index
<1>0. Holds(e, RecsOf(pg)) /\ pg \in ArrayPage
  BY DEF Sound
<1>1. /\ e \in Seq(Entry) /\ Len(KeysIn(e)) = Len(e) /\ Len(e) \in Nat
      /\ \A i \in 1..Len(e) : KeysIn(e)[i] = e[i].key
  BY <1>0, EntryColumns DEF Holds
<1>2. AbsPage(pg).recs = RecsOf(pg)
  BY DEF RecsOf
<1>3. CASE Search(pg, k).found
  <2>1. PICK i \in 1..Len(e) : i = c + 1 /\ e[i].key = k
    BY <1>1, <1>3, SearchFinds
  <2>2. Stored(pg, k, v) = [pg EXCEPT !.entries = [e EXCEPT ![i].value = v]]
    BY <1>3, <2>1 DEF Stored
  <2>3. Holds([e EXCEPT ![i].value = v], [RecsOf(pg) EXCEPT ![k] = v])
        /\ Len([e EXCEPT ![i].value = v]) = Len(e)
    BY <1>0, <2>1, StoreUpdates
  <2> DEFINE r == [e EXCEPT ![i].value = v]
  <2> HIDE DEF e, c, r
  <2>4. Holds(r, [RecsOf(pg) EXCEPT ![k] = v]) /\ Len(r) = Len(e) /\ Stored(pg, k, v) = [pg EXCEPT !.entries = r]
    BY <2>2, <2>3 DEF r
  <2>5. /\ Sound([pg EXCEPT !.entries = r]) /\ [pg EXCEPT !.entries = r].kind = "leaf"
        /\ [pg EXCEPT !.entries = r].entries = r
        /\ AbsPage([pg EXCEPT !.entries = r]) = [AbsPage(pg) EXCEPT !.recs = [RecsOf(pg) EXCEPT ![k] = v]]
    BY <2>4, LeafWith
  <2>6. QED
    BY <1>2, <1>3, <2>4, <2>5 DEF e
<1>4. CASE ~Search(pg, k).found
  <2>0. PICK x \in Entry : x = [key |-> k, value |-> v]
    BY DEF Entry
  <2>1. Fits(KeysIn(e), c, x.key) /\ c \in 0..Len(e)
    BY <1>4, <2>0, SearchFinds
  <2> DEFINE r == ArrInsert(e, c, x)
  <2>2. Stored(pg, k, v) = [pg EXCEPT !.entries = r]
    BY <1>4, <2>0 DEF Stored
  <2>3. r \in Seq(Entry) /\ IsInserted(r, e, c, x)
    BY <1>1, <2>1, ArrInserted
  <2> HIDE DEF e, c, r
  <2>4. Holds(r, [RecsOf(pg) EXCEPT ![k] = v])
    <3>1. Holds(r, [RecsOf(pg) EXCEPT ![x.key] = x.value])
      BY <1>0, <2>1, <2>3, StoreInserts
    <3>2. QED
      BY <2>0, <3>1
  <2>5. /\ Sound([pg EXCEPT !.entries = r]) /\ [pg EXCEPT !.entries = r].kind = "leaf"
        /\ [pg EXCEPT !.entries = r].entries = r
        /\ AbsPage([pg EXCEPT !.entries = r]) = [AbsPage(pg) EXCEPT !.recs = [RecsOf(pg) EXCEPT ![k] = v]]
    BY <2>4, LeafWith
  <2>6. Len(r) = Len(e) + 1
    BY <2>3 DEF IsInserted
  <2>7. QED
    BY <1>2, <1>4, <2>2, <2>5, <2>6 DEF e
<1>5. QED
  BY <1>3, <1>4

LEMMA ErasedIs ==
  ASSUME NEW pg, Sound(pg), pg.kind = "leaf", NEW k \in Key, Search(pg, k).found
  PROVE  LET q == [pg EXCEPT !.entries = ArrRemove(@, Search(pg, k).index)]
         IN  /\ Sound(q) /\ q.kind = "leaf"
             /\ AbsPage(q) = [AbsPage(pg) EXCEPT !.recs[k] = NoVal]
             /\ Len(q.entries) = Len(pg.entries) - 1
<1> DEFINE e == pg.entries
           c == Search(pg, k).index
<1>0. Holds(e, RecsOf(pg)) /\ pg \in ArrayPage
  BY DEF Sound
<1>1. /\ e \in Seq(Entry) /\ Len(KeysIn(e)) = Len(e) /\ Len(e) \in Nat
      /\ \A i \in 1..Len(e) : KeysIn(e)[i] = e[i].key
  BY <1>0, EntryColumns DEF Holds
<1>2. AbsPage(pg).recs = RecsOf(pg)
  BY DEF RecsOf
<1>3. c + 1 \in 1..Len(e) /\ e[c + 1].key = k /\ c \in 0..(Len(e) - 1)
  BY <1>1, SearchFinds
<1> DEFINE r == ArrRemove(e, c)
<1>4. r \in Seq(Entry) /\ IsRemoved(r, e, c + 1)
  BY <1>1, <1>3, ArrRemoved
<1>5. [pg EXCEPT !.entries = ArrRemove(@, c)] = [pg EXCEPT !.entries = r]
  OBVIOUS
<1> HIDE DEF e, c, r
<1>6. Holds(r, [RecsOf(pg) EXCEPT ![k] = NoVal])
  <2>1. PICK p \in 1..Len(e) : p = c + 1
    BY <1>3
  <2>2. IsRemoved(r, e, p) /\ e[p].key = k
    BY <1>3, <1>4, <2>1
  <2>3. QED
    BY <1>0, <1>4, <2>2, StoreRemoves
<1>7. /\ Sound([pg EXCEPT !.entries = r]) /\ [pg EXCEPT !.entries = r].kind = "leaf"
      /\ [pg EXCEPT !.entries = r].entries = r
      /\ AbsPage([pg EXCEPT !.entries = r]) = [AbsPage(pg) EXCEPT !.recs = [RecsOf(pg) EXCEPT ![k] = NoVal]]
  BY <1>6, LeafWith
<1>8. Len(r) = Len(e) - 1
  BY <1>4 DEF IsRemoved
<1>9. QED
  BY <1>2, <1>5, <1>7, <1>8 DEF e, c

-----------------------------------------------------------------------------
(***************************************************************************)
(* insert_split, the separator that goes with a merge, and the one that    *)
(* moves with a borrow.                                                    *)
(***************************************************************************)
LEMMA InternalFacts ==
  ASSUME NEW pg, Sound(pg), pg.kind = "internal"
  PROVE  /\ Branches(pg.keys, pg.children, KidsOf(pg)) /\ pg \in ArrayPage
         /\ pg.keys \in Seq(Key) /\ pg.children \in Seq(Page)
         /\ Len(pg.keys) \in Nat /\ Len(pg.children) = Len(pg.keys) + 1
         /\ AbsPage(pg).kids = KidsOf(pg) /\ RecsOf(pg) = NoRecs
         /\ KidsOf(pg)[0] = pg.children[1]
         /\ \A i \in 1..Len(pg.keys) : /\ pg.keys[i] \in Key /\ pg.keys[i] \in Nat
                                       /\ KidsOf(pg)[pg.keys[i]] = pg.children[i + 1]
<1>1. Branches(pg.keys, pg.children, KidsOf(pg)) /\ pg \in ArrayPage /\ RecsOf(pg) = NoRecs
  BY DEF Sound
<1>2. pg.keys \in Seq(Key) /\ pg.children \in Seq(Page)
  BY <1>1 DEF ArrayPage
<1>3. /\ Len(pg.keys) \in Nat /\ Len(pg.children) = Len(pg.keys) + 1
      /\ \A i \in 1..Len(pg.keys) : /\ pg.keys[i] \in Key /\ pg.keys[i] \in Nat
                                    /\ KidsOf(pg)[pg.keys[i]] = pg.children[i + 1]
  BY <1>1, BranchFacts
<1>4. AbsPage(pg).kids = KidsOf(pg) /\ KidsOf(pg)[0] = pg.children[1]
  BY <1>1 DEF KidsOf, Branches
<1>5. QED
  BY <1>1, <1>2, <1>3, <1>4

LEMMA InsertSplitIs ==
  ASSUME NEW pg, Sound(pg), pg.kind = "internal", NEW k \in Key, NEW c, Fits(pg.keys, c, k),
         NEW x \in Page, \A i \in 1..Len(pg.children) : pg.children[i] # x
  PROVE  LET q == InsertSplit(pg, c, k, x)
         IN  /\ Sound(q) /\ q.kind = "internal" /\ Len(q.keys) = Len(pg.keys) + 1
             /\ AbsPage(q) = Family!InstallSplit(AbsPage(pg), k, x)
<1> DEFINE a == pg.keys
           ch == pg.children
           r == ArrInsert(a, c, k)
           t == ArrInsert(ch, c + 1, x)
<1>1. /\ a \in Seq(Key) /\ ch \in Seq(Page) /\ Len(a) \in Nat /\ Len(ch) = Len(a) + 1
      /\ Branches(a, ch, KidsOf(pg)) /\ AbsPage(pg).kids = KidsOf(pg)
  BY InternalFacts
<1>2. c \in 0..Len(a) /\ c + 1 \in 0..Len(ch)
  BY <1>1 DEF Fits
<1>3. r \in Seq(Key) /\ IsInserted(r, a, c, k)
  BY <1>1, <1>2, ArrInserted
<1>4. t \in Seq(Page) /\ IsInserted(t, ch, c + 1, x)
  BY <1>1, <1>2, ArrInserted
<1>5. InsertSplit(pg, c, k, x) = WithArrays(pg, r, t)
  BY DEF InsertSplit, WithArrays
<1> HIDE DEF a, ch, r, t
<1>6. Branches(r, t, [KidsOf(pg) EXCEPT ![k] = x])
  BY <1>1, <1>3, <1>4, BranchInserted DEF a, ch
<1>7. Len(r) = Len(a) + 1
  BY <1>3 DEF IsInserted
<1>8. /\ Sound(WithArrays(pg, r, t)) /\ WithArrays(pg, r, t).kind = "internal" /\ WithArrays(pg, r, t).keys = r
      /\ AbsPage(WithArrays(pg, r, t)) = WithKids(AbsPage(pg), [KidsOf(pg) EXCEPT ![k] = x])
  BY <1>6, InternalWith
<1>9. Family!InstallSplit(AbsPage(pg), k, x)
        = WithKids(AbsPage(pg), [KidsOf(pg) EXCEPT ![k] = x])
  BY <1>1 DEF Family!InstallSplit, WithKids
<1>10. QED
  BY <1>5, <1>7, <1>8, <1>9 DEF a

LEMMA WithoutLeftIs ==
  ASSUME NEW pg, Sound(pg), pg.kind = "internal", NEW index \in 0..(Len(pg.keys) - 1)
  PROVE  LET q == WithoutLeft(pg, index)
         IN  /\ Sound(q) /\ q.kind = "internal" /\ Len(q.keys) = Len(pg.keys) - 1
             /\ AbsPage(q) = Family!DropMerged(AbsPage(pg), pg.keys[index + 1])
<1> DEFINE a == pg.keys
           ch == pg.children
           r == ArrRemove(a, index)
           t == ArrRemove(ch, index)
<1>1. /\ a \in Seq(Key) /\ ch \in Seq(Page) /\ Len(a) \in Nat /\ Len(ch) = Len(a) + 1
      /\ Branches(a, ch, KidsOf(pg)) /\ AbsPage(pg).kids = KidsOf(pg)
  BY InternalFacts
<1>2. PICK p \in 1..Len(a) : p = index + 1
  BY <1>1
<1>3. r \in Seq(Key) /\ IsRemoved(r, a, p)
  BY <1>1, <1>2, ArrRemoved
<1>4. t \in Seq(Page) /\ IsRemoved(t, ch, p)
  <2>1. index \in 0..(Len(ch) - 1)
    BY <1>1
  <2>2. QED
    BY <1>1, <1>2, <2>1, ArrRemoved
<1>5. WithoutLeft(pg, index) = WithArrays(pg, r, t)
  BY DEF WithoutLeft, WithArrays
<1> HIDE DEF a, ch, r, t
<1>6. Branches(r, t, Dropped(a, p, KidsOf(pg)))
  BY <1>1, <1>3, <1>4, BranchDropped
<1>7. Len(r) = Len(a) - 1
  BY <1>3 DEF IsRemoved
<1>8. /\ Sound(WithArrays(pg, r, t)) /\ WithArrays(pg, r, t).kind = "internal" /\ WithArrays(pg, r, t).keys = r
      /\ AbsPage(WithArrays(pg, r, t)) = WithKids(AbsPage(pg), Dropped(a, p, KidsOf(pg)))
  BY <1>6, InternalWith
<1>9. Family!PrevSlot(AbsPage(pg), a[p]) = SlotBefore(a, p)
  BY SlotsAre DEF a
<1>10. Family!DropMerged(AbsPage(pg), a[p]) = WithKids(AbsPage(pg), Dropped(a, p, KidsOf(pg)))
  BY <1>1, <1>9 DEF WithKids, Family!DropMerged, Dropped, Family!Nil, Nil
<1>11. QED
  BY <1>2, <1>5, <1>7, <1>8, <1>10 DEF a

LEMMA RekeyedIs ==
  ASSUME NEW pg, Sound(pg), pg.kind = "internal", NEW index \in 0..(Len(pg.keys) - 1), NEW b \in Key,
         \A i \in 1..index : pg.keys[i] < b, \A i \in (index + 2)..Len(pg.keys) : b < pg.keys[i]
  PROVE  LET q == [pg EXCEPT !.keys = ReplaceAt(@, index + 1, b)]
         IN  /\ Sound(q) /\ q.kind = "internal" /\ Len(q.keys) = Len(pg.keys)
             /\ AbsPage(q) = Family!MoveBoundary(AbsPage(pg), pg.keys[index + 1], b)
<1> DEFINE a == pg.keys
           ch == pg.children
<1>1. /\ a \in Seq(Key) /\ Len(a) \in Nat /\ pg \in ArrayPage
      /\ Branches(a, ch, KidsOf(pg)) /\ AbsPage(pg).kids = KidsOf(pg)
  BY InternalFacts
<1>2. PICK p \in 1..Len(a) : p = index + 1
  BY <1>1
<1> DEFINE r == ReplaceAt(a, p, b)
           h == [s \in 0..MaxKey |-> IF s = b THEN KidsOf(pg)[a[p]]
                                     ELSE IF s = a[p] THEN Nil ELSE KidsOf(pg)[s]]
<1>3. r \in Seq(Key) /\ IsReplaced(r, a, p, b)
  BY <1>1, Replaced
<1>4. [pg EXCEPT !.keys = ReplaceAt(@, index + 1, b)] = WithArrays(pg, r, ch)
  BY <1>1, <1>2 DEF ArrayPage, WithArrays
<1>5. (\A i \in 1..(p - 1) : a[i] < b) /\ \A i \in (p + 1)..Len(a) : b < a[i]
  <2>1. p - 1 = index /\ p + 1 = index + 2
    BY <1>2
  <2>2. QED
    BY <2>1
<1> HIDE DEF a, ch, r
<1>6. Branches(r, ch, h)
  BY <1>1, <1>3, <1>5, BranchRekeyed
<1>7. Len(r) = Len(a)
  BY <1>3 DEF IsReplaced
<1>8. Family!MoveBoundary(AbsPage(pg), a[p], b) = WithKids(AbsPage(pg), h)
  BY <1>1 DEF WithKids, Family!MoveBoundary, Family!Slot, Family!Nil, Nil
<1> HIDE DEF h
<1>9. /\ Sound(WithArrays(pg, r, ch)) /\ WithArrays(pg, r, ch).kind = "internal" /\ WithArrays(pg, r, ch).keys = r
      /\ AbsPage(WithArrays(pg, r, ch)) = WithKids(AbsPage(pg), h)
  BY <1>6, InternalWith
<1>10. QED
  BY <1>2, <1>4, <1>7, <1>8, <1>9 DEF a

-----------------------------------------------------------------------------
(***************************************************************************)
(* split_full.                                                             *)
(***************************************************************************)
LEMMA MiddleTypes == /\ N \in Nat /\ N \div 2 \in Nat /\ N \div 2 + 1 \in 1..N /\ N \div 2 \in 1..N
                     /\ N - N \div 2 \in Nat /\ N - N \div 2 <= N
BY ArraysAssumption

LEMMA SplitKeyIs ==
  ASSUME NEW pg, Holder(pg), NEW m \in Nat, m = N \div 2, m + 1 \in 1..Len(ColumnOf(pg))
  PROVE  Family!SplitKey(AbsPage(pg)) = ColumnOf(pg)[m + 1]
<1> DEFINE a == ColumnOf(pg)
<1>1. /\ Climbs(a) /\ a \in Seq(Nat) /\ Len(a) \in Nat
      /\ \A i \in 1..Len(a) : a[i] \in Nat
  BY ColumnFacts
<1>2. Family!Contents(AbsPage(pg)) = Elements(a)
  BY ContentsAre
<1>3. Family!SplitKey(AbsPage(pg)) =
        CHOOSE s \in Elements(a) : Cardinality({x \in Elements(a) : x < s}) = m
  BY <1>2 DEF Family!SplitKey, Family!Cardinality, Cardinality
<1> HIDE DEF a
<1>4. ASSUME NEW j \in 1..Len(a)
      PROVE  Cardinality({x \in Elements(a) : x < a[j]}) = j - 1
  <2>1. \A i \in 1..Len(a) : a[i] < a[j] <=> i \in 1..(j - 1)
    <3> TAKE i \in 1..Len(a)
    <3>1. i < j => a[i] < a[j]
      BY <1>1 DEF Climbs
    <3>2. j < i => a[j] < a[i]
      BY <1>1 DEF Climbs
    <3>3. i = j \/ i < j \/ j < i
      BY <1>1
    <3>4. QED
      BY <1>1, <3>1, <3>2, <3>3
  <2>2. {x \in Elements(a) : x < a[j]} = {a[i] : i \in 1..(j - 1)}
    <3>1. \A i \in 1..(j - 1) : i \in 1..Len(a)
      BY <1>1
    <3>2. QED
      BY <2>1, <3>1 DEF Elements
  <2>3. j - 1 \in 0..Len(a)
    BY <1>1
  <2>4. Cardinality({a[i] : i \in 1..(j - 1)}) = j - 1
    BY <1>1, <2>3, ClimbingCount
  <2>5. QED
    BY <2>2, <2>4
<1>5. m + 1 \in 1..Len(a)
  BY DEF a
<1>6. a[m + 1] \in Elements(a) /\ Cardinality({x \in Elements(a) : x < a[m + 1]}) = m
  <2>1. (m + 1) - 1 = m
    OBVIOUS
  <2>2. QED
    BY <1>4, <1>5, <2>1 DEF Elements
<1>7. \A s \in Elements(a) : Cardinality({x \in Elements(a) : x < s}) = m => s = a[m + 1]
  <2> TAKE s \in Elements(a)
  <2> HAVE Cardinality({x \in Elements(a) : x < s}) = m
  <2>1. PICK j \in 1..Len(a) : s = a[j]
    BY DEF Elements
  <2>2. j - 1 = m
    BY <1>4, <2>1
  <2>3. j = m + 1
    BY <1>1, <2>2
  <2>4. QED
    BY <2>1, <2>3
<1>8. QED
  BY <1>3, <1>6, <1>7 DEF a

\* q is what a split leaves of pg below sep, and what it moves to the right.
IsKept(q, pg, sep, right) ==
  /\ q.kind = pg.kind /\ q.isRoot = pg.isRoot /\ q.low = pg.low /\ q.high = sep
  /\ q.prev = pg.prev /\ q.right = right /\ q.target = pg.target
  /\ RecsOf(q) = [k \in Key |-> IF k < sep THEN RecsOf(pg)[k] ELSE NoVal]
  /\ KidsOf(q) = Under(KidsOf(pg), sep)

IsMoved(q, pg, sep, left) ==
  /\ q.kind = pg.kind /\ q.isRoot = FALSE /\ q.low = sep /\ q.high = pg.high
  /\ q.prev = left /\ q.right = pg.right /\ q.target = pg.target
  /\ RecsOf(q) = [k \in Key |-> IF k < sep THEN NoVal ELSE RecsOf(pg)[k]]
  /\ KidsOf(q) = Over(KidsOf(pg), sep)

LEMMA LowerFields ==
  ASSUME NEW pg, NEW q, NEW sep, NEW right, IsKept(q, pg, sep, right)
  PROVE  AbsPage(q) = Family!SplitLower(AbsPage(pg), sep, right)
<1>1. AbsPage(pg).recs = RecsOf(pg) /\ AbsPage(pg).kids = KidsOf(pg)
  BY DEF RecsOf, KidsOf
<1>2. Family!SplitLower(AbsPage(pg), sep, right)
        = [AbsPage(pg) EXCEPT !.recs = RecsOf(q), !.kids = KidsOf(q), !.high = sep, !.right = right]
  BY <1>1 DEF IsKept, Under, Family!SplitLower, Family!Key, Key, Family!Slot, Family!Nil, Nil
<1>3. /\ q.kind = pg.kind /\ q.isRoot = pg.isRoot /\ q.low = pg.low /\ q.high = sep
      /\ q.prev = pg.prev /\ q.right = right /\ q.target = pg.target
  BY DEF IsKept
<1>4. QED
  BY ONLY ZenonT(30), <1>2, <1>3, AbsFields

LEMMA UpperFields ==
  ASSUME NEW pg, NEW q, NEW sep, NEW left, IsMoved(q, pg, sep, left)
  PROVE  AbsPage(q) = Family!SplitUpper(AbsPage(pg), sep, left)
<1>1. AbsPage(pg).recs = RecsOf(pg) /\ AbsPage(pg).kids = KidsOf(pg)
  BY DEF RecsOf, KidsOf
<1>2. Family!SplitUpper(AbsPage(pg), sep, left)
        = [AbsPage(pg) EXCEPT !.isRoot = FALSE, !.low = sep, !.prev = left,
                              !.recs = RecsOf(q), !.kids = KidsOf(q)]
  BY <1>1 DEF IsMoved, Over, Family!SplitUpper, Family!Key, Key, Family!Slot, Family!Nil, Nil, Family!NegInf
<1>3. /\ q.kind = pg.kind /\ q.isRoot = FALSE /\ q.low = sep /\ q.high = pg.high
      /\ q.prev = left /\ q.right = pg.right /\ q.target = pg.target
  BY DEF IsMoved
<1>4. QED
  BY ONLY ZenonT(30), <1>2, <1>3, AbsFields

\* What split_full makes of pg.
SplitsAs(pg, left, right) ==
  LET split == SplitFull(pg, left, right)
      sep   == split.separator
  IN  /\ sep = ColumnOf(pg)[N \div 2 + 1]
      /\ sep = Family!SplitKey(AbsPage(pg))
      /\ Sound(split.left) /\ Occupancy(split.left) <= N
      /\ AbsPage(split.left) = Family!SplitLower(AbsPage(pg), sep, right)
      /\ Sound(split.right) /\ Occupancy(split.right) <= N
      /\ AbsPage(split.right) = Family!SplitUpper(AbsPage(pg), sep, left)

LEMMA SplitLeafIs ==
  ASSUME NEW pg, Sound(pg), pg.kind = "leaf", Len(pg.entries) = N, NEW left \in Page, NEW right \in Page
  PROVE  SplitsAs(pg, left, right)
<1> DEFINE e == pg.entries
           a == KeysIn(e)
           split == SplitFull(pg, left, right)
<1>0. Holds(e, RecsOf(pg)) /\ pg \in ArrayPage /\ KidsOf(pg) = NoKids /\ pg.keys = <<>> /\ pg.children = <<>>
  BY DEF Sound
<1>1. PICK m \in Nat : m = N \div 2 /\ m + 1 \in 1..N /\ m \in 1..N /\ N - m <= N
  BY MiddleTypes
<1>2. /\ e \in Seq(Entry) /\ Column(a) /\ Len(a) = N /\ Climbs(a)
      /\ \A i \in 1..N : a[i] = e[i].key /\ a[i] \in Key /\ a[i] \in Nat
  BY <1>0, EntryColumns, KeyTypes DEF Holds, Column
<1> DEFINE lower == Below(e, m)
           upper == From(e, m)
<1>3. lower \in Seq(Entry) /\ IsLower(lower, e, m) /\ upper \in Seq(Entry) /\ IsUpper(upper, e, m)
  BY <1>1, <1>2, LowerPart, UpperPart
<1>4. PICK sep \in Key : sep = a[m + 1]
  BY <1>1, <1>2
<1>5. At(upper, 0).key = sep
  <2>1. 1 \in 1..(Len(e) - m)
    BY <1>1
  <2>2. upper[1] = e[m + 1]
    BY <1>3, <2>1 DEF IsUpper
  <2>3. QED
    BY <1>1, <1>2, <1>4, <2>2 DEF At
<1>6. /\ split.separator = sep
      /\ split.left = [[pg EXCEPT !.entries = lower] EXCEPT !.high = sep, !.right = right]
      /\ split.right = [[pg EXCEPT !.entries = upper]
                         EXCEPT !.isRoot = FALSE, !.low = sep, !.prev = left]
  BY <1>1, <1>5 DEF SplitFull, IsLeaf
<1> DEFINE S == {k \in Key : k < sep}
<1>7. Parts(a, m, S)
  <2>1. ASSUME NEW i \in 1..m PROVE a[i] \in S
    <3>1. i \in 1..N /\ i < m + 1
      BY <1>1
    <3>2. QED
      BY <1>1, <1>2, <1>4, <3>1 DEF Climbs
  <2>2. ASSUME NEW i \in (m + 1)..N PROVE a[i] \notin S
    <3>1. i \in 1..N /\ (i = m + 1 \/ m + 1 < i)
      BY <1>1
    <3>2. i = m + 1 \/ a[m + 1] < a[i]
      BY <1>1, <1>2, <3>1 DEF Climbs
    <3>3. QED
      BY <1>1, <1>2, <1>4, <3>1, <3>2
  <2>3. QED
    BY <1>1, <1>2, <2>1, <2>2 DEF Parts
<1> HIDE DEF e, a, split, lower, upper, S
<1>8. Holds(lower, [k \in Key |-> IF k \in S THEN RecsOf(pg)[k] ELSE NoVal])
  BY <1>0, <1>3, <1>7, StoreLower DEF a
<1>9. Holds(upper, [k \in Key |-> IF k \in S THEN NoVal ELSE RecsOf(pg)[k]])
  BY <1>0, <1>3, <1>7, StoreUpper DEF a
<1>10. sep \in 0..MaxKey /\ sep \in 1..(MaxKey + 1) /\ left \in 0..MaxPages /\ right \in 0..MaxPages
  BY KeyTypes, ArraysAssumption DEF Key, Page
<1>11. PICK ql : ql = split.left
  OBVIOUS
<1>12. PICK qr : qr = split.right
  OBVIOUS
<1>13. /\ ql \in ArrayPage /\ ql.kind = "leaf" /\ ql.entries = lower /\ ql.keys = <<>> /\ ql.children = <<>>
       /\ ql.isRoot = pg.isRoot /\ ql.low = pg.low /\ ql.high = sep /\ ql.prev = pg.prev
       /\ ql.right = right /\ ql.target = pg.target
  BY ZenonT(30), <1>0, <1>3, <1>6, <1>10, <1>11 DEF ArrayPage
<1>14. /\ qr \in ArrayPage /\ qr.kind = "leaf" /\ qr.entries = upper /\ qr.keys = <<>> /\ qr.children = <<>>
       /\ qr.isRoot = FALSE /\ qr.low = sep /\ qr.high = pg.high /\ qr.prev = left
       /\ qr.right = pg.right /\ qr.target = pg.target
  BY <1>0, <1>3, <1>6, <1>10, <1>12 DEF ArrayPage
<1>15. /\ Sound(ql) /\ KidsOf(ql) = NoKids
       /\ RecsOf(ql) = [k \in Key |-> IF k \in S THEN RecsOf(pg)[k] ELSE NoVal]
  BY <1>8, <1>13, SoundLeaf
<1>16. /\ Sound(qr) /\ KidsOf(qr) = NoKids
       /\ RecsOf(qr) = [k \in Key |-> IF k \in S THEN NoVal ELSE RecsOf(pg)[k]]
  BY <1>9, <1>14, SoundLeaf
<1>17. AbsPage(ql) = Family!SplitLower(AbsPage(pg), sep, right)
  <2>1. [k \in Key |-> IF k \in S THEN RecsOf(pg)[k] ELSE NoVal]
          = [k \in Key |-> IF k < sep THEN RecsOf(pg)[k] ELSE NoVal]
    BY DEF S
  <2>2. NoKids = [s \in 0..MaxKey |-> IF s < sep THEN NoKids[s] ELSE Nil]
    BY DEF NoKids
  <2>3. RecsOf(ql) = [k \in Key |-> IF k < sep THEN RecsOf(pg)[k] ELSE NoVal]
    BY ONLY <1>15, <2>1
  <2>4. KidsOf(ql) = Under(KidsOf(pg), sep)
    BY ONLY <1>0, <1>15, <2>2 DEF Under
  <2>5. ql.kind = pg.kind
    BY <1>13
  <2>6. QED
    BY ONLY <1>13, <2>3, <2>4, <2>5, LowerFields DEF IsKept
<1>18. AbsPage(qr) = Family!SplitUpper(AbsPage(pg), sep, left)
  <2>1. [k \in Key |-> IF k \in S THEN NoVal ELSE RecsOf(pg)[k]]
          = [k \in Key |-> IF k < sep THEN NoVal ELSE RecsOf(pg)[k]]
    BY DEF S
  <2>2. NoKids = [s \in 0..MaxKey |-> IF s = 0 THEN NoKids[sep] ELSE IF s > sep THEN NoKids[s] ELSE Nil]
    BY <1>10 DEF NoKids
  <2>3. RecsOf(qr) = [k \in Key |-> IF k < sep THEN NoVal ELSE RecsOf(pg)[k]]
    BY ONLY <1>16, <2>1
  <2>4. KidsOf(qr) = Over(KidsOf(pg), sep)
    BY ONLY <1>0, <1>16, <2>2 DEF Over
  <2>5. qr.kind = pg.kind
    BY <1>14
  <2>6. IsMoved(qr, pg, sep, left)
    BY ONLY <1>14, <2>3, <2>4, <2>5, Zenon DEF IsMoved
  <2>7. QED
    BY <2>6, UpperFields
<1>19. Occupancy(ql) <= N /\ Occupancy(qr) <= N
  <2>1. Len(lower) = m /\ Len(upper) = N - m
    BY <1>3 DEF IsLower, IsUpper, e
  <2>2. QED
    BY <1>1, <1>13, <1>14, <2>1, MiddleTypes DEF Occupancy, IsLeaf
<1>20. ColumnOf(pg) = a
  BY DEF ColumnOf, IsLeaf, a, e
<1>21. Family!SplitKey(AbsPage(pg)) = sep
  <2>1. m + 1 \in 1..Len(ColumnOf(pg)) /\ Holder(pg)
    BY <1>1, <1>2, <1>20 DEF Holder
  <2>2. QED
    BY <1>1, <1>4, <1>20, <2>1, SplitKeyIs
<1>22. QED
  BY <1>1, <1>4, <1>6, <1>11, <1>12, <1>15, <1>16, <1>17, <1>18, <1>19, <1>20, <1>21 DEF SplitsAs, split

LEMMA SplitInternalIs ==
  ASSUME NEW pg, Sound(pg), pg.kind = "internal", Len(pg.keys) = N, NEW left \in Page, NEW right \in Page
  PROVE  SplitsAs(pg, left, right)
<1> DEFINE a == pg.keys
           ch == pg.children
           split == SplitFull(pg, left, right)
<1>0. Branches(a, ch, KidsOf(pg)) /\ pg \in ArrayPage /\ RecsOf(pg) = NoRecs /\ pg.entries = <<>>
  BY DEF Sound
<1>1. PICK m \in Nat : m = N \div 2 /\ m + 1 \in 1..N /\ m \in 1..N /\ N - m <= N
  BY MiddleTypes
<1>2. /\ a \in Seq(Key) /\ ch \in Seq(Page) /\ Len(a) = N /\ Len(ch) = N + 1 /\ N \in Nat
      /\ \A i \in 1..N : a[i] \in Key /\ a[i] \in Nat
  BY InternalFacts, MiddleTypes
<1> DEFINE rest == ArrRemove(a, m)
           la == Below(rest, m)
           ua == From(rest, m)
           lc == Below(ch, m + 1)
           uc == From(ch, m + 1)
<1>3. rest \in Seq(Key) /\ IsRemoved(rest, a, m + 1)
  <2>1. m \in 0..(Len(a) - 1)
    BY <1>1, <1>2
  <2>2. QED
    BY <1>2, <2>1, ArrRemoved
<1>4. Len(rest) = N - 1 /\ m \in 0..(N - 1) /\ m + 1 \in 0..(N + 1)
  BY <1>1, <1>2, <1>3 DEF IsRemoved
<1>5. lc \in Seq(Page) /\ IsLower(lc, ch, m + 1) /\ uc \in Seq(Page) /\ IsUpper(uc, ch, m + 1)
  <2>1. m + 1 \in 0..Len(ch)
    BY <1>2, <1>4
  <2>2. QED
    BY <1>2, <2>1, LowerPart, UpperPart
<1>6. la \in Seq(Key) /\ IsLower(la, rest, m) /\ ua \in Seq(Key) /\ IsUpper(ua, rest, m)
  <2>1. m \in 0..Len(rest)
    BY <1>4
  <2>2. QED
    BY <1>3, <2>1, LowerPart, UpperPart
<1>7. PICK sep \in Key : sep = a[m + 1]
  BY <1>1, <1>2
<1>8. /\ split.separator = sep
      /\ split.left = [[pg EXCEPT !.keys = la, !.children = lc] EXCEPT !.high = sep, !.right = right]
      /\ split.right = [[pg EXCEPT !.keys = ua, !.children = uc]
                         EXCEPT !.isRoot = FALSE, !.low = sep, !.prev = left]
  BY <1>1, <1>7 DEF SplitFull, IsLeaf, At
<1> HIDE DEF a, ch, split, rest, la, ua, lc, uc
<1>9. IsLower(la, a, m)
  <2>1. ASSUME NEW j \in 1..m PROVE la[j] = a[j]
    <3>1. la[j] = rest[j] /\ j \in 1..(N - 1) /\ j < m + 1
      BY <1>1, <1>4, <1>6 DEF IsLower
    <3>2. rest[j] = a[j]
      BY <1>2, <1>3, <3>1 DEF IsRemoved
    <3>3. QED
      BY <3>1, <3>2
  <2>2. QED
    BY <1>6, <2>1 DEF IsLower
<1>10. IsUpper(ua, a, m + 1)
  <2>1. Len(ua) = (N - 1) - m /\ (N - 1) - m = N - (m + 1)
    BY <1>2, <1>4, <1>6 DEF IsUpper
  <2>2. ASSUME NEW j \in 1..(N - (m + 1)) PROVE ua[j] = a[(m + 1) + j]
    <3>1. m + j \in 1..(N - 1) /\ ~(m + j < m + 1) /\ (m + j) + 1 = (m + 1) + j /\ j \in 1..((N - 1) - m)
      BY <1>1, <1>2
    <3>2. ua[j] = rest[m + j]
      BY <1>4, <1>6, <3>1 DEF IsUpper
    <3>3. rest[m + j] = a[(m + j) + 1]
      BY <1>2, <1>3, <3>1 DEF IsRemoved
    <3>4. QED
      BY <3>1, <3>2, <3>3
  <2>3. QED
    BY <1>2, <2>1, <2>2 DEF IsUpper
<1>11. Branches(la, lc, Under(KidsOf(pg), sep))
  <2>1. Branches(a, ch, KidsOf(pg)) /\ m + 1 \in 1..Len(a)
    BY <1>0, <1>1, <1>2
  <2>2. QED
    BY ONLY <2>1, <1>5, <1>6, <1>7, <1>9, m \in Nat, BranchLower
<1>12. Branches(ua, uc, Over(KidsOf(pg), sep))
  <2>1. Branches(a, ch, KidsOf(pg)) /\ m + 1 \in 1..Len(a)
    BY <1>0, <1>1, <1>2
  <2>2. QED
    BY ONLY <2>1, <1>5, <1>6, <1>7, <1>10, m \in Nat, BranchUpper
<1>13. sep \in 0..MaxKey /\ sep \in 1..(MaxKey + 1) /\ left \in 0..MaxPages /\ right \in 0..MaxPages
  BY KeyTypes, ArraysAssumption DEF Key, Page
<1>14. PICK ql : ql = split.left
  OBVIOUS
<1>15. PICK qr : qr = split.right
  OBVIOUS
<1>16. /\ ql \in ArrayPage /\ ql.kind = "internal" /\ ql.entries = <<>> /\ ql.keys = la /\ ql.children = lc
       /\ ql.isRoot = pg.isRoot /\ ql.low = pg.low /\ ql.high = sep /\ ql.prev = pg.prev
       /\ ql.right = right /\ ql.target = pg.target
  BY ZenonT(30), <1>0, <1>5, <1>6, <1>8, <1>13, <1>14 DEF ArrayPage
<1>17. /\ qr \in ArrayPage /\ qr.kind = "internal" /\ qr.entries = <<>> /\ qr.keys = ua /\ qr.children = uc
       /\ qr.isRoot = FALSE /\ qr.low = sep /\ qr.high = pg.high /\ qr.prev = left
       /\ qr.right = pg.right /\ qr.target = pg.target
  BY <1>0, <1>5, <1>6, <1>8, <1>13, <1>15 DEF ArrayPage
<1>18. Sound(ql) /\ RecsOf(ql) = NoRecs /\ KidsOf(ql) = Under(KidsOf(pg), sep)
  BY <1>11, <1>16, SoundInternal
<1>19. Sound(qr) /\ RecsOf(qr) = NoRecs /\ KidsOf(qr) = Over(KidsOf(pg), sep)
  BY <1>12, <1>17, SoundInternal
<1>20. AbsPage(ql) = Family!SplitLower(AbsPage(pg), sep, right)
  <2>1. RecsOf(ql) = [k \in Key |-> IF k < sep THEN RecsOf(pg)[k] ELSE NoVal]
    <3>1. NoRecs = [k \in Key |-> IF k < sep THEN NoRecs[k] ELSE NoVal]
      BY DEF NoRecs
    <3>2. QED
      BY ONLY <1>0, <1>18, <3>1
  <2>2. ql.kind = pg.kind
    BY <1>16
  <2>3. IsKept(ql, pg, sep, right)
    BY ONLY <1>16, <1>18, <2>1, <2>2, Zenon DEF IsKept
  <2>4. QED
    BY <2>3, LowerFields
<1>21. AbsPage(qr) = Family!SplitUpper(AbsPage(pg), sep, left)
  <2>1. RecsOf(qr) = [k \in Key |-> IF k < sep THEN NoVal ELSE RecsOf(pg)[k]]
    <3>1. NoRecs = [k \in Key |-> IF k < sep THEN NoVal ELSE NoRecs[k]]
      BY DEF NoRecs
    <3>2. QED
      BY ONLY <1>0, <1>19, <3>1
  <2>2. qr.kind = pg.kind
    BY <1>17
  <2>3. IsMoved(qr, pg, sep, left)
    BY ONLY <1>17, <1>19, <2>1, <2>2, Zenon DEF IsMoved
  <2>4. QED
    BY <2>3, UpperFields
<1>22. Occupancy(ql) <= N /\ Occupancy(qr) <= N
  <2>1. Len(la) = m /\ Len(ua) = N - (m + 1)
    BY <1>2, <1>9, <1>10 DEF IsLower, IsUpper
  <2>2. QED
    BY <1>1, <1>2, <1>16, <1>17, <2>1 DEF Occupancy, IsLeaf
<1>23. ColumnOf(pg) = a
  BY DEF ColumnOf, IsLeaf, a
<1>24. Family!SplitKey(AbsPage(pg)) = sep
  <2>1. m + 1 \in 1..Len(ColumnOf(pg)) /\ Holder(pg)
    BY <1>1, <1>2, <1>23 DEF Holder
  <2>2. QED
    BY <1>1, <1>7, <1>23, <2>1, SplitKeyIs
<1>25. QED
  BY <1>1, <1>7, <1>8, <1>14, <1>15, <1>18, <1>19, <1>20, <1>21, <1>22, <1>23, <1>24 DEF SplitsAs, split

-----------------------------------------------------------------------------
(***************************************************************************)
(* borrow_from_left and borrow_from_right.                                 *)
(***************************************************************************)
LEMMA LendLastIs ==
  ASSUME NEW pg, Holder(pg), Len(ColumnOf(pg)) # 0
  PROVE  /\ Family!LendLastBoundary(AbsPage(pg)) = ColumnOf(pg)[Len(ColumnOf(pg))]
         /\ Len(ColumnOf(pg)) \in 1..Len(ColumnOf(pg))
<1> DEFINE a == ColumnOf(pg)
<1>1. /\ Climbs(a) /\ Len(a) \in Nat /\ \A i \in 1..Len(a) : a[i] \in Nat
  BY ColumnFacts
<1>2. Family!Contents(AbsPage(pg)) = Elements(a)
  BY ContentsAre
<1>3. Len(a) \in 1..Len(a)
  BY <1>1
<1> HIDE DEF a
<1>4. Elements(a) \subseteq Int /\ a[Len(a)] \in Elements(a)
  BY <1>1, <1>3 DEF Elements
<1>5. ASSUME NEW y \in Elements(a) PROVE y <= a[Len(a)]
  <2>1. PICK i \in 1..Len(a) : y = a[i]
    BY DEF Elements
  <2>2. i = Len(a) \/ i < Len(a)
    BY <1>1
  <2>3. i = Len(a) \/ a[i] < a[Len(a)]
    BY <1>1, <1>3, <2>2 DEF Climbs
  <2>4. QED
    BY <1>1, <1>3, <2>1, <2>3
<1>6. Family!Max(Elements(a)) = a[Len(a)]
  BY <1>4, <1>5, GreatestIs
<1>7. QED
  BY <1>2, <1>3, <1>6 DEF Family!LendLastBoundary, a

LEMMA LendFirstIs ==
  ASSUME NEW pg, Holder(pg), 2 \in 1..Len(ColumnOf(pg))
  PROVE  Family!LendFirstBoundary(AbsPage(pg))
           = IF pg.kind = "leaf" THEN ColumnOf(pg)[2] ELSE ColumnOf(pg)[1]
<1> DEFINE a == ColumnOf(pg)
           S == Elements(a) \ {a[1]}
<1>1. /\ Climbs(a) /\ Len(a) \in Nat /\ \A i \in 1..Len(a) : a[i] \in Nat
  BY ColumnFacts
<1>2. Family!Contents(AbsPage(pg)) = Elements(a) /\ AbsPage(pg).kind = pg.kind
  BY ContentsAre, AbsFields
<1>3. 1 \in 1..Len(a) /\ 2 \in 1..Len(a)
  BY <1>1
<1> HIDE DEF a
<1>4. Elements(a) \subseteq Int /\ a[1] \in Elements(a) /\ a[2] \in Elements(a)
  BY <1>1, <1>3 DEF Elements
<1>5. ASSUME NEW i \in 1..Len(a) PROVE (i = 1 \/ a[1] < a[i]) /\ (i = 1 \/ i = 2 \/ a[2] < a[i])
  <2>1. (i = 1 \/ 1 < i) /\ (i = 1 \/ i = 2 \/ 2 < i)
    BY <1>1
  <2>2. QED
    BY <1>1, <1>3, <2>1 DEF Climbs
<1>6. ASSUME NEW y \in Elements(a) PROVE a[1] <= y
  <2>1. PICK i \in 1..Len(a) : y = a[i]
    BY DEF Elements
  <2>2. QED
    BY <1>1, <1>3, <1>5, <2>1
<1>7. Family!Min(Elements(a)) = a[1]
  BY <1>4, <1>6, LeastIs
<1>8. S \subseteq Int /\ a[2] \in S
  BY <1>1, <1>3, <1>4, <1>5
<1>9. ASSUME NEW y \in S PROVE a[2] <= y
  <2>1. PICK i \in 1..Len(a) : y = a[i] /\ i # 1
    BY DEF Elements
  <2>2. QED
    BY <1>1, <1>3, <1>5, <2>1
<1> HIDE DEF S
<1>10. Family!Min(S) = a[2]
  BY <1>8, <1>9, LeastIs
<1>11. QED
  BY <1>2, <1>7, <1>10 DEF Family!LendFirstBoundary, a, S

\* q is pg between other fences.
Fenced(q, pg, low, high) ==
  /\ q.kind = pg.kind /\ q.isRoot = pg.isRoot /\ q.low = low /\ q.high = high
  /\ q.prev = pg.prev /\ q.right = pg.right /\ q.target = pg.target

IsLentLast(q, left, b) ==
  /\ Fenced(q, left, left.low, b)
  /\ RecsOf(q) = [RecsOf(left) EXCEPT ![b] = NoVal]
  /\ KidsOf(q) = [KidsOf(left) EXCEPT ![b] = Nil]

IsTookLast(q, left, right, sep, b) ==
  /\ Fenced(q, right, b, right.high)
  /\ RecsOf(q) = [RecsOf(right) EXCEPT ![b] = RecsOf(left)[b]]
  /\ KidsOf(q) = [[KidsOf(right) EXCEPT ![sep] = KidsOf(right)[0]] EXCEPT ![0] = KidsOf(left)[b]]

IsTookFirst(q, left, right, sep, b) ==
  /\ Fenced(q, left, left.low, b)
  /\ RecsOf(q) = [k \in Key |-> IF sep <= k /\ k < b THEN RecsOf(right)[k] ELSE RecsOf(left)[k]]
  /\ KidsOf(q) = [KidsOf(left) EXCEPT ![sep] = KidsOf(right)[0]]

IsLentFirst(q, right, b) ==
  /\ Fenced(q, right, b, right.high)
  /\ RecsOf(q) = [k \in Key |-> IF k < b THEN NoVal ELSE RecsOf(right)[k]]
  /\ KidsOf(q) = [[KidsOf(right) EXCEPT ![0] = KidsOf(right)[b]] EXCEPT ![b] = Nil]

LEMMA AbsParts ==
  ASSUME NEW pg
  PROVE  /\ AbsPage(pg).recs = RecsOf(pg) /\ AbsPage(pg).kids = KidsOf(pg)
         /\ AbsPage(pg).low = pg.low /\ AbsPage(pg).high = pg.high
         /\ AbsPage(pg).prev = pg.prev /\ AbsPage(pg).kind = pg.kind
<1>1. AbsPage(pg).recs = RecsOf(pg) /\ AbsPage(pg).kids = KidsOf(pg)
  BY DEF RecsOf, KidsOf
<1>2. QED
  BY <1>1, AbsFields

LEMMA LentLastFields ==
  ASSUME NEW left, NEW q, NEW b, IsLentLast(q, left, b)
  PROVE  AbsPage(q) = Family!LentLast(AbsPage(left), b)
<1>1. Family!LentLast(AbsPage(left), b)
        = [AbsPage(left) EXCEPT !.recs = RecsOf(q), !.kids = KidsOf(q), !.high = b]
  BY AbsParts DEF IsLentLast, Family!LentLast, Family!Nil, Nil
<1>2. /\ q.kind = left.kind /\ q.isRoot = left.isRoot /\ q.low = left.low /\ q.high = b
      /\ q.prev = left.prev /\ q.right = left.right /\ q.target = left.target
  BY DEF IsLentLast, Fenced
<1>3. QED
  BY ONLY ZenonT(30), <1>1, <1>2, AbsFields

LEMMA TookLastFields ==
  ASSUME NEW left, NEW right, NEW q, NEW sep, NEW b, IsTookLast(q, left, right, sep, b)
  PROVE  AbsPage(q) = Family!TookLast(AbsPage(left), AbsPage(right), sep, b)
<1>1. Family!TookLast(AbsPage(left), AbsPage(right), sep, b)
        = [AbsPage(right) EXCEPT !.recs = RecsOf(q), !.kids = KidsOf(q), !.low = b]
  BY AbsParts DEF IsTookLast, Family!TookLast, Family!NegInf
<1>2. /\ q.kind = right.kind /\ q.isRoot = right.isRoot /\ q.low = b /\ q.high = right.high
      /\ q.prev = right.prev /\ q.right = right.right /\ q.target = right.target
  BY DEF IsTookLast, Fenced
<1>3. QED
  BY ONLY ZenonT(30), <1>1, <1>2, AbsFields

LEMMA TookFirstFields ==
  ASSUME NEW left, NEW right, NEW q, NEW sep, NEW b, IsTookFirst(q, left, right, sep, b)
  PROVE  AbsPage(q) = Family!TookFirst(AbsPage(left), AbsPage(right), sep, b)
<1>1. Family!TookFirst(AbsPage(left), AbsPage(right), sep, b)
        = [AbsPage(left) EXCEPT !.recs = RecsOf(q), !.kids = KidsOf(q), !.high = b]
  <2>1. RecsOf(q) = [k \in Key |-> IF sep <= k /\ k < b THEN AbsPage(right).recs[k]
                                                        ELSE AbsPage(left).recs[k]]
    BY AbsParts DEF IsTookFirst
  <2>2. KidsOf(q) = [AbsPage(left).kids EXCEPT ![sep] = AbsPage(right).kids[0]]
    BY AbsParts DEF IsTookFirst
  <2>3. QED
    BY ONLY <2>1, <2>2 DEF Family!TookFirst, Family!NegInf, Family!Key, Key
<1>2. /\ q.kind = left.kind /\ q.isRoot = left.isRoot /\ q.low = left.low /\ q.high = b
      /\ q.prev = left.prev /\ q.right = left.right /\ q.target = left.target
  BY DEF IsTookFirst, Fenced
<1>3. QED
  BY ONLY ZenonT(30), <1>1, <1>2, AbsFields

LEMMA LentFirstFields ==
  ASSUME NEW right, NEW q, NEW b, IsLentFirst(q, right, b)
  PROVE  AbsPage(q) = Family!LentFirst(AbsPage(right), b)
<1>1. Family!LentFirst(AbsPage(right), b)
        = [AbsPage(right) EXCEPT !.recs = RecsOf(q), !.kids = KidsOf(q), !.low = b]
  BY AbsParts DEF IsLentFirst, Family!LentFirst, Family!NegInf, Family!Key, Key, Family!Nil, Nil
<1>2. /\ q.kind = right.kind /\ q.isRoot = right.isRoot /\ q.low = b /\ q.high = right.high
      /\ q.prev = right.prev /\ q.right = right.right /\ q.target = right.target
  BY DEF IsLentFirst, Fenced
<1>3. QED
  BY ONLY ZenonT(30), <1>1, <1>2, AbsFields

\* Two children with the separator between them.
Neighbours(left, right, sep) ==
  /\ Holder(left) /\ Holder(right) /\ right.kind = left.kind /\ sep \in Key
  /\ \A i \in 1..Len(ColumnOf(left)) : ColumnOf(left)[i] < sep
  /\ \A i \in 1..Len(ColumnOf(right)) :
       sep <= ColumnOf(right)[i] /\ (right.kind = "internal" => sep < ColumnOf(right)[i])
  /\ left.kind = "internal" => Apart(left.children, right.children)

\* The pages of a borrow are those of the family's borrow across b.
Lends(lent, pg, index, b, left, right) ==
  /\ b \in Key
  /\ lent.parent = [pg EXCEPT !.keys = ReplaceAt(@, index + 1, b)]
  /\ Sound(lent.left) /\ Occupancy(lent.left) <= N /\ AbsPage(lent.left) = left
  /\ Sound(lent.right) /\ Occupancy(lent.right) <= N /\ AbsPage(lent.right) = right

LEMMA KeyFences == \A k \in Key : k \in 0..MaxKey /\ k \in 1..(MaxKey + 1) /\ k \in Nat /\ k # 0
BY KeyTypes DEF Key

LEMMA LeafLendsLeft ==
  ASSUME NEW left, NEW right, NEW sep, Neighbours(left, right, sep), left.kind = "leaf",
         Len(ColumnOf(left)) # 0, Len(ColumnOf(left)) <= N, Len(ColumnOf(right)) < N,
         NEW pg, NEW index, NEW b, b = ColumnOf(left)[Len(ColumnOf(left))]
  PROVE  Lends(LentByLeft(pg, index, left, right), pg, index, b,
               Family!LentLast(AbsPage(left), b),
               Family!TookLast(AbsPage(left), AbsPage(right), sep, b))
<1> DEFINE le == left.entries
           re == right.entries
           a  == KeysIn(le)
           c  == KeysIn(re)
<1>0. /\ Sound(left) /\ Sound(right) /\ right.kind = "leaf"
      /\ ColumnOf(left) = a /\ ColumnOf(right) = c
  BY DEF Neighbours, Holder, ColumnOf, IsLeaf
<1>1. /\ left \in ArrayPage /\ Holds(le, RecsOf(left)) /\ KidsOf(left) = NoKids
      /\ left.keys = <<>> /\ left.children = <<>>
      /\ right \in ArrayPage /\ Holds(re, RecsOf(right)) /\ KidsOf(right) = NoKids
      /\ right.keys = <<>> /\ right.children = <<>>
  BY <1>0 DEF Sound
<1>2. /\ le \in Seq(Entry) /\ Len(a) = Len(le) /\ Len(le) \in Nat /\ a \in Seq(Key)
      /\ \A i \in 1..Len(le) : a[i] = le[i].key /\ a[i] \in Key /\ a[i] \in Nat /\ ValuesIn(le)[i] = le[i].value
      /\ Maps(a, ValuesIn(le), RecsOf(left), NoVal)
  BY <1>1, EntryColumns, KeyTypes DEF Holds
<1>3. /\ re \in Seq(Entry) /\ Len(c) = Len(re) /\ Len(re) \in Nat /\ c \in Seq(Key)
      /\ \A i \in 1..Len(re) : c[i] \in Key /\ c[i] \in Nat
  BY <1>1, EntryColumns, KeyTypes DEF Holds
<1> DEFINE lr == Front(le)
           rr == ArrInsert(re, 0, Last(le))
<1>4. PICK n \in 1..Len(le) : n = Len(le)
  BY <1>0, <1>2
<1>5. PICK x \in Entry : x = Last(le) /\ x = le[n]
  BY <1>2, <1>4, WithoutLast
<1>6. lr \in Seq(Entry) /\ IsRemoved(lr, le, n)
  BY <1>2, <1>4, WithoutLast
<1>7. rr \in Seq(Entry) /\ IsInserted(rr, re, 0, x)
  <2>1. 0 \in 0..Len(re)
    BY <1>3
  <2>2. QED
    BY <1>3, <1>5, <2>1, ArrInserted
<1>8. b = x.key /\ b = a[n] /\ b \in Key /\ RecsOf(left)[b] = x.value
  BY <1>0, <1>2, <1>4, <1>5 DEF Maps
<1> DEFINE lent == LentByLeft(pg, index, left, right)
<1>9. /\ lent.parent = [pg EXCEPT !.keys = ReplaceAt(@, index + 1, b)]
      /\ lent.left = [[left EXCEPT !.entries = lr] EXCEPT !.high = b]
      /\ lent.right = [[right EXCEPT !.entries = rr] EXCEPT !.low = b]
  BY <1>5, <1>8 DEF LentByLeft, Rebalanced, IsLeaf
<1>10. Fits(c, 0, b)
  <2>1. ASSUME NEW i \in 1..Len(c) PROVE c[i] > b
    <3>1. b < sep /\ sep <= c[i] /\ sep \in Nat
      BY <1>0, <1>2, <1>4, <1>8, KeyTypes DEF Neighbours
    <3>2. QED
      BY <1>3, <1>8, <3>1, KeyTypes
  <2>2. Len(c) \in Nat
    BY <1>3
  <2>3. QED
    BY <2>1, <2>2 DEF Fits
<1> HIDE DEF le, re, a, c, lr, rr, lent
<1>11. Holds(lr, [RecsOf(left) EXCEPT ![b] = NoVal])
  <2>1. b = le[n].key
    BY <1>5, <1>8
  <2>2. QED
    BY <1>1, <1>6, <2>1, StoreRemoves
<1>12. Holds(rr, [RecsOf(right) EXCEPT ![b] = RecsOf(left)[b]])
  <2>1. Fits(KeysIn(re), 0, x.key)
    BY <1>8, <1>10 DEF c
  <2>2. Holds(rr, [RecsOf(right) EXCEPT ![x.key] = x.value])
    BY <1>1, <1>7, <2>1, StoreInserts
  <2>3. QED
    BY <1>8, <2>2
<1>13. b \in 0..MaxKey /\ b \in 1..(MaxKey + 1) /\ b # 0 /\ sep \in 0..MaxKey
  BY <1>8, KeyFences DEF Neighbours
<1>14. PICK ql : ql = lent.left
  OBVIOUS
<1>15. PICK qr : qr = lent.right
  OBVIOUS
<1>16. /\ ql \in ArrayPage /\ ql.kind = "leaf" /\ ql.entries = lr /\ ql.keys = <<>> /\ ql.children = <<>>
       /\ ql.isRoot = left.isRoot /\ ql.low = left.low /\ ql.high = b
       /\ ql.prev = left.prev /\ ql.right = left.right /\ ql.target = left.target
  BY <1>1, <1>6, <1>9, <1>13, <1>14 DEF ArrayPage
<1>17. /\ qr \in ArrayPage /\ qr.kind = "leaf" /\ qr.entries = rr /\ qr.keys = <<>> /\ qr.children = <<>>
       /\ qr.isRoot = right.isRoot /\ qr.low = b /\ qr.high = right.high
       /\ qr.prev = right.prev /\ qr.right = right.right /\ qr.target = right.target
  BY <1>0, <1>1, <1>7, <1>9, <1>13, <1>15 DEF ArrayPage
<1>18. /\ Sound(ql) /\ KidsOf(ql) = NoKids /\ RecsOf(ql) = [RecsOf(left) EXCEPT ![b] = NoVal]
  BY <1>11, <1>16, SoundLeaf
<1>19. /\ Sound(qr) /\ KidsOf(qr) = NoKids
       /\ RecsOf(qr) = [RecsOf(right) EXCEPT ![b] = RecsOf(left)[b]]
  BY <1>12, <1>17, SoundLeaf
<1>20. AbsPage(ql) = Family!LentLast(AbsPage(left), b)
  <2>1. NoKids = [NoKids EXCEPT ![b] = Nil]
    BY DEF NoKids
  <2>2. KidsOf(ql) = [KidsOf(left) EXCEPT ![b] = Nil]
    BY ONLY <1>1, <1>18, <2>1
  <2>3. Fenced(ql, left, left.low, b)
    BY <1>16 DEF Fenced
  <2>4. QED
    BY ZenonT(30), <1>18, <2>2, <2>3, LentLastFields DEF IsLentLast
<1>21. AbsPage(qr) = Family!TookLast(AbsPage(left), AbsPage(right), sep, b)
  <2>1. NoKids[0] = Nil /\ NoKids[b] = Nil
    BY <1>13, SlotTypes DEF NoKids
  <2>2. NoKids = [NoKids EXCEPT ![sep] = Nil] /\ NoKids = [NoKids EXCEPT ![0] = Nil]
    BY DEF NoKids
  <2> DEFINE kids == [[KidsOf(right) EXCEPT ![sep] = KidsOf(right)[0]] EXCEPT ![0] = KidsOf(left)[b]]
  <2>3. KidsOf(qr) = kids
    BY ONLY <1>1, <1>19, <2>1, <2>2
  <2>4. Fenced(qr, right, b, right.high)
    BY <1>0, <1>17 DEF Fenced
  <2>5. IsTookLast(qr, left, right, sep, b)
    BY <1>19, <2>3, <2>4 DEF IsTookLast
  <2>6. QED
    BY <2>5, TookLastFields
<1>22. Occupancy(ql) <= N /\ Occupancy(qr) <= N
  <2>1. Len(lr) = Len(le) - 1 /\ Len(rr) = Len(re) + 1
    BY <1>6, <1>7 DEF IsRemoved, IsInserted
  <2>2. Len(le) <= N /\ Len(re) < N
    BY <1>0, <1>2, <1>3
  <2>3. QED
    BY <1>2, <1>3, <1>16, <1>17, <2>1, <2>2, ArraysAssumption DEF Occupancy, IsLeaf
<1>23. QED
  BY <1>8, <1>9, <1>14, <1>15, <1>18, <1>19, <1>20, <1>21, <1>22 DEF Lends, lent

LEMMA InternalLendsLeft ==
  ASSUME NEW left, NEW right, NEW sep, Neighbours(left, right, sep), left.kind = "internal",
         Len(ColumnOf(left)) # 0, Len(ColumnOf(left)) <= N, Len(ColumnOf(right)) < N,
         NEW pg, NEW index, At(pg.keys, index) = sep, NEW b, b = ColumnOf(left)[Len(ColumnOf(left))]
  PROVE  Lends(LentByLeft(pg, index, left, right), pg, index, b,
               Family!LentLast(AbsPage(left), b),
               Family!TookLast(AbsPage(left), AbsPage(right), sep, b))
<1> DEFINE a  == left.keys
           lc == left.children
           c  == right.keys
           rc == right.children
<1>0. /\ Sound(left) /\ Sound(right) /\ right.kind = "internal" /\ sep \in Key
      /\ ColumnOf(left) = a /\ ColumnOf(right) = c /\ Apart(lc, rc)
      /\ \A i \in 1..Len(c) : sep < c[i]
  BY DEF Neighbours, Holder, ColumnOf, IsLeaf
<1>1. /\ left \in ArrayPage /\ Branches(a, lc, KidsOf(left)) /\ RecsOf(left) = NoRecs
      /\ left.entries = <<>>
      /\ right \in ArrayPage /\ Branches(c, rc, KidsOf(right)) /\ RecsOf(right) = NoRecs
      /\ right.entries = <<>>
  BY <1>0 DEF Sound
<1>2. /\ a \in Seq(Key) /\ lc \in Seq(Page) /\ Len(a) \in Nat /\ Len(lc) = Len(a) + 1
      /\ \A i \in 1..Len(a) : a[i] \in Key /\ KidsOf(left)[a[i]] = lc[i + 1]
      /\ \A i \in 1..Len(lc) : lc[i] \in Page
  BY <1>0, <1>1, InternalFacts, BranchFacts
<1>3. c \in Seq(Key) /\ rc \in Seq(Page) /\ Len(c) \in Nat /\ Len(rc) = Len(c) + 1
  BY <1>0, InternalFacts
<1> DEFINE la == Front(a)
           ll == Front(lc)
           ra == ArrInsert(c, 0, sep)
           rr == ArrInsert(rc, 0, Last(lc))
<1>4. Len(a) \in 1..Len(a) /\ Len(lc) \in 1..Len(lc) /\ Len(lc) # 0
  BY <1>0, <1>2
<1>5. la \in Seq(Key) /\ IsRemoved(la, a, Len(a)) /\ Last(a) = a[Len(a)]
  <2>1. a \in Seq(Key) /\ Len(a) # 0
    BY <1>2, <1>4
  <2>2. QED
    BY ONLY <2>1, WithoutLast
<1>6. ll \in Seq(Page) /\ IsRemoved(ll, lc, Len(lc)) /\ Last(lc) = lc[Len(lc)]
  <2>1. lc \in Seq(Page) /\ Len(lc) # 0
    BY <1>2, <1>4
  <2>2. QED
    BY ONLY <2>1, WithoutLast
<1>7. PICK x \in Page : x = Last(lc) /\ x = lc[Len(lc)]
  BY <1>2, <1>4, <1>6
<1>8. b \in Key /\ b = a[Len(a)] /\ KidsOf(left)[b] = x
  <2>1. Len(lc) = Len(a) + 1
    BY <1>2
  <2>2. QED
    BY <1>0, <1>2, <1>4, <1>7, <2>1
<1>9. ra \in Seq(Key) /\ IsInserted(ra, c, 0, sep) /\ rr \in Seq(Page) /\ IsInserted(rr, rc, 0, x)
  <2>1. 0 \in 0..Len(c) /\ 0 \in 0..Len(rc)
    BY <1>3
  <2>2. QED
    BY <1>0, <1>3, <1>7, <2>1, ArrInserted
<1> DEFINE lent == LentByLeft(pg, index, left, right)
<1>10. /\ lent.parent = [pg EXCEPT !.keys = ReplaceAt(@, index + 1, b)]
       /\ lent.left = [[left EXCEPT !.keys = la, !.children = ll] EXCEPT !.high = b]
       /\ lent.right = [[right EXCEPT !.keys = ra, !.children = rr] EXCEPT !.low = b]
  BY <1>5, <1>8 DEF LentByLeft, Rebalanced, IsLeaf
<1>11. \A i \in 1..Len(rc) : rc[i] # x
  BY <1>0, <1>4, <1>7 DEF Apart
<1> HIDE DEF a, lc, c, rc, la, ll, ra, rr, lent
<1>12. Branches(la, ll, [KidsOf(left) EXCEPT ![b] = Nil])
  <2>1. Len(a) # 0
    BY <1>4
  <2>2. Branches(la, ll, [KidsOf(left) EXCEPT ![a[Len(a)]] = Nil])
    BY <1>1, <1>5, <1>6, <2>1, BranchPopped
  <2>3. QED
    BY <1>8, <2>2
<1>13. Branches(ra, rr, [[KidsOf(right) EXCEPT ![sep] = KidsOf(right)[0]] EXCEPT ![0] = KidsOf(left)[b]])
  <2>1. Branches(ra, rr, [[KidsOf(right) EXCEPT ![sep] = KidsOf(right)[0]] EXCEPT ![0] = x])
    BY <1>0, <1>1, <1>9, <1>11, BranchPushed
  <2>2. QED
    BY <1>8, <2>1
<1>14. b \in 0..MaxKey /\ b \in 1..(MaxKey + 1)
  BY <1>8, KeyFences
<1>15. PICK ql : ql = lent.left
  OBVIOUS
<1>16. PICK qr : qr = lent.right
  OBVIOUS
<1>17. /\ ql \in ArrayPage /\ ql.kind = "internal" /\ ql.entries = <<>> /\ ql.keys = la /\ ql.children = ll
       /\ ql.isRoot = left.isRoot /\ ql.low = left.low /\ ql.high = b
       /\ ql.prev = left.prev /\ ql.right = left.right /\ ql.target = left.target
  BY ZenonT(30), <1>1, <1>5, <1>6, <1>10, <1>14, <1>15 DEF ArrayPage
<1>18. /\ qr \in ArrayPage /\ qr.kind = "internal" /\ qr.entries = <<>> /\ qr.keys = ra /\ qr.children = rr
       /\ qr.isRoot = right.isRoot /\ qr.low = b /\ qr.high = right.high
       /\ qr.prev = right.prev /\ qr.right = right.right /\ qr.target = right.target
  BY <1>0, <1>1, <1>9, <1>10, <1>14, <1>16 DEF ArrayPage
<1>19. Sound(ql) /\ RecsOf(ql) = NoRecs /\ KidsOf(ql) = [KidsOf(left) EXCEPT ![b] = Nil]
  BY <1>12, <1>17, SoundInternal
<1>20. /\ Sound(qr) /\ RecsOf(qr) = NoRecs
       /\ KidsOf(qr) = [[KidsOf(right) EXCEPT ![sep] = KidsOf(right)[0]] EXCEPT ![0] = KidsOf(left)[b]]
  BY <1>13, <1>18, SoundInternal
<1>21. AbsPage(ql) = Family!LentLast(AbsPage(left), b)
  <2>1. RecsOf(ql) = [RecsOf(left) EXCEPT ![b] = NoVal]
    <3>1. NoRecs = [NoRecs EXCEPT ![b] = NoVal]
      BY DEF NoRecs
    <3>2. QED
      BY ONLY <1>1, <1>19, <3>1
  <2>2. Fenced(ql, left, left.low, b)
    BY <1>17 DEF Fenced
  <2>3. QED
    BY ZenonT(30), <1>19, <2>1, <2>2, LentLastFields DEF IsLentLast
<1>22. AbsPage(qr) = Family!TookLast(AbsPage(left), AbsPage(right), sep, b)
  <2>1. RecsOf(qr) = [RecsOf(right) EXCEPT ![b] = RecsOf(left)[b]]
    <3>1. NoRecs = [NoRecs EXCEPT ![b] = NoRecs[b]]
      BY DEF NoRecs
    <3>2. QED
      BY ONLY <1>1, <1>20, <3>1
  <2>2. Fenced(qr, right, b, right.high)
    BY <1>0, <1>18 DEF Fenced
  <2>3. IsTookLast(qr, left, right, sep, b)
    BY <1>20, <2>1, <2>2 DEF IsTookLast
  <2>4. QED
    BY <2>3, TookLastFields
<1>23. Occupancy(ql) <= N /\ Occupancy(qr) <= N
  <2>1. Len(la) = Len(a) - 1 /\ Len(ra) = Len(c) + 1
    BY <1>5, <1>9 DEF IsRemoved, IsInserted
  <2>2. Len(a) <= N /\ Len(c) < N
    BY <1>0
  <2>3. QED
    BY <1>2, <1>3, <1>17, <1>18, <2>1, <2>2, ArraysAssumption DEF Occupancy, IsLeaf
<1>24. QED
  BY <1>8, <1>10, <1>15, <1>16, <1>19, <1>20, <1>21, <1>22, <1>23 DEF Lends, lent

LEMMA LeafLendsRight ==
  ASSUME NEW left, NEW right, NEW sep, Neighbours(left, right, sep), left.kind = "leaf",
         2 \in 1..Len(ColumnOf(right)), Len(ColumnOf(right)) <= N, Len(ColumnOf(left)) < N,
         NEW pg, NEW index, NEW b, b = ColumnOf(right)[2]
  PROVE  Lends(LentByRight(pg, index, left, right), pg, index, b,
               Family!TookFirst(AbsPage(left), AbsPage(right), sep, b),
               Family!LentFirst(AbsPage(right), b))
<1> DEFINE le == left.entries
           re == right.entries
           a  == KeysIn(le)
           c  == KeysIn(re)
<1>0. /\ Sound(left) /\ Sound(right) /\ right.kind = "leaf" /\ sep \in Key /\ sep \in Nat
      /\ ColumnOf(left) = a /\ ColumnOf(right) = c
      /\ \A i \in 1..Len(a) : a[i] < sep
      /\ \A i \in 1..Len(c) : sep <= c[i]
  BY KeyTypes DEF Neighbours, Holder, ColumnOf, IsLeaf
<1>1. /\ left \in ArrayPage /\ Holds(le, RecsOf(left)) /\ KidsOf(left) = NoKids
      /\ left.keys = <<>> /\ left.children = <<>>
      /\ right \in ArrayPage /\ Holds(re, RecsOf(right)) /\ KidsOf(right) = NoKids
      /\ right.keys = <<>> /\ right.children = <<>>
  BY <1>0 DEF Sound
<1>2. /\ le \in Seq(Entry) /\ Len(a) = Len(le) /\ Len(le) \in Nat /\ a \in Seq(Key)
      /\ \A i \in 1..Len(le) : a[i] \in Key /\ a[i] \in Nat
      /\ Maps(a, ValuesIn(le), RecsOf(left), NoVal)
  BY <1>1, EntryColumns, KeyTypes DEF Holds
<1>3. /\ re \in Seq(Entry) /\ Len(c) = Len(re) /\ Len(re) \in Nat /\ c \in Seq(Key) /\ Climbs(c)
      /\ \A i \in 1..Len(re) : /\ re[i] \in Entry /\ c[i] = re[i].key /\ c[i] \in Key /\ c[i] \in Nat
                               /\ ValuesIn(re)[i] = re[i].value
      /\ Maps(c, ValuesIn(re), RecsOf(right), NoVal)
  BY <1>1, EntryColumns, KeyTypes DEF Holds, Column
<1>4. 1 \in 1..Len(re) /\ 2 \in 1..Len(re) /\ 0 \in 0..(Len(re) - 1)
  BY <1>0, <1>3
<1>5. PICK x \in Entry : x = re[1]
  BY <1>3, <1>4
<1> DEFINE lr == Append(le, x)
           rr == ArrRemove(re, 0)
<1>6. lr \in Seq(Entry) /\ IsInserted(lr, le, Len(le), x)
  BY <1>2, Appended
<1>7. rr \in Seq(Entry) /\ IsRemoved(rr, re, 1)
  <2>1. 0 + 1 = 1
    OBVIOUS
  <2>2. QED
    BY <1>3, <1>4, <2>1, ArrRemoved
<1>8. /\ b = c[2] /\ b \in Key /\ b \in Nat
      /\ x.key = c[1] /\ x.key \in Key /\ x.key \in Nat /\ sep <= x.key /\ x.key < b
      /\ RecsOf(right)[x.key] = x.value
      /\ \A i \in 1..Len(c) : i = 1 \/ b <= c[i]
  <2>1. c[1] < c[2] /\ sep <= c[1]
    BY <1>0, <1>3, <1>4 DEF Climbs
  <2>2. ASSUME NEW i \in 1..Len(c) PROVE i = 1 \/ b <= c[i]
    <3>1. i = 1 \/ i = 2 \/ 2 < i
      BY <1>3
    <3>2. i = 1 \/ i = 2 \/ c[2] < c[i]
      BY <1>3, <1>4, <3>1 DEF Climbs
    <3>3. QED
      BY <1>0, <1>3, <1>4, <3>2
  <2>3. b = c[2] /\ b \in Key /\ b \in Nat
    BY <1>0, <1>3, <1>4
  <2>4. x.key = c[1] /\ x.key \in Key /\ x.key \in Nat /\ ValuesIn(re)[1] = x.value
    BY <1>3, <1>4, <1>5
  <2>5. RecsOf(right)[c[1]] = ValuesIn(re)[1]
    BY <1>3, <1>4 DEF Maps
  <2>6. QED
    BY <2>1, <2>2, <2>3, <2>4, <2>5
<1> DEFINE lent == LentByRight(pg, index, left, right)
<1>9. /\ lent.parent = [pg EXCEPT !.keys = ReplaceAt(@, index + 1, b)]
      /\ lent.left = [[left EXCEPT !.entries = lr] EXCEPT !.high = b]
      /\ lent.right = [[right EXCEPT !.entries = rr] EXCEPT !.low = b]
  <2>1. rr[1] = re[2]
    <3>1. 1 \in 1..(Len(re) - 1) /\ ~(1 < 1) /\ 1 + 1 = 2
      BY <1>3, <1>4
    <3>2. QED
      BY <1>7, <3>1 DEF IsRemoved
  <2>2. rr[0 + 1].key = b /\ re[0 + 1] = x
    BY <1>3, <1>4, <1>5, <1>8, <2>1
  <2>3. At(rr, 0).key = b /\ At(re, 0) = x
    BY <2>2 DEF At
  <2>4. QED
    BY <2>3 DEF LentByRight, Rebalanced, IsLeaf
<1>10. Fits(a, Len(a), x.key)
  <2>1. \A i \in 1..Len(a) : a[i] < x.key
    BY <1>0, <1>2, <1>8
  <2>2. Len(a) \in 0..Len(a) /\ (Len(a) + 1)..Len(a) = {}
    BY <1>2
  <2>3. QED
    BY <2>1, <2>2 DEF Fits
<1> DEFINE taken == [k \in Key |-> IF sep <= k /\ k < b THEN RecsOf(right)[k] ELSE RecsOf(left)[k]]
           kept  == [k \in Key |-> IF k < b THEN NoVal ELSE RecsOf(right)[k]]
<1>11. taken = [RecsOf(left) EXCEPT ![x.key] = x.value]
  <2>1. ASSUME NEW k \in Key PROVE taken[k] = IF k = x.key THEN x.value ELSE RecsOf(left)[k]
    <3>1. k \in Nat
      BY KeyTypes
    <3>2. CASE k = x.key
      BY <1>8, <3>2
    <3>3. CASE k # x.key /\ sep <= k /\ k < b
      <4>1. \A i \in 1..Len(c) : c[i] # k
        BY <1>3, <1>8, <3>1, <3>3
      <4>2. \A i \in 1..Len(a) : a[i] # k
        BY <1>0, <1>2, <3>1, <3>3
      <4>3. RecsOf(right)[k] = NoVal /\ RecsOf(left)[k] = NoVal
        BY <1>2, <1>3, <4>1, <4>2 DEF Maps
      <4>4. QED
        BY <3>3, <4>3
    <3>4. CASE k # x.key /\ ~(sep <= k /\ k < b)
      BY <3>4
    <3>5. QED
      BY <3>2, <3>3, <3>4
  <2>2. RecsOf(left) = [k \in Key |-> RecsOf(left)[k]]
    BY <1>2 DEF Maps
  <2>3. taken = [k \in Key |-> taken[k]]
    OBVIOUS
  <2> HIDE DEF taken
  <2>4. QED
    BY <1>8, <2>1, <2>2, <2>3
<1>12. kept = [RecsOf(right) EXCEPT ![x.key] = NoVal]
  <2>1. ASSUME NEW k \in Key PROVE kept[k] = IF k = x.key THEN NoVal ELSE RecsOf(right)[k]
    <3>1. k \in Nat
      BY KeyTypes
    <3>2. CASE k = x.key
      BY <1>8, <3>2
    <3>3. CASE k # x.key /\ k < b
      <4>1. \A i \in 1..Len(c) : c[i] # k
        BY <1>3, <1>8, <3>1, <3>3
      <4>2. RecsOf(right)[k] = NoVal
        BY <1>3, <4>1 DEF Maps
      <4>3. QED
        BY <3>3, <4>2
    <3>4. CASE k # x.key /\ ~(k < b)
      BY <3>4
    <3>5. QED
      BY <3>2, <3>3, <3>4
  <2>2. RecsOf(right) = [k \in Key |-> RecsOf(right)[k]]
    BY <1>3 DEF Maps
  <2>3. kept = [k \in Key |-> kept[k]]
    OBVIOUS
  <2> HIDE DEF kept
  <2>4. QED
    BY <1>8, <2>1, <2>2, <2>3
<1> HIDE DEF le, re, a, c, lr, rr, lent, taken, kept
<1>13. Holds(lr, taken)
  <2>1. Fits(KeysIn(le), Len(le), x.key)
    BY <1>2, <1>10 DEF a
  <2>2. Holds(lr, [RecsOf(left) EXCEPT ![x.key] = x.value])
    BY <1>1, <1>6, <2>1, StoreInserts
  <2>3. QED
    BY <1>11, <2>2
<1>14. Holds(rr, kept)
  <2>1. Holds(rr, [RecsOf(right) EXCEPT ![re[1].key] = NoVal])
    BY <1>1, <1>4, <1>7, StoreRemoves
  <2>2. QED
    BY <1>5, <1>12, <2>1
<1>15. b \in 0..MaxKey /\ b \in 1..(MaxKey + 1) /\ b # 0 /\ sep \in 0..MaxKey /\ 0 \in 0..MaxKey
  BY <1>0, <1>8, KeyFences, SlotTypes
<1>16. PICK ql : ql = lent.left
  OBVIOUS
<1>17. PICK qr : qr = lent.right
  OBVIOUS
<1>18. /\ ql \in ArrayPage /\ ql.kind = "leaf" /\ ql.entries = lr /\ ql.keys = <<>> /\ ql.children = <<>>
       /\ ql.isRoot = left.isRoot /\ ql.low = left.low /\ ql.high = b
       /\ ql.prev = left.prev /\ ql.right = left.right /\ ql.target = left.target
  BY <1>1, <1>6, <1>9, <1>15, <1>16 DEF ArrayPage
<1>19. /\ qr \in ArrayPage /\ qr.kind = "leaf" /\ qr.entries = rr /\ qr.keys = <<>> /\ qr.children = <<>>
       /\ qr.isRoot = right.isRoot /\ qr.low = b /\ qr.high = right.high
       /\ qr.prev = right.prev /\ qr.right = right.right /\ qr.target = right.target
  BY <1>0, <1>1, <1>7, <1>9, <1>15, <1>17 DEF ArrayPage
<1>20. Sound(ql) /\ KidsOf(ql) = NoKids /\ RecsOf(ql) = taken
  BY <1>13, <1>18, SoundLeaf
<1>21. Sound(qr) /\ KidsOf(qr) = NoKids /\ RecsOf(qr) = kept
  BY <1>14, <1>19, SoundLeaf
<1>22. NoKids[0] = Nil /\ NoKids[b] = Nil
  BY <1>15 DEF NoKids
<1>23. AbsPage(ql) = Family!TookFirst(AbsPage(left), AbsPage(right), sep, b)
  <2>1. NoKids = [NoKids EXCEPT ![sep] = Nil]
    BY DEF NoKids
  <2>2. KidsOf(ql) = [KidsOf(left) EXCEPT ![sep] = KidsOf(right)[0]]
    BY ONLY <1>1, <1>20, <1>22, <2>1
  <2>3. Fenced(ql, left, left.low, b)
    BY <1>18 DEF Fenced
  <2>4. IsTookFirst(ql, left, right, sep, b)
    BY ONLY <1>20, <2>2, <2>3, Zenon DEF IsTookFirst, taken
  <2>5. QED
    BY <2>4, TookFirstFields
<1>24. AbsPage(qr) = Family!LentFirst(AbsPage(right), b)
  <2>1. NoKids = [NoKids EXCEPT ![0] = Nil] /\ NoKids = [NoKids EXCEPT ![b] = Nil]
    BY DEF NoKids
  <2> DEFINE kids == [[KidsOf(right) EXCEPT ![0] = KidsOf(right)[b]] EXCEPT ![b] = Nil]
  <2>2. KidsOf(qr) = kids
    BY ONLY <1>1, <1>21, <1>22, <2>1
  <2>3. Fenced(qr, right, b, right.high)
    BY <1>0, <1>19 DEF Fenced
  <2>4. IsLentFirst(qr, right, b)
    BY ONLY <1>21, <2>2, <2>3, Zenon DEF IsLentFirst, kept, kids
  <2>5. QED
    BY <2>4, LentFirstFields
<1>25. Occupancy(ql) <= N /\ Occupancy(qr) <= N
  <2>1. Len(lr) = Len(le) + 1 /\ Len(rr) = Len(re) - 1
    BY <1>6, <1>7 DEF IsRemoved, IsInserted
  <2>2. Len(re) <= N /\ Len(le) < N
    BY <1>0, <1>2, <1>3
  <2>3. QED
    BY <1>2, <1>3, <1>18, <1>19, <2>1, <2>2, ArraysAssumption DEF Occupancy, IsLeaf
<1>26. QED
  BY <1>8, <1>9, <1>16, <1>17, <1>20, <1>21, <1>23, <1>24, <1>25 DEF Lends, lent

LEMMA InternalLendsRight ==
  ASSUME NEW left, NEW right, NEW sep, Neighbours(left, right, sep), left.kind = "internal",
         2 \in 1..Len(ColumnOf(right)), Len(ColumnOf(right)) <= N, Len(ColumnOf(left)) < N,
         NEW pg, NEW index, At(pg.keys, index) = sep, NEW b, b = ColumnOf(right)[1]
  PROVE  Lends(LentByRight(pg, index, left, right), pg, index, b,
               Family!TookFirst(AbsPage(left), AbsPage(right), sep, b),
               Family!LentFirst(AbsPage(right), b))
<1> DEFINE a  == left.keys
           lc == left.children
           c  == right.keys
           rc == right.children
<1>0. /\ Sound(left) /\ Sound(right) /\ right.kind = "internal" /\ sep \in Key
      /\ ColumnOf(left) = a /\ ColumnOf(right) = c /\ Apart(lc, rc)
      /\ \A i \in 1..Len(a) : a[i] < sep
  BY DEF Neighbours, Holder, ColumnOf, IsLeaf
<1>1. /\ left \in ArrayPage /\ Branches(a, lc, KidsOf(left)) /\ RecsOf(left) = NoRecs
      /\ left.entries = <<>>
      /\ right \in ArrayPage /\ Branches(c, rc, KidsOf(right)) /\ RecsOf(right) = NoRecs
      /\ right.entries = <<>>
  BY <1>0 DEF Sound
<1>2. a \in Seq(Key) /\ lc \in Seq(Page) /\ Len(a) \in Nat /\ Len(lc) = Len(a) + 1
  BY <1>0, InternalFacts
<1>3. /\ c \in Seq(Key) /\ rc \in Seq(Page) /\ Len(c) \in Nat /\ Len(rc) = Len(c) + 1
      /\ \A i \in 1..Len(c) : c[i] \in Key
      /\ \A i \in 1..Len(rc) : rc[i] \in Page
      /\ KidsOf(right)[0] = rc[1]
  BY <1>0, <1>1, InternalFacts, BranchFacts
<1>4. 1 \in 1..Len(c) /\ 1 \in 1..Len(rc) /\ 0 \in 0..(Len(c) - 1) /\ 0 \in 0..(Len(rc) - 1) /\ 0 + 1 = 1
  BY <1>0, <1>3
<1>5. PICK x \in Page : x = rc[1] /\ x = KidsOf(right)[0]
  BY <1>3, <1>4
<1> DEFINE la == Append(a, sep)
           ll == Append(lc, x)
           ra == ArrRemove(c, 0)
           rr == ArrRemove(rc, 0)
<1>6. la \in Seq(Key) /\ IsInserted(la, a, Len(a), sep)
  BY <1>0, <1>2, Appended
<1>7. ll \in Seq(Page) /\ IsInserted(ll, lc, Len(a) + 1, x)
  <2>1. ll \in Seq(Page) /\ IsInserted(ll, lc, Len(lc), x)
    BY <1>2, Appended
  <2>2. QED
    BY <1>2, <2>1
<1>8. ra \in Seq(Key) /\ IsRemoved(ra, c, 1)
  BY <1>3, <1>4, ArrRemoved
<1>9. rr \in Seq(Page) /\ IsRemoved(rr, rc, 1)
  BY <1>3, <1>4, ArrRemoved
<1>10. b \in Key /\ b = c[1] /\ At(c, 0) = b /\ At(rc, 0) = x
  BY <1>0, <1>3, <1>4, <1>5 DEF At
<1> DEFINE lent == LentByRight(pg, index, left, right)
<1>11. /\ lent.parent = [pg EXCEPT !.keys = ReplaceAt(@, index + 1, b)]
       /\ lent.left = [[left EXCEPT !.keys = la, !.children = ll] EXCEPT !.high = b]
       /\ lent.right = [[right EXCEPT !.keys = ra, !.children = rr] EXCEPT !.low = b]
  BY <1>10 DEF LentByRight, Rebalanced, IsLeaf
<1>12. \A i \in 1..Len(lc) : lc[i] # x
  BY <1>0, <1>4, <1>5 DEF Apart
<1>13. Fits(a, Len(a), sep)
  <2>1. Len(a) \in 0..Len(a) /\ (Len(a) + 1)..Len(a) = {}
    BY <1>2
  <2>2. QED
    BY <1>0, <2>1 DEF Fits
<1> HIDE DEF a, lc, c, rc, la, ll, ra, rr, lent
<1>14. Branches(la, ll, [KidsOf(left) EXCEPT ![sep] = KidsOf(right)[0]])
  <2>1. Branches(la, ll, [KidsOf(left) EXCEPT ![sep] = x])
    BY <1>0, <1>1, <1>6, <1>7, <1>12, <1>13, BranchInserted
  <2>2. QED
    BY <1>5, <2>1
<1>15. Branches(ra, rr, [[KidsOf(right) EXCEPT ![0] = KidsOf(right)[b]] EXCEPT ![b] = Nil])
  <2>1. Branches(ra, rr, [[KidsOf(right) EXCEPT ![0] = KidsOf(right)[c[1]]] EXCEPT ![c[1]] = Nil])
    BY <1>1, <1>4, <1>8, <1>9, BranchDroppedFirst
  <2>2. QED
    BY <1>10, <2>1
<1>16. b \in 0..MaxKey /\ b \in 1..(MaxKey + 1)
  BY <1>10, KeyFences
<1>17. PICK ql : ql = lent.left
  OBVIOUS
<1>18. PICK qr : qr = lent.right
  OBVIOUS
<1>19. /\ ql \in ArrayPage /\ ql.kind = "internal" /\ ql.entries = <<>> /\ ql.keys = la /\ ql.children = ll
       /\ ql.isRoot = left.isRoot /\ ql.low = left.low /\ ql.high = b
       /\ ql.prev = left.prev /\ ql.right = left.right /\ ql.target = left.target
  BY ZenonT(30), <1>1, <1>6, <1>7, <1>11, <1>16, <1>17 DEF ArrayPage
<1>20. /\ qr \in ArrayPage /\ qr.kind = "internal" /\ qr.entries = <<>> /\ qr.keys = ra /\ qr.children = rr
       /\ qr.isRoot = right.isRoot /\ qr.low = b /\ qr.high = right.high
       /\ qr.prev = right.prev /\ qr.right = right.right /\ qr.target = right.target
  BY <1>0, <1>1, <1>8, <1>9, <1>11, <1>16, <1>18 DEF ArrayPage
<1>21. Sound(ql) /\ RecsOf(ql) = NoRecs /\ KidsOf(ql) = [KidsOf(left) EXCEPT ![sep] = KidsOf(right)[0]]
  BY <1>14, <1>19, SoundInternal
<1>22. /\ Sound(qr) /\ RecsOf(qr) = NoRecs
       /\ KidsOf(qr) = [[KidsOf(right) EXCEPT ![0] = KidsOf(right)[b]] EXCEPT ![b] = Nil]
  BY <1>15, <1>20, SoundInternal
<1>23. AbsPage(ql) = Family!TookFirst(AbsPage(left), AbsPage(right), sep, b)
  <2> DEFINE taken == [k \in Key |-> IF sep <= k /\ k < b THEN RecsOf(right)[k] ELSE RecsOf(left)[k]]
  <2>1. RecsOf(ql) = taken
    <3>1. NoRecs = [k \in Key |-> IF sep <= k /\ k < b THEN NoRecs[k] ELSE NoRecs[k]]
      BY DEF NoRecs
    <3>2. QED
      BY ONLY <1>1, <1>21, <3>1
  <2>2. Fenced(ql, left, left.low, b)
    BY <1>19 DEF Fenced
  <2>3. IsTookFirst(ql, left, right, sep, b)
    BY ONLY <1>21, <2>1, <2>2, Zenon DEF IsTookFirst, taken
  <2>4. QED
    BY <2>3, TookFirstFields
<1>24. AbsPage(qr) = Family!LentFirst(AbsPage(right), b)
  <2> DEFINE kept == [k \in Key |-> IF k < b THEN NoVal ELSE RecsOf(right)[k]]
  <2>1. RecsOf(qr) = kept
    <3>1. NoRecs = [k \in Key |-> IF k < b THEN NoVal ELSE NoRecs[k]]
      BY DEF NoRecs
    <3>2. QED
      BY ONLY <1>1, <1>22, <3>1
  <2>2. Fenced(qr, right, b, right.high)
    BY <1>0, <1>20 DEF Fenced
  <2>3. IsLentFirst(qr, right, b)
    BY ONLY <1>22, <2>1, <2>2, Zenon DEF IsLentFirst, kept
  <2>4. QED
    BY <2>3, LentFirstFields
<1>25. Occupancy(ql) <= N /\ Occupancy(qr) <= N
  <2>1. Len(la) = Len(a) + 1 /\ Len(ra) = Len(c) - 1
    BY <1>6, <1>8 DEF IsRemoved, IsInserted
  <2>2. Len(c) <= N /\ Len(a) < N
    BY <1>0
  <2>3. QED
    BY <1>2, <1>3, <1>19, <1>20, <2>1, <2>2, ArraysAssumption DEF Occupancy, IsLeaf
<1>26. QED
  BY <1>10, <1>11, <1>17, <1>18, <1>21, <1>22, <1>23, <1>24, <1>25 DEF Lends, lent

-----------------------------------------------------------------------------
(***************************************************************************)
(* merge_left_into_right.                                                  *)
(***************************************************************************)
\* left becomes a redirect to ref, and right holds what both held.
Merges(left, right, ref, sep) ==
  /\ Sound(RetiredLeft(left, ref)) /\ Occupancy(RetiredLeft(left, ref)) <= N
  /\ AbsPage(RetiredLeft(left, ref)) = Family!Retired(AbsPage(left), ref)
  /\ Sound(MergedIntoRight(sep, left, right)) /\ Occupancy(MergedIntoRight(sep, left, right)) <= N
  /\ AbsPage(MergedIntoRight(sep, left, right))
       = Family!Survivor(AbsPage(left), AbsPage(right), sep)

LEMMA RetiredIs ==
  ASSUME NEW left, Sound(left), NEW ref \in Page
  PROVE  LET q == RetiredLeft(left, ref)
         IN  Sound(q) /\ Occupancy(q) <= N /\ AbsPage(q) = Family!Retired(AbsPage(left), ref)
<1>0. PICK q : q = RetiredLeft(left, ref)
  OBVIOUS
<1>1. left \in ArrayPage /\ ref \in 0..MaxPages
  BY ArraysAssumption DEF Sound, Page
<1>2. /\ q.kind = "redirect" /\ q.isRoot = left.isRoot /\ q.low = 0 /\ q.high = left.high
      /\ q.prev = left.prev /\ q.right = left.right /\ q.target = ref
      /\ q.entries = <<>> /\ q.keys = <<>> /\ q.children = <<>> /\ q \in ArrayPage
  <2>1. q = [left EXCEPT !.kind = "redirect", !.target = ref, !.low = 0,
                         !.entries = <<>>, !.keys = <<>>, !.children = <<>>]
    BY <1>0 DEF RetiredLeft, NegInf
  <2>2. "redirect" \in {"free", "leaf", "internal", "redirect"} /\ 0 \in 0..MaxKey
    BY SlotTypes
  <2>3. <<>> \in Seq(Entry) /\ <<>> \in Seq(Key) /\ <<>> \in Seq(Page)
    OBVIOUS
  <2>4. QED
    BY ONLY <1>1, <2>1, <2>2, <2>3 DEF ArrayPage
<1>3. Sound(q) /\ RecsOf(q) = NoRecs /\ KidsOf(q) = NoKids
  BY <1>2, SoundEmpty
<1>4. Occupancy(q) <= N
  BY <1>2, ArraysAssumption DEF Occupancy, IsLeaf
<1>5. Family!Retired(AbsPage(left), ref)
        = [AbsPage(left) EXCEPT !.kind = "redirect", !.target = ref, !.low = 0,
                                !.recs = NoRecs, !.kids = NoKids]
  <2>1. Family!NoRecs = NoRecs /\ Family!NoKids = NoKids /\ Family!NegInf = 0
    BY DEF Family!NoRecs, NoRecs, Family!NoKids, NoKids, Family!Key, Key, Family!Slot, Family!Nil, Nil,
           Family!NegInf
  <2>2. QED
    BY <2>1 DEF Family!Retired
<1>6. AbsPage(q) = Family!Retired(AbsPage(left), ref)
  BY ONLY ZenonT(30), <1>2, <1>3, <1>5, AbsFields
<1>7. QED
  BY <1>0, <1>3, <1>4, <1>6

IsSurvivor(q, left, right, sep) ==
  /\ q.kind = right.kind /\ q.isRoot = right.isRoot /\ q.low = left.low /\ q.high = right.high
  /\ q.prev = left.prev /\ q.right = right.right /\ q.target = right.target
  /\ RecsOf(q) = [k \in Key |-> IF k < sep THEN RecsOf(left)[k] ELSE RecsOf(right)[k]]
  /\ KidsOf(q) = Fused(KidsOf(left), KidsOf(right), sep)

LEMMA SurvivorFields ==
  ASSUME NEW left, NEW right, NEW q, NEW sep, IsSurvivor(q, left, right, sep)
  PROVE  AbsPage(q) = Family!Survivor(AbsPage(left), AbsPage(right), sep)
<1>1. Family!Survivor(AbsPage(left), AbsPage(right), sep)
        = [AbsPage(right) EXCEPT !.recs = RecsOf(q), !.kids = KidsOf(q),
                                 !.low = left.low, !.prev = left.prev]
  <2>1. RecsOf(q) = [k \in Key |-> IF k < sep THEN AbsPage(left).recs[k] ELSE AbsPage(right).recs[k]]
    BY AbsParts DEF IsSurvivor
  <2>2. KidsOf(q) = [s \in 0..MaxKey |-> IF s < sep THEN AbsPage(left).kids[s]
                                         ELSE IF s = sep THEN AbsPage(right).kids[0]
                                         ELSE AbsPage(right).kids[s]]
    BY AbsParts DEF IsSurvivor, Fused
  <2>3. AbsPage(left).low = left.low /\ AbsPage(left).prev = left.prev
    BY AbsParts
  <2>4. QED
    BY ONLY <2>1, <2>2, <2>3 DEF Family!Survivor, Family!NegInf, Family!Key, Key, Family!Slot
<1>2. /\ q.kind = right.kind /\ q.isRoot = right.isRoot /\ q.low = left.low /\ q.high = right.high
      /\ q.prev = left.prev /\ q.right = right.right /\ q.target = right.target
  BY DEF IsSurvivor
<1>3. PICK survivor : survivor = Family!Survivor(AbsPage(left), AbsPage(right), sep)
  OBVIOUS
<1>4. survivor = [AbsPage(right) EXCEPT !.recs = RecsOf(q), !.kids = KidsOf(q),
                                        !.low = left.low, !.prev = left.prev]
  BY <1>1, <1>3
<1>5. AbsPage(q) = survivor
  BY ONLY <1>2, <1>4, AbsFields
<1>6. QED
  BY <1>3, <1>5

LEMMA LeafMerges ==
  ASSUME NEW left, NEW right, NEW sep, Neighbours(left, right, sep), left.kind = "leaf",
         Len(ColumnOf(left)) <= N \div 2, Len(ColumnOf(right)) <= N \div 2, NEW ref \in Page
  PROVE  Merges(left, right, ref, sep)
<1> DEFINE le == left.entries
           re == right.entries
           a  == KeysIn(le)
           c  == KeysIn(re)
<1>0. /\ Sound(left) /\ Sound(right) /\ right.kind = "leaf" /\ sep \in Key /\ sep \in Nat
      /\ ColumnOf(left) = a /\ ColumnOf(right) = c
      /\ \A i \in 1..Len(a) : a[i] < sep
      /\ \A i \in 1..Len(c) : sep <= c[i]
  BY KeyTypes DEF Neighbours, Holder, ColumnOf, IsLeaf
<1>1. /\ left \in ArrayPage /\ Holds(le, RecsOf(left)) /\ KidsOf(left) = NoKids
      /\ right \in ArrayPage /\ Holds(re, RecsOf(right)) /\ KidsOf(right) = NoKids
      /\ right.keys = <<>> /\ right.children = <<>>
  BY <1>0 DEF Sound
<1>2. /\ le \in Seq(Entry) /\ Len(a) = Len(le) /\ Len(le) \in Nat
      /\ re \in Seq(Entry) /\ Len(c) = Len(re) /\ Len(re) \in Nat
  BY <1>1, EntryColumns DEF Holds
<1> DEFINE r == le \o re
<1>3. r \in Seq(Entry) /\ IsJoined(r, le, re)
  BY <1>2, Joined
<1>4. PICK q : q = MergedIntoRight(sep, left, right)
  OBVIOUS
<1>5. q = [[right EXCEPT !.entries = r] EXCEPT !.low = left.low, !.prev = left.prev]
  BY <1>4 DEF MergedIntoRight, IsLeaf
<1> DEFINE f == [k \in Key |-> IF k < sep THEN RecsOf(left)[k] ELSE RecsOf(right)[k]]
<1> HIDE DEF le, re, a, c, r, f
<1>6. Holds(r, f)
  <2>1. Splits(KeysIn(le), KeysIn(re), sep)
    BY <1>0 DEF Splits, a, c
  <2>2. QED
    BY ONLY <1>0, <1>1, <1>3, <2>1, StoreJoins DEF f
<1>7. /\ q \in ArrayPage /\ q.kind = "leaf" /\ q.entries = r /\ q.keys = <<>> /\ q.children = <<>>
      /\ q.isRoot = right.isRoot /\ q.low = left.low /\ q.high = right.high
      /\ q.prev = left.prev /\ q.right = right.right /\ q.target = right.target
  BY <1>0, <1>1, <1>3, <1>5 DEF ArrayPage
<1>8. Sound(q) /\ RecsOf(q) = f /\ KidsOf(q) = NoKids
  BY <1>6, <1>7, SoundLeaf
<1>9. AbsPage(q) = Family!Survivor(AbsPage(left), AbsPage(right), sep)
  <2>1. Fused(NoKids, NoKids, sep) = NoKids
    BY SlotTypes DEF Fused, NoKids
  <2>2. KidsOf(q) = Fused(KidsOf(left), KidsOf(right), sep)
    BY ONLY <1>1, <1>8, <2>1
  <2>3. q.kind = right.kind
    BY <1>0, <1>7
  <2>4. IsSurvivor(q, left, right, sep)
    BY ONLY <1>7, <1>8, <2>2, <2>3, Zenon DEF IsSurvivor, f
  <2>5. QED
    BY <2>4, SurvivorFields
<1>10. Occupancy(q) <= N
  <2>1. Len(r) = Len(le) + Len(re)
    BY <1>3 DEF IsJoined
  <2>2. Len(le) <= N \div 2 /\ Len(re) <= N \div 2
    BY <1>0, <1>2
  <2>3. QED
    BY <1>2, <1>7, <2>1, <2>2, ArraysAssumption DEF Occupancy, IsLeaf
<1>11. QED
  BY <1>0, <1>4, <1>8, <1>9, <1>10, RetiredIs DEF Merges

LEMMA InternalMerges ==
  ASSUME NEW left, NEW right, NEW sep, Neighbours(left, right, sep), left.kind = "internal",
         Len(ColumnOf(left)) <= (N - 1) \div 2, Len(ColumnOf(right)) <= (N - 1) \div 2, NEW ref \in Page
  PROVE  Merges(left, right, ref, sep)
<1> DEFINE a  == left.keys
           lc == left.children
           c  == right.keys
           rc == right.children
<1>0. /\ Sound(left) /\ Sound(right) /\ right.kind = "internal" /\ sep \in Key
      /\ ColumnOf(left) = a /\ ColumnOf(right) = c /\ Apart(lc, rc)
      /\ \A i \in 1..Len(a) : a[i] < sep
      /\ \A i \in 1..Len(c) : sep < c[i]
  BY DEF Neighbours, Holder, ColumnOf, IsLeaf
<1>1. /\ left \in ArrayPage /\ Branches(a, lc, KidsOf(left)) /\ RecsOf(left) = NoRecs
      /\ right \in ArrayPage /\ Branches(c, rc, KidsOf(right)) /\ RecsOf(right) = NoRecs
      /\ right.entries = <<>>
  BY <1>0 DEF Sound
<1>2. /\ a \in Seq(Key) /\ lc \in Seq(Page) /\ Len(a) \in Nat
      /\ c \in Seq(Key) /\ rc \in Seq(Page) /\ Len(c) \in Nat
  BY <1>0, InternalFacts
<1> DEFINE u == a \o <<sep>>
           r == u \o c
           t == lc \o rc
<1>3. u \in Seq(Key) /\ IsInserted(u, a, Len(a), sep)
  <2>1. u = Append(a, sep)
    BY <1>0, <1>2
  <2> HIDE DEF u
  <2>2. QED
    BY ONLY <1>0, <1>2, <2>1, Appended
<1> HIDE DEF u
<1>4. r \in Seq(Key) /\ IsJoined(r, u, c) /\ t \in Seq(Page) /\ IsJoined(t, lc, rc)
  BY <1>2, <1>3, Joined
<1>5. PICK q : q = MergedIntoRight(sep, left, right)
  OBVIOUS
<1>6. q = [[right EXCEPT !.keys = r, !.children = t] EXCEPT !.low = left.low, !.prev = left.prev]
  BY <1>0, <1>5 DEF MergedIntoRight, IsLeaf, u
<1> HIDE DEF a, lc, c, rc, r, t
<1>7. Branches(r, t, Fused(KidsOf(left), KidsOf(right), sep))
  BY ONLY <1>0, <1>1, <1>3, <1>4, BranchJoined
<1>8. /\ q \in ArrayPage /\ q.kind = "internal" /\ q.entries = <<>> /\ q.keys = r /\ q.children = t
      /\ q.isRoot = right.isRoot /\ q.low = left.low /\ q.high = right.high
      /\ q.prev = left.prev /\ q.right = right.right /\ q.target = right.target
  BY <1>0, <1>1, <1>4, <1>6 DEF ArrayPage
<1>9. Sound(q) /\ RecsOf(q) = NoRecs /\ KidsOf(q) = Fused(KidsOf(left), KidsOf(right), sep)
  BY <1>7, <1>8, SoundInternal
<1>10. AbsPage(q) = Family!Survivor(AbsPage(left), AbsPage(right), sep)
  <2> DEFINE f == [k \in Key |-> IF k < sep THEN RecsOf(left)[k] ELSE RecsOf(right)[k]]
  <2>1. RecsOf(q) = f
    <3>1. NoRecs = [k \in Key |-> IF k < sep THEN NoRecs[k] ELSE NoRecs[k]]
      BY DEF NoRecs
    <3>2. QED
      BY ONLY <1>1, <1>9, <3>1
  <2>2. q.kind = right.kind
    BY <1>0, <1>8
  <2>3. IsSurvivor(q, left, right, sep)
    BY ONLY <1>8, <1>9, <2>1, <2>2, Zenon DEF IsSurvivor, f
  <2>4. QED
    BY <2>3, SurvivorFields
<1>11. Occupancy(q) <= N
  <2>1. Len(r) = Len(u) + Len(c) /\ Len(u) = Len(a) + 1
    BY <1>3, <1>4 DEF IsJoined, IsInserted
  <2>2. Len(a) <= (N - 1) \div 2 /\ Len(c) <= (N - 1) \div 2
    BY <1>0
  <2>3. QED
    BY <1>2, <1>8, <2>1, <2>2, ArraysAssumption DEF Occupancy, IsLeaf
<1>12. QED
  BY <1>0, <1>5, <1>9, <1>10, <1>11, RetiredIs DEF Merges

-----------------------------------------------------------------------------
(***************************************************************************)
(* The families a behaviour may begin with.                                *)
(***************************************************************************)
Rank(S, k) == Cardinality({x \in S : x < k})

LEMMA RankFacts ==
  ASSUME NEW S, S \subseteq Key
  PROVE  /\ IsFiniteSet(S) /\ Cardinality(S) \in Nat
         /\ \A k \in S : Rank(S, k) \in 0..(Cardinality(S) - 1)
         /\ \A k, l \in S : k < l => Rank(S, k) < Rank(S, l)
<1>1. IsFiniteSet(Key)
  BY KeyTypes, FS_Interval DEF Key
<1>2. IsFiniteSet(S)
  BY <1>1, FS_Subset
<1>3. Cardinality(S) \in Nat
  BY <1>2, FS_CardinalityType
<1>4. \A k \in S : k \in Nat
  BY KeyTypes
<1>5. ASSUME NEW k \in S PROVE IsFiniteSet({x \in S : x < k}) /\ Rank(S, k) \in Nat
  <2>1. IsFiniteSet({x \in S : x < k})
    BY <1>2, FS_Subset
  <2>2. QED
    BY <2>1, FS_CardinalityType DEF Rank
<1>6. ASSUME NEW k \in S, NEW T, IsFiniteSet(T), {x \in S : x < k} \subseteq T, k \in T
      PROVE  Rank(S, k) < Cardinality(T)
  <2>1. {x \in S : x < k} # T
    BY <1>4, <1>6
  <2>2. Rank(S, k) <= Cardinality(T) /\ Rank(S, k) # Cardinality(T)
    BY <1>6, <2>1, FS_Subset DEF Rank
  <2>3. Cardinality(T) \in Nat
    BY <1>6, FS_CardinalityType
  <2>4. Rank(S, k) \in Nat
    BY <1>5, <1>6
  <2>5. QED
    BY ONLY <2>2, <2>3, <2>4
<1>7. ASSUME NEW k \in S PROVE Rank(S, k) \in 0..(Cardinality(S) - 1)
  <2>1. {x \in S : x < k} \subseteq S
    OBVIOUS
  <2>2. Rank(S, k) < Cardinality(S)
    BY <1>2, <1>6, <1>7, <2>1
  <2>3. Rank(S, k) \in Nat
    BY <1>5, <1>7
  <2>4. QED
    BY ONLY <1>3, <2>2, <2>3
<1>8. ASSUME NEW k \in S, NEW l \in S, k < l PROVE Rank(S, k) < Rank(S, l)
  <2>1. {x \in S : x < k} \subseteq {x \in S : x < l} /\ k \in {x \in S : x < l}
    BY <1>4, <1>8
  <2>2. QED
    BY <1>5, <1>6, <2>1 DEF Rank
<1>9. QED
  BY <1>2, <1>3, <1>7, <1>8

LEMMA SortedIs ==
  ASSUME NEW S, S \subseteq Key
  PROVE  Column(Sorted(S)) /\ Len(Sorted(S)) = Cardinality(S) /\ Elements(Sorted(S)) = S
         /\ Cardinality(S) \in Nat
<1> DEFINE n == Cardinality(S)
           f == [k \in S |-> Rank(S, k) + 1]
           a == Sorted(S)
<1>1. /\ IsFiniteSet(S) /\ n \in Nat
      /\ \A k \in S : Rank(S, k) \in 0..(n - 1) /\ k \in Nat
      /\ \A k, l \in S : k < l => Rank(S, k) < Rank(S, l)
  BY RankFacts, KeyTypes
<1>2. f \in Surjection(S, 1..n)
  <2>1. f \in [S -> 1..n]
    BY <1>1
  <2>2. ASSUME NEW k \in S, NEW l \in S, f[k] = f[l] PROVE k = l
    <3>1. Rank(S, k) = Rank(S, l)
      BY <1>1, <2>2
    <3>2. ~(k < l) /\ ~(l < k)
      BY <1>1, <3>1
    <3>3. QED
      BY <1>1, <3>2
  <2> HIDE DEF f
  <2>3. f \in Injection(S, 1..n)
    BY <2>1, <2>2 DEF Injection, IsInjective
  <2>4. IsFiniteSet(1..n) /\ Cardinality(1..n) = n
    BY <1>1, FS_Interval
  <2>5. QED
    BY <2>3, <2>4, FS_Injection
<1>3. ASSUME NEW i \in 1..n PROVE \E k \in S : Rank(S, k) = i - 1
  <2>1. PICK k \in S : f[k] = i
    BY <1>2 DEF Surjection
  <2>2. QED
    BY <1>1, <2>1
<1>4. a = [i \in 1..n |-> CHOOSE k \in S : Rank(S, k) = i - 1]
  BY DEF Sorted, Rank
<1>5. ASSUME NEW i \in 1..n PROVE a[i] \in S /\ Rank(S, a[i]) = i - 1
  BY <1>3, <1>4
<1>6. Len(a) = n /\ DOMAIN a = 1..n
  BY <1>1, <1>4
<1>7. a \in Seq(Key)
  <2>1. \A i \in 1..n : a[i] \in Key
    BY <1>5
  <2>2. a = [i \in 1..n |-> a[i]]
    BY <1>4
  <2> HIDE DEF a
  <2>3. QED
    BY <1>1, <2>1, <2>2
<1> HIDE DEF a, n, f
<1>8. ASSUME NEW i \in 1..n, NEW j \in 1..n, i < j PROVE a[i] < a[j]
  <2>1. a[i] \in S /\ a[j] \in S /\ Rank(S, a[i]) = i - 1 /\ Rank(S, a[j]) = j - 1
    BY <1>5
  <2>2. ~(a[j] < a[i]) /\ a[i] # a[j]
    <3>1. ASSUME a[j] < a[i] PROVE FALSE
      <4>1. j - 1 < i - 1
        BY <1>1, <2>1, <3>1
      <4>2. QED
        BY <1>1, <1>8, <4>1
    <3>2. a[i] # a[j]
      BY <1>1, <1>8, <2>1
    <3>3. QED
      BY <3>1, <3>2
  <2>3. QED
    BY <1>1, <2>1, <2>2
<1>9. Elements(a) = S
  <2>1. Elements(a) \subseteq S
    BY <1>5, <1>6 DEF Elements
  <2>2. ASSUME NEW k \in S PROVE k \in Elements(a)
    <3>1. PICK i \in 1..n : i = Rank(S, k) + 1
      BY <1>1
    <3>2. a[i] \in S /\ Rank(S, a[i]) = Rank(S, k)
      BY <1>1, <1>5, <3>1
    <3>3. ~(a[i] < k) /\ ~(k < a[i])
      BY <1>1, <3>2
    <3>4. a[i] = k
      BY <1>1, <3>2, <3>3
    <3>5. QED
      BY <1>6, <3>4 DEF Elements
  <2>3. QED
    BY <2>1, <2>2
<1>10. QED
  BY <1>1, <1>6, <1>7, <1>8, <1>9 DEF Column, Climbs, a, n

-----------------------------------------------------------------------------
(***************************************************************************)
(* The invariant.  Every page is sound and within capacity in every state; *)
(* until the one change, the children stand side by side between the       *)
(* parent's separators, hold no fewer than their minimum, and share no     *)
(* page.                                                                   *)
(***************************************************************************)
\* Every page of d is sound and holds at most N records or separators.
Filled(d) == /\ d = [p \in Page |-> d[p]]
             /\ \A p \in Page : Sound(d[p]) /\ Occupancy(d[p]) <= N

Pages == Sound(up) /\ up.kind = "internal" /\ Len(up.keys) <= N /\ Filled(down)

Fence(i) == IF i = 0 THEN 0 ELSE IF i = Len(up.children) THEN MaxKey + 1 ELSE up.keys[i]
Kid(i)   == down[up.children[i]]

\* The keys of pg are between these fences, and above the lower one if they
\* are separators.
Between(pg, low, high) ==
  /\ pg.low = low /\ pg.high = high
  /\ \A j \in 1..Len(ColumnOf(pg)) :
       /\ low <= ColumnOf(pg)[j] /\ ColumnOf(pg)[j] < high
       /\ pg.kind = "internal" => low < ColumnOf(pg)[j]

\* The i-th child from the left stands where the separators beside it say, holds
\* its minimum, and shares no child with its right neighbour.
Standing(i) ==
  /\ Kid(i).kind \in {"leaf", "internal"} /\ Kid(i).kind = Kid(1).kind
  /\ Minimum(Kid(i)) <= Occupancy(Kid(i))
  /\ Between(Kid(i), Fence(i - 1), Fence(i))
  /\ up.children[i] # MaxPages
  /\ \A j \in 1..Len(Kid(i).children) : Kid(i).children[j] # MaxPages
  /\ i < Len(up.children) => Apart(Kid(i).children, Kid(i + 1).children)

Unmoved ==
  /\ up.isRoot /\ up.low = 0 /\ up.high = MaxKey + 1 /\ Len(up.keys) # 0
  /\ \A i \in 1..Len(up.children) : Standing(i)
  /\ down[MaxPages].kind = "free"

IInv == Pages /\ moved \in BOOLEAN /\ (~moved => Unmoved)

AbsDown(d) == [p \in Page |-> AbsPage(d[p])]

LEMMA OnePage ==
  ASSUME NEW d, Filled(d), NEW p \in Page, NEW q, Sound(q), Occupancy(q) <= N,
         NEW e, e = [d EXCEPT ![p] = q]
  PROVE  Filled(e) /\ AbsDown(e) = [AbsDown(d) EXCEPT ![p] = AbsPage(q)]
<1>1. e = [x \in Page |-> IF x = p THEN q ELSE d[x]]
  BY DEF Filled
<1>2. Filled(e)
  <2>1. \A x \in Page : e[x] = IF x = p THEN q ELSE d[x]
    BY <1>1
  <2>2. e = [x \in Page |-> e[x]]
    BY <1>1
  <2>3. QED
    BY <2>1, <2>2 DEF Filled
<1>3. AbsDown(e) = [AbsDown(d) EXCEPT ![p] = AbsPage(q)]
  <2>1. \A x \in Page : AbsPage(e[x]) = IF x = p THEN AbsPage(q) ELSE AbsPage(d[x])
    BY <1>1
  <2>2. QED
    BY ONLY <2>1 DEF AbsDown
<1>4. QED
  BY <1>2, <1>3

\* e is d with q for p, and then t for r.
Puts(e, d, p, q, r, t) == e = [d EXCEPT ![p] = q, ![r] = t]

LEMMA TwoPages ==
  ASSUME NEW d, Filled(d), NEW p \in Page, NEW q, Sound(q), Occupancy(q) <= N,
         NEW r \in Page, NEW t, Sound(t), Occupancy(t) <= N, NEW e, Puts(e, d, p, q, r, t)
  PROVE  Filled(e) /\ Puts(AbsDown(e), AbsDown(d), p, AbsPage(q), r, AbsPage(t))
<1>1. PICK c : c = [d EXCEPT ![p] = q]
  OBVIOUS
<1>2. Filled(c) /\ AbsDown(c) = [AbsDown(d) EXCEPT ![p] = AbsPage(q)]
  BY <1>1, OnePage
<1>3. Filled(c)
  BY <1>2
<1>4. e = [c EXCEPT ![r] = t]
  BY <1>1 DEF Puts
<1>5. Filled(e) /\ AbsDown(e) = [AbsDown(c) EXCEPT ![r] = AbsPage(t)]
  BY ONLY <1>3, <1>4, Sound(t), Occupancy(t) <= N, r \in Page, OnePage
<1>6. QED
  BY <1>2, <1>5 DEF Puts

\* The child for a key, and the boundary beside it, as an index and as a slot.
LEMMA SlotIs ==
  ASSUME NEW pg, Sound(pg), pg.kind = "internal", NEW k \in Key
  PROVE  /\ ChildIndex(pg, k) \in 0..Len(pg.keys) /\ Ranks(pg.keys, k, ChildIndex(pg, k))
         /\ Family!ChildSlot(AbsPage(pg), k) = SlotOf(pg.keys, ChildIndex(pg, k))
<1>1. Branches(pg.keys, pg.children, KidsOf(pg)) /\ pg.keys \in Seq(Key)
  BY InternalFacts
<1>2. pg.keys \in Seq(Nat) /\ Climbs(pg.keys) /\ k \in Int
  BY <1>1, KeyTypes, SeqMonotonic DEF Branches, Column
<1>3. Ranks(pg.keys, k, ChildIndex(pg, k))
  BY <1>2, ChildIndexRanks
<1>4. ChildIndex(pg, k) \in 0..Len(pg.keys)
  BY <1>3 DEF Ranks
<1>5. QED
  BY <1>3, <1>4, SlotsAre

BesideIndex(pg, k) == IF ChildIndex(pg, k) > 0 THEN ChildIndex(pg, k) - 1 ELSE 0

LEMMA BoundaryIs ==
  ASSUME NEW pg, Sound(pg), pg.kind = "internal", NEW k \in Key, Len(pg.keys) # 0
  PROVE  /\ BesideIndex(pg, k) \in 0..(Len(pg.keys) - 1)
         /\ Family!Boundary(AbsPage(pg), k) = pg.keys[BesideIndex(pg, k) + 1]
<1> DEFINE c == ChildIndex(pg, k)
<1>1. c \in 0..Len(pg.keys) /\ Family!ChildSlot(AbsPage(pg), k) = SlotOf(pg.keys, c)
  BY SlotIs
<1>2. Len(pg.keys) \in Nat /\ \A i \in 1..Len(pg.keys) : pg.keys[i] \in Key
  BY InternalFacts
<1>3. BesideIndex(pg, k) = IF c > 0 THEN c - 1 ELSE 0
  BY DEF BesideIndex
<1> HIDE DEF c
<1>4. BesideIndex(pg, k) \in 0..(Len(pg.keys) - 1)
  BY <1>1, <1>2, <1>3
<1>5. CASE c = 0
  <2>1. Family!ChildSlot(AbsPage(pg), k) = 0 /\ BesideIndex(pg, k) = 0
    BY <1>1, <1>3, <1>5 DEF SlotOf
  <2>2. Family!NextSlot(AbsPage(pg), SlotOf(pg.keys, 0))
          = IF 0 = Len(pg.keys) THEN MaxKey + 1 ELSE pg.keys[0 + 1]
    BY <1>2, SlotsAre
  <2>3. Family!NextSlot(AbsPage(pg), 0) = pg.keys[1]
    BY <2>2 DEF SlotOf
  <2>4. QED
    BY <1>4, <2>1, <2>3 DEF Family!Boundary, Family!NegInf
<1>6. CASE c # 0
  <2>1. BesideIndex(pg, k) + 1 = c /\ c \in 1..Len(pg.keys)
    BY <1>1, <1>2, <1>3, <1>6
  <2>2. Family!ChildSlot(AbsPage(pg), k) = pg.keys[c] /\ pg.keys[c] # 0
    BY <1>1, <1>2, <1>6, <2>1, KeyTypes DEF SlotOf
  <2>3. QED
    BY <1>4, <2>1, <2>2 DEF Family!Boundary, Family!NegInf
<1>7. QED
  BY <1>5, <1>6

LEMMA HomeIs ==
  ASSUME Pages, NEW k \in Key
  PROVE  /\ HomeIndex(k) \in 0..Len(up.keys) /\ Ranks(up.keys, k, HomeIndex(k))
         /\ HomeIndex(k) + 1 \in 1..Len(up.children)
         /\ HomeRef(k) = up.children[HomeIndex(k) + 1] /\ HomeRef(k) \in Page
         /\ Family!ChildSlot(AbsPage(up), k) = SlotOf(up.keys, HomeIndex(k))
         /\ Family!Home(k) = HomeRef(k)
<1>0. Sound(up) /\ up.kind = "internal"
  BY DEF Pages
<1>1. /\ Branches(up.keys, up.children, KidsOf(up))
      /\ up.keys \in Seq(Key) /\ up.children \in Seq(Page)
      /\ Len(up.keys) \in Nat /\ Len(up.children) = Len(up.keys) + 1
      /\ AbsPage(up).kids = KidsOf(up) /\ KidsOf(up)[0] = up.children[1]
      /\ \A i \in 1..Len(up.keys) : KidsOf(up)[up.keys[i]] = up.children[i + 1]
  BY <1>0, InternalFacts
<1>3. Ranks(up.keys, k, HomeIndex(k)) /\ HomeIndex(k) \in 0..Len(up.keys)
  BY <1>0, SlotIs DEF HomeIndex
<1>5. Family!ChildSlot(AbsPage(up), k) = SlotOf(up.keys, HomeIndex(k))
  BY <1>0, SlotIs DEF HomeIndex
<1>6. HomeIndex(k) + 1 \in 1..Len(up.children)
  BY <1>1, <1>3
<1>7. HomeRef(k) = up.children[HomeIndex(k) + 1] /\ HomeRef(k) \in Page
  BY <1>1, <1>6 DEF HomeRef, At
<1>8. KidsOf(up)[SlotOf(up.keys, HomeIndex(k))] = up.children[HomeIndex(k) + 1]
  BY SMTT(30), <1>1, <1>3 DEF SlotOf
<1>9. Family!Home(k) = HomeRef(k)
  BY <1>1, <1>5, <1>7, <1>8 DEF Family!Home, Family!Child
<1>10. QED
  BY <1>3, <1>5, <1>6, <1>7, <1>9

LEMMA StandingAt ==
  ASSUME Pages, Unmoved, NEW i \in 1..Len(up.children)
  PROVE  /\ up.children[i] \in Page /\ up.children[i] # MaxPages
         /\ Sound(Kid(i)) /\ Holder(Kid(i)) /\ Occupancy(Kid(i)) <= N /\ Standing(i)
<1>1. Standing(i)
  BY DEF Unmoved
<1>2. up.children[i] \in Page
  <2>1. up.children \in Seq(Page)
    BY InternalFacts DEF Pages
  <2>2. QED
    BY <2>1
<1>3. Sound(Kid(i)) /\ Occupancy(Kid(i)) <= N
  BY <1>2 DEF Pages, Filled, Kid
<1>4. QED
  BY <1>1, <1>2, <1>3 DEF Holder, Standing

LEMMA BetweenAt ==
  ASSUME NEW h \in Nat, NEW i, i = h + 1, Standing(i)
  PROVE  Between(Kid(i), Fence(h), Fence(i))
<1>1. h = i - 1
  OBVIOUS
<1>2. QED
  BY <1>1 DEF Standing

LEMMA UpFacts ==
  ASSUME Pages
  PROVE  /\ Sound(up) /\ up.kind = "internal"
         /\ up.keys \in Seq(Key) /\ up.children \in Seq(Page)
         /\ Len(up.keys) \in Nat /\ Len(up.children) = Len(up.keys) + 1
         /\ AbsPage(up).kids = KidsOf(up) /\ KidsOf(up)[0] = up.children[1]
         /\ \A i \in 1..Len(up.keys) : /\ up.keys[i] \in Key /\ up.keys[i] \in Nat
                                       /\ KidsOf(up)[up.keys[i]] = up.children[i + 1]
         /\ Column(up.keys) /\ Different(up.children)
<1>1. Sound(up) /\ up.kind = "internal"
  BY DEF Pages
<1>2. Column(up.keys) /\ Different(up.children)
  BY <1>1, InternalFacts DEF Branches
<1>3. QED
  BY <1>1, <1>2, InternalFacts

\* The two children beside the boundary that a removal of k looks at.
LEMMA PairIs ==
  ASSUME Pages, NEW k \in Key, Len(up.keys) # 0
  PROVE  /\ PairIndex(k) \in 0..(Len(up.keys) - 1)
         /\ LeftRef(k) = up.children[PairIndex(k) + 1]
         /\ RightRef(k) = up.children[PairIndex(k) + 2]
         /\ At(up.keys, PairIndex(k)) = up.keys[PairIndex(k) + 1]
         /\ Family!Sep(k) = up.keys[PairIndex(k) + 1]
         /\ Family!Left(k) = LeftRef(k) /\ Family!Right(k) = RightRef(k)
<1>1. PairIndex(k) = BesideIndex(up, k)
  BY DEF PairIndex, HomeIndex, BesideIndex
<1>2. PairIndex(k) \in 0..(Len(up.keys) - 1) /\ PairIndex(k) + 1 \in 1..Len(up.keys)
  <2>1. PairIndex(k) \in 0..(Len(up.keys) - 1)
    BY <1>1, UpFacts, BoundaryIs
  <2>2. QED
    BY <2>1, UpFacts
<1>3. /\ LeftRef(k) = up.children[PairIndex(k) + 1]
      /\ RightRef(k) = up.children[PairIndex(k) + 2]
      /\ At(up.keys, PairIndex(k)) = up.keys[PairIndex(k) + 1]
  <2>1. PairIndex(k) + 1 + 1 = PairIndex(k) + 2
    BY <1>2
  <2>2. QED
    BY <2>1 DEF LeftRef, RightRef, At
<1>4. Family!Sep(k) = up.keys[PairIndex(k) + 1]
  BY <1>1, UpFacts, BoundaryIs DEF Family!Sep
<1>5. Family!Right(k) = RightRef(k)
  <2>1. KidsOf(up)[up.keys[PairIndex(k) + 1]] = up.children[PairIndex(k) + 1 + 1]
    BY <1>2, UpFacts
  <2>2. PairIndex(k) + 1 + 1 = PairIndex(k) + 2
    BY <1>2
  <2>3. QED
    BY <1>3, <1>4, <2>1, <2>2, UpFacts DEF Family!Right
<1>6. Family!Left(k) = LeftRef(k)
  <2>1. Family!PrevSlot(AbsPage(up), up.keys[PairIndex(k) + 1]) = SlotBefore(up.keys, PairIndex(k) + 1)
    BY <1>2, UpFacts, SlotsAre
  <2>2. KidsOf(up)[SlotBefore(up.keys, PairIndex(k) + 1)] = up.children[PairIndex(k) + 1]
    <3>1. CASE PairIndex(k) = 0
      BY <3>1, UpFacts DEF SlotBefore
    <3>2. CASE PairIndex(k) # 0
      <4>1. PairIndex(k) \in 1..Len(up.keys) /\ PairIndex(k) + 1 - 1 = PairIndex(k)
            /\ PairIndex(k) + 1 # 1
        BY <1>2, <3>2, UpFacts
      <4>2. SlotBefore(up.keys, PairIndex(k) + 1) = up.keys[PairIndex(k)]
        BY <4>1 DEF SlotBefore
      <4>3. QED
        BY <4>1, <4>2, UpFacts
    <3>3. QED
      BY <3>1, <3>2
  <2>3. QED
    BY <1>3, <1>4, <2>1, <2>2, UpFacts DEF Family!Left
<1>7. QED
  BY <1>2, <1>3, <1>4, <1>5, <1>6

\* Beside the boundary, the two children are neighbours.
LEMMA NeighboursAt ==
  ASSUME Pages, Unmoved, NEW k \in Key
  PROVE  /\ Neighbours(Left(k), Right(k), At(up.keys, PairIndex(k)))
         /\ PairIndex(k) + 1 \in 1..Len(up.children) /\ PairIndex(k) + 2 \in 1..Len(up.children)
         /\ Left(k) = Kid(PairIndex(k) + 1) /\ Right(k) = Kid(PairIndex(k) + 2)
         /\ LeftRef(k) \in Page /\ RightRef(k) \in Page /\ LeftRef(k) # RightRef(k)
         /\ Occupancy(Left(k)) <= N /\ Occupancy(Right(k)) <= N
         /\ Between(Left(k), Fence(PairIndex(k)), Fence(PairIndex(k) + 1))
         /\ Between(Right(k), Fence(PairIndex(k) + 1), Fence(PairIndex(k) + 2))
<1> DEFINE j == PairIndex(k)
           L == Left(k)
           R == Right(k)
           sep == At(up.keys, PairIndex(k))
<1>0. Len(up.keys) # 0
  BY DEF Unmoved
<1>1. /\ j \in 0..(Len(up.keys) - 1) /\ LeftRef(k) = up.children[j + 1]
      /\ RightRef(k) = up.children[j + 2] /\ sep = up.keys[j + 1]
  BY <1>0, PairIs
<1>2. /\ j + 1 \in 1..Len(up.children) /\ j + 2 \in 1..Len(up.children)
      /\ j + 1 \in 1..Len(up.keys) /\ j + 1 < Len(up.children) /\ j + 1 + 1 = j + 2
      /\ j + 2 - 1 = j + 1 /\ j + 1 # 0 /\ j + 1 # Len(up.children)
  <2>1. Len(up.keys) \in Nat /\ Len(up.children) = Len(up.keys) + 1
    BY UpFacts
  <2>2. PICK i : i = PairIndex(k)
    OBVIOUS
  <2>3. i \in 0..(Len(up.keys) - 1)
    BY <1>1, <2>2
  <2>4. QED
    BY ONLY <2>1, <2>2, <2>3 DEF j
<1>3. L = Kid(j + 1) /\ R = Kid(j + 2)
  BY <1>1 DEF Left, Right, Kid
<1>4. /\ LeftRef(k) \in Page /\ RightRef(k) \in Page /\ Holder(L) /\ Holder(R)
      /\ Standing(j + 1) /\ Standing(j + 2)
  BY <1>1, <1>2, <1>3, StandingAt
<1>5. LeftRef(k) # RightRef(k)
  BY SMTT(30), <1>1, <1>2, UpFacts DEF Different
<1>6. Fence(j + 1) = sep /\ sep \in Key
  BY <1>1, <1>2, UpFacts DEF Fence
<1>7. R.kind = L.kind
  BY <1>3, <1>4 DEF Standing
<1>8. Between(L, Fence(j), sep) /\ Between(R, sep, Fence(j + 2))
  <2> HIDE DEF j, L, R, sep
  <2>1. PICK i \in Nat, m \in Nat : i = j + 1 /\ m = j + 2 /\ m = i + 1 /\ j \in Nat
    BY <1>1
  <2>2. Standing(i) /\ Standing(m)
    BY <1>4, <2>1
  <2>3. Between(Kid(i), Fence(j), Fence(i)) /\ Between(Kid(m), Fence(i), Fence(m))
    BY ONLY <2>1, <2>2, BetweenAt
  <2>4. QED
    BY <1>3, <1>6, <2>1, <2>3
<1>9. Apart(L.children, R.children)
  BY <1>2, <1>3, <1>4 DEF Standing
<1>10. /\ \A i \in 1..Len(ColumnOf(L)) : ColumnOf(L)[i] < sep
       /\ \A i \in 1..Len(ColumnOf(R)) :
            sep <= ColumnOf(R)[i] /\ (R.kind = "internal" => sep < ColumnOf(R)[i])
  BY <1>8 DEF Between
<1>11. Neighbours(L, R, sep)
  BY <1>4, <1>6, <1>7, <1>9, <1>10 DEF Neighbours
<1>12. Occupancy(L) <= N /\ Occupancy(R) <= N
  BY <1>2, <1>3, StandingAt
<1>13. QED
  BY <1>2, <1>3, <1>4, <1>5, <1>6, <1>8, <1>11, <1>12

-----------------------------------------------------------------------------
(***************************************************************************)
(* Each change keeps the pages sound, and is the change of PageFamily.     *)
(***************************************************************************)
LEMMA AbsAt ==
  ASSUME NEW d, NEW p \in Page
  PROVE  AbsDown(d)[p] = AbsPage(d[p])
BY DEF AbsDown

LEMMA PageAt ==
  ASSUME Pages, NEW p \in Page
  PROVE  Sound(down[p]) /\ Occupancy(down[p]) <= N
BY DEF Pages, Filled

\* A change of the child for k alone.
LEMMA HomeChanges ==
  ASSUME Pages, NEW k \in Key, NEW q, Sound(q), Occupancy(q) <= N,
         down' = [down EXCEPT ![HomeRef(k)] = q], up' = up
  PROVE  /\ Pages' /\ Family!Home(k) \in Page
         /\ AbsDown(down)[Family!Home(k)] = AbsPage(Home(k))
         /\ AbsDown(down') = [AbsDown(down) EXCEPT ![Family!Home(k)] = AbsPage(q)]
<1>1. HomeRef(k) \in Page /\ Family!Home(k) = HomeRef(k)
  BY HomeIs
<1>2. HomeRef(k) \in Page
  BY <1>1
<1>3. Filled(down)
  BY DEF Pages
<1>4. Filled(down') /\ AbsDown(down') = [AbsDown(down) EXCEPT ![HomeRef(k)] = AbsPage(q)]
  BY ONLY <1>2, <1>3, Sound(q), Occupancy(q) <= N, down' = [down EXCEPT ![HomeRef(k)] = q], OnePage
<1>5. Pages'
  BY <1>4 DEF Pages
<1>6. AbsDown(down)[HomeRef(k)] = AbsPage(Home(k))
  BY <1>1, AbsAt DEF Home
<1>7. QED
  BY <1>1, <1>4, <1>5, <1>6

LEMMA HomeAt ==
  ASSUME Pages, NEW k \in Key
  PROVE  Sound(Home(k)) /\ Occupancy(Home(k)) <= N
BY HomeIs, PageAt DEF Home

LEMMA StoreStep ==
  ASSUME Pages, NEW k \in Key, NEW v \in Val, Store(k, v)
  PROVE  Pages' /\ Family!Store(k, v)
<1> DEFINE pg == Home(k)
           q  == Stored(pg, k, v)
<1>1. Sound(pg) /\ Occupancy(pg) <= N
  BY HomeAt
<1>2. pg.kind = "leaf" /\ (Search(pg, k).found \/ Len(pg.entries) # N)
  BY DEF Store, IsLeaf
<1>3. down' = [down EXCEPT ![HomeRef(k)] = q] /\ up' = up
  BY DEF Store, Home
<1>4. /\ Sound(q) /\ q.kind = "leaf" /\ AbsPage(q) = [AbsPage(pg) EXCEPT !.recs[k] = v]
      /\ Len(q.entries) = IF Search(pg, k).found THEN Len(pg.entries) ELSE Len(pg.entries) + 1
  BY <1>1, <1>2, StoredIs
<1>5. Holder(pg) /\ Len(pg.entries) \in Nat
  BY <1>1, <1>2 DEF Holder, Sound, ArrayPage
<1>6. Occupancy(pg) = Len(pg.entries) /\ Occupancy(q) = Len(q.entries)
  BY <1>2, <1>4 DEF Occupancy, IsLeaf
<1>7. Occupancy(q) <= N
  BY <1>1, <1>2, <1>4, <1>5, <1>6, ArraysAssumption
<1> HIDE DEF q
<1>8. /\ Pages' /\ AbsDown(down)[Family!Home(k)] = AbsPage(pg)
      /\ AbsDown(down') = [AbsDown(down) EXCEPT ![Family!Home(k)] = AbsPage(q)]
  BY <1>3, <1>4, <1>7, HomeChanges
<1>9. AbsDown(down') = [AbsDown(down) EXCEPT ![Family!Home(k)].recs[k] = v]
  BY <1>4, <1>8
<1>10. AbsPage(pg).recs[k] # NoVal \/ ~Family!Full(AbsPage(pg))
  BY <1>1, <1>2, <1>5, <1>6, SearchFinds, ContentsAre DEF RecsOf
<1>11. AbsPage(pg).kind = "leaf"
  BY <1>2, AbsParts
<1>12. Family!Home(k) \in Page
  BY HomeIs
<1>13. QED
  BY <1>3, <1>8, <1>9, <1>10, <1>11, <1>12 DEF Family!Store, AbsDown

LEMMA EraseStep ==
  ASSUME Pages, NEW k \in Key, Erase(k)
  PROVE  Pages' /\ Family!Erase(k)
<1> DEFINE pg == Home(k)
           q  == [pg EXCEPT !.entries = ArrRemove(@, Search(pg, k).index)]
<1>1. Sound(pg) /\ Occupancy(pg) <= N
  BY HomeAt
<1>2. pg.kind = "leaf" /\ Search(pg, k).found /\ ~AtMinimum(pg)
  BY DEF Erase, IsLeaf
<1>3. down' = [down EXCEPT ![HomeRef(k)] = q] /\ up' = up
  BY DEF Erase, Home
<1>4. /\ Sound(q) /\ q.kind = "leaf" /\ AbsPage(q) = [AbsPage(pg) EXCEPT !.recs[k] = NoVal]
      /\ Len(q.entries) = Len(pg.entries) - 1
  BY <1>1, <1>2, ErasedIs
<1>5. Holder(pg) /\ Len(pg.entries) \in Nat
  BY <1>1, <1>2 DEF Holder, Sound, ArrayPage
<1>6. Occupancy(pg) = Len(pg.entries) /\ Occupancy(q) = Len(q.entries)
  BY <1>2, <1>4 DEF Occupancy, IsLeaf
<1>7. Occupancy(q) <= N
  BY <1>1, <1>4, <1>5, <1>6, ArraysAssumption
<1> HIDE DEF q
<1>8. /\ Pages' /\ AbsDown(down)[Family!Home(k)] = AbsPage(pg)
      /\ AbsDown(down') = [AbsDown(down) EXCEPT ![Family!Home(k)] = AbsPage(q)]
  BY <1>3, <1>4, <1>7, HomeChanges
<1>9. AbsDown(down') = [AbsDown(down) EXCEPT ![Family!Home(k)].recs[k] = NoVal]
  BY <1>4, <1>8
<1>10. ~Family!AtMinimum(AbsPage(pg))
  BY <1>2, <1>5, ContentsAre
<1>11. AbsPage(pg).kind = "leaf"
  BY <1>2, AbsParts
<1>12. Family!Home(k) \in Page
  BY HomeIs
<1>13. QED
  BY <1>3, <1>8, <1>9, <1>10, <1>11, <1>12 DEF Family!Erase, AbsDown

LEMMA LearnSplitStep ==
  ASSUME Pages, Unmoved, NEW k \in Key, LearnSplit(k, Fresh)
  PROVE  Pages' /\ Family!LearnSplit(k, Fresh)
<1> DEFINE pg == Home(k)
           c  == ChildIndex(pg, k)
           q  == InsertSplit(pg, c, k, Fresh)
<1>1. Sound(pg) /\ Occupancy(pg) <= N
  BY HomeAt
<1>2. pg.kind = "internal" /\ k \notin ToSet(pg.keys) \cup {pg.low} /\ Occupancy(pg) # N
  BY DEF LearnSplit
<1>3. down' = [down EXCEPT ![HomeRef(k)] = q] /\ up' = up
  BY DEF LearnSplit, Home
<1>4. /\ pg.keys \in Seq(Key) /\ Len(pg.keys) \in Nat
      /\ \A i \in 1..Len(pg.keys) : pg.keys[i] \in Nat
  BY <1>1, <1>2, InternalFacts
<1>5. \A i \in 1..Len(pg.keys) : pg.keys[i] # k
  BY <1>2, <1>4 DEF ToSet
<1>6. Fits(pg.keys, c, k)
  <2>1. Ranks(pg.keys, k, c)
    BY <1>1, <1>2, SlotIs
  <2>2. k \in Nat
    BY KeyTypes
  <2> HIDE DEF c
  <2>3. c \in 0..Len(pg.keys) /\ \A i \in 1..Len(pg.keys) : pg.keys[i] <= k <=> i <= c
    BY <2>1 DEF Ranks
  <2>4. ASSUME NEW i \in 1..c PROVE pg.keys[i] < k
    <3>1. i \in 1..Len(pg.keys) /\ i <= c
      BY <1>4, <2>3, <2>4
    <3>2. QED
      BY <1>4, <1>5, <2>2, <2>3, <3>1
  <2>5. ASSUME NEW i \in (c + 1)..Len(pg.keys) PROVE pg.keys[i] > k
    <3>1. i \in 1..Len(pg.keys) /\ ~(i <= c)
      BY <1>4, <2>3, <2>5
    <3>2. QED
      BY <1>4, <2>2, <2>3, <3>1
  <2>6. QED
    BY <2>3, <2>4, <2>5 DEF Fits
<1>7. Fresh \in Page /\ \A i \in 1..Len(pg.children) : pg.children[i] # Fresh
  <2>1. Fresh \in Page
    BY ArraysAssumption DEF Fresh, Page
  <2>2. HomeIndex(k) + 1 \in 1..Len(up.children) /\ pg = Kid(HomeIndex(k) + 1)
    BY HomeIs DEF Home, Kid
  <2>3. Standing(HomeIndex(k) + 1)
    BY <2>2 DEF Unmoved
  <2>4. QED
    BY <2>1, <2>2, <2>3 DEF Standing, Fresh
<1>8. /\ Sound(q) /\ q.kind = "internal" /\ Len(q.keys) = Len(pg.keys) + 1
      /\ AbsPage(q) = Family!InstallSplit(AbsPage(pg), k, Fresh)
  <2> HIDE DEF c
  <2>1. QED
    BY <1>1, <1>2, <1>6, <1>7, InsertSplitIs
<1>9. Occupancy(pg) = Len(pg.keys) /\ Occupancy(q) = Len(q.keys)
  BY <1>2, <1>8 DEF Occupancy, IsLeaf
<1>10. Occupancy(q) <= N
  BY <1>1, <1>2, <1>4, <1>8, <1>9, ArraysAssumption
<1>11. Holder(pg)
  BY <1>1, <1>2 DEF Holder
<1> HIDE DEF q
<1>12. /\ Pages' /\ AbsDown(down)[Family!Home(k)] = AbsPage(pg)
       /\ AbsDown(down') = [AbsDown(down) EXCEPT ![Family!Home(k)] = AbsPage(q)]
  BY <1>3, <1>8, <1>10, HomeChanges
<1>13. AbsDown(down') = [AbsDown(down) EXCEPT ![Family!Home(k)] = Family!InstallSplit(@, k, Fresh)]
  BY <1>8, <1>12
<1>14. ~Family!Full(AbsPage(pg))
  BY <1>2, <1>11, ContentsAre
<1>15. k \notin Family!Separators(AbsPage(pg)) \cup {AbsPage(pg).low}
  <2>1. Family!Separators(AbsPage(pg)) = Elements(pg.keys)
    BY <1>1, <1>2, SeparatorsAre
  <2>2. k \notin Elements(pg.keys)
    BY <1>5 DEF Elements
  <2>3. QED
    BY <1>2, <2>1, <2>2, AbsParts
<1>16. AbsPage(pg).kind = "internal"
  BY <1>2, AbsParts
<1>17. Family!Home(k) \in Page
  BY HomeIs
<1>18. QED
  BY <1>3, <1>12, <1>13, <1>14, <1>15, <1>16, <1>17 DEF Family!LearnSplit, AbsDown

LEMMA LearnMergeStep ==
  ASSUME Pages, NEW k \in Key, LearnMerge(k)
  PROVE  Pages' /\ Family!LearnMerge(k)
<1> DEFINE pg == Home(k)
           j  == BesideIndex(pg, k)
           q  == WithoutLeft(pg, j)
<1>1. Sound(pg) /\ Occupancy(pg) <= N
  BY HomeAt
<1>2. pg.kind = "internal" /\ ~AtMinimum(pg)
  BY DEF LearnMerge
<1>3. down' = [down EXCEPT ![HomeRef(k)] = q] /\ up' = up
  BY DEF LearnMerge, Home, BesideIndex
<1>4. Occupancy(pg) = Len(pg.keys) /\ Len(pg.keys) \in Nat
  BY <1>1, <1>2, InternalFacts DEF Occupancy, IsLeaf
<1>5. Len(pg.keys) # 0
  <2>1. (N - 1) \div 2 >= 0
    BY ArraysAssumption
  <2>2. Minimum(pg) = (N - 1) \div 2
    BY <1>2 DEF Minimum, IsLeaf
  <2>3. QED
    BY <1>2, <1>4, <2>1, <2>2 DEF AtMinimum
<1>6. j \in 0..(Len(pg.keys) - 1) /\ Family!Boundary(AbsPage(pg), k) = pg.keys[j + 1]
  BY <1>1, <1>2, <1>5, BoundaryIs
<1>7. /\ Sound(q) /\ q.kind = "internal" /\ Len(q.keys) = Len(pg.keys) - 1
      /\ AbsPage(q) = Family!DropMerged(AbsPage(pg), pg.keys[j + 1])
  <2> HIDE DEF j
  <2>1. QED
    BY <1>1, <1>2, <1>6, WithoutLeftIs
<1>8. Occupancy(q) = Len(q.keys)
  BY <1>7 DEF Occupancy, IsLeaf
<1>9. Occupancy(q) <= N
  BY <1>1, <1>4, <1>7, <1>8, ArraysAssumption
<1>10. Holder(pg)
  BY <1>1, <1>2 DEF Holder
<1> HIDE DEF q
<1>11. /\ Pages' /\ AbsDown(down)[Family!Home(k)] = AbsPage(pg)
       /\ AbsDown(down') = [AbsDown(down) EXCEPT ![Family!Home(k)] = AbsPage(q)]
  BY <1>3, <1>7, <1>9, HomeChanges
<1>12. AbsDown(down') = [AbsDown(down) EXCEPT ![Family!Home(k)]
                           = Family!DropMerged(@, Family!Boundary(@, k))]
  BY <1>6, <1>7, <1>11
<1>13. ~Family!AtMinimum(AbsPage(pg))
  BY <1>2, <1>10, ContentsAre
<1>14. AbsPage(pg).kind = "internal"
  BY <1>2, AbsParts
<1>15. Family!Home(k) \in Page
  BY HomeIs
<1>16. QED
  BY <1>3, <1>11, <1>12, <1>13, <1>14, <1>15 DEF Family!LearnMerge, AbsDown

\* A key above a fence is above every separator up to it, and so below.
LEMMA AboveFence ==
  ASSUME Pages, NEW h \in 0..Len(up.keys), NEW b \in Nat, Fence(h) < b
  PROVE  \A i \in 1..h : up.keys[i] < b
<1>1. /\ Len(up.keys) \in Nat /\ Len(up.children) = Len(up.keys) + 1 /\ Climbs(up.keys)
      /\ \A i \in 1..Len(up.keys) : up.keys[i] \in Nat
  BY UpFacts DEF Column
<1>2. ASSUME NEW i \in 1..h PROVE up.keys[i] < b
  <2>1. h \in 1..Len(up.keys) /\ i \in 1..Len(up.keys) /\ h # 0 /\ h # Len(up.children)
    BY <1>1
  <2>2. Fence(h) = up.keys[h]
    BY <2>1 DEF Fence
  <2>3. i = h \/ i < h
    BY <1>1
  <2>4. up.keys[i] <= up.keys[h]
    BY <1>1, <2>1, <2>3 DEF Climbs
  <2>5. up.keys[i] \in Nat /\ up.keys[h] \in Nat
    BY <1>1, <2>1
  <2>6. QED
    BY <2>2, <2>4, <2>5
<1>3. QED
  BY <1>2

LEMMA BelowFence ==
  ASSUME Pages, NEW m \in 1..Len(up.children), NEW b \in Nat, b < Fence(m)
  PROVE  \A i \in m..Len(up.keys) : b < up.keys[i]
<1>1. /\ Len(up.keys) \in Nat /\ Len(up.children) = Len(up.keys) + 1 /\ Climbs(up.keys)
      /\ \A i \in 1..Len(up.keys) : up.keys[i] \in Nat
  BY UpFacts DEF Column
<1>2. ASSUME NEW i \in m..Len(up.keys) PROVE b < up.keys[i]
  <2>1. m \in 1..Len(up.keys) /\ i \in 1..Len(up.keys) /\ m # 0 /\ m # Len(up.children)
    BY <1>1
  <2>2. Fence(m) = up.keys[m]
    BY <2>1 DEF Fence
  <2>3. i = m \/ m < i
    BY <1>1
  <2>4. up.keys[m] <= up.keys[i]
    BY <1>1, <2>1, <2>3 DEF Climbs
  <2>5. up.keys[i] \in Nat /\ up.keys[m] \in Nat
    BY <1>1, <2>1
  <2>6. QED
    BY <2>2, <2>4, <2>5
<1>3. QED
  BY <1>2

LEMMA FenceTypes ==
  ASSUME Pages, NEW i \in 0..Len(up.children)
  PROVE  Fence(i) \in Nat
<1>1. /\ Len(up.keys) \in Nat /\ Len(up.children) = Len(up.keys) + 1
      /\ \A j \in 1..Len(up.keys) : up.keys[j] \in Nat
  BY UpFacts
<1>2. CASE i = 0 \/ i = Len(up.children)
  BY <1>2, KeyTypes DEF Fence
<1>3. CASE i # 0 /\ i # Len(up.children)
  <2>1. i \in 1..Len(up.keys)
    BY <1>1, <1>3
  <2>2. QED
    BY <1>1, <1>3, <2>1 DEF Fence
<1>4. QED
  BY <1>2, <1>3

LEMMA FreshFacts ==
  ASSUME Pages, Unmoved
  PROVE  /\ Fresh \in Page /\ down[Fresh].kind = "free"
         /\ \A i \in 1..Len(up.children) : up.children[i] # Fresh
<1>1. Fresh \in Page
  BY ArraysAssumption DEF Fresh, Page
<1>2. QED
  BY <1>1 DEF Unmoved, Standing, Fresh

LEMMA SplitStep ==
  ASSUME Pages, Unmoved, NEW k \in Key, Split(k, Fresh)
  PROVE  Pages' /\ Family!Split(k, Fresh)
<1> DEFINE pg  == Home(k)
           h   == HomeIndex(k)
           s   == SplitFull(pg, HomeRef(k), Fresh)
           sep == s.separator
<1>1. /\ h \in 0..Len(up.keys) /\ h + 1 \in 1..Len(up.children)
      /\ HomeRef(k) = up.children[h + 1] /\ HomeRef(k) \in Page /\ Family!Home(k) = HomeRef(k)
  BY HomeIs
<1>2. pg = Kid(h + 1)
  BY <1>1 DEF Home, Kid
<1>3. Sound(pg) /\ Holder(pg) /\ Standing(h + 1)
  BY <1>1, <1>2, StandingAt
<1>4. Occupancy(up) # N /\ Occupancy(pg) = N /\ down[Fresh].kind = "free"
  BY DEF Split
<1>5. /\ down' = [down EXCEPT ![HomeRef(k)] = s.left, ![Fresh] = s.right]
      /\ up' = InsertSplit(up, h, sep, Fresh)
  BY DEF Split
<1>6. SplitsAs(pg, HomeRef(k), Fresh)
  <2>1. Fresh \in Page
    BY FreshFacts
  <2>2. CASE pg.kind = "leaf"
    BY <1>1, <1>3, <1>4, <2>1, <2>2, SplitLeafIs DEF Occupancy, IsLeaf
  <2>3. CASE pg.kind = "internal"
    BY <1>1, <1>3, <1>4, <2>1, <2>3, SplitInternalIs DEF Occupancy, IsLeaf
  <2>4. QED
    BY <1>3, <2>2, <2>3 DEF Holder
<1>7. /\ sep = ColumnOf(pg)[N \div 2 + 1] /\ sep = Family!SplitKey(AbsPage(pg))
      /\ Sound(s.left) /\ Occupancy(s.left) <= N
      /\ AbsPage(s.left) = Family!SplitLower(AbsPage(pg), sep, Fresh)
      /\ Sound(s.right) /\ Occupancy(s.right) <= N
      /\ AbsPage(s.right) = Family!SplitUpper(AbsPage(pg), sep, HomeRef(k))
  BY <1>6 DEF SplitsAs
<1>8. Fence(h) < sep /\ sep < Fence(h + 1) /\ sep \in Key /\ sep \in Nat
  <2>1. h \in Nat /\ Between(pg, Fence(h), Fence(h + 1))
    BY <1>1, <1>2, <1>3, BetweenAt
  <2>2. /\ Len(ColumnOf(pg)) = N /\ Climbs(ColumnOf(pg))
        /\ \A i \in 1..Len(ColumnOf(pg)) : ColumnOf(pg)[i] \in Key /\ ColumnOf(pg)[i] \in Nat
    BY <1>3, <1>4, ColumnFacts
  <2>3. N \div 2 + 1 \in 1..N /\ 1 \in 1..N /\ 1 < N \div 2 + 1
    BY MiddleTypes
  <2>4. ColumnOf(pg)[1] < sep /\ Fence(h) <= ColumnOf(pg)[1]
    BY <1>7, <2>1, <2>2, <2>3 DEF Climbs, Between
  <2>5. Fence(h) \in Nat
    <3>1. h \in 0..Len(up.children)
      BY <1>1, UpFacts
    <3>2. QED
      BY <3>1, FenceTypes
  <2>6. sep \in Key /\ sep \in Nat /\ ColumnOf(pg)[1] \in Nat /\ sep < Fence(h + 1)
    BY <1>7, <2>1, <2>2, <2>3 DEF Between
  <2> HIDE DEF sep, pg, h
  <2>7. QED
    BY <2>4, <2>5, <2>6
<1>9. Fits(up.keys, h, sep)
  <2> HIDE DEF sep, pg, h
  <2>1. \A i \in 1..h : up.keys[i] < sep
    BY <1>1, <1>8, AboveFence
  <2>2. \A i \in (h + 1)..Len(up.keys) : sep < up.keys[i]
    BY <1>1, <1>8, BelowFence
  <2>3. \A i \in (h + 1)..Len(up.keys) : up.keys[i] > sep
    <3>1. Len(up.keys) \in Nat /\ \A i \in 1..Len(up.keys) : up.keys[i] \in Nat
      BY UpFacts
    <3>2. ASSUME NEW i \in (h + 1)..Len(up.keys) PROVE up.keys[i] > sep
      <4>1. up.keys[i] \in Nat
        BY <1>1, <3>1
      <4>2. sep < up.keys[i]
        BY <2>2
      <4>3. QED
        BY <1>8, <4>1, <4>2
    <3>3. QED
      BY <3>2
  <2>4. QED
    BY <1>1, <2>1, <2>3 DEF Fits
<1>10. /\ Sound(up') /\ up'.kind = "internal" /\ Len(up'.keys) = Len(up.keys) + 1
       /\ AbsPage(up') = Family!InstallSplit(AbsPage(up), sep, Fresh)
  <2> HIDE DEF sep, pg, h
  <2>1. QED
    BY <1>5, <1>8, <1>9, UpFacts, FreshFacts, InsertSplitIs
<1>11. Holder(up) /\ Occupancy(up) = Len(up.keys)
  BY UpFacts DEF Holder, Occupancy, IsLeaf
<1>12. Len(up'.keys) <= N
  <2>1. Len(up.keys) <= N /\ Len(up.keys) \in Nat
    BY UpFacts DEF Pages
  <2>2. QED
    BY <1>4, <1>10, <1>11, <2>1, ArraysAssumption
<1> HIDE DEF s, sep
<1>13. /\ Filled(down')
       /\ AbsDown(down') = [AbsDown(down) EXCEPT ![HomeRef(k)] = AbsPage(s.left),
                                                 ![Fresh]      = AbsPage(s.right)]
  <2>1. PICK l, r : l = s.left /\ r = s.right
    OBVIOUS
  <2>2. Sound(l) /\ Occupancy(l) <= N /\ Sound(r) /\ Occupancy(r) <= N
    BY <1>7, <2>1
  <2>3. HomeRef(k) \in Page /\ Fresh \in Page /\ Filled(down)
    BY <1>1, FreshFacts DEF Pages
  <2>4. Puts(down', down, HomeRef(k), l, Fresh, r)
    BY <1>5, <2>1 DEF Puts
  <2>5. /\ Filled(down')
        /\ Puts(AbsDown(down'), AbsDown(down), HomeRef(k), AbsPage(l), Fresh, AbsPage(r))
    BY ONLY <2>2, <2>3, <2>4, TwoPages
  <2>6. QED
    BY <2>1, <2>5 DEF Puts
<1>14. Pages'
  BY <1>10, <1>12, <1>13 DEF Pages
<1>15. AbsDown(down)[HomeRef(k)] = AbsPage(pg) /\ AbsDown(down)[Fresh] = AbsPage(down[Fresh])
  BY <1>1, FreshFacts, AbsAt DEF Home
<1>16. ~Family!Full(AbsPage(up)) /\ Family!Full(AbsPage(pg)) /\ AbsPage(down[Fresh]).kind = "free"
  BY <1>3, <1>4, <1>11, ContentsAre, AbsParts
<1>17. AbsDown(down') = [AbsDown(down) EXCEPT
         ![Family!Home(k)] = Family!SplitLower(AbsDown(down)[Family!Home(k)],
                                               Family!SplitKey(AbsDown(down)[Family!Home(k)]), Fresh),
         ![Fresh] = Family!SplitUpper(AbsDown(down)[Family!Home(k)],
                                      Family!SplitKey(AbsDown(down)[Family!Home(k)]), Family!Home(k))]
  BY <1>1, <1>7, <1>13, <1>15
<1>18. AbsPage(up') = Family!InstallSplit(AbsPage(up), Family!SplitKey(AbsDown(down)[Family!Home(k)]), Fresh)
  BY <1>1, <1>7, <1>10, <1>15
<1>19. /\ Family!Full(AbsDown(down)[Family!Home(k)]) /\ AbsDown(down)[Fresh].kind = "free"
  BY <1>1, <1>15, <1>16
<1>20. QED
  BY <1>14, <1>16, <1>17, <1>18, <1>19 DEF Family!Split, AbsDown

\* A change of the two children beside the boundary for k.
LEMMA PairChanges ==
  ASSUME Pages, Unmoved, NEW k \in Key,
         NEW l, Sound(l), Occupancy(l) <= N, NEW r, Sound(r), Occupancy(r) <= N,
         Puts(down', down, LeftRef(k), l, RightRef(k), r)
  PROVE  /\ Filled(down')
         /\ Puts(AbsDown(down'), AbsDown(down), Family!Left(k), AbsPage(l), Family!Right(k), AbsPage(r))
         /\ AbsDown(down)[Family!Left(k)] = AbsPage(Left(k))
         /\ AbsDown(down)[Family!Right(k)] = AbsPage(Right(k))
<1>1. LeftRef(k) \in Page /\ RightRef(k) \in Page
  BY NeighboursAt
<1>2. Family!Left(k) = LeftRef(k) /\ Family!Right(k) = RightRef(k)
  BY PairIs DEF Unmoved
<1>3. Filled(down)
  BY DEF Pages
<1>4. /\ Filled(down')
      /\ Puts(AbsDown(down'), AbsDown(down), LeftRef(k), AbsPage(l), RightRef(k), AbsPage(r))
  BY ONLY <1>1, <1>3, Sound(l), Occupancy(l) <= N, Sound(r), Occupancy(r) <= N,
          Puts(down', down, LeftRef(k), l, RightRef(k), r), TwoPages
<1>5. /\ AbsDown(down)[LeftRef(k)] = AbsPage(Left(k))
      /\ AbsDown(down)[RightRef(k)] = AbsPage(Right(k))
  BY <1>1, AbsAt DEF Left, Right
<1>6. QED
  BY <1>2, <1>4, <1>5

\* A borrow moves the boundary in the parent too.
LEMMA Borrows ==
  ASSUME Pages, Unmoved, NEW k \in Key, NEW lent, NEW b, NEW l, NEW r,
         Lends(lent, up, PairIndex(k), b, l, r), Rebalance(k, lent),
         \A i \in 1..PairIndex(k) : up.keys[i] < b,
         \A i \in (PairIndex(k) + 2)..Len(up.keys) : b < up.keys[i]
  PROVE  /\ Pages'
         /\ Puts(AbsDown(down'), AbsDown(down), Family!Left(k), l, Family!Right(k), r)
         /\ AbsPage(up') = Family!MoveBoundary(AbsPage(up), Family!Sep(k), b)
         /\ AbsDown(down)[Family!Left(k)] = AbsPage(Left(k))
         /\ AbsDown(down)[Family!Right(k)] = AbsPage(Right(k))
<1>1. /\ PairIndex(k) \in 0..(Len(up.keys) - 1)
      /\ Family!Sep(k) = up.keys[PairIndex(k) + 1]
  BY PairIs DEF Unmoved
<1>2. /\ b \in Key /\ lent.parent = [up EXCEPT !.keys = ReplaceAt(@, PairIndex(k) + 1, b)]
      /\ Sound(lent.left) /\ Occupancy(lent.left) <= N /\ AbsPage(lent.left) = l
      /\ Sound(lent.right) /\ Occupancy(lent.right) <= N /\ AbsPage(lent.right) = r
  BY DEF Lends
<1>3. /\ up' = [up EXCEPT !.keys = ReplaceAt(@, PairIndex(k) + 1, b)]
      /\ Puts(down', down, LeftRef(k), lent.left, RightRef(k), lent.right)
  BY <1>2 DEF Rebalance, Puts
<1>4. /\ Sound(up') /\ up'.kind = "internal" /\ Len(up'.keys) = Len(up.keys)
      /\ AbsPage(up') = Family!MoveBoundary(AbsPage(up), up.keys[PairIndex(k) + 1], b)
  <2>1. PICK j : j = PairIndex(k)
    OBVIOUS
  <2>2. /\ Sound(up) /\ up.kind = "internal" /\ j \in 0..(Len(up.keys) - 1) /\ b \in Key
        /\ \A i \in 1..j : up.keys[i] < b
        /\ \A i \in (j + 2)..Len(up.keys) : b < up.keys[i]
    BY <1>1, <1>2, <2>1, UpFacts
  <2>3. LET q == [up EXCEPT !.keys = ReplaceAt(@, j + 1, b)]
        IN  /\ Sound(q) /\ q.kind = "internal" /\ Len(q.keys) = Len(up.keys)
            /\ AbsPage(q) = Family!MoveBoundary(AbsPage(up), up.keys[j + 1], b)
    BY ONLY <2>2, RekeyedIs
  <2>4. up' = [up EXCEPT !.keys = ReplaceAt(@, j + 1, b)]
    BY <1>3, <2>1
  <2>5. QED
    BY ONLY <2>1, <2>3, <2>4
<1>5. PICK x, y : x = lent.left /\ y = lent.right
  OBVIOUS
<1>6. /\ Sound(x) /\ Occupancy(x) <= N /\ Sound(y) /\ Occupancy(y) <= N
      /\ Puts(down', down, LeftRef(k), x, RightRef(k), y)
  BY <1>2, <1>3, <1>5
<1>7. /\ Filled(down')
      /\ Puts(AbsDown(down'), AbsDown(down), Family!Left(k), AbsPage(x), Family!Right(k), AbsPage(y))
      /\ AbsDown(down)[Family!Left(k)] = AbsPage(Left(k))
      /\ AbsDown(down)[Family!Right(k)] = AbsPage(Right(k))
  BY ONLY Pages, Unmoved, k \in Key, <1>6, PairChanges
<1>8. Pages'
  BY <1>4, <1>7 DEF Pages
<1>9. QED
  BY <1>1, <1>2, <1>4, <1>5, <1>7, <1>8

LEMMA MinimumTypes ==
  ASSUME NEW pg
  PROVE  /\ Minimum(pg) \in Nat /\ Minimum(pg) < N
         /\ pg.kind = "leaf" => Minimum(pg) = N \div 2 /\ 1 <= Minimum(pg)
         /\ pg.kind = "internal" => Minimum(pg) = (N - 1) \div 2 /\ 1 <= Minimum(pg)
<1>1. /\ N \div 2 \in Nat /\ N \div 2 < N /\ 1 <= N \div 2
      /\ (N - 1) \div 2 \in Nat /\ (N - 1) \div 2 < N /\ 1 <= (N - 1) \div 2
  BY ArraysAssumption
<1>2. QED
  BY <1>1 DEF Minimum, IsLeaf

\* What a removal that has found its leaf at its minimum knows.
LEMMA NeedyFacts ==
  ASSUME Pages, Unmoved, NEW k \in Key, Needy(k)
  PROVE  /\ Family!Needy(k)
         /\ HomeIndex(k) > 0 => Home(k) = Right(k) /\ Family!Home(k) = Family!Right(k)
         /\ HomeIndex(k) = 0 => Home(k) = Left(k) /\ Family!Home(k) = Family!Left(k)
<1>1. /\ HomeIndex(k) \in 0..Len(up.keys) /\ HomeRef(k) = up.children[HomeIndex(k) + 1]
      /\ HomeRef(k) \in Page /\ Family!Home(k) = HomeRef(k)
  BY HomeIs
<1>2. /\ LeftRef(k) = up.children[PairIndex(k) + 1] /\ RightRef(k) = up.children[PairIndex(k) + 2]
      /\ Family!Left(k) = LeftRef(k) /\ Family!Right(k) = RightRef(k)
  BY PairIs DEF Unmoved
<1>3. HomeIndex(k) > 0 => HomeRef(k) = RightRef(k)
  <2>1. HomeIndex(k) > 0 => PairIndex(k) + 2 = HomeIndex(k) + 1
    BY <1>1, UpFacts DEF PairIndex
  <2>2. QED
    BY <1>1, <1>2, <2>1
<1>4. HomeIndex(k) = 0 => HomeRef(k) = LeftRef(k)
  <2>1. HomeIndex(k) = 0 => PairIndex(k) + 1 = HomeIndex(k) + 1
    BY <1>1, UpFacts DEF PairIndex
  <2>2. QED
    BY <1>1, <1>2, <2>1
<1>5. Family!Needy(k)
  <2>1. Family!Separators(AbsPage(up)) # {}
    <3>1. Family!Separators(AbsPage(up)) = Elements(up.keys) /\ Len(up.keys) \in Nat /\ Len(up.keys) # 0
      BY UpFacts, SeparatorsAre DEF Unmoved
    <3>2. 1 \in 1..Len(up.keys)
      BY <3>1
    <3>3. QED
      BY <3>1, <3>2 DEF Elements
  <2>2. Holder(Home(k))
    <3>1. HomeIndex(k) + 1 \in 1..Len(up.children) /\ Home(k) = Kid(HomeIndex(k) + 1)
      BY HomeIs DEF Home, Kid
    <3>2. QED
      BY <3>1, StandingAt
  <2>3. Family!AtMinimum(AbsPage(Home(k)))
    BY <2>2, ContentsAre DEF Needy
  <2>4. AbsDown(down)[Family!Home(k)] = AbsPage(Home(k))
    BY <1>1, AbsAt DEF Home
  <2>5. QED
    BY <2>1, <2>3, <2>4 DEF Family!Needy, AbsDown
<1>6. QED
  BY <1>1, <1>2, <1>3, <1>4, <1>5 DEF Home, Left, Right

LEMMA BorrowFromLeftStep ==
  ASSUME Pages, Unmoved, NEW k \in Key, BorrowFromLeft(k)
  PROVE  Pages' /\ Family!BorrowFromLeft(k)
<1> DEFINE L   == Left(k)
           R   == Right(k)
           j   == PairIndex(k)
           a   == ColumnOf(L)
           b   == a[Len(a)]
           sep == At(up.keys, j)
           l   == Family!LentLast(AbsPage(L), b)
           r   == Family!TookLast(AbsPage(L), AbsPage(R), sep, b)
<1>1. /\ Neighbours(L, R, sep) /\ Occupancy(L) <= N /\ Between(L, Fence(j), Fence(j + 1))
  BY NeighboursAt
<1>2. /\ j \in 0..(Len(up.keys) - 1) /\ sep = up.keys[j + 1] /\ Family!Sep(k) = sep
  BY PairIs DEF Unmoved
<1>3. /\ Needy(k) /\ AtMinimum(Home(k)) /\ HomeIndex(k) > 0 /\ ~AtMinimum(L)
      /\ Rebalance(k, LentByLeft(up, j, L, R))
  BY DEF BorrowFromLeft, Needy
<1>4. /\ Family!Needy(k) /\ Home(k) = R /\ Family!Home(k) = Family!Right(k)
  BY <1>3, NeedyFacts
<1>5. Holder(L) /\ Holder(R) /\ R.kind = L.kind
  BY <1>1 DEF Neighbours
<1>6. /\ Occupancy(L) = Len(a) /\ Len(a) \in Nat /\ Climbs(a)
      /\ \A i \in 1..Len(a) : a[i] \in Key /\ a[i] \in Nat
      /\ Occupancy(R) = Len(ColumnOf(R)) /\ Len(ColumnOf(R)) \in Nat
  BY <1>5, ColumnFacts
<1>7. /\ Minimum(L) \in Nat /\ 1 <= Minimum(L) /\ Minimum(R) \in Nat /\ Minimum(R) < N
  BY <1>5, MinimumTypes DEF Holder
<1>8. /\ Len(a) # 0 /\ Len(a) <= N /\ Len(ColumnOf(R)) < N /\ 2 <= Len(a)
  <2>1. ~(Len(a) <= Minimum(L)) /\ Len(ColumnOf(R)) <= Minimum(R)
    BY <1>3, <1>4, <1>6 DEF AtMinimum
  <2>2. Len(a) <= N
    BY <1>1, <1>6
  <2>3. PICK n, m : n = Len(a) /\ m = Len(ColumnOf(R))
    OBVIOUS
  <2>4. QED
    BY <1>6, <1>7, <2>1, <2>2, <2>3, ArraysAssumption
<1>9. Lends(LentByLeft(up, j, L, R), up, j, b, l, r)
  <2>1. CASE L.kind = "leaf"
    <3> HIDE DEF L, R, j, sep
    <3>1. QED
      BY <1>1, <1>8, <2>1, LeafLendsLeft
  <2>2. CASE L.kind = "internal"
    <3>1. At(up.keys, j) = sep
      OBVIOUS
    <3> HIDE DEF L, R, j, sep
    <3>2. QED
      BY <1>1, <1>8, <2>2, <3>1, InternalLendsLeft
  <2>3. QED
    BY <1>5, <2>1, <2>2 DEF Holder
<1>10. Fence(j) < b /\ b < Fence(j + 1) /\ b \in Nat
  <2>1. Fence(j) \in Nat
    <3>1. j \in 0..Len(up.children)
      BY <1>2, UpFacts
    <3>2. QED
      BY <3>1, FenceTypes
  <2>2. 1 \in 1..Len(a) /\ Len(a) \in 1..Len(a) /\ 1 < Len(a)
    BY <1>6, <1>8
  <2>3. Fence(j) <= a[1] /\ a[1] < b /\ b < Fence(j + 1) /\ a[1] \in Nat /\ b \in Nat
    BY <1>1, <1>6, <2>2 DEF Between, Climbs
  <2> HIDE DEF a, b, j
  <2>4. QED
    BY <2>1, <2>3
<1>11. /\ \A i \in 1..j : up.keys[i] < b
       /\ \A i \in (j + 2)..Len(up.keys) : b < up.keys[i]
  <2>1. j \in 0..Len(up.keys) /\ j + 1 \in 1..Len(up.children) /\ Len(up.keys) \in Nat
    BY <1>2, UpFacts
  <2> HIDE DEF j, b
  <2>2. \A i \in 1..j : up.keys[i] < b
    BY <1>10, <2>1, AboveFence
  <2>3. \A i \in (j + 1)..Len(up.keys) : b < up.keys[i]
    BY <1>10, <2>1, BelowFence
  <2>4. \A i \in (j + 2)..Len(up.keys) : i \in (j + 1)..Len(up.keys)
    BY <2>1
  <2>5. QED
    BY <2>2, <2>3, <2>4
<1>12. /\ Pages' /\ Puts(AbsDown(down'), AbsDown(down), Family!Left(k), l, Family!Right(k), r)
       /\ AbsPage(up') = Family!MoveBoundary(AbsPage(up), Family!Sep(k), b)
       /\ AbsDown(down)[Family!Left(k)] = AbsPage(L) /\ AbsDown(down)[Family!Right(k)] = AbsPage(R)
  <2> HIDE DEF b, l, r
  <2>1. QED
    BY <1>3, <1>9, <1>11, Borrows
<1>13. b = Family!LendLastBoundary(AbsPage(L)) /\ ~Family!AtMinimum(AbsPage(L))
  BY <1>3, <1>5, <1>8, LendLastIs, ContentsAre
<1> HIDE DEF b, L, R, sep, a
<1>14. AbsDown(down') = [AbsDown(down) EXCEPT
         ![Family!Left(k)]  = Family!LentLast(AbsPage(L), b),
         ![Family!Right(k)] = Family!TookLast(AbsPage(L), AbsPage(R), Family!Sep(k), b)]
  BY <1>2, <1>12 DEF Puts
<1>15. QED
  BY <1>4, <1>12, <1>13, <1>14 DEF Family!BorrowFromLeft, AbsDown

LEMMA BorrowFromRightStep ==
  ASSUME Pages, Unmoved, NEW k \in Key, BorrowFromRight(k)
  PROVE  Pages' /\ Family!BorrowFromRight(k)
<1> DEFINE L   == Left(k)
           R   == Right(k)
           j   == PairIndex(k)
           a   == ColumnOf(R)
           b   == IF R.kind = "leaf" THEN a[2] ELSE a[1]
           sep == At(up.keys, j)
           l   == Family!TookFirst(AbsPage(L), AbsPage(R), sep, b)
           r   == Family!LentFirst(AbsPage(R), b)
<1>1. /\ Neighbours(L, R, sep) /\ Occupancy(R) <= N /\ Between(R, Fence(j + 1), Fence(j + 2))
  BY NeighboursAt
<1>2. /\ j \in 0..(Len(up.keys) - 1) /\ sep = up.keys[j + 1] /\ Family!Sep(k) = sep
  BY PairIs DEF Unmoved
<1>3. /\ Needy(k) /\ AtMinimum(Home(k)) /\ HomeIndex(k) = 0 /\ ~AtMinimum(R) /\ j = 0
      /\ Rebalance(k, LentByRight(up, j, L, R))
  BY DEF BorrowFromRight, Needy, PairIndex
<1>4. /\ Family!Needy(k) /\ Home(k) = L /\ Family!Home(k) = Family!Left(k)
  BY <1>3, NeedyFacts
<1>5. Holder(L) /\ Holder(R) /\ R.kind = L.kind
  BY <1>1 DEF Neighbours
<1>6. /\ Occupancy(R) = Len(a) /\ Len(a) \in Nat /\ Climbs(a)
      /\ \A i \in 1..Len(a) : a[i] \in Key /\ a[i] \in Nat
      /\ Occupancy(L) = Len(ColumnOf(L)) /\ Len(ColumnOf(L)) \in Nat
  BY <1>5, ColumnFacts
<1>7. /\ Minimum(R) \in Nat /\ 1 <= Minimum(R) /\ Minimum(L) \in Nat /\ Minimum(L) < N
  BY <1>5, MinimumTypes DEF Holder
<1>8. /\ 2 \in 1..Len(a) /\ Len(a) <= N /\ Len(ColumnOf(L)) < N /\ 1 \in 1..Len(a)
  <2>1. ~(Len(a) <= Minimum(R)) /\ Len(ColumnOf(L)) <= Minimum(L)
    BY <1>3, <1>4, <1>6 DEF AtMinimum
  <2>2. Len(a) <= N
    BY <1>1, <1>6
  <2>3. PICK n, m : n = Len(a) /\ m = Len(ColumnOf(L))
    OBVIOUS
  <2>4. QED
    BY <1>6, <1>7, <2>1, <2>2, <2>3, ArraysAssumption
<1>9. Lends(LentByRight(up, j, L, R), up, j, b, l, r)
  <2>1. CASE L.kind = "leaf"
    <3>1. b = a[2]
      BY <1>5, <2>1
    <3> HIDE DEF L, R, j, sep, b
    <3>2. QED
      BY <1>1, <1>8, <2>1, <3>1, LeafLendsRight
  <2>2. CASE L.kind = "internal"
    <3>1. At(up.keys, j) = sep /\ b = a[1]
      BY <1>5, <2>2
    <3> HIDE DEF L, R, j, sep, b
    <3>2. QED
      BY <1>1, <1>8, <2>2, <3>1, InternalLendsRight
  <2>3. QED
    BY <1>5, <2>1, <2>2 DEF Holder
<1>10. Fence(j + 1) < b /\ b < Fence(j + 2) /\ b \in Nat
  <2>1. Fence(j + 1) \in Nat
    <3>1. j + 1 \in 0..Len(up.children)
      BY <1>2, UpFacts
    <3>2. QED
      BY <3>1, FenceTypes
  <2>2. /\ Fence(j + 1) <= a[1] /\ a[1] < a[2] /\ a[1] \in Nat /\ a[2] \in Nat
        /\ a[1] < Fence(j + 2) /\ a[2] < Fence(j + 2)
        /\ R.kind = "internal" => Fence(j + 1) < a[1]
    BY <1>1, <1>6, <1>8 DEF Between, Climbs
  <2>3. CASE R.kind = "leaf"
    <3>1. b = a[2]
      BY <2>3
    <3> HIDE DEF a, b, j
    <3>2. QED
      BY <2>1, <2>2, <3>1
  <2>4. CASE R.kind = "internal"
    <3>1. b = a[1]
      BY <2>4
    <3> HIDE DEF a, b, j
    <3>2. QED
      BY <2>1, <2>2, <2>4, <3>1
  <2>5. QED
    BY <1>5, <2>3, <2>4 DEF Holder
<1>11. /\ \A i \in 1..j : up.keys[i] < b
       /\ \A i \in (j + 2)..Len(up.keys) : b < up.keys[i]
  <2>1. /\ j + 1 \in 0..Len(up.keys) /\ j + 2 \in 1..Len(up.children) /\ Len(up.keys) \in Nat
        /\ j \in Nat
    BY <1>2, UpFacts
  <2> HIDE DEF j, b
  <2>2. \A i \in 1..(j + 1) : up.keys[i] < b
    BY <1>10, <2>1, AboveFence
  <2>3. \A i \in (j + 2)..Len(up.keys) : b < up.keys[i]
    BY <1>10, <2>1, BelowFence
  <2>4. \A i \in 1..j : i \in 1..(j + 1)
    BY <2>1
  <2>5. QED
    BY <2>2, <2>3, <2>4
<1>12. /\ Pages' /\ Puts(AbsDown(down'), AbsDown(down), Family!Left(k), l, Family!Right(k), r)
       /\ AbsPage(up') = Family!MoveBoundary(AbsPage(up), Family!Sep(k), b)
       /\ AbsDown(down)[Family!Left(k)] = AbsPage(L) /\ AbsDown(down)[Family!Right(k)] = AbsPage(R)
  <2> HIDE DEF b, l, r
  <2>1. QED
    BY <1>3, <1>9, <1>11, Borrows
<1>13. b = Family!LendFirstBoundary(AbsPage(R)) /\ ~Family!AtMinimum(AbsPage(R))
  BY <1>3, <1>5, <1>8, LendFirstIs, ContentsAre
<1> HIDE DEF b, L, R, sep, a
<1>14. AbsDown(down') = [AbsDown(down) EXCEPT
         ![Family!Left(k)]  = Family!TookFirst(AbsPage(L), AbsPage(R), Family!Sep(k), b),
         ![Family!Right(k)] = Family!LentFirst(AbsPage(R), b)]
  BY <1>2, <1>12 DEF Puts
<1>15. QED
  BY <1>4, <1>12, <1>13, <1>14 DEF Family!BorrowFromRight, AbsDown

LEMMA MergeStep ==
  ASSUME Pages, Unmoved, NEW k \in Key, Merge(k)
  PROVE  Pages' /\ Family!Merge(k)
<1> DEFINE L   == Left(k)
           R   == Right(k)
           j   == PairIndex(k)
           sep == At(up.keys, j)
           l   == RetiredLeft(L, RightRef(k))
           r   == MergedIntoRight(sep, L, R)
<1>1. /\ Neighbours(L, R, sep) /\ LeftRef(k) \in Page /\ RightRef(k) \in Page /\ LeftRef(k) # RightRef(k)
  BY NeighboursAt
<1>2. /\ j \in 0..(Len(up.keys) - 1) /\ sep = up.keys[j + 1] /\ Family!Sep(k) = sep
      /\ Family!Right(k) = RightRef(k)
  BY PairIs DEF Unmoved
<1>3. Needy(k) /\ AtMinimum(L) /\ AtMinimum(R) /\ up' = WithoutLeft(up, j)
  BY DEF Merge
<1>4. Puts(down', down, LeftRef(k), l, RightRef(k), r)
  <2>1. down = [p \in Page |-> down[p]]
    BY DEF Pages, Filled
  <2>2. [down EXCEPT ![LeftRef(k)] = l][RightRef(k)] = R
    BY <1>1, <2>1 DEF Right
  <2>3. down' = [down EXCEPT
          ![LeftRef(k)]  = RetiredLeft(@, RightRef(k)),
          ![RightRef(k)] = MergedIntoRight(At(up.keys, PairIndex(k)), Left(k), @)]
    BY DEF Merge
  <2>4. down[LeftRef(k)] = L /\ down[RightRef(k)] = R
    BY DEF Left, Right
  <2>5. QED
    BY <2>2, <2>3, <2>4 DEF Puts
<1>5. Holder(L) /\ Holder(R) /\ R.kind = L.kind
  BY <1>1 DEF Neighbours
<1>6. Occupancy(L) = Len(ColumnOf(L)) /\ Occupancy(R) = Len(ColumnOf(R))
  BY <1>5, ColumnFacts
<1>7. Merges(L, R, RightRef(k), sep)
  <2>1. CASE L.kind = "leaf"
    <3>1. Len(ColumnOf(L)) <= N \div 2 /\ Len(ColumnOf(R)) <= N \div 2
      BY <1>3, <1>5, <1>6, <2>1, MinimumTypes DEF AtMinimum
    <3> HIDE DEF L, R, sep
    <3>2. QED
      BY <1>1, <2>1, <3>1, LeafMerges
  <2>2. CASE L.kind = "internal"
    <3>1. Len(ColumnOf(L)) <= (N - 1) \div 2 /\ Len(ColumnOf(R)) <= (N - 1) \div 2
      BY <1>3, <1>5, <1>6, <2>2, MinimumTypes DEF AtMinimum
    <3> HIDE DEF L, R, sep
    <3>2. QED
      BY <1>1, <2>2, <3>1, InternalMerges
  <2>3. QED
    BY <1>5, <2>1, <2>2 DEF Holder
<1>8. /\ Sound(l) /\ Occupancy(l) <= N /\ AbsPage(l) = Family!Retired(AbsPage(L), RightRef(k))
      /\ Sound(r) /\ Occupancy(r) <= N
      /\ AbsPage(r) = Family!Survivor(AbsPage(L), AbsPage(R), sep)
  BY <1>7 DEF Merges
<1>9. /\ Sound(up') /\ up'.kind = "internal" /\ Len(up'.keys) = Len(up.keys) - 1
      /\ AbsPage(up') = Family!DropMerged(AbsPage(up), sep)
  <2> HIDE DEF j, sep
  <2>1. QED
    BY <1>2, <1>3, UpFacts, WithoutLeftIs
<1>10. Len(up'.keys) <= N
  <2>1. Len(up.keys) <= N /\ Len(up.keys) \in Nat
    BY UpFacts DEF Pages
  <2>2. QED
    BY <1>9, <2>1, ArraysAssumption
<1> HIDE DEF l, r, sep
<1>11. /\ Filled(down')
       /\ Puts(AbsDown(down'), AbsDown(down), Family!Left(k), AbsPage(l), Family!Right(k), AbsPage(r))
       /\ AbsDown(down)[Family!Left(k)] = AbsPage(L) /\ AbsDown(down)[Family!Right(k)] = AbsPage(R)
  <2>1. Sound(l) /\ Occupancy(l) <= N /\ Sound(r) /\ Occupancy(r) <= N
    BY <1>8
  <2>2. QED
    BY ONLY Pages, Unmoved, k \in Key, <1>4, <2>1, PairChanges
<1>12. Pages'
  BY <1>9, <1>10, <1>11 DEF Pages
<1>13. Family!Needy(k) /\ Family!AtMinimum(AbsPage(L)) /\ Family!AtMinimum(AbsPage(R))
  BY <1>3, <1>5, NeedyFacts, ContentsAre
<1> HIDE DEF L, R
<1>14. AbsDown(down') = [AbsDown(down) EXCEPT
         ![Family!Left(k)]  = Family!Retired(AbsPage(L), Family!Right(k)),
         ![Family!Right(k)] = Family!Survivor(AbsPage(L), AbsPage(R), Family!Sep(k))]
  BY <1>2, <1>8, <1>11 DEF Puts
<1>15. AbsPage(up') = Family!DropMerged(AbsPage(up), Family!Sep(k))
  BY <1>2, <1>9
<1>16. QED
  BY <1>11, <1>12, <1>13, <1>14, <1>15 DEF Family!Merge, AbsDown

-----------------------------------------------------------------------------
(***************************************************************************)
(* The families a behaviour may begin with satisfy the invariant.          *)
(***************************************************************************)
Within(S, low, high) == {k \in S : low <= k /\ k < high}

\* A page that is no root and has no neighbours yet.
Newborn(pg, kind, low, high, e, a, ch) ==
  pg = [Free EXCEPT !.kind = kind, !.low = low, !.high = high,
                    !.entries = e, !.keys = a, !.children = ch]

LEMMA FreeIs == /\ Sound(Free) /\ Occupancy(Free) <= N /\ Free.kind = "free"
                /\ Free \in ArrayPage
<1>1. /\ Free.kind = "free" /\ Free.entries = <<>> /\ Free.keys = <<>> /\ Free.children = <<>>
      /\ Free \in ArrayPage
  BY KeyTypes, ArraysAssumption DEF Free, ArrayPage, NegInf, PosInf, Nil
<1>2. Sound(Free)
  BY <1>1, SoundEmpty
<1>3. Occupancy(Free) = 0
  BY <1>1 DEF Occupancy, IsLeaf
<1>4. QED
  BY <1>1, <1>2, <1>3, ArraysAssumption

LEMMA NewbornFields ==
  ASSUME NEW pg, NEW kind, NEW low, NEW high, NEW e, NEW a, NEW ch,
         Newborn(pg, kind, low, high, e, a, ch)
  PROVE  /\ pg.kind = kind /\ pg.low = low /\ pg.high = high
         /\ pg.entries = e /\ pg.keys = a /\ pg.children = ch
BY FreeIs DEF Newborn, ArrayPage

LEMMA NewbornPage ==
  ASSUME NEW kind \in {"leaf", "internal"}, NEW low \in 0..MaxKey, NEW high \in 1..(MaxKey + 1),
         NEW e \in Seq(Entry), NEW a \in Seq(Key), NEW ch \in Seq(Page),
         NEW pg, Newborn(pg, kind, low, high, e, a, ch)
  PROVE  pg \in ArrayPage
BY FreeIs DEF Newborn, ArrayPage

LEMMA ChildParts ==
  ASSUME NEW kind \in {"leaf", "internal"}, NEW S, NEW low, NEW high, NEW first,
         NEW own, own = Sorted(Within(S, low, high))
  PROVE  \E e, a, ch :
           /\ Newborn(ChildPage(kind, S, low, high, first), kind, low, high, e, a, ch)
           /\ kind = "leaf" =>
                /\ a = <<>> /\ ch = <<>>
                /\ e = [i \in DOMAIN own |-> [key |-> own[i], value |-> CHOOSE v \in Val : TRUE]]
           /\ kind = "internal" =>
                e = <<>> /\ a = own /\ ch = [i \in 1..(Len(own) + 1) |-> first + i]
<1>1. PICK e : e = IF kind = "leaf"
                   THEN [i \in DOMAIN own |-> [key |-> own[i], value |-> CHOOSE v \in Val : TRUE]]
                   ELSE <<>>
  OBVIOUS
<1>2. PICK a : a = IF kind = "leaf" THEN <<>> ELSE own
  OBVIOUS
<1>3. PICK ch : ch = IF kind = "leaf" THEN <<>> ELSE [i \in 1..(Len(own) + 1) |-> first + i]
  OBVIOUS
<1>4. ChildPage(kind, S, low, high, first)
        = [Free EXCEPT !.kind = kind, !.low = low, !.high = high,
                       !.entries = e, !.keys = a, !.children = ch]
  BY <1>1, <1>2, <1>3 DEF ChildPage, Within
<1>5. Newborn(ChildPage(kind, S, low, high, first), kind, low, high, e, a, ch)
  BY ONLY <1>4 DEF Newborn
<1>6. QED
  BY <1>1, <1>2, <1>3, <1>5

\* Consecutive numbers from first on.
Numbered(ch, first, n) == /\ Len(ch) = n
                          /\ \A i \in 1..n : ch[i] = first + i

LEMMA ChildIs ==
  ASSUME NEW kind \in {"leaf", "internal"}, NEW S, S \subseteq Key, NEW low \in 0..MaxKey,
         NEW high \in 1..(MaxKey + 1), NEW first \in Nat, first + (N + 1) < MaxPages,
         NEW pg, pg = ChildPage(kind, S, low, high, first), Occupancy(pg) <= N
  PROVE  /\ Sound(pg) /\ pg.kind = kind /\ pg.low = low /\ pg.high = high
         /\ Elements(ColumnOf(pg)) = Within(S, low, high)
         /\ \E n \in 0..(N + 1) : Numbered(pg.children, first, n)
<1> DEFINE own == Sorted(Within(S, low, high))
<1>1. Within(S, low, high) \subseteq Key
  BY DEF Within
<1>2. Column(own) /\ own \in Seq(Key) /\ Elements(own) = Within(S, low, high)
  BY <1>1, SortedIs DEF Column
<1>3. Len(own) \in Nat /\ DOMAIN own = 1..Len(own) /\ \A i \in 1..Len(own) : own[i] \in Key
  BY <1>2
<1> HIDE DEF own
<1>4. PICK ee, aa, cc :
        /\ Newborn(pg, kind, low, high, ee, aa, cc)
        /\ kind = "leaf" =>
             /\ aa = <<>> /\ cc = <<>>
             /\ ee = [i \in DOMAIN own |-> [key |-> own[i], value |-> CHOOSE v \in Val : TRUE]]
        /\ kind = "internal" =>
             ee = <<>> /\ aa = own /\ cc = [i \in 1..(Len(own) + 1) |-> first + i]
  BY ChildParts DEF own
<1>5. /\ pg.kind = kind /\ pg.low = low /\ pg.high = high
      /\ pg.entries = ee /\ pg.keys = aa /\ pg.children = cc
  BY <1>4, NewbornFields
<1>6. MaxPages \in Nat /\ N \in Nat
  BY ArraysAssumption
<1>7. ASSUME pg.entries \in Seq(Entry), pg.keys \in Seq(Key), pg.children \in Seq(Page)
      PROVE  pg \in ArrayPage
  BY <1>4, <1>5, <1>7, NewbornPage
<1>8. CASE kind = "leaf"
  <2>1. PICK v : v = CHOOSE x \in Val : TRUE
    OBVIOUS
  <2>2. v \in Val
    BY <2>1, ArraysAssumption
  <2>3. PICK e : e = [i \in 1..Len(own) |-> [key |-> own[i], value |-> v]]
    OBVIOUS
  <2>4. pg.entries = e /\ pg.keys = <<>> /\ pg.children = <<>>
    BY <1>3, <1>4, <1>5, <1>8, <2>1, <2>3
  <2>5. \A i \in 1..Len(own) : e[i] \in Entry /\ e[i].key = own[i]
    BY <1>3, <2>2, <2>3 DEF Entry
  <2>6. e \in Seq(Entry) /\ Len(e) = Len(own)
    <3>1. e = [i \in 1..Len(own) |-> e[i]]
      BY <2>3
    <3>2. QED
      BY ONLY <1>3, <2>5, <3>1
  <2>7. KeysIn(e) = own
    <3>1. Len(KeysIn(e)) = Len(own) /\ \A i \in 1..Len(own) : KeysIn(e)[i] = own[i]
      BY <2>5, <2>6, EntryColumns
    <3>2. KeysIn(e) \in Seq(Key)
      BY <2>6, EntryColumns
    <3>3. QED
      BY <1>2, <3>1, <3>2, SeqEqual
  <2>8. PICK f : Holds(e, f)
    BY <1>2, <2>6, <2>7, SomeRecords
  <2>9. pg \in ArrayPage
    BY <1>7, <2>4, <2>6
  <2>10. Sound(pg)
    BY <1>5, <1>8, <2>4, <2>8, <2>9, SoundLeaf
  <2>11. ColumnOf(pg) = own
    BY <1>5, <1>8, <2>4, <2>7 DEF ColumnOf, IsLeaf
  <2>12. Numbered(pg.children, first, 0) /\ 0 \in 0..(N + 1)
    BY <1>6, <2>4 DEF Numbered
  <2>13. QED
    BY <1>2, <1>5, <2>10, <2>11, <2>12
<1>9. CASE kind = "internal"
  <2>1. PICK ch : ch = [i \in 1..(Len(own) + 1) |-> first + i]
    OBVIOUS
  <2>2. pg.children = ch /\ pg.keys = own /\ pg.entries = <<>>
    BY <1>4, <1>5, <1>9, <2>1
  <2>3. ColumnOf(pg) = own /\ Occupancy(pg) = Len(own)
    BY <1>5, <1>9, <2>2 DEF ColumnOf, Occupancy, IsLeaf
  <2>4. Len(own) <= N
    BY <2>3
  <2>5. \A i \in 1..(Len(own) + 1) : ch[i] = first + i
    BY <2>1
  <2>6. ASSUME NEW i \in 1..(Len(own) + 1) PROVE ch[i] \in Page
    <3>1. first + i \in 1..MaxPages
      BY <1>3, <1>6, <2>4
    <3>2. QED
      BY <2>5, <3>1 DEF Page
  <2>7. ch \in Seq(Page) /\ Len(ch) = Len(own) + 1
    <3>1. ch = [i \in 1..(Len(own) + 1) |-> ch[i]]
      BY <2>1
    <3>2. QED
      BY ONLY <1>3, <2>6, <3>1
  <2>8. Different(ch)
    <3>1. ASSUME NEW i \in 1..Len(ch), NEW j \in 1..Len(ch), i # j PROVE ch[i] # ch[j]
      <4>1. i \in Int /\ j \in Int /\ ch[i] = first + i /\ ch[j] = first + j
        BY <1>3, <2>5, <2>7
      <4>2. QED
        BY <3>1, <4>1
    <3>2. QED
      BY <3>1 DEF Different
  <2>9. PICK g : Branches(own, ch, g)
    BY <1>2, <2>7, <2>8, SomeBranches
  <2>10. pg \in ArrayPage
    BY <1>2, <1>7, <2>2, <2>7
  <2>11. Sound(pg)
    BY <1>5, <1>9, <2>2, <2>9, <2>10, SoundInternal
  <2>12. Numbered(pg.children, first, Len(own) + 1) /\ Len(own) + 1 \in 0..(N + 1)
    BY <1>3, <1>6, <2>2, <2>4, <2>5, <2>7 DEF Numbered
  <2>13. QED
    BY <1>2, <1>5, <2>3, <2>11, <2>12
<1>10. QED
  BY <1>8, <1>9

FenceOf(a, i) == IF i = 0 THEN 0 ELSE IF i = Len(a) + 1 THEN MaxKey + 1 ELSE a[i]

LEMMA FencesAre ==
  ASSUME NEW a \in Seq(Key), NEW s, s = <<NegInf>> \o a \o <<PosInf>>
  PROVE  \A i \in 0..(Len(a) + 1) : s[i + 1] = FenceOf(a, i)
<1>1. a \in Seq(Nat) /\ Len(a) \in Nat /\ NegInf \in Nat /\ PosInf \in Nat
  <2>1. a \in Seq(Nat)
    BY KeyTypes, SeqMonotonic
  <2>2. NegInf \in Nat /\ PosInf \in Nat
    BY KeyTypes DEF NegInf, PosInf
  <2>3. QED
    BY <2>1, <2>2
<1>2. PICK x, y, z : x = <<NegInf>> /\ y = <<PosInf>> /\ z = x \o a
  OBVIOUS
<1>3. /\ x \in Seq(Nat) /\ Len(x) = 1 /\ x[1] = 0
      /\ y \in Seq(Nat) /\ Len(y) = 1 /\ y[1] = MaxKey + 1
  BY <1>1, <1>2 DEF NegInf, PosInf
<1>4. z \in Seq(Nat) /\ IsJoined(z, x, a)
  BY <1>1, <1>2, <1>3, Joined
<1>5. IsJoined(s, z, y)
  BY <1>2, <1>3, <1>4, Joined
<1>6. Len(z) = Len(a) + 1
  BY <1>3, <1>4, <1>1 DEF IsJoined
<1>7. ASSUME NEW i \in 0..(Len(a) + 1) PROVE s[i + 1] = FenceOf(a, i)
  <2>1. CASE i = 0
    <3>1. i + 1 \in 1..Len(z) /\ i + 1 \in 1..Len(x) /\ i + 1 = 1
      BY <1>1, <1>3, <1>6, <2>1
    <3>2. s[i + 1] = z[i + 1] /\ z[i + 1] = x[i + 1]
      BY <1>4, <1>5, <3>1 DEF IsJoined
    <3>3. QED
      BY <1>3, <2>1, <3>1, <3>2 DEF FenceOf
  <2>2. CASE i = Len(a) + 1
    <3>1. 1 \in 1..Len(y) /\ i + 1 = Len(z) + 1 /\ i # 0
      BY <1>1, <1>3, <1>6, <2>2
    <3>2. s[Len(z) + 1] = y[1]
      BY <1>5, <3>1 DEF IsJoined
    <3>3. QED
      BY <1>3, <2>2, <3>1, <3>2 DEF FenceOf
  <2>3. CASE i # 0 /\ i # Len(a) + 1
    <3>1. i + 1 \in 1..Len(z) /\ i \in 1..Len(a) /\ i + 1 = Len(x) + i
      BY <1>1, <1>3, <1>6, <2>3
    <3>2. s[i + 1] = z[i + 1] /\ z[Len(x) + i] = a[i]
      BY <1>4, <1>5, <3>1 DEF IsJoined
    <3>3. QED
      BY <2>3, <3>1, <3>2 DEF FenceOf
  <2>4. QED
    BY <2>1, <2>2, <2>3
<1>8. QED
  BY <1>7

\* The numbers of two children's own children do not meet.
LEMMA Numbers ==
  ASSUME NEW i \in 1..(N + 1)
  PROVE  /\ (i - 1) * (N + 1) \in Nat /\ (i - 1) * (N + 1) + (N + 1) < MaxPages
         /\ (i - 1) * (N + 1) + (N + 1) = (i + 1 - 1) * (N + 1)
<1>1. N \in Nat /\ MaxPages \in Nat /\ MaxPages > (N + 1) * (N + 1)
  BY ArraysAssumption
<1>2. PICK m \in Nat : m = N + 1
  BY <1>1
<1>3. PICK d \in Nat : d = i - 1 /\ d + 1 <= m
  BY <1>1, <1>2
<1>4. d * m \in Nat /\ d * m + m = (d + 1) * m
  BY <1>2, <1>3
<1>5. (d + 1) * m <= m * m
  BY <1>2, <1>3
<1>6. d * m + m < MaxPages
  BY <1>1, <1>2, <1>4, <1>5
<1>7. d + 1 = i + 1 - 1
  BY <1>3
<1>8. QED
  BY <1>2, <1>3, <1>4, <1>6, <1>7

LEMMA NumbersApart ==
  ASSUME NEW x \in Nat, NEW s, NEW t, NEW n \in 0..(N + 1), NEW m \in 0..(N + 1),
         Numbered(s, x, n), Numbered(t, x + (N + 1), m)
  PROVE  Apart(s, t)
<1>1. N \in Nat
  BY ArraysAssumption
<1>2. ASSUME NEW i \in 1..Len(s), NEW j \in 1..Len(t) PROVE s[i] # t[j]
  <2>1. i \in 1..n /\ j \in 1..m /\ s[i] = x + i /\ t[j] = x + (N + 1) + j
    BY DEF Numbered
  <2>2. x + i < x + (N + 1) + j
    BY <1>1, <2>1
  <2>3. QED
    BY <1>1, <2>1, <2>2
<1>3. QED
  BY <1>2 DEF Apart

LEMMA InitInvariant == Init => IInv
<1> SUFFICES ASSUME Init PROVE IInv
  OBVIOUS
<1>1. PICK kind \in {"leaf", "internal"}, seps \in SUBSET Key, S \in SUBSET Key :
        /\ Cardinality(seps) \in 1..N
        /\ kind = "internal" => seps \cap S = {}
        /\ \A i \in 1..(Cardinality(seps) + 1) :
             Occupancy(FamilyOf(kind, seps, S).child[i])
               \in Minimum(FamilyOf(kind, seps, S).child[i])..N
        /\ up = FamilyOf(kind, seps, S).parent
        /\ down = FamilyOf(kind, seps, S).child
  BY DEF Init
<1>2. PICK a : a = Sorted(seps)
  OBVIOUS
<1>3. PICK n : n = Len(a)
  OBVIOUS
<1>4. /\ Column(a) /\ a \in Seq(Key) /\ Elements(a) = seps /\ n = Cardinality(seps) /\ n \in 1..N
      /\ Len(a) = n /\ \A i \in 1..n : a[i] \in Key /\ a[i] \in Nat
  <2>1. Column(a) /\ Len(a) = Cardinality(seps) /\ Elements(a) = seps
    BY <1>2, SortedIs
  <2>2. a \in Seq(Key)
    BY ONLY <2>1 DEF Column
  <2>3. Len(a) \in Nat /\ \A i \in 1..Len(a) : a[i] \in Key /\ a[i] \in Nat
    BY ONLY <2>2, KeysOf
  <2>4. Len(a) = n /\ n = Cardinality(seps) /\ n \in 1..N
    BY ONLY <1>1, <1>3, <2>1
  <2>5. QED
    BY ONLY <2>1, <2>2, <2>3, <2>4
<1>5. PICK s : s = <<NegInf>> \o a \o <<PosInf>>
  OBVIOUS
<1>6. PICK ids : ids = [i \in 1..(n + 1) |-> i]
  OBVIOUS
<1>7. up = [Free EXCEPT !.kind = "internal", !.isRoot = TRUE, !.keys = a, !.children = ids]
  BY <1>1, <1>2, <1>4, <1>6 DEF FamilyOf
<1>8. down = [p \in Page |-> IF p > n + 1 THEN Free
                             ELSE ChildPage(kind, S, s[p], s[p + 1], (p - 1) * (N + 1))]
  BY <1>1, <1>2, <1>4, <1>5 DEF FamilyOf
<1>9. /\ N \in Nat /\ MaxPages \in Nat /\ n \in Nat /\ n + 1 \in Nat /\ n + 1 <= N + 1
      /\ N + 1 < MaxPages /\ MaxPages \in Page
      /\ \A i \in 1..(n + 1) : i \in Page /\ i # MaxPages /\ i \in 1..(N + 1)
  <2>1. N \in Nat /\ MaxPages \in Nat /\ MaxPages > (N + 1) * (N + 1) /\ n \in 1..N
    BY <1>4, ArraysAssumption
  <2>2. (N + 1) * (N + 1) >= N + 1
    BY <2>1
  <2>3. QED
    BY <2>1, <2>2 DEF Page
<1>10. /\ ids \in Seq(Page) /\ Len(ids) = n + 1 /\ Different(ids)
       /\ \A i \in 1..(n + 1) : ids[i] = i
  <2>1. \A i \in 1..(n + 1) : ids[i] = i /\ ids[i] \in Page
    BY <1>6, <1>9
  <2>2. ids = [i \in 1..(n + 1) |-> ids[i]]
    BY <1>6
  <2>3. ids \in Seq(Page) /\ Len(ids) = n + 1
    BY ONLY <1>9, <2>1, <2>2
  <2>4. QED
    BY <2>1, <2>3 DEF Different
<1>11. /\ up \in ArrayPage /\ up.kind = "internal" /\ up.isRoot /\ up.low = 0
       /\ up.high = MaxKey + 1 /\ up.keys = a /\ up.children = ids /\ up.entries = <<>>
  <2>1. up \in ArrayPage /\ up.kind = "internal" /\ up.isRoot /\ up.keys = a /\ up.children = ids
    BY <1>4, <1>7, <1>10, FreeIs DEF ArrayPage
  <2>2. up.low = Free.low /\ up.high = Free.high /\ up.entries = Free.entries
    BY <1>7, FreeIs DEF ArrayPage
  <2>3. Free.low = 0 /\ Free.high = MaxKey + 1 /\ Free.entries = <<>>
    BY DEF Free, NegInf, PosInf
  <2>4. QED
    BY <2>1, <2>2, <2>3
<1>12. Sound(up)
  <2>1. PICK g : Branches(a, ids, g)
    BY <1>4, <1>10, SomeBranches
  <2>2. QED
    BY <1>11, <2>1, SoundInternal
<1>13. ASSUME NEW i \in 0..(n + 1) PROVE Fence(i) = s[i + 1] /\ Fence(i) = FenceOf(a, i)
  <2>1. s[i + 1] = FenceOf(a, i)
    BY <1>4, <1>5, FencesAre
  <2>2. Fence(i) = FenceOf(a, i)
    BY <1>4, <1>10, <1>11 DEF Fence, FenceOf
  <2>3. QED
    BY <2>1, <2>2
<1>14. ASSUME NEW i \in 1..(n + 1)
       PROVE  /\ Kid(i) = down[i]
              /\ Kid(i) = ChildPage(kind, S, Fence(i - 1), Fence(i), (i - 1) * (N + 1))
              /\ Fence(i - 1) \in 0..MaxKey /\ Fence(i) \in 1..(MaxKey + 1)
              /\ Minimum(Kid(i)) <= Occupancy(Kid(i)) /\ Occupancy(Kid(i)) <= N
              /\ i = 1 \/ (i - 1 \in 1..n /\ Fence(i - 1) = a[i - 1])
              /\ i = 1 => Fence(i - 1) = 0
  <2>1. Kid(i) = down[i] /\ i \in Page
    BY <1>9, <1>10, <1>11 DEF Kid
  <2>2. down[i] = ChildPage(kind, S, s[i], s[i + 1], (i - 1) * (N + 1))
    <3>1. ~(i > n + 1)
      BY <1>9
    <3>2. QED
      BY <1>8, <2>1, <3>1
  <2>3. PICK h : h = i - 1
    OBVIOUS
  <2>4. h \in 0..(n + 1) /\ i \in 0..(n + 1) /\ h + 1 = i
    BY <1>9, <2>3
  <2>5. Fence(h) = s[i] /\ Fence(h) = FenceOf(a, h) /\ Fence(i) = s[i + 1] /\ Fence(i) = FenceOf(a, i)
    <3>1. Fence(h) = s[h + 1] /\ Fence(h) = FenceOf(a, h)
      BY <1>13, <2>4
    <3>2. QED
      BY <1>13, <2>4, <3>1
  <2>6. i = 1 \/ (h \in 1..n /\ Fence(h) = a[h])
    <3>1. i = 1 \/ (h \in 1..n /\ h # 0 /\ h # Len(a) + 1)
      BY <1>4, <1>9, <2>3
    <3>2. QED
      BY <2>5, <3>1 DEF FenceOf
  <2>7. i = 1 => Fence(h) = 0
    BY <2>3, <2>5 DEF FenceOf
  <2>8. Fence(h) \in 0..MaxKey
    BY <1>4, <2>6, <2>7, SlotTypes
  <2>9. Fence(i) \in 1..(MaxKey + 1)
    <3>1. CASE i = n + 1
      BY <1>4, <1>9, <2>5, <3>1, KeyTypes DEF FenceOf
    <3>2. CASE i # n + 1
      <4>1. i \in 1..n /\ i # 0 /\ i # Len(a) + 1
        BY <1>4, <1>9, <3>2
      <4>2. QED
        BY <1>4, <2>5, <4>1, KeyFences DEF FenceOf
    <3>3. QED
      BY <3>1, <3>2
  <2>10. Occupancy(down[i]) \in Minimum(down[i])..N
    BY <1>1, <1>4
  <2>11. Minimum(down[i]) \in Nat
    BY MinimumTypes
  <2>12. Minimum(Kid(i)) <= Occupancy(Kid(i)) /\ Occupancy(Kid(i)) <= N
    BY <1>9, <2>1, <2>10, <2>11
  <2>13. QED
    BY <2>1, <2>2, <2>3, <2>5, <2>6, <2>7, <2>8, <2>9, <2>12
<1>15. ASSUME NEW i \in 1..(n + 1)
       PROVE  /\ Sound(Kid(i)) /\ Kid(i).kind = kind /\ Kid(i).low = Fence(i - 1) /\ Kid(i).high = Fence(i)
              /\ Elements(ColumnOf(Kid(i))) = Within(S, Fence(i - 1), Fence(i))
              /\ \E m \in 0..(N + 1) : Numbered(Kid(i).children, (i - 1) * (N + 1), m)
  <2>1. PICK low, high, first, pg :
          low = Fence(i - 1) /\ high = Fence(i) /\ first = (i - 1) * (N + 1) /\ pg = Kid(i)
    OBVIOUS
  <2>2. /\ low \in 0..MaxKey /\ high \in 1..(MaxKey + 1) /\ Occupancy(pg) <= N
        /\ pg = ChildPage(kind, S, low, high, first)
    BY <1>14, <2>1
  <2>3. first \in Nat /\ first + (N + 1) < MaxPages
    <3>1. i \in 1..(N + 1)
      BY <1>9
    <3>2. QED
      BY <2>1, <3>1, Numbers
  <2>4. S \subseteq Key
    OBVIOUS
  <2>5. /\ Sound(pg) /\ pg.kind = kind /\ pg.low = low /\ pg.high = high
        /\ Elements(ColumnOf(pg)) = Within(S, low, high)
        /\ \E m \in 0..(N + 1) : Numbered(pg.children, first, m)
    BY ONLY <2>2, <2>3, <2>4, kind \in {"leaf", "internal"}, ChildIs
  <2>6. QED
    BY <2>1, <2>5
<1>16. ASSUME NEW i \in 1..(n + 1) PROVE Between(Kid(i), Fence(i - 1), Fence(i))
  <2>1. PICK low, high, pg : low = Fence(i - 1) /\ high = Fence(i) /\ pg = Kid(i)
    OBVIOUS
  <2>2. /\ pg.low = low /\ pg.high = high /\ Elements(ColumnOf(pg)) = Within(S, low, high)
        /\ pg.kind = kind
    BY <1>15, <2>1
  <2>3. low = 0 \/ low \in seps
    <3>1. i = 1 \/ (i - 1 \in 1..n /\ low = a[i - 1])
      BY <1>14, <2>1
    <3>2. i = 1 => low = 0
      BY <1>14, <2>1
    <3>3. \A x \in 1..n : a[x] \in seps
      BY <1>4 DEF Elements
    <3>4. QED
      BY <3>1, <3>2, <3>3
  <2>4. low \in Nat
    BY <1>14, <2>1
  <2>5. ASSUME NEW j \in 1..Len(ColumnOf(pg))
        PROVE  /\ low <= ColumnOf(pg)[j] /\ ColumnOf(pg)[j] < high
               /\ pg.kind = "internal" => low < ColumnOf(pg)[j]
    <3>1. PICK x : x = ColumnOf(pg)[j]
      OBVIOUS
    <3>2. x \in Elements(ColumnOf(pg))
      BY <3>1 DEF Elements
    <3>3. x \in S /\ low <= x /\ x < high
      BY <2>2, <3>2 DEF Within
    <3>4. x \in Nat /\ x # 0
      BY <3>3, KeyTypes
    <3>5. kind = "internal" => low # x
      BY <1>1, <2>3, <3>3, <3>4
    <3>6. QED
      BY <2>2, <2>4, <3>1, <3>3, <3>4, <3>5
  <2>6. QED
    BY <2>1, <2>2, <2>5 DEF Between
<1>17. ASSUME NEW i \in 1..(n + 1), NEW j \in 1..Len(Kid(i).children)
       PROVE  Kid(i).children[j] # MaxPages
  <2>1. PICK m \in 0..(N + 1) : Numbered(Kid(i).children, (i - 1) * (N + 1), m)
    BY <1>15
  <2>2. PICK first : first = (i - 1) * (N + 1)
    OBVIOUS
  <2>3. first \in Nat /\ first + (N + 1) < MaxPages
    <3>1. i \in 1..(N + 1)
      BY <1>9
    <3>2. QED
      BY <2>2, <3>1, Numbers
  <2>4. j \in 1..m /\ Kid(i).children[j] = first + j
    BY <2>1, <2>2 DEF Numbered
  <2>5. QED
    BY <1>9, <2>3, <2>4
<1>18. ASSUME NEW i \in 1..(n + 1), i < n + 1 PROVE Apart(Kid(i).children, Kid(i + 1).children)
  <2>1. i + 1 \in 1..(n + 1) /\ i \in 1..(N + 1)
    BY <1>9, <1>18
  <2>2. PICK x, y : x = (i - 1) * (N + 1) /\ y = (i + 1 - 1) * (N + 1)
    OBVIOUS
  <2>3. x \in Nat /\ y = x + (N + 1)
    BY <2>1, <2>2, Numbers
  <2>4. PICK m1 \in 0..(N + 1) : Numbered(Kid(i).children, x, m1)
    BY <1>15, <2>2
  <2>5. PICK m2 \in 0..(N + 1) : Numbered(Kid(i + 1).children, y, m2)
    BY <1>15, <2>1, <2>2
  <2>6. QED
    BY <2>3, <2>4, <2>5, NumbersApart
<1>19. ASSUME NEW i \in 1..(n + 1) PROVE Standing(i)
  <2>1. 1 \in 1..(n + 1)
    BY <1>9
  <2>2. Kid(i).kind = kind /\ Kid(1).kind = kind
    BY <1>15, <2>1
  <2>3. up.children[i] # MaxPages /\ Len(up.children) = n + 1
    BY <1>9, <1>10, <1>11
  <2>4. QED
    BY <1>14, <1>16, <1>17, <1>18, <2>2, <2>3 DEF Standing
<1>20. Unmoved
  <2>1. Len(up.children) = n + 1 /\ Len(up.keys) # 0
    BY <1>4, <1>10, <1>11
  <2>2. down[MaxPages] = Free
    BY <1>8, <1>9
  <2>3. QED
    BY <1>11, <1>19, <2>1, <2>2, FreeIs DEF Unmoved
<1>21. Filled(down)
  <2>1. ASSUME NEW p \in Page PROVE Sound(down[p]) /\ Occupancy(down[p]) <= N
    <3>1. CASE p > n + 1
      BY <1>8, <3>1, FreeIs
    <3>2. CASE ~(p > n + 1)
      <4>1. p \in 1..(n + 1)
        BY <1>9, <3>2 DEF Page
      <4>2. QED
        BY <1>14, <1>15, <4>1
    <3>3. QED
      BY <3>1, <3>2
  <2>2. down = [p \in Page |-> down[p]]
    BY <1>8
  <2>3. QED
    BY <2>1, <2>2 DEF Filled
<1>22. Pages
  BY <1>4, <1>9, <1>11, <1>12, <1>21 DEF Pages
<1>23. QED
  BY <1>20, <1>22 DEF IInv, Init

-----------------------------------------------------------------------------
(***************************************************************************)
(* The theorems.                                                           *)
(***************************************************************************)
LEMMA AbsRoot ==
  ASSUME NEW pg
  PROVE  AbsPage(pg).isRoot = pg.isRoot
BY DEF AbsPage

LEMMA FamilyWellFormed ==
  ASSUME Pages, Unmoved
  PROVE  Family!WellFormed
<1> DEFINE a == up.keys
<1>1. Holder(up) /\ Occupancy(up) = Len(a) /\ Len(a) \in Nat /\ Len(a) <= N
  BY UpFacts DEF Holder, Occupancy, IsLeaf, Pages
<1>2. Family!Occupancy(AbsPage(up)) \in 0..N
  BY <1>1, ContentsAre, ArraysAssumption
<1>3. /\ AbsPage(up).kind = "internal" /\ AbsPage(up).low = 0 /\ AbsPage(up).high = MaxKey + 1
  BY AbsParts, UpFacts DEF Unmoved
<1>4. AbsPage(up).isRoot
  BY AbsRoot, Zenon DEF Unmoved
<1>5. Family!Separators(AbsPage(up)) = Elements(a)
  BY UpFacts, SeparatorsAre
<1>6. ASSUME NEW p \in 0..Len(a), NEW s, s = SlotOf(a, p)
      PROVE  /\ AbsPage(up).kids[s] \in Page
             /\ Family!Active(AbsPage(down[AbsPage(up).kids[s]]))
             /\ Family!Occupancy(AbsPage(down[AbsPage(up).kids[s]]))
                  \in Family!Minimum(AbsPage(down[AbsPage(up).kids[s]]))..N
             /\ AbsPage(down[AbsPage(up).kids[s]]).low = s
             /\ AbsPage(down[AbsPage(up).kids[s]]).high = Family!NextSlot(AbsPage(up), s)
             /\ \A k \in Family!Contents(AbsPage(down[AbsPage(up).kids[s]])) :
                  s <= k /\ k < Family!NextSlot(AbsPage(up), s)
  <2>1. PICK i : i = p + 1
    OBVIOUS
  <2>2. p \in Nat /\ i \in 1..Len(up.children) /\ p \in 0..Len(up.children) /\ i \in 0..Len(up.children)
    BY <1>1, <2>1, UpFacts
  <2>3. PICK pg : pg = Kid(i)
    OBVIOUS
  <2>4. /\ up.children[i] \in Page /\ Holder(pg) /\ Occupancy(pg) <= N /\ Standing(i)
        /\ Minimum(pg) <= Occupancy(pg)
    BY <2>2, <2>3, StandingAt DEF Standing
  <2>5. Between(pg, Fence(p), Fence(i))
    BY <2>1, <2>2, <2>3, <2>4, BetweenAt
  <2>6. Fence(p) = s
    <3>1. p # Len(up.children)
      BY <2>2, UpFacts
    <3>2. QED
      BY <1>6, <3>1 DEF Fence, SlotOf
  <2>7. Fence(i) = Family!NextSlot(AbsPage(up), s)
    <3>1. Family!NextSlot(AbsPage(up), s) = IF p = Len(a) THEN MaxKey + 1 ELSE a[p + 1]
      BY <1>6, UpFacts, SlotsAre
    <3>2. i # 0 /\ (i = Len(up.children) <=> p = Len(a))
      BY <1>1, <2>1, <2>2, UpFacts
    <3>3. QED
      BY <2>1, <3>1, <3>2 DEF Fence
  <2>8. AbsPage(up).kids[s] = up.children[i]
    <3>1. CASE p = 0
      BY <1>6, <2>1, <3>1, UpFacts DEF SlotOf
    <3>2. CASE p # 0
      <4>1. p \in 1..Len(a) /\ s = a[p]
        BY <1>6, <3>2 DEF SlotOf
      <4>2. QED
        BY <2>1, <4>1, UpFacts
    <3>3. QED
      BY <3>1, <3>2
  <2>9. down[AbsPage(up).kids[s]] = pg
    BY <2>3, <2>8 DEF Kid
  <2>10. /\ Family!Active(AbsPage(pg)) /\ Family!Occupancy(AbsPage(pg)) = Occupancy(pg)
         /\ Family!Minimum(AbsPage(pg)) = Minimum(pg)
         /\ Family!Contents(AbsPage(pg)) = Elements(ColumnOf(pg))
    BY <2>4, ContentsAre
  <2>11. Occupancy(pg) \in Minimum(pg)..N
    <3>1. Occupancy(pg) \in Nat /\ Minimum(pg) \in Nat
      BY <2>4, ColumnFacts, MinimumTypes
    <3>2. QED
      BY <2>4, <3>1, ArraysAssumption
  <2>12. pg.low = s /\ pg.high = Fence(i)
    BY <2>5, <2>6 DEF Between
  <2>13. \A k \in Elements(ColumnOf(pg)) : s <= k /\ k < Fence(i)
    BY <2>5, <2>6 DEF Between, Elements
  <2>14. AbsPage(pg).low = s /\ AbsPage(pg).high = Fence(i)
    BY <2>12, AbsParts
  <2>15. QED
    BY <2>4, <2>7, <2>8, <2>9, <2>10, <2>11, <2>13, <2>14
<1>7. ASSUME NEW s \in {0} \cup Family!Separators(AbsPage(up))
      PROVE  \E p \in 0..Len(a) : s = SlotOf(a, p)
  <2>1. CASE s = 0
    BY <1>1, <2>1 DEF SlotOf
  <2>2. CASE s # 0
    <3>1. PICK p \in 1..Len(a) : s = a[p]
      BY <1>5, <1>7, <2>2 DEF Elements
    <3>2. p \in 0..Len(a) /\ p # 0
      BY <1>1, <3>1
    <3>3. QED
      BY <3>1, <3>2 DEF SlotOf
  <2>3. QED
    BY <2>1, <2>2
<1>8. ASSUME NEW s \in {0} \cup Family!Separators(AbsPage(up))
      PROVE  /\ Family!Active(AbsDown(down)[AbsPage(up).kids[s]])
             /\ Family!Occupancy(AbsDown(down)[AbsPage(up).kids[s]])
                  \in Family!Minimum(AbsDown(down)[AbsPage(up).kids[s]])..N
             /\ AbsDown(down)[AbsPage(up).kids[s]].low = s
             /\ AbsDown(down)[AbsPage(up).kids[s]].high = Family!NextSlot(AbsPage(up), s)
             /\ \A k \in Family!Contents(AbsDown(down)[AbsPage(up).kids[s]]) :
                  s <= k /\ k < Family!NextSlot(AbsPage(up), s)
  <2>1. PICK p \in 0..Len(a) : s = SlotOf(a, p)
    BY <1>7
  <2>2. AbsPage(up).kids[s] \in Page
    BY <1>6, <2>1
  <2>3. AbsDown(down)[AbsPage(up).kids[s]] = AbsPage(down[AbsPage(up).kids[s]])
    BY <2>2, AbsAt
  <2>4. QED
    BY <1>6, <2>1, <2>3
<1>9. QED
  BY <1>2, <1>3, <1>4, <1>8 DEF Family!WellFormed, Family!NegInf, Family!PosInf, AbsDown

\* A change keeps every page sound, and is a change of PageFamily.
LEMMA ChangeStep ==
  ASSUME Pages, Unmoved, Change
  PROVE  Pages' /\ Family!Next
<1>1. PICK k \in Key :
        \/ \E v \in Val : Store(k, v)
        \/ Erase(k)
        \/ LearnSplit(k, Fresh) \/ Split(k, Fresh)
        \/ LearnMerge(k)
        \/ BorrowFromLeft(k) \/ BorrowFromRight(k) \/ Merge(k)
  BY DEF Change
<1>2. k \in Family!Key /\ Fresh \in Family!Page
  BY FreshFacts DEF Family!Key, Family!Page, Key, Page
<1>3. CASE \E v \in Val : Store(k, v)
  <2>1. PICK v \in Val : Store(k, v)
    BY <1>3
  <2>2. QED
    BY <1>2, <2>1, StoreStep DEF Family!Next
<1>4. CASE Erase(k)
  BY <1>2, <1>4, EraseStep DEF Family!Next
<1>5. CASE LearnSplit(k, Fresh)
  BY <1>2, <1>5, LearnSplitStep DEF Family!Next
<1>6. CASE Split(k, Fresh)
  BY <1>2, <1>6, SplitStep DEF Family!Next
<1>7. CASE LearnMerge(k)
  BY <1>2, <1>7, LearnMergeStep DEF Family!Next
<1>8. CASE BorrowFromLeft(k)
  BY <1>2, <1>8, BorrowFromLeftStep DEF Family!Next
<1>9. CASE BorrowFromRight(k)
  BY <1>2, <1>9, BorrowFromRightStep DEF Family!Next
<1>10. CASE Merge(k)
  BY <1>2, <1>10, MergeStep DEF Family!Next
<1>11. QED
  BY <1>1, <1>3, <1>4, <1>5, <1>6, <1>7, <1>8, <1>9, <1>10

LEMMA SoundFits ==
  ASSUME NEW pg, Sound(pg), Occupancy(pg) <= N
  PROVE  PageFits(pg)
<1>0. N \in Nat
  BY ArraysAssumption
<1>1. CASE pg.kind = "leaf"
  <2>1. /\ pg.keys = <<>> /\ pg.children = <<>> /\ pg.entries \in Seq(Entry)
        /\ Column(KeysIn(pg.entries))
    BY <1>1 DEF Sound, Holds
  <2>2. Len(pg.entries) <= N
    BY <1>1 DEF Occupancy, IsLeaf
  <2>3. PICK e : e = pg.entries
    OBVIOUS
  <2>4. /\ e \in Seq(Entry) /\ Len(e) \in Nat /\ DOMAIN e = 1..Len(e) /\ Len(KeysIn(e)) = Len(e)
        /\ \A i \in 1..Len(e) : KeysIn(e)[i] = e[i].key
    BY <2>1, <2>3, EntryColumns
  <2>5. Ascending([i \in DOMAIN e |-> e[i].key])
    BY <2>1, <2>3, <2>4 DEF Ascending, Column, Climbs
  <2>6. Ascending([i \in DOMAIN pg.entries |-> pg.entries[i].key])
    BY <2>3, <2>5
  <2>7. Ascending(pg.keys) /\ \A i, j \in DOMAIN pg.children : i # j => pg.children[i] # pg.children[j]
    BY <2>1 DEF Ascending
  <2>8. Len(pg.keys) <= N /\ Len(pg.children) <= N + 1
    BY <1>0, <2>1
  <2>9. QED
    BY <1>1, <2>2, <2>6, <2>7, <2>8 DEF PageFits
<1>2. CASE pg.kind = "internal"
  <2>1. /\ pg.keys \in Seq(Key) /\ pg.children \in Seq(Page) /\ Len(pg.keys) \in Nat
        /\ Len(pg.children) = Len(pg.keys) + 1 /\ Climbs(pg.keys) /\ Different(pg.children)
    BY <1>2, InternalFacts DEF Branches, Column
  <2>2. pg.entries = <<>> /\ Len(pg.keys) <= N
    BY <1>2 DEF Sound, Occupancy, IsLeaf
  <2>3. DOMAIN pg.keys = 1..Len(pg.keys) /\ DOMAIN pg.children = 1..Len(pg.children)
    BY <2>1
  <2>4. Ascending(pg.keys) /\ \A i, j \in DOMAIN pg.children : i # j => pg.children[i] # pg.children[j]
    BY <2>1, <2>3 DEF Ascending, Climbs, Different
  <2>5. Len(pg.children) <= N + 1
    BY <1>0, <2>1, <2>2
  <2>6. Ascending([i \in DOMAIN pg.entries |-> pg.entries[i].key]) /\ Len(pg.entries) <= N
    BY <1>0, <2>2 DEF Ascending
  <2>7. QED
    BY <2>1, <2>2, <2>4, <2>5, <2>6 DEF PageFits
<1>3. CASE pg.kind \notin {"leaf", "internal"}
  <2>1. pg.entries = <<>> /\ pg.keys = <<>> /\ pg.children = <<>>
    BY <1>3 DEF Sound
  <2>2. QED
    BY <1>0, <1>3, <2>1 DEF PageFits, Ascending
<1>4. QED
  BY <1>1, <1>2, <1>3

LEMMA SeekIs ==
  ASSUME NEW pg, Sound(pg), pg.kind = "leaf", NEW k \in Key, NEW inclusive \in BOOLEAN,
         NEW after, after = {x \in Family!Records(AbsPage(pg)) : IF inclusive THEN x >= k ELSE x > k},
         NEW index, index = SeekIndex(pg, k, inclusive)
  PROVE  IF after = {} THEN index = Len(pg.entries)
         ELSE At(pg.entries, index).key = Family!Min(after)
<1>1. PICK a, c : a = KeysIn(pg.entries) /\ c = Search(pg, k).index
  OBVIOUS
<1>2. /\ c \in 0..Len(a) /\ Len(a) \in Nat /\ Len(pg.entries) = Len(a)
      /\ \A i \in 1..c : a[i] < k
      /\ \A i \in (c + 1)..Len(a) : k <= a[i]
      /\ Search(pg, k).found => c + 1 \in 1..Len(a) /\ a[c + 1] = k
      /\ ~Search(pg, k).found => Fits(a, c, k)
  BY <1>1, SearchFinds
<1>3. /\ pg.entries \in Seq(Entry) /\ Column(a) /\ Climbs(a)
      /\ \A i \in 1..Len(a) : a[i] \in Key /\ a[i] \in Nat /\ a[i] = pg.entries[i].key
  <2>1. pg.entries \in Seq(Entry) /\ Column(a)
    BY <1>1 DEF Sound, Holds
  <2>2. \A i \in 1..Len(a) : a[i] \in Key /\ a[i] = pg.entries[i].key
    BY <1>1, <1>2, <2>1, EntryColumns
  <2>3. QED
    BY <2>1, <2>2, KeyTypes DEF Column
<1>4. Family!Records(AbsPage(pg)) = Elements(a)
  BY <1>1, RecordsAre
<1>5. index = IF Search(pg, k).found /\ ~inclusive THEN c + 1 ELSE c
  BY <1>1 DEF SeekIndex
<1>6. k \in Nat
  BY KeyTypes
<1>7. index \in 0..Len(a)
  BY <1>2, <1>5
<1>8. ASSUME NEW i \in 1..Len(a) PROVE a[i] \in after <=> i > index
  <2>1. a[i] \in Elements(a) /\ a[i] \in Nat
    BY <1>3 DEF Elements
  <2>2. a[i] \in after <=> IF inclusive THEN a[i] >= k ELSE a[i] > k
    BY <1>4, <2>1
  <2>3. a[i] >= k <=> i > c
    <3>1. i \in 1..c \/ i \in (c + 1)..Len(a)
      BY <1>2
    <3>2. CASE i \in 1..c
      BY <1>2, <1>6, <2>1, <3>2
    <3>3. CASE i \in (c + 1)..Len(a)
      BY <1>2, <1>6, <2>1, <3>3
    <3>4. QED
      BY <3>1, <3>2, <3>3
  <2>4. CASE inclusive
    BY <1>5, <2>2, <2>3, <2>4
  <2>5. CASE ~inclusive /\ Search(pg, k).found
    <3>1. c + 1 \in 1..Len(a) /\ a[c + 1] = k /\ index = c + 1
      BY <1>2, <1>5, <2>5
    <3>2. CASE i > c + 1
      <4>1. a[i] > k
        BY <1>3, <1>6, <2>1, <3>1, <3>2 DEF Climbs
      <4>2. QED
        BY <2>2, <2>5, <3>1, <3>2, <4>1
    <3>3. CASE ~(i > c + 1)
      <4>1. i = c + 1 \/ ~(i > c)
        BY <1>2, <3>3
      <4>2. ~(a[i] > k)
        BY <1>6, <2>1, <2>3, <3>1, <4>1
      <4>3. QED
        BY <2>2, <2>5, <3>1, <3>3, <4>2
    <3>4. QED
      BY <3>2, <3>3
  <2>6. CASE ~inclusive /\ ~Search(pg, k).found
    <3>1. /\ index = c /\ \A j \in 1..c : a[j] < k
          /\ \A j \in (c + 1)..Len(a) : a[j] > k
      BY <1>2, <1>5, <2>6 DEF Fits
    <3>2. a[i] > k <=> i > c
      <4>1. i \in 1..c \/ i \in (c + 1)..Len(a)
        BY <1>2
      <4>2. CASE i \in 1..c
        BY <1>2, <1>6, <2>1, <3>1, <4>2
      <4>3. CASE i \in (c + 1)..Len(a)
        BY <1>2, <1>6, <2>1, <3>1, <4>3
      <4>4. QED
        BY <4>1, <4>2, <4>3
    <3>3. QED
      BY <2>2, <2>6, <3>1, <3>2
  <2>7. QED
    BY <2>4, <2>5, <2>6
<1>9. \A x \in after : \E i \in 1..Len(a) : x = a[i] /\ i > index
  <2>1. \A x \in after : \E i \in 1..Len(a) : x = a[i]
    BY <1>4 DEF Elements
  <2>2. QED
    BY <1>8, <2>1
<1>10. CASE index = Len(a)
  <2>1. after = {}
    <3>1. \A i \in 1..Len(a) : ~(i > index)
      BY <1>2, <1>10
    <3>2. QED
      BY <1>9, <3>1
  <2>2. QED
    BY <1>2, <1>10, <2>1
<1>11. CASE index # Len(a)
  <2>1. index + 1 \in 1..Len(a) /\ index + 1 > index
    BY <1>2, <1>7, <1>11
  <2>2. a[index + 1] \in after
    BY <1>8, <2>1
  <2>3. ASSUME NEW x \in after PROVE a[index + 1] <= x
    <3>1. PICK i \in 1..Len(a) : x = a[i] /\ i > index
      BY <1>9
    <3>2. i = index + 1 \/ index + 1 < i
      BY <1>7, <3>1
    <3>3. a[index + 1] \in Nat /\ a[i] \in Nat
      BY <1>3, <2>1
    <3>4. QED
      BY <1>3, <2>1, <3>1, <3>2, <3>3 DEF Climbs
  <2>4. after \subseteq Int
    BY <1>3, <1>9
  <2>5. Family!Min(after) = a[index + 1]
    BY <2>2, <2>3, <2>4, LeastIs
  <2>6. At(pg.entries, index).key = a[index + 1]
    BY <1>3, <2>1 DEF At
  <2>7. QED
    BY <2>2, <2>5, <2>6
<1>12. QED
  BY <1>10, <1>11

\* The invariant is inductive.
THEOREM Invariant == Spec => []IInv
<1>1. IInv /\ [Next]_vars => IInv'
  <2> SUFFICES ASSUME IInv, [Next]_vars PROVE IInv'
    OBVIOUS
  <2>1. CASE Next
    <3>1. ~moved /\ Change /\ moved' = TRUE
      BY <2>1 DEF Next
    <3>2. Pages'
      BY <3>1, ChangeStep DEF IInv
    <3>3. QED
      BY <3>1, <3>2 DEF IInv
  <2>2. CASE UNCHANGED vars
    <3>1. up' = up /\ down' = down /\ moved' = moved
      BY <2>2 DEF vars
    <3>2. Pages' /\ (~moved' => Unmoved')
      BY SMTT(30), <3>1 DEF IInv, Pages, Filled, Unmoved, Standing, Fence, Kid
    <3>3. QED
      BY <3>1, <3>2 DEF IInv
  <2>3. QED
    BY <2>1, <2>2
<1>2. QED
  BY <1>1, InitInvariant, PTL DEF Spec

\* No split, merge, borrow, insert or remove of node.rs overruns an array, which
\* would panic in Array::insert: the pages of every reachable family hold at
\* most N records or separators, in ascending order and none twice, and one
\* child more than separators, whatever N, MaxKey and the family are.
THEOREM ArraysStayFit == Spec => []ArraysFit
<1>1. IInv => ArraysFit
  <2> SUFFICES ASSUME IInv PROVE ArraysFit
    OBVIOUS
  <2>1. PageFits(up)
    <3>1. Sound(up) /\ Occupancy(up) <= N
      BY DEF IInv, Pages, Occupancy, IsLeaf
    <3>2. QED
      BY <3>1, SoundFits
  <2>2. ASSUME NEW p \in Page PROVE PageFits(down[p])
    <3>1. Sound(down[p]) /\ Occupancy(down[p]) <= N
      BY PageAt DEF IInv
    <3>2. QED
      BY <3>1, SoundFits
  <2>3. QED
    BY <2>1, <2>2 DEF ArraysFit
<1>2. QED
  BY <1>1, Invariant, PTL

\* The searches of node.rs are right for arrays of any length: child_index finds
\* the child that owns the key, and entry_at_or_after the least record at or after
\* the bound, or the end of the leaf if there is none.
THEOREM SearchesFind == Spec => []IndexesAgree
<1>1. IInv => IndexesAgree
  <2> SUFFICES ASSUME IInv, NEW k \in Key
               PROVE  /\ HomeRef(k) = Family!Home(k)
                      /\ IsLeaf(Home(k)) => \A inclusive \in BOOLEAN :
                           LET index == SeekIndex(Home(k), k, inclusive)
                               after == {x \in Family!Records(AbsPage(Home(k))) :
                                           IF inclusive THEN x >= k ELSE x > k}
                           IN  IF after = {} THEN index = Len(Home(k).entries)
                               ELSE At(Home(k).entries, index).key = Family!Min(after)
    BY DEF IndexesAgree
  <2>1. Pages
    BY DEF IInv
  <2>2. HomeRef(k) = Family!Home(k) /\ Sound(Home(k))
    BY <2>1, HomeIs, HomeAt
  <2>3. ASSUME IsLeaf(Home(k)), NEW inclusive \in BOOLEAN,
               NEW index, index = SeekIndex(Home(k), k, inclusive),
               NEW after, after = {x \in Family!Records(AbsPage(Home(k))) :
                                     IF inclusive THEN x >= k ELSE x > k}
        PROVE  IF after = {} THEN index = Len(Home(k).entries)
               ELSE At(Home(k).entries, index).key = Family!Min(after)
    BY <2>2, <2>3, SeekIs DEF IsLeaf
  <2>4. QED
    BY <2>2, <2>3
<1>2. QED
  BY <1>1, Invariant, PTL

\* The arrays implement the finite maps: every initial family is a well-formed
\* one, and every index, length and cut of split_full, insert_split, the borrows,
\* the merge and the leaf's insert and remove does what PageFamily says of maps.
THEOREM ArraysImplementMaps == Spec => ArraysImplementPages
<1>1. Init => Family!WellFormed
  BY InitInvariant, FamilyWellFormed DEF IInv, Init
<1>2. IInv /\ [Next]_vars => [Family!Next]_Family!vars
  <2> SUFFICES ASSUME IInv, [Next]_vars PROVE [Family!Next]_Family!vars
    OBVIOUS
  <2>1. CASE Next
    <3>1. ~moved /\ Change
      BY <2>1 DEF Next
    <3>2. Family!Next
      BY <3>1, ChangeStep DEF IInv
    <3>3. QED
      BY <3>2
  <2>2. CASE UNCHANGED vars
    <3>1. up' = up /\ down' = down
      BY <2>2 DEF vars
    <3>2. UNCHANGED Family!vars
      BY <3>1 DEF Family!vars
    <3>3. QED
      BY <3>2
  <2>3. QED
    BY <2>1, <2>2
<1>3. QED
  BY <1>1, <1>2, Invariant, PTL DEF Spec, ArraysImplementPages, Family!Spec
=============================================================================
