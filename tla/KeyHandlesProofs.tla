--------------------------- MODULE KeyHandlesProofs ---------------------------
(***************************************************************************)
(* Proofs about KeyHandles: a separator and the fences beside it are one   *)
(* allocation, so that no statement in the middle of a borrow or a merge   *)
(* drops the last owner of a key, and every change that begins is          *)
(* completed.                                                              *)
(***************************************************************************)
EXTENDS KeyHandles, FiniteSetTheorems, SequenceTheorems, TLAPS

-----------------------------------------------------------------------------
(***************************************************************************)
(* Sequences with an element more, or less, or another.                    *)
(***************************************************************************)
LEMMA Inserted ==
  ASSUME NEW T, NEW s \in Seq(T), NEW i \in 1..(Len(s) + 1), NEW e \in T
  PROVE  /\ InsertAt(s, i, e) \in Seq(T)
         /\ Len(InsertAt(s, i, e)) = Len(s) + 1
         /\ \A j \in 1..(Len(s) + 1) :
              InsertAt(s, i, e)[j] = IF j < i THEN s[j]
                                     ELSE IF j = i THEN e ELSE s[j - 1]
<1> DEFINE a == SubSeq(s, 1, i - 1)
           b == SubSeq(s, i, Len(s))
<1>0. Len(s) \in Nat
  OBVIOUS
<1>1. /\ a \in Seq(T) /\ Len(a) = i - 1
      /\ \A j \in 1..(i - 1) : a[j] = s[j]
  <2>1. \A j \in 1..(i - 1) : s[j] \in T
    BY <1>0
  <2>2. /\ SubSeq(s, 1, i - 1) \in Seq(T)
        /\ Len(SubSeq(s, 1, i - 1)) = IF 1 <= i - 1 THEN i - 1 - 1 + 1 ELSE 0
        /\ \A j \in 1..(i - 1 - 1 + 1) : SubSeq(s, 1, i - 1)[j] = s[1 + j - 1]
    BY <1>0, <2>1, SubSeqProperties
  <2>3. QED
    BY <1>0, <2>2
<1>2. /\ b \in Seq(T) /\ Len(b) = Len(s) - i + 1
      /\ \A j \in 1..(Len(s) - i + 1) : b[j] = s[i + j - 1]
  <2>1. \A j \in i..Len(s) : s[j] \in T
    BY <1>0
  <2>2. /\ SubSeq(s, i, Len(s)) \in Seq(T)
        /\ Len(SubSeq(s, i, Len(s))) = IF i <= Len(s) THEN Len(s) - i + 1 ELSE 0
        /\ \A j \in 1..(Len(s) - i + 1) : SubSeq(s, i, Len(s))[j] = s[i + j - 1]
    BY <1>0, <2>1, SubSeqProperties
  <2>3. QED
    BY <1>0, <2>2
<1>3. InsertAt(s, i, e) = (a \o <<e>>) \o b
  BY DEF InsertAt
<1> HIDE DEF a, b
<1>4. /\ a \o <<e>> \in Seq(T) /\ Len(a \o <<e>>) = i
      /\ \A j \in 1..i : (a \o <<e>>)[j] = IF j < i THEN s[j] ELSE e
  <2>1. <<e>> \in Seq(T) /\ Len(<<e>>) = 1 /\ <<e>>[1] = e
    OBVIOUS
  <2>2. /\ a \o <<e>> \in Seq(T) /\ Len(a \o <<e>>) = Len(a) + 1
        /\ \A j \in 1..(Len(a) + 1) : (a \o <<e>>)[j] =
                     IF j <= Len(a) THEN a[j] ELSE <<e>>[j - Len(a)]
    BY <1>1, <2>1, ConcatProperties
  <2>3. QED
    BY <1>1, <2>1, <2>2
<1> DEFINE c == a \o <<e>>
<1>5. /\ c \o b \in Seq(T)
      /\ Len(c \o b) = Len(c) + Len(b)
      /\ \A j \in 1..(Len(c) + Len(b)) : (c \o b)[j] =
                     IF j <= Len(c) THEN c[j] ELSE b[j - Len(c)]
  <2>1. c \in Seq(T) /\ b \in Seq(T)
    BY <1>2, <1>4
  <2> HIDE DEF c
  <2>2. QED
    BY <2>1, ConcatProperties
<1>6. Len(c) = i /\ \A j \in 1..i : c[j] = IF j < i THEN s[j] ELSE e
  BY <1>4
<1>7. InsertAt(s, i, e) = c \o b
  BY <1>3
<1> HIDE DEF c
<1>8. Len(c \o b) = Len(s) + 1
  BY <1>0, <1>2, <1>5, <1>6
<1>9. ASSUME NEW j \in 1..(Len(s) + 1)
      PROVE  (c \o b)[j] = IF j < i THEN s[j] ELSE IF j = i THEN e ELSE s[j - 1]
  <2>1. (c \o b)[j] = IF j <= i THEN c[j] ELSE b[j - i]
    BY <1>0, <1>2, <1>5, <1>6
  <2>2. CASE j <= i
    BY <1>0, <1>6, <2>1, <2>2
  <2>3. CASE j > i
    <3>1. j - i \in 1..(Len(s) - i + 1)
      BY <1>0, <2>3
    <3>2. b[j - i] = s[i + (j - i) - 1]
      BY <1>2, <3>1
    <3>3. QED
      BY <1>0, <2>1, <2>3, <3>2
  <2>4. j <= i \/ j > i
    BY <1>0
  <2>5. QED
    BY <2>2, <2>3, <2>4, Zenon
<1>10. QED
  BY <1>5, <1>7, <1>8, <1>9

LEMMA Removed ==
  ASSUME NEW T, NEW s \in Seq(T), NEW i \in 1..Len(s)
  PROVE  /\ RemoveAt(s, i) \in Seq(T)
         /\ Len(RemoveAt(s, i)) = Len(s) - 1
         /\ \A j \in 1..(Len(s) - 1) :
              RemoveAt(s, i)[j] = IF j < i THEN s[j] ELSE s[j + 1]
<1> DEFINE a == SubSeq(s, 1, i - 1)
           b == SubSeq(s, i + 1, Len(s))
<1>0. Len(s) \in Nat
  OBVIOUS
<1>1. /\ a \in Seq(T) /\ Len(a) = i - 1
      /\ \A j \in 1..(i - 1) : a[j] = s[j]
  <2>1. \A j \in 1..(i - 1) : s[j] \in T
    BY <1>0
  <2>2. /\ SubSeq(s, 1, i - 1) \in Seq(T)
        /\ Len(SubSeq(s, 1, i - 1)) = IF 1 <= i - 1 THEN i - 1 - 1 + 1 ELSE 0
        /\ \A j \in 1..(i - 1 - 1 + 1) : SubSeq(s, 1, i - 1)[j] = s[1 + j - 1]
    BY <1>0, <2>1, SubSeqProperties
  <2>3. QED
    BY <1>0, <2>2
<1>2. /\ b \in Seq(T) /\ Len(b) = Len(s) - i
      /\ \A j \in 1..(Len(s) - i) : b[j] = s[i + j]
  <2>1. \A j \in (i + 1)..Len(s) : s[j] \in T
    BY <1>0
  <2>2. /\ SubSeq(s, i + 1, Len(s)) \in Seq(T)
        /\ Len(SubSeq(s, i + 1, Len(s))) = IF i + 1 <= Len(s)
                                           THEN Len(s) - (i + 1) + 1 ELSE 0
        /\ \A j \in 1..(Len(s) - (i + 1) + 1) :
             SubSeq(s, i + 1, Len(s))[j] = s[i + 1 + j - 1]
    BY <1>0, <2>1, SubSeqProperties
  <2>3. QED
    BY <1>0, <2>2
<1>3. RemoveAt(s, i) = a \o b
  BY DEF RemoveAt
<1> HIDE DEF a, b
<1>4. /\ a \o b \in Seq(T)
      /\ Len(a \o b) = i - 1 + (Len(s) - i)
      /\ \A j \in 1..(i - 1 + (Len(s) - i)) : (a \o b)[j] =
                     IF j <= i - 1 THEN a[j] ELSE b[j - (i - 1)]
  BY <1>1, <1>2, ConcatProperties
<1>5. QED
  BY <1>0, <1>1, <1>2, <1>3, <1>4

-----------------------------------------------------------------------------
(***************************************************************************)
(* Finite sets of handles.                                                 *)
(***************************************************************************)
LEMMA KeyTypes ==
  /\ \A h \in Handle : h.key \in Key /\ h.key \in Nat /\ h.key # 0
  /\ NoHandle \notin Handle /\ NoHandle.key = 0
BY HandlesAssumption DEF Handle, NoHandle

LEMMA LeastNumber ==
  ASSUME NEW S, S \subseteq Nat, S # {}
  PROVE  \E x \in S : \A y \in S : x <= y
<1>1. PICK x \in S : \A y \in S : ~(<<y, x>> \in OpToRel(<, Nat))
  BY NatLessThanWellFounded, WFMin, Zenon
<1>2. \A y \in S : ~(y < x)
  BY <1>1 DEF OpToRel
<1>3. QED
  BY <1>2

LEMMA LeastHandle ==
  ASSUME NEW S \in SUBSET Handle, S # {}
  PROVE  Least(S) \in S /\ \A g \in S : Least(S).key <= g.key
<1> DEFINE K == {h.key : h \in S}
<1>1. K \subseteq Nat /\ K # {}
  BY KeyTypes
<1>2. PICK x \in K : \A y \in K : x <= y
  <2> HIDE DEF K
  <2> QED
    BY <1>1, LeastNumber
<1>3. \E h \in S : \A g \in S : h.key <= g.key
  BY <1>2
<1>4. QED
  BY <1>3 DEF Least

HasGreatest(S) == \E h \in S : \A g \in S : h.key >= g.key

LEMMA GreatestHandle ==
  ASSUME NEW S \in SUBSET Handle, S # {}, IsFiniteSet(S)
  PROVE  Greatest(S) \in S /\ \A g \in S : Greatest(S).key >= g.key
<1> DEFINE Bad == {n \in Nat : \E T \in SUBSET Handle :
                     /\ T # {} /\ IsFiniteSet(T) /\ Cardinality(T) = n
                     /\ ~HasGreatest(T)}
<1>1. Bad = {}
  <2> SUFFICES ASSUME Bad # {} PROVE FALSE
    OBVIOUS
  <2>1. Bad \subseteq Nat
    OBVIOUS
  <2>2. PICK n \in Bad : \A m \in Bad : n <= m
    <3> HIDE DEF Bad
    <3> QED
      BY <2>1, LeastNumber
  <2>3. PICK T \in SUBSET Handle : /\ T # {} /\ IsFiniteSet(T) /\ Cardinality(T) = n
                                   /\ ~HasGreatest(T)
    OBVIOUS
  <2>4. PICK x \in T : TRUE
    BY <2>3
  <2> DEFINE U == T \ {x}
  <2>5. IsFiniteSet(U) /\ Cardinality(U) = n - 1
    BY <2>3, <2>4, FS_RemoveElement
  <2>6. n - 1 \in Nat
    BY <2>5, FS_CardinalityType
  <2>7. n - 1 \notin Bad
    <3> HIDE DEF Bad
    <3> QED
      BY <2>1, <2>2, <2>6
  <2>8. U = {} \/ HasGreatest(U)
    BY <2>5, <2>6, <2>7
  <2>9. HasGreatest(T)
    BY <2>4, <2>8, KeyTypes DEF HasGreatest
  <2>10. QED
    BY <2>3, <2>9
<1>2. HasGreatest(S)
  BY <1>1, FS_CardinalityType
<1>3. QED
  BY <1>2 DEF HasGreatest, Greatest

\* The handles of S whose key is below m.
Under(S, m) == {g \in S : g.key < m}

Distinct(S) == \A g, h \in S : g.key = h.key => g = h

\* A full leaf has a record with exactly c records before it.
LEMMA MedianHandle ==
  ASSUME NEW S \in SUBSET Handle, IsFiniteSet(S), Distinct(S),
         NEW c \in Nat, c < Cardinality(S)
  PROVE  \E h \in S : Cardinality(Under(S, h.key)) = c
<1> DEFINE T == {m \in Nat : Cardinality(Under(S, m)) > c}
<1>1. \A m : IsFiniteSet(Under(S, m)) /\ Cardinality(Under(S, m)) \in Nat
  BY FS_Subset, FS_CardinalityType DEF Under
<1>2. S # {} /\ Cardinality(S) \in Nat
  BY FS_EmptySet, FS_CardinalityType
<1>3. PICK m \in T : \A l \in T : m <= l
  <2>1. Greatest(S) \in S /\ \A g \in S : Greatest(S).key >= g.key
    BY <1>2, GreatestHandle
  <2>2. Greatest(S).key \in Nat
    BY <2>1, KeyTypes
  <2>3. \A g \in S : g.key < Greatest(S).key + 1
    BY <2>1, <2>2, KeyTypes
  <2>4. Under(S, Greatest(S).key + 1) = S
    BY <2>3 DEF Under
  <2>5. Greatest(S).key + 1 \in T
    BY <1>2, <2>2, <2>4
  <2>6. T \subseteq Nat
    OBVIOUS
  <2> HIDE DEF T
  <2>7. QED
    BY <2>5, <2>6, LeastNumber
<1>4. m \in Nat /\ Cardinality(Under(S, m)) > c
  OBVIOUS
<1>5. m # 0
  <2>1. Under(S, 0) = {}
    BY KeyTypes DEF Under
  <2>2. QED
    BY <1>4, <2>1, FS_EmptySet
<1>6. m - 1 \in Nat /\ m - 1 \notin T
  BY <1>3, <1>4, <1>5
<1>7. Cardinality(Under(S, m - 1)) <= c
  BY <1>1, <1>6
<1>8. CASE \E h \in S : h.key = m - 1
  <2>1. PICK h \in S : h.key = m - 1
    BY <1>8
  <2>2. Under(S, m) = Under(S, m - 1) \cup {h}
    <3>1. \A g \in S : g.key < m <=> (g.key < m - 1 \/ g.key = m - 1)
      BY <1>4, KeyTypes
    <3>2. \A g \in S : g.key = m - 1 <=> g = h
      BY <2>1 DEF Distinct
    <3>3. QED
      BY <2>1, <3>1, <3>2 DEF Under
  <2>3. Cardinality(Under(S, m)) <= Cardinality(Under(S, m - 1)) + 1
    <3>1. IsFiniteSet(Under(S, m - 1)) /\ Cardinality(Under(S, m - 1)) \in Nat
      BY <1>1
    <3>2. Cardinality(Under(S, m - 1) \cup {h}) =
            IF h \in Under(S, m - 1) THEN Cardinality(Under(S, m - 1))
                                     ELSE Cardinality(Under(S, m - 1)) + 1
      BY <3>1, FS_AddElement
    <3>3. QED
      BY <2>2, <3>1, <3>2
  <2>4. Cardinality(Under(S, m - 1)) = c
    BY <1>1, <1>4, <1>7, <2>3
  <2>5. QED
    BY <2>1, <2>4
<1>9. CASE ~\E h \in S : h.key = m - 1
  <2>1. \A g \in S : g.key < m <=> g.key < m - 1
    BY <1>4, <1>9, KeyTypes
  <2>2. Under(S, m) = Under(S, m - 1)
    BY <2>1 DEF Under
  <2>3. QED
    BY <1>1, <1>4, <1>7, <2>2
<1>10. QED
  BY <1>8, <1>9

-----------------------------------------------------------------------------
(***************************************************************************)
(* A complete tree: parent s and k over the leaves f.                      *)
(***************************************************************************)
LeafRec == [kind : {"free", "leaf", "redirect"},
            low  : Handle \cup {NoHandle}, high : Handle \cup {NoHandle},
            entries : SUBSET Handle]

\* The boundaries of the i-th child, and the keys between them.
Low(s, i)  == IF i = 1 THEN NoHandle ELSE s[i - 1]
High(s, i) == IF i = Len(s) + 1 THEN NoHandle ELSE s[i]

Within(s, i, x) == /\ i # 1 => s[i - 1].key <= x
                   /\ i # Len(s) + 1 => x < s[i].key

Ascending(s) == \A i, j \in 1..Len(s) : i < j => s[i].key < s[j].key

Fits(s, i, r) == /\ r.kind = "leaf" /\ r.low = Low(s, i) /\ r.high = High(s, i)
                 /\ \A h \in r.entries : Within(s, i, h.key)

Parent(s, k) == /\ s \in Seq(Handle) /\ Ascending(s)
                /\ k \in Seq(Page) /\ Len(k) = Len(s) + 1
                /\ \A i, j \in 1..Len(k) : k[i] = k[j] => i = j

Leaves(f) == /\ f \in [Page -> LeafRec]
             /\ \A p \in Page : IsFiniteSet(f[p].entries) /\ Distinct(f[p].entries)

Complete(s, k, f) ==
  /\ Parent(s, k) /\ Leaves(f)
  /\ \A i \in 1..Len(k) : Fits(s, i, f[k[i]])
  /\ \A p \in Page : (\A i \in 1..Len(k) : k[i] # p) =>
                       f[p].entries = {} /\ f[p].kind # "leaf"

LEMMA ParentTypes ==
  ASSUME NEW s, NEW k, Parent(s, k)
  PROVE  /\ Len(s) \in Nat /\ Len(k) = Len(s) + 1
         /\ \A i \in 1..Len(s) : s[i] \in Handle
         /\ \A i \in 1..(Len(s) + 1) : k[i] \in Page
         /\ DOMAIN s = 1..Len(s) /\ DOMAIN k = 1..(Len(s) + 1)
BY DEF Parent

\* child_index finds the child between whose boundaries the key is.
LEMMA HomeIs ==
  ASSUME seps \in Seq(Handle), Ascending(seps), NEW x \in Nat
  PROVE  /\ HomeIndex(x) \in 1..(Len(seps) + 1)
         /\ Within(seps, HomeIndex(x), x)
         /\ \A i \in 1..(Len(seps) + 1) : Within(seps, i, x) => HomeIndex(x) = i
<1>1. /\ Len(seps) \in Nat /\ DOMAIN seps = 1..Len(seps)
      /\ \A i \in 1..Len(seps) : seps[i].key \in Nat
  BY KeyTypes
<1>2. ASSUME NEW i \in 1..(Len(seps) + 1), Within(seps, i, x)
      PROVE  HomeIndex(x) = i
  <2>1. ASSUME NEW j \in 1..Len(seps)
        PROVE  seps[j].key <= x <=> j \in 1..(i - 1)
    <3>1. CASE j < i
      <4>1. i # 1 /\ i - 1 \in 1..Len(seps) /\ seps[i - 1].key <= x
        BY <1>1, <1>2, <3>1 DEF Within
      <4>2. j = i - 1 \/ seps[j].key < seps[i - 1].key
        BY <1>1, <3>1, <4>1 DEF Ascending
      <4>3. QED
        BY <1>1, <3>1, <4>1, <4>2
    <3>2. CASE j >= i
      <4>1. i # Len(seps) + 1 /\ i \in 1..Len(seps) /\ x < seps[i].key
        BY <1>1, <1>2, <3>2 DEF Within
      <4>2. j = i \/ seps[i].key < seps[j].key
        BY <1>1, <3>2, <4>1 DEF Ascending
      <4>3. QED
        BY <1>1, <3>2, <4>1, <4>2
    <3>3. QED
      BY <1>1, <3>1, <3>2
  <2>2. {j \in DOMAIN seps : seps[j].key <= x} = 1..(i - 1)
    BY <1>1, <2>1
  <2>3. Cardinality(1..(i - 1)) = i - 1
    <3>1. i - 1 \in Int /\ 1 \in Int
      BY <1>1
    <3>2. Cardinality(1..(i - 1)) = IF 1 > i - 1 THEN 0 ELSE i - 1 - 1 + 1
      BY <3>1, FS_Interval
    <3>3. QED
      BY <1>1, <3>2
  <2>4. HomeIndex(x) = 1 + (i - 1)
    BY <2>2, <2>3, Zenon DEF HomeIndex
  <2>5. QED
    BY <1>1, <2>4
<1>3. \E i \in 1..(Len(seps) + 1) : Within(seps, i, x)
  <2> DEFINE E == {j \in 1..(Len(seps) + 1) : j # Len(seps) + 1 => x < seps[j].key}
  <2>1. E \subseteq Nat /\ E # {}
    BY <1>1
  <2>2. PICK i \in E : \A j \in E : i <= j
    <3> HIDE DEF E
    <3> QED
      BY <2>1, LeastNumber
  <2>3. i # 1 => seps[i - 1].key <= x
    <3> SUFFICES ASSUME i # 1 PROVE seps[i - 1].key <= x
      OBVIOUS
    <3>1. i - 1 \in 1..Len(seps) /\ ~(i <= i - 1)
      BY <1>1
    <3>2. i - 1 \notin E
      BY <2>2, <3>1
    <3>3. QED
      BY <1>1, <3>1, <3>2
  <2>4. QED
    BY <2>3 DEF Within
<1>4. QED
  BY <1>2, <1>3

\* Neighbours' ranges do not meet.
LEMMA Between ==
  ASSUME NEW s \in Seq(Handle), Ascending(s), NEW i \in 1..(Len(s) + 1),
         NEW j \in 1..(Len(s) + 1), NEW x \in Nat, Within(s, i, x), Within(s, j, x)
  PROVE  i = j
<1>1. Len(s) \in Nat /\ \A m \in 1..Len(s) : s[m].key \in Nat
  BY KeyTypes
<1>2. ASSUME NEW a \in 1..(Len(s) + 1), NEW b \in 1..(Len(s) + 1), a < b,
             Within(s, a, x), Within(s, b, x)
      PROVE  FALSE
  <2>1. a \in 1..Len(s) /\ b - 1 \in 1..Len(s) /\ x < s[a].key /\ s[b - 1].key <= x
    BY <1>1, <1>2 DEF Within
  <2>2. a = b - 1 \/ s[a].key < s[b - 1].key
    BY <1>1, <1>2, <2>1 DEF Ascending
  <2>3. QED
    BY <1>1, <2>1, <2>2
<1>3. QED
  BY <1>1, <1>2

-----------------------------------------------------------------------------
(***************************************************************************)
(* What each change does to a complete tree.                               *)
(***************************************************************************)
\* A leaf with other records.
LEMMA Refilled ==
  ASSUME NEW f \in [Page -> LeafRec], NEW p \in Page, NEW E \in SUBSET Handle,
         NEW g, g = [f EXCEPT ![p].entries = E]
  PROVE  /\ g \in [Page -> LeafRec]
         /\ \A q \in Page : q # p => g[q] = f[q]
         /\ g[p].entries = E /\ g[p].kind = f[p].kind
         /\ g[p].low = f[p].low /\ g[p].high = f[p].high
BY DEF LeafRec

\* A child whose records change and stay between its boundaries.
LEMMA RefilledComplete ==
  ASSUME NEW s, NEW k, NEW f, Complete(s, k, f),
         NEW i \in 1..Len(k), NEW E \in SUBSET Handle,
         IsFiniteSet(E), Distinct(E), \A h \in E : Within(s, i, h.key)
  PROVE  Complete(s, k, [f EXCEPT ![k[i]].entries = E])
<1> DEFINE g == [f EXCEPT ![k[i]].entries = E]
<1>1. /\ Parent(s, k) /\ Leaves(f) /\ k[i] \in Page
      /\ \A j \in 1..Len(k) : k[j] \in Page
  BY DEF Complete, Parent
<1>2. f \in [Page -> LeafRec]
  BY <1>1 DEF Leaves
<1>3. /\ g \in [Page -> LeafRec]
      /\ \A q \in Page : q # k[i] => g[q] = f[q]
      /\ g[k[i]].entries = E /\ g[k[i]].kind = f[k[i]].kind
      /\ g[k[i]].low = f[k[i]].low /\ g[k[i]].high = f[k[i]].high
  <2>1. g = [f EXCEPT ![k[i]].entries = E]
    OBVIOUS
  <2> HIDE DEF g
  <2>2. QED
    BY <1>1, <1>2, <2>1, Refilled
<1> HIDE DEF g
<1>4. Leaves(g)
  BY <1>1, <1>3 DEF Leaves
<1>5. ASSUME NEW j \in 1..Len(k)
      PROVE  Fits(s, j, g[k[j]])
  <2>1. Fits(s, j, f[k[j]])
    BY DEF Complete
  <2>2. CASE j = i
    BY <1>3, <2>1, <2>2 DEF Fits
  <2>3. CASE j # i
    <3>1. k[j] # k[i]
      BY <1>1, <2>3 DEF Parent
    <3>2. g[k[j]] = f[k[j]]
      BY <1>1, <1>3, <3>1
    <3>3. QED
      BY <2>1, <3>2
  <2>4. QED
    BY <2>2, <2>3
<1>6. ASSUME NEW p \in Page, \A j \in 1..Len(k) : k[j] # p
      PROVE  g[p].entries = {} /\ g[p].kind # "leaf"
  <2>1. g[p] = f[p]
    BY <1>3, <1>6
  <2>2. QED
    BY <1>6, <2>1 DEF Complete
<1>7. Complete(s, k, g)
  BY <1>1, <1>4, <1>5, <1>6 DEF Complete
<1>8. QED
  BY <1>7 DEF g

\* A page outside the tree may become anything without records.
LEMMA FreedComplete ==
  ASSUME NEW s, NEW k, NEW f, Complete(s, k, f), NEW p \in Page,
         f[p].kind # "leaf", NEW r \in LeafRec, r.entries = {}, r.kind # "leaf"
  PROVE  Complete(s, k, [f EXCEPT ![p] = r])
<1> DEFINE g == [f EXCEPT ![p] = r]
<1>1. /\ Parent(s, k) /\ Leaves(f)
      /\ \A j \in 1..Len(k) : k[j] \in Page /\ k[j] # p
  BY DEF Complete, Parent, Fits
<1>2. g \in [Page -> LeafRec] /\ g[p] = r /\ \A q \in Page : q # p => g[q] = f[q]
  BY <1>1 DEF Leaves
<1> HIDE DEF g
<1>3. Leaves(g)
  BY <1>1, <1>2, FS_EmptySet DEF Leaves, Distinct
<1>4. \A j \in 1..Len(k) : Fits(s, j, g[k[j]])
  BY <1>1, <1>2 DEF Complete
<1>5. \A q \in Page : (\A j \in 1..Len(k) : k[j] # q) =>
                        g[q].entries = {} /\ g[q].kind # "leaf"
  BY <1>1, <1>2 DEF Complete
<1>6. Complete(s, k, g)
  BY <1>1, <1>3, <1>4, <1>5 DEF Complete
<1>7. QED
  BY <1>6 DEF g

\* A new separator: the children beyond it move up, the others stay.
LEMMA SplitFits ==
  ASSUME NEW s \in Seq(Handle), NEW i \in 1..(Len(s) + 1), NEW e \in Handle,
         NEW r, NEW j \in 1..(Len(s) + 1)
  PROVE  /\ j < i => (Fits(s, j, r) => Fits(InsertAt(s, i, e), j, r))
         /\ j > i => (Fits(s, j, r) => Fits(InsertAt(s, i, e), j + 1, r))
<1> DEFINE z == InsertAt(s, i, e)
<1>0. Len(s) \in Nat
  OBVIOUS
<1>1. /\ Len(z) = Len(s) + 1
      /\ \A m \in 1..(Len(s) + 1) :
           z[m] = IF m < i THEN s[m] ELSE IF m = i THEN e ELSE s[m - 1]
  BY Inserted
<1> HIDE DEF z
<1>2. ASSUME j < i, Fits(s, j, r)
      PROVE  Fits(z, j, r)
  <2>1. j \in 1..Len(s) /\ z[j] = s[j] /\ j # Len(z) + 1
    BY <1>0, <1>1, <1>2
  <2>2. j # 1 => z[j - 1] = s[j - 1]
    BY <1>0, <1>1, <1>2
  <2>3. Low(z, j) = Low(s, j) /\ High(z, j) = High(s, j)
    BY <1>0, <2>1, <2>2 DEF Low, High
  <2>4. \A x : Within(s, j, x) => Within(z, j, x)
    BY <1>0, <2>1, <2>2 DEF Within
  <2>5. QED
    BY <1>2, <2>3, <2>4 DEF Fits
<1>3. ASSUME j > i, Fits(s, j, r)
      PROVE  Fits(z, j + 1, r)
  <2>1. j # 1 /\ j + 1 # 1 /\ z[j + 1 - 1] = s[j - 1]
    BY <1>0, <1>1, <1>3
  <2>2. j + 1 = Len(z) + 1 <=> j = Len(s) + 1
    <3>1. Len(z) = Len(s) + 1 /\ j \in Int
      BY <1>0, <1>1
    <3>2. QED
      BY <1>0, <3>1
  <2>3. j # Len(s) + 1 => z[j + 1] = s[j]
    <3> SUFFICES ASSUME j # Len(s) + 1 PROVE z[j + 1] = s[j]
      OBVIOUS
    <3>1. j + 1 \in 1..(Len(s) + 1) /\ ~(j + 1 < i) /\ j + 1 # i
      BY <1>0, <1>3
    <3>2. z[j + 1] = s[j + 1 - 1]
      BY <1>1, <3>1
    <3>3. QED
      BY <1>0, <3>2
  <2>4. Low(z, j + 1) = Low(s, j) /\ High(z, j + 1) = High(s, j)
    BY <1>0, <2>1, <2>2, <2>3 DEF Low, High
  <2>5. \A x : Within(s, j, x) => Within(z, j + 1, x)
    BY <1>0, <2>1, <2>2, <2>3 DEF Within
  <2>6. QED
    BY <1>3, <2>4, <2>5 DEF Fits
<1>4. QED
  BY <1>2, <1>3 DEF z

LEMMA SplitAscends ==
  ASSUME NEW s \in Seq(Handle), Ascending(s), NEW i \in 1..(Len(s) + 1), NEW e \in Handle,
         i # 1 => s[i - 1].key < e.key, i # Len(s) + 1 => e.key < s[i].key
  PROVE  Ascending(InsertAt(s, i, e))
<1> DEFINE z == InsertAt(s, i, e)
<1>0. /\ Len(s) \in Nat /\ e.key \in Nat
      /\ \A m \in 1..Len(s) : s[m].key \in Nat
  BY KeyTypes
<1>1. Len(z) = Len(s) + 1
  BY Inserted
<1>2. \A m \in 1..(Len(s) + 1) :
        z[m] = IF m < i THEN s[m] ELSE IF m = i THEN e ELSE s[m - 1]
  BY Inserted
<1> HIDE DEF z
<1>3. SUFFICES ASSUME NEW a \in 1..(Len(s) + 1), NEW b \in 1..(Len(s) + 1), a < b
               PROVE  z[a].key < z[b].key
  BY <1>1 DEF z, Ascending
\* Below the new separator, and above it, as before.
<1>4. ASSUME NEW m \in 1..Len(s), m < i
      PROVE  s[m].key < e.key
  <2>1. i - 1 \in 1..Len(s) /\ s[i - 1].key < e.key
    BY <1>0, <1>4
  <2>2. m = i - 1 \/ s[m].key < s[i - 1].key
    BY <1>0, <1>4, <2>1 DEF Ascending
  <2>3. QED
    BY <1>0, <2>1, <2>2
<1>5. ASSUME NEW m \in 1..Len(s), m >= i
      PROVE  e.key < s[m].key
  <2>1. i \in 1..Len(s) /\ e.key < s[i].key
    BY <1>0, <1>5
  <2>2. m = i \/ i < m
    BY <1>0, <1>5, <2>1
  <2>25. i < m => s[i].key < s[m].key
    BY <2>1 DEF Ascending
  <2>3. QED
    BY <1>0, <2>1, <2>2, <2>25
<1>6. CASE b < i
  <2>1. /\ a \in 1..Len(s) /\ b \in 1..Len(s) /\ a < i
    BY <1>0, <1>3, <1>6
  <2>2. z[a] = s[a] /\ z[b] = s[b]
    BY <1>2, <1>6, <2>1
  <2>3. QED
    BY <1>3, <2>1, <2>2 DEF Ascending
<1>7. CASE b = i
  <2>1. a \in 1..Len(s) /\ a < i /\ z[a] = s[a] /\ z[b] = e
    BY <1>0, <1>2, <1>3, <1>7
  <2>2. QED
    BY <1>4, <2>1
<1>8. CASE b > i
  <2>1. b - 1 \in 1..Len(s) /\ b - 1 >= i /\ z[b] = s[b - 1]
    BY <1>0, <1>2, <1>8
  <2>2. CASE a < i
    <3>1. a \in 1..Len(s) /\ a < b - 1 /\ z[a] = s[a]
      BY <1>0, <1>2, <2>1, <2>2
    <3>2. QED
      BY <2>1, <3>1 DEF Ascending
  <2>3. CASE a = i
    <3>1. z[a] = e
      BY <1>2, <2>3
    <3>2. QED
      BY <1>5, <2>1, <3>1
  <2>4. CASE a > i
    <3>1. a - 1 \in 1..Len(s) /\ a - 1 < b - 1 /\ z[a] = s[a - 1]
      BY <1>0, <1>2, <1>3, <2>4
    <3>2. QED
      BY <2>1, <3>1 DEF Ascending
  <2>5. QED
    BY <1>0, <2>2, <2>3, <2>4
<1>9. QED
  BY <1>0, <1>6, <1>7, <1>8

\* What split_full and insert_split do to the i-th leaf and a free page.
Halves(k, f, i, new, e, g) ==
  LET old   == f[k[i]]
      upper == {h \in old.entries : h.key >= e.key}
  IN  /\ f[new].kind = "free" /\ e \in old.entries
      /\ \E h \in old.entries : h.key < e.key
      /\ g \in [Page -> LeafRec]
      /\ \A q \in Page : q # k[i] /\ q # new => g[q] = f[q]
      /\ g[k[i]].entries = old.entries \ upper /\ g[k[i]].kind = old.kind
      /\ g[k[i]].low = old.low /\ g[k[i]].high = e
      /\ g[new].entries = upper /\ g[new].kind = old.kind
      /\ g[new].low = e /\ g[new].high = old.high

\* They leave a complete tree.
LEMMA SplitComplete ==
  ASSUME NEW s, NEW k, NEW f, Complete(s, k, f), NEW i \in 1..Len(k),
         NEW new \in Page, NEW e, NEW g, Halves(k, f, i, new, e, g)
  PROVE  Complete(InsertAt(s, i, e), InsertAt(k, i + 1, new), g)
<1> DEFINE upper == {h \in f[k[i]].entries : h.key >= e.key}
<1>01. /\ f[new].kind = "free" /\ e \in f[k[i]].entries
       /\ \E h \in f[k[i]].entries : h.key < e.key
       /\ g \in [Page -> LeafRec]
       /\ \A q \in Page : q # k[i] /\ q # new => g[q] = f[q]
       /\ g[k[i]].entries = f[k[i]].entries \ upper /\ g[k[i]].kind = f[k[i]].kind
       /\ g[k[i]].low = f[k[i]].low /\ g[k[i]].high = e
       /\ g[new].entries = upper /\ g[new].kind = f[k[i]].kind
       /\ g[new].low = e /\ g[new].high = f[k[i]].high
  BY Zenon DEF Halves
<1> DEFINE z == InsertAt(s, i, e)
           y == InsertAt(k, i + 1, new)
<1>1. /\ Parent(s, k) /\ Leaves(f) /\ Fits(s, i, f[k[i]])
      /\ \A j \in 1..Len(k) : k[j] \in Page /\ Fits(s, j, f[k[j]]) /\ k[j] # new
  BY <1>01 DEF Complete, Parent, Fits
<1>2. /\ s \in Seq(Handle) /\ Ascending(s) /\ k \in Seq(Page) /\ Len(k) = Len(s) + 1
      /\ Len(s) \in Nat /\ i \in 1..(Len(s) + 1) /\ i + 1 \in 1..(Len(k) + 1)
  BY <1>1 DEF Parent
<1>3. /\ f[k[i]].entries \in SUBSET Handle /\ IsFiniteSet(f[k[i]].entries)
      /\ Distinct(f[k[i]].entries) /\ e \in Handle
  BY <1>01, <1>1 DEF Leaves, LeafRec
<1>4. /\ \A m \in 1..Len(s) : s[m].key \in Nat
      /\ \A h \in f[k[i]].entries : h.key \in Nat /\ Within(s, i, h.key)
  BY <1>1, <1>2, <1>3, KeyTypes DEF Fits
<1>5. z \in Seq(Handle) /\ Len(z) = Len(s) + 1 /\ Ascending(z)
  <2>1. i # 1 => s[i - 1].key < e.key
    <3> SUFFICES ASSUME i # 1 PROVE s[i - 1].key < e.key
      OBVIOUS
    <3>1. PICK h \in f[k[i]].entries : h.key < e.key
      BY <1>01
    <3>2. s[i - 1].key <= h.key /\ i - 1 \in 1..Len(s)
      BY <1>2, <1>4 DEF Within
    <3>3. QED
      BY <1>01, <1>4, <3>1, <3>2
  <2>2. i # Len(s) + 1 => e.key < s[i].key
    BY <1>01, <1>4 DEF Within
  <2>3. Ascending(z)
    BY <1>2, <1>3, <2>1, <2>2, SplitAscends
  <2>4. z \in Seq(Handle) /\ Len(z) = Len(s) + 1
    BY <1>2, <1>3, Inserted
  <2>5. QED
    BY <2>3, <2>4
<1>6. /\ y \in Seq(Page) /\ Len(y) = Len(k) + 1
      /\ \A j \in 1..(Len(k) + 1) :
           y[j] = IF j < i + 1 THEN k[j] ELSE IF j = i + 1 THEN new ELSE k[j - 1]
  <2> DEFINE n == i + 1
  <2>1. /\ InsertAt(k, n, new) \in Seq(Page)
        /\ Len(InsertAt(k, n, new)) = Len(k) + 1
        /\ \A j \in 1..(Len(k) + 1) : InsertAt(k, n, new)[j] =
             IF j < n THEN k[j] ELSE IF j = n THEN new ELSE k[j - 1]
    <3>1. k \in Seq(Page) /\ n \in 1..(Len(k) + 1) /\ new \in Page
      BY <1>2
    <3> HIDE DEF n
    <3> DEFINE G(q, j, c, w) == /\ w \in Seq(Page) /\ Len(w) = Len(q) + 1
                                /\ \A m \in 1..(Len(q) + 1) : w[m] =
                                     IF m < j THEN q[m] ELSE IF m = j THEN c ELSE q[m - 1]
    <3>2. \A q \in Seq(Page) : \A j \in 1..(Len(q) + 1) : \A c \in Page :
            G(q, j, c, InsertAt(q, j, c))
      BY Inserted
    <3> HIDE DEF G
    <3>3. G(k, n, new, InsertAt(k, n, new))
      BY <3>1, <3>2, Zenon
    <3>4. QED
      BY <3>3 DEF G
  <2>2. QED
    BY <2>1
<1>65. \A j \in 1..(Len(s) + 1) :
         z[j] = IF j < i THEN s[j] ELSE IF j = i THEN e ELSE s[j - 1]
  BY <1>2, <1>3, Inserted
<1> HIDE DEF z, y
<1>7. z[i] = e
  BY <1>2, <1>65
<1>8. i + 1 # Len(z) + 1 => z[i + 1] = s[i]
  <2> SUFFICES ASSUME i + 1 # Len(z) + 1 PROVE z[i + 1] = s[i]
    OBVIOUS
  <2>1. i + 1 \in 1..(Len(s) + 1)
    BY <1>2, <1>5
  <2>2. z[i + 1] = IF i + 1 < i THEN s[i + 1] ELSE IF i + 1 = i THEN e ELSE s[i + 1 - 1]
    BY <1>65, <2>1
  <2>3. QED
    BY <1>2, <2>2
<1>9. i # 1 => z[i - 1] = s[i - 1]
  <2> SUFFICES ASSUME i # 1 PROVE z[i - 1] = s[i - 1]
    OBVIOUS
  <2>1. i - 1 \in 1..(Len(s) + 1)
    BY <1>2
  <2>2. z[i - 1] = IF i - 1 < i THEN s[i - 1] ELSE IF i - 1 = i THEN e ELSE s[i - 1 - 1]
    BY <1>65, <2>1
  <2>3. QED
    BY <1>2, <2>2
<1>10. Leaves(g)
  <2>1. ASSUME NEW q \in Page
        PROVE  IsFiniteSet(g[q].entries) /\ Distinct(g[q].entries)
    <3>1. CASE q = new \/ q = k[i]
      <4>1. g[q].entries \subseteq f[k[i]].entries
        BY <1>01, <3>1
      <4>2. QED
        BY <1>3, <4>1, FS_Subset DEF Distinct
    <3>2. CASE q # new /\ q # k[i]
      BY <1>01, <1>1, <3>2 DEF Leaves
    <3>3. QED
      BY <3>1, <3>2
  <2>2. QED
    BY <1>01, <2>1 DEF Leaves
<1>11. ASSUME NEW j \in 1..Len(y)
       PROVE  Fits(z, j, g[y[j]])
  <2>0. j \in Nat /\ j \in 1..(Len(s) + 2)
    BY <1>2, <1>6
  <2>1. CASE j < i
    <3>1. j \in 1..Len(k) /\ j \in 1..(Len(s) + 1) /\ y[j] = k[j]
      BY <1>2, <1>6, <2>1
    <3>2. k[j] # k[i]
      BY <1>1, <1>2, <2>1, <3>1 DEF Parent
    <3>3. g[y[j]] = f[k[j]] /\ Fits(s, j, f[k[j]])
      BY <1>01, <1>1, <3>1, <3>2
    <3>4. QED
      BY <1>2, <1>3, <2>1, <3>1, <3>3, SplitFits DEF z
  <2>2. CASE j = i
    <3>1. y[j] = k[i]
      BY <1>2, <1>6, <2>2
    <3>2. j # Len(z) + 1
      BY <1>2, <1>5, <2>2
    <3>3. Low(z, j) = Low(s, i) /\ High(z, j) = e
      BY <1>7, <1>9, <2>2, <3>2 DEF Low, High
    <3>4. ASSUME NEW h \in g[k[i]].entries
          PROVE  Within(z, j, h.key)
      <4>1. h \in f[k[i]].entries /\ ~(h.key >= e.key)
        BY <1>01
      <4>2. h.key < e.key
        BY <1>3, <1>4, <4>1, KeyTypes
      <4>3. i # 1 => s[i - 1].key <= h.key
        BY <1>4, <4>1 DEF Within
      <4>4. QED
        BY <1>7, <1>9, <2>2, <4>2, <4>3 DEF Within
    <3>5. QED
      BY <1>01, <1>1, <3>1, <3>3, <3>4 DEF Fits
  <2>3. CASE j = i + 1
    <3>1. y[j] = new /\ j # 1 /\ j - 1 = i
      <4>1. y[i + 1] = new
        BY <1>2, <1>6
      <4>2. QED
        BY <1>2, <2>3, <4>1
    <3>2. j = Len(z) + 1 <=> i = Len(s) + 1
      <4>1. i \in Int /\ Len(z) = Len(s) + 1 /\ Len(s) \in Int /\ j = i + 1
        BY <1>2, <1>5, <2>3
      <4>2. j = Len(z) + 1 <=> i + 1 = Len(s) + 1 + 1
        BY <4>1
      <4>3. QED
        BY <4>1, <4>2
    <3>3. Low(z, j) = e /\ High(z, j) = High(s, i)
      BY <1>7, <1>8, <2>3, <3>1, <3>2 DEF Low, High
    <3>4. ASSUME NEW h \in g[new].entries
          PROVE  Within(z, j, h.key)
      <4>1. h \in f[k[i]].entries /\ h.key >= e.key
        BY <1>01
      <4>2. e.key <= h.key
        BY <1>3, <1>4, <4>1, KeyTypes
      <4>3. i # Len(s) + 1 => h.key < s[i].key
        BY <1>4, <4>1 DEF Within
      <4>4. QED
        BY <1>7, <1>8, <2>3, <3>1, <3>2, <4>2, <4>3 DEF Within
    <3>5. QED
      BY <1>01, <1>1, <3>1, <3>3, <3>4 DEF Fits
  <2>4. CASE j > i + 1
    <3>1. j - 1 \in 1..Len(k) /\ j - 1 \in 1..(Len(s) + 1) /\ j - 1 > i /\ j - 1 + 1 = j
      BY <1>2, <1>6, <2>0, <2>4
    <3>2. y[j] = k[j - 1]
      BY <1>2, <1>6, <2>4
    <3>3. k[j - 1] # k[i]
      BY <1>1, <1>2, <3>1 DEF Parent
    <3>4. g[y[j]] = f[k[j - 1]] /\ Fits(s, j - 1, f[k[j - 1]])
      BY <1>01, <1>1, <3>1, <3>2, <3>3
    <3>5. Fits(z, j - 1 + 1, g[y[j]])
      BY <1>2, <1>3, <3>1, <3>4, SplitFits DEF z
    <3>6. QED
      BY <3>1, <3>5
  <2>5. QED
    BY <1>2, <2>0, <2>1, <2>2, <2>3, <2>4
<1>12. ASSUME NEW p \in Page, \A j \in 1..Len(y) : y[j] # p
       PROVE  g[p].entries = {} /\ g[p].kind # "leaf"
  <2>1. p # new
    BY <1>2, <1>6, <1>12
  <2>2. ASSUME NEW j \in 1..Len(k)
        PROVE  k[j] # p
    <3>1. CASE j < i + 1
      BY <1>2, <1>6, <1>12, <3>1
    <3>2. CASE j >= i + 1
      <4>1. j + 1 \in 1..Len(y) /\ ~(j + 1 < i + 1) /\ j + 1 # i + 1 /\ j + 1 - 1 = j
        BY <1>2, <1>6, <3>2
      <4>2. y[j + 1] = k[j + 1 - 1]
        BY <1>6, <4>1
      <4>3. QED
        BY <1>12, <4>1, <4>2
    <3>3. QED
      BY <1>2, <3>1, <3>2
  <2>3. g[p] = f[p]
    BY <1>01, <2>1, <2>2
  <2>4. QED
    BY <2>2, <2>3 DEF Complete
<1>13. \A a, b \in 1..Len(y) : y[a] = y[b] => a = b
  <2>0. \A a, b \in 1..Len(k) : k[a] = k[b] => a = b
    BY <1>1 DEF Parent
  <2> SUFFICES ASSUME NEW a \in 1..Len(y), NEW b \in 1..Len(y), y[a] = y[b]
               PROVE  a = b
    OBVIOUS
  <2> DEFINE back(j) == IF j < i + 1 THEN j ELSE j - 1
  <2>1. ASSUME NEW j \in 1..Len(y), j # i + 1
        PROVE  back(j) \in 1..Len(k) /\ y[j] = k[back(j)] /\ y[j] # new
    <3>1. back(j) \in 1..Len(k) /\ y[j] = k[back(j)]
      BY <1>2, <1>6, <2>1
    <3> HIDE DEF back
    <3>2. k[back(j)] # new
      BY <1>1, <3>1
    <3>3. QED
      BY <3>1, <3>2
  <2>2. y[i + 1] = new /\ i + 1 \in 1..Len(y)
    BY <1>2, <1>6
  <2>3. CASE a = i + 1 \/ b = i + 1
    BY <2>1, <2>2, <2>3
  <2>4. CASE a # i + 1 /\ b # i + 1
    <3>1. back(a) = back(b)
      BY <2>0, <2>1, <2>4
    <3>2. QED
      BY <1>2, <1>6, <2>4, <3>1
  <2>5. QED
    BY <2>3, <2>4
<1>14. Parent(z, y)
  BY <1>2, <1>5, <1>6, <1>13 DEF Parent
<1>15. Complete(z, y, g)
  BY <1>10, <1>11, <1>12, <1>14 DEF Complete
<1>16. QED
  BY <1>15 DEF z, y

\* A separator less: the children before the pair stay, those beyond it move
\* down.
LEMMA MergeFits ==
  ASSUME NEW s \in Seq(Handle), NEW i \in 1..Len(s), NEW r, NEW j \in 1..(Len(s) + 1)
  PROVE  /\ j < i => (Fits(s, j, r) => Fits(RemoveAt(s, i), j, r))
         /\ j > i + 1 => (Fits(s, j, r) => Fits(RemoveAt(s, i), j - 1, r))
<1> DEFINE z == RemoveAt(s, i)
<1>0. Len(s) \in Nat
  OBVIOUS
<1>1. /\ Len(z) = Len(s) - 1
      /\ \A m \in 1..(Len(s) - 1) : z[m] = IF m < i THEN s[m] ELSE s[m + 1]
  BY Removed
<1> HIDE DEF z
<1>2. ASSUME j < i, Fits(s, j, r)
      PROVE  Fits(z, j, r)
  <2>1. j # Len(s) + 1 /\ z[j] = s[j] /\ j # Len(z) + 1
    BY <1>0, <1>1, <1>2
  <2>2. j # 1 => z[j - 1] = s[j - 1]
    BY <1>0, <1>1, <1>2
  <2>3. Low(z, j) = Low(s, j) /\ High(z, j) = High(s, j)
    BY <1>0, <2>1, <2>2 DEF Low, High
  <2>4. \A x : Within(s, j, x) => Within(z, j, x)
    BY <1>0, <2>1, <2>2 DEF Within
  <2>5. QED
    BY <1>2, <2>3, <2>4 DEF Fits
<1>3. ASSUME j > i + 1, Fits(s, j, r)
      PROVE  Fits(z, j - 1, r)
  <2> DEFINE m == j - 1
  <2>1. m \in Int /\ j = m + 1 /\ j # 1 /\ m # 1
    BY <1>0, <1>3
  <2>2. z[m - 1] = s[j - 1]
    <3>1. m - 1 \in 1..(Len(s) - 1) /\ ~(m - 1 < i) /\ m - 1 + 1 = j - 1
      BY <1>0, <1>3
    <3> HIDE DEF m
    <3>2. z[m - 1] = s[m - 1 + 1]
      BY <1>1, <3>1
    <3>3. QED
      BY <3>1, <3>2
  <2>3. m = Len(z) + 1 <=> j = Len(s) + 1
    <3>1. m = Len(z) + 1 <=> m = Len(s)
      BY <1>0, <1>1, <2>1
    <3>2. QED
      BY <1>0, <2>1, <3>1
  <2>4. j # Len(s) + 1 => z[m] = s[j]
    <3> SUFFICES ASSUME j # Len(s) + 1 PROVE z[m] = s[j]
      OBVIOUS
    <3>1. m \in 1..(Len(s) - 1) /\ ~(m < i)
      BY <1>0, <1>3
    <3> HIDE DEF m
    <3>2. z[m] = s[m + 1]
      BY <1>1, <3>1
    <3>3. QED
      BY <2>1, <3>2
  <2> HIDE DEF m
  <2>5. Low(z, m) = Low(s, j) /\ High(z, m) = High(s, j)
    BY <2>1, <2>2, <2>3, <2>4 DEF Low, High
  <2>6. \A x : Within(s, j, x) => Within(z, m, x)
    BY <2>1, <2>2, <2>3, <2>4 DEF Within
  <2>7. Fits(z, m, r)
    BY <1>3, <2>5, <2>6 DEF Fits
  <2>8. QED
    BY <2>7 DEF m
<1>4. QED
  BY <1>2, <1>3 DEF z

LEMMA MergeAscends ==
  ASSUME NEW s \in Seq(Handle), Ascending(s), NEW i \in 1..Len(s)
  PROVE  Ascending(RemoveAt(s, i))
<1> DEFINE z == RemoveAt(s, i)
           from(m) == IF m < i THEN m ELSE m + 1
<1>0. Len(s) \in Nat
  OBVIOUS
<1>1. /\ Len(z) = Len(s) - 1
      /\ \A m \in 1..(Len(s) - 1) : z[m] = IF m < i THEN s[m] ELSE s[m + 1]
  BY Removed
<1>2. \A m \in 1..(Len(s) - 1) : z[m] = s[from(m)] /\ from(m) \in 1..Len(s)
  BY <1>0, <1>1
<1>3. \A a, b \in 1..(Len(s) - 1) : a < b => from(a) < from(b)
  BY <1>0
<1> HIDE DEF z, from
<1>4. \A a, b \in 1..Len(z) : a < b => z[a].key < z[b].key
  BY <1>1, <1>2, <1>3 DEF Ascending
<1>5. QED
  BY <1>4 DEF z, Ascending

\* The leaves when the left page's records and low fence are the right page's
\* and the left page is a redirect.
Merged(f, l, r) ==
  [p \in Page |->
     IF p = l THEN [kind |-> "redirect", low |-> NoHandle, high |-> f[l].high,
                    entries |-> {}]
     ELSE IF p = r THEN [kind |-> f[r].kind, low |-> f[l].low, high |-> f[r].high,
                         entries |-> f[r].entries \cup f[l].entries]
     ELSE f[p]]

LEMMA MergedTypes ==
  ASSUME NEW f, f \in [Page -> LeafRec], NEW l \in Page, NEW r \in Page, l # r
  PROVE  /\ Merged(f, l, r) \in [Page -> LeafRec]
         /\ \A q \in Page : q # l /\ q # r => Merged(f, l, r)[q] = f[q]
         /\ Merged(f, l, r)[l].entries = {} /\ Merged(f, l, r)[l].kind = "redirect"
         /\ Merged(f, l, r)[r].entries = f[r].entries \cup f[l].entries
         /\ Merged(f, l, r)[r].kind = f[r].kind
         /\ Merged(f, l, r)[r].low = f[l].low /\ Merged(f, l, r)[r].high = f[r].high
BY DEF Merged, LeafRec

\* merge_left_into_right, when it is complete, leaves a complete tree.
LEMMA MergeComplete ==
  ASSUME NEW s, NEW k, NEW f, Complete(s, k, f), NEW i \in 1..Len(s)
  PROVE  Complete(RemoveAt(s, i), RemoveAt(k, i), Merged(f, k[i], k[i + 1]))
<1> DEFINE z == RemoveAt(s, i)
           y == RemoveAt(k, i)
           l == k[i]
           r == k[i + 1]
           g == Merged(f, l, r)
<1>1. /\ Parent(s, k) /\ Leaves(f)
      /\ \A j \in 1..Len(k) : k[j] \in Page /\ Fits(s, j, f[k[j]])
  BY DEF Complete, Parent
<1>2. /\ s \in Seq(Handle) /\ Ascending(s) /\ k \in Seq(Page) /\ Len(k) = Len(s) + 1
      /\ Len(s) \in Nat /\ i \in 1..Len(k) /\ i + 1 \in 1..Len(k) /\ i + 1 # i
      /\ \A a, b \in 1..Len(k) : k[a] = k[b] => a = b
  BY <1>1 DEF Parent
<1>3. l \in Page /\ r \in Page /\ l # r
  BY <1>1, <1>2
<1>4. /\ g \in [Page -> LeafRec]
      /\ \A q \in Page : q # l /\ q # r => g[q] = f[q]
      /\ g[l].entries = {} /\ g[l].kind = "redirect"
      /\ g[r].entries = f[r].entries \cup f[l].entries /\ g[r].kind = f[r].kind
      /\ g[r].low = f[l].low /\ g[r].high = f[r].high
  <2> HIDE DEF l, r
  <2>1. f \in [Page -> LeafRec]
    BY <1>1 DEF Leaves
  <2>2. QED
    BY <1>3, <2>1, MergedTypes
<1>5. /\ z \in Seq(Handle) /\ Len(z) = Len(s) - 1 /\ Ascending(z)
      /\ \A m \in 1..(Len(s) - 1) : z[m] = IF m < i THEN s[m] ELSE s[m + 1]
  <2>1. Ascending(z)
    BY <1>2, MergeAscends
  <2>2. QED
    BY <1>2, <2>1, Removed
<1>6. /\ y \in Seq(Page) /\ Len(y) = Len(s)
      /\ \A m \in 1..Len(s) : y[m] = IF m < i THEN k[m] ELSE k[m + 1]
  <2>1. /\ y \in Seq(Page) /\ Len(y) = Len(k) - 1
        /\ \A m \in 1..(Len(k) - 1) : y[m] = IF m < i THEN k[m] ELSE k[m + 1]
    BY <1>2, Removed
  <2>2. Len(k) - 1 = Len(s)
    BY <1>2
  <2>3. QED
    BY <2>1, <2>2
<1> HIDE DEF z, y, g
<1>7. /\ \A m \in 1..Len(s) : s[m].key \in Nat
      /\ \A h \in f[l].entries : h.key \in Nat /\ Within(s, i, h.key)
      /\ \A h \in f[r].entries : h.key \in Nat /\ Within(s, i + 1, h.key)
      /\ f[l].entries \in SUBSET Handle /\ f[r].entries \in SUBSET Handle
  <2>1. f[l].entries \in SUBSET Handle /\ f[r].entries \in SUBSET Handle
    BY <1>1, <1>3 DEF Leaves, LeafRec
  <2>2. \A h \in f[l].entries \cup f[r].entries : h.key \in Nat
    BY <2>1, KeyTypes
  <2>3. \A m \in 1..Len(s) : s[m].key \in Nat
    BY <1>2, KeyTypes
  <2>4. Fits(s, i, f[l]) /\ Fits(s, i + 1, f[r])
    BY <1>1, <1>2
  <2>5. QED
    BY <2>1, <2>2, <2>3, <2>4 DEF Fits
<1>8. \A h \in f[l].entries : h.key < s[i].key
  BY <1>2, <1>7 DEF Within
<1>9. \A h \in f[r].entries : s[i].key <= h.key
  <2>1. i + 1 # 1 /\ i + 1 - 1 = i
    BY <1>2
  <2>2. QED
    BY <1>7, <2>1 DEF Within
<1>10. Leaves(g)
  <2>1. ASSUME NEW q \in Page
        PROVE  IsFiniteSet(g[q].entries) /\ Distinct(g[q].entries)
    <3>1. CASE q = l
      BY <1>4, <3>1, FS_EmptySet DEF Distinct
    <3>2. CASE q = r
      <4>1. IsFiniteSet(f[l].entries) /\ IsFiniteSet(f[r].entries)
            /\ Distinct(f[l].entries) /\ Distinct(f[r].entries)
        BY <1>1, <1>3 DEF Leaves
      <4>2. IsFiniteSet(f[r].entries \cup f[l].entries)
        BY <4>1, FS_Union
      <4>3. \A a \in f[l].entries, b \in f[r].entries : a.key # b.key
        BY <1>7, <1>8, <1>9
      <4>4. Distinct(f[r].entries \cup f[l].entries)
        BY <4>1, <4>3 DEF Distinct
      <4>5. QED
        BY <1>4, <3>2, <4>2, <4>4
    <3>3. CASE q # l /\ q # r
      BY <1>1, <1>4, <3>3 DEF Leaves
    <3>4. QED
      BY <3>1, <3>2, <3>3
  <2>2. QED
    BY <1>4, <2>1 DEF Leaves
<1>11. ASSUME NEW j \in 1..Len(y)
       PROVE  Fits(z, j, g[y[j]])
  <2>0. j \in 1..Len(s) /\ j \in Nat
    BY <1>2, <1>6
  <2>1. CASE j < i
    <3>1. j \in 1..Len(k) /\ j \in 1..(Len(s) + 1) /\ y[j] = k[j] /\ j # i /\ j # i + 1
      BY <1>2, <1>6, <2>0, <2>1
    <3>2. g[y[j]] = f[k[j]] /\ Fits(s, j, f[k[j]])
      BY <1>1, <1>2, <1>4, <3>1
    <3>3. QED
      BY <1>2, <2>1, <3>1, <3>2, MergeFits DEF z
  <2>2. CASE j = i
    <3>1. y[j] = r
      BY <1>2, <1>6, <2>0, <2>2
    <3>2. Fits(s, i, f[l]) /\ Fits(s, i + 1, f[r])
      BY <1>1, <1>2
    <3>3. j # 1 => z[j - 1] = s[i - 1]
      BY <1>2, <1>5, <2>2
    <3>4. j = Len(z) + 1 <=> i + 1 = Len(s) + 1
      BY <1>2, <1>5, <2>2
    <3>5. j # Len(z) + 1 => z[j] = s[i + 1]
      BY <1>2, <1>5, <2>2
    <3>6. Low(z, j) = Low(s, i) /\ High(z, j) = High(s, i + 1)
      BY <2>2, <3>3, <3>4, <3>5 DEF Low, High
    <3>7. ASSUME NEW h \in g[r].entries
          PROVE  Within(z, j, h.key)
      <4>1. h \in f[l].entries \/ h \in f[r].entries
        BY <1>4
      <4>2. i # 1 => s[i - 1].key < s[i].key
        <5>1. i # 1 => i - 1 \in 1..Len(s) /\ i \in 1..Len(s) /\ i - 1 < i
          BY <1>2
        <5>2. QED
          BY <1>2, <5>1 DEF Ascending
      <4>3. i # 1 => s[i - 1].key <= h.key
        <5> SUFFICES ASSUME i # 1 PROVE s[i - 1].key <= h.key
          OBVIOUS
        <5>1. i - 1 \in 1..Len(s)
          BY <1>2
        <5>2. CASE h \in f[l].entries
          BY <1>7, <5>2 DEF Within
        <5>3. CASE h \in f[r].entries
          BY <1>7, <1>9, <4>2, <5>1, <5>3
        <5>4. QED
          BY <4>1, <5>2, <5>3
      <4>4. i + 1 # Len(s) + 1 => h.key < s[i + 1].key
        <5> SUFFICES ASSUME i + 1 # Len(s) + 1 PROVE h.key < s[i + 1].key
          OBVIOUS
        <5>1. i + 1 \in 1..Len(s) /\ s[i].key < s[i + 1].key
          BY <1>2 DEF Ascending
        <5>2. CASE h \in f[l].entries
          BY <1>7, <1>8, <5>1, <5>2
        <5>3. CASE h \in f[r].entries
          BY <1>7, <5>3 DEF Within
        <5>4. QED
          BY <4>1, <5>2, <5>3
      <4>5. QED
        BY <2>2, <3>3, <3>4, <3>5, <4>3, <4>4 DEF Within
    <3>8. QED
      BY <1>4, <3>1, <3>2, <3>6, <3>7 DEF Fits
  <2>3. CASE j > i
    <3>1. j + 1 \in 1..Len(k) /\ j + 1 \in 1..(Len(s) + 1) /\ j + 1 > i + 1
          /\ j + 1 - 1 = j /\ j + 1 # i /\ j + 1 # i + 1
      BY <1>2, <2>0, <2>3
    <3>2. y[j] = k[j + 1]
      BY <1>2, <1>6, <2>0, <2>3
    <3>3. g[y[j]] = f[k[j + 1]] /\ Fits(s, j + 1, f[k[j + 1]])
      BY <1>1, <1>2, <1>4, <3>1, <3>2
    <3>4. Fits(z, j + 1 - 1, g[y[j]])
      BY <1>2, <3>1, <3>3, MergeFits DEF z
    <3>5. QED
      BY <3>1, <3>4
  <2>4. QED
    BY <1>2, <2>0, <2>1, <2>2, <2>3
<1>12. ASSUME NEW p \in Page, \A j \in 1..Len(y) : y[j] # p
       PROVE  g[p].entries = {} /\ g[p].kind # "leaf"
  <2>1. CASE p = l
    BY <1>4, <2>1
  <2>2. CASE p # l
    <3>1. ASSUME NEW j \in 1..Len(k), j # i
          PROVE  k[j] # p
      <4>1. CASE j < i
        BY <1>2, <1>6, <1>12, <4>1
      <4>2. CASE j > i
        <5>1. j - 1 \in 1..Len(s) /\ ~(j - 1 < i) /\ j - 1 + 1 = j
          BY <1>2, <4>2
        <5>2. y[j - 1] = k[j - 1 + 1]
          BY <1>6, <5>1
        <5>3. QED
          BY <1>6, <1>12, <5>1, <5>2
      <4>3. QED
        BY <1>2, <3>1, <4>1, <4>2
    <3>2. p # r
      BY <1>2, <3>1
    <3>3. g[p] = f[p]
      BY <1>4, <2>2, <3>2
    <3>4. \A j \in 1..Len(k) : k[j] # p
      BY <2>2, <3>1
    <3>5. QED
      BY <3>3, <3>4 DEF Complete
  <2>3. QED
    BY <2>1, <2>2
<1>13. \A a, b \in 1..Len(y) : y[a] = y[b] => a = b
  <2> SUFFICES ASSUME NEW a \in 1..Len(y), NEW b \in 1..Len(y), y[a] = y[b]
               PROVE  a = b
    OBVIOUS
  <2> DEFINE from(j) == IF j < i THEN j ELSE j + 1
  <2>1. ASSUME NEW j \in 1..Len(y)
        PROVE  from(j) \in 1..Len(k) /\ y[j] = k[from(j)]
    BY <1>2, <1>6
  <2>2. from(a) = from(b)
    BY <1>2, <2>1
  <2>3. QED
    BY <1>2, <1>6, <2>2
<1>14. Parent(z, y)
  BY <1>2, <1>5, <1>6, <1>13 DEF Parent
<1>15. Complete(z, y, g)
  BY <1>10, <1>11, <1>12, <1>14 DEF Complete
<1>16. QED
  BY <1>15 DEF z, y, g

\* The leaves when the fences between two of them are at b.
Bounded(f, l, r, b) ==
  [p \in Page |-> IF p = l THEN [f[l] EXCEPT !.high = b]
                  ELSE IF p = r THEN [f[r] EXCEPT !.low = b]
                  ELSE f[p]]

LEMMA BoundedTypes ==
  ASSUME NEW f, f \in [Page -> LeafRec], NEW l \in Page, NEW r \in Page, l # r,
         NEW b \in Handle
  PROVE  /\ Bounded(f, l, r, b) \in [Page -> LeafRec]
         /\ \A q \in Page : q # l /\ q # r => Bounded(f, l, r, b)[q] = f[q]
         /\ Bounded(f, l, r, b)[l].entries = f[l].entries
         /\ Bounded(f, l, r, b)[l].kind = f[l].kind
         /\ Bounded(f, l, r, b)[l].low = f[l].low /\ Bounded(f, l, r, b)[l].high = b
         /\ Bounded(f, l, r, b)[r].entries = f[r].entries
         /\ Bounded(f, l, r, b)[r].kind = f[r].kind
         /\ Bounded(f, l, r, b)[r].low = b /\ Bounded(f, l, r, b)[r].high = f[r].high
BY DEF Bounded, LeafRec

\* A separator that moves between its neighbours: every other child keeps its
\* boundaries.
LEMMA BorrowFits ==
  ASSUME NEW s \in Seq(Handle), NEW i \in 1..Len(s), NEW b \in Handle, NEW r,
         NEW j \in 1..(Len(s) + 1), j # i, j # i + 1
  PROVE  Fits(s, j, r) => Fits([s EXCEPT ![i] = b], j, r)
<1> DEFINE z == [s EXCEPT ![i] = b]
<1>1. Len(s) \in Nat /\ Len(z) = Len(s) /\ \A m \in 1..Len(s) : m # i => z[m] = s[m]
  OBVIOUS
<1> HIDE DEF z
<1>2. j # 1 => z[j - 1] = s[j - 1]
  BY <1>1
<1>3. j # Len(s) + 1 => z[j] = s[j]
  BY <1>1
<1>4. Low(z, j) = Low(s, j) /\ High(z, j) = High(s, j)
  BY <1>1, <1>2, <1>3 DEF Low, High
<1>5. \A x : Within(s, j, x) => Within(z, j, x)
  BY <1>1, <1>2, <1>3 DEF Within
<1>6. Fits(s, j, r) => Fits(z, j, r)
  BY <1>4, <1>5 DEF Fits
<1>7. QED
  BY <1>6 DEF z

LEMMA BorrowAscends ==
  ASSUME NEW s \in Seq(Handle), Ascending(s), NEW i \in 1..Len(s), NEW b \in Handle,
         i # 1 => s[i - 1].key < b.key, i # Len(s) => b.key < s[i + 1].key
  PROVE  Ascending([s EXCEPT ![i] = b])
<1> DEFINE z == [s EXCEPT ![i] = b]
<1>0. /\ Len(s) \in Nat /\ b.key \in Nat /\ \A m \in 1..Len(s) : s[m].key \in Nat
  BY KeyTypes
<1>1. Len(z) = Len(s) /\ z[i] = b /\ \A m \in 1..Len(s) : m # i => z[m] = s[m]
  OBVIOUS
<1> HIDE DEF z
<1>2. ASSUME NEW m \in 1..Len(s), m < i
      PROVE  s[m].key < b.key
  <2>1. i - 1 \in 1..Len(s) /\ s[i - 1].key < b.key
    BY <1>0, <1>2
  <2>2. m = i - 1 \/ s[m].key < s[i - 1].key
    BY <1>0, <1>2, <2>1 DEF Ascending
  <2>3. QED
    BY <1>0, <2>1, <2>2
<1>3. ASSUME NEW m \in 1..Len(s), m > i
      PROVE  b.key < s[m].key
  <2>1. i + 1 \in 1..Len(s) /\ b.key < s[i + 1].key
    BY <1>0, <1>3
  <2>2. m = i + 1 \/ s[i + 1].key < s[m].key
    BY <1>0, <1>3, <2>1 DEF Ascending
  <2>3. QED
    BY <1>0, <2>1, <2>2
<1>4. ASSUME NEW m \in 1..Len(s), NEW n \in 1..Len(s), m < n
      PROVE  z[m].key < z[n].key
  <2>1. CASE m = i
    BY <1>1, <1>3, <1>4, <2>1
  <2>2. CASE n = i
    BY <1>1, <1>2, <1>4, <2>2
  <2>3. CASE m # i /\ n # i
    BY <1>1, <1>4, <2>3 DEF Ascending
  <2>4. QED
    BY <2>1, <2>2, <2>3
<1>5. QED
  BY <1>1, <1>4 DEF z, Ascending

\* A borrow, when it is complete, leaves a complete tree: the left page's
\* records are below the new boundary, the right page's are not.
LEMMA BorrowComplete ==
  ASSUME NEW s, NEW k, NEW f, Complete(s, k, f), NEW i \in 1..Len(s), NEW b \in Handle,
         NEW E \in SUBSET Handle, NEW F \in SUBSET Handle,
         IsFiniteSet(E), IsFiniteSet(F), Distinct(E), Distinct(F),
         \A h \in E : (i # 1 => s[i - 1].key <= h.key) /\ h.key < b.key,
         \A h \in F : b.key <= h.key /\ (i # Len(s) => h.key < s[i + 1].key),
         i # 1 => s[i - 1].key < b.key, i # Len(s) => b.key < s[i + 1].key,
         NEW g, g \in [Page -> LeafRec],
         \A q \in Page : q # k[i] /\ q # k[i + 1] => g[q] = f[q],
         /\ g[k[i]].entries = E /\ g[k[i]].kind = f[k[i]].kind
         /\ g[k[i]].low = f[k[i]].low /\ g[k[i]].high = b,
         /\ g[k[i + 1]].entries = F /\ g[k[i + 1]].kind = f[k[i + 1]].kind
         /\ g[k[i + 1]].low = b /\ g[k[i + 1]].high = f[k[i + 1]].high
  PROVE  Complete([s EXCEPT ![i] = b], k, g)
<1> DEFINE z == [s EXCEPT ![i] = b]
           l == k[i]
           r == k[i + 1]
<1>1. /\ Parent(s, k) /\ Leaves(f)
      /\ \A j \in 1..Len(k) : k[j] \in Page /\ Fits(s, j, f[k[j]])
  BY DEF Complete, Parent
<1>2. /\ s \in Seq(Handle) /\ Ascending(s) /\ k \in Seq(Page) /\ Len(k) = Len(s) + 1
      /\ Len(s) \in Nat /\ i \in 1..Len(k) /\ i + 1 \in 1..Len(k) /\ i + 1 # i
      /\ \A m, n \in 1..Len(k) : k[m] = k[n] => m = n
  BY <1>1 DEF Parent
<1>3. l \in Page /\ r \in Page /\ l # r
  BY <1>1, <1>2
<1>4. /\ z \in Seq(Handle) /\ Len(z) = Len(s) /\ z[i] = b
      /\ \A m \in 1..Len(s) : m # i => z[m] = s[m]
  BY <1>2
<1>5. Ascending(z)
  BY <1>2, BorrowAscends
<1> HIDE DEF z
<1>6. Parent(z, k)
  BY <1>2, <1>4, <1>5 DEF Parent
<1>7. Leaves(g)
  <2>1. ASSUME NEW q \in Page
        PROVE  IsFiniteSet(g[q].entries) /\ Distinct(g[q].entries)
    <3>1. CASE q # l /\ q # r
      BY <1>1, <3>1 DEF Leaves
    <3>2. QED
      BY <3>1
  <2>2. QED
    BY <2>1 DEF Leaves
<1>8. ASSUME NEW j \in 1..Len(k)
      PROVE  Fits(z, j, g[k[j]])
  <2>1. CASE j # i /\ j # i + 1
    <3>1. g[k[j]] = f[k[j]] /\ Fits(s, j, f[k[j]]) /\ j \in 1..(Len(s) + 1)
      BY <1>1, <1>2, <2>1
    <3>2. QED
      BY <1>2, <2>1, <3>1, BorrowFits DEF z
  <2>2. CASE j = i
    <3>1. Fits(s, i, f[l]) /\ j # Len(z) + 1
      BY <1>1, <1>2, <1>4, <2>2
    <3>2. j # 1 => z[j - 1] = s[i - 1]
      BY <1>2, <1>4, <2>2
    <3>3. Low(z, j) = Low(s, i) /\ High(z, j) = b
      BY <1>4, <2>2, <3>1, <3>2 DEF Low, High
    <3>4. \A h \in E : Within(z, j, h.key)
      BY <1>4, <2>2, <3>1, <3>2 DEF Within
    <3>5. QED
      BY <2>2, <3>1, <3>3, <3>4 DEF Fits
  <2>3. CASE j = i + 1
    <3>1. Fits(s, i + 1, f[r]) /\ j # 1 /\ j - 1 = i
      BY <1>1, <1>2, <2>3
    <3>2. j = Len(z) + 1 <=> i + 1 = Len(s) + 1
      BY <1>4, <2>3
    <3>3. j # Len(z) + 1 => z[j] = s[i + 1] /\ i # Len(s)
      BY <1>2, <1>4, <2>3
    <3>4. Low(z, j) = b /\ High(z, j) = High(s, i + 1)
      BY <1>4, <3>1, <3>2, <3>3 DEF Low, High
    <3>5. \A h \in F : Within(z, j, h.key)
      BY <1>4, <3>1, <3>3 DEF Within
    <3>6. QED
      BY <2>3, <3>1, <3>4, <3>5 DEF Fits
  <2>4. QED
    BY <2>1, <2>2, <2>3
<1>9. ASSUME NEW p \in Page, \A j \in 1..Len(k) : k[j] # p
      PROVE  g[p].entries = {} /\ g[p].kind # "leaf"
  <2>1. p # l /\ p # r
    BY <1>2, <1>9
  <2>2. g[p] = f[p]
    BY <2>1
  <2>3. QED
    BY <1>9, <2>2 DEF Complete
<1>10. Complete(z, k, g)
  BY <1>6, <1>7, <1>8, <1>9 DEF Complete
<1>11. QED
  BY <1>10 DEF z

-----------------------------------------------------------------------------
(***************************************************************************)
(* Destructors: while every handle that the change does not hold keeps an  *)
(* owner, the change goes on.                                              *)
(***************************************************************************)
OwnedBy(s, f, d, h) ==
  /\ h # NoHandle
  /\ \/ \E i \in DOMAIN s : h = s[i]
     \/ h \in d
     \/ \E p \in Page : h \in f[p].entries \/ h = f[p].low \/ h = f[p].high

LEMMA OwnedIs ==
  /\ \A h : h \in Owned <=> OwnedBy(seps, leaf, held, h)
  /\ \A h : h \in Owned' <=> OwnedBy(seps', leaf', held', h)
<1>1. \A h : h \in Owned <=> OwnedBy(seps, leaf, held, h)
  BY DEF Owned, OwnedBy, ToSet
<1>2. \A h : h \in Owned' <=> OwnedBy(seps', leaf', held', h)
  BY DEF Owned, OwnedBy, ToSet
<1>3. QED
  BY <1>1, <1>2

LEMMA Continues ==
  ASSUME GoesOn, \A h : OwnedBy(seps, leaf, {}, h) => OwnedBy(seps', leaf', {}, h)
  PROVE  todo' = Tail(todo) /\ held' = held
<1>1. CASE Unwinds(Owned \ held)
  <2>1. PICK h \in Owned \ held : h \notin Owned'
    BY <1>1 DEF Unwinds, Destroys
  <2>2. OwnedBy(seps, leaf, held, h)
    BY <2>1, OwnedIs
  <2>3. OwnedBy(seps, leaf, {}, h)
    BY <2>1, <2>2, Zenon DEF OwnedBy
  <2>4. OwnedBy(seps', leaf', held', h)
    BY <2>3, Zenon DEF OwnedBy
  <2>5. QED
    BY <2>1, <2>4, OwnedIs
<1>2. QED
  BY <1>1 DEF GoesOn

\* What is left of a change on the pair l, r whose separator is the i-th.
Plan(stmts, l, r, i) ==
  [j \in 1..Len(stmts) |-> [do |-> stmts[j], left |-> l, right |-> r, index |-> i]]

LEMMA PlanSteps ==
  ASSUME NEW T, NEW stmts \in Seq(T), stmts # <<>>, NEW l, NEW r, NEW i
  PROVE  /\ Plan(stmts, l, r, i) # <<>>
         /\ Head(Plan(stmts, l, r, i)) =
              [do |-> Head(stmts), left |-> l, right |-> r, index |-> i]
         /\ Tail(Plan(stmts, l, r, i)) = Plan(Tail(stmts), l, r, i)
<1> DEFINE rec(d) == [do |-> d, left |-> l, right |-> r, index |-> i]
           q == Plan(stmts, l, r, i)
<1>1. /\ Len(stmts) \in Nat /\ Len(stmts) # 0 /\ Head(stmts) = stmts[1]
      /\ Len(Tail(stmts)) = Len(stmts) - 1 /\ Tail(stmts) \in Seq(T)
      /\ \A j \in 1..(Len(stmts) - 1) : Tail(stmts)[j] = stmts[j + 1]
  OBVIOUS
<1>2. q = [j \in 1..Len(stmts) |-> rec(stmts[j])]
  BY DEF Plan
<1>3. \A j \in 1..Len(stmts) : rec(stmts[j]) \in {rec(d) : d \in T}
  BY <1>1
<1> HIDE DEF rec, q
<1>4. /\ q \in Seq({rec(d) : d \in T}) /\ Len(q) = Len(stmts)
      /\ \A j \in 1..Len(stmts) : q[j] = rec(stmts[j])
  BY <1>1, <1>2, <1>3
<1>5. q # <<>> /\ Head(q) = rec(Head(stmts))
  <2>1. Len(q) # 0 /\ q[1] = rec(stmts[1])
    BY <1>1, <1>4
  <2>2. QED
    BY <1>1, <1>4, <2>1
<1>6. Tail(q) = Plan(Tail(stmts), l, r, i)
  <2> DEFINE U == {rec(d) : d \in T}
             t == Plan(Tail(stmts), l, r, i)
  <2>1. /\ Tail(q) \in Seq(U) /\ Len(Tail(q)) = Len(stmts) - 1
        /\ \A j \in 1..(Len(stmts) - 1) : Tail(q)[j] = rec(Tail(stmts)[j])
    <3> HIDE DEF U
    <3>1. q \in Seq(U) /\ q # <<>> /\ Len(q) = Len(stmts)
      BY <1>4, <1>5 DEF U
    <3>2. /\ Tail(q) \in Seq(U) /\ Len(Tail(q)) = Len(q) - 1
          /\ \A j \in 1..(Len(q) - 1) : Tail(q)[j] = q[j + 1]
      BY <3>1
    <3>3. \A j \in 1..(Len(stmts) - 1) : q[j + 1] = rec(Tail(stmts)[j])
      BY <1>1, <1>4
    <3>4. QED
      BY <3>1, <3>2, <3>3
  <2>2. t = [j \in 1..(Len(stmts) - 1) |-> rec(Tail(stmts)[j])]
    BY <1>1 DEF Plan, rec
  <2>3. \A j \in 1..(Len(stmts) - 1) : rec(Tail(stmts)[j]) \in U
    BY <1>1
  <2> HIDE DEF U, t
  <2>4. /\ t \in Seq(U) /\ Len(t) = Len(stmts) - 1
        /\ \A j \in 1..(Len(stmts) - 1) : t[j] = rec(Tail(stmts)[j])
    BY <1>1, <2>2, <2>3
  <2>5. Tail(q) = t
    BY <2>1, <2>4, SeqEqual
  <2>6. QED
    BY <2>5 DEF t
<1>7. QED
  BY <1>5, <1>6 DEF q, rec

\* The suffixes of the two changes.
Borrow2 == <<"separator", "left_high", "right_low">>
Borrow3 == <<"left_high", "right_low">>
Borrow4 == <<"right_low">>
Merge2  == <<"prepend", "drop_separator", "inherit_low", "redirect">>
Merge3  == <<"drop_separator", "inherit_low", "redirect">>
Merge4  == <<"inherit_low", "redirect">>
Merge5  == <<"redirect">>

Statement == {"move", "separator", "left_high", "right_low",
              "unlink", "prepend", "drop_separator", "inherit_low", "redirect"}

LEMMA Statements ==
  /\ BorrowStmts \in Seq(Statement) /\ BorrowStmts # <<>> /\ Head(BorrowStmts) = "move"
  /\ Tail(BorrowStmts) = Borrow2
  /\ Borrow2 \in Seq(Statement) /\ Borrow2 # <<>> /\ Head(Borrow2) = "separator"
  /\ Tail(Borrow2) = Borrow3
  /\ Borrow3 \in Seq(Statement) /\ Borrow3 # <<>> /\ Head(Borrow3) = "left_high"
  /\ Tail(Borrow3) = Borrow4
  /\ Borrow4 \in Seq(Statement) /\ Borrow4 # <<>> /\ Head(Borrow4) = "right_low"
  /\ MergeStmts \in Seq(Statement) /\ MergeStmts # <<>> /\ Head(MergeStmts) = "unlink"
  /\ Tail(MergeStmts) = Merge2
  /\ Merge2 \in Seq(Statement) /\ Merge2 # <<>> /\ Head(Merge2) = "prepend"
  /\ Tail(Merge2) = Merge3
  /\ Merge3 \in Seq(Statement) /\ Merge3 # <<>> /\ Head(Merge3) = "drop_separator"
  /\ Tail(Merge3) = Merge4
  /\ Merge4 \in Seq(Statement) /\ Merge4 # <<>> /\ Head(Merge4) = "inherit_low"
  /\ Tail(Merge4) = Merge5
  /\ Merge5 \in Seq(Statement) /\ Merge5 # <<>> /\ Head(Merge5) = "redirect"
  /\ Tail(Merge5) = <<>>
<1>1. /\ BorrowStmts \in Seq(Statement) /\ BorrowStmts # <<>> /\ Head(BorrowStmts) = "move"
      /\ Tail(BorrowStmts) = Borrow2
  BY DEF Statement, BorrowStmts, Borrow2
<1>2. /\ Borrow2 \in Seq(Statement) /\ Borrow2 # <<>> /\ Head(Borrow2) = "separator"
      /\ Tail(Borrow2) = Borrow3
  BY DEF Statement, Borrow2, Borrow3
<1>3. /\ Borrow3 \in Seq(Statement) /\ Borrow3 # <<>> /\ Head(Borrow3) = "left_high"
      /\ Tail(Borrow3) = Borrow4
  BY DEF Statement, Borrow3, Borrow4
<1>4. Borrow4 \in Seq(Statement) /\ Borrow4 # <<>> /\ Head(Borrow4) = "right_low"
  BY DEF Statement, Borrow4
<1>5. /\ MergeStmts \in Seq(Statement) /\ MergeStmts # <<>> /\ Head(MergeStmts) = "unlink"
      /\ Tail(MergeStmts) = Merge2
  BY DEF Statement, MergeStmts, Merge2
<1>6. /\ Merge2 \in Seq(Statement) /\ Merge2 # <<>> /\ Head(Merge2) = "prepend"
      /\ Tail(Merge2) = Merge3
  BY DEF Statement, Merge2, Merge3
<1>7. /\ Merge3 \in Seq(Statement) /\ Merge3 # <<>> /\ Head(Merge3) = "drop_separator"
      /\ Tail(Merge3) = Merge4
  BY DEF Statement, Merge3, Merge4
<1>8. /\ Merge4 \in Seq(Statement) /\ Merge4 # <<>> /\ Head(Merge4) = "inherit_low"
      /\ Tail(Merge4) = Merge5
  BY DEF Statement, Merge4, Merge5
<1>9. /\ Merge5 \in Seq(Statement) /\ Merge5 # <<>> /\ Head(Merge5) = "redirect"
      /\ Tail(Merge5) = <<>>
  BY DEF Statement, Merge5
<1>10. QED
  BY <1>1, <1>2, <1>3, <1>4, <1>5, <1>6, <1>7, <1>8, <1>9

LEMMA PlanDone ==
  ASSUME NEW l, NEW r, NEW i
  PROVE  Plan(<<>>, l, r, i) = <<>>
BY DEF Plan

-----------------------------------------------------------------------------
(***************************************************************************)
(* The invariant: one phase for each statement to come.                    *)
(***************************************************************************)
AtRest == todo = <<>> /\ held = {} /\ Complete(seps, kids, leaf)

\* A pair of children, with sizes that allow the change.
BorrowDue ==
  \E i \in 1..Len(seps) :
    /\ todo = Plan(BorrowStmts, kids[i], kids[i + 1], i)
    /\ held = {} /\ Complete(seps, kids, leaf)
    /\ ~(AtMinimum(kids[i]) /\ AtMinimum(kids[i + 1]))

\* A record has moved; the separator and the two fences are still one handle.
Moved ==
  \E i \in 1..Len(seps), b \in Handle :
    /\ todo = Plan(Borrow2, kids[i], kids[i + 1], i)
    /\ held = {b} /\ seps \in Seq(Handle) /\ Leaves(leaf)
    /\ leaf[kids[i]].high = seps[i] /\ leaf[kids[i + 1]].low = seps[i]
    /\ Complete([seps EXCEPT ![i] = b], kids, Bounded(leaf, kids[i], kids[i + 1], b))

\* The separator is the new boundary; the two fences are one handle.
SeparatorSet ==
  \E i \in 1..Len(seps), b \in Handle :
    /\ todo = Plan(Borrow3, kids[i], kids[i + 1], i)
    /\ held = {b} /\ Leaves(leaf)
    /\ leaf[kids[i]].high = leaf[kids[i + 1]].low
    /\ Complete(seps, kids, Bounded(leaf, kids[i], kids[i + 1], b))

LeftHighSet ==
  \E i \in 1..Len(seps), b \in Handle :
    /\ todo = Plan(Borrow4, kids[i], kids[i + 1], i)
    /\ held = {b} /\ Leaves(leaf)
    /\ leaf[kids[i]].high = b
    /\ Complete(seps, kids, Bounded(leaf, kids[i], kids[i + 1], b))

MergeDue ==
  \E i \in 1..Len(seps) :
    /\ todo = Plan(MergeStmts, kids[i], kids[i + 1], i)
    /\ held = {} /\ Complete(seps, kids, leaf)

\* The left page and its separator have left the parent.
Unlinked ==
  \E l, r \in Page, i \in Nat, o \in Handle :
    /\ l # r /\ todo = Plan(Merge2, l, r, i)
    /\ held = {o} /\ Leaves(leaf) /\ leaf[l].high = o /\ leaf[r].low = o
    /\ Complete(seps, kids, Merged(leaf, l, r))

Prepended ==
  \E l, r \in Page, i \in Nat, o \in Handle :
    /\ l # r /\ todo = Plan(Merge3, l, r, i)
    /\ held = {o} /\ Leaves(leaf) /\ leaf[l].high = o /\ leaf[r].low = o
    /\ leaf[l].entries = {} /\ Complete(seps, kids, Merged(leaf, l, r))

SeparatorDropped ==
  \E l, r \in Page, i \in Nat :
    /\ l # r /\ todo = Plan(Merge4, l, r, i)
    /\ held = {} /\ Leaves(leaf) /\ leaf[l].high = leaf[r].low
    /\ leaf[l].entries = {} /\ Complete(seps, kids, Merged(leaf, l, r))

Inherited ==
  \E l, r \in Page, i \in Nat :
    /\ l # r /\ todo = Plan(Merge5, l, r, i)
    /\ held = {} /\ Leaves(leaf)
    /\ Complete(seps, kids, [leaf EXCEPT ![l].kind = "redirect"])

HandleInv ==
  \/ AtRest
  \/ BorrowDue \/ Moved \/ SeparatorSet \/ LeftHighSet
  \/ MergeDue \/ Unlinked \/ Prepended \/ SeparatorDropped \/ Inherited

\* While a change is under way the next step is its next statement.
LEMMA Underway ==
  ASSUME NEW stmts \in Seq(Statement), stmts # <<>>, NEW l, NEW r, NEW i,
         todo = Plan(stmts, l, r, i), Next
  PROVE  /\ L = l /\ R = r /\ I = i /\ Tail(todo) = Plan(Tail(stmts), l, r, i)
         /\ Head(stmts) = "move" => MoveRecord
         /\ Head(stmts) = "separator" => SetSeparator
         /\ Head(stmts) = "left_high" => SetLeftHigh
         /\ Head(stmts) = "right_low" => SetRightLow
         /\ Head(stmts) = "unlink" => Unlink
         /\ Head(stmts) = "prepend" => Prepend
         /\ Head(stmts) = "drop_separator" => DropSeparator
         /\ Head(stmts) = "inherit_low" => InheritLow
         /\ Head(stmts) = "redirect" => PublishRedirect
<1>1. /\ todo # <<>>
      /\ Head(todo) = [do |-> Head(stmts), left |-> l, right |-> r, index |-> i]
      /\ Tail(todo) = Plan(Tail(stmts), l, r, i)
  BY PlanSteps
<1>2. L = l /\ R = r /\ I = i /\ Head(todo).do = Head(stmts)
  BY <1>1 DEF L, R, I
<1>3. ~\E k \in Key : Store(k) \/ Erase(k) \/ Split(k) \/ Repair(k)
  BY <1>1 DEF Store, Erase, Split, Repair
<1>4. ~\E p \in Page : Reclaim(p)
  BY <1>1 DEF Reclaim
<1>5. \/ MoveRecord \/ SetSeparator \/ SetLeftHigh \/ SetRightLow
      \/ Unlink \/ Prepend \/ DropSeparator \/ InheritLow \/ PublishRedirect
  BY <1>3, <1>4, Zenon DEF Next
<1>6. /\ MoveRecord => Head(stmts) = "move"
      /\ SetSeparator => Head(stmts) = "separator"
      /\ SetLeftHigh => Head(stmts) = "left_high"
      /\ SetRightLow => Head(stmts) = "right_low"
      /\ Unlink => Head(stmts) = "unlink"
      /\ Prepend => Head(stmts) = "prepend"
      /\ DropSeparator => Head(stmts) = "drop_separator"
      /\ InheritLow => Head(stmts) = "inherit_low"
      /\ PublishRedirect => Head(stmts) = "redirect"
  BY <1>2, Zenon DEF Now, MoveRecord, SetSeparator, SetLeftHigh, SetRightLow, Unlink,
                     Prepend, DropSeparator, InheritLow, PublishRedirect
<1>7. QED
  BY <1>1, <1>2, <1>5, <1>6

\* The same, for each statement.
LEMMA NextStatement ==
  ASSUME NEW l, NEW r, NEW i, Next
  PROVE  /\ todo = Plan(BorrowStmts, l, r, i) =>
              MoveRecord /\ L = l /\ R = r /\ I = i /\ Tail(todo) = Plan(Borrow2, l, r, i)
         /\ todo = Plan(Borrow2, l, r, i) =>
              SetSeparator /\ L = l /\ R = r /\ I = i /\ Tail(todo) = Plan(Borrow3, l, r, i)
         /\ todo = Plan(Borrow3, l, r, i) =>
              SetLeftHigh /\ L = l /\ R = r /\ I = i /\ Tail(todo) = Plan(Borrow4, l, r, i)
         /\ todo = Plan(Borrow4, l, r, i) =>
              SetRightLow /\ L = l /\ R = r /\ I = i
         /\ todo = Plan(MergeStmts, l, r, i) =>
              Unlink /\ L = l /\ R = r /\ I = i /\ Tail(todo) = Plan(Merge2, l, r, i)
         /\ todo = Plan(Merge2, l, r, i) =>
              Prepend /\ L = l /\ R = r /\ I = i /\ Tail(todo) = Plan(Merge3, l, r, i)
         /\ todo = Plan(Merge3, l, r, i) =>
              DropSeparator /\ L = l /\ R = r /\ I = i /\ Tail(todo) = Plan(Merge4, l, r, i)
         /\ todo = Plan(Merge4, l, r, i) =>
              InheritLow /\ L = l /\ R = r /\ I = i /\ Tail(todo) = Plan(Merge5, l, r, i)
         /\ todo = Plan(Merge5, l, r, i) =>
              PublishRedirect /\ L = l /\ R = r /\ I = i /\ Tail(todo) = Plan(<<>>, l, r, i)
<1>1. todo = Plan(BorrowStmts, l, r, i) =>
        MoveRecord /\ L = l /\ R = r /\ I = i /\ Tail(todo) = Plan(Borrow2, l, r, i)
  <2> SUFFICES ASSUME todo = Plan(BorrowStmts, l, r, i)
               PROVE  MoveRecord /\ L = l /\ R = r /\ I = i /\ Tail(todo) = Plan(Borrow2, l, r, i)
    OBVIOUS
  <2>1. BorrowStmts \in Seq(Statement) /\ BorrowStmts # <<>> /\ Head(BorrowStmts) = "move"
    BY Statements
  <2>2. MoveRecord /\ L = l /\ R = r /\ I = i /\ Tail(todo) = Plan(Tail(BorrowStmts), l, r, i)
    BY <2>1, Underway
  <2>3. Tail(BorrowStmts) = Borrow2
    BY Statements
  <2>4. QED
    BY <2>2, <2>3, Zenon
<1>2. todo = Plan(Borrow2, l, r, i) =>
        SetSeparator /\ L = l /\ R = r /\ I = i /\ Tail(todo) = Plan(Borrow3, l, r, i)
  <2> SUFFICES ASSUME todo = Plan(Borrow2, l, r, i)
               PROVE  SetSeparator /\ L = l /\ R = r /\ I = i /\ Tail(todo) = Plan(Borrow3, l, r, i)
    OBVIOUS
  <2>1. Borrow2 \in Seq(Statement) /\ Borrow2 # <<>> /\ Head(Borrow2) = "separator"
    BY Statements
  <2>2. SetSeparator /\ L = l /\ R = r /\ I = i /\ Tail(todo) = Plan(Tail(Borrow2), l, r, i)
    BY <2>1, Underway
  <2>3. Tail(Borrow2) = Borrow3
    BY Statements
  <2>4. QED
    BY <2>2, <2>3, Zenon
<1>3. todo = Plan(Borrow3, l, r, i) =>
        SetLeftHigh /\ L = l /\ R = r /\ I = i /\ Tail(todo) = Plan(Borrow4, l, r, i)
  <2> SUFFICES ASSUME todo = Plan(Borrow3, l, r, i)
               PROVE  SetLeftHigh /\ L = l /\ R = r /\ I = i /\ Tail(todo) = Plan(Borrow4, l, r, i)
    OBVIOUS
  <2>1. Borrow3 \in Seq(Statement) /\ Borrow3 # <<>> /\ Head(Borrow3) = "left_high"
    BY Statements
  <2>2. SetLeftHigh /\ L = l /\ R = r /\ I = i /\ Tail(todo) = Plan(Tail(Borrow3), l, r, i)
    BY <2>1, Underway
  <2>3. Tail(Borrow3) = Borrow4
    BY Statements
  <2>4. QED
    BY <2>2, <2>3, Zenon
<1>4. todo = Plan(Borrow4, l, r, i) =>
        SetRightLow /\ L = l /\ R = r /\ I = i
  <2> SUFFICES ASSUME todo = Plan(Borrow4, l, r, i)
               PROVE  SetRightLow /\ L = l /\ R = r /\ I = i
    OBVIOUS
  <2>1. Borrow4 \in Seq(Statement) /\ Borrow4 # <<>> /\ Head(Borrow4) = "right_low"
    BY Statements
  <2>2. QED
    BY <2>1, Underway
<1>5. todo = Plan(MergeStmts, l, r, i) =>
        Unlink /\ L = l /\ R = r /\ I = i /\ Tail(todo) = Plan(Merge2, l, r, i)
  <2> SUFFICES ASSUME todo = Plan(MergeStmts, l, r, i)
               PROVE  Unlink /\ L = l /\ R = r /\ I = i /\ Tail(todo) = Plan(Merge2, l, r, i)
    OBVIOUS
  <2>1. MergeStmts \in Seq(Statement) /\ MergeStmts # <<>> /\ Head(MergeStmts) = "unlink"
    BY Statements
  <2>2. Unlink /\ L = l /\ R = r /\ I = i /\ Tail(todo) = Plan(Tail(MergeStmts), l, r, i)
    BY <2>1, Underway
  <2>3. Tail(MergeStmts) = Merge2
    BY Statements
  <2>4. QED
    BY <2>2, <2>3, Zenon
<1>6. todo = Plan(Merge2, l, r, i) =>
        Prepend /\ L = l /\ R = r /\ I = i /\ Tail(todo) = Plan(Merge3, l, r, i)
  <2> SUFFICES ASSUME todo = Plan(Merge2, l, r, i)
               PROVE  Prepend /\ L = l /\ R = r /\ I = i /\ Tail(todo) = Plan(Merge3, l, r, i)
    OBVIOUS
  <2>1. Merge2 \in Seq(Statement) /\ Merge2 # <<>> /\ Head(Merge2) = "prepend"
    BY Statements
  <2>2. Prepend /\ L = l /\ R = r /\ I = i /\ Tail(todo) = Plan(Tail(Merge2), l, r, i)
    BY <2>1, Underway
  <2>3. Tail(Merge2) = Merge3
    BY Statements
  <2>4. QED
    BY <2>2, <2>3, Zenon
<1>7. todo = Plan(Merge3, l, r, i) =>
        DropSeparator /\ L = l /\ R = r /\ I = i /\ Tail(todo) = Plan(Merge4, l, r, i)
  <2> SUFFICES ASSUME todo = Plan(Merge3, l, r, i)
               PROVE  DropSeparator /\ L = l /\ R = r /\ I = i /\ Tail(todo) = Plan(Merge4, l, r, i)
    OBVIOUS
  <2>1. Merge3 \in Seq(Statement) /\ Merge3 # <<>> /\ Head(Merge3) = "drop_separator"
    BY Statements
  <2>2. DropSeparator /\ L = l /\ R = r /\ I = i /\ Tail(todo) = Plan(Tail(Merge3), l, r, i)
    BY <2>1, Underway
  <2>3. Tail(Merge3) = Merge4
    BY Statements
  <2>4. QED
    BY <2>2, <2>3, Zenon
<1>8. todo = Plan(Merge4, l, r, i) =>
        InheritLow /\ L = l /\ R = r /\ I = i /\ Tail(todo) = Plan(Merge5, l, r, i)
  <2> SUFFICES ASSUME todo = Plan(Merge4, l, r, i)
               PROVE  InheritLow /\ L = l /\ R = r /\ I = i /\ Tail(todo) = Plan(Merge5, l, r, i)
    OBVIOUS
  <2>1. Merge4 \in Seq(Statement) /\ Merge4 # <<>> /\ Head(Merge4) = "inherit_low"
    BY Statements
  <2>2. InheritLow /\ L = l /\ R = r /\ I = i /\ Tail(todo) = Plan(Tail(Merge4), l, r, i)
    BY <2>1, Underway
  <2>3. Tail(Merge4) = Merge5
    BY Statements
  <2>4. QED
    BY <2>2, <2>3, Zenon
<1>9. todo = Plan(Merge5, l, r, i) =>
        PublishRedirect /\ L = l /\ R = r /\ I = i /\ Tail(todo) = Plan(<<>>, l, r, i)
  <2> SUFFICES ASSUME todo = Plan(Merge5, l, r, i)
               PROVE  PublishRedirect /\ L = l /\ R = r /\ I = i /\ Tail(todo) = Plan(<<>>, l, r, i)
    OBVIOUS
  <2>1. Merge5 \in Seq(Statement) /\ Merge5 # <<>> /\ Head(Merge5) = "redirect"
    BY Statements
  <2>2. PublishRedirect /\ L = l /\ R = r /\ I = i /\ Tail(todo) = Plan(Tail(Merge5), l, r, i)
    BY <2>1, Underway
  <2>3. Tail(Merge5) = <<>>
    BY Statements
  <2>4. QED
    BY <2>2, <2>3, Zenon
<1>10. QED
  BY <1>1, <1>2, <1>3, <1>4, <1>5, <1>6, <1>7, <1>8, <1>9

\* Two neighbours, and the handle that is between them.
LEMMA Neighbours ==
  ASSUME NEW s, NEW k, NEW f, Complete(s, k, f), NEW i \in 1..Len(s)
  PROVE  /\ k[i] \in Page /\ k[i + 1] \in Page /\ k[i] # k[i + 1]
         /\ i \in Nat /\ i \in 1..Len(k) /\ i + 1 \in 1..Len(k) /\ s[i] \in Handle
         /\ f[k[i]].high = s[i] /\ f[k[i + 1]].low = s[i]
         /\ Fits(s, i, f[k[i]]) /\ Fits(s, i + 1, f[k[i + 1]])
<1>1. Parent(s, k) /\ \A j \in 1..Len(k) : Fits(s, j, f[k[j]])
  BY DEF Complete
<1>2. /\ Len(s) \in Nat /\ Len(k) = Len(s) + 1 /\ s[i] \in Handle
      /\ \A j \in 1..(Len(s) + 1) : k[j] \in Page
      /\ \A a, b \in 1..Len(k) : k[a] = k[b] => a = b
  BY <1>1, ParentTypes DEF Parent
<1>3. i \in 1..Len(k) /\ i + 1 \in 1..Len(k) /\ i # i + 1
  BY <1>2
<1>4. Fits(s, i, f[k[i]]) /\ Fits(s, i + 1, f[k[i + 1]])
  BY <1>1, <1>3
<1>5. High(s, i) = s[i]
  BY <1>2 DEF High
<1>6. Low(s, i + 1) = s[i]
  <2>1. i + 1 # 1 /\ i + 1 - 1 = i
    BY <1>2
  <2>2. QED
    BY <2>1 DEF Low
<1>7. QED
  BY <1>2, <1>3, <1>4, <1>5, <1>6 DEF Fits

\* Fields decide a leaf.
LEMMA SameLeaf ==
  ASSUME NEW x \in LeafRec, NEW y \in LeafRec,
         x.kind = y.kind, x.low = y.low, x.high = y.high, x.entries = y.entries
  PROVE  x = y
BY DEF LeafRec

-----------------------------------------------------------------------------
(***************************************************************************)
(* The borrow, statement by statement.                                     *)
(***************************************************************************)
LEMMA SeparatorStep ==
  ASSUME Moved, Next
  PROVE  SeparatorSet'
<1>1. PICK i \in 1..Len(seps), b \in Handle :
        /\ todo = Plan(Borrow2, kids[i], kids[i + 1], i)
        /\ held = {b} /\ seps \in Seq(Handle) /\ Leaves(leaf)
        /\ leaf[kids[i]].high = seps[i] /\ leaf[kids[i + 1]].low = seps[i]
        /\ Complete([seps EXCEPT ![i] = b], kids, Bounded(leaf, kids[i], kids[i + 1], b))
  BY DEF Moved
<1> DEFINE l == kids[i]
           r == kids[i + 1]
<1>2. SetSeparator /\ I = i /\ Tail(todo) = Plan(Borrow3, l, r, i)
  BY <1>1, NextStatement
<1>3. Boundary = b
  BY <1>1 DEF Boundary
<1>4. seps' = [seps EXCEPT ![i] = b] /\ UNCHANGED <<kids, leaf>> /\ GoesOn
  BY <1>2, <1>3 DEF SetSeparator, ReplaceAt
<1>5. Len(seps') = Len(seps)
  BY <1>1, <1>4
<1>6. l \in Page
  <2> DEFINE z == [seps EXCEPT ![i] = b]
             g == Bounded(leaf, l, r, b)
  <2>1. Complete(z, kids, g) /\ Len(z) = Len(seps)
    BY <1>1
  <2> HIDE DEF z, g
  <2>2. QED
    BY <2>1, Neighbours
<1>7. \A h : OwnedBy(seps, leaf, {}, h) => OwnedBy(seps', leaf', {}, h)
  <2> SUFFICES ASSUME NEW h, OwnedBy(seps, leaf, {}, h)
               PROVE  OwnedBy(seps', leaf', {}, h)
    OBVIOUS
  <2>1. CASE \E j \in DOMAIN seps : h = seps[j]
    <3>1. PICK j \in DOMAIN seps : h = seps[j]
      BY <2>1
    <3>2. CASE j = i
      BY <1>1, <1>4, <1>6, <3>1, <3>2 DEF OwnedBy
    <3>3. CASE j # i
      BY <1>4, <3>1, <3>3 DEF OwnedBy
    <3>4. QED
      BY <3>2, <3>3
  <2>2. CASE ~\E j \in DOMAIN seps : h = seps[j]
    BY <1>4, <2>2 DEF OwnedBy
  <2>3. QED
    BY <2>1, <2>2
<1>8. todo' = Plan(Borrow3, l, r, i) /\ held' = {b}
  BY <1>1, <1>2, <1>4, <1>7, Continues
<1>9. /\ i \in 1..Len(seps') /\ Leaves(leaf') /\ leaf'[kids'[i]].high = leaf'[kids'[i + 1]].low
      /\ todo' = Plan(Borrow3, kids'[i], kids'[i + 1], i) /\ held' = {b}
      /\ Complete(seps', kids', Bounded(leaf', kids'[i], kids'[i + 1], b))
  BY <1>1, <1>4, <1>5, <1>8
<1>10. QED
  BY <1>9 DEF SeparatorSet

LEMMA LeftHighStep ==
  ASSUME SeparatorSet, Next
  PROVE  LeftHighSet'
<1>1. PICK i \in 1..Len(seps), b \in Handle :
        /\ todo = Plan(Borrow3, kids[i], kids[i + 1], i)
        /\ held = {b} /\ Leaves(leaf)
        /\ leaf[kids[i]].high = leaf[kids[i + 1]].low
        /\ Complete(seps, kids, Bounded(leaf, kids[i], kids[i + 1], b))
  BY DEF SeparatorSet
<1> DEFINE l == kids[i]
           r == kids[i + 1]
<1>2. SetLeftHigh /\ L = l /\ Tail(todo) = Plan(Borrow4, l, r, i)
  BY <1>1, NextStatement
<1>3. Boundary = b
  BY <1>1 DEF Boundary
<1>4. leaf' = [leaf EXCEPT ![l].high = b] /\ UNCHANGED <<seps, kids>> /\ GoesOn
  BY <1>2, <1>3 DEF SetLeftHigh
<1>5. l \in Page /\ r \in Page /\ l # r
  <2> DEFINE g == Bounded(leaf, l, r, b)
  <2>1. Complete(seps, kids, g)
    BY <1>1
  <2> HIDE DEF g
  <2>2. QED
    BY <2>1, Neighbours
<1> HIDE DEF l, r
<1>6. leaf \in [Page -> LeafRec]
  BY <1>1 DEF Leaves
<1>7. /\ leaf' \in [Page -> LeafRec] /\ \A q \in Page : q # l => leaf'[q] = leaf[q]
      /\ leaf'[l].high = b /\ leaf'[l].kind = leaf[l].kind /\ leaf'[l].low = leaf[l].low
      /\ leaf'[l].entries = leaf[l].entries
  BY <1>4, <1>5, <1>6 DEF LeafRec
<1>8. \A h : OwnedBy(seps, leaf, {}, h) => OwnedBy(seps', leaf', {}, h)
  <2> SUFFICES ASSUME NEW h, OwnedBy(seps, leaf, {}, h)
               PROVE  OwnedBy(seps', leaf', {}, h)
    OBVIOUS
  <2>1. CASE h = leaf[l].high
    BY <1>1, <1>5, <1>7, <2>1 DEF OwnedBy, l, r
  <2>2. CASE h # leaf[l].high
    BY <1>4, <1>7, <2>2 DEF OwnedBy
  <2>3. QED
    BY <2>1, <2>2
<1>9. todo' = Plan(Borrow4, l, r, i) /\ held' = {b}
  BY <1>1, <1>2, <1>4, <1>8, Continues
<1>10. Leaves(leaf')
  BY <1>1, <1>7 DEF Leaves
<1>11. Bounded(leaf', l, r, b) = Bounded(leaf, l, r, b)
  <2>1. \A q \in Page : Bounded(leaf', l, r, b)[q] = Bounded(leaf, l, r, b)[q]
    <3>1. [leaf'[l] EXCEPT !.high = b] = [leaf[l] EXCEPT !.high = b]
      <4>1. /\ [leaf'[l] EXCEPT !.high = b] \in LeafRec
            /\ [leaf[l] EXCEPT !.high = b] \in LeafRec
        BY <1>5, <1>6, <1>7 DEF LeafRec
      <4>2. leaf'[l] \in LeafRec /\ leaf[l] \in LeafRec
        BY <1>5, <1>6, <1>7
      <4>3. QED
        BY <1>7, <4>1, <4>2, SameLeaf DEF LeafRec
    <3>2. QED
      BY <1>5, <1>7, <3>1 DEF Bounded
  <2>2. QED
    BY <2>1 DEF Bounded
<1>12. /\ i \in 1..Len(seps') /\ Leaves(leaf') /\ leaf'[kids'[i]].high = b
       /\ todo' = Plan(Borrow4, kids'[i], kids'[i + 1], i) /\ held' = {b}
       /\ Complete(seps', kids', Bounded(leaf', kids'[i], kids'[i + 1], b))
  BY <1>1, <1>4, <1>7, <1>9, <1>10, <1>11 DEF l, r
<1>13. QED
  BY <1>12 DEF LeftHighSet

LEMMA RightLowStep ==
  ASSUME LeftHighSet, Next
  PROVE  AtRest'
<1>1. PICK i \in 1..Len(seps), b \in Handle :
        /\ todo = Plan(Borrow4, kids[i], kids[i + 1], i)
        /\ held = {b} /\ Leaves(leaf)
        /\ leaf[kids[i]].high = b
        /\ Complete(seps, kids, Bounded(leaf, kids[i], kids[i + 1], b))
  BY DEF LeftHighSet
<1> DEFINE l == kids[i]
           r == kids[i + 1]
           g == Bounded(leaf, l, r, b)
<1>2. SetRightLow /\ R = r
  BY <1>1, NextStatement
<1>3. Boundary = b
  BY <1>1 DEF Boundary
<1>4. /\ leaf' = [leaf EXCEPT ![r].low = b] /\ UNCHANGED <<seps, kids>>
      /\ todo' = <<>> /\ held' = {}
  BY <1>2, <1>3 DEF SetRightLow
<1>5. Complete(seps, kids, g)
  BY <1>1
<1>6. l \in Page /\ r \in Page /\ l # r
  <2> HIDE DEF g
  <2> QED
    BY <1>5, Neighbours
<1>7. leaf' = g
  <2>0. leaf \in [Page -> LeafRec]
    BY <1>1 DEF Leaves
  <2>1. [leaf[l] EXCEPT !.high = b] = leaf[l]
    <3>1. [leaf[l] EXCEPT !.high = b] \in LeafRec /\ leaf[l] \in LeafRec
      BY <1>6, <2>0 DEF LeafRec
    <3>2. QED
      BY <1>1, <3>1, SameLeaf DEF LeafRec
  <2> HIDE DEF l, r
  <2>2. \A q \in Page : leaf'[q] = g[q]
    BY <1>4, <1>6, <2>0, <2>1 DEF Bounded
  <2>3. QED
    BY <1>4, <2>0, <2>2 DEF Bounded
<1>8. QED
  BY <1>4, <1>5, <1>7 DEF AtRest

LEMMA SomeLeft ==
  ASSUME NEW S, Cardinality(S) > N \div 2
  PROVE  S # {}
<1>1. N \div 2 >= 1
  BY HandlesAssumption
<1>2. Cardinality({}) = 0
  BY FS_EmptySet
<1>3. Cardinality(S) # 0
  BY <1>1, HandlesAssumption
<1>4. QED
  BY <1>2, <1>3, Zenon

LEMMA OneLeft ==
  ASSUME NEW S, IsFiniteSet(S), Cardinality(S) > N \div 2, NEW x \in S
  PROVE  \E y \in S : y # x
<1>1. N \div 2 >= 1
  BY HandlesAssumption
<1>2. IsFiniteSet(S \ {x}) /\ Cardinality(S \ {x}) = Cardinality(S) - 1
  BY FS_RemoveElement
<1>3. Cardinality(S) \in Nat /\ Cardinality({}) = 0 /\ N \div 2 \in Nat
  BY HandlesAssumption, FS_CardinalityType, FS_EmptySet
<1>4. S \ {x} # {}
  BY <1>1, <1>2, <1>3
<1>5. QED
  BY <1>4

\* move: from the left the record is the new boundary, from the right the
\* record after it is.
LEMMA MoveStep ==
  ASSUME BorrowDue, Next
  PROVE  Moved'
<1>1. PICK i \in 1..Len(seps) :
        /\ todo = Plan(BorrowStmts, kids[i], kids[i + 1], i)
        /\ held = {} /\ Complete(seps, kids, leaf)
        /\ ~(AtMinimum(kids[i]) /\ AtMinimum(kids[i + 1]))
  BY DEF BorrowDue
<1> DEFINE l == kids[i]
           r == kids[i + 1]
           A == leaf[l].entries
           B == leaf[r].entries
           record == IF ~AtMinimum(l) THEN Greatest(A) ELSE Least(B)
           E == IF ~AtMinimum(l) THEN A \ {record} ELSE A \cup {record}
           F == IF ~AtMinimum(l) THEN B \cup {record} ELSE B \ {record}
           b == Least(F)
           m == seps[i]
<1>2. MoveRecord /\ L = l /\ R = r /\ Tail(todo) = Plan(Borrow2, l, r, i)
  BY <1>1, NextStatement
<1>3. /\ leaf' = [leaf EXCEPT ![l].entries = E, ![r].entries = F]
      /\ held' = {b} /\ todo' = Plan(Borrow2, l, r, i) /\ UNCHANGED <<seps, kids>>
  BY <1>2 DEF MoveRecord
<1>4. /\ l \in Page /\ r \in Page /\ l # r /\ i \in Nat /\ m \in Handle
      /\ leaf[l].high = m /\ leaf[r].low = m
      /\ Fits(seps, i, leaf[l]) /\ Fits(seps, i + 1, leaf[r])
  BY <1>1, Neighbours
<1>5. /\ Leaves(leaf) /\ leaf \in [Page -> LeafRec]
      /\ seps \in Seq(Handle) /\ Ascending(seps) /\ Len(seps) \in Nat
  BY <1>1 DEF Complete, Leaves, Parent
<1>6. /\ A \in SUBSET Handle /\ IsFiniteSet(A) /\ Distinct(A)
      /\ B \in SUBSET Handle /\ IsFiniteSet(B) /\ Distinct(B)
  BY <1>4, <1>5 DEF Leaves, LeafRec
<1>7. /\ \A j \in 1..Len(seps) : seps[j].key \in Nat
      /\ \A h \in A \cup B : h.key \in Nat
  BY <1>5, <1>6, KeyTypes
\* Which keys are where.
<1>8. \A h \in A : (i # 1 => seps[i - 1].key <= h.key) /\ h.key < m.key
  <2>1. i # Len(seps) + 1
    BY <1>5
  <2>2. QED
    BY <1>4, <2>1 DEF Fits, Within
<1>9. \A h \in B : m.key <= h.key /\ (i # Len(seps) => h.key < seps[i + 1].key)
  <2>1. i + 1 # 1 /\ i + 1 - 1 = i /\ (i + 1 = Len(seps) + 1 <=> i = Len(seps))
    BY <1>4, <1>5
  <2>2. ASSUME NEW h \in B
        PROVE  m.key <= h.key /\ (i # Len(seps) => h.key < seps[i + 1].key)
    <3>1. Within(seps, i + 1, h.key)
      BY <1>4 DEF Fits
    <3>2. /\ i + 1 # 1 => seps[i + 1 - 1].key <= h.key
          /\ i + 1 # Len(seps) + 1 => h.key < seps[i + 1].key
      BY <3>1 DEF Within
    <3>3. QED
      BY <2>1, <3>2
  <2>3. QED
    BY <2>2
<1>10. i # 1 => i - 1 \in 1..Len(seps) /\ seps[i - 1].key < m.key
  BY <1>5 DEF Ascending
<1>11. i # Len(seps) => i + 1 \in 1..Len(seps) /\ m.key < seps[i + 1].key
  BY <1>5 DEF Ascending
<1> DEFINE Lower(x) == i # 1 => seps[i - 1].key <= x
           Upper(x) == i # Len(seps) => x < seps[i + 1].key
<1>12. /\ E \in SUBSET Handle /\ F \in SUBSET Handle
       /\ IsFiniteSet(E) /\ IsFiniteSet(F) /\ Distinct(E) /\ Distinct(F)
       /\ b \in F /\ b \in Handle
       /\ \A h \in E : Lower(h.key) /\ h.key < b.key
       /\ \A h \in F : b.key <= h.key /\ Upper(h.key)
       /\ (i # 1 => seps[i - 1].key < b.key) /\ Upper(b.key)
  <2>1. CASE ~AtMinimum(l)
    <3>1. Cardinality(A) > N \div 2
      <4>1. Cardinality(A) \in Nat /\ N \div 2 \in Nat
        BY <1>6, HandlesAssumption, FS_CardinalityType
      <4>2. QED
        BY <2>1, <4>1 DEF AtMinimum, Size
    <3>2. A # {}
      BY <3>1, SomeLeft
    <3> DEFINE x == Greatest(A)
    <3>3. record = x /\ E = A \ {x} /\ F = B \cup {x}
      BY <2>1
    <3>4. x \in A /\ \A h \in A : x.key >= h.key
      BY <1>6, <3>2, GreatestHandle
    <3> HIDE DEF A, B, E, F, record, x, b, m
    <3>5. F \in SUBSET Handle /\ F # {} /\ E \in SUBSET Handle
      BY <1>6, <3>3, <3>4
    <3>6. b \in F /\ \A h \in F : b.key <= h.key
      BY <3>5, LeastHandle DEF b
    <3>7. \A h \in B : x.key < h.key
      BY <1>4, <1>7, <1>8, <1>9, <3>4, KeyTypes
    <3>8. b = x
      BY <1>7, <3>3, <3>4, <3>6, <3>7
    <3>9. IsFiniteSet(E) /\ IsFiniteSet(F)
      BY <1>6, <3>3, FS_RemoveElement, FS_AddElement, FS_Subset
    <3>10. Distinct(E) /\ Distinct(F)
      BY <1>6, <1>7, <3>3, <3>4, <3>7 DEF Distinct
    <3>11. \A h \in E : Lower(h.key) /\ h.key < b.key
      <4> SUFFICES ASSUME NEW h \in E PROVE Lower(h.key) /\ h.key < b.key
        OBVIOUS
      <4>1. h \in A /\ h # x
        BY <3>3
      <4>2. h.key # x.key
        BY <1>6, <3>4, <4>1 DEF Distinct
      <4>3. QED
        BY <1>7, <1>8, <3>4, <3>8, <4>1, <4>2
    <3>12. \A h \in F : b.key <= h.key /\ Upper(h.key)
      <4> SUFFICES ASSUME NEW h \in F PROVE b.key <= h.key /\ Upper(h.key)
        OBVIOUS
      <4>1. CASE h \in B
        BY <1>9, <3>6, <4>1
      <4>2. CASE h = x
        BY <1>4, <1>7, <1>8, <1>11, <3>4, <3>6, <4>2, KeyTypes
      <4>3. QED
        BY <3>3, <4>1, <4>2
    <3>13. i # 1 => seps[i - 1].key < b.key
      <4> SUFFICES ASSUME i # 1 PROVE seps[i - 1].key < b.key
        OBVIOUS
      <4>1. PICK y \in A : y # x
        BY <1>6, <3>1, <3>4, OneLeft
      <4>2. y \in E
        BY <3>3, <4>1
      <4>3. seps[i - 1].key <= y.key /\ y.key < b.key
        BY <3>11, <4>2
      <4>4. QED
        BY <1>7, <1>10, <3>4, <3>8, <4>1, <4>3
    <3>14. b \in Handle /\ Upper(b.key)
      BY <3>5, <3>6, <3>12
    <3>15. QED
      BY <3>5, <3>6, <3>9, <3>10, <3>11, <3>12, <3>13, <3>14
  <2>2. CASE AtMinimum(l)
    <3>1. Cardinality(B) > N \div 2
      <4>1. Cardinality(B) \in Nat /\ N \div 2 \in Nat
        BY <1>6, HandlesAssumption, FS_CardinalityType
      <4>2. QED
        BY <1>1, <2>2, <4>1 DEF AtMinimum, Size
    <3>2. B # {}
      BY <3>1, SomeLeft
    <3> DEFINE x == Least(B)
    <3>3. record = x /\ E = A \cup {x} /\ F = B \ {x}
      BY <2>2
    <3>4. x \in B /\ \A h \in B : x.key <= h.key
      BY <1>6, <3>2, LeastHandle
    <3> HIDE DEF A, B, E, F, record, x, b, m
    <3>5. F \in SUBSET Handle /\ F # {} /\ E \in SUBSET Handle
      <4>1. PICK y \in B : y # x
        BY <1>6, <3>1, <3>4, OneLeft
      <4>2. QED
        BY <1>6, <3>3, <3>4, <4>1
    <3>6. b \in F /\ \A h \in F : b.key <= h.key
      BY <3>5, LeastHandle DEF b
    <3>7. b \in B /\ b # x /\ x.key < b.key
      <4>1. b \in B /\ b # x
        BY <3>3, <3>6
      <4>2. b.key # x.key
        BY <1>6, <3>4, <4>1 DEF Distinct
      <4>3. QED
        BY <1>7, <3>4, <4>1, <4>2
    <3>8. IsFiniteSet(E) /\ IsFiniteSet(F)
      BY <1>6, <3>3, FS_RemoveElement, FS_AddElement, FS_Subset
    <3>9. \A h \in A : h.key < x.key
      BY <1>4, <1>7, <1>8, <1>9, <3>4, KeyTypes
    <3>10. Distinct(E) /\ Distinct(F)
      BY <1>6, <1>7, <3>3, <3>4, <3>9 DEF Distinct
    <3>11. \A h \in E : Lower(h.key) /\ h.key < b.key
      <4> SUFFICES ASSUME NEW h \in E PROVE Lower(h.key) /\ h.key < b.key
        OBVIOUS
      <4>1. CASE h \in A
        BY <1>7, <1>8, <3>4, <3>7, <3>9, <4>1
      <4>2. CASE h = x
        BY <1>4, <1>7, <1>9, <1>10, <3>4, <3>7, <4>2, KeyTypes
      <4>3. QED
        BY <3>3, <4>1, <4>2
    <3>12. \A h \in F : b.key <= h.key /\ Upper(h.key)
      BY <1>9, <3>3, <3>6
    <3>13. i # 1 => seps[i - 1].key < b.key
      BY <1>4, <1>7, <1>9, <1>10, <3>7, KeyTypes
    <3>14. b \in Handle /\ Upper(b.key)
      BY <3>5, <3>6, <3>12
    <3>15. QED
      BY <3>5, <3>6, <3>8, <3>10, <3>11, <3>12, <3>13, <3>14
  <2>3. QED
    BY <2>1, <2>2
<1> HIDE DEF A, B, E, F, record, b, l, r
<1>13. /\ leaf' \in [Page -> LeafRec] /\ \A q \in Page : q # l /\ q # r => leaf'[q] = leaf[q]
       /\ leaf'[l].entries = E /\ leaf'[l].kind = leaf[l].kind
       /\ leaf'[l].low = leaf[l].low /\ leaf'[l].high = leaf[l].high
       /\ leaf'[r].entries = F /\ leaf'[r].kind = leaf[r].kind
       /\ leaf'[r].low = leaf[r].low /\ leaf'[r].high = leaf[r].high
  BY <1>3, <1>4, <1>5, <1>12 DEF LeafRec
<1>14. Leaves(leaf')
  <2>1. ASSUME NEW q \in Page
        PROVE  IsFiniteSet(leaf'[q].entries) /\ Distinct(leaf'[q].entries)
    <3>1. CASE q # l /\ q # r
      BY <1>5, <1>13, <3>1 DEF Leaves
    <3>2. QED
      BY <1>12, <1>13, <3>1
  <2>2. QED
    BY <1>13, <2>1 DEF Leaves
<1> DEFINE g == Bounded(leaf', l, r, b)
<1>15. /\ g \in [Page -> LeafRec] /\ \A q \in Page : q # l /\ q # r => g[q] = leaf[q]
       /\ g[l].entries = E /\ g[l].kind = leaf[l].kind
       /\ g[l].low = leaf[l].low /\ g[l].high = b
       /\ g[r].entries = F /\ g[r].kind = leaf[r].kind
       /\ g[r].low = b /\ g[r].high = leaf[r].high
  BY <1>4, <1>12, <1>13, BoundedTypes
<1> HIDE DEF g
<1>16. Complete([seps EXCEPT ![i] = b], kids, g)
  BY <1>1, <1>12, <1>15, BorrowComplete DEF l, r
<1>17. /\ i \in 1..Len(seps') /\ b \in Handle
       /\ todo' = Plan(Borrow2, kids'[i], kids'[i + 1], i)
       /\ held' = {b} /\ seps' \in Seq(Handle) /\ Leaves(leaf')
       /\ leaf'[kids'[i]].high = seps'[i] /\ leaf'[kids'[i + 1]].low = seps'[i]
       /\ Complete([seps' EXCEPT ![i] = b], kids', Bounded(leaf', kids'[i], kids'[i + 1], b))
  BY <1>3, <1>4, <1>5, <1>12, <1>13, <1>14, <1>16 DEF l, r, g
<1>18. QED
  BY <1>17 DEF Moved

-----------------------------------------------------------------------------
(***************************************************************************)
(* The merge, statement by statement.                                      *)
(***************************************************************************)
LEMMA UnlinkStep ==
  ASSUME MergeDue, Next
  PROVE  Unlinked'
<1>1. PICK i \in 1..Len(seps) :
        /\ todo = Plan(MergeStmts, kids[i], kids[i + 1], i)
        /\ held = {} /\ Complete(seps, kids, leaf)
  BY DEF MergeDue
<1>2. /\ Unlink /\ I = i /\ Tail(todo) = Plan(Merge2, kids[i], kids[i + 1], i)
  BY <1>1, NextStatement
<1>3. /\ held' = {seps[i]} /\ seps' = RemoveAt(seps, i) /\ kids' = RemoveAt(kids, i)
      /\ todo' = Plan(Merge2, kids[i], kids[i + 1], i) /\ UNCHANGED leaf
  BY <1>2 DEF Unlink
<1>4. /\ kids[i] \in Page /\ kids[i + 1] \in Page /\ kids[i] # kids[i + 1]
      /\ i \in Nat /\ seps[i] \in Handle
      /\ leaf[kids[i]].high = seps[i] /\ leaf[kids[i + 1]].low = seps[i]
  BY <1>1, Neighbours
<1>5. Complete(RemoveAt(seps, i), RemoveAt(kids, i), Merged(leaf, kids[i], kids[i + 1]))
  BY <1>1, MergeComplete
<1> DEFINE l == kids[i]
           r == kids[i + 1]
           o == seps[i]
<1>6. /\ l \in Page /\ r \in Page /\ i \in Nat /\ o \in Handle /\ l # r
      /\ todo' = Plan(Merge2, l, r, i)
      /\ held' = {o} /\ Leaves(leaf') /\ leaf'[l].high = o /\ leaf'[r].low = o
      /\ Complete(seps', kids', Merged(leaf', l, r))
  BY <1>1, <1>3, <1>4, <1>5 DEF Complete
<1> HIDE DEF l, r, o
<1>7. QED
  BY <1>6 DEF Unlinked

LEMMA PrependStep ==
  ASSUME Unlinked, Next
  PROVE  Prepended'
<1>1. PICK l \in Page, r \in Page, i \in Nat, o \in Handle :
        /\ l # r /\ todo = Plan(Merge2, l, r, i)
        /\ held = {o} /\ Leaves(leaf) /\ leaf[l].high = o /\ leaf[r].low = o
        /\ Complete(seps, kids, Merged(leaf, l, r))
  BY DEF Unlinked
<1>2. Prepend /\ L = l /\ R = r /\ Tail(todo) = Plan(Merge3, l, r, i)
  BY <1>1, NextStatement
<1>3. /\ leaf' = [leaf EXCEPT ![r].entries = @ \cup leaf[l].entries, ![l].entries = {}]
      /\ UNCHANGED <<seps, kids>> /\ GoesOn
  BY <1>2 DEF Prepend
<1>4. leaf \in [Page -> LeafRec]
  BY <1>1 DEF Leaves
<1>5. /\ leaf' \in [Page -> LeafRec] /\ \A q \in Page : q # l /\ q # r => leaf'[q] = leaf[q]
      /\ leaf'[l].entries = {} /\ leaf'[l].kind = leaf[l].kind
      /\ leaf'[l].low = leaf[l].low /\ leaf'[l].high = leaf[l].high
      /\ leaf'[r].entries = leaf[r].entries \cup leaf[l].entries
      /\ leaf'[r].kind = leaf[r].kind
      /\ leaf'[r].low = leaf[r].low /\ leaf'[r].high = leaf[r].high
  BY <1>1, <1>3, <1>4 DEF LeafRec
<1>6. \A h : OwnedBy(seps, leaf, {}, h) => OwnedBy(seps', leaf', {}, h)
  <2> SUFFICES ASSUME NEW h, OwnedBy(seps, leaf, {}, h)
               PROVE  OwnedBy(seps', leaf', {}, h)
    OBVIOUS
  <2>1. CASE \E p \in Page : h \in leaf[p].entries \/ h = leaf[p].low \/ h = leaf[p].high
    <3>1. PICK p \in Page : h \in leaf[p].entries \/ h = leaf[p].low \/ h = leaf[p].high
      BY <2>1
    <3>2. CASE p # l /\ p # r
      BY <1>5, <3>1, <3>2 DEF OwnedBy
    <3>3. CASE p = l
      BY <1>1, <1>5, <3>1, <3>3 DEF OwnedBy
    <3>4. CASE p = r
      BY <1>1, <1>5, <3>1, <3>4 DEF OwnedBy
    <3>5. QED
      BY <3>2, <3>3, <3>4
  <2>2. CASE \E j \in DOMAIN seps : h = seps[j]
    BY <1>3, <2>2 DEF OwnedBy
  <2>3. QED
    BY <2>1, <2>2 DEF OwnedBy
<1>7. todo' = Plan(Merge3, l, r, i) /\ held' = {o}
  BY <1>1, <1>2, <1>3, <1>6, Continues
<1>8. Leaves(leaf')
  <2> DEFINE g == Merged(leaf, l, r)
  <2>1. Leaves(g)
    BY <1>1 DEF Complete
  <2>2. g[l].entries = {} /\ g[r].entries = leaf[r].entries \cup leaf[l].entries
    BY <1>1, <1>4, MergedTypes
  <2> HIDE DEF g
  <2>3. ASSUME NEW q \in Page
        PROVE  IsFiniteSet(leaf'[q].entries) /\ Distinct(leaf'[q].entries)
    <3>1. CASE q # l /\ q # r
      BY <1>1, <1>5, <3>1 DEF Leaves
    <3>2. CASE q = l \/ q = r
      <4>1. leaf'[q].entries = g[q].entries
        BY <1>5, <2>2, <3>2
      <4>2. QED
        BY <2>1, <4>1 DEF Leaves
    <3>3. QED
      BY <3>1, <3>2
  <2>4. QED
    BY <1>5, <2>3 DEF Leaves
<1>9. Merged(leaf', l, r) = Merged(leaf, l, r)
  <2>1. \A q \in Page : Merged(leaf', l, r)[q] = Merged(leaf, l, r)[q]
    BY <1>1, <1>5 DEF Merged
  <2>2. QED
    BY <2>1 DEF Merged
<1>10. /\ l # r /\ todo' = Plan(Merge3, l, r, i)
       /\ held' = {o} /\ Leaves(leaf') /\ leaf'[l].high = o /\ leaf'[r].low = o
       /\ leaf'[l].entries = {} /\ Complete(seps', kids', Merged(leaf', l, r))
  BY <1>1, <1>3, <1>5, <1>7, <1>8, <1>9
<1>11. QED
  BY <1>10 DEF Prepended

\* drop(separator): the fences keep the key.
LEMMA DropStep ==
  ASSUME Prepended, Next
  PROVE  SeparatorDropped'
<1>1. PICK l \in Page, r \in Page, i \in Nat, o \in Handle :
        /\ l # r /\ todo = Plan(Merge3, l, r, i)
        /\ held = {o} /\ Leaves(leaf) /\ leaf[l].high = o /\ leaf[r].low = o
        /\ leaf[l].entries = {} /\ Complete(seps, kids, Merged(leaf, l, r))
  BY DEF Prepended
<1>2. DropSeparator /\ Tail(todo) = Plan(Merge4, l, r, i)
  BY <1>1, NextStatement
<1>3. UNCHANGED <<seps, kids, leaf>>
  BY <1>2 DEF DropSeparator
<1>4. o \in Owned'
  <2>1. o # NoHandle
    BY KeyTypes
  <2>2. OwnedBy(seps', leaf', held', o)
    BY <1>1, <1>3, <2>1 DEF OwnedBy
  <2>3. QED
    BY <2>2, OwnedIs
<1>5. ~Unwinds(held)
  BY <1>1, <1>4 DEF Unwinds, Destroys
<1>6. todo' = Plan(Merge4, l, r, i) /\ held' = {}
  BY <1>2, <1>5 DEF DropSeparator
<1>7. QED
  BY <1>1, <1>3, <1>6 DEF SeparatorDropped

LEMMA InheritStep ==
  ASSUME SeparatorDropped, Next
  PROVE  Inherited'
<1>1. PICK l \in Page, r \in Page, i \in Nat :
        /\ l # r /\ todo = Plan(Merge4, l, r, i)
        /\ held = {} /\ Leaves(leaf) /\ leaf[l].high = leaf[r].low
        /\ leaf[l].entries = {} /\ Complete(seps, kids, Merged(leaf, l, r))
  BY DEF SeparatorDropped
<1>2. InheritLow /\ L = l /\ R = r /\ Tail(todo) = Plan(Merge5, l, r, i)
  BY <1>1, NextStatement
<1>3. /\ leaf' = [leaf EXCEPT ![r].low = leaf[l].low, ![l].low = NoHandle]
      /\ UNCHANGED <<seps, kids>> /\ GoesOn
  BY <1>2 DEF InheritLow
<1>4. leaf \in [Page -> LeafRec]
  BY <1>1 DEF Leaves
<1>5. /\ leaf' \in [Page -> LeafRec] /\ \A q \in Page : q # l /\ q # r => leaf'[q] = leaf[q]
      /\ leaf'[l].entries = leaf[l].entries /\ leaf'[l].kind = leaf[l].kind
      /\ leaf'[l].low = NoHandle /\ leaf'[l].high = leaf[l].high
      /\ leaf'[r].entries = leaf[r].entries /\ leaf'[r].kind = leaf[r].kind
      /\ leaf'[r].low = leaf[l].low /\ leaf'[r].high = leaf[r].high
  BY <1>1, <1>3, <1>4 DEF LeafRec
<1>6. \A h : OwnedBy(seps, leaf, {}, h) => OwnedBy(seps', leaf', {}, h)
  <2> SUFFICES ASSUME NEW h, OwnedBy(seps, leaf, {}, h)
               PROVE  OwnedBy(seps', leaf', {}, h)
    OBVIOUS
  <2>1. CASE \E p \in Page : h \in leaf[p].entries \/ h = leaf[p].low \/ h = leaf[p].high
    <3>1. PICK p \in Page : h \in leaf[p].entries \/ h = leaf[p].low \/ h = leaf[p].high
      BY <2>1
    <3>2. CASE p # l /\ p # r
      BY <1>5, <3>1, <3>2 DEF OwnedBy
    <3>3. CASE p = l
      BY <1>1, <1>5, <3>1, <3>3 DEF OwnedBy
    <3>4. CASE p = r
      BY <1>1, <1>5, <3>1, <3>4 DEF OwnedBy
    <3>5. QED
      BY <3>2, <3>3, <3>4
  <2>2. CASE \E j \in DOMAIN seps : h = seps[j]
    BY <1>3, <2>2 DEF OwnedBy
  <2>3. QED
    BY <2>1, <2>2 DEF OwnedBy
<1>7. todo' = Plan(Merge5, l, r, i) /\ held' = {}
  BY <1>1, <1>2, <1>3, <1>6, Continues
<1>8. Leaves(leaf')
  <2>1. \A q \in Page : leaf'[q].entries = leaf[q].entries
    BY <1>5
  <2>2. QED
    BY <1>1, <1>5, <2>1 DEF Leaves
<1>9. [leaf' EXCEPT ![l].kind = "redirect"] = Merged(leaf, l, r)
  <2> DEFINE g == [leaf' EXCEPT ![l].kind = "redirect"]
             f == Merged(leaf, l, r)
  <2>1. /\ g \in [Page -> LeafRec] /\ \A q \in Page : q # l => g[q] = leaf'[q]
        /\ g[l].kind = "redirect" /\ g[l].entries = leaf'[l].entries
        /\ g[l].low = leaf'[l].low /\ g[l].high = leaf'[l].high
    BY <1>1, <1>5 DEF LeafRec
  <2>2. /\ f \in [Page -> LeafRec] /\ \A q \in Page : q # l /\ q # r => f[q] = leaf[q]
        /\ f[l].entries = {} /\ f[l].kind = "redirect"
        /\ f[r].entries = leaf[r].entries \cup leaf[l].entries
        /\ f[r].kind = leaf[r].kind
        /\ f[r].low = leaf[l].low /\ f[r].high = leaf[r].high
    <3>1. l \in Page /\ r \in Page /\ l # r /\ leaf \in [Page -> LeafRec]
      BY <1>1, <1>4
    <3>2. QED
      BY <3>1, MergedTypes
  <2>3. f[l].low = NoHandle /\ f[l].high = leaf[l].high
    BY <1>1 DEF Merged
  <2> HIDE DEF g, f
  <2>4. g[l] = f[l]
    <3>1. g[l] \in LeafRec /\ f[l] \in LeafRec
      BY <1>1, <2>1, <2>2
    <3>2. /\ g[l].kind = f[l].kind /\ g[l].low = f[l].low /\ g[l].high = f[l].high
          /\ g[l].entries = f[l].entries
      BY <1>1, <1>5, <2>1, <2>2, <2>3
    <3>3. QED
      BY <3>1, <3>2, SameLeaf
  <2>5. g[r] = f[r]
    BY <1>1, <1>5, <2>1, <2>2, SameLeaf
  <2>6. \A q \in Page : g[q] = f[q]
    BY <1>5, <2>1, <2>2, <2>4, <2>5
  <2>7. g = f
    BY <2>1, <2>2, <2>6
  <2>8. QED
    BY <2>7 DEF g, f
<1>10. QED
  BY <1>1, <1>3, <1>7, <1>8, <1>9 DEF Inherited

LEMMA RedirectStep ==
  ASSUME Inherited, Next
  PROVE  AtRest'
<1>1. PICK l \in Page, r \in Page, i \in Nat :
        /\ l # r /\ todo = Plan(Merge5, l, r, i)
        /\ held = {} /\ Leaves(leaf)
        /\ Complete(seps, kids, [leaf EXCEPT ![l].kind = "redirect"])
  BY DEF Inherited
<1>2. PublishRedirect /\ L = l /\ Tail(todo) = Plan(<<>>, l, r, i)
  BY <1>1, NextStatement
<1>3. /\ leaf' = [leaf EXCEPT ![l].kind = "redirect"]
      /\ UNCHANGED <<seps, kids>> /\ GoesOn
  BY <1>2 DEF PublishRedirect
<1>4. Tail(todo) = <<>>
  BY <1>2, PlanDone
<1>5. todo' = <<>> /\ held' = {}
  BY <1>1, <1>3, <1>4 DEF GoesOn, Unwinds
<1>6. QED
  BY <1>1, <1>3, <1>5 DEF AtRest

-----------------------------------------------------------------------------
(***************************************************************************)
(* The other changes, each in one step.                                    *)
(***************************************************************************)
LEMMA HomeLeaf ==
  ASSUME AtRest, NEW k \in Key
  PROVE  /\ HomeIndex(k) \in 1..Len(kids) /\ Home(k) = kids[HomeIndex(k)]
         /\ Home(k) \in Page /\ Within(seps, HomeIndex(k), k)
         /\ leaf \in [Page -> LeafRec]
         /\ leaf[Home(k)].entries \in SUBSET Handle /\ IsFiniteSet(leaf[Home(k)].entries)
         /\ Distinct(leaf[Home(k)].entries)
         /\ \A h \in leaf[Home(k)].entries : Within(seps, HomeIndex(k), h.key)
<1>1. /\ Complete(seps, kids, leaf) /\ Parent(seps, kids) /\ Leaves(leaf)
      /\ seps \in Seq(Handle) /\ Ascending(seps) /\ Len(kids) = Len(seps) + 1
      /\ \A j \in 1..Len(kids) : kids[j] \in Page /\ Fits(seps, j, leaf[kids[j]])
  BY DEF AtRest, Complete, Parent
<1>2. k \in Nat
  BY HandlesAssumption
<1>3. HomeIndex(k) \in 1..Len(kids) /\ Within(seps, HomeIndex(k), k)
  BY <1>1, <1>2, HomeIs
<1>4. Home(k) = kids[HomeIndex(k)]
  BY DEF Home
<1>5. Home(k) \in Page /\ Fits(seps, HomeIndex(k), leaf[Home(k)])
  BY <1>1, <1>3, <1>4
<1>6. /\ leaf \in [Page -> LeafRec]
      /\ leaf[Home(k)].entries \in SUBSET Handle /\ IsFiniteSet(leaf[Home(k)].entries)
      /\ Distinct(leaf[Home(k)].entries)
  BY <1>1, <1>5 DEF Leaves, LeafRec
<1>7. QED
  BY <1>3, <1>4, <1>5, <1>6 DEF Fits

LEMMA StoreStep ==
  ASSUME AtRest, NEW k \in Key, Store(k)
  PROVE  AtRest'
<1> DEFINE p == Home(k)
<1>1. PICK h \in Handle \ Owned :
        h.key = k /\ leaf' = [leaf EXCEPT ![p].entries = @ \cup {h}]
  BY DEF Store
<1>2. k \notin Keys(p) /\ UNCHANGED <<seps, kids, held, todo>>
  BY DEF Store
<1> DEFINE E == leaf[p].entries \cup {h}
<1>3. leaf' = [leaf EXCEPT ![p].entries = E]
  BY <1>1, HomeLeaf
<1>4. E \in SUBSET Handle /\ IsFiniteSet(E)
  BY <1>1, HomeLeaf, FS_AddElement
<1>5. Distinct(E)
  <2>1. \A g \in leaf[p].entries : g.key # k
    BY <1>2 DEF Keys
  <2>2. Distinct(leaf[p].entries)
    BY HomeLeaf
  <2>3. QED
    BY <1>1, <2>1, <2>2 DEF Distinct
<1>6. \A g \in E : Within(seps, HomeIndex(k), g.key)
  BY <1>1, HomeLeaf
<1>7. p = kids[HomeIndex(k)] /\ HomeIndex(k) \in 1..Len(kids)
  BY HomeLeaf
<1> HIDE DEF E, p
<1>8. Complete(seps, kids, leaf')
  BY <1>3, <1>4, <1>5, <1>6, <1>7, RefilledComplete DEF AtRest
<1>9. QED
  BY <1>2, <1>8 DEF AtRest

LEMMA EraseStep ==
  ASSUME AtRest, NEW k \in Key, Erase(k)
  PROVE  AtRest'
<1> DEFINE p == Home(k)
           E == {h \in leaf[p].entries : h.key # k}
<1>1. leaf' = [leaf EXCEPT ![p].entries = E] /\ UNCHANGED <<seps, kids, held, todo>>
  BY HomeLeaf DEF Erase
<1>2. E \subseteq leaf[p].entries
  OBVIOUS
<1>3. p = kids[HomeIndex(k)] /\ HomeIndex(k) \in 1..Len(kids)
  BY HomeLeaf
<1> HIDE DEF E
<1>4. E \in SUBSET Handle /\ IsFiniteSet(E)
  BY <1>2, HomeLeaf, FS_Subset
<1>5. Distinct(E)
  BY <1>2, HomeLeaf DEF Distinct
<1>6. \A g \in E : Within(seps, HomeIndex(k), g.key)
  BY <1>2, HomeLeaf
<1> HIDE DEF p
<1>7. Complete(seps, kids, leaf')
  BY <1>1, <1>3, <1>4, <1>5, <1>6, RefilledComplete DEF AtRest
<1>8. QED
  BY <1>1, <1>7 DEF AtRest

LEMMA SplitStep ==
  ASSUME AtRest, NEW k \in Key, Split(k)
  PROVE  AtRest'
<1> DEFINE p     == Home(k)
           i     == HomeIndex(k)
           A     == leaf[p].entries
           first == CHOOSE h \in A : Cardinality(Under(A, h.key)) = N \div 2
           upper == {h \in A : h.key >= first.key}
<1>1. PICK new \in Page :
        /\ leaf[new].kind = "free"
        /\ leaf' = [leaf EXCEPT
             ![p].entries = A \ upper,
             ![p].high    = first,
             ![new] = [leaf[p] EXCEPT !.entries = upper, !.low = first]]
        /\ seps' = InsertAt(seps, i, first)
        /\ kids' = InsertAt(kids, i + 1, new)
  BY Zenon DEF Split, Under
<1>2. Size(p) = N /\ UNCHANGED <<held, todo>>
  BY DEF Split
<1>3. /\ p \in Page /\ i \in 1..Len(kids) /\ p = kids[i] /\ leaf \in [Page -> LeafRec]
      /\ A \in SUBSET Handle /\ IsFiniteSet(A) /\ Distinct(A)
  BY HomeLeaf
<1>4. N \div 2 \in Nat /\ N \div 2 >= 1 /\ N \div 2 < N
  BY HandlesAssumption
<1>5. first \in A /\ Cardinality(Under(A, first.key)) = N \div 2
  <2>1. Cardinality(A) = N
    BY <1>2 DEF Size
  <2> HIDE DEF A
  <2>2. \E h \in A : Cardinality(Under(A, h.key)) = N \div 2
    BY <1>3, <1>4, <2>1, MedianHandle
  <2>3. QED
    BY <2>2
<1>6. \E g \in A : g.key < first.key
  <2>1. Under(A, first.key) # {}
    <3> HIDE DEF A, first
    <3>1. Cardinality(Under(A, first.key)) # 0
      BY <1>4, <1>5
    <3>2. QED
      BY <3>1, FS_EmptySet, Zenon
  <2>2. QED
    BY <2>1 DEF Under
<1>7. leaf[p].kind = "leaf"
  BY <1>3 DEF AtRest, Complete, Fits
<1>8. p # new
  BY <1>1, <1>7
<1>9. upper \in SUBSET Handle /\ first \in Handle
  BY <1>3, <1>5
<1> HIDE DEF p, i, A, first, upper
<1>10. /\ leaf' \in [Page -> LeafRec]
       /\ \A q \in Page : q # p /\ q # new => leaf'[q] = leaf[q]
       /\ leaf'[p].entries = A \ upper /\ leaf'[p].kind = leaf[p].kind
       /\ leaf'[p].low = leaf[p].low /\ leaf'[p].high = first
       /\ leaf'[new].entries = upper /\ leaf'[new].kind = leaf[p].kind
       /\ leaf'[new].low = first /\ leaf'[new].high = leaf[p].high
  <2> DEFINE x == [leaf[p] EXCEPT !.entries = A \ upper, !.high = first]
             y == [leaf[p] EXCEPT !.entries = upper, !.low = first]
  <2>1. leaf' = [leaf EXCEPT ![p] = x, ![new] = y]
    BY <1>1, <1>3, <1>8
  <2>2. leaf[p] \in LeafRec /\ A \ upper \in SUBSET Handle
    BY <1>3
  <2>3. /\ x \in LeafRec /\ x.entries = A \ upper /\ x.kind = leaf[p].kind
        /\ x.low = leaf[p].low /\ x.high = first
    BY <1>9, <2>2 DEF LeafRec
  <2>4. /\ y \in LeafRec /\ y.entries = upper /\ y.kind = leaf[p].kind
        /\ y.low = first /\ y.high = leaf[p].high
    BY <1>9, <2>2 DEF LeafRec
  <2> HIDE DEF x, y
  <2>5. /\ leaf' \in [Page -> LeafRec] /\ leaf'[p] = x /\ leaf'[new] = y
        /\ \A q \in Page : q # p /\ q # new => leaf'[q] = leaf[q]
    BY <1>3, <1>8, <2>1, <2>3, <2>4
  <2>6. QED
    BY <2>3, <2>4, <2>5
<1>11. Complete(InsertAt(seps, i, first), InsertAt(kids, i + 1, new), leaf')
  <2>1. /\ Complete(seps, kids, leaf) /\ first \in leaf[kids[i]].entries
        /\ \E g \in leaf[kids[i]].entries : g.key < first.key
        /\ upper = {h \in leaf[kids[i]].entries : h.key >= first.key}
    BY <1>3, <1>5, <1>6 DEF AtRest, A, upper
  <2>2. /\ \A q \in Page : q # kids[i] /\ q # new => leaf'[q] = leaf[q]
        /\ leaf'[kids[i]].entries = leaf[kids[i]].entries \ upper
        /\ leaf'[kids[i]].kind = leaf[kids[i]].kind
        /\ leaf'[kids[i]].low = leaf[kids[i]].low /\ leaf'[kids[i]].high = first
        /\ leaf'[new].entries = upper /\ leaf'[new].kind = leaf[kids[i]].kind
        /\ leaf'[new].low = first /\ leaf'[new].high = leaf[kids[i]].high
    BY <1>3, <1>10 DEF A
  <2>3. /\ leaf[new].kind = "free" /\ leaf' \in [Page -> LeafRec] /\ new \in Page
        /\ i \in 1..Len(kids)
    BY <1>1, <1>3, <1>10
  <2>4. Halves(kids, leaf, i, new, first, leaf')
    BY <2>1, <2>2, <2>3 DEF Halves
  <2> HIDE DEF i, first
  <2>5. QED
    BY <2>1, <2>3, <2>4, SplitComplete
<1>12. QED
  BY <1>1, <1>2, <1>11 DEF AtRest

LEMMA ReclaimStep ==
  ASSUME AtRest, NEW p \in Page, Reclaim(p)
  PROVE  AtRest'
<1>1. /\ leaf[p].kind = "redirect" /\ leaf' = [leaf EXCEPT ![p] = FreeLeaf]
      /\ UNCHANGED <<seps, kids, held, todo>>
  BY DEF Reclaim
<1>2. FreeLeaf \in LeafRec /\ FreeLeaf.entries = {} /\ FreeLeaf.kind # "leaf"
  BY DEF FreeLeaf, LeafRec
<1>3. Complete(seps, kids, [leaf EXCEPT ![p] = FreeLeaf])
  BY <1>1, <1>2, FreedComplete DEF AtRest
<1>4. QED
  BY <1>1, <1>3 DEF AtRest

LEMMA RepairStep ==
  ASSUME AtRest, NEW k \in Key, Repair(k)
  PROVE  BorrowDue' \/ MergeDue'
<1> DEFINE i == IF HomeIndex(k) > 1 THEN HomeIndex(k) - 1 ELSE 1
           both == AtMinimum(kids[i]) /\ AtMinimum(kids[i + 1])
           stmts == IF both THEN MergeStmts ELSE BorrowStmts
<1>1. /\ Len(kids) >= 2 /\ UNCHANGED <<seps, kids, leaf, held>>
      /\ Begin(stmts, i)
  BY DEF Repair
<1>2. i \in 1..Len(seps)
  <2>1. HomeIndex(k) \in 1..Len(kids) /\ Len(kids) = Len(seps) + 1 /\ Len(seps) \in Nat
    BY HomeLeaf DEF AtRest, Complete, Parent
  <2>2. QED
    BY <1>1, <2>1
<1>3. DOMAIN BorrowStmts = 1..Len(BorrowStmts) /\ DOMAIN MergeStmts = 1..Len(MergeStmts)
  BY Statements
<1> HIDE DEF i
<1>4. PICK j \in 1..Len(seps) : j = i
  BY <1>2
<1>5. CASE both
  <2>1. todo' = Plan(MergeStmts, kids[j], kids[j + 1], j)
    BY <1>1, <1>3, <1>4, <1>5 DEF Begin, Stmt, Plan
  <2>2. /\ j \in 1..Len(seps') /\ todo' = Plan(MergeStmts, kids'[j], kids'[j + 1], j)
        /\ held' = {} /\ Complete(seps', kids', leaf')
    BY <1>1, <2>1 DEF AtRest
  <2>3. QED
    BY <2>2 DEF MergeDue
<1>6. CASE ~both
  <2>1. todo' = Plan(BorrowStmts, kids[j], kids[j + 1], j)
    BY <1>1, <1>3, <1>4, <1>6 DEF Begin, Stmt, Plan
  <2>2. ~(AtMinimum(kids[j]) /\ AtMinimum(kids[j + 1]))
    BY <1>4, <1>6
  <2>3. ~(AtMinimum(kids[j]) /\ AtMinimum(kids[j + 1]))'
    BY <1>1, <2>2 DEF AtMinimum, Size
  <2>4. /\ j \in 1..Len(seps') /\ todo' = Plan(BorrowStmts, kids'[j], kids'[j + 1], j)
        /\ held' = {} /\ Complete(seps', kids', leaf')
    BY <1>1, <2>1 DEF AtRest
  <2>5. QED
    BY <2>3, <2>4 DEF BorrowDue
<1>7. QED
  BY <1>5, <1>6

LEMMA RestStep ==
  ASSUME AtRest, Next
  PROVE  HandleInv'
<1>1. ~\E do : Now(do)
  BY DEF AtRest, Now
<1>2. ~(MoveRecord \/ SetSeparator \/ SetLeftHigh \/ SetRightLow
        \/ Unlink \/ Prepend \/ DropSeparator \/ InheritLow \/ PublishRedirect)
  BY <1>1, Zenon DEF MoveRecord, SetSeparator, SetLeftHigh, SetRightLow, Unlink,
                     Prepend, DropSeparator, InheritLow, PublishRedirect
<1>3. CASE \E k \in Key : Store(k) \/ Erase(k) \/ Split(k) \/ Repair(k)
  BY <1>3, StoreStep, EraseStep, SplitStep, RepairStep DEF HandleInv
<1>4. CASE \E p \in Page : Reclaim(p)
  BY <1>4, ReclaimStep DEF HandleInv
<1>5. QED
  BY <1>2, <1>3, <1>4, Zenon DEF Next

-----------------------------------------------------------------------------
(***************************************************************************)
(* The theorems.                                                           *)
(***************************************************************************)
LEMMA HandlesInit == Init => HandleInv
<1> SUFFICES ASSUME Init PROVE AtRest
  BY DEF HandleInv
<1>1. 1 \in Page /\ seps = <<>> /\ kids = <<1>> /\ todo = <<>> /\ held = {}
  BY HandlesAssumption DEF Init, Page
<1>2. /\ leaf \in [Page -> LeafRec] /\ leaf[1].kind = "leaf"
      /\ leaf[1].low = NoHandle /\ leaf[1].high = NoHandle
      /\ \A p \in Page : leaf[p].entries = {}
      /\ \A p \in Page : p # 1 => leaf[p].kind # "leaf"
  BY <1>1 DEF Init, FreeLeaf, LeafRec
<1>3. Leaves(leaf)
  BY <1>2, FS_EmptySet DEF Leaves, Distinct
<1>4. /\ seps \in Seq(Handle) /\ Len(seps) = 0 /\ kids \in Seq(Page) /\ Len(kids) = 1
      /\ kids[1] = 1
  BY <1>1
<1>5. Parent(seps, kids)
  BY <1>4 DEF Parent, Ascending
<1>6. \A i \in 1..Len(kids) : Fits(seps, i, leaf[kids[i]])
  BY <1>1, <1>2, <1>4 DEF Fits, Low, High
<1>7. \A p \in Page : (\A i \in 1..Len(kids) : kids[i] # p) =>
                        leaf[p].entries = {} /\ leaf[p].kind # "leaf"
  BY <1>2, <1>4
<1>8. QED
  BY <1>1, <1>3, <1>5, <1>6, <1>7 DEF AtRest, Complete

\* Every reachable state is at rest, complete, or between two statements of one
\* change, with what the rest of the change will make of it complete.
THEOREM ChangesComplete == Spec => []HandleInv
<1>1. HandleInv /\ [Next]_vars => HandleInv'
  <2> SUFFICES ASSUME HandleInv, [Next]_vars PROVE HandleInv'
    OBVIOUS
  <2>1. CASE Next
    BY <2>1, RestStep, MoveStep, SeparatorStep, LeftHighStep, RightLowStep, UnlinkStep,
       PrependStep, DropStep, InheritStep, RedirectStep DEF HandleInv
  <2>2. CASE UNCHANGED vars
    BY <2>2 DEF vars, HandleInv, AtRest, BorrowDue, Moved, SeparatorSet, LeftHighSet,
                MergeDue, Unlinked, Prepended, SeparatorDropped, Inherited,
                AtMinimum, Size
  <2>3. QED
    BY <2>1, <2>2
<1>2. QED
  BY <1>1, HandlesInit, PTL DEF Spec

LEMMA Resting ==
  ASSUME HandleInv, todo = <<>>
  PROVE  AtRest
<1>1. ASSUME NEW X \in {BorrowStmts, Borrow2, Borrow3, Borrow4,
                        MergeStmts, Merge2, Merge3, Merge4, Merge5},
             NEW l, NEW r, NEW i
      PROVE  todo # Plan(X, l, r, i)
  <2>1. X \in Seq(Statement) /\ X # <<>>
    BY Statements
  <2>2. QED
    BY <2>1, PlanSteps
<1>2. QED
  BY <1>1 DEF HandleInv, BorrowDue, Moved, SeparatorSet, LeftHighSet,
              MergeDue, Unlinked, Prepended, SeparatorDropped, Inherited

\* Between two changes every separator shares its handle with the fences beside
\* it, whatever was inserted, removed, split, borrowed and merged
\* (src/src/node.rs, split_full, borrow_*, merge_left_into_right).
THEOREM BoundariesShared == Spec => []BoundaryShared
<1>1. HandleInv => BoundaryShared
  <2> SUFFICES ASSUME HandleInv, todo = <<>>, NEW i \in DOMAIN seps
               PROVE  leaf[kids[i]].high = seps[i] /\ leaf[kids[i + 1]].low = seps[i]
    BY DEF BoundaryShared
  <2>1. Complete(seps, kids, leaf)
    BY Resting DEF AtRest
  <2>2. i \in 1..Len(seps)
    BY <2>1 DEF Complete, Parent
  <2>3. QED
    BY <2>1, <2>2, Neighbours
<1>2. QED
  BY <1>1, ChangesComplete, PTL

\* No panicking destructor leaves a parent and its leaves half changed: every
\* record stays in the leaf its key routes to (src/src/node.rs:1280-1281).
THEOREM UnwindingKeepsRoutes == Spec => []UnwindKeepsRoutes
<1>1. HandleInv => UnwindKeepsRoutes
  <2> SUFFICES ASSUME HandleInv, todo = <<>>
               PROVE  /\ Len(kids) = Len(seps) + 1
                      /\ \A i \in DOMAIN kids :
                           /\ leaf[kids[i]].kind = "leaf"
                           /\ \A k \in Keys(kids[i]) : HomeIndex(k) = i
                           /\ leaf[kids[i]].low.key  = IF i = 1 THEN 0 ELSE seps[i - 1].key
                           /\ leaf[kids[i]].high.key = IF i = Len(kids) THEN 0
                                                       ELSE seps[i].key
                      /\ \A p \in Page \ ToSet(kids) : leaf[p].entries = {}
                                                       /\ leaf[p].kind # "leaf"
    BY DEF UnwindKeepsRoutes
  <2>1. Complete(seps, kids, leaf)
    BY Resting DEF AtRest
  <2>2. /\ seps \in Seq(Handle) /\ Ascending(seps) /\ Len(kids) = Len(seps) + 1
        /\ Len(seps) \in Nat /\ DOMAIN kids = 1..Len(kids) /\ leaf \in [Page -> LeafRec]
        /\ \A i \in 1..Len(kids) : kids[i] \in Page
    BY <2>1 DEF Complete, Parent, Leaves
  <2>3. ASSUME NEW i \in DOMAIN kids
        PROVE  /\ leaf[kids[i]].kind = "leaf"
               /\ \A k \in Keys(kids[i]) : HomeIndex(k) = i
               /\ leaf[kids[i]].low.key  = IF i = 1 THEN 0 ELSE seps[i - 1].key
               /\ leaf[kids[i]].high.key = IF i = Len(kids) THEN 0 ELSE seps[i].key
    <3>1. Fits(seps, i, leaf[kids[i]]) /\ i \in 1..(Len(seps) + 1)
      BY <2>1, <2>2 DEF Complete
    <3>2. ASSUME NEW k \in Keys(kids[i])
          PROVE  HomeIndex(k) = i
      <4>1. PICK h \in leaf[kids[i]].entries : h.key = k
        BY DEF Keys
      <4>2. h \in Handle
        BY <2>2 DEF LeafRec
      <4>3. k \in Nat /\ Within(seps, i, k)
        BY <3>1, <4>1, <4>2, KeyTypes DEF Fits
      <4>4. QED
        BY <2>2, <3>1, <4>3, HomeIs
    <3>3. QED
      BY <2>2, <3>1, <3>2, KeyTypes DEF Fits, Low, High
  <2>4. ASSUME NEW p \in Page \ ToSet(kids)
        PROVE  leaf[p].entries = {} /\ leaf[p].kind # "leaf"
    <3>1. \A i \in 1..Len(kids) : kids[i] # p
      BY <2>2 DEF ToSet
    <3>2. QED
      BY <2>1, <3>1 DEF Complete
  <2>5. QED
    BY <2>2, <2>3, <2>4
<1>2. QED
  BY <1>1, ChangesComplete, PTL
=============================================================================
