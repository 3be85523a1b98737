----------------------------- MODULE FixedArray -----------------------------
(***************************************************************************)
(* The owning array of src/src/array.rs, at the level of its memory.  An   *)
(* allocation is a function from indices to what the bytes there say: the  *)
(* identity of an element, or NoElem where nothing was ever written.       *)
(* Moving an element leaves its old bytes behind, exactly as ptr::copy and *)
(* ptr::read do, so who owns an element is decided by len alone.  The      *)
(* array must never let two initialized slots name one element, forget one *)
(* or destroy one twice, also when a destructor panics while clear or drop *)
(* runs.                                                                   *)
(*                                                                         *)
(* Panics of the code's assertions change nothing, except that push and    *)
(* insert then destroy the element they were given.  A zero-sized T has no *)
(* bytes and is not modelled.                                              *)
(***************************************************************************)
EXTENDS Integers, Sequences

CONSTANTS
  Arr,     \* identities of the arrays a behaviour may create
  Elem,    \* the elements, as objects
  Caps,    \* the capacities arrays are created with
  NoElem   \* bytes that never held an element

ASSUME CapsAssumption   == Caps \subseteq Nat \ {0}
ASSUME NoElemAssumption == NoElem \notin Elem

VARIABLES
  status,  \* per array: its life
  cap,     \* per array: the allocation's capacity
  len,     \* per array: 0..len-1 is the initialized range
  mem,     \* per array: the allocation
  user,    \* the elements the user owns
  drops    \* per element: how often its destructor was started

vars == <<status, cap, len, mem, user, drops>>

\* A destructor that panics in drop leaves the array abandoned: the allocation
\* and what is still in it are never released.
Status == {"none", "live", "clearing", "dropping", "freed", "abandoned"}

TypeOK ==
  /\ status \in [Arr -> Status]
  /\ cap  \in [Arr -> Caps \cup {0}]
  /\ len  \in [Arr -> Nat]
  /\ DOMAIN mem = Arr
  /\ \A a \in Arr : mem[a] \in [0..(cap[a] - 1) -> Elem \cup {NoElem}]
  /\ user \subseteq Elem
  /\ drops \in [Elem -> Nat]

Init ==
  /\ status = [a \in Arr |-> "none"]
  /\ cap    = [a \in Arr |-> 0]
  /\ len    = [a \in Arr |-> 0]
  /\ mem    = [a \in Arr |-> <<>>]
  /\ user   = Elem
  /\ drops  = [e \in Elem |-> 0]

Live(a) == status[a] = "live"

-----------------------------------------------------------------------------
(***************************************************************************)
(* Memory.                                                                 *)
(***************************************************************************)
\* ptr::copy: n elements of src from index i on overwrite dst from index j on,
\* as if through a buffer.
Copied(src, i, dst, j, n) ==
  [k \in DOMAIN dst |-> IF j <= k /\ k < j + n THEN src[i + (k - j)] ELSE dst[k]]

\* Mutant: the shift copies slot by slot in ascending order and overwrites what
\* it has yet to read.
ShiftedNaively(m, i, by, n) ==
  [k \in DOMAIN m |-> IF i + by <= k /\ k < i + by + n
                      THEN m[i + ((k - i) % by)] ELSE m[k]]

\* The n elements from index i on, by places to the right.
Shifted(m, i, by, n) == Copied(m, i, m, i + by, n)

\* Mutant: the layout is one element short.
BareShort(n) == [k \in 0..(n - 2) |-> NoElem]

Bare(n) == [k \in 0..(n - 1) |-> NoElem]

\* with_capacity.
Allocate(a, c) ==
  /\ status' = [status EXCEPT ![a] = "live"]
  /\ cap' = [cap EXCEPT ![a] = c]

WithCapacity(a, c) ==
  /\ status[a] = "none"
  /\ Allocate(a, c)
  /\ mem' = [mem EXCEPT ![a] = Bare(c)]
  /\ UNCHANGED <<len, user, drops>>

-----------------------------------------------------------------------------
(***************************************************************************)
(* One element.                                                            *)
(***************************************************************************)
Destroyed(e) == drops' = [drops EXCEPT ![e] = @ + 1]

\* The element moves into the array.
Give(e) == user' = user \ {e} /\ UNCHANGED drops

Push(a, e) ==
  /\ Live(a)
  /\ len[a] < cap[a]
  /\ mem' = [mem EXCEPT ![a][len[a]] = e]
  /\ len' = [len EXCEPT ![a] = @ + 1]
  /\ Give(e)
  /\ UNCHANGED <<status, cap>>

\* Mutant: the displaced element goes to the end, the suffix stays.
InsertSwapped(a, i, e) ==
  /\ Live(a)
  /\ i <= len[a] /\ len[a] < cap[a]
  /\ mem' = [mem EXCEPT ![a] =
       [k \in DOMAIN @ |-> IF k = i THEN e ELSE IF k = len[a] THEN @[i] ELSE @[k]]]
  /\ len' = [len EXCEPT ![a] = @ + 1]
  /\ Give(e)
  /\ UNCHANGED <<status, cap>>

Insert(a, i, e) ==
  /\ Live(a)
  /\ i <= len[a] /\ len[a] < cap[a]
  /\ mem' = [mem EXCEPT ![a] = [Shifted(@, i, 1, len[a] - i) EXCEPT ![i] = e]]
  /\ len' = [len EXCEPT ![a] = @ + 1]
  /\ Give(e)
  /\ UNCHANGED <<status, cap>>

\* push or insert panics on a full array, insert on an index beyond the end as
\* well, and unwinding destroys the argument.
Refuse(a, i, e) ==
  /\ Live(a)
  /\ len[a] = cap[a] \/ i > len[a]
  /\ user' = user \ {e}
  /\ Destroyed(e)
  /\ UNCHANGED <<status, cap, len, mem>>

Remove(a, i) ==
  /\ Live(a)
  /\ i < len[a]
  /\ user' = user \cup {mem[a][i]}
  /\ mem' = [mem EXCEPT ![a] = Copied(@, i + 1, @, i, len[a] - i - 1)]
  /\ len' = [len EXCEPT ![a] = @ - 1]
  /\ UNCHANGED <<status, cap, drops>>

Pop(a) ==
  /\ Live(a)
  /\ len[a] # 0
  /\ user' = user \cup {mem[a][len[a] - 1]}
  /\ len' = [len EXCEPT ![a] = @ - 1]
  /\ UNCHANGED <<status, cap, mem, drops>>

-----------------------------------------------------------------------------
(***************************************************************************)
(* Many elements.                                                          *)
(***************************************************************************)
\* Mutant: the tail stays in the source's initialized range as well.
SplitLengthsKept(a, b, at) == len' = [len EXCEPT ![b] = len[a] - at]

\* The tail changes owner.
SplitLengths(a, b, at) == len' = [len EXCEPT ![b] = len[a] - at, ![a] = at]

SplitOff(a, b, at) ==
  /\ Live(a) /\ status[b] = "none"
  /\ at <= len[a]
  /\ Allocate(b, cap[a])
  /\ mem' = [mem EXCEPT ![b] = Copied(mem[a], at, Bare(cap[a]), 0, len[a] - at)]
  /\ SplitLengths(a, b, at)
  /\ UNCHANGED <<user, drops>>

\* Mutant: the capacity is not checked.
TakesUnchecked(a, b) ==
  /\ a # b /\ Live(a) /\ Live(b)
  /\ len[b] # 0
  /\ len' = [len EXCEPT ![a] = len[a] + len[b], ![b] = 0]
  /\ UNCHANGED <<status, cap, user, drops>>

\* Both arrays are borrowed exclusively, so they differ, and everything in b
\* fits into a; b is empty afterwards.
Takes(a, b) ==
  /\ a # b /\ Live(a) /\ Live(b)
  /\ len[a] + len[b] <= cap[a]
  /\ len[b] # 0
  /\ len' = [len EXCEPT ![a] = len[a] + len[b], ![b] = 0]
  /\ UNCHANGED <<status, cap, user, drops>>

AppendFrom(a, b) ==
  /\ Takes(a, b)
  /\ mem' = [mem EXCEPT ![a] = Copied(mem[b], 0, @, len[a], len[b])]

PrependFrom(a, b) ==
  /\ Takes(a, b)
  /\ mem' = [mem EXCEPT ![a] =
       Copied(mem[b], 0, Shifted(@, 0, len[b], len[a]), 0, len[b])]

-----------------------------------------------------------------------------
(***************************************************************************)
(* clear and drop.  Destructors are user code, so each is a step of its    *)
(* own, and each may panic.                                                *)
(***************************************************************************)
BeginClear(a) ==
  /\ Live(a)
  /\ status' = [status EXCEPT ![a] = "clearing"]
  /\ UNCHANGED <<cap, len, mem, user, drops>>

BeginDrop(a) ==
  /\ Live(a)
  /\ status' = [status EXCEPT ![a] = "dropping"]
  /\ UNCHANGED <<cap, len, mem, user, drops>>

\* Mutant: a panic finds the element still in the initialized range.
LeavesRangeLate(a, panics) ==
  IF panics THEN UNCHANGED len ELSE len' = [len EXCEPT ![a] = @ - 1]

\* The last element leaves the initialized range before its destructor runs.
LeavesRange(a, panics) == len' = [len EXCEPT ![a] = @ - 1]

\* One turn of clear's loop.  A panic ends the loop: clear's caller may catch it
\* and go on using the array, drop's cannot.
DestroyLast(a, panics) ==
  /\ status[a] \in {"clearing", "dropping"}
  /\ len[a] # 0
  /\ LeavesRange(a, panics)
  /\ Destroyed(mem[a][len[a] - 1])
  /\ status' = IF ~panics THEN status
               ELSE [status EXCEPT ![a] = IF @ = "clearing" THEN "live"
                                                            ELSE "abandoned"]
  /\ UNCHANGED <<cap, mem, user>>

Cleared(a) ==
  /\ status[a] = "clearing" /\ len[a] = 0
  /\ status' = [status EXCEPT ![a] = "live"]
  /\ UNCHANGED <<cap, len, mem, user, drops>>

Deallocate(a) ==
  /\ status[a] = "dropping" /\ len[a] = 0
  /\ status' = [status EXCEPT ![a] = "freed"]
  /\ UNCHANGED <<cap, len, mem, user, drops>>

-----------------------------------------------------------------------------
OneElement(a) ==
  \/ \E e \in user : Push(a, e)
  \/ \E i \in 0..cap[a], e \in user : Refuse(a, i, e)
  \/ \E i \in 0..len[a], e \in user : Insert(a, i, e)
  \/ \E i \in 0..(len[a] - 1) : Remove(a, i)
  \/ Pop(a)

ManyElements(a) ==
  \E b \in Arr : \/ \E at \in 0..len[a] : SplitOff(a, b, at)
                 \/ AppendFrom(a, b) \/ PrependFrom(a, b)

Releasing(a) ==
  \/ BeginClear(a) \/ BeginDrop(a)
  \/ \E panics \in BOOLEAN : DestroyLast(a, panics)
  \/ Cleared(a) \/ Deallocate(a)

\* The user keeps what it owns: nothing is left to do.
Finished == (\A a \in Arr : status[a] \in {"freed", "abandoned"}) /\ UNCHANGED vars

Next ==
  \/ \E a \in Arr : \/ \E c \in Caps : WithCapacity(a, c)
                    \/ OneElement(a) \/ ManyElements(a) \/ Releasing(a)
  \/ Finished

Spec == Init /\ [][Next]_vars

-----------------------------------------------------------------------------
(***************************************************************************)
(* Properties.                                                             *)
(***************************************************************************)
\* Index i of array a is initialized: the array owns what its bytes name.
Initialized(a) == 0..(len[a] - 1)

\* "Exactly the range 0..len contains initialized values" and "len <= cap"
\* (array.rs, representation invariants): no slot in the range is without an
\* element, whatever sequence of calls and panics led there.
RangeInitialized ==
  \A a \in Arr : /\ len[a] <= cap[a]
                 /\ \A i \in Initialized(a) : mem[a][i] \in Elem

\* No two initialized slots, of one array or of two, name the same element.
SlotsDistinct ==
  \A a, b \in Arr : \A i \in Initialized(a), j \in Initialized(b) :
    mem[a][i] = mem[b][j] => a = b /\ i = j

\* What an array owns is alive and is not the user's; what the user owns is
\* alive.
OwnedAlive ==
  /\ \A a \in Arr : \A i \in Initialized(a) :
       mem[a][i] \notin user /\ drops[mem[a][i]] = 0
  /\ \A e \in user : drops[e] = 0

\* An element that is neither the user's nor in an array was destroyed once.
\* (What an abandoned array still holds counts as in an array.)
NothingForgotten ==
  \A e \in Elem : \/ e \in user
                  \/ \E a \in Arr : \E i \in Initialized(a) : mem[a][i] = e
                  \/ drops[e] = 1

\* An allocation is only released when nothing is left in it.
FreedEmpty == \A a \in Arr : status[a] \in {"none", "freed"} => len[a] = 0

\* Every element has exactly one owner until it is destroyed, and is destroyed
\* once: the raw copies of insert, remove, split_off, append_from and
\* prepend_from neither duplicate nor lose one, and a destructor that panics in
\* clear or drop is never run again (array.rs, clear: "cannot expose or
\* double-drop a value whose destructor has already started").
OwnedOnce == SlotsDistinct /\ OwnedAlive /\ NothingForgotten /\ FreedEmpty

\* The initialized range as a sequence.
Items(a) == [i \in 1..len[a] |-> mem[a][i - 1]]

Sequence == INSTANCE OwnedSequences WITH
              items     <- [a \in Arr |-> Items(a)],
              destroyed <- {e \in Elem : drops[e] > 0}

\* Every operation does to the order of the elements what its documentation
\* says: the array implements a sequence (array.rs: insert shifts the suffix
\* right, prepend_from moves every element onto the beginning, and so on).
ActsAsSequence == Sequence!Spec
=============================================================================
