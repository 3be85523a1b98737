--------------------------- MODULE OwnedSequences ---------------------------
(***************************************************************************)
(* What Array<T> promises (src/src/array.rs): every array is a sequence,   *)
(* and every element is at any moment in exactly one place: in one         *)
(* sequence, with the user, or destroyed.  No memory, no lengths, no       *)
(* copies of bytes.                                                        *)
(***************************************************************************)
EXTENDS Sequences, SequencesExt

CONSTANTS Arr, Elem

VARIABLES
  items,      \* per array: its elements in order
  user,       \* the elements outside every array
  destroyed   \* the elements whose destructor has been started

Init ==
  /\ items = [a \in Arr |-> <<>>]
  /\ user = Elem
  /\ destroyed = {}

\* Positions count from 1: position i is index i - 1 of the code.
Put(a, i, e) ==
  /\ e \in user
  /\ items' = [items EXCEPT ![a] = InsertAt(@, i, e)]
  /\ user' = user \ {e}
  /\ UNCHANGED destroyed

Take(a, i) ==
  /\ items' = [items EXCEPT ![a] = RemoveAt(@, i)]
  /\ user' = user \cup {items[a][i]}
  /\ UNCHANGED destroyed

\* b, empty before, gets everything from position i on.
Split(a, b, i) ==
  /\ a # b /\ items[b] = <<>>
  /\ items' = [items EXCEPT ![a] = SubSeq(@, 1, i - 1),
                            ![b] = SubSeq(items[a], i, Len(items[a]))]
  /\ UNCHANGED <<user, destroyed>>

Append2(a, b) ==
  /\ a # b
  /\ items' = [items EXCEPT ![a] = @ \o items[b], ![b] = <<>>]
  /\ UNCHANGED <<user, destroyed>>

Prepend2(a, b) ==
  /\ a # b
  /\ items' = [items EXCEPT ![a] = items[b] \o @, ![b] = <<>>]
  /\ UNCHANGED <<user, destroyed>>

DestroyLast(a) ==
  /\ items[a] # <<>>
  /\ items' = [items EXCEPT ![a] = Front(@)]
  /\ destroyed' = destroyed \cup {Last(items[a])}
  /\ UNCHANGED user

\* An array that refuses an element destroys it.
Refuse(e) ==
  /\ e \in user
  /\ user' = user \ {e}
  /\ destroyed' = destroyed \cup {e}
  /\ UNCHANGED items

Next ==
  \/ \E a \in Arr :
       \/ \E i \in 1..(Len(items[a]) + 1), e \in user : Put(a, i, e)
       \/ \E i \in 1..Len(items[a]) : Take(a, i)
       \/ DestroyLast(a)
       \/ \E b \in Arr :
            \/ \E i \in 1..(Len(items[a]) + 1) : Split(a, b, i)
            \/ Append2(a, b) \/ Prepend2(a, b)
  \/ \E e \in user : Refuse(e)

Spec == Init /\ [][Next]_<<items, user, destroyed>>
=============================================================================
