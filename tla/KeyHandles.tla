----------------------------- MODULE KeyHandles -----------------------------
(***************************************************************************)
(* Who owns the keys (KeyHandle, src/src/handle.rs).  A key is allocated   *)
(* once, when its record is inserted, and a record, a separator and fences *)
(* can share the allocation; the key's destructor, which is the user's and *)
(* may panic, runs at whichever statement drops the last of them.  Here    *)
(* the page changes of src/src/node.rs on a parent and its leaves are      *)
(* taken one statement at a time, and a destructor that panics abandons    *)
(* the rest of the change.                                                 *)
(***************************************************************************)
EXTENDS Integers, Sequences, FiniteSets, SequencesExt

CONSTANTS
  N,         \* page capacity
  Key,       \* a set of positive integers
  Copies,    \* bound: allocations of one key that may be alive at once
  MaxPages   \* bound: leaves allocated at once

ASSUME HandlesAssumption ==
  /\ N \in Nat /\ N >= 3 /\ Key \subseteq Nat \ {0}
  /\ Copies \in Nat /\ MaxPages \in Nat \ {0}

Page     == 1..MaxPages
Handle   == [key : Key, copy : 1..Copies]
NoHandle == [key |-> 0, copy |-> 0]   \* an infinite fence

VARIABLES
  seps,  \* the parent's separators
  kids,  \* the parent's children
  leaf,  \* every leaf
  held,  \* handles in local variables of the change under way
  todo   \* the statements of that change still to run

vars == <<seps, kids, leaf, held, todo>>

FreeLeaf == [kind |-> "free", low |-> NoHandle, high |-> NoHandle, entries |-> {}]

Init ==
  /\ seps = <<>> /\ kids = <<1>>
  /\ leaf = [p \in Page |-> IF p = 1 THEN [FreeLeaf EXCEPT !.kind = "leaf"]
                                     ELSE FreeLeaf]
  /\ held = {} /\ todo = <<>>

-----------------------------------------------------------------------------
\* The allocations that something owns.
Owned ==
  (ToSet(seps) \cup held \cup
   UNION {leaf[p].entries \cup {leaf[p].low, leaf[p].high} : p \in Page})
  \ {NoHandle}

\* The last owner of a handle of S lets go of it in this step.
Destroys(S) == \E h \in S : h \notin Owned'

\* The step may end the change: the destructor of a handle of S panics, and the
\* local variables go too.
Unwinds(S) == todo' = <<>> /\ held' = {} /\ Destroys(S)

\* A change goes on with its next statement unless a destructor panics.
GoesOn == \/ todo' = Tail(todo) /\ UNCHANGED held
          \/ Unwinds(Owned \ held)

Keys(p)      == {h.key : h \in leaf[p].entries}
Least(S)     == CHOOSE h \in S : \A g \in S : h.key <= g.key
Greatest(S)  == CHOOSE h \in S : \A g \in S : h.key >= g.key
Size(p)      == Cardinality(leaf[p].entries)
AtMinimum(p) == Size(p) <= N \div 2

\* child_index, counted from 1.
HomeIndex(k) == 1 + Cardinality({i \in DOMAIN seps : seps[i].key <= k})
Home(k)      == kids[HomeIndex(k)]

-----------------------------------------------------------------------------
(***************************************************************************)
(* Changes without a last drop before their end.                           *)
(***************************************************************************)
\* Array::insert in the leaf, of a record whose key is allocated now.
Store(k) ==
  /\ todo = <<>>
  /\ k \notin Keys(Home(k)) /\ Size(Home(k)) < N
  /\ \E h \in Handle \ Owned :
       /\ h.key = k
       /\ \A g \in Handle \ Owned : g.key = k => h.copy <= g.copy
       /\ leaf' = [leaf EXCEPT ![Home(k)].entries = @ \cup {h}]
  /\ UNCHANGED <<seps, kids, held, todo>>

\* The record goes; its key too, unless a separator or a fence shares it.
Erase(k) ==
  /\ todo = <<>>
  /\ k \in Keys(Home(k))
  /\ Len(kids) = 1 \/ ~AtMinimum(Home(k))
  /\ leaf' = [leaf EXCEPT ![Home(k)].entries = {h \in @ : h.key # k}]
  /\ UNCHANGED <<seps, kids, held, todo>>

\* split_full and insert_split: the separator and the two fences beside it are
\* clones of the handle of the right page's first record.
Split(k) ==
  /\ todo = <<>>
  /\ Size(Home(k)) = N
  /\ \E new \in Page :
       /\ leaf[new].kind = "free" /\ \A p \in 1..(new - 1) : leaf[p].kind # "free"
       /\ LET old   == leaf[Home(k)]
              first == CHOOSE h \in old.entries :
                         Cardinality({g \in old.entries : g.key < h.key}) = N \div 2
              upper == {h \in old.entries : h.key >= first.key}
          IN  /\ leaf' = [leaf EXCEPT
                   ![Home(k)].entries = old.entries \ upper,
                   ![Home(k)].high    = first,
                   ![new] = [old EXCEPT !.entries = upper, !.low = first]]
              /\ seps' = InsertAt(seps, HomeIndex(k), first)
              /\ kids' = InsertAt(kids, HomeIndex(k) + 1, new)
  /\ UNCHANGED <<held, todo>>

\* The last Arc of a retired page goes.
Reclaim(p) ==
  /\ todo = <<>>
  /\ leaf[p].kind = "redirect"
  /\ leaf' = [leaf EXCEPT ![p] = FreeLeaf]
  /\ UNCHANGED <<seps, kids, held, todo>>

-----------------------------------------------------------------------------
(***************************************************************************)
(* Changes with a drop in the middle, as sequences of statements.          *)
(***************************************************************************)
Stmt(do, i) == [do |-> do, left |-> kids[i], right |-> kids[i + 1], index |-> i]

BorrowStmts == <<"move", "separator", "left_high", "right_low">>

MergeStmts == <<"unlink", "prepend", "drop_separator", "inherit_low", "redirect">>

Begin(stmts, i) == todo' = [j \in DOMAIN stmts |-> Stmt(stmts[j], i)]

\* remove_attempt on behalf of k, whose child is at its minimum.
Repair(k) ==
  /\ todo = <<>>
  /\ Len(kids) >= 2 /\ AtMinimum(Home(k))
  /\ LET i == IF HomeIndex(k) > 1 THEN HomeIndex(k) - 1 ELSE 1
     IN  Begin(IF AtMinimum(kids[i]) /\ AtMinimum(kids[i + 1])
               THEN MergeStmts ELSE BorrowStmts, i)
  /\ UNCHANGED <<seps, kids, leaf, held>>

Now(do) == todo # <<>> /\ Head(todo).do = do

L == Head(todo).left
R == Head(todo).right
I == Head(todo).index

\* One record crosses; its key, or that of the right page's first record, is
\* the new boundary, cloned into a local.
MoveRecord ==
  /\ Now("move")
  /\ LET fromLeft == ~AtMinimum(L)
         record   == IF fromLeft THEN Greatest(leaf[L].entries)
                                 ELSE Least(leaf[R].entries)
         onLeft   == IF fromLeft THEN leaf[L].entries \ {record}
                                 ELSE leaf[L].entries \cup {record}
         onRight  == IF fromLeft THEN leaf[R].entries \cup {record}
                                 ELSE leaf[R].entries \ {record}
     IN  /\ leaf' = [leaf EXCEPT ![L].entries = onLeft, ![R].entries = onRight]
         /\ held' = {Least(onRight)}
  /\ todo' = Tail(todo)
  /\ UNCHANGED <<seps, kids>>

Boundary == CHOOSE h \in held : TRUE

SetSeparator ==
  /\ Now("separator")
  /\ seps' = ReplaceAt(seps, I, Boundary)
  /\ UNCHANGED <<kids, leaf>>
  /\ GoesOn

\* Mutant: the left page keeps its fence.
SetLeftHighNot ==
  /\ Now("left_high")
  /\ UNCHANGED <<seps, kids, leaf>>
  /\ GoesOn

SetLeftHigh ==
  /\ Now("left_high")
  /\ leaf' = [leaf EXCEPT ![L].high = Boundary]
  /\ UNCHANGED <<seps, kids>>
  /\ GoesOn

\* The boundary moves out of the local: the change is complete.
SetRightLow ==
  /\ Now("right_low")
  /\ leaf' = [leaf EXCEPT ![R].low = Boundary]
  /\ held' = {} /\ todo' = <<>>
  /\ UNCHANGED <<seps, kids>>

\* merge_left_into_right.
Unlink ==
  /\ Now("unlink")
  /\ held' = {seps[I]}
  /\ seps' = RemoveAt(seps, I)
  /\ kids' = RemoveAt(kids, I)
  /\ todo' = Tail(todo)
  /\ UNCHANGED leaf

\* Mutant: the left page gives up its high fence with its records.
PrependStrips ==
  /\ Now("prepend")
  /\ leaf' = [leaf EXCEPT ![R].entries = @ \cup leaf[L].entries,
                          ![L].entries = {}, ![L].high = NoHandle]
  /\ UNCHANGED <<seps, kids>>
  /\ GoesOn

Prepend ==
  /\ Now("prepend")
  /\ leaf' = [leaf EXCEPT ![R].entries = @ \cup leaf[L].entries, ![L].entries = {}]
  /\ UNCHANGED <<seps, kids>>
  /\ GoesOn

\* drop(separator).
DropSeparator ==
  /\ Now("drop_separator")
  /\ UNCHANGED <<seps, kids, leaf>>
  /\ \/ todo' = Tail(todo) /\ held' = {}
     \/ Unwinds(held)

\* right.low_key = left.low_key.take().
InheritLow ==
  /\ Now("inherit_low")
  /\ leaf' = [leaf EXCEPT ![R].low = leaf[L].low, ![L].low = NoHandle]
  /\ UNCHANGED <<seps, kids>>
  /\ GoesOn

PublishRedirect ==
  /\ Now("redirect")
  /\ leaf' = [leaf EXCEPT ![L].kind = "redirect"]
  /\ UNCHANGED <<seps, kids>>
  /\ GoesOn

Next ==
  \/ \E k \in Key : Store(k) \/ Erase(k) \/ Split(k) \/ Repair(k)
  \/ \E p \in Page : Reclaim(p)
  \/ MoveRecord \/ SetSeparator \/ SetLeftHigh \/ SetRightLow
  \/ Unlink \/ Prepend \/ DropSeparator \/ InheritLow \/ PublishRedirect

Spec == Init /\ [][Next]_vars

-----------------------------------------------------------------------------
\* The two fences beside every separator are the separator's own handle: one
\* allocation, of which a merge drops the separator's share only.
BoundaryShared ==
  todo = <<>> =>
    \A i \in DOMAIN seps : /\ leaf[kids[i]].high    = seps[i]
                           /\ leaf[kids[i + 1]].low = seps[i]

\* A key's destructor may panic wherever it runs: the change it abandons is
\* complete, so that every key still routes to the one leaf that owns it and
\* no record is left in a page without a parent ("if dropping a key destructor
\* unwinds, every stale route still reaches the survivor", node.rs 1280-1281).
UnwindKeepsRoutes ==
  todo = <<>> =>
    /\ Len(kids) = Len(seps) + 1
    /\ \A i \in DOMAIN kids :
         /\ leaf[kids[i]].kind = "leaf"
         /\ \A k \in Keys(kids[i]) : HomeIndex(k) = i
         /\ leaf[kids[i]].low.key  = IF i = 1 THEN 0 ELSE seps[i - 1].key
         /\ leaf[kids[i]].high.key = IF i = Len(kids) THEN 0 ELSE seps[i].key
    /\ \A p \in Page \ ToSet(kids) : leaf[p].entries = {} /\ leaf[p].kind # "leaf"
=============================================================================
