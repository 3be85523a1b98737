----------------------------- MODULE OrderedMap -----------------------------
(***************************************************************************)
(* What BLinkMap promises (src/src/map.rs): a linearizable ordered map.  A *)
(* thread invokes an operation, the operation takes effect on the whole    *)
(* map at one instant, and the thread gets its result.  No pages, no       *)
(* latches and no retries.                                                 *)
(***************************************************************************)
CONSTANTS Thread, Key, Val, NoVal

VARIABLES
  map,      \* the contents: NoVal marks an absent key
  status,   \* per thread: "idle", "invoked" or "done"
  call,     \* per thread: the operation and its arguments
  result    \* per thread: the previous or looked-up value

vars == <<map, status, call, result>>

Call == [op : {"get", "insert", "remove", "update"}, key : Key, val : Val]

Init ==
  /\ map    = [k \in Key |-> NoVal]
  /\ status = [t \in Thread |-> "idle"]
  /\ call   \in [Thread -> Call]
  /\ result = [t \in Thread |-> NoVal]

Invoke(t) ==
  /\ status[t] = "idle"
  /\ \E c \in Call : call' = [call EXCEPT ![t] = c]
  /\ status' = [status EXCEPT ![t] = "invoked"]
  /\ result' = [result EXCEPT ![t] = NoVal]
  /\ UNCHANGED map

\* The value the map holds under key once the call c has taken effect.
After(c, old) == CASE c.op = "get"    -> old
                   [] c.op = "insert" -> c.val
                   [] c.op = "remove" -> NoVal
                   [] c.op = "update" -> IF old = NoVal THEN NoVal ELSE c.val

\* Every operation returns what the map held under its key.
TakeEffect(t) ==
  /\ status[t] = "invoked"
  /\ LET k == call[t].key
     IN  /\ result' = [result EXCEPT ![t] = map[k]]
         /\ map'    = [map EXCEPT ![k] = After(call[t], map[k])]
  /\ status' = [status EXCEPT ![t] = "done"]
  /\ UNCHANGED call

Return(t) ==
  /\ status[t] = "done"
  /\ status' = [status EXCEPT ![t] = "idle"]
  /\ UNCHANGED <<map, call, result>>

\* clear takes the map exclusively: no operation is in progress.
Clear ==
  /\ \A t \in Thread : status[t] = "idle"
  /\ map' = [k \in Key |-> NoVal]
  /\ UNCHANGED <<status, call, result>>

Next == \/ \E t \in Thread : Invoke(t) \/ TakeEffect(t) \/ Return(t)
        \/ Clear

Spec == Init /\ [][Next]_vars
=============================================================================
