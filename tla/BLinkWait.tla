------------------------------ MODULE BLinkWait ------------------------------
(***************************************************************************)
(* Who waits for whom.  BLinkTree takes the root-slot latch, the root page *)
(* and its sole child in one action; here split_root_if_full and           *)
(* shrink_root of src/src/node.rs block three times, and a user may call   *)
(* the map again while a guard is held.  The calls made under a guard are  *)
(* made by a thread of their own whose Keeper is the guard's thread: both  *)
(* stand for one thread of the program.                                    *)
(***************************************************************************)
EXTENDS BLinkSafety

CONSTANT Keeper  \* per scene and thread: the thread under whose guard it calls

ASSUME KeeperAssumption ==
  /\ Keeper \in [Scene -> [Thread -> Thread]]
  /\ \A s \in Scene : /\ \A t \in Thread : Keeper[s][Keeper[s][t]] = Keeper[s][t]
                      /\ Keeper[s][Main] = Main

VARIABLE grip     \* per thread: how much of the root it has latched

KeeperOf(t) == Keeper[filled.scene][t]

Nested(t) == KeeperOf(t) # t

WaitTypeOK == TypeOK /\ grip \in [Thread -> {"none", "slot", "root"}]

WaitInit == Init /\ grip = [t \in Thread |-> "none"]

-----------------------------------------------------------------------------
(***************************************************************************)
(* What a thread asks for next, and which other threads have it.           *)
(***************************************************************************)
AtRootSection(t) == pc[t] \in {"split_root", "shrink", "shrink_end"}

ReadsSlot(t) == pc[t] \in {"root", "ins_root", "del_root"}

AsksSlot(t) == \/ ReadsSlot(t)
               \/ AtRootSection(t) /\ grip[t] = "none"

\* Mutant: the first child is latched before the root is known to be empty.
AwaitsAnyChild(t) == /\ pc[t] \in {"shrink", "shrink_end"}
                     /\ grip[t] = "root"
                     /\ page[root].kind = "internal"

\* shrink_root waits for the only child while it holds the slot and the root.
AwaitsChild(t) == /\ pc[t] \in {"shrink", "shrink_end"}
                  /\ grip[t] = "root"
                  /\ page[root].kind = "internal"
                  /\ Separators(page[root]) = {}

AsksRead(t) == CASE pc[t] = "seek" -> node[t]
                 [] pc[t] = "peek" -> page[fix[t].cursor].right
                 [] OTHER          -> Nil

AsksWrite(t) ==
  CASE pc[t] \in {"latch", "ins", "del"}     -> node[t]
    [] pc[t] \in {"fix_split", "fix_walk"}   -> fix[t].cursor
    [] pc[t] \in {"fix_succ", "fix_none", "join_retired", "join_survivor",
                  "join_peeked"}             -> fix[t].survivor
    [] AtRootSection(t) /\ grip[t] = "slot"  -> root
    [] AwaitsChild(t)                        -> page[root].kids[NegInf]
    [] OTHER                                 -> Nil

Asks(t) == IF AsksRead(t) # Nil THEN AsksRead(t) ELSE AsksWrite(t)

HasPage(u, p) == latch[u].page = p \/ (grip[u] = "root" /\ p = root)

\* u's latch keeps t's request from being granted.
Blocks(u, t) ==
  \/ AsksSlot(t) /\ grip[u] # "none" /\ u # t
  \/ AsksWrite(t) # Nil /\ HasPage(u, AsksWrite(t))
  \/ /\ AsksRead(t) # Nil
     /\ HasPage(u, AsksRead(t))
     /\ latch[u] # [page |-> AsksRead(t), mode |-> "read"]

\* A queued writer turns later readers away (parking_lot::RwLock).
Queued(u) == AsksWrite(u) # Nil /\ \E v \in Thread : Blocks(v, u)

TurnsAway(u, t) == /\ u # t
                   /\ AsksRead(t) # Nil
                   /\ AsksRead(t) = AsksWrite(u)
                   /\ Queued(u)

\* A guard's owner is busy with the call it made under the guard.
IsBusyWith(t, u) == Nested(u) /\ KeeperOf(u) = t /\ ~Idle(u)

WaitsFor(t, u) == Blocks(u, t) \/ TurnsAway(u, t) \/ IsBusyWith(t, u)

-----------------------------------------------------------------------------
(***************************************************************************)
(* Steps.                                                                  *)
(***************************************************************************)
\* Mutant: the next call goes to a leaf on either side.
AscendsOrNot(t) ==
  /\ pc[KeeperOf(t)] = "guard"
  /\ call'[t].op # "remove"
  /\ Route(page[node[KeeperOf(t)]], call'[t].key) # "here"

\* What handle.rs and iter.rs ask of a user who keeps a guard: the next call
\* goes to another leaf, and guards are taken in one order, from left to right.
\* It is no removal: the repair that follows a merge latches the retired page's
\* predecessor, which may be the leaf behind the guard (handle.rs 88-93).
Ascends(t) ==
  /\ pc[KeeperOf(t)] = "guard"
  /\ call'[t].op # "remove"
  /\ call'[t].key >= page[node[KeeperOf(t)]].high

WaitStart(t) ==
  /\ Start(t)
  /\ Nested(t) => Ascends(t)
  /\ UNCHANGED grip

GripSlot(t) ==
  /\ AtRootSection(t) /\ grip[t] = "none"
  /\ ~\E u \in Thread : Blocks(u, t)
  /\ grip' = [grip EXCEPT ![t] = "slot"]
  /\ UNCHANGED vars

GripRoot(t) ==
  /\ grip[t] = "slot"
  /\ ~\E u \in Thread : Blocks(u, t)
  /\ grip' = [grip EXCEPT ![t] = "root"]
  /\ UNCHANGED vars

\* The root section itself; one turn of the loop ends with every latch dropped.
RootStep(t) ==
  /\ grip[t] = "root"
  /\ Step(t)
  /\ grip' = [grip EXCEPT ![t] = "none"]

\* Any other critical section, once nobody blocks its first latch.
OtherStep(t) ==
  /\ ~AtRootSection(t)
  /\ ~\E u \in Thread : Blocks(u, t) \/ IsBusyWith(t, u)
  /\ Step(t)
  /\ UNCHANGED grip

WaitFinished == \A t \in Thread : Idle(t) /\ (Nested(t) \/ MayCall(t) = {})

WaitTerminated == (WaitFinished \/ OutOfPages) /\ UNCHANGED <<vars, grip>>

WaitNext ==
  \/ \E t \in Thread : \/ WaitStart(t) \/ GripSlot(t) \/ GripRoot(t)
                       \/ RootStep(t) \/ OtherStep(t)
  \/ WaitTerminated

WaitSpec == WaitInit /\ [][WaitNext]_<<vars, grip>>

-----------------------------------------------------------------------------
\* No set of threads in which each waits for another of the set (or for
\* itself): blocking requests only go down from the root slot or to the right
\* ("Every latch acquisition moves right", node.rs 1344), and a user who calls
\* the map again under a guard closes no cycle as long as the call goes to a
\* leaf further right (map.rs 36-38, iter.rs 31-34).
NoWaitCycle ==
  \A S \in (SUBSET Thread) \ {{}} : \E t \in S : ~\E u \in S : WaitsFor(t, u)

\* A guard holds up the root slot only when its leaf is the only one, so that
\* it never convoys calls to other leaves ("it never waits for this leaf while
\* holding the root or a shared ancestor", map.rs 653-655).
RootWaitsForSoleLeafOnly ==
  \A t, u \in Thread :
    grip[t] # "none" /\ pc[u] = "guard" /\ Blocks(u, t) => Leaves = {node[u]}
==============================================================================
