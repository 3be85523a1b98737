# A verification development for b-link

`b-link` is a Rust crate with two concurrent ordered collections, `BLinkMap` and
`BLinkSet`, over one latch-crabbed B-link tree.  This directory holds TLA+ modules
that model the tree and the code around it, TLC configurations that check them on small
instances, and TLAPS proofs of what holds for every instance.  Paths below are relative to
the repository (`src/node.rs` is the crate's `src/node.rs`).

## 1. The system

| Component | State it keeps | Operations | Talks to |
|---|---|---|---|
| `array.rs`, `Array<T>` | an allocation, `len`, `cap` | `push`, `insert`, `remove`, `pop`, `split_off`, `append_from`, `prepend_from`, `clear`, drop | called by the pages |
| `node.rs`, pages | per page: fences `low_key`, `high_key`, a strong `right`, a weak `previous`, `is_root`, and a leaf's records, an internal page's separators and children, or a redirect's target | routing, split, borrow, merge | latched with one `RwLock` per page |
| `node.rs`, `Tree` | the root slot (`RwLock<NodeRef>`), the counter `len` (`AtomicUsize`) | `get`, `get_mut`, `insert`, `remove`, `first_entry`, `last_entry`, `entry_at_or_after`, `validate` (tests only) | pages, through latches and `Arc`/`Weak` |
| `handle.rs` | `EntryRef`, `EntryMut`: a leaf's latch and an index; `KeyHandle`: a shared key | `key`, `value`, `value_mut`, drop | given to the user, who may keep one for any time |
| `map.rs` | the tree | the public calls; `clear` takes `&mut self` and replaces the tree | `Tree` |
| `iter.rs` | the last key returned, bounds, a finished flag | `next` re-seeks after the last key | `Tree::first_entry`, `entry_at_or_after` |
| `set.rs` | a map with `()` values | the map's calls, `is_subset`, `is_superset`, `is_disjoint`, `==` | two maps at once in the comparisons |

**How the parts interact.**  There is no global lock.  Threads meet at page
latches and at the root slot only.  A traversal holds one latch at a time and keeps
an `Arc` of the next page while it holds none.  A structural pass latches a page and,
with `try_write`, one or two children; a failed `try_write` makes it drop everything
and start again from the root.  After a split or a merge all latches are dropped
*before* the sibling links are repaired (`repair_split_backlink`,
`repair_merged_link`), and the repair latches pages from left to right and blocks.
A user's guard is a leaf latch that outlives the call.  A comparison of two sets keeps
such a guard in one tree while it looks up in the other.

**What is hard.**  The gap between a structural change and its link repair, in which
other threads may change everything again; pages that are found through an `Arc`
taken earlier; a leaf that is latched a second time for writing after its read latch
was dropped; the predecessor kept as a `Weak`; preemptive rebalancing that has to be
enough although the parent is released first; the even and odd page capacities; the
counter; guards held across everything, and waiting under them; user code that panics in
a comparison or a destructor in the middle of a change; the index arithmetic of two
parallel arrays.  `PROJECT.json` lists each of these hazards at its line with the
property that watches it.

**What makes each part correct.**

- pages: contents stay between the fences, counts between minimum and `N`; the arrays
  under a page do what the page operation says;
- tree: a well-formed b-link tree between any two critical sections; every right link
  and every redirect leads to the page it stands for; at rest the tree is what `validate`
  demands; every call returns;
- map: linearizable to an ordered map; `len` counts the records;
- guards: the record behind a guard stays where it is, unchanged; nobody waits in a circle;
- keys: a destructor that panics abandons no change half-way;
- iterators: keys ascend, none repeats, none that is present throughout is missed;
- sets: comparisons give an answer some set state justifies, and do not block for ever;
- array: every element has one owner until it is destroyed, also when a destructor panics.

## 2. The modules

| Module | What it is |
|---|---|
| `BLinkPages` | page records and the pure page operations of `node.rs`, pages as finite maps |
| `PageFamily` | a parent and its children as finite maps: every change a pass makes under its latches |
| `PageArrays` | the same family on the code's arrays and indices, binary searches included; implements `PageFamily` |
| `OrderedMap` | the abstract specification: what the map promises |
| `BLinkTree` | the concurrent tree: `Init`, one action per critical section, `Spec` |
| `BLinkSafety` | the tree's properties, and the refinement mapping to `OrderedMap` |
| `BLinkClear` | adds `BLinkMap::clear` between calls |
| `BLinkPanic` | adds comparisons that panic |
| `BLinkValidate` | `Tree::height` and `Tree::validate`, and a fault that damages one field of the tree |
| `BLinkWait` | the blocking latches one by one, queued writers, and users who call the map under a guard |
| `BLinkScan` | adds scanners: the ends of the map, iterators, ranges; their properties and the fairness |
| `SetCompare` | comparisons of two sets next to `insert` and `remove`, which move the leaf borders under a walk |
| `KeyHandles` | who owns a key, page changes statement by statement, destructors that panic |
| `OwnedSequences` | the abstract specification of `Array<T>`: sequences of owned elements |
| `FixedArray` | `Array<T>` on raw slots, with destructors that panic; implements `OwnedSequences` |
| `Workloads`, `MC*` | scenes for TLC; one `.cfg` per run |
| `BLinkTreeProofs` | proofs: lemmas about the page operations; types, latches, guards; what structural changes do to a well-formed tree |
| `BLinkLinkProofs` | proofs: occupancy, shape, right links, redirects, no circles |
| `BLinkMapProofs` | proofs: the counter, linearizability, `clear`; cursors and items, `first_entry` |
| `BLinkWaitProofs` | proofs: nobody waits in a circle, and what a guard holds up |
| `SetCompareProofs` | proofs: the answers of comparisons, and when they never block each other |
| `KeyHandlesProofs` | proofs: no change of pages and keys is left half-way |
| `PageArraysProofs` | proofs: the searches and index arithmetic, and that `PageArrays` implements `PageFamily` |
| `FixedArrayProofs` | proofs: the array, and that it implements `OwnedSequences` |

`BLinkPages` <- `BLinkTree` <- `BLinkSafety` is the spine; `BLinkClear`, `BLinkPanic`
<- `BLinkValidate`, `BLinkWait` and `BLinkScan` each extend it with one kind of
environment.  `PageFamily` and `PageArrays` share `BLinkPages` with the tree, so that what
the tree does in one step is what the arrays do.  `FixedArray`, `KeyHandles` and
`SetCompare` stand alone.  The proofs about the tree form a chain too: `BLinkTreeProofs` <-
`BLinkLinkProofs`, which `BLinkMapProofs` and `BLinkWaitProofs` extend.

**State of the tree.**  `page` is the heap of pages, by identity; an identity is never
reused (`MaxPages` bounds how many a behaviour takes) until `clear` frees all of them.  A
sorted array without duplicates is a finite map, so a leaf is a function from keys to values
and an internal page a function from slots to pages: slot 0 is `children[0]`, slot `s` the
child to the right of separator `s`.  `root` is the root slot, `len` the counter.  Per
thread, `pc` names the next critical section, `call` the operation, `node` the `Arc` of the
traversal, `next` the page a pass resumes at after a repair, `fix` the repair's arguments,
`latch` the one latch a thread can hold between two actions, `result` what it will return.
`filled` and `made` drive the workload.  `level` in a page is a history field.

**Grain.**  An action is one critical section: from the moment the thread has every
latch the section uses to the moment it drops them.  Sections commute with everything
that touches other pages, so this loses no interleaving that a thread can observe.  What
a thread carries from one section to the next is exactly what the code carries: an
`Arc`, a captured `Weak`, or a latch (a guard, a leaf under a counter update, the
page a repair holds while it blocks for the next one).  The sections that block more than
once, `split_root_if_full` and `shrink_root`, are cut at each wait in `BLinkWait` (`grip`).
`try_write` fails if the page is latched between actions or, because another thread may be
inside a section at that very moment, whenever another thread is inside an operation
(`Contention`).

**Weak references.**  `Upgrades(p)` holds when the page is reachable from the root or
from an `Arc` some thread holds, along right links, children and redirects.

**Actions and code.**  `ReadRoot`, `Seek*` are `root_node` and `leaf_read_for`;
`SeekGet`, `DropGuard`, `FastUpdate` are `get`, `get_mut` and the guards' life;
`SeekWriter`, `Relatch` are `leaf_write_for`; `FastInsert`, `FastRemove`, `Count` are
`try_insert_without_split`, `try_remove_without_rebalance` and the counter update under
the leaf latch.  `SplitRoot`, `AttemptRoot`, `AttemptRight`, `InsertRetry`, `InsertHere`,
`InsertDown`, `SplitChild` are `insert`'s loop; `Shrink`, `RemoveRetry`, `RemoveHere`,
`RemoveDown`, `BorrowFromLeft`, `BorrowFromRight`, `Merge` are `remove`'s.  `FixSplit`,
`FixSuccessor` are `repair_split_backlink`, and `FixStart`, `FixNone`, `WalkBack`,
`WalkOn`, `Peek`, `Join` are `repair_merged_link`.  In `BLinkScan`, `BeginCall`, `Returns`
and `DropItem` are `next` and the item's life; `EdgeRoot`, `EdgeDown`, `EdgeOn`, `EdgeLeaf`
are `leftmost_leaf` and `rightmost_leaf`, `EdgeAgain`, `EdgeEntry` the loops of `first_entry`
and `last_entry`, which latch the leaf found a second time; `ScanSeek`, `ScanFound`,
`ScanNextLeaf`, `ScanEnd`, `ScanForward` are `entry_at_or_after`.  `PROJECT.json` maps every
definition to its lines.

**Panics** (`BLinkPanic`).  Unwinding drops latches, parking_lot does not poison, and all
comparisons but one come before the first change of a call: they end the call
(`SearchUnwinds`).  The one is in `insert_attempt`, between `split_full` and
`insert_split`: it leaves a page no parent knows (`SplitUnwinds`).

**Guards and waiting** (`BLinkWait`).  A user who calls the map with a guard in hand is two
threads of the model, of which one, nested, only calls while the other (`Keeper`) has a
guard.  `Ascends` is what `handle.rs` and `iter.rs` ask of such a user: guards are taken from
left to right, and nothing is removed under one, because the repair after a merge latches the
retired page's predecessor, which may be the page behind the guard.  `WaitsFor` has a thread wait for whoever holds what it asks for, for a writer
queued before it (parking_lot turns later readers away) and for its own nested call.

**Sets** (`SetCompare`).  A set is its values and, per value, the leaf that owns it (`home`).
A comparison is the two counter reads, the walk with the item's leaf latched, and the lookup in
the other set.  The walk is `next` with `entry_at_or_after`: `Yield` finds the next item in the
leaf that owns the last one, or in the one it has hopped to, and `Pass` drops that leaf and keeps
a reference to its right neighbour only.  Inserts and removes change a leaf with room at once
(`Write`); otherwise a pass below the parent splits the leaf, borrows for it or merges it
(`Descend`, `Split`, `BorrowFromLeft`, `BorrowFromRight`, `Merge`), the links are repaired with
latches that go right (`Repair`), and the pass comes to the leaf and looks again (`Enter`).  Where
a leaf was merged away a reference to it leads on to the survivor (`leads`).  What lies above the
leaves is abstracted to what it allows: any two neighbours may have the same parent, a leaf
without neighbours is the root, and a repair may walk right over any neighbours.
`hist` remembers what has been true of the two sets since a call began, `slipped` which values a
borrow carried to the left over the gap a walk stood in; no action reads them.

**Keys** (`KeyHandles`).  A handle is an allocation; a separator and the two fences beside
it share one.  A change is a list of statements (`todo`); a statement that drops the last
owner of a handle runs the user's destructor, which may panic and abandon the rest.

**The array** (`FixedArray`).  `mem` is what each slot's bytes name, also outside the
initialized range, so that a raw copy duplicates until the length changes.

**Scenes.**  A run plays several workloads.  `Init` chooses a scene of `Scene`, the fixed
calls of `Prefill` give the tree the shape the scene is about, and then the threads choose
calls from the small sets of `Script` in every interleaving.  What only some scenes allow
(`clear`, panics, damage, fairness) is a constant that names them.

## 3. The properties

| Property | Kind | What could go wrong |
|---|---|---|
| `TypeOK` | invariant | a page retired without a target, a link to nowhere |
| `TreeShape` | invariant | a parent and a child disagree on a fence, a page with two parents or none, a record outside its page's range, an `is_root` bit on the wrong page |
| `OccupancyWithinBounds` | invariant | a pass changes a child after its parent's release and under- or overfills it |
| `RightLinkFindsNeighbour` | invariant | between a change and its repair a search that moves right loses keys |
| `RedirectsEnd` | invariant | an old `Arc` leads to a dead end or a cycle |
| `NoStrongCycle` | invariant | pages that own each other in a circle and are never freed |
| `SiblingChainsAtRest` | invariant | after all calls returned a redirect is still in a chain, or a back link points to the wrong page |
| `PredecessorKept` | invariant | after all calls returned a page has lost its back link |
| `ValidAtRest` | invariant | `validate` rejects what calls leave, for an even capacity |
| `OracleExact` | invariant | `validate` overlooks a damaged field, or rejects a good tree |
| `SearchFindsRecords` | invariant | a split abandoned by a panic hides records |
| `LatchDiscipline` | invariant | a guard or a waiting repair without its latch, a write latch that is not exclusive |
| `GuardHasRecord` | invariant | the record behind a guard is moved or removed |
| `GuardPinsPage` | action property | a step changes a page under a guard |
| `NoWaitCycle` | invariant | threads that wait for each other, or for a guard of their own |
| `RootWaitsForSoleLeafOnly` | invariant | a guard on one leaf stops calls to all others |
| `CounterTracksRecords`, `LenNeverUnderflows` | invariants | the counter drifts, or wraps below zero |
| `LinearizableMap` | refinement | an operation acts on the wrong page, returns a value the map never held at one instant, or is lost |
| `ScanTypeOK` | invariant | a cursor inside the tree without a page to latch next |
| `ScanAscends` | action property | a key repeated, out of order or outside the range |
| `ScanMissesNothing` | action property | a record that was present during the whole call is passed over |
| `ItemHasRecord` | invariant | the record behind an iterator's item is moved or removed |
| `FirstIsLeast`, `LastIsGreatest` | action properties | a leaf found and latched again no longer is the first or the last |
| `EveryCallReturns`, `EveryScanReturns` | liveness | a retry loop, a repair walk or a chain of redirects that never ends |
| `DisjointAnswersTrue`, `SubsetWalksTrue` | invariants | racing counters choose a walk that gives an answer no instant justifies; a split, a merge or a borrow takes a value past a walk unseen, other than the one borrow named in section 7 |
| `NoComparisonCycle` | invariant | two walks and the writers between them block each other |
| `RangeInitialized`, `OwnedOnce` | invariants | a slot read before it is written, an element dropped twice or never |
| `ActsAsSequence` | refinement | a shift or a prepend in the wrong order |
| `ArraysFit` | invariant | a merge or a borrow beyond a page's allocation; separators and children out of step |
| `IndexesAgree` | invariant | a binary search that stops one early or late |
| `ArraysImplementPages` | refinement | an index off by one hangs a subtree under the wrong separator |
| `BoundaryShared` | invariant | a fence that is not the separator's own handle |
| `UnwindKeepsRoutes` | invariant | a key destructor panics and leaves a range without an owner |

`LinearizableMap` is `OrderedMap`'s specification under a mapping: the abstract map is
the union of all leaves; a lookup takes effect when its read latch is granted, an update
when its guard is dropped, an insert or a remove when the record changes; `clear` empties
the map at once.

The scan and set properties need history: `steady` holds the keys that have been in the map
since the running call of `next` began, `maxima` the greatest key at every instant since
`last_key_value` was called, `hist` the same for two sets.  They only watch; no action reads
them.

## 4. The runs

| Run | Scenes | Shows |
|---|---|---|
| `writers` | N = 3, two threads. `merges`: four minimal leaves, both remove and insert. `levels`: three levels, both restructure. `splits`: a full leaf with successors; the new page splits again and successors merge before the first repair runs. `record`: every operation on one record. `clear`: calls with up to two `clear`s between them | shape, occupancy, links, redirects, ownership, the counter and linearizability through every interleaving with the link repairs |
| `lost` | a merge at the right end while the pages to its left merge | **violation**: a page loses its back link (section 7) |
| `faults` | N = 4. `calls`: any two inserts or removes on three levels with an internal page at its minimum. `damage`: at most one call, then any one field of the tree, the root slot or the counter is damaged. `panic`: two threads insert and look up while any comparison may panic | `validate` is exact; calls leave valid trees where the two minima differ; an abandoned split hides nothing |
| `waits` | N = 3. `reentry`: two users call the map under a guard, to the right, while they merge and borrow around each other. `collapse`: three threads empty the tree down to one guarded leaf. `guards`: readers and updaters keep guards next to removals, merges and splits | nobody waits in a circle, a guard holds up the root slot only behind the sole leaf, latches exclude, guarded pages and records stay |
| `scans` | N = 3, one thread changes, one scans. `ends`: the tree merges to one empty leaf and gets a record back. `ranges`: a full root and a full leaf split, leaves borrow from the left and merge. `levels`: internal pages borrow, merge and split | order, bounds, nothing missed, both ends right, every scan and every call returns |
| `scan_skip` | a leaf borrows from the right while a cursor is between the two | **violation**: a record is missed (section 7) |
| `scan_last` | a leaf splits after `rightmost_leaf` returned it | **violation**: not the greatest record (section 7) |
| `sets` | N = 3. `compare`: every comparison while one thread changes each set; a minimal leaf beside one that lends, and one at the right end. `oneway`: two threads compare in the same direction while both sets change. `fuller`: a full leaf ahead of the walk is split; or a set is compared with itself. `resize`: minimal leaves merge down to one, a root leaf is split. `skip`: a borrow to the left while a walk is in the gap | answers, and nobody waits in a circle |
| `sets_cross` | two threads call `a.is_disjoint(&b)` while both sets change | **violation**: they walk in opposite directions and block each other (section 7) |
| `array` | two arrays, four elements, capacities 2 and 3, every operation, destructors that panic | ownership, initialization, order |
| `arrays_odd` | N = 3, every family of a parent and its children over six keys, every change | indices and arrays agree with pages as finite maps |
| `keys_unwind` | up to four leaves over four keys, every change statement by statement, destructors that panic | no change is abandoned half-way |

**Bounds, and why they are enough.**  `N = 3` is the smallest capacity the code accepts
(it asserts it), and the one where a page splits, borrows or merges after the fewest calls and
a merge fills the survivor exactly; `N = 4` covers the even case, where a leaf's and an
internal page's minimum differ and a split is uneven (in `faults`; the arrays under the pages
are checked at the odd capacity only and proved for every one).  Two threads suffice for the pairwise
interleavings the properties are about, because a section involves at most one other thread's
unfinished section; `lost` needs no third.  Waiting is about circles, so `waits` and `sets`
have three and four threads.  `MaxKey` leaves room on both sides of each fence a scene is
about.  `MaxPages` exceeds what the calls of a scene allocate; root splits and collapses that
take turns may still use it up, in which case the behaviour ends (`OutOfPages`) and the
properties have been checked up to there.  Values matter only where results do: the `record`
scene and `arrays_odd` have two.  `Copies` bounds how many allocations of one key are alive: a
key can be in a fence after its record was removed and inserted again.  The scenes of `scans`
contain every structural change except the two that break its properties (a borrow from the
right below a cursor, a split of the last leaf), which are `scan_skip` and `scan_last`; `sets`
leaves out only two `is_disjoint` on the same sets at once, which is `sets_cross`: a borrow in the
gap of a walk happens in it, and its properties say what that does.  Four leaves a set (`MaxLeaf`)
are as many as its scenes need to split, and six values (`MaxValue`) put a full leaf between others
or minimal ones in a row.  `ValidAtRest` is checked where one thread changes the tree; the
predecessor that two threads can lose is `PredecessorKept`'s, in `lost`.  The leaves of `arrays_odd`
have no siblings, whose links no change of a family reads.  Every action and
every disjunct fires in some passing run.  Only `array` uses symmetry: arrays and elements are
interchangeable there, and nothing in its properties is about time.

**Fairness.**  `ScanSpec` has weak fairness of each thread's next critical section: the OS
schedules every thread, parking_lot's latches are handed over eventually, and a user drops
each guard and item (`handle.rs` and `iter.rs` ask for it).  Starting a call is not fair:
nobody has to make one.  Fairness and liveness are stated for the scenes in `Timely` only
(`ends` and `levels`), where one structural writer runs next to a scanner, so that every retry
has a cause that ends.  They are not claimed for two structural writers: each may keep failing
the other's `try_write`, and one that splits a full root and one that collapses it can take
turns for ever, since the loops only yield.

## 5. The proofs

| Theorem | Statement | About |
|---|---|---|
| `TypeCorrect` | `Spec => []TypeOK` | tree |
| `LatchesProtect` | `Spec => []LatchDiscipline` | guards |
| `GuardsKeepRecords` | `Spec => []GuardHasRecord` | guards |
| `GuardsPinPages` | `Spec => GuardPinsPage` | guards |
| `ShapeHolds` | `Spec => []TreeShape` | tree |
| `OccupancyHolds` | `Spec => []OccupancyWithinBounds` | tree |
| `RightLinksLead` | `Spec => []RightLinkFindsNeighbour` | tree |
| `RedirectsLeadHome` | `Spec => []RedirectsEnd` | tree |
| `NoCycles` | `Spec => []NoStrongCycle` | tree |
| `CounterExact` | `Spec => []CounterTracksRecords` | map |
| `LenHolds` | `Spec => []LenNeverUnderflows` | map |
| `Linearizable` | `Spec => LinearizableMap` | map |
| `ClearKeepsTree` | all the invariants above, under `ClearSpec` | map |
| `ClearLinearizable` | `ClearSpec => LinearizableMap` | map |
| `CursorsAscend` | `ScanSpec => ScanAscends` | iterators |
| `ScanTypeCorrect` | `ScanSpec => []ScanTypeOK` | iterators |
| `ItemsKeepRecords` | `ScanSpec => []ItemHasRecord` | iterators |
| `FirstEntryIsLeast` | `ScanSpec => FirstIsLeast` | ends of the map |
| `TreeHoldsAmongScans` | shape, occupancy, right links and redirects, under `ScanSpec` | tree |
| `WaitingImplementsTree` | `WaitSpec => Spec` | waiting |
| `NoDeadlock` | `WaitSpec => []NoWaitCycle` | waiting |
| `GuardsConvoyNobody` | `WaitSpec => []RootWaitsForSoleLeafOnly` | waiting |
| `TypeCorrect`, `DisjointIsTrue`, `SubsetIsTrue` | `Spec => []TypeOK`, `[]DisjointAnswersTrue`, `[]SubsetWalksTrue` | sets |
| `OrderedComparisonsGoOn` | `Spec => [](OneDirection => NoComparisonCycle)` | sets |
| `ChangesComplete` | `Spec => []HandleInv` | keys |
| `BoundariesShared`, `UnwindingKeepsRoutes` | `Spec => []BoundaryShared`, `[]UnwindKeepsRoutes` | keys |
| `Invariant` | `Spec => []IInv` of `PageArrays` | pages |
| `ArraysStayFit`, `SearchesFind` | `Spec => []ArraysFit`, `[]IndexesAgree` | pages |
| `ArraysImplementMaps` | `Spec => ArraysImplementPages` | pages |
| `ArrayTypes`, `ArrayRange`, `ArrayOwnership` | `Spec => []TypeOK`, `[]RangeInitialized`, `[]OwnedOnce` | array |
| `ArrayIsSequence` | `Spec => ActsAsSequence` | array |

The theorems about the tree, the map and the iterators hold for every `N >= 3`, every key
range, page bound, set of values, set of threads and scanners, and workload; those about waiting
also for every choice of who calls the map under whose guard; those about sets for every
`N >= 3`, any finite number of sets, any number of leaves, any first borders, threads and workload;
those about keys for any capacity, keys and number of leaves;
those about pages for every `N >= 3`, every key range and every parent with its children; those
about the array for any arrays, elements and capacities.  They assume the modules'
`ASSUME`s only: `CapacityAssumption` (the code's assertion on `N`), `BoundsAssumption`,
`NoValAssumption`, `WorkloadAssumption`, `ClearAssumption`, `ScanAssumption`, `KeeperAssumption`
(a guard's owner calls under no guard itself), `SetAssumption` (finitely many sets,
which start with leaves that own unbroken ranges and keep to the bounds on their records), `HandlesAssumption`, `ArraysAssumption` (the capacity
again, pages enough for a full parent whose children are full, and some value), and for the array `CapsAssumption` (a
capacity is positive, as `with_capacity` asserts) and `NoElemAssumption`; TLC evaluates them in
every run.

*Latches and guards.*  The inductive invariant is `IndInv`: types, `LatchDiscipline` and
`GuardHasRecord` together.  None of the parts is inductive alone.  Types need the guard
part, because `DropGuard` reads the page behind the guard without asking whether there is
one.  The guard part needs the latch protocol: a step changes only a page whose write
latch it can be granted, one it has write-latched, or one that is not allocated yet
(`PagesKept`), and a guarded page is none of these because latches exclude each other and a
guarded page is a leaf.  The latch protocol needs to know that a waiting repair still has
its cursor latched (`RepairLatched`).

*Shape.*  `WellFormed` is `TreeShape` taken apart so that a change of a few pages can be
followed: the root spans all keys and alone has the mark, leaves are level 0, contents are
between the fences, each child is one level down and has the fences of its slot (`Fits`), every
active page but the root has a parent, and two pages of one level share no key (`Apart`); that a
page has only one parent, and only one slot there, follows (`OneSlotEach`).  It is a predicate of
a function from pages to records and of a root, not of the state, so that it can be said of the
tree in the middle of a section too.  The structural sections are made of four elementary changes,
and a lemma about each says that it keeps `WellFormed`: a child is split, two neighbours are
merged, a new root is put above the old one, a root with a sole child is removed.  A borrow is a
merge of two neighbours followed by a split at the new separator, and a split of a full root is
a new root followed by a split.  Link repairs keep what `WellFormed` reads (`Relinks`), and a
record is stored only inside its leaf's fences (`RecordPlace`).

*Occupancy.*  `Bounded` counts entries as cardinalities.  The halves of a full page reach the
minimum, two pages at their minimum fit in one with the separator between them, a page above its
minimum can lend, and a parent that loses a separator can spare it, because `remove` descends
only through such pages.  `TreeInv` is `IndInv`, `WellFormed` and `Bounded` together.

*Links.*  Between a change and its repair a right link may name a page that was merged away,
and a redirect may name another redirect, so the invariant cannot speak of a link's target.
`LinkInv` says that some function `d` takes every page in use to the active page it stands for,
that some rank falls along every redirect, and that the right link of a page leads, under `d`,
to the page of its level that begins at its high fence.  A split extends `d` by the new page; a
merge or a collapse sends everything that led to the retired page to the one that took over; a
repair replaces a link by one that leads to the same page.  The last needs what a thread in the
middle of a repair relies on (`Sees`): the retired page and the survivor of its repair lead to
the same page, whatever has become of both since.

*No circles.*  `Ordered`, a part of `LinkInv`, adds that the references of a retired page lead
to where it leads itself, by fewer steps; `Plain` that only internal pages have children and
only retired ones a target.  Then every non-empty set of pages has one that refers to
none of them: among those that lead to pages of the least level take those that lead furthest
right, and of these one with the fewest steps to go; a child would be lower, an active page's
right link further right, and a retired page's references closer.  `Cyclic` removes
such pages as many times as there are pages, so nothing is left.

*The map.*  The abstract map is the union of the leaves, which is a function because leaves share
no key.  Structural changes and repairs keep which keys have which values (`Stores`), and a
section that writes a record changes that of its call's key only.  With this every action is a
step of `OrderedMap` or a stutter.  The counter equals the number of records less the inserts
and plus the removes that are still to be counted.  It is a sum over sets of threads, which have
to be finite although the set of threads need not be (`MapInv`), and a thread enters them with its
leaf write-latched (`Counted`).  The counter stays above zero because the record of an
uncounted insert is still in that leaf.  `clear` runs when no thread holds a page; the new tree
satisfies every invariant whatever the old one was (`MapState`).

*Cursors.*  `CursorsAscend` has an invariant of its own, `CursorInv`: the key a running
call seeks is the last key returned, or the start bound if there is none, and a call that goes
to the edge of the map has returned nothing and has no start bound.  It needs that no step of
another thread touches the scanner's call (`TreeStepKeeps`, over every action of `BLinkTree`)
and nothing about the tree, which is the point of re-seeking.  The others need `ScanInv`, which
adds the invariants of the tree and its links and where each scanner stands (`Placed`): on a
page in use and, on the way along the left edge, on one that leads to a leftmost page, and to a
leaf once one was found.  A scanner keeps no latch between two sections, so this must survive
every step of the others: `Forwards` says that an active page stays active, or forwards to one that
is a leaf, or leftmost, if it was.  An item is latched, and a step of another thread does not
change a page under a latch (`LatchedPageKept`).  `first_entry` returns the least record of a
leaf that is leftmost when it is latched, and that is the least of the map because leaves share
no key; if the leaf is empty it is the only one (`Bounded`).

*Waiting.*  `NoDeadlock` ranks the threads (`Rank`) by where in the key space the page begins
that a thread asks for, or guards (`Spot`); pages that are no leaves come after all leaves, the
root slot after all pages, and the owner of a guard behind those who ask for its leaf.  A thread
waits only for threads of a higher rank (`RanksRise`), or for threads that ask for nothing, and a
set of threads that all wait for one of the set would have a greatest rank, since ranks are
bounded.  That ranks rise needs `WaitInv`: what is latched is active (`Held`), so that its fences
are those of the tree and what a repair asks for lies to the right of what it has; the root
section is one thread's at a time (`Gripped`); and a call under a guard is a lookup, an update or
an insert to the right of it (`UnderGuard`).  The hard part is where such a call can be: it keeps
an `Arc` and no latch, through pages that split, merge and collapse, and must never come to a
leaf left of the guard or to the guarded leaf.  `Beyond` says so of where the page leads that the
call goes on to (`Ahead`).  It survives every step of another thread because the guarded leaf is
pinned, so that no merge and no borrow can take anything beyond it to its left (`StaysBeyond`).
`WaitingImplementsTree` carries the invariants of the tree over.

*Comparisons.*  `CompareInv` says of the leaves that they are `Formed`, and of each
thread where it stands (`Stands`).  `Formed` says that every leaf owns an unbroken range and that an owner leads to itself.  A
leaf changes its range in three ways, whatever the record counts were: an upper part goes to the
right neighbour or to a new leaf (`Raises`), a lower part to the left neighbour (`Lowers`), all of
it to the right neighbour (`Merges`); each keeps `Formed` (`MovesForm`), and takes a reference that
a walk has hopped to (`OnItsWay`) to a leaf that still owns something (`StillOnItsWay`).  Of the
walk it says that the item is latched and so still where it was found (`Latched`), since a section
that moves borders needs both leaves unlatched (`LatchedKept`), and that of every value the walk
has left behind (`Passed`: up to the last item or left of the leaf hopped to), each is known not to
have made it say no all the time, or has slipped (`Clean`, `Walked`).  This is where borders
matter: `Raises` and `Merges` only let the leaf hopped to begin earlier, so that less is behind the
walk; `Lowers` puts behind it values the walk has not seen, of which exactly one has a record, the
one that is lent, and that one enters `slipped`.  A lookup that fails shows what the
answer says at that instant, which `hist` has seen.

`OrderedComparisonsGoOn` assumes that the lookups of all comparisons go to a set further on in some
order (`OneDirection`, which every state of the run `sets` satisfies).  Then a thread that waits
while it holds a leaf asks for one in a set further on, or, in a repair, for one further right in
the same set (`Rightward`, which survives all moves of borders because the leaf held is pinned:
`KeepsRight`).  So along a circle of waits the place of the leaf asked for, in the order of the sets
and then by the least value it owns (`First`), could only rise; where it stays the same a reader
waits for a writer queued on the same leaf, which waits for a holder.  The violated run
`sets_cross` shows that without the order there is a circle.

*Keys.*  `HandleInv` lists every state between two statements of a change: a borrow due, its
record moved, its separator replaced, and so on to a merge whose fence is still to be inherited.
Each says that the pages, with what is left to do applied to them, are `Complete`: fences are the
separators' own handles and records are between them.  It also says who else owns the handle the next
statement drops: the separator is replaced while both fences still share it, the left fence while
the right one does, and after a merge the separator's handle is dropped while it is still in a
fence.  So no drop in the middle of a change is the last, no destructor runs there, and a
panic can only come after the last statement.

*Pages.*  `IInv` of `PageArraysProofs` says in every state that each page is `Sound`: its arrays
are those of the finite map it stands for, in ascending order, with one child more than
separators (`Holds` for records, `Branches` for children), and within capacity (`Filled`).  That
alone is not inductive: a merge fits and a borrow keeps the order only if the two children are
neighbours.  So until the one change of a behaviour `Unmoved` says that the children stand
between the parent's separators, hold at least their minimum, and share no page.  A binary
search is a function of the interval left, and `HalvingFinds` shows, by the shortest interval
in which it would not, that it stops at the number of keys below the one sought.  Then each array
operation is described by where the elements are afterwards (`IsInserted`, `IsLower`,
`IsJoined`), so that a bound of a copy is a case of an index, and a lemma for each page operation
turns the arrays it leaves into the map `PageFamily` has (`StoredIs`, `SplitLeafIs`,
`InternalLendsLeft`, `LeafMerges`, ...).  `InitInvariant` shows the invariant of the initial
families, whose arrays are sorted sets (`SortedIs`), and `ChangeStep` that every change is the
change of `PageFamily` of that name.

*The array.*  Types, `RangeInitialized` and `OwnedOnce` are inductive together (`Inv`) and not
alone: a raw copy keeps one owner per element only if both ranges are initialized and within
capacity, and a destructor starts for the first time because what an array owns is alive.
Each operation is described by what it does to the slots (`Enters`, `Leaves`, `Joins`,
`Divides`).  The invariant follows, for the bulk copies by the lemma `Rearranged` (every new
slot's element was in a slot before, no two slots have the same, every element is still in
one), and so does the refinement: the sequence of initialized slots changes as in
`OwnedSequences`.

*Lemmas.*  `BLinkTreeProofs` first shows that the extrema and the split key the operations
pick exist: a full page has a key with exactly `N div 2` keys below it
(`MedianExists`, by the least number with too many below), a page above its minimum has
enough entries to lend, an internal page with a separator has a pair of children for every
key.  Then that each page transformation returns a page and keeps redirects aimed.
Then come lemmas about a step of one thread, each by cases on the
actions: types (`StepTyped`), what other threads keep (`OthersKeep`), how latches move
(`LatchesMove`), how guards and repairs begin (`GuardsTaken`, `RepairsTaken`), which pages
change (`PagesKeep`), and what kinds of step there are (`StepKinds`).

*Induction.*  The prover has no induction over a formula, so what is said of the functions
defined by recursion over numbers (`Resolve`, the rounds of `Cyclic`) is proved from the
least number at which it would fail, and so is a binary search.

*Model-checked only.*

- `SiblingChainsAtRest` and `ValidAtRest` are false in general, since a back link can be lost
  (section 7), and hold in the scenes of their runs.  So it is with `LastIsGreatest` and
  `ScanMissesNothing`.
- `OracleExact` and `SearchFindsRecords` are about recursions over the tree (`validate`, a
  search among abandoned splits), which need an induction over data.
- Liveness (`EveryCallReturns`, `EveryScanReturns`) is out of the prover's reach.

## 6. Not modelled

- `lib.rs`, tests, examples and package metadata: no logic of the system.
- A user's `Clone` or a value's destructor that panics, allocation failure, and comparisons
  that panic together with key destructors that do.  Panics in `remove`'s passes come before
  their first change and are modelled like a search's.
- The pages above the leaves, the root slot and the chains of links and redirects in `SetCompare`:
  what they do to a walk is in `BLinkScan`, and two whole trees would multiply two models.  The
  module allows more than they do, so what is proved of it holds of them; the value its walks overlook
  (section 7) is one that the code overlooks.
- A set compared with itself goes by `ptr::eq` and takes no latch; two *aliases* of one set
  cannot be told apart from it.
- Zero-sized elements: they have no bytes, and `Array` only counts them.
- Memory ordering of `len`: its updates happen under a leaf latch; reading it is one
  atomic load.
- The order in which parking_lot serves its queue, beyond a queued writer's turning readers
  away.
- The recursion of dropping a long chain of pages.
- `Debug`, `extend`, `from_iter`, `keys`, `values`: they repeat or project modelled calls.

**Limits the models showed on the way.**  They are not runs of their own.
`is_subset` reads its two counters one after the other (`set.rs:158`), so it may say no
although self was a subset all the time, when a value leaves first the one and then the other
set; `SubsetWalksTrue` therefore asks only of answers a walk gave.  `==` walks only self
(`set.rs:203-204`), so it may say yes although the other set had a further value all the time.
After an insert that a panicking `Ord::cmp` abandoned between `split_full` and `insert_split`,
nobody tells the parent of the new page: when that page fills up, an insert into it retries for
ever (`node.rs:690`), and when its left neighbour becomes the root, `shrink_root` cuts it off
(`node.rs:950`).  The `panic` scene has inserts and lookups only and stays below the first of
these.

## 7. Findings

**A back link is lost** (run `lost`, `PredecessorKept`).  `repair_merged_link` takes the
survivor for a leftmost page whenever the captured predecessor cannot be upgraded, and
clears its `previous`.  The predecessor may be gone for another reason: it was itself merged
away and freed before the repair ran.  Then a page with a left neighbour has no back link
once all calls have returned, which `validate_sibling_levels` rejects and the comment in
the repair excludes.  Lookups are not affected, since they use right links only; a later
merge of that page starts without a predecessor and leaves its left neighbour pointing to a
redirect.

**A cursor misses a record** (run `scan_skip`, `ScanMissesNothing`).  `entry_at_or_after`
drops a leaf before it latches the next.  If the leaf borrows its neighbour's first record in
between, the record moves past the cursor to the left, and `next` returns a later key although
the record was in the map all the time; `Iter`'s documentation promises to observe it.  Splits,
merges and borrows from the left only move records to the right and do no harm (`scans`).
Comparing the next leaf's low fence with the fence of the leaf that was left, or latching the
next leaf before dropping it, would close the gap.

The gap reaches the sets, because `is_disjoint`, `is_subset` and `==` walk with `next`.  Say A is
{1, 2, 3} in the leaves [1] and [2, 3], and B is {2, 4, 5} (scene `skip` of `sets`).  The walk of A
has looked up 1 and left the first leaf; a remove of 1 borrows 2 into it; the walk goes on at 3 and
`is_disjoint` returns true, though 2 was in both sets from before the call until after it.
`is_subset` and `==` can miss a value that way, too.  So "a yes overlooks nothing that was so all the
time" is false of the code.  `DisjointAnswersTrue` and `SubsetWalksTrue` say instead, and the proofs
show for every instance, that this borrow is the only way in which such a value is overlooked
(`slipped`).

**The last record is not the last** (run `scan_last`, `LastIsGreatest`).  `rightmost_leaf`
gives its latch up when it has found a leaf without a right sibling; `last_entry` latches the
leaf again and does not look whether it has got one.  After a split in between the greatest
key of the left half is returned, which was the greatest of the map at no moment of the call.
`first_entry` has the same gap and is not affected: the leftmost leaf stays leftmost or
becomes a redirect to the one that is.

**Two comparisons block each other** (run `sets_cross`, `NoComparisonCycle`).  `is_disjoint`
walks whichever set looks smaller and keeps a leaf of it latched during the lookup in the
other.  Two threads that make the same call can choose opposite directions when the sets
change size between them.  Each holds a leaf the other wants to read, which alone is harmless;
with a writer queued on each of the two leaves the readers are turned away, and all four wait
for ever.  `handle.rs` forbids users just this.  Choosing the direction by address instead of
size, or dropping the item before the lookup, would avoid it.

## 8. Plan

Every component with logic of its own is modelled; what is left out is listed in section 6.
What is next:

1. The pages above the leaves in `SetCompare`: two trees of `BLinkTree` as what its leaves stand for.
2. `validate` and the search among abandoned splits for every tree, each recursion by the least
   level at which it would go wrong.
