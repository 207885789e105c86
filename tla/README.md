# A verification project for Whippet

Whippet is an embeddable garbage collector: a C library that an embedder
compiles into a language runtime. `src/api/` is the interface, `src/src/` the
four collectors (`mmc`, `pcc`, `semi`, `bdw`) and what they share. This project
models the parts of it that are hard to test: what happens between threads, what
must hold at a pause, and what must eventually happen. Paths below are relative
to the repository and start with `src/`, like those in `PROJECT.json`.

## 1. Inventory

Each entry: the state, the operations, whom it talks to, what is hard, and what
makes it correct.

**Stop-the-world rendezvous** (`src/src/mmc.c`, and again in `pcc.c`). State: the
heap lock, two condition variables, `collecting`, `gc_kind`, `count`, and the
counters of mutators, paused and inactive ones. Operations: a thread joins, leaves,
reaches a safepoint, deactivates, reactivates, asks for a collection and perhaps
carries it out. Everything else in the collector relies on it. Hard: every way of
stopping must be counted once and must wake the collector if it is the last one; a
woken thread may find the next collection under way; waits return spuriously.
Correct: nobody is in the heap while a collection runs; thread-local allocation
state has been handed back; nobody waits forever; a request returns only after a
collection.

**Parallel tracer** (`src/src/parallel-tracer.h`, `root-worklist.h`, `tracer.h`).
State: an epoch with a condition variable, `active_tracers`, a lock and a deque per
worker, the root worklist, the mark bytes of the heap. Operations: start a full or a
roots-only trace, take roots, visit edges, steal, detect termination. Called by
`collect`; calls back into the collector's `trace_one`, `trace_root`. Hard: the
wakeup is sent without the helpers' locks, so it may be missed, and termination is
decided by counting, locking and looking. Correct: a trace that returns is complete,
no helper is left running, no object is traced twice, every trace returns.

**Shared worklist** (`src/src/shared-worklist.h`). State: `bottom`, `top`, `active`,
buffers that double. Operations: `push`, `push_many`, growth, `try_pop`, `steal`,
`release`. Hard: memory ordering, the last element, a thief that sleeps across
growth or wrap-around. Correct: a deque, in which each reference comes out once.

**Ephemerons** (`src/src/gc-ephemeron.c`). State: per ephemeron an epoch, a state, a
key, a value and chain links; the pending table and the resolved list. Operations:
trace, add to pending, resolve when a key is marked, sweep, and the mutators' chain
operations. Hard: tracing and marking race. Correct: the value is traced if and only
if the key and the ephemeron are live; dead ones are unlinked.

**Finalizers** (`src/src/gc-finalizer.c`). State: a table per priority, a list of
fired finalizers. Operations: attach, visit roots, resolve per priority, notify, pop.
Correct: fires once, after its object became unreachable, in order of priority, and
its object and closure are then alive.

**Nofl space** (`src/src/nofl-space.h`, `nofl-holeset.h`). State: block lists (empty,
to sweep, partly full, full, promoted, old, evacuation targets), four ages of blocks
given back to the system, mark bytes, flags, `pending_unavailable_bytes`. Operations:
acquire and release blocks, sweep lazily, evacuate or mark, start and finish a
collection, shrink, expand, age and page out. Hard: mutators, tracers and the
background thread share the lists. Correct: a block is in one place, holds what its
flags say, and the blocks in use add up to the heap size.

**Large object space** (`src/src/large-object-space.h`). State: nodes in a splay tree
by span and in a table by address, the nursery, the lists of the quarantine by size
class, the current mark, remembered edges, page counts. Operations: allocate from the
quarantine, cutting off the tail, or from the system; mark; look an address up; sweep;
age and unmap. Hard: one mark says both that an object is live and that it is old;
workers race to mark; nodes change size in place. Correct: an object is in quarantine
exactly if it was not marked, no page is lost or used twice, page counts agree.

**Field set and write barrier** (`src/src/field-set.h`, `api/gc-barrier.h`). Buffers of
logged edges per mutator. Correct: a minor collection sees every old-to-new edge.

**Copy space and pcc** (`src/src/copy-space.h`, `pcc.c`). State: two spaces of blocks
with two regions each, lists of empty, partly full, full and paged-out blocks, one
allocation buffer per worker, survivor flags, log bits, forwarding words. Operations:
allocate, flip, forward, promote, finish. Hard: two workers claim one object and one
may fail to copy it; whether an object survived before is a property of its block; an
edge to be remembered is found by whoever traces it. Correct: nothing reachable is lost
or copied twice, and old objects' references to new ones are remembered.

**semi** (`semi.c`): the same without threads and generations.

**Background thread and heap sizers** (`src/src/background-thread.h`, `heap-sizer.h`,
`growable-heap-sizer.h`, `adaptive-heap-sizer.h`): tasks by priority, once a second,
under the thread's lock; a sizer has a lock of its own and resizes the heap under the
heap lock, if it gets that without waiting.

**Data structures** (`address-map.h`, `address-set.h`, `splay-tree.h`, `extents.h`,
`swar.h`, `simple-worklist.h`, `serial-tracer.h`): sequential algorithms, with the corner
cases of growth, wrap-around, rotation and alignment. Correct: they are the functions,
sets, sequences and searches that they are used for.

**Events, options, platform, stack, bdw**: observation, parsing, system calls, and a layer
over an external collector.

`PROJECT.json` lists the hazards line by line, with the properties that watch them.

## 2. Plan

In the order in which they matter; the first nine are done, those marked
with a star with proofs.

1. `StopTheWorld` *.
2. `ParallelTracer` as an implementation of the abstract `Tracing` *.
3. `SharedWorklist` * as an implementation of the abstract `WorkDeque`: the deque that
   `ParallelTracer` takes as a set.
4. `Ephemerons`: racing tracers and the pending table, with the finalizers that are
   resolved between traces.
5. `NoflSpace` *: the life of a block, sweeping, holes, evacuation and promotion.
6. `HeapBudget` *: the accounting of shrinking, expanding and large allocation;
   `PageOutQueue`: unavailable blocks on their way to the operating system.
7. `Scavenge`: the generations of `pcc`, its copy spaces, write barrier and field set.
8. `LargeObjects` *: the large object space of the generational `mmc`.
9. `DataStructures` over `AddressTable`, `SplayTree`, `Extents`, `SimpleWorklist` and
   `ByteScan`: what the other modules take for functions, sets and sequences, with
   the serial tracer as a second implementation of `Tracing`.
10. Theorems to come: `OneCopy` and `KeepsTheGraph` of `Scavenge` for any number of workers,
   `KeepsTheLive` of `Ephemerons` for any graph.
11. Modules to come: the log bits of the nofl space with its minor collections, and
   the copying of `semi`.

## 3. Modules

### StopTheWorld

One `pc` per mutator. A critical section of the heap lock that does not wait is one
action, and the guard `lock = NoOne` of its first step is the acquisition; a condition
wait splits it. `collect` is split where the collector waits for the others and where
it holds the stopped world. `blocks` and `logs` say who holds an allocator block or a
log buffer, the thread-local state that has to be handed back. The heap itself is
abstracted to "a collection is under way". `MaxCollections` bounds the collections asked
for. Spurious wakeups are an action of their own.

### Tracing, ParallelTracer

`Tracing` says what the collector relies on: between call and return objects get
marked, never an unreachable one; at the return everything required is marked.
`ParallelTracer` has one `pc` per worker, the owner of each helper's lock, the epoch,
the root worklist with its fetch-and-add index, a deque per worker (a set: atomic
operations, order left open) and the edges each worker has still to visit. Locking and
looking in `trace_worker_should_continue` is one step per lock and per deque, because
what matters is what the others do in between. The steal order (`steal_id`) and the
128-object period of the wakeup are left open. `MaxEpoch` bounds the wakeups.

### WorkDeque, SharedWorklist

`WorkDeque` is a sequence with one owner. `SharedWorklist` has one step per shared
load of a thief, and the owner's stores become visible later and in order: memory is a
queue of the owner's views. On the hardware the code runs on, the release fence in
`push`, the acquire loads in `steal` and the sequentially consistent fences give that
order; reorderings beyond it (a relaxed load moved before an earlier load) are
excluded by those fences and not modelled. The claim of `try_pop` on the last slot
is undecided until it has loaded `top`; the refinement mapping counts the slot as
full till then. `MaxPush` bounds the references, `BufMaxLogSize` the growth. Buffer
sizes are positive, and a batch fits the smallest (`WorklistAssumption`).

### Ephemerons

One heap: plain objects with the edges `Edges` and a chain of ephemerons hanging off
each table object, ephemerons with a fixed key and value, finalizers with a fixed
object. `phase` follows `collect`: trace, resolve eagerly, then trace resolved
ephemerons until none is left, then one table of finalizers after another, each
followed by ephemerons again, then the sweep. Those steps run while the workers are
idle and are atomic. `worker` holds each worker's place in `trace_edge`,
`gc_trace_ephemeron`, `gc_resolve_pending_ephemerons` or
`gc_trace_resolved_ephemerons`, with its registers; each atomic operation on a state, a
list head, a link or a mark is one step. A worker takes any grey object: how work is
found is `ParallelTracer`'s subject. An ephemeron's key is a reference to the object as
it was before the collection (`"from"`) or after it (`"to"`), so that a walk which
compares with an outdated reference is seen; evacuation may fail and mark in place.
The function which skips dead nodes is run as one step, because dead nodes stay dead and
their links do not change during a trace; the compare-and-swap after it is another.

Sequential consistency is assumed. The exchange that marks an object is relaxed in the
source and the table is read after it; on x86-64, where an exchange is a full barrier,
the order holds. On a weaker machine the recheck in `gc_trace_ephemeron` may miss.

The reference definition is `LiveFrom`: the least set with the roots, their edges and
chains, and the values of ephemerons whose keys are in it. Left out:
`gc_ephemeron_swap_value_internal`, the sizing of the table, mutators that race on one
chain or on the fired list, the callback for fired finalizers, minor collections.

### NoflSpace

A location is a block and a granule; `byte` and `ends` are the metadata, `dirty` says
which memory may not be zero. `list` has the seven block lists as sets (the order of a
list decides nothing that the properties tell apart), `alloc` the allocator of each mutator
and worker, `holes` the chains of second-chance holes that are shared. Each push or
pop of a list and each critical section of the space lock is a step; the sweep of a block
that a thread has taken is one, too, since nobody else may look at it.
`nofl_finish_sweeping` goes through the same steps as an allocation, with size 0, while
the other mutators are still stopping. `held` is the set of objects that mutators
reach; a trace marks or evacuates them in any order, and an object that is not held is
not visited. Which blocks become candidates for evacuation is left open, as it follows
from estimates. The number of active blocks is fixed, so that the two reserves are
constants (`MinReserve`, `Reserve`); there are finitely many, and workers are no mutators
(`NoflAssumption`). Left out: pinned bits (pinned roots are there),
conservative references, log bits, statistics, and the pages of blocks that were given
back, which belong to `HeapBudget`.

### HeapBudget, PageOutQueue

`HeapBudget` counts memory in pages and blocks by list; `used` stands for all the lists of
`NoflSpace` other than the empties and the evacuation targets. `pc` holds, for each
mutator and the background thread, where it is, the locals of `nofl_space_shrink` and
`nofl_space_expand`, and where these and `resize_heap` return to: one set of actions
serves the five callers. They take one step per block, because `pending_unavailable_bytes`
changes outside the lock of the space. The collection itself is one action that leaves
open how many blocks and large pages survive; the rendezvous is that of `StopTheWorld`, and
a mutator that waited is content with another's collection or not. Then the collector goes on,
with the others stopped, through the reset of the large pages, the sizer and
`grow_heap_if_necessary`. What the sizers ask for is left open (`Targets`). A large
allocation that fails leaves its request in the debt (`allocate_large` returns without
taking it back, which `pcc.c` does); `lost` keeps count of it, and `Budget` mentions it.
A heap whose first slab is mostly metadata has fewer blocks than it would set aside;
`InitiallyOut` takes what there is, as the loop in `nofl_space_init` does.

In `PageOutQueue` blocks have names, an age while they are unavailable, and the flag that says
that their memory was discarded and not used since.

### Scavenge

An address is a region, a block and a slot; an object has an identity, which copying keeps
and the program does not see, one field, a forwarding word and an age. Identities are
what `KeepsTheGraph` compares before and after a collection. Memory that a
collection leaves is taken out of `heap` at once, so that a stale reference shows; its log
bits stay, as in the code. Forwarding is split as the code splits it: claim with
compare-and-swap, allocate, copy and commit, or abort; a loser spins. A worker that visits
an edge carries it through to the remembered set. Pushes and pops on block lists are one
step, and so is each mutator operation between two safepoints. Fields are written only
with references that handles reach.

A finalizer is an object whose field is its link in the table. In the instance that is
checked each bucket has at most one. With two the code loses an edge:
`gc_resolve_finalizers` moves a finalizer that has been promoted in front of one that has
not, by storing to its link without a barrier (`src/src/gc-finalizer.c`,
`finalizer_list_push`), so that `Remembered` would fail at the end of that collection,
against the comment at `src/src/pcc.c:340`. Left out: large objects (their lock is held from
`large_object_space_start_gc` to `finish_gc`, and `large_object_space_is_survivor` takes
it again, so that the edges of large objects in `pcc` cannot be traced as they stand),
ephemerons, and the failure of a collection for lack of memory: the instance leaves the
old space room for every object.

### LargeObjects

The generational `mmc` with conservative roots. The tree is the function `object_tree` from
addresses to nodes; `object_map`, `nursery`, the lists of the `quarantine`, the
marks and the counters are the code's. `marked` toggles at major collections, and an old
mark is not a live one. `Visit` and `cmpxchg` are the two halves of marking, so that workers
race; `Stack` holds a word that need not be a reference. The background task ages
the quarantine between collections, or the collection does it itself. `mapped` and
`field`, `root` are the ghosts of the operating system and of the program: what may be
reached through `Handles`, fields and, if `AnyWord`, through words that only look like
references. Left out: objects of other spaces, the lookups of `gc_resolve_conservative_ref`
(outside a collection they read the extents without a lock, when these are empty). The module
can be reasoned about: unlinking is `Without`, which says where each entry of a list goes, the
order in which a sweep pushes nodes is chosen, as a hash table has none, sums are folds
and reachability is the least closed set.

### DataStructures

One structure per behavior (`kind`); `it` is the structure as the code keeps it and `held`
what its users put in. `AddressTable` has the tables with their slots, shifted by
insertions and removals and rebuilt by growth; `SplayTree` the nodes as nested records;
`Extents` ranges and capacity; `SimpleWorklist` the ring buffer; `ByteScan` words of eight
bytes. Loops are minima over sets or recursive operators; nothing is proved about these
modules. The serial tracer steps edge by edge. Two operations that nothing in the
collectors calls are left out because they are wrong:
`address_set_union` with a set that has entries does not grow the table, which two sets
of seven would fill, and `gc_background_thread_remove_task` does not decrement the count.

## 4. Runs

| run | shows |
|---|---|
| `stop_the_world` | three mutators, two collections: `WorldIsStopped`, `AllocatorsFlushed`, `CountsAgree`, the code's assertions, `CollectedSinceRequest`; and no wakeup is lost: `StopCompletes`, `EveryoneResumes` |
| `full_collection` | a violation: a request for a full collection can be satisfied by a minor one |
| `parallel_tracer` | three workers, a graph with a cycle and sharing, two traces of either kind: completeness, nobody left at work, no object twice, refinement of `Tracing`; every trace terminates, with or without its helpers |
| `shared_worklist` | an owner, two thieves, buffers of 2 and 4 slots, 6 references: refinement of `WorkDeque`, honest null answers |
| `nofl_space` | one mutator through four minor, marking or compacting collections with promotion, two that share blocks and second-chance holes and stop for one: one owner per block, marks never mistaken, reachable objects intact, free memory zero and nobody's, dead blocks reclaimed, the code's assertions |
| `heap_budget` | two mutators, the background thread, each sizing policy: memory adds up to the heap size, collections leave room for the large objects that wait and give back what they can, the evacuation reserve is kept, large allocations return |
| `page_out` | a violation: a used block that becomes unavailable is never paged out |
| `ephemerons` | two workers, one collection: exactly the live is kept, every traced ephemeron is settled, none is resolved twice, nothing is left over outside a collection, and the collection ends, with workers that spin on a copy, retry pushes and loop over resolved ephemerons; one worker, two collections, two priorities of finalizers: what fires is dead, chains keep their live members |
| `scavenge` | a mutator that allocates, stores and drops, minor and major collections by one worker and by two: no block or object lost or copied twice, and the remembered set, log bits and survivor flags that the next minor collection relies on |
| `large_objects` | objects of one and nine pages cut out of each other, two workers, a minor and a major collection: memory, tree, table and lists agree, reachable objects stay, others are reclaimed, counters exact |
| `stale_word` | a violation: a stack word revives an object that died young, and marking goes on to one in quarantine |
| `data_structures` | every sequence of operations on each structure: it is the function, set, sequence or search it stands for, and the serial tracer implements `Tracing` |

Bounds. Three mutators are the least with which one collects, one pauses and one
changes state; three workers the least with two helpers that can miss different
wakeups and steal from each other; two traces are needed for a roots-only one followed
by a full one, as in a compacting collection. Two thieves race each other and the
owner; six references fill the small buffer, grow it, wrap around in it and overfill
the largest one, which is the crash the code has there.

The heap of the ephemeron run (`MCEphemerons`) has three ephemerons: e1 in a table that
mutators keep (`Kept`), e2 and e3 in a table that is e1's value, with keys that are
values of one another, so that resolving one may resolve the next. All share one bucket,
the worst case for the walk. One key, k2, is `Evacuated`. Bounds go by the crew of
workers (`Crews`): two workers and one collection for the races the comments of the source
name (a publisher against a marker, two resolvers, a walk against a push), with
`MaxRoots` = 2 references of mutators; one worker and two collections for what the first
leaves behind, with `MaxRoots` = 1 and `MaxDead` = 1 ephemeron killed by mutators.

`nofl_space` has three blocks of two granules and objects of two sizes, so that a block can
be live, dead or half of each and blocks run out. Bounds go by the team of mutators
(`Teams`): one alone through four collections, which is what it takes for a mark to come
round again, two through one. `MaxAlloc` is 2 or 4, `MaxHeld` 2, and `MinReserve` = 1 is
the smallest reserve with which a compacting collection has somewhere to copy to.

`scavenge` has a new block of two regions of two slots and three old ones, buffers of two
edges, and objects of one and two slots. One worker goes through three collections of two
objects, so that one can survive, be promoted and be collected; another through two of
three objects; two workers race through two of two objects (`MaxCount`, `MaxObjects`). A
new space of one block is full after two objects, and pages in another where `Reserves` has one.

`large_objects` has two runs of nine pages (`Bases`): an object of one page cut from nine
leaves a tail of eight, in the size class of nine, where the search of a class must go on
because it does not fit. `MaxNodes` = 3, two collections; `Words` = {1} points into an
object of nine pages. `stale_word` has one worker, three
collections and a word that may be there before there is an object.

`data_structures` has nine hashes which collide at three homes, fill a table of eight
slots, make it grow and shrink; spans of one to three of six pages, slabs on nine; a
worklist of two slots that grows to four while it wraps; two words of metadata
with at most two bytes set (`MaxBytes`), at every alignment; five tasks (`MaxTasks`).

`heap_budget` has slabs of four blocks of two pages, one of them metadata, and starts with two
blocks, so that it runs out of blocks, adds slabs, and has debts that are not whole
blocks. Two large objects of three pages (`Requests`, `MaxRequests`), one resize from the background
(`MaxResizes`), sizes 5 and 8 to grow and shrink to. Above `MaxSize` nothing is copied in
evacuations, which could otherwise cost a block each time.

Fairness. The threads are weakly fair: the operating system runs every thread that can
run. In the ephemeron model the
collecting thread and each worker are fair during a collection, mutators are not. In
`heap_budget` a mutator that waits to collect is strongly fair: it is not overtaken by the
collections of others for ever. The background thread of `page_out` wakes up again and again.
Nothing is assumed about whether a mutator ever allocates, leaves or asks for a
collection, or about helpers hearing a wakeup. `TraceTerminates` has a premise: worker 0
finishes unless helpers wake spuriously for ever, since each such wakeup may make it
look again.

Violations. `page_out`: the loop that ages the queue starts at an age that can only be
filled by its own later rounds, and stops there because it is empty.
`full_collection`: `pause_mutator_for_collection` reads `heap->gc_kind` before the
collector of that cycle has stored its kind. `stale_word`: objects whose pages
are fresh from the operating system are not added to the nursery, so that one
that dies young stays marked while what it refers to is swept. The findings in
`PROJECT.json` quote the lines.

Seen but not checked by a run of its own, besides the three mentioned in section 3: in a
non-generational build an explicit minor collection stores a kind that
`determine_collection_kind` asserts not to find next time; the adaptive sizer
initialises the background thread's lock a second time
(`src/src/adaptive-heap-sizer.h:171`); `push_many` of the shared worklist compares without a
sign, so that a count above the smallest buffer's size never grows it (nothing calls it, and
`WorklistAssumption` excludes it).

## 5. Proofs

`StopTheWorldProofs`: for every finite set of mutators, type correctness, the four
invariants of the run and `CollectedSinceRequest`. The invariant `IInv` adds to them who may be where when
the lock is held, that a mutator which waits is counted, and that each counter is the
cardinality of a set of mutators; the last needs finiteness and the counting lemma
`RecountOne`. Each action has a lemma with one step per conjunct.

`ParallelTracerProofs`: for every number of workers, every heap graph and every
sequence of roots, type correctness, `HelpersParked`, `TracedOnce`, `TraceComplete` and
the refinement of `Tracing`. Completeness is not inductive: the invariant says that no
object is forgotten. `RootInv`: an object a root names is marked, is among the edges some
worker is about to visit, or is in an entry not handed out. `MarkInv`: a marked
object has all its edges marked, is in a deque, or is in a hand with the unvisited
edges still to do. `LockInv` says that owning all locks means that every helper is
asleep or blocked, `DoneInv` that the deques worker 0 found empty stay empty.
The assumption is `TracerAssumption`: types, at least one worker, `NoObject` is no
object.

`SharedWorklistProofs`: for any number of thieves, buffer sizes and length of run, the
refinement of `WorkDeque`, that each reference is taken at most once (`TakenOnce`), and
that null is only said of an empty deque (`NullMeansEmpty`). `WorklistAssumption` has the
types, positive buffer sizes, and batches that fit the smallest buffer. Neither follows
from what one thread sees, so that the invariant is about the whole queue of the owner's
views. `EndInv`: a later view never ends before an earlier one, when a claim of the owner
that may yet fail is counted in. `StepInv`: a view adds to the one before nothing,
references, a claim, or the end of a claim whose slot is gone, and keeps every
slot from `top` on, in every buffer that may still be read. `OwnerInv`: an owner that
races for the last slot has seen its stores become visible. `ThiefInv`: a thief whose
loaded `top` is still right holds the reference that is there, from whichever buffer it
read. So whichever of them wins the compare-and-swap takes what the abstract deque has at
its top. A second invariant, `Accounted`, says of the abstract deque that what was pushed is
in it, or was taken once.

`HeapBudgetProofs`: for any finite set of mutators, sizes of blocks, slabs and heap, and
requests, `Budget`, `ReserveKept` and `RoomToRestart`, under `BudgetAssumption` (types, a slab
has more blocks than metadata, `InitialSize` and the targets are numbers). `Budget` speaks of
moments when nobody holds the heap's lock. `Debt` extends it to every state: the balance
includes what the holder has done of a resize and not yet booked (`Outstanding`).
`Places` says where each thread can be and what it owes and asks there, `Owners` which places
hold the lock and that all others wait when the world is stopped, `Lists` that the blocks
in use are those in lists and in slabs being added, `Reserve` that the number to keep which
a shrinking thread computed is still large enough, `RoomInv` what the collector knows of
the debt on its way to the restart. The pages asked for are a fold over the mutators; how it
changes with one of them is derived from the smallest set for which it would not,
since the library's induction theorem cannot be used. Each action has a lemma with
its effect on the parts (`Moves`, `Locks`, `Lands`, `Balances`, `Guards`, `Rooms`), and `StepInv`
puts them together.

`NoflSpaceProofs`: for any finite set of blocks, any granules and sizes, any mutators and any
workers, `OneOwner`, under `NoflAssumption`. `Apart` is the invariant proper: lists
are disjoint, no two threads have one block, no thread has a block of a list, and every
block is somewhere. It is kept because each step does one of few things with blocks, each of
which has a lemma: `Takes`, `Gives`, `Moves`, `Stays`, and `Sorts` for the start
and the end of a collection, which send each block to a list that depends on where it is.
To use them the proof must know that a thread which takes a block has none
(`MutatorInv`, `WorkerInv`), which follows from where it is in `nofl_allocator_next_hole` or in
`nofl_evacuation_allocate`. That nothing is left to sweep when a collection starts
follows from the collector's way through `nofl_finish_sweeping`: it leaves the loop
only with an empty list, and no other mutator ever adds to that list (`IsDone`). That workers
only copy into blocks that were empty holds since the partly full list is emptied by
`nofl_space_start_gc` and refilled only by workers (`Phases`). `Records` says that
records keep their fields. The cardinalities of `OneOwner` come last (`CountedOnce`). The
proof makes no use of what the metadata says, so it holds whatever a sweep finds.

`NoflMemoryProofs`: under the same assumption, what the run checks about memory: `HeldIntact`,
`FreeIsZero`, `MarksFresh` and `ReclaimsDead`. None is inductive. That what is held
is not allocated over needs that it is apart from every place a thread or a later thread
may allocate at, which a sweep derives from bytes and ends alone: so the
invariant `HeapInv` adds to `IInv` what bytes, ends and summaries say of each other.
- `Registers`, `Counts`: where a thread allocates in its block and up to where it has swept;
  what a summary counts lies before that.
- `HolesApart`, `HolesAside`: second-chance holes do not overlap, have one owner, and are in
  no block from which someone allocates in another way.
- `ObjectsApart`, `SweptWhole`: every object has an end, objects share no granule with one
  another or with what is free, and none reaches from what is swept into what is not.
- `HeldMarked`, `Busy`: what is held has a mark that the next sweep keeps, or a worker is
  copying it, and no other worker is.
- `Fresh`: no byte has the next mark, and only what is not swept yet has another than the
  current one; in a collection that is not minor a block is marked for
  something that is held.
- `Clean`: memory that may be handed out is zero, but for the links of the holes.

Each step places an object (the bump allocation, `Copy`), sweeps, moves a block between lists and
threads, changes a mark, or starts or ends a collection, and for each kind there are lemmas
which say how the parts survive it. A sweep is the largest: it clears whole dead objects and
nothing else (`SweepsTo`, `Wiped`, `ClearsObjects`), since it passes over a live object as a
whole and `SweptWhole` says that it started at a border. The operators it is made of take minima
over granules and maximal runs of free ones; `Least`, `LastIs`, `HolesInAre` and `FewBy` say
what they return, from the set of naturals alone, without recursion. That a rotated mark cannot be
taken for an old one then rests on `IInv`: a collection starts when nothing is left to
sweep, and so when `Fresh` leaves the current mark only.

`LargeObjectsProofs`: for any finite set of pages, any bases, sizes, handles and workers, all
that the run checks, under `LargeObjectsAssumption` (types; addresses are told from edges). The
invariant `IInv` has six parts. `Space`: nodes have disjoint spans which cover what is mapped,
and the dead ones are the entries of their lists (`Shape`); each operation on lists and nodes
has a lemma that says that it keeps it. `Counters`: the numbers. `Program`: what the
program reaches is live. `Barrier`: an object that the next minor collection takes for
marked, and that the program may reach, is remembered if it refers to one that is not. `Tracing`:
what an edge refers to is marked, or a worker is at it, or the edge is still to do. `Exact`:
what is marked, what workers are at and what is to do was reached from `Source`, handles, stack and
old objects, and `live_pages` counts the survivors. So when nothing is left to do, what the
program reaches is marked (`Marked`), by `Tracing`, and nothing else is, by `Exact`; a mark that
two workers race for is added once as only one of them finds the mark it loaded. `Reached` is a
least set: the proofs show that after a step the old one is still closed.

`SpansAgree` holds for any words on the stack, and so does that what precise roots reach
is live at every step (`HandlesKept`). `Exact` does not: a word that no program left there
brings dead objects back, which `stale_word` shows. `KeepsReachable`, `Accounting`,
`Reclaims` and `MarksLive` are therefore stated for `AnyWord` = `FALSE`, in which words on the
stack, pointing anywhere in an object, are those of objects that a handle held at the time;
`Kept`, what the invariant wants to stay, is what handles reach with stale words, and what
handles, stack and survivors reach without.

The type invariants of `StopTheWorld`, `ParallelTracer`, `SharedWorklist`, `HeapBudget`,
`NoflSpace` (in `HeldIntact`) and `LargeObjects` are parts of what is proved. In the others the
run checks `TypeOK` as a conjunct of the invariant on the structure (`KeepsTheLive`, `OneCopy`,
`EntriesKept`).

Only model-checked: liveness (fairness is out of the prover's reach), in `heap_budget`
`LargeReturns`, the ephemerons and finalizers, the generations of `pcc`, the data structures
(which are recursive), and what the violation runs find.

## 6. Not modelled

See the components with status `not_modelled`: the parts of section 2 that are to
come, and those that stay out (system calls, stack scanning, events, option parsing,
libgc). Also left out inside modelled parts: the contents of event hooks, memory
orders weaker than described above, `pthread` failures other than those the
code handles, and the fork of a multithreaded process.
