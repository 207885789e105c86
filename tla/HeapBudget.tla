------------------------------ MODULE HeapBudget ------------------------------
(***************************************************************************)
(* How mmc keeps the nofl space and the large objects within the size of   *)
(* the heap (mmc.c, nofl-space.h).  A large object takes pages away from   *)
(* the nofl space: its mutator adds them to pending_unavailable_bytes, and *)
(* shrinking makes empty blocks unavailable until the debt is paid.  A     *)
(* collection gives the pages of dead large objects back, and the heap     *)
(* sizer changes the size, at the end of a collection, instead of one, or  *)
(* from the background thread.  What becomes of unavailable blocks is the  *)
(* matter of PageOutQueue.                                                 *)
(*                                                                         *)
(* Memory is counted in pages.  Blocks are counted by the list they are    *)
(* in; `used' are those of all the lists of NoflSpace but empty and        *)
(* evacuation_targets.  Shrinking and expanding take one step per block,   *)
(* since the debt changes outside the lock of the space.                   *)
(***************************************************************************)
EXTENDS Integers, FiniteSetsExt

CONSTANTS Mutators, Background, NoOne,
          BlockSize,        \* pages in a block
          SlabBlocks,       \* blocks in a slab,
          MetaBlocks,       \* of which metadata
          InitialSize,      \* heap_size of the options
          MinimumPercent,   \* evacuation_minimum_reserve
          Policies,         \* heap size policies
          AmbiguousEdges,   \* heap_has_ambiguous_edges
          Requests,         \* pages of a large object
          Targets,          \* sizes that the sizer asks for
          MaxRequests,      \* bound on explicit collections and large allocations
          MaxResizes,       \* bound on what the background thread asks for
          MaxSize           \* bound on the growth of the heap: beyond it collections do well

Threads == Mutators \cup {Background}
Fixed == "fixed"

ASSUME BudgetAssumption ==
  /\ BlockSize \in Nat \ {0} /\ MetaBlocks \in Nat
  /\ SlabBlocks \in Nat /\ SlabBlocks > MetaBlocks
  /\ InitialSize \in Nat /\ MinimumPercent \in 0 .. 100
  /\ Policies \subseteq {Fixed, "growable", "adaptive"}
  /\ AmbiguousEdges \in BOOLEAN /\ Requests \subseteq Nat \ {0} /\ Targets \subseteq Nat
  /\ NoOne \notin Threads /\ Background \notin Mutators /\ IsFiniteSet(Mutators)
  /\ MaxRequests \in Nat /\ MaxResizes \in Nat

VARIABLES empty, evacuation_targets, used, unavailable, \* blocks in each list
          nslabs,
          pending,    \* pending_unavailable_bytes
          size,       \* heap->size
          large,      \* heap->large_object_pages
          policy,
          grown,      \* count_at_last_growth = count
          collected,  \* count > 0
          heap_lock, lock, \* owners of the heap's lock and the space's
          stopped,    \* mutators are stopped
          pc,         \* what each thread is doing
          lost,       \* pages asked for by allocations that failed
          requests, resizes

block_vars == <<empty, evacuation_targets, used, unavailable, nslabs>>
heap_vars == <<size, large, policy, grown, collected, heap_lock, stopped>>
bound_vars == <<lost, requests, resizes>>
vars == <<block_vars, pending, heap_vars, lock, pc, bound_vars>>

CeilDiv(a, b) == (a + b - 1) \div b
align_up(n, unit) == unit * CeilDiv(n, unit)

\* ceil(active * reserve) for a reserve in percent.
ReserveOf(active, percent) == CeilDiv(active * percent, 100)
Minimum(active) == ReserveOf(active, MinimumPercent)

\* nofl_active_block_count
Active == nslabs * (SlabBlocks - MetaBlocks) - unavailable

\* A thread at rest; `next' and `after' are where shrinking or expanding, and
\* resizing, return to.
Resting == [at |-> "idle", next |-> "idle", after |-> "idle", bytes |-> 0, pending |-> 0,
            keep |-> 0, new |-> 0, again |-> FALSE, want |-> 0, success |-> TRUE,
            progress |-> TRUE]

Goto(t, label) == pc' = [pc EXCEPT ![t].at = label]
Return(t) == [pc[t] EXCEPT !.at = pc[t].next, !.next = "idle", !.keep = 0, !.bytes = 0, !.again = FALSE,
                           !.pending = IF pc[t].next \in {"large", "headroom"} THEN @ ELSE 0]

\* nofl_space_init: the size includes the metadata of the first slabs, and blocks are
\* unavailable until what is reserved has the size, or there are no more.
InitialSlabs == CeilDiv(align_up(InitialSize, BlockSize), SlabBlocks * BlockSize)
InitiallyOut == Min({InitialSlabs * SlabBlocks - CeilDiv(InitialSize, BlockSize),
                     InitialSlabs * (SlabBlocks - MetaBlocks)})
InitiallyActive == InitialSlabs * (SlabBlocks - MetaBlocks) - InitiallyOut

Init ==
  /\ nslabs = InitialSlabs
  /\ unavailable = InitiallyOut
  /\ evacuation_targets = Minimum(InitiallyActive)
  /\ empty = InitiallyActive - evacuation_targets
  /\ used = 0
  /\ pending = 0 /\ size = InitialSize /\ large = 0
  /\ policy \in Policies /\ grown = TRUE /\ collected = FALSE
  /\ heap_lock = NoOne /\ lock = NoOne /\ stopped = FALSE
  /\ pc = [t \in Threads |-> Resting]
  /\ lost = 0 /\ requests = 0 /\ resizes = 0

--------------------------------------------------------------------------------
\* Shrinking and expanding the nofl space.

\* nofl_space_shrink begins with nofl_space_request_release_memory.
RequestRelease(t) ==
  /\ pc[t].at = "shrink"
  /\ pending' = pending + pc[t].bytes
  /\ pc' = [pc EXCEPT ![t].at = "empties", ![t].pending = pending']
  /\ UNCHANGED <<block_vars, heap_vars, lock, bound_vars>>

\* The debt after one more block is unavailable.
Repay(t) == pending' = pending - BlockSize /\ pc' = [pc EXCEPT ![t].pending = pending']

\* First the empty blocks,
ShrinkEmpties(t) ==
  /\ pc[t].at = "empties" /\ lock \in {NoOne, t}
  /\ \/ /\ pc[t].pending > 0 /\ empty > 0 /\ lock' = t
        /\ empty' = empty - 1 /\ unavailable' = unavailable + 1
        /\ Repay(t)
     \/ /\ pc[t].pending > 0 /\ empty = 0 /\ lock' = t
        /\ pc' = [pc EXCEPT ![t].at = "targets", ![t].keep = Minimum(Active)]
        /\ UNCHANGED <<empty, unavailable, pending>>
     \/ /\ pc[t].pending <= 0 /\ lock' = NoOne /\ pc' = [pc EXCEPT ![t] = Return(t)]
        /\ UNCHANGED <<empty, unavailable, pending>>
  /\ UNCHANGED <<evacuation_targets, used, nslabs, heap_vars, bound_vars>>

\* Mutant: the whole reserve is taken.
TakeAny(t) == evacuation_targets > 0

SpareTarget(t) == evacuation_targets > pc[t].keep

\* then what the evacuation reserve has beyond its minimum.
ShrinkTargets(t) ==
  /\ pc[t].at = "targets" /\ lock = t
  /\ IF pc[t].pending > 0 /\ SpareTarget(t)
     THEN /\ evacuation_targets' = evacuation_targets - 1
          /\ unavailable' = unavailable + 1
          /\ Repay(t) /\ UNCHANGED lock
     ELSE /\ lock' = NoOne /\ pc' = [pc EXCEPT ![t] = Return(t)]
          /\ UNCHANGED <<evacuation_targets, unavailable, pending>>
  /\ UNCHANGED <<empty, used, nslabs, heap_vars, bound_vars>>

\* nofl_space_expand begins with nofl_space_maybe_reacquire_memory.
Expand(t) ==
  /\ pc[t].at = "expand"
  /\ pending' = pending - pc[t].bytes
  /\ pc' = [pc EXCEPT ![t].at = "reacquire", ![t].pending = pending']
  /\ UNCHANGED <<block_vars, heap_vars, lock, bound_vars>>

\* A block becomes available again, for the reserve if that lacks one.
PushAvailable ==
  IF evacuation_targets >= Minimum(Active + 1)
  THEN empty' = empty + 1 /\ UNCHANGED evacuation_targets
  ELSE evacuation_targets' = evacuation_targets + 1 /\ UNCHANGED empty

OwedABlock(t) == pc[t].pending + BlockSize <= 0

Reacquire(t) ==
  /\ pc[t].at = "reacquire" /\ lock \in {NoOne, t}
  /\ IF OwedABlock(t) /\ unavailable > 0
     THEN /\ unavailable' = unavailable - 1 /\ PushAvailable /\ lock' = t
          /\ pending' = pending + BlockSize
          /\ pc' = [pc EXCEPT ![t].pending = pending']
     ELSE /\ lock' = NoOne
          /\ pc' = [pc EXCEPT ![t] = IF pc[t].again \/ ~OwedABlock(t)
                                     THEN Return(t) ELSE [@ EXCEPT !.at = "slabs"]]
          /\ UNCHANGED <<empty, evacuation_targets, unavailable, pending>>
  /\ UNCHANGED <<used, nslabs, heap_vars, bound_vars>>

\* How many slabs hold what is to be acquired, with an estimate of their metadata.
SlabsFor(pages) ==
  CeilDiv(pages + (pages * MetaBlocks) \div SlabBlocks, SlabBlocks * BlockSize)

\* nofl_space_add_slabs
AddSlabs(t) ==
  LET n == SlabsFor(-pc[t].pending) IN
  /\ pc[t].at = "slabs"
  /\ nslabs' = nslabs + n
  /\ pc' = [pc EXCEPT ![t].at = "push", ![t].bytes = n]
  /\ UNCHANGED <<empty, evacuation_targets, used, unavailable, pending, heap_vars, lock, bound_vars>>

\* The new blocks are unavailable, and reacquired as far as needed.
PushSlabs(t) ==
  /\ pc[t].at = "push" /\ lock = NoOne
  /\ unavailable' = unavailable + pc[t].bytes * (SlabBlocks - MetaBlocks)
  /\ pc' = [pc EXCEPT ![t].at = "reacquire", ![t].again = TRUE, ![t].bytes = 0,
                      ![t].pending = pending]
  /\ UNCHANGED <<empty, evacuation_targets, used, nslabs, pending, heap_vars, lock, bound_vars>>

\* A call of nofl_space_shrink or nofl_space_expand.
Call(p, what, bytes, next) == [p EXCEPT !.at = what, !.bytes = bytes, !.next = next]

\* resize_heap, up to the call.
resize_heap(t, new, after) ==
  LET p == [pc[t] EXCEPT !.new = new, !.after = after] IN
  /\ pc' = [pc EXCEPT ![t] = IF new < size THEN Call(p, "shrink", size - new, "resized")
                             ELSE IF new > size THEN Call(p, "expand", new - size, "resized")
                             ELSE [p EXCEPT !.at = "resized"]]
  /\ grown' = (grown \/ new > size)

\* The end of resize_heap.  Outside of collections the heap's lock is given up.
Resized(t) ==
  /\ pc[t].at = "resized"
  /\ size' = pc[t].new
  /\ heap_lock' = IF stopped THEN heap_lock ELSE NoOne
  /\ pc' = [pc EXCEPT ![t] = [@ EXCEPT !.at = pc[t].after, !.after = "idle", !.new = 0]]
  /\ UNCHANGED <<block_vars, pending, large, policy, grown, collected, stopped, lock,
                 bound_vars>>

--------------------------------------------------------------------------------
\* Mutators.

Running(m) == ~stopped /\ pc[m].at = "idle"

\* gc_allocate_slow takes an empty block, or wants a collection.
AllocateSmall(m) ==
  /\ Running(m) /\ lock = NoOne
  /\ IF empty > 0
     THEN /\ empty' = empty - 1 /\ used' = used + 1
          /\ UNCHANGED pc
     ELSE Goto(m, "trigger") /\ UNCHANGED <<empty, used>>
  /\ UNCHANGED <<evacuation_targets, unavailable, nslabs, pending, heap_vars, lock, bound_vars>>

\* allocate_large registers its request, and tries to shrink the nofl space.
allocate_large(m, npages) ==
  /\ Running(m) /\ requests < MaxRequests /\ requests' = requests + 1
  /\ pending' = pending + npages
  /\ pc' = [pc EXCEPT ![m] = [Call(Resting, "shrink", 0, "large") EXCEPT !.want = npages]]
  /\ UNCHANGED <<block_vars, heap_vars, lock, lost, resizes>>

\* The result of nofl_space_shrink: allocate, or trigger_collection.
Large(m) ==
  /\ pc[m].at = "large"
  /\ IF pc[m].pending <= 0
     THEN large' = large + pc[m].want /\ pc' = [pc EXCEPT ![m] = Resting]
     ELSE Goto(m, "trigger") /\ UNCHANGED large
  /\ UNCHANGED <<block_vars, pending, size, policy, grown, collected, heap_lock, stopped, lock,
                 bound_vars>>

\* After trigger_collection succeeds.
Retry(p) == IF p.want > 0 THEN [Call(Resting, "shrink", 0, "large") EXCEPT !.want = p.want]
            ELSE Resting

\* maybe_grow_heap_instead_of_collecting, at most once in a cycle.
MaybeGrow(m) ==
  /\ pc[m].at = "trigger" /\ heap_lock = NoOne
  /\ \/ /\ ~grown /\ policy # Fixed
        /\ \E target \in Targets :
             /\ target > size
             /\ resize_heap(m, align_up(target, BlockSize), "grew")
        /\ heap_lock' = m
     \/ Goto(m, "wait") /\ UNCHANGED <<grown, heap_lock>>
  /\ UNCHANGED <<block_vars, pending, size, large, policy, collected, stopped, lock, bound_vars>>

Grew(m) ==
  /\ pc[m].at = "grew" /\ pc' = [pc EXCEPT ![m] = Retry(@)]
  /\ UNCHANGED <<block_vars, pending, heap_vars, lock, bound_vars>>

gc_collect(m) ==
  /\ Running(m) /\ requests < MaxRequests /\ requests' = requests + 1
  /\ Goto(m, "wait")
  /\ UNCHANGED <<block_vars, pending, heap_vars, lock, lost, resizes>>

--------------------------------------------------------------------------------
\* Collections.

\* determine_collection_kind, as far as it matters here.
Kinds(m) ==
  IF ~collected THEN {"in_place"}
  ELSE IF pc[m].want = 0 THEN {"minor", "in_place", IF AmbiguousEdges THEN "in_place" ELSE "compacting"}
  ELSE {IF AmbiguousEdges THEN "in_place" ELSE "compacting"}

\* nofl_space_start_gc to nofl_space_finish_gc: an evacuation copies into `copied' of
\* the empties and targets, and `dead' of the blocks in use turn out to be empty.
Trace(kind, copied, dead) ==
  LET spare == empty + evacuation_targets
      evacuating == kind = "compacting" /\ spare > 0
      kept == Min({Minimum(Active), IF evacuating THEN spare - copied ELSE evacuation_targets})
      wanted == IF evacuating THEN ReserveOf(Active, 50) ELSE Minimum(Active)
      more == Min({dead, Max({0, wanted - kept})})
  IN
  /\ copied > 0 => evacuating /\ size <= MaxSize
  /\ evacuation_targets' = kept + more
  /\ empty' = spare - copied + dead - evacuation_targets'
  /\ used' = used + copied - dead

\* heap_reset_large_object_pages
FreedPages(live) == large - live

\* collect, once the others have stopped: `live' pages of large objects survive.
Collect(m) ==
  /\ pc[m].at = "wait" /\ ~stopped /\ heap_lock = NoOne
  /\ \A n \in Mutators : pc[n].at \in {"idle", "wait"}
  /\ \E kind \in Kinds(m), copied \in 0 .. empty + evacuation_targets, dead \in 0 .. used,
        live \in 0 .. large, progress \in BOOLEAN :
       /\ Trace(kind, copied, dead)
       /\ AmbiguousEdges /\ ~progress => size <= MaxSize
       /\ large' = live
       /\ pc' = [pc EXCEPT ![m] = [Call(@, "expand", FreedPages(live), "sizer") EXCEPT
                                     !.progress = progress \/ ~AmbiguousEdges,
                                     !.success = progress \/ kind = "minor" \/ policy # Fixed]]
  /\ heap_lock' = m /\ stopped' = TRUE /\ grown' = FALSE /\ collected' = TRUE
  /\ UNCHANGED <<unavailable, nslabs, pending, size, policy, lock, bound_vars>>

\* gc_heap_sizer_on_gc: the growable sizer only grows.
SizerOnGC(m) ==
  /\ pc[m].at = "sizer"
  /\ \/ policy = Fixed /\ Goto(m, "restart") /\ UNCHANGED grown
     \/ policy = "growable" /\ Goto(m, "grow") /\ UNCHANGED grown
     \/ \E target \in Targets :
          /\ policy = "growable" => target > size
          /\ policy # Fixed
          /\ resize_heap(m, target, "grow")
  /\ UNCHANGED <<block_vars, pending, size, large, policy, collected, heap_lock, stopped, lock,
                 bound_vars>>

\* grow_heap_if_necessary pays the debt as far as blocks are empty,
GrowHeap(m) ==
  /\ pc[m].at = "grow" /\ pc' = [pc EXCEPT ![m] = Call(@, "shrink", 0, "headroom")]
  /\ UNCHANGED <<block_vars, pending, heap_vars, lock, bound_vars>>

\* Mutant: the debt is forgotten.
IgnoreDebt(m) == Minimum(Active) * BlockSize

NeededHeadroom(m) ==
  Minimum(Active) * BlockSize + Max({0, pc[m].pending})
    + (IF AmbiguousEdges /\ ~pc[m].progress THEN (Active * BlockSize) \div 4 ELSE 0)

\* and grows the heap by what is missing.
Headroom(m) ==
  LET headroom == (empty + evacuation_targets) * BlockSize IN
  /\ pc[m].at = "headroom"
  /\ IF headroom < NeededHeadroom(m)
     THEN resize_heap(m, size - headroom + NeededHeadroom(m), "restart")
     ELSE Goto(m, "restart") /\ UNCHANGED grown
  /\ UNCHANGED <<block_vars, pending, size, large, policy, collected, heap_lock, stopped, lock,
                 bound_vars>>

\* allow_mutators_to_continue.  Mutators that waited for a collection of their own are
\* content with this one, or not (trigger_collection); a failure is reported by
\* allocation_failure.
Restart(m) ==
  LET waiting == {n \in Mutators \ {m} : pc[n].at = "wait"} IN
  /\ pc[m].at = "restart"
  /\ \E content \in SUBSET waiting :
       pc' = [n \in Threads |->
                IF n \in content THEN Retry(pc[n])
                ELSE IF n # m THEN pc[n]
                ELSE IF pc[m].success THEN Retry(pc[m]) ELSE Resting]
  /\ lost' = IF pc[m].success THEN lost ELSE lost + pc[m].want
  /\ heap_lock' = NoOne /\ stopped' = FALSE
  /\ UNCHANGED <<block_vars, pending, size, large, policy, grown, collected, lock, requests,
                 resizes>>

--------------------------------------------------------------------------------
\* The background thread.

\* Mutant: the lock is not taken.
WithoutLock == TRUE

\* pthread_mutex_trylock in set_heap_size_from_thread
TryLock == heap_lock = NoOne

\* gc_adaptive_heap_sizer_background_task
SizerTask ==
  /\ pc[Background].at = "idle" /\ policy = "adaptive" /\ TryLock
  /\ resizes < MaxResizes /\ resizes' = resizes + 1
  /\ \E target \in Targets : resize_heap(Background, target, "idle")
  /\ heap_lock' = Background
  /\ UNCHANGED <<block_vars, pending, size, large, policy, collected, stopped, lock, lost,
                 requests>>

--------------------------------------------------------------------------------

\* What a thread does once it has begun.
Resize(t) ==
  \/ RequestRelease(t) \/ ShrinkEmpties(t) \/ ShrinkTargets(t)
  \/ Expand(t) \/ Reacquire(t) \/ AddSlabs(t) \/ PushSlabs(t) \/ Resized(t)

Proceed(m) ==
  \/ Resize(m) \/ Large(m) \/ MaybeGrow(m) \/ Grew(m)
  \/ SizerOnGC(m) \/ GrowHeap(m) \/ Headroom(m) \/ Restart(m)

Begin(m) ==
  \/ AllocateSmall(m) \/ (\E n \in Requests : allocate_large(m, n)) \/ gc_collect(m)

Next == SizerTask \/ Resize(Background) \/ \E m \in Mutators : Begin(m) \/ Proceed(m) \/ Collect(m)

Spec == Init /\ [][Next]_vars

\* Threads keep running, and a thread that waits for the others to stop gets the lock
\* in the end, though others collect in between.
LiveSpec ==
  /\ Spec /\ WF_vars(Resize(Background))
  /\ \A m \in Mutators : WF_vars(Proceed(m)) /\ SF_vars(Collect(m))

--------------------------------------------------------------------------------
\* Properties.

\* The state has the types of struct nofl_space and struct gc_heap, and no list has
\* blocks that do not exist.
TypeOK ==
  /\ {empty, evacuation_targets, used, unavailable, nslabs, size, large, lost} \subseteq Nat
  /\ pending \in Int /\ policy \in Policies
  /\ heap_lock \in Threads \cup {NoOne} /\ lock \in Threads \cup {NoOne}
  /\ grown \in BOOLEAN /\ collected \in BOOLEAN /\ stopped \in BOOLEAN
  /\ requests \in 0 .. MaxRequests /\ resizes \in 0 .. MaxResizes
  /\ \A t \in Threads : pc[t].want \in Nat /\ pc[t].bytes \in Nat /\ pc[t].new \in Nat

\* Pages of the large allocations under way.
Asked(p) == MapThenSumSet(LAMBDA m : p[m].want, Mutators)

\* Whenever nobody holds the heap's lock, the blocks that can be used, less the debt,
\* are what the size of the heap leaves beside the large objects, those being
\* allocated included (pending_unavailable_bytes, nofl-space.h:176).  An allocation
\* that fails leaves its request in the debt (mmc.c:1062).
Budget ==
  /\ TypeOK
  /\ heap_lock = NoOne =>
       Active * BlockSize - pending
         = size - InitialSize + InitiallyActive * BlockSize - large - Asked(pc) - lost

\* Shrinking never takes from the evacuation reserve what its minimum needs, although
\* other threads change the number of active blocks meanwhile.
ReserveKept ==
  [][stopped' = stopped /\ evacuation_targets' < evacuation_targets =>
       evacuation_targets' >= Minimum(empty' + evacuation_targets' + used')]_vars

\* What nofl_space_shrink can take.
Takeable == empty + Max({0, evacuation_targets - Minimum(Active)})

\* When the mutators restart in a heap that may grow, the large allocations that
\* wait find the blocks they need (grow_heap_if_necessary); and in any heap, no block
\* stays unavailable that its size allows for.
RoomToRestart ==
  \A m \in Mutators : pc[m].at = "restart" =>
    /\ policy # Fixed => pending <= Takeable * BlockSize
    /\ unavailable > 0 => pending > -BlockSize

\* In a heap that may grow, a large allocation returns.
LargeReturns ==
  \A m \in Mutators :
    policy # Fixed /\ pc[m].want > 0 ~> pc[m].want = 0
================================================================================
