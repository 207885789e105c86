---------------------------- MODULE StopTheWorld ----------------------------
(***************************************************************************)
(* The rendezvous between mutator threads and the collector in mmc.c.      *)
(*                                                                         *)
(* Every thread that uses the heap owns one mutator.  Any mutator may turn *)
(* into the collector: it takes the heap lock, raises heap->collecting,    *)
(* waits on collector_cond until every other mutator is paused or          *)
(* inactive, runs the collection with the lock held, and lets the others   *)
(* continue by a broadcast of mutator_cond.                                *)
(*                                                                         *)
(* All the shared fields are written under heap->lock, so what a thread    *)
(* does between taking the lock and releasing it (or waiting) is one       *)
(* action; the collector, which keeps the lock while it sweeps and while   *)
(* it traces, is the exception and has several.  heap->collecting is also  *)
(* read without the lock by the inline safepoint check.                    *)
(***************************************************************************)
EXTENDS Integers, FiniteSets

CONSTANTS Mutators,         \* threads that may own a mutator
          NoOwner,          \* value of the lock when it is free
          GC_GENERATIONAL,  \* build option
          AmbiguousEdges,   \* nofl_space_heap_has_ambiguous_edges
          RequestKinds,     \* kinds the embedder asks for (0 on allocation)
          MaxCollections,   \* bound on the collections asked for
          SpuriousWakeups   \* may a condition wait return on its own?

ASSUME MutatorsAssumption ==
  /\ IsFiniteSet(Mutators)
  /\ NoOwner \notin Mutators
ASSUME BuildAssumption ==
  /\ GC_GENERATIONAL \in BOOLEAN
  /\ AmbiguousEdges \in BOOLEAN
  /\ SpuriousWakeups \in BOOLEAN
  /\ RequestKinds \subseteq 0 .. 3
  /\ MaxCollections \in Nat

\* enum gc_collection_kind: the order matters, trigger_collection compares.
GC_COLLECTION_ANY == 0
GC_COLLECTION_MINOR == 1
GC_COLLECTION_MAJOR == 2
GC_COLLECTION_COMPACTING == 3
Kinds == GC_COLLECTION_ANY .. GC_COLLECTION_COMPACTING
NoKind == -1                   \* trigger_collection: int prev_kind = -1

VARIABLES
  lock,                    \* owner of heap->lock
  collecting,              \* heap->collecting
  mutators,                \* heap->mutators, the list as a set
  mutator_count,           \* heap->mutator_count
  paused_mutator_count,    \* heap->paused_mutator_count
  inactive_mutator_count,  \* heap->inactive_mutator_count
  gc_kind,                 \* heap->gc_kind
  count,                   \* heap->count
  mutator_cond,            \* threads asleep on heap->mutator_cond
  collector_cond,          \* threads asleep on heap->collector_cond
  pc,                      \* where each thread is
  active,                  \* mut->active
  holds,                   \* has the mutator an allocator block or log buffer?
  requested,               \* argument of trigger_collection
  prev_kind,               \* local of trigger_collection
  since                    \* history: strongest collection completed since the
                           \* thread called trigger_collection

heap_vars == <<lock, collecting, mutators, mutator_count,
               paused_mutator_count, inactive_mutator_count>>
cycle_vars == <<gc_kind, count>>
cond_vars == <<mutator_cond, collector_cond>>
request_vars == <<requested, prev_kind, since>>
vars == <<heap_vars, cycle_vars, cond_vars, pc, active, holds, request_vars>>

\* A thread is
\*   none         without a mutator
\*   add          in add_mutator, before the lock;  addwait  waiting there
\*   run          running with an active mutator
\*   slow         in gc_safepoint_slow, before the lock
\*   trigger      in trigger_collection, before the lock
\*   pslow, ptrig in pause_mutator_for_collection, called from those two
\*   sweep        the collector, lock held, stop requested
\*   stopping     the collector in wait_for_mutators_to_stop
\*   gc           the collector, everyone stopped
\*   deact        in deactivate_mutator, before the lock
\*   idle         with an inactive mutator
\*   react        in reactivate_mutator, before the lock;  reactwait  waiting
\*   remove       in remove_mutator, before the lock
Collector == {"sweep", "stopping", "gc"}
Pausing == {"pslow", "ptrig"}
Triggering == {"trigger", "ptrig"} \cup Collector
Labels == {"none", "add", "addwait", "run", "slow", "trigger", "deact", "idle",
           "react", "reactwait", "remove"} \cup Collector \cup Pausing

Init ==
  /\ lock = NoOwner
  /\ collecting = FALSE
  /\ mutators = {}
  /\ mutator_count = 0
  /\ paused_mutator_count = 0
  /\ inactive_mutator_count = 0
  /\ gc_kind = GC_COLLECTION_ANY
  /\ count = 0
  /\ mutator_cond = {}
  /\ collector_cond = {}
  /\ pc = [m \in Mutators |-> "none"]
  /\ active = [m \in Mutators |-> FALSE]
  /\ holds = [m \in Mutators |-> FALSE]
  /\ requested = [m \in Mutators |-> GC_COLLECTION_ANY]
  /\ prev_kind = [m \in Mutators |-> NoKind]
  /\ since = [m \in Mutators |-> NoKind]

Goto(m, l) == pc' = [pc EXCEPT ![m] = l]

mutators_are_stopping == collecting

\* Mutant: the collector forgets that it is one of the mutators.
all_others_stopped(n, paused, inactive) == n - 1 = paused + inactive

\* all_mutators_stopped over the three counters it reads.
all_mutators_stopped(n, paused, inactive) == n = paused + inactive

\* Mutant: the wakeup goes to the wrong condition.
signal_nobody == UNCHANGED collector_cond

\* pthread_cond_signal wakes one sleeper, if there is one.
signal_collector_cond ==
  IF collector_cond = {} THEN collector_cond' = {}
  ELSE \E w \in collector_cond : collector_cond' = collector_cond \ {w}

\* Mutant: pthread_cond_signal in place of the broadcast.
signal_mutator_cond ==
  IF mutator_cond = {} THEN mutator_cond' = {}
  ELSE \E w \in mutator_cond : mutator_cond' = mutator_cond \ {w}

\* allow_mutators_to_continue wakes everyone who waits for the collection's end.
broadcast_mutator_cond == mutator_cond' = {}

--------------------------------------------------------------------------------
\* Joining and leaving the heap.

\* gc_init_for_thread up to add_mutator's heap_lock.
InitForThread(m) ==
  /\ pc[m] = "none"
  /\ Goto(m, "add")
  /\ UNCHANGED <<heap_vars, cycle_vars, cond_vars, active, holds, request_vars>>

\* add_mutator from heap_lock, or from the return of its condition wait.
add_mutator(m) ==
  /\ pc[m] = "add" \/ (pc[m] = "addwait" /\ m \notin mutator_cond)
  /\ lock = NoOwner
  /\ IF mutators_are_stopping
     THEN /\ Goto(m, "addwait")
          /\ mutator_cond' = mutator_cond \cup {m}
          /\ UNCHANGED <<mutators, mutator_count, active>>
     ELSE /\ Goto(m, "run")
          /\ mutators' = mutators \cup {m}
          /\ mutator_count' = mutator_count + 1
          /\ active' = [active EXCEPT ![m] = TRUE]
          /\ UNCHANGED mutator_cond
  /\ UNCHANGED <<lock, collecting, paused_mutator_count, inactive_mutator_count,
                 cycle_vars, collector_cond, holds, request_vars>>

\* gc_finish_for_thread: nofl_allocator_finish and the release of the log
\* buffer come before the lock.
FinishForThread(m) ==
  /\ pc[m] \in {"run", "idle"}
  /\ Goto(m, "remove")
  /\ holds' = [holds EXCEPT ![m] = FALSE]
  /\ UNCHANGED <<heap_vars, cycle_vars, cond_vars, active, request_vars>>

\* Mutant: a departing mutator never counts as inactive.
RemoveNeverInactive(m) == inactive_mutator_count

\* An inactive mutator that goes away is no longer counted as inactive.
InactiveAfterRemoval(m) ==
  IF active[m] THEN inactive_mutator_count ELSE inactive_mutator_count - 1

remove_mutator(m) ==
  /\ pc[m] = "remove"
  /\ lock = NoOwner
  /\ inactive_mutator_count' = InactiveAfterRemoval(m)
  /\ mutator_count' = mutator_count - 1
  /\ active' = [active EXCEPT ![m] = FALSE]
  /\ mutators' = mutators \ {m}
  /\ IF /\ mutators_are_stopping
        /\ all_mutators_stopped(mutator_count', paused_mutator_count,
                                inactive_mutator_count')
     THEN signal_collector_cond
     ELSE UNCHANGED collector_cond
  /\ Goto(m, "none")
  /\ UNCHANGED <<lock, collecting, paused_mutator_count, cycle_vars,
                 mutator_cond, holds, request_vars>>

--------------------------------------------------------------------------------
\* Allocation and safepoints.

\* The mutator takes a block to allocate from, or a buffer to log fields in.
Acquire(m) ==
  /\ pc[m] = "run"
  /\ ~holds[m]
  /\ holds' = [holds EXCEPT ![m] = TRUE]
  /\ UNCHANGED <<heap_vars, cycle_vars, cond_vars, pc, active, request_vars>>

\* gc_safepoint's check without the lock, then gc_safepoint_slow up to heap_lock.
gc_safepoint(m) ==
  /\ pc[m] = "run"
  /\ mutators_are_stopping
  /\ Goto(m, "slow")
  /\ holds' = [holds EXCEPT ![m] = FALSE]
  /\ UNCHANGED <<heap_vars, cycle_vars, cond_vars, active, request_vars>>

\* pause_mutator_for_collection up to its condition wait; l says who called it.
\* heap->gc_kind is read here, before the collector has decided this cycle's.
pause_mutator_for_collection(m, l) ==
  /\ paused_mutator_count' = paused_mutator_count + 1
  /\ IF all_mutators_stopped(mutator_count, paused_mutator_count',
                             inactive_mutator_count)
     THEN signal_collector_cond
     ELSE UNCHANGED collector_cond
  /\ mutator_cond' = mutator_cond \cup {m}
  /\ Goto(m, l)
  /\ prev_kind' = IF l = "ptrig" THEN [prev_kind EXCEPT ![m] = gc_kind]
                  ELSE prev_kind

\* gc_safepoint_slow from heap_lock.
gc_safepoint_slow(m) ==
  /\ pc[m] = "slow"
  /\ lock = NoOwner
  /\ IF mutators_are_stopping
     THEN pause_mutator_for_collection(m, "pslow")
     ELSE /\ Goto(m, "run")
          /\ UNCHANGED <<paused_mutator_count, cond_vars, prev_kind>>
  /\ UNCHANGED <<lock, collecting, mutators, mutator_count,
                 inactive_mutator_count, cycle_vars, active, holds, requested,
                 since>>

\* The condition wait of pause_mutator_for_collection returns: wait again while
\* a collection is under way, else resume (in gc_safepoint_slow: unlock).
ResumeSafepoint(m) ==
  /\ pc[m] = "pslow" /\ m \notin mutator_cond
  /\ lock = NoOwner
  /\ IF mutators_are_stopping
     THEN /\ mutator_cond' = mutator_cond \cup {m}
          /\ UNCHANGED <<pc, paused_mutator_count>>
     ELSE /\ paused_mutator_count' = paused_mutator_count - 1
          /\ Goto(m, "run")
          /\ UNCHANGED mutator_cond
  /\ UNCHANGED <<lock, collecting, mutators, mutator_count,
                 inactive_mutator_count, cycle_vars, collector_cond, active,
                 holds, request_vars>>

--------------------------------------------------------------------------------
\* Collections.

\* Mutant: prev_kind keeps its value from an earlier call.
TriggerWithOldKind(m, k) ==
  /\ pc[m] = "run"
  /\ count + Cardinality({n \in Mutators : pc[n] \in Triggering})
       < MaxCollections
  /\ Goto(m, "trigger")
  /\ holds' = [holds EXCEPT ![m] = FALSE]
  /\ requested' = [requested EXCEPT ![m] = k]
  /\ since' = [since EXCEPT ![m] = NoKind]
  /\ UNCHANGED <<heap_vars, cycle_vars, cond_vars, active, prev_kind>>

\* trigger_collection up to heap_lock, from gc_collect or a failed allocation.
TriggerCollection(m, k) ==
  /\ pc[m] = "run"
  /\ count + Cardinality({n \in Mutators : pc[n] \in Triggering})
       < MaxCollections
  /\ Goto(m, "trigger")
  /\ holds' = [holds EXCEPT ![m] = FALSE]
  /\ requested' = [requested EXCEPT ![m] = k]
  /\ prev_kind' = [prev_kind EXCEPT ![m] = NoKind]
  /\ since' = [since EXCEPT ![m] = NoKind]
  /\ UNCHANGED <<heap_vars, cycle_vars, cond_vars, active>>

\* trigger_collection once no collection is under way: the start of collect, or
\* unlock and return.  collect raises the flag and goes on to finish sweeping
\* with the lock held.
CollectOrReturn(m) ==
  IF prev_kind[m] < requested[m]
  THEN /\ collecting' = TRUE
       /\ lock' = m
       /\ Goto(m, "sweep")
  ELSE /\ Goto(m, "run")
       /\ UNCHANGED <<collecting, lock>>

\* trigger_collection from heap_lock.
trigger_collection(m) ==
  /\ pc[m] = "trigger"
  /\ lock = NoOwner
  /\ \/ /\ mutators_are_stopping
        /\ pause_mutator_for_collection(m, "ptrig")
        /\ UNCHANGED <<collecting, lock>>
     \/ /\ ~mutators_are_stopping
        /\ CollectOrReturn(m)
        /\ UNCHANGED <<paused_mutator_count, cond_vars, prev_kind>>
  /\ UNCHANGED <<mutators, mutator_count, inactive_mutator_count, cycle_vars,
                 active, holds, requested, since>>

\* The condition wait returns inside trigger_collection.
ResumeTrigger(m) ==
  /\ pc[m] = "ptrig" /\ m \notin mutator_cond
  /\ lock = NoOwner
  /\ \/ /\ mutators_are_stopping
        /\ mutator_cond' = mutator_cond \cup {m}
        /\ UNCHANGED <<pc, paused_mutator_count, collecting, lock>>
     \/ /\ ~mutators_are_stopping
        /\ paused_mutator_count' = paused_mutator_count - 1
        /\ CollectOrReturn(m)
        /\ UNCHANGED mutator_cond
  /\ UNCHANGED <<mutators, mutator_count, inactive_mutator_count, cycle_vars,
                 collector_cond, active, holds, request_vars>>

\* determine_collection_kind.  The measurements it reads are its arguments:
\* pending is pending_unavailable_bytes > 0, frag is 0 below the low threshold,
\* 1 up to the high one and 2 above it, and tight is yield below the threshold.
determine_collection_kind(prev, req, pending, frag, tight) ==
  LET chosen ==
    CASE count = 0 -> GC_COLLECTION_MAJOR
      [] count > 0 /\ req # GC_COLLECTION_ANY -> req
      [] OTHER ->
         IF \/ pending
            \/ prev = GC_COLLECTION_COMPACTING /\ frag >= 1
            \/ frag = 2
         THEN GC_COLLECTION_COMPACTING
         ELSE IF ~GC_GENERATIONAL THEN GC_COLLECTION_MAJOR
         ELSE IF prev = GC_COLLECTION_MINOR /\ tight THEN GC_COLLECTION_MAJOR
         ELSE GC_COLLECTION_MINOR
  IN IF AmbiguousEdges /\ chosen = GC_COLLECTION_COMPACTING
     THEN GC_COLLECTION_MAJOR ELSE chosen

\* collect, once all mutators have stopped: decide the kind and trace.
StartGC(m) ==
  /\ Goto(m, "gc")
  /\ \E pending, tight \in BOOLEAN, frag \in 0 .. 2 :
       gc_kind' = determine_collection_kind(gc_kind, requested[m], pending,
                                            frag, tight)

\* wait_for_mutators_to_stop: count ourselves as paused and look at the others.
wait_for_mutators_to_stop(m) ==
  /\ pc[m] = "sweep"
  /\ paused_mutator_count' = paused_mutator_count + 1
  /\ IF all_mutators_stopped(mutator_count, paused_mutator_count',
                             inactive_mutator_count)
     THEN StartGC(m) /\ UNCHANGED <<lock, collector_cond>>
     ELSE /\ Goto(m, "stopping")
          /\ collector_cond' = collector_cond \cup {m}
          /\ lock' = NoOwner
          /\ UNCHANGED gc_kind
  /\ UNCHANGED <<collecting, mutators, mutator_count, inactive_mutator_count,
                 count, mutator_cond, active, holds, request_vars>>

\* Mutant: the wait is not in a loop.
MutatorsStoppedUnchecked(m) ==
  /\ pc[m] = "stopping" /\ m \notin collector_cond
  /\ lock = NoOwner
  /\ StartGC(m)
  /\ lock' = m
  /\ UNCHANGED <<collecting, mutators, mutator_count, paused_mutator_count,
                 inactive_mutator_count, count, cond_vars, active, holds,
                 request_vars>>

\* The collector's condition wait returns.
MutatorsStopped(m) ==
  /\ pc[m] = "stopping" /\ m \notin collector_cond
  /\ lock = NoOwner
  /\ IF all_mutators_stopped(mutator_count, paused_mutator_count,
                             inactive_mutator_count)
     THEN StartGC(m) /\ lock' = m /\ UNCHANGED collector_cond
     ELSE /\ collector_cond' = collector_cond \cup {m}
          /\ UNCHANGED <<lock, pc, gc_kind>>
  /\ UNCHANGED <<collecting, mutators, mutator_count, paused_mutator_count,
                 inactive_mutator_count, count, mutator_cond, active, holds,
                 request_vars>>

\* The end of collect: heap->count++, allow_mutators_to_continue, and
\* trigger_collection's unlock.
allow_mutators_to_continue(m) ==
  /\ pc[m] = "gc"
  /\ count' = count + 1
  /\ paused_mutator_count' = paused_mutator_count - 1
  /\ collecting' = FALSE
  /\ broadcast_mutator_cond
  /\ lock' = NoOwner
  /\ Goto(m, "run")
  /\ since' = [n \in Mutators |->
                IF pc[n] \in Triggering /\ since[n] < gc_kind
                THEN gc_kind ELSE since[n]]
  /\ UNCHANGED <<mutators, mutator_count, inactive_mutator_count, gc_kind,
                 collector_cond, active, holds, requested, prev_kind>>

--------------------------------------------------------------------------------
\* Inactive mutators.

\* Mutant: the allocator keeps its block.
DeactivateUnflushed(m) ==
  /\ pc[m] = "run"
  /\ Goto(m, "deact")
  /\ UNCHANGED <<heap_vars, cycle_vars, cond_vars, active, holds, request_vars>>

\* gc_deactivate up to heap_lock.
Deactivate(m) ==
  /\ pc[m] = "run"
  /\ Goto(m, "deact")
  /\ holds' = [holds EXCEPT ![m] = FALSE]
  /\ UNCHANGED <<heap_vars, cycle_vars, cond_vars, active, request_vars>>

deactivate_mutator(m) ==
  /\ pc[m] = "deact"
  /\ lock = NoOwner
  /\ inactive_mutator_count' = inactive_mutator_count + 1
  /\ active' = [active EXCEPT ![m] = FALSE]
  /\ IF all_mutators_stopped(mutator_count, paused_mutator_count,
                             inactive_mutator_count')
     THEN signal_collector_cond
     ELSE UNCHANGED collector_cond
  /\ Goto(m, "idle")
  /\ UNCHANGED <<lock, collecting, mutators, mutator_count,
                 paused_mutator_count, cycle_vars, mutator_cond, holds,
                 request_vars>>

Reactivate(m) ==
  /\ pc[m] = "idle"
  /\ Goto(m, "react")
  /\ UNCHANGED <<heap_vars, cycle_vars, cond_vars, active, holds, request_vars>>

\* reactivate_mutator from heap_lock, or from the return of its condition wait.
reactivate_mutator(m) ==
  /\ pc[m] = "react" \/ (pc[m] = "reactwait" /\ m \notin mutator_cond)
  /\ lock = NoOwner
  /\ IF mutators_are_stopping
     THEN /\ Goto(m, "reactwait")
          /\ mutator_cond' = mutator_cond \cup {m}
          /\ UNCHANGED <<inactive_mutator_count, active>>
     ELSE /\ Goto(m, "run")
          /\ active' = [active EXCEPT ![m] = TRUE]
          /\ inactive_mutator_count' = inactive_mutator_count - 1
          /\ UNCHANGED mutator_cond
  /\ UNCHANGED <<lock, collecting, mutators, mutator_count,
                 paused_mutator_count, cycle_vars, collector_cond, holds,
                 request_vars>>

\* A condition wait may return without a signal (POSIX).
SpuriousWakeup(m) ==
  /\ SpuriousWakeups
  /\ m \in mutator_cond \cup collector_cond
  /\ mutator_cond' = mutator_cond \ {m}
  /\ collector_cond' = collector_cond \ {m}
  /\ UNCHANGED <<heap_vars, cycle_vars, pc, active, holds, request_vars>>

--------------------------------------------------------------------------------
Step(m) ==
  \/ InitForThread(m) \/ add_mutator(m)
  \/ FinishForThread(m) \/ remove_mutator(m)
  \/ Acquire(m) \/ gc_safepoint(m) \/ gc_safepoint_slow(m)
  \/ ResumeSafepoint(m)
  \/ \E k \in RequestKinds : TriggerCollection(m, k)
  \/ trigger_collection(m) \/ ResumeTrigger(m)
  \/ wait_for_mutators_to_stop(m) \/ MutatorsStopped(m)
  \/ allow_mutators_to_continue(m)
  \/ Deactivate(m) \/ deactivate_mutator(m)
  \/ Reactivate(m) \/ reactivate_mutator(m)
  \/ SpuriousWakeup(m)

Next == \E m \in Mutators : Step(m)

Spec == Init /\ [][Next]_vars

\* What a thread does without the embedder's choosing: run to a safepoint while
\* a stop is requested, take a lock that stays free, return from a wait it was
\* woken from, and finish a collection.  Whether a thread joins, leaves,
\* allocates, collects, or changes between active and inactive is up to it.
Progress(m) ==
  \/ gc_safepoint(m) \/ gc_safepoint_slow(m) \/ ResumeSafepoint(m)
  \/ trigger_collection(m) \/ ResumeTrigger(m)
  \/ wait_for_mutators_to_stop(m) \/ MutatorsStopped(m)
  \/ allow_mutators_to_continue(m)
  \/ add_mutator(m) \/ remove_mutator(m)
  \/ deactivate_mutator(m) \/ reactivate_mutator(m)

FairSpec == Spec /\ \A m \in Mutators : WF_vars(Progress(m))

--------------------------------------------------------------------------------
TypeOK ==
  /\ lock \in Mutators \cup {NoOwner}
  /\ collecting \in BOOLEAN
  /\ mutators \in SUBSET Mutators
  /\ mutator_count \in Nat
  /\ paused_mutator_count \in Nat
  /\ inactive_mutator_count \in Nat
  /\ gc_kind \in Kinds
  /\ count \in Nat
  /\ mutator_cond \in SUBSET Mutators
  /\ collector_cond \in SUBSET Mutators
  /\ pc \in [Mutators -> Labels]
  /\ active \in [Mutators -> BOOLEAN]
  /\ holds \in [Mutators -> BOOLEAN]
  /\ requested \in [Mutators -> Kinds]
  /\ prev_kind \in [Mutators -> Kinds \cup {NoKind}]
  /\ since \in [Mutators -> Kinds \cup {NoKind}]

\* While a collection runs, no other thread is anywhere it can touch the heap:
\* it is outside the heap, asleep or blocked on the lock on its way in, paused,
\* or its mutator is inactive.
WorldIsStopped ==
  \A c, m \in Mutators :
    pc[c] = "gc" /\ m # c =>
      \/ pc[m] \in {"none", "add", "addwait", "idle", "react", "reactwait"}
                     \cup Pausing
      \/ pc[m] = "remove" /\ ~active[m]

\* When the collector runs, no mutator still owns a block or a log buffer:
\* nofl_space_start_gc files every block, and the remembered set is complete.
AllocatorsFlushed ==
  \A c, m \in Mutators : pc[c] = "gc" => ~holds[m]

\* Who is in the heap, who is stopped in a wait, and who is inactive.
Members == {m \in Mutators : pc[m] \notin {"none", "add", "addwait"}}
PausedMutators ==
  {m \in Mutators : pc[m] \in Pausing \cup {"stopping", "gc"}}
InactiveMutators == {m \in Members : ~active[m]}

\* The counters that decide a stop agree with what the threads really do, also
\* for a mutator that was woken but has not got the lock back.
CountsAgree ==
  /\ mutators = Members
  /\ mutator_count = Cardinality(Members)
  /\ paused_mutator_count = Cardinality(PausedMutators)
  /\ inactive_mutator_count = Cardinality(InactiveMutators)

\* The assertions of pause_mutator_for_collection and
\* allow_mutators_to_continue: a thread about to pause is not already counted
\* as stopped, and the collector finds everyone still stopped when it is done.
StopAssertions ==
  /\ \A m \in Mutators :
       pc[m] \in {"slow", "trigger"} /\ mutators_are_stopping =>
         ~all_mutators_stopped(mutator_count, paused_mutator_count,
                               inactive_mutator_count)
  /\ (\E m \in Mutators : pc[m] = "gc") =>
       mutators_are_stopping /\
         all_mutators_stopped(mutator_count, paused_mutator_count,
                              inactive_mutator_count)

Returns(m) == pc[m] \in {"trigger", "ptrig", "gc"} /\ pc'[m] = "run"

\* Whoever asks for a collection returns only after one has run to its end
\* since the call, be it its own or the one it was paused for.
CollectedSinceRequest == [][\A m \in Mutators : Returns(m) => since'[m] # NoKind]_vars

\* "Doing a full collection lets us reason precisely about liveness"
\* (benchmarks/ephemerons.c): gc_collect(GC_COLLECTION_MAJOR) returns only
\* after a collection that was at least a major one.
FullCollectionOnReturn ==
  [][\A m \in Mutators :
       Returns(m) /\ requested[m] = GC_COLLECTION_MAJOR =>
         since'[m] >= GC_COLLECTION_MAJOR]_vars

\* A requested stop is reached: no wakeup of the collector is lost, whichever
\* way the last mutator stops (pause, deactivation, removal).
StopCompletes ==
  \A m \in Mutators : pc[m] \in {"sweep", "stopping"} ~> pc[m] = "gc"

\* A paused mutator, and one waiting to join or to become active, resumes.
EveryoneResumes ==
  \A m \in Mutators :
    pc[m] \in Pausing \cup {"addwait", "reactwait"} ~>
      pc[m] \notin Pausing \cup {"addwait", "reactwait"}
================================================================================
