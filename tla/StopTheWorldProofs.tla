------------------------- MODULE StopTheWorldProofs -------------------------
(***************************************************************************)
(* The rendezvous of StopTheWorld proved for any finite set of mutators,   *)
(* any build and any number of collections.                                *)
(***************************************************************************)
EXTENDS StopTheWorld, FiniteSetTheorems, TLAPS

\* The lock is held across steps by the collector only, and only where the code
\* holds it.
LockInv == \A m \in Mutators : lock = m <=> pc[m] \in {"sweep", "gc"}

\* The flag is up exactly while there is a collector, and there is one at most.
CollectorInv ==
  /\ collecting <=> \E m \in Mutators : pc[m] \in Collector
  /\ \A m, n \in Mutators :
       pc[m] \in Collector /\ pc[n] \in Collector => m = n

\* mut->active as a function of where the thread is.
ActiveInv ==
  \A m \in Mutators :
    /\ pc[m] \in {"run", "slow", "trigger", "deact"} \cup Pausing \cup Collector
         => active[m]
    /\ pc[m] \in {"none", "add", "addwait", "idle", "react", "reactwait"}
         => ~active[m]

\* Only a running mutator owns a block or a buffer.
HoldsInv == \A m \in Mutators : holds[m] => pc[m] = "run"

\* From the collector's last look at the counters to the end of the collection
\* nobody changes them.
StoppedInv ==
  (\E m \in Mutators : pc[m] = "gc") =>
     mutator_count = paused_mutator_count + inactive_mutator_count

\* A thread in trigger_collection that no longer waits has seen a collection
\* complete, and one that has not waited yet will collect.
RequestInv ==
  \A m \in Mutators :
    /\ pc[m] = "trigger" => prev_kind[m] = NoKind
    /\ pc[m] = "ptrig" => collecting \/ since[m] # NoKind

IInv == /\ TypeOK
        /\ LockInv
        /\ CollectorInv
        /\ ActiveInv
        /\ HoldsInv
        /\ CountsAgree
        /\ StoppedInv
        /\ RequestInv

--------------------------------------------------------------------------------
\* The counted sets are subsets of a finite set.
LEMMA CountedSets ==
  ASSUME NEW S \in SUBSET Mutators
  PROVE  IsFiniteSet(S) /\ Cardinality(S) \in Nat
BY FS_Subset, FS_CardinalityType, MutatorsAssumption

\* How a counter n of the set S may change to k when S changes to T: not at all,
\* or by the one mutator m that joins or leaves it.
Recounted(S, T, n, k, m) ==
  \/ T = S /\ k = n
  \/ T = S \cup {m} /\ m \notin S /\ k = n + 1
  \/ T = S \ {m} /\ m \in S /\ k = n - 1

CountsInNat == /\ mutator_count \in Nat
               /\ paused_mutator_count \in Nat
               /\ inactive_mutator_count \in Nat

\* A recounted counter is the cardinality of the new set.
LEMMA RecountOne ==
  ASSUME NEW S \in SUBSET Mutators, NEW T, NEW m \in Mutators,
         NEW n, NEW k, n = Cardinality(S), Recounted(S, T, n, k, m)
  PROVE  k = Cardinality(T) /\ k \in Nat
<1>1. CASE T = S /\ k = n
  BY <1>1, CountedSets
<1>2. CASE T = S \cup {m} /\ m \notin S /\ k = n + 1
  BY <1>2, CountedSets, FS_AddElement
<1>3. CASE T = S \ {m} /\ m \in S /\ k = n - 1
  <2>1. T \in SUBSET Mutators
    BY <1>3
  <2>. QED  BY <1>3, <2>1, CountedSets, FS_RemoveElement
<1>. QED  BY <1>1, <1>2, <1>3 DEF Recounted

\* The three counters stay right when each is recounted.
LEMMA Recount ==
  ASSUME CountsAgree, NEW m \in Mutators, mutators' = Members',
         Recounted(Members, Members', mutator_count, mutator_count', m),
         Recounted(PausedMutators, PausedMutators', paused_mutator_count,
                   paused_mutator_count', m),
         Recounted(InactiveMutators, InactiveMutators', inactive_mutator_count,
                   inactive_mutator_count', m)
  PROVE  CountsAgree' /\ CountsInNat'
<1>1. /\ Members \in SUBSET Mutators
      /\ PausedMutators \in SUBSET Mutators
      /\ InactiveMutators \in SUBSET Mutators
  BY DEF Members, PausedMutators, InactiveMutators
<1>2. mutator_count' = Cardinality(Members') /\ mutator_count' \in Nat
  BY <1>1, RecountOne DEF CountsAgree
<1>3. paused_mutator_count' = Cardinality(PausedMutators')
      /\ paused_mutator_count' \in Nat
  BY <1>1, RecountOne DEF CountsAgree
<1>4. inactive_mutator_count' = Cardinality(InactiveMutators')
      /\ inactive_mutator_count' \in Nat
  BY <1>1, RecountOne DEF CountsAgree
<1>. QED  BY <1>2, <1>3, <1>4 DEF CountsAgree, CountsInNat

\* What the embedder may ask for are kinds.
LEMMA RequestKindsInKinds == RequestKinds \subseteq Kinds
BY BuildAssumption DEF Kinds, GC_COLLECTION_ANY, GC_COLLECTION_COMPACTING

\* determine_collection_kind answers a kind.
LEMMA KindDetermined ==
  ASSUME NEW prev \in Kinds, NEW req \in Kinds, NEW pending \in BOOLEAN,
         NEW frag \in 0 .. 2, NEW tight \in BOOLEAN, count \in Nat
  PROVE  determine_collection_kind(prev, req, pending, frag, tight) \in Kinds
BY DEF determine_collection_kind, Kinds, GC_COLLECTION_ANY, GC_COLLECTION_MINOR,
       GC_COLLECTION_MAJOR, GC_COLLECTION_COMPACTING

\* The kind a collection settles on is a kind.
LEMMA StartGCKind ==
  ASSUME TypeOK, NEW m \in Mutators, StartGC(m)
  PROVE  gc_kind' \in Kinds
<1>1. PICK pending, tight \in BOOLEAN, frag \in 0 .. 2 :
        gc_kind' = determine_collection_kind(gc_kind, requested[m], pending,
                                             frag, tight)
  BY DEF StartGC
<1>2. gc_kind \in Kinds /\ requested[m] \in Kinds /\ count \in Nat
  BY DEF TypeOK
<1>. QED  BY <1>1, <1>2, KindDetermined

\* signal_collector_cond keeps the type of the wait set.
LEMMA SignalType ==
  ASSUME collector_cond \in SUBSET Mutators, signal_collector_cond
  PROVE  collector_cond' \in SUBSET Mutators
BY DEF signal_collector_cond

\* The invariant holds in a heap without mutators.
LEMMA InitIInv == Init => IInv
<1>. SUFFICES ASSUME Init PROVE IInv
  OBVIOUS
<1>1. Members = {} /\ PausedMutators = {} /\ InactiveMutators = {}
  BY DEF Init, Members, PausedMutators, InactiveMutators, Pausing
<1>2. TypeOK
  <2>1. pc \in [Mutators -> Labels]
    BY DEF Init, Labels
  <2>2. GC_COLLECTION_ANY \in Kinds
    BY DEF Kinds, GC_COLLECTION_ANY, GC_COLLECTION_COMPACTING
  <2>. QED  BY <2>1, <2>2 DEF Init, TypeOK
<1>3. CountsAgree
  BY <1>1, FS_EmptySet DEF Init, CountsAgree
<1>4. LockInv /\ CollectorInv /\ ActiveInv /\ HoldsInv /\ StoppedInv /\
  RequestInv
  BY MutatorsAssumption DEF Init, LockInv, CollectorInv, ActiveInv, HoldsInv,
     StoppedInv, RequestInv, Collector, Pausing
<1>. QED  BY <1>2, <1>3, <1>4 DEF IInv

--------------------------------------------------------------------------------
\* InitForThread preserves the invariant.
LEMMA InitForThreadStep ==
  ASSUME IInv, NEW m \in Mutators, InitForThread(m)
  PROVE  IInv'
<1>. USE DEF IInv, InitForThread, Goto, heap_vars, cycle_vars, cond_vars,
  request_vars
<1>1. LockInv'
  BY MutatorsAssumption DEF TypeOK, LockInv
<1>2. CollectorInv'
  BY DEF TypeOK, CollectorInv, Collector
<1>3. ActiveInv'
  BY DEF TypeOK, ActiveInv, Collector, Pausing
<1>4. HoldsInv'
  BY DEF TypeOK, HoldsInv
<1>5. StoppedInv'
  BY MutatorsAssumption DEF TypeOK, StoppedInv, LockInv
<1>6. RequestInv'
  BY DEF TypeOK, RequestInv
<1>7. CountsAgree' /\ CountsInNat'
  <2>1. mutators' = Members'
    BY DEF CountsAgree, TypeOK, Members
  <2>2. Recounted(Members, Members', mutator_count, mutator_count', m)
    BY DEF Recounted, TypeOK, Members
  <2>3. Recounted(PausedMutators, PausedMutators', paused_mutator_count,
                  paused_mutator_count', m)
    BY DEF Recounted, TypeOK, PausedMutators, Pausing
  <2>4. Recounted(InactiveMutators, InactiveMutators', inactive_mutator_count,
                  inactive_mutator_count', m)
    BY DEF Recounted, TypeOK, InactiveMutators, Members, ActiveInv, Pausing,
           Collector
  <2>. QED  BY <2>1, <2>2, <2>3, <2>4, Recount
<1>8. TypeOK'
  BY <1>7 DEF TypeOK, CountsInNat, Labels
<1>. QED  BY <1>1, <1>2, <1>3, <1>4, <1>5, <1>6, <1>7, <1>8

\* add_mutator preserves the invariant.
LEMMA AddMutatorStep ==
  ASSUME IInv, NEW m \in Mutators, add_mutator(m)
  PROVE  IInv'
<1>. USE DEF IInv, add_mutator, Goto, mutators_are_stopping, heap_vars,
  cycle_vars, cond_vars, request_vars
<1>1. LockInv'
  BY MutatorsAssumption DEF TypeOK, LockInv
<1>2. CollectorInv'
  BY DEF TypeOK, CollectorInv, Collector
<1>3. ActiveInv'
  BY DEF TypeOK, ActiveInv, Collector, Pausing
<1>4. HoldsInv'
  BY DEF TypeOK, HoldsInv
<1>5. StoppedInv'
  BY MutatorsAssumption DEF TypeOK, StoppedInv, LockInv
<1>6. RequestInv'
  BY DEF TypeOK, RequestInv
<1>7. CountsAgree' /\ CountsInNat'
  <2>1. mutators' = Members'
    BY DEF CountsAgree, TypeOK, Members
  <2>2. Recounted(Members, Members', mutator_count, mutator_count', m)
    BY DEF Recounted, TypeOK, Members
  <2>3. Recounted(PausedMutators, PausedMutators', paused_mutator_count,
                  paused_mutator_count', m)
    BY DEF Recounted, TypeOK, PausedMutators, Pausing
  <2>4. Recounted(InactiveMutators, InactiveMutators', inactive_mutator_count,
                  inactive_mutator_count', m)
    BY DEF Recounted, TypeOK, InactiveMutators, Members, ActiveInv, Pausing,
           Collector
  <2>. QED  BY <2>1, <2>2, <2>3, <2>4, Recount
<1>8. TypeOK'
  BY <1>7 DEF TypeOK, CountsInNat, Labels
<1>. QED  BY <1>1, <1>2, <1>3, <1>4, <1>5, <1>6, <1>7, <1>8

\* FinishForThread preserves the invariant.
LEMMA FinishForThreadStep ==
  ASSUME IInv, NEW m \in Mutators, FinishForThread(m)
  PROVE  IInv'
<1>. USE DEF IInv, FinishForThread, Goto, heap_vars, cycle_vars, cond_vars,
  request_vars
<1>1. LockInv'
  BY MutatorsAssumption DEF TypeOK, LockInv
<1>2. CollectorInv'
  BY DEF TypeOK, CollectorInv, Collector
<1>3. ActiveInv'
  BY DEF TypeOK, ActiveInv, Collector, Pausing
<1>4. HoldsInv'
  BY DEF TypeOK, HoldsInv
<1>5. StoppedInv'
  BY MutatorsAssumption DEF TypeOK, StoppedInv, LockInv
<1>6. RequestInv'
  BY DEF TypeOK, RequestInv
<1>7. CountsAgree' /\ CountsInNat'
  <2>1. mutators' = Members'
    BY DEF CountsAgree, TypeOK, Members
  <2>2. Recounted(Members, Members', mutator_count, mutator_count', m)
    BY DEF Recounted, TypeOK, Members
  <2>3. Recounted(PausedMutators, PausedMutators', paused_mutator_count,
                  paused_mutator_count', m)
    BY DEF Recounted, TypeOK, PausedMutators, Pausing
  <2>4. Recounted(InactiveMutators, InactiveMutators', inactive_mutator_count,
                  inactive_mutator_count', m)
    BY DEF Recounted, TypeOK, InactiveMutators, Members, ActiveInv, Pausing,
           Collector
  <2>. QED  BY <2>1, <2>2, <2>3, <2>4, Recount
<1>8. TypeOK'
  BY <1>7 DEF TypeOK, CountsInNat, Labels
<1>. QED  BY <1>1, <1>2, <1>3, <1>4, <1>5, <1>6, <1>7, <1>8

\* remove_mutator preserves the invariant.
LEMMA RemoveMutatorStep ==
  ASSUME IInv, NEW m \in Mutators, remove_mutator(m)
  PROVE  IInv'
<1>. USE DEF IInv, remove_mutator, InactiveAfterRemoval, Goto, heap_vars,
  cycle_vars, cond_vars,
  request_vars
<1>1. LockInv'
  BY MutatorsAssumption DEF TypeOK, LockInv
<1>2. CollectorInv'
  BY DEF TypeOK, CollectorInv, Collector
<1>3. ActiveInv'
  BY DEF TypeOK, ActiveInv, Collector, Pausing
<1>4. HoldsInv'
  BY DEF TypeOK, HoldsInv
<1>5. StoppedInv'
  BY MutatorsAssumption DEF TypeOK, StoppedInv, LockInv
<1>6. RequestInv'
  BY DEF TypeOK, RequestInv
<1>7. CountsAgree' /\ CountsInNat'
  <2>1. mutators' = Members'
    BY DEF CountsAgree, TypeOK, Members
  <2>2. Recounted(Members, Members', mutator_count, mutator_count', m)
    BY DEF Recounted, TypeOK, Members
  <2>3. Recounted(PausedMutators, PausedMutators', paused_mutator_count,
                  paused_mutator_count', m)
    BY DEF Recounted, TypeOK, PausedMutators, Pausing
  <2>4. Recounted(InactiveMutators, InactiveMutators', inactive_mutator_count,
                  inactive_mutator_count', m)
    BY DEF Recounted, TypeOK, InactiveMutators, Members, ActiveInv, Pausing,
           Collector
  <2>. QED  BY <2>1, <2>2, <2>3, <2>4, Recount
<1>8. TypeOK'
  <2>1. pc' \in [Mutators -> Labels]
    BY DEF TypeOK, Labels, Collector
  <2>2. collector_cond' \in SUBSET Mutators
    BY SignalType DEF TypeOK
  <2>. QED  BY <1>7, <2>1, <2>2 DEF TypeOK, CountsInNat
<1>. QED  BY <1>1, <1>2, <1>3, <1>4, <1>5, <1>6, <1>7, <1>8

\* Acquire preserves the invariant.
LEMMA AcquireStep ==
  ASSUME IInv, NEW m \in Mutators, Acquire(m)
  PROVE  IInv'
<1>. USE DEF IInv, Acquire, Goto, heap_vars, cycle_vars, cond_vars, request_vars
<1>1. LockInv'
  BY MutatorsAssumption DEF TypeOK, LockInv
<1>2. CollectorInv'
  BY DEF TypeOK, CollectorInv, Collector
<1>3. ActiveInv'
  BY DEF TypeOK, ActiveInv, Collector, Pausing
<1>4. HoldsInv'
  BY DEF TypeOK, HoldsInv
<1>5. StoppedInv'
  BY MutatorsAssumption DEF TypeOK, StoppedInv, LockInv
<1>6. RequestInv'
  BY DEF TypeOK, RequestInv
<1>7. CountsAgree' /\ CountsInNat'
  <2>1. mutators' = Members'
    BY DEF CountsAgree, TypeOK, Members
  <2>2. Recounted(Members, Members', mutator_count, mutator_count', m)
    BY DEF Recounted, TypeOK, Members
  <2>3. Recounted(PausedMutators, PausedMutators', paused_mutator_count,
                  paused_mutator_count', m)
    BY DEF Recounted, TypeOK, PausedMutators, Pausing
  <2>4. Recounted(InactiveMutators, InactiveMutators', inactive_mutator_count,
                  inactive_mutator_count', m)
    BY DEF Recounted, TypeOK, InactiveMutators, Members, ActiveInv, Pausing,
           Collector
  <2>. QED  BY <2>1, <2>2, <2>3, <2>4, Recount
<1>8. TypeOK'
  BY <1>7 DEF TypeOK, CountsInNat, Labels
<1>. QED  BY <1>1, <1>2, <1>3, <1>4, <1>5, <1>6, <1>7, <1>8

\* gc_safepoint preserves the invariant.
LEMMA SafepointStep ==
  ASSUME IInv, NEW m \in Mutators, gc_safepoint(m)
  PROVE  IInv'
<1>. USE DEF IInv, gc_safepoint, Goto, mutators_are_stopping, heap_vars,
  cycle_vars, cond_vars, request_vars
<1>1. LockInv'
  BY MutatorsAssumption DEF TypeOK, LockInv
<1>2. CollectorInv'
  BY DEF TypeOK, CollectorInv, Collector
<1>3. ActiveInv'
  BY DEF TypeOK, ActiveInv, Collector, Pausing
<1>4. HoldsInv'
  BY DEF TypeOK, HoldsInv
<1>5. StoppedInv'
  BY MutatorsAssumption DEF TypeOK, StoppedInv, LockInv
<1>6. RequestInv'
  BY DEF TypeOK, RequestInv
<1>7. CountsAgree' /\ CountsInNat'
  <2>1. mutators' = Members'
    BY DEF CountsAgree, TypeOK, Members
  <2>2. Recounted(Members, Members', mutator_count, mutator_count', m)
    BY DEF Recounted, TypeOK, Members
  <2>3. Recounted(PausedMutators, PausedMutators', paused_mutator_count,
                  paused_mutator_count', m)
    BY DEF Recounted, TypeOK, PausedMutators, Pausing
  <2>4. Recounted(InactiveMutators, InactiveMutators', inactive_mutator_count,
                  inactive_mutator_count', m)
    BY DEF Recounted, TypeOK, InactiveMutators, Members, ActiveInv, Pausing,
           Collector
  <2>. QED  BY <2>1, <2>2, <2>3, <2>4, Recount
<1>8. TypeOK'
  BY <1>7 DEF TypeOK, CountsInNat, Labels
<1>. QED  BY <1>1, <1>2, <1>3, <1>4, <1>5, <1>6, <1>7, <1>8

\* gc_safepoint_slow preserves the invariant.
LEMMA SafepointSlowStep ==
  ASSUME IInv, NEW m \in Mutators, gc_safepoint_slow(m)
  PROVE  IInv'
<1>. USE DEF IInv, gc_safepoint_slow, Goto, pause_mutator_for_collection,
  mutators_are_stopping, heap_vars, cycle_vars, cond_vars, request_vars
<1>1. LockInv'
  BY MutatorsAssumption DEF TypeOK, LockInv
<1>2. CollectorInv'
  BY DEF TypeOK, CollectorInv, Collector
<1>3. ActiveInv'
  BY DEF TypeOK, ActiveInv, Collector, Pausing
<1>4. HoldsInv'
  BY DEF TypeOK, HoldsInv
<1>5. StoppedInv'
  BY MutatorsAssumption DEF TypeOK, StoppedInv, LockInv
<1>6. RequestInv'
  BY DEF TypeOK, RequestInv
<1>7. CountsAgree' /\ CountsInNat'
  <2>1. mutators' = Members'
    BY DEF CountsAgree, TypeOK, Members
  <2>2. Recounted(Members, Members', mutator_count, mutator_count', m)
    BY DEF Recounted, TypeOK, Members
  <2>3. Recounted(PausedMutators, PausedMutators', paused_mutator_count,
                  paused_mutator_count', m)
    BY DEF Recounted, TypeOK, PausedMutators, Pausing
  <2>4. Recounted(InactiveMutators, InactiveMutators', inactive_mutator_count,
                  inactive_mutator_count', m)
    BY DEF Recounted, TypeOK, InactiveMutators, Members, ActiveInv, Pausing,
           Collector
  <2>. QED  BY <2>1, <2>2, <2>3, <2>4, Recount
<1>8. TypeOK'
  <2>1. pc' \in [Mutators -> Labels]
    BY DEF TypeOK, Labels, Collector, Pausing
  <2>2. collector_cond' \in SUBSET Mutators
    BY SignalType DEF TypeOK
  <2>3. prev_kind' \in [Mutators -> Kinds \cup {NoKind}]
    BY DEF TypeOK
  <2>. QED  BY <1>7, <2>1, <2>2, <2>3 DEF TypeOK, CountsInNat
<1>. QED  BY <1>1, <1>2, <1>3, <1>4, <1>5, <1>6, <1>7, <1>8

\* ResumeSafepoint preserves the invariant.
LEMMA ResumeSafepointStep ==
  ASSUME IInv, NEW m \in Mutators, ResumeSafepoint(m)
  PROVE  IInv'
<1>. USE DEF IInv, ResumeSafepoint, Goto, mutators_are_stopping, heap_vars,
  cycle_vars, cond_vars, request_vars
<1>1. LockInv'
  BY MutatorsAssumption DEF TypeOK, LockInv
<1>2. CollectorInv'
  BY DEF TypeOK, CollectorInv, Collector
<1>3. ActiveInv'
  BY DEF TypeOK, ActiveInv, Collector, Pausing
<1>4. HoldsInv'
  BY DEF TypeOK, HoldsInv
<1>5. StoppedInv'
  BY MutatorsAssumption DEF TypeOK, StoppedInv, LockInv
<1>6. RequestInv'
  BY DEF TypeOK, RequestInv
<1>7. CountsAgree' /\ CountsInNat'
  <2>1. mutators' = Members'
    BY DEF CountsAgree, TypeOK, Members
  <2>2. Recounted(Members, Members', mutator_count, mutator_count', m)
    BY DEF Recounted, TypeOK, Members
  <2>3. Recounted(PausedMutators, PausedMutators', paused_mutator_count,
                  paused_mutator_count', m)
    BY DEF Recounted, TypeOK, PausedMutators, Pausing
  <2>4. Recounted(InactiveMutators, InactiveMutators', inactive_mutator_count,
                  inactive_mutator_count', m)
    BY DEF Recounted, TypeOK, InactiveMutators, Members, ActiveInv, Pausing,
           Collector
  <2>. QED  BY <2>1, <2>2, <2>3, <2>4, Recount
<1>8. TypeOK'
  <2>1. pc' \in [Mutators -> Labels]
    BY DEF TypeOK, Labels, Collector
  <2>. QED  BY <1>7, <2>1 DEF TypeOK, CountsInNat
<1>. QED  BY <1>1, <1>2, <1>3, <1>4, <1>5, <1>6, <1>7, <1>8

\* TriggerCollection preserves the invariant.
LEMMA TriggerStep ==
  ASSUME IInv, NEW m \in Mutators, NEW k \in RequestKinds, TriggerCollection(m,
    k)
  PROVE  IInv'
<1>. USE DEF IInv, TriggerCollection, Goto, heap_vars, cycle_vars, cond_vars,
  request_vars
<1>1. LockInv'
  BY MutatorsAssumption DEF TypeOK, LockInv
<1>2. CollectorInv'
  BY DEF TypeOK, CollectorInv, Collector
<1>3. ActiveInv'
  BY DEF TypeOK, ActiveInv, Collector, Pausing
<1>4. HoldsInv'
  BY DEF TypeOK, HoldsInv
<1>5. StoppedInv'
  BY MutatorsAssumption DEF TypeOK, StoppedInv, LockInv
<1>6. RequestInv'
  BY DEF TypeOK, RequestInv
<1>7. CountsAgree' /\ CountsInNat'
  <2>1. mutators' = Members'
    BY DEF CountsAgree, TypeOK, Members
  <2>2. Recounted(Members, Members', mutator_count, mutator_count', m)
    BY DEF Recounted, TypeOK, Members
  <2>3. Recounted(PausedMutators, PausedMutators', paused_mutator_count,
                  paused_mutator_count', m)
    BY DEF Recounted, TypeOK, PausedMutators, Pausing
  <2>4. Recounted(InactiveMutators, InactiveMutators', inactive_mutator_count,
                  inactive_mutator_count', m)
    BY DEF Recounted, TypeOK, InactiveMutators, Members, ActiveInv, Pausing,
           Collector
  <2>. QED  BY <2>1, <2>2, <2>3, <2>4, Recount
<1>8. TypeOK'
  <2>1. pc' \in [Mutators -> Labels]
    BY DEF TypeOK, Labels, Collector
  <2>2. requested' \in [Mutators -> Kinds] /\ prev_kind' \in [Mutators -> Kinds
    \cup {NoKind}]
        /\ since' \in [Mutators -> Kinds \cup {NoKind}]
    BY RequestKindsInKinds DEF TypeOK
  <2>. QED  BY <1>7, <2>1, <2>2 DEF TypeOK, CountsInNat
<1>. QED  BY <1>1, <1>2, <1>3, <1>4, <1>5, <1>6, <1>7, <1>8

\* trigger_collection preserves the invariant.
LEMMA TriggerLockedStep ==
  ASSUME IInv, NEW m \in Mutators, trigger_collection(m)
  PROVE  IInv'
<1>. USE DEF IInv, trigger_collection, Goto, pause_mutator_for_collection,
  mutators_are_stopping, CollectOrReturn, heap_vars, cycle_vars, cond_vars,
  request_vars
<1>1. LockInv'
  BY MutatorsAssumption DEF TypeOK, LockInv
<1>2. CollectorInv'
  BY DEF TypeOK, CollectorInv, Collector
<1>3. ActiveInv'
  BY DEF TypeOK, ActiveInv, Collector, Pausing
<1>4. HoldsInv'
  BY DEF TypeOK, HoldsInv
<1>5. StoppedInv'
  BY MutatorsAssumption DEF TypeOK, StoppedInv, LockInv
<1>6. RequestInv'
  BY DEF TypeOK, RequestInv
<1>7. CountsAgree' /\ CountsInNat'
  <2>1. mutators' = Members'
    BY DEF CountsAgree, TypeOK, Members
  <2>2. Recounted(Members, Members', mutator_count, mutator_count', m)
    BY DEF Recounted, TypeOK, Members
  <2>3. Recounted(PausedMutators, PausedMutators', paused_mutator_count,
                  paused_mutator_count', m)
    BY DEF Recounted, TypeOK, PausedMutators, Pausing
  <2>4. Recounted(InactiveMutators, InactiveMutators', inactive_mutator_count,
                  inactive_mutator_count', m)
    BY DEF Recounted, TypeOK, InactiveMutators, Members, ActiveInv, Pausing,
           Collector
  <2>. QED  BY <2>1, <2>2, <2>3, <2>4, Recount
<1>8. TypeOK'
  <2>1. pc' \in [Mutators -> Labels]
    BY DEF TypeOK, Labels, Collector, Pausing
  <2>2. collector_cond' \in SUBSET Mutators
    BY SignalType DEF TypeOK
  <2>3. prev_kind' \in [Mutators -> Kinds \cup {NoKind}]
    BY DEF TypeOK
  <2>4. lock' \in Mutators \cup {NoOwner} /\ mutator_cond' \in SUBSET Mutators
    BY DEF TypeOK
  <2>. QED  BY <1>7, <2>1, <2>2, <2>3, <2>4 DEF TypeOK, CountsInNat
<1>. QED  BY <1>1, <1>2, <1>3, <1>4, <1>5, <1>6, <1>7, <1>8

\* ResumeTrigger preserves the invariant.
LEMMA ResumeTriggerStep ==
  ASSUME IInv, NEW m \in Mutators, ResumeTrigger(m)
  PROVE  IInv'
<1>. USE DEF IInv, ResumeTrigger, Goto, mutators_are_stopping, CollectOrReturn,
  heap_vars, cycle_vars, cond_vars, request_vars
<1>1. LockInv'
  BY MutatorsAssumption DEF TypeOK, LockInv
<1>2. CollectorInv'
  BY DEF TypeOK, CollectorInv, Collector
<1>3. ActiveInv'
  BY DEF TypeOK, ActiveInv, Collector, Pausing
<1>4. HoldsInv'
  BY DEF TypeOK, HoldsInv
<1>5. StoppedInv'
  BY MutatorsAssumption DEF TypeOK, StoppedInv, LockInv
<1>6. RequestInv'
  BY DEF TypeOK, RequestInv
<1>7. CountsAgree' /\ CountsInNat'
  <2>1. mutators' = Members'
    BY DEF CountsAgree, TypeOK, Members
  <2>2. Recounted(Members, Members', mutator_count, mutator_count', m)
    BY DEF Recounted, TypeOK, Members
  <2>3. Recounted(PausedMutators, PausedMutators', paused_mutator_count,
                  paused_mutator_count', m)
    BY DEF Recounted, TypeOK, PausedMutators, Pausing
  <2>4. Recounted(InactiveMutators, InactiveMutators', inactive_mutator_count,
                  inactive_mutator_count', m)
    BY DEF Recounted, TypeOK, InactiveMutators, Members, ActiveInv, Pausing,
           Collector
  <2>. QED  BY <2>1, <2>2, <2>3, <2>4, Recount
<1>8. TypeOK'
  <2>1. pc' \in [Mutators -> Labels]
    BY DEF TypeOK, Labels, Collector
  <2>2. lock' \in Mutators \cup {NoOwner} /\ mutator_cond' \in SUBSET Mutators
    BY DEF TypeOK
  <2>. QED  BY <1>7, <2>1, <2>2 DEF TypeOK, CountsInNat
<1>. QED  BY <1>1, <1>2, <1>3, <1>4, <1>5, <1>6, <1>7, <1>8

\* wait_for_mutators_to_stop preserves the invariant.
LEMMA WaitForStopStep ==
  ASSUME IInv, NEW m \in Mutators, wait_for_mutators_to_stop(m)
  PROVE  IInv'
<1>. USE DEF IInv, wait_for_mutators_to_stop, Goto, StartGC,
  all_mutators_stopped, heap_vars, cycle_vars, cond_vars, request_vars
<1>1. LockInv'
  BY MutatorsAssumption DEF TypeOK, LockInv
<1>2. CollectorInv'
  BY DEF TypeOK, CollectorInv, Collector
<1>3. ActiveInv'
  BY DEF TypeOK, ActiveInv, Collector, Pausing
<1>4. HoldsInv'
  BY DEF TypeOK, HoldsInv
<1>5. StoppedInv'
  BY MutatorsAssumption DEF TypeOK, StoppedInv, LockInv
<1>6. RequestInv'
  BY DEF TypeOK, RequestInv
<1>7. CountsAgree' /\ CountsInNat'
  <2>1. mutators' = Members'
    BY DEF CountsAgree, TypeOK, Members
  <2>2. Recounted(Members, Members', mutator_count, mutator_count', m)
    BY DEF Recounted, TypeOK, Members
  <2>3. Recounted(PausedMutators, PausedMutators', paused_mutator_count,
                  paused_mutator_count', m)
    BY DEF Recounted, TypeOK, PausedMutators, Pausing
  <2>4. Recounted(InactiveMutators, InactiveMutators', inactive_mutator_count,
                  inactive_mutator_count', m)
    BY DEF Recounted, TypeOK, InactiveMutators, Members, ActiveInv, Pausing,
           Collector
  <2>. QED  BY <2>1, <2>2, <2>3, <2>4, Recount
<1>8. TypeOK'
  <2>1. pc' \in [Mutators -> Labels]
    BY DEF TypeOK, Labels, Collector
  <2>2. gc_kind' \in Kinds
    BY StartGCKind DEF TypeOK
  <2>3. collector_cond' \in SUBSET Mutators
    BY DEF TypeOK
  <2>4. lock' \in Mutators \cup {NoOwner} /\ mutator_cond' \in SUBSET Mutators
    BY DEF TypeOK
  <2>. QED  BY <1>7, <2>1, <2>2, <2>3, <2>4 DEF TypeOK, CountsInNat
<1>. QED  BY <1>1, <1>2, <1>3, <1>4, <1>5, <1>6, <1>7, <1>8

\* MutatorsStopped preserves the invariant.
LEMMA MutatorsStoppedStep ==
  ASSUME IInv, NEW m \in Mutators, MutatorsStopped(m)
  PROVE  IInv'
<1>. USE DEF IInv, MutatorsStopped, Goto, StartGC, all_mutators_stopped,
  heap_vars, cycle_vars, cond_vars, request_vars
<1>1. LockInv'
  BY MutatorsAssumption DEF TypeOK, LockInv
<1>2. CollectorInv'
  BY DEF TypeOK, CollectorInv, Collector
<1>3. ActiveInv'
  BY DEF TypeOK, ActiveInv, Collector, Pausing
<1>4. HoldsInv'
  BY DEF TypeOK, HoldsInv
<1>5. StoppedInv'
  BY MutatorsAssumption DEF TypeOK, StoppedInv, LockInv
<1>6. RequestInv'
  BY DEF TypeOK, RequestInv
<1>7. CountsAgree' /\ CountsInNat'
  <2>1. mutators' = Members'
    BY DEF CountsAgree, TypeOK, Members
  <2>2. Recounted(Members, Members', mutator_count, mutator_count', m)
    BY DEF Recounted, TypeOK, Members
  <2>3. Recounted(PausedMutators, PausedMutators', paused_mutator_count,
                  paused_mutator_count', m)
    BY DEF Recounted, TypeOK, PausedMutators, Pausing
  <2>4. Recounted(InactiveMutators, InactiveMutators', inactive_mutator_count,
                  inactive_mutator_count', m)
    BY DEF Recounted, TypeOK, InactiveMutators, Members, ActiveInv, Pausing,
           Collector
  <2>. QED  BY <2>1, <2>2, <2>3, <2>4, Recount
<1>8. TypeOK'
  <2>1. pc' \in [Mutators -> Labels]
    BY DEF TypeOK, Labels, Collector
  <2>2. gc_kind' \in Kinds
    BY StartGCKind DEF TypeOK
  <2>3. collector_cond' \in SUBSET Mutators
    BY DEF TypeOK
  <2>4. lock' \in Mutators \cup {NoOwner} /\ mutator_cond' \in SUBSET Mutators
    BY DEF TypeOK
  <2>. QED  BY <1>7, <2>1, <2>2, <2>3, <2>4 DEF TypeOK, CountsInNat
<1>. QED  BY <1>1, <1>2, <1>3, <1>4, <1>5, <1>6, <1>7, <1>8

\* allow_mutators_to_continue preserves the invariant.
LEMMA AllowContinueStep ==
  ASSUME IInv, NEW m \in Mutators, allow_mutators_to_continue(m)
  PROVE  IInv'
<1>. USE DEF IInv, allow_mutators_to_continue, broadcast_mutator_cond, Goto,
  heap_vars, cycle_vars,
  cond_vars, request_vars
<1>1. LockInv'
  BY MutatorsAssumption DEF TypeOK, LockInv
<1>2. CollectorInv'
  BY DEF TypeOK, CollectorInv, Collector
<1>3. ActiveInv'
  BY DEF TypeOK, ActiveInv, Collector, Pausing
<1>4. HoldsInv'
  BY DEF TypeOK, HoldsInv
<1>5. StoppedInv'
  BY MutatorsAssumption DEF TypeOK, StoppedInv, LockInv
<1>6. RequestInv'
  BY DEF TypeOK, RequestInv, Kinds, NoKind, Triggering, GC_COLLECTION_ANY,
     GC_COLLECTION_COMPACTING
<1>7. CountsAgree' /\ CountsInNat'
  <2>1. mutators' = Members'
    BY DEF CountsAgree, TypeOK, Members
  <2>2. Recounted(Members, Members', mutator_count, mutator_count', m)
    BY DEF Recounted, TypeOK, Members
  <2>3. Recounted(PausedMutators, PausedMutators', paused_mutator_count,
                  paused_mutator_count', m)
    BY DEF Recounted, TypeOK, PausedMutators, Pausing
  <2>4. Recounted(InactiveMutators, InactiveMutators', inactive_mutator_count,
                  inactive_mutator_count', m)
    BY DEF Recounted, TypeOK, InactiveMutators, Members, ActiveInv, Pausing,
           Collector
  <2>. QED  BY <2>1, <2>2, <2>3, <2>4, Recount
<1>8. TypeOK'
  <2>1. pc' \in [Mutators -> Labels]
    BY DEF TypeOK, Labels, Collector
  <2>2. since' \in [Mutators -> Kinds \cup {NoKind}]
    BY DEF TypeOK
  <2>3. count' \in Nat
    BY DEF TypeOK
  <2>. QED  BY <1>7, <2>1, <2>2, <2>3 DEF TypeOK, CountsInNat
<1>. QED  BY <1>1, <1>2, <1>3, <1>4, <1>5, <1>6, <1>7, <1>8

\* Deactivate preserves the invariant.
LEMMA DeactivateStep ==
  ASSUME IInv, NEW m \in Mutators, Deactivate(m)
  PROVE  IInv'
<1>. USE DEF IInv, Deactivate, Goto, heap_vars, cycle_vars, cond_vars,
  request_vars
<1>1. LockInv'
  BY MutatorsAssumption DEF TypeOK, LockInv
<1>2. CollectorInv'
  BY DEF TypeOK, CollectorInv, Collector
<1>3. ActiveInv'
  BY DEF TypeOK, ActiveInv, Collector, Pausing
<1>4. HoldsInv'
  BY DEF TypeOK, HoldsInv
<1>5. StoppedInv'
  BY MutatorsAssumption DEF TypeOK, StoppedInv, LockInv
<1>6. RequestInv'
  BY DEF TypeOK, RequestInv
<1>7. CountsAgree' /\ CountsInNat'
  <2>1. mutators' = Members'
    BY DEF CountsAgree, TypeOK, Members
  <2>2. Recounted(Members, Members', mutator_count, mutator_count', m)
    BY DEF Recounted, TypeOK, Members
  <2>3. Recounted(PausedMutators, PausedMutators', paused_mutator_count,
                  paused_mutator_count', m)
    BY DEF Recounted, TypeOK, PausedMutators, Pausing
  <2>4. Recounted(InactiveMutators, InactiveMutators', inactive_mutator_count,
                  inactive_mutator_count', m)
    BY DEF Recounted, TypeOK, InactiveMutators, Members, ActiveInv, Pausing,
           Collector
  <2>. QED  BY <2>1, <2>2, <2>3, <2>4, Recount
<1>8. TypeOK'
  BY <1>7 DEF TypeOK, CountsInNat, Labels
<1>. QED  BY <1>1, <1>2, <1>3, <1>4, <1>5, <1>6, <1>7, <1>8

\* deactivate_mutator preserves the invariant.
LEMMA DeactivateMutatorStep ==
  ASSUME IInv, NEW m \in Mutators, deactivate_mutator(m)
  PROVE  IInv'
<1>. USE DEF IInv, deactivate_mutator, Goto, heap_vars, cycle_vars, cond_vars,
  request_vars
<1>1. LockInv'
  BY MutatorsAssumption DEF TypeOK, LockInv
<1>2. CollectorInv'
  BY DEF TypeOK, CollectorInv, Collector
<1>3. ActiveInv'
  BY DEF TypeOK, ActiveInv, Collector, Pausing
<1>4. HoldsInv'
  BY DEF TypeOK, HoldsInv
<1>5. StoppedInv'
  BY MutatorsAssumption DEF TypeOK, StoppedInv, LockInv
<1>6. RequestInv'
  BY DEF TypeOK, RequestInv
<1>7. CountsAgree' /\ CountsInNat'
  <2>1. mutators' = Members'
    BY DEF CountsAgree, TypeOK, Members
  <2>2. Recounted(Members, Members', mutator_count, mutator_count', m)
    BY DEF Recounted, TypeOK, Members
  <2>3. Recounted(PausedMutators, PausedMutators', paused_mutator_count,
                  paused_mutator_count', m)
    BY DEF Recounted, TypeOK, PausedMutators, Pausing
  <2>4. Recounted(InactiveMutators, InactiveMutators', inactive_mutator_count,
                  inactive_mutator_count', m)
    BY DEF Recounted, TypeOK, InactiveMutators, Members, ActiveInv, Pausing,
           Collector
  <2>. QED  BY <2>1, <2>2, <2>3, <2>4, Recount
<1>8. TypeOK'
  <2>1. pc' \in [Mutators -> Labels]
    BY DEF TypeOK, Labels, Collector
  <2>2. collector_cond' \in SUBSET Mutators
    BY SignalType DEF TypeOK
  <2>. QED  BY <1>7, <2>1, <2>2 DEF TypeOK, CountsInNat
<1>. QED  BY <1>1, <1>2, <1>3, <1>4, <1>5, <1>6, <1>7, <1>8

\* Reactivate preserves the invariant.
LEMMA ReactivateStep ==
  ASSUME IInv, NEW m \in Mutators, Reactivate(m)
  PROVE  IInv'
<1>. USE DEF IInv, Reactivate, Goto, heap_vars, cycle_vars, cond_vars,
  request_vars
<1>1. LockInv'
  BY MutatorsAssumption DEF TypeOK, LockInv
<1>2. CollectorInv'
  BY DEF TypeOK, CollectorInv, Collector
<1>3. ActiveInv'
  BY DEF TypeOK, ActiveInv, Collector, Pausing
<1>4. HoldsInv'
  BY DEF TypeOK, HoldsInv
<1>5. StoppedInv'
  BY MutatorsAssumption DEF TypeOK, StoppedInv, LockInv
<1>6. RequestInv'
  BY DEF TypeOK, RequestInv
<1>7. CountsAgree' /\ CountsInNat'
  <2>1. mutators' = Members'
    BY DEF CountsAgree, TypeOK, Members
  <2>2. Recounted(Members, Members', mutator_count, mutator_count', m)
    BY DEF Recounted, TypeOK, Members
  <2>3. Recounted(PausedMutators, PausedMutators', paused_mutator_count,
                  paused_mutator_count', m)
    BY DEF Recounted, TypeOK, PausedMutators, Pausing
  <2>4. Recounted(InactiveMutators, InactiveMutators', inactive_mutator_count,
                  inactive_mutator_count', m)
    BY DEF Recounted, TypeOK, InactiveMutators, Members, ActiveInv, Pausing,
           Collector
  <2>. QED  BY <2>1, <2>2, <2>3, <2>4, Recount
<1>8. TypeOK'
  BY <1>7 DEF TypeOK, CountsInNat, Labels
<1>. QED  BY <1>1, <1>2, <1>3, <1>4, <1>5, <1>6, <1>7, <1>8

\* reactivate_mutator preserves the invariant.
LEMMA ReactivateMutatorStep ==
  ASSUME IInv, NEW m \in Mutators, reactivate_mutator(m)
  PROVE  IInv'
<1>. USE DEF IInv, reactivate_mutator, Goto, mutators_are_stopping, heap_vars,
  cycle_vars, cond_vars, request_vars
<1>1. LockInv'
  BY MutatorsAssumption DEF TypeOK, LockInv
<1>2. CollectorInv'
  BY DEF TypeOK, CollectorInv, Collector
<1>3. ActiveInv'
  BY DEF TypeOK, ActiveInv, Collector, Pausing
<1>4. HoldsInv'
  BY DEF TypeOK, HoldsInv
<1>5. StoppedInv'
  BY MutatorsAssumption DEF TypeOK, StoppedInv, LockInv
<1>6. RequestInv'
  BY DEF TypeOK, RequestInv
<1>7. CountsAgree' /\ CountsInNat'
  <2>1. mutators' = Members'
    BY DEF CountsAgree, TypeOK, Members
  <2>2. Recounted(Members, Members', mutator_count, mutator_count', m)
    BY DEF Recounted, TypeOK, Members
  <2>3. Recounted(PausedMutators, PausedMutators', paused_mutator_count,
                  paused_mutator_count', m)
    BY DEF Recounted, TypeOK, PausedMutators, Pausing
  <2>4. Recounted(InactiveMutators, InactiveMutators', inactive_mutator_count,
                  inactive_mutator_count', m)
    BY DEF Recounted, TypeOK, InactiveMutators, Members, ActiveInv, Pausing,
           Collector
  <2>. QED  BY <2>1, <2>2, <2>3, <2>4, Recount
<1>8. TypeOK'
  <2>1. pc' \in [Mutators -> Labels]
    BY DEF TypeOK, Labels, Collector
  <2>. QED  BY <1>7, <2>1 DEF TypeOK, CountsInNat
<1>. QED  BY <1>1, <1>2, <1>3, <1>4, <1>5, <1>6, <1>7, <1>8

\* SpuriousWakeup preserves the invariant.
LEMMA SpuriousWakeupStep ==
  ASSUME IInv, NEW m \in Mutators, SpuriousWakeup(m)
  PROVE  IInv'
<1>. USE DEF IInv, SpuriousWakeup, Goto, heap_vars, cycle_vars, cond_vars,
  request_vars
<1>1. LockInv'
  BY MutatorsAssumption DEF TypeOK, LockInv
<1>2. CollectorInv'
  BY DEF TypeOK, CollectorInv, Collector
<1>3. ActiveInv'
  BY DEF TypeOK, ActiveInv, Collector, Pausing
<1>4. HoldsInv'
  BY DEF TypeOK, HoldsInv
<1>5. StoppedInv'
  BY MutatorsAssumption DEF TypeOK, StoppedInv, LockInv
<1>6. RequestInv'
  BY DEF TypeOK, RequestInv
<1>7. CountsAgree' /\ CountsInNat'
  <2>1. mutators' = Members'
    BY DEF CountsAgree, TypeOK, Members
  <2>2. Recounted(Members, Members', mutator_count, mutator_count', m)
    BY DEF Recounted, TypeOK, Members
  <2>3. Recounted(PausedMutators, PausedMutators', paused_mutator_count,
                  paused_mutator_count', m)
    BY DEF Recounted, TypeOK, PausedMutators, Pausing
  <2>4. Recounted(InactiveMutators, InactiveMutators', inactive_mutator_count,
                  inactive_mutator_count', m)
    BY DEF Recounted, TypeOK, InactiveMutators, Members, ActiveInv, Pausing,
           Collector
  <2>. QED  BY <2>1, <2>2, <2>3, <2>4, Recount
<1>8. TypeOK'
  BY <1>7 DEF TypeOK, CountsInNat, Labels
<1>. QED  BY <1>1, <1>2, <1>3, <1>4, <1>5, <1>6, <1>7, <1>8

--------------------------------------------------------------------------------
\* Every step preserves the invariant.
LEMMA NextIInv == IInv /\ [Next]_vars => IInv'
<1>. SUFFICES ASSUME IInv, [Next]_vars PROVE IInv'
  OBVIOUS
<1>1. CASE UNCHANGED vars
  BY <1>1 DEF IInv, vars, heap_vars, cycle_vars, cond_vars, request_vars,
    TypeOK,
     LockInv, CollectorInv, ActiveInv, HoldsInv, CountsAgree, Members,
     PausedMutators, InactiveMutators, StoppedInv, RequestInv
<1>2. CASE Next
  <2>1. PICK m \in Mutators : Step(m)
    BY <1>2 DEF Next
  <2>2. CASE InitForThread(m)
    BY <2>2, InitForThreadStep
  <2>3. CASE add_mutator(m)
    BY <2>3, AddMutatorStep
  <2>4. CASE FinishForThread(m)
    BY <2>4, FinishForThreadStep
  <2>5. CASE remove_mutator(m)
    BY <2>5, RemoveMutatorStep
  <2>6. CASE Acquire(m)
    BY <2>6, AcquireStep
  <2>7. CASE gc_safepoint(m)
    BY <2>7, SafepointStep
  <2>8. CASE gc_safepoint_slow(m)
    BY <2>8, SafepointSlowStep
  <2>9. CASE ResumeSafepoint(m)
    BY <2>9, ResumeSafepointStep
  <2>10. CASE \E k \in RequestKinds : TriggerCollection(m, k)
    BY <2>10, TriggerStep
  <2>11. CASE trigger_collection(m)
    BY <2>11, TriggerLockedStep
  <2>12. CASE ResumeTrigger(m)
    BY <2>12, ResumeTriggerStep
  <2>13. CASE wait_for_mutators_to_stop(m)
    BY <2>13, WaitForStopStep
  <2>14. CASE MutatorsStopped(m)
    BY <2>14, MutatorsStoppedStep
  <2>15. CASE allow_mutators_to_continue(m)
    BY <2>15, AllowContinueStep
  <2>16. CASE Deactivate(m)
    BY <2>16, DeactivateStep
  <2>17. CASE deactivate_mutator(m)
    BY <2>17, DeactivateMutatorStep
  <2>18. CASE Reactivate(m)
    BY <2>18, ReactivateStep
  <2>19. CASE reactivate_mutator(m)
    BY <2>19, ReactivateMutatorStep
  <2>20. CASE SpuriousWakeup(m)
    BY <2>20, SpuriousWakeupStep
  <2>. QED
    BY <2>1, <2>2, <2>3, <2>4, <2>5, <2>6, <2>7, <2>8, <2>9, <2>10, <2>11,
      <2>12, <2>13, <2>14, <2>15, <2>16, <2>17, <2>18, <2>19, <2>20 DEF Step
<1>. QED  BY <1>1, <1>2

\* At the moment of a collection the paused and the inactive mutators are all the
\* mutators there are: the two disjoint sets count up to the members.
LEMMA StoppedMembers ==
  ASSUME IInv, mutator_count = paused_mutator_count + inactive_mutator_count
  PROVE  Members \subseteq PausedMutators \cup InactiveMutators
<1>1. /\ Members \in SUBSET Mutators
      /\ PausedMutators \in SUBSET Members
      /\ InactiveMutators \in SUBSET Members
      /\ PausedMutators \cap InactiveMutators = {}
  BY DEF IInv, TypeOK, ActiveInv, Members, PausedMutators, InactiveMutators,
         Pausing, Collector
<1>2. IsFiniteSet(Members) /\ IsFiniteSet(PausedMutators)
      /\ IsFiniteSet(InactiveMutators)
  BY <1>1, CountedSets
<1>3. Cardinality(PausedMutators \cup InactiveMutators)
        = Cardinality(PausedMutators) + Cardinality(InactiveMutators)
  <2>1. Cardinality(PausedMutators) \in Nat /\ Cardinality(InactiveMutators)
    \in Nat
    BY <1>2, FS_CardinalityType
  <2>2. Cardinality(PausedMutators \cup InactiveMutators)
          = Cardinality(PausedMutators) + Cardinality(InactiveMutators)
            - Cardinality(PausedMutators \cap InactiveMutators)
    BY <1>2, FS_Union
  <2>3. Cardinality(PausedMutators \cap InactiveMutators) = 0
    BY <1>1, FS_EmptySet
  <2>. QED  BY <2>1, <2>2, <2>3
<1>4. Cardinality(PausedMutators \cup InactiveMutators) = Cardinality(Members)
  BY <1>3 DEF IInv, CountsAgree
<1>. QED  BY <1>1, <1>2, <1>4, FS_Subset

\* A thread on its way to pause is neither paused nor inactive, so the stop is
\* not complete yet.
LEMMA NotStoppedYet ==
  ASSUME IInv, NEW m \in Mutators, pc[m] \in {"slow", "trigger"}
  PROVE  mutator_count # paused_mutator_count + inactive_mutator_count
<1>1. m \in Members /\ m \notin PausedMutators /\ m \notin InactiveMutators
  BY DEF IInv, TypeOK, ActiveInv, Members, PausedMutators, InactiveMutators,
         Pausing
<1>. QED  BY <1>1, StoppedMembers

\* What the invariant says about a collection under way.
LEMMA IInvConsequences ==
  IInv => WorldIsStopped /\ AllocatorsFlushed /\ StopAssertions
<1>. SUFFICES ASSUME IInv PROVE WorldIsStopped /\ AllocatorsFlushed /\
  StopAssertions
  OBVIOUS
<1>1. ASSUME NEW c \in Mutators, pc[c] = "gc"
      PROVE  Members \subseteq PausedMutators \cup InactiveMutators
  BY <1>1, StoppedMembers DEF IInv, StoppedInv
<1>2. WorldIsStopped
  <2>. SUFFICES ASSUME NEW c \in Mutators, NEW m \in Mutators, pc[c] = "gc", m
    # c
                PROVE  \/ pc[m] \in {"none", "add", "addwait", "idle", "react",
                                     "reactwait"} \cup Pausing
                       \/ pc[m] = "remove" /\ ~active[m]
    BY DEF WorldIsStopped
  <2>1. CASE m \notin Members
    BY <2>1 DEF Members
  <2>2. CASE m \in PausedMutators
    BY <2>2 DEF PausedMutators, IInv, CollectorInv, Collector
  <2>3. CASE m \in InactiveMutators
    <3>1. ~active[m] /\ pc[m] \in Labels
      BY <2>3 DEF InactiveMutators, Members, IInv, TypeOK
    <3>. QED  BY <3>1 DEF IInv, ActiveInv, Labels
  <2>. QED  BY <1>1, <2>1, <2>2, <2>3
<1>3. AllocatorsFlushed
  <2>. SUFFICES ASSUME NEW c \in Mutators, NEW m \in Mutators, pc[c] = "gc",
    holds[m]
                PROVE  FALSE
    BY DEF AllocatorsFlushed
  <2>1. pc[m] = "run" /\ m # c
    BY DEF IInv, HoldsInv
  <2>. QED  BY <1>2, <2>1 DEF WorldIsStopped, Pausing
<1>4. StopAssertions
  <2>1. \A m \in Mutators :
          pc[m] \in {"slow", "trigger"} /\ mutators_are_stopping =>
            ~all_mutators_stopped(mutator_count, paused_mutator_count,
                                  inactive_mutator_count)
    BY NotStoppedYet DEF all_mutators_stopped
  <2>2. (\E m \in Mutators : pc[m] = "gc") =>
          mutators_are_stopping /\
            all_mutators_stopped(mutator_count, paused_mutator_count,
                                 inactive_mutator_count)
    BY DEF IInv, CollectorInv, StoppedInv, Collector, mutators_are_stopping,
           all_mutators_stopped
  <2>. QED  BY <2>1, <2>2 DEF StopAssertions
<1>. QED  BY <1>2, <1>3, <1>4

\* The invariant is invariant.
LEMMA InvariantHolds == Spec => []IInv
BY InitIInv, NextIInv, PTL DEF Spec

\* Every variable keeps its type, whatever the number of mutators.
THEOREM TypeCorrect == Spec => []TypeOK
<1>1. IInv => TypeOK
  BY DEF IInv
<1>. QED  BY <1>1, InvariantHolds, PTL

\* wait_for_mutators_to_stop and pause_mutator_for_collection together exclude
\* every mutator from the heap for the whole of a collection.
THEOREM StopTheWorldCorrect == Spec => []WorldIsStopped
BY InvariantHolds, IInvConsequences, PTL

\* No allocator block and no log buffer is outstanding when the collector runs.
THEOREM FlushCorrect == Spec => []AllocatorsFlushed
BY InvariantHolds, IInvConsequences, PTL

\* The counters of the heap agree with the threads.
THEOREM CountsCorrect == Spec => []CountsAgree
<1>1. IInv => CountsAgree
  BY DEF IInv
<1>. QED  BY <1>1, InvariantHolds, PTL

\* The assertions of the stop protocol never fail.
THEOREM AssertionsCorrect == Spec => []StopAssertions
BY InvariantHolds, IInvConsequences, PTL

\* trigger_collection returns only after a collection completed.
THEOREM CollectedSinceRequestCorrect == Spec => CollectedSinceRequest
<1>1. IInv /\ [Next]_vars =>
        [\A m \in Mutators : Returns(m) => since'[m] # NoKind]_vars
  <2>. SUFFICES ASSUME IInv, NEW a \in Mutators, Step(a), NEW m \in Mutators,
                       Returns(m)
                PROVE  since'[m] # NoKind
    BY DEF Next
  <2>0. pc[m] # pc'[m] /\ pc[m] \in {"trigger", "ptrig", "gc"} /\ pc'[m] = "run"
    BY DEF Returns
  <2>1. CASE trigger_collection(a)
    BY <2>0, <2>1, RequestKindsInKinds
       DEF trigger_collection, CollectOrReturn, pause_mutator_for_collection,
         Goto,
           IInv, TypeOK, RequestInv, NoKind, Kinds, GC_COLLECTION_ANY,
           GC_COLLECTION_COMPACTING
  <2>2. CASE ResumeTrigger(a)
    BY <2>0, <2>2 DEF ResumeTrigger, CollectOrReturn, Goto, IInv, TypeOK,
       RequestInv, mutators_are_stopping, request_vars
  <2>3. CASE allow_mutators_to_continue(a)
    BY <2>0, <2>3 DEF allow_mutators_to_continue, Goto, IInv, TypeOK, NoKind,
       Kinds, Triggering, Collector, GC_COLLECTION_ANY, GC_COLLECTION_COMPACTING
  <2>4. CASE wait_for_mutators_to_stop(a) \/ MutatorsStopped(a)
    BY <2>0, <2>4 DEF wait_for_mutators_to_stop, MutatorsStopped, StartGC, Goto,
       IInv, TypeOK
  <2>5. CASE \/ InitForThread(a) \/ add_mutator(a)
             \/ FinishForThread(a) \/ remove_mutator(a)
             \/ Acquire(a) \/ gc_safepoint(a) \/ gc_safepoint_slow(a)
             \/ ResumeSafepoint(a)
             \/ \E k \in RequestKinds : TriggerCollection(a, k)
             \/ Deactivate(a) \/ deactivate_mutator(a)
             \/ Reactivate(a) \/ reactivate_mutator(a)
             \/ SpuriousWakeup(a)
    BY <2>0, <2>5 DEF InitForThread, add_mutator, FinishForThread,
      remove_mutator,
       Acquire, gc_safepoint, gc_safepoint_slow, pause_mutator_for_collection,
       ResumeSafepoint, TriggerCollection, Deactivate, deactivate_mutator,
       Reactivate, reactivate_mutator, SpuriousWakeup, Goto, IInv, TypeOK
  <2>. QED  BY <2>1, <2>2, <2>3, <2>4, <2>5 DEF Step
<1>. QED  BY <1>1, InvariantHolds, PTL DEF Spec, CollectedSinceRequest
================================================================================
