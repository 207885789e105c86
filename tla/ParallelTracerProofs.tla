------------------------ MODULE ParallelTracerProofs ------------------------
(***************************************************************************)
(* The parallel tracer proved for any number of workers, any heap graph    *)
(* and any roots: a trace that returns is complete, and no helper is at    *)
(* work outside of a trace.                                                *)
(***************************************************************************)
EXTENDS ParallelTracer, FiniteSetTheorems, SequenceTheorems, TLAPS

\* Where worker 0 is when it owns the lock of helper h.
MainOwns(h) ==
  \/ pc[0] \in {"out", "scan", "leave", "reset"}
  \/ pc[0] = "unlock" /\ h >= locked
  \/ pc[0] \in {"trylock", "unlockback", "lockall"} /\ h < locked

\* Who owns which lock: a helper its own while it is awake, worker 0 all of them
\* outside its share of the work.
LockInv ==
  /\ \A h \in Helpers : /\ lock[h] \in {Free, 0, h}
                        /\ lock[h] = h <=> pc[h] \in HelperHolds
                        /\ lock[h] = 0 <=> MainOwns(h)
  /\ pc[0] = "scan" => locked = WorkerCount

\* active_tracers counts the workers inside trace_with_data.
Active == {w \in Workers : pc[w] \in AtWork \cup TerminationCheck}
ActiveInv == active_tracers = Cardinality(Active)

\* A worker has an object in hand, or edges to visit, only where it says so, and
\* the edges come from a root or from a marked object.
WorkInv ==
  \A w \in Workers :
    /\ pc[w] \notin {"visitroot", "visitobj"} => todo[w] = {}
    /\ pc[w] # "visitobj" => hand[w] = NoObject
    /\ pc[w] = "visitobj" =>
         hand[w] \in marked /\ todo[w] \subseteq Edges[hand[w]]
    /\ pc[w] = "visitroot" => todo[w] \subseteq rooted

\* An object is in one place.
OnceInv == TracedOnce /\ \A w \in Workers : deque[w] \subseteq marked

\* No root's object is forgotten: it is marked, about to be, or not handed out.
RootInv ==
  /\ \A o \in rooted :
       \/ o \in marked
       \/ \E w \in Workers : o \in todo[w]
       \/ \E i \in 1 .. Len(roots) : i > read /\ o \in roots[i]
  /\ \A i \in 1 .. Len(roots) : roots[i] \subseteq rooted
  /\ pc[0] = "out" => roots = <<>> /\ read = 0
  /\ pc[0] \in TerminationCheck \cup {"objs", "steal", "visitobj", "leave", "reset"}
       => read >= Len(roots)

\* No marked object is forgotten: it waits in a deque, is in hand, or is done.
MarkInv ==
  \A o \in marked :
    \/ Edges[o] \subseteq marked
    \/ \E w \in Workers : o \in deque[w]
    \/ \E w \in Workers : hand[w] = o /\ Edges[o] \ todo[w] \subseteq marked

\* A roots-only trace does not go on to objects, and worker 0 takes the locks by
\* one protocol or the other.
ModeInv ==
  /\ trace_roots_only =>
       /\ \A w \in Workers : pc[w] \notin {"objs", "steal", "visitobj"}
       /\ pc[0] \notin {"out", "count", "trylock", "scan", "unlockback"}
  /\ pc[0] = "lockall" => trace_roots_only

\* What worker 0 has looked into with all the locks held stays empty.
DoneInv ==
  /\ pc[0] = "scan" => \A v \in Workers \ unseen[0] : deque[v] = {}
  /\ pc[0] \in {"leave", "reset"} /\ ~trace_roots_only =>
       \A v \in Workers : deque[v] = {}

IInv == /\ TypeOK /\ LockInv /\ ActiveInv /\ WorkInv /\ OnceInv /\ RootInv
        /\ MarkInv /\ ModeInv /\ DoneInv

--------------------------------------------------------------------------------
\* Worker 0 is not a helper, and a worker is one or the other.
LEMMA WorkerFacts ==
  /\ 0 \in Workers /\ 0 \notin Helpers /\ Helpers \subseteq Workers
  /\ \A w \in Workers : w = 0 \/ w \in Helpers
  /\ \A h \in Helpers : h # 0 /\ h # Free
  /\ Free # 0
  /\ IsFiniteSet(Workers)
<1>1. IsFiniteSet(0 .. WorkerCount - 1)
  BY FS_Interval, TracerAssumption
<1>. QED  BY <1>1, TracerAssumption DEF Workers, Helpers, Free

\* A helper's index, for the loops over the locks.
LEMMA HelperRange ==
  /\ WorkerCount \in Int /\ WorkerCount >= 1
  /\ \A h \in Helpers : h \in Int /\ 1 <= h /\ h < WorkerCount
  /\ \A i \in Int : 1 <= i /\ i < WorkerCount => i \in Helpers
BY TracerAssumption DEF Helpers

\* A worker that goes to a label of its own keeps pc well typed.
LEMMA PcTyped ==
  ASSUME TypeOK, NEW w \in Workers, NEW l, pc' = [pc EXCEPT ![w] = l],
         w = 0 => l \in MainLabels, w # 0 => l \in HelperLabels
  PROVE  /\ pc' \in [Workers -> MainLabels \cup HelperLabels]
         /\ pc'[0] \in MainLabels
         /\ \A k \in Helpers : pc'[k] \in HelperLabels
BY WorkerFacts DEF TypeOK

\* While worker 0 owns all the locks, no helper is inside trace_with_data.
LEMMA OthersIdle ==
  ASSUME TypeOK, LockInv, pc[0] \in {"out", "scan", "leave", "reset"},
         NEW h \in Helpers
  PROVE  pc[h] \in {"blocked", "wait"}
BY WorkerFacts DEF TypeOK, LockInv, MainOwns, HelperLabels

\* active_tracers after one worker entered or left.
Recounted(S, T, n, k, w) ==
  \/ T = S /\ k = n
  \/ T = S \cup {w} /\ w \notin S /\ k = n + 1
  \/ T = S \ {w} /\ w \in S /\ k = n - 1

\* The counter stays right when it is recounted.
LEMMA RecountActive ==
  ASSUME ActiveInv, NEW w \in Workers,
         Recounted(Active, Active', active_tracers, active_tracers', w)
  PROVE  ActiveInv' /\ active_tracers' \in Nat
<1>1. Active \in SUBSET Workers
  BY DEF Active
<1>2. IsFiniteSet(Active) /\ Cardinality(Active) \in Nat
  BY <1>1, WorkerFacts, FS_Subset, FS_CardinalityType
<1>3. CASE Active' = Active /\ active_tracers' = active_tracers
  BY <1>2, <1>3 DEF ActiveInv
<1>4. CASE Active' = Active \cup {w} /\ w \notin Active
           /\ active_tracers' = active_tracers + 1
  BY <1>2, <1>4, FS_AddElement DEF ActiveInv
<1>5. CASE Active' = Active \ {w} /\ w \in Active
           /\ active_tracers' = active_tracers - 1
  <2>1. Cardinality(Active \ {w}) = Cardinality(Active) - 1
    BY <1>2, <1>5, FS_RemoveElement
  <2>2. IsFiniteSet(Active \ {w})
    BY <1>2, FS_RemoveElement
  <2>3. Cardinality(Active \ {w}) \in Nat
    BY <2>2, FS_CardinalityType
  <2>. QED  BY <1>5, <2>1, <2>3 DEF ActiveInv
<1>. QED  BY <1>3, <1>4, <1>5 DEF Recounted

\* The invariant holds before the first collection.
LEMMA InitIInv == Init => IInv
<1>. SUFFICES ASSUME Init PROVE IInv
  OBVIOUS
<1>1. TypeOK
  <2>1. roots \in Seq(SUBSET Objects)
    BY DEF Init
  <2>2. pc \in [Workers -> MainLabels \cup HelperLabels]
        /\ pc[0] \in MainLabels /\ \A h \in Helpers : pc[h] \in HelperLabels
    BY WorkerFacts DEF Init, MainLabels, HelperLabels
  <2>3. locked \in 1 .. WorkerCount
    BY TracerAssumption DEF Init
  <2>. QED  BY <2>1, <2>2, <2>3, WorkerFacts DEF Init, TypeOK
<1>2. LockInv
  BY WorkerFacts DEF Init, LockInv, MainOwns, HelperHolds, AtWork
<1>3. ActiveInv
  <2>1. Active = {}
    BY WorkerFacts DEF Init, Active, AtWork, TerminationCheck
  <2>. QED  BY <2>1, FS_EmptySet DEF Init, ActiveInv
<1>4. WorkInv /\ MarkInv /\ ModeInv /\ DoneInv
  BY WorkerFacts DEF Init, WorkInv, MarkInv, ModeInv, DoneInv
<1>5. OnceInv
  BY DEF Init, OnceInv, TracedOnce
<1>6. RootInv
  BY WorkerFacts DEF Init, RootInv, TerminationCheck
<1>. QED  BY <1>1, <1>2, <1>3, <1>4, <1>5, <1>6 DEF IInv

--------------------------------------------------------------------------------

\* Taking an object out of a deque, by the owner or by a thief, forgets nothing.
LEMMA TakeObjectStep ==
  ASSUME IInv, NEW w \in Workers, NEW v \in Workers, TakeObject(w, v),
         pc[w] \in {"objs", "steal"}, UNCHANGED <<marked, rooted, roots, read>>
  PROVE  /\ WorkInv' /\ OnceInv' /\ RootInv' /\ MarkInv'
         /\ deque' \in [Workers -> SUBSET Objects]
         /\ hand' \in [Workers -> Objects \cup {NoObject}]
         /\ todo' \in [Workers -> SUBSET Objects]
<1>. USE WorkerFacts DEF IInv
<1>1. PICK o \in deque[v] : /\ deque' = [deque EXCEPT ![v] = @ \ {o}]
                            /\ hand' = [hand EXCEPT ![w] = o]
                            /\ todo' = [todo EXCEPT ![w] = Edges[o]]
                            /\ pc' = [pc EXCEPT ![w] = "visitobj"]
  BY DEF TakeObject, Goto
<1>2. o \in Objects /\ o \in marked /\ Edges[o] \in SUBSET Objects
  BY TracerAssumption DEF TypeOK, OnceInv
<1>3. hand[w] = NoObject /\ todo[w] = {} /\ NoObject \notin Objects
  BY TracerAssumption DEF WorkInv
<1>4. \A x \in Workers : /\ hand'[x] = IF x = w THEN o ELSE hand[x]
                         /\ todo'[x] = IF x = w THEN Edges[o] ELSE todo[x]
                         /\ pc'[x] = IF x = w THEN "visitobj" ELSE pc[x]
                         /\ deque'[x] = IF x = v THEN deque[x] \ {o} ELSE deque[x]
  BY <1>1 DEF TypeOK
<1>5. WorkInv'
  <2>. SUFFICES
         ASSUME NEW x \in Workers
         PROVE  /\ pc'[x] \notin {"visitroot", "visitobj"} => todo'[x] = {}
                /\ pc'[x] # "visitobj" => hand'[x] = NoObject
                /\ pc'[x] = "visitobj" =>
                     hand'[x] \in marked /\ todo'[x] \subseteq Edges[hand'[x]]
                /\ pc'[x] = "visitroot" => todo'[x] \subseteq rooted
    BY DEF WorkInv
  <2>1. CASE x = w
    BY <1>2, <1>4, <2>1
  <2>2. CASE x # w
    BY <1>4, <2>2 DEF WorkInv
  <2>. QED  BY <2>1, <2>2
<1>6. OnceInv'
  <2>1. \A x \in Workers : deque'[x] \subseteq deque[x] /\ o \notin deque'[x]
    <3>1. \A x \in Workers : x # v => o \notin deque[x]
      BY DEF OnceInv, TracedOnce
    <3>. QED  BY <1>4, <3>1
  <2>2. \A x \in Workers : hand[x] # o
    BY DEF OnceInv, TracedOnce
  <2>3. \A x, y \in Workers : x # y => deque'[x] \cap deque'[y] = {}
    BY <2>1 DEF OnceInv, TracedOnce
  <2>4. ASSUME NEW x \in Workers, NEW y \in Workers, x # y, hand'[x] = hand'[y]
        PROVE  hand'[x] = NoObject
    <3>1. CASE x = w
      BY <1>4, <2>2, <2>4, <3>1
    <3>2. CASE y = w
      BY <1>4, <2>2, <2>4, <3>2
    <3>3. CASE x # w /\ y # w
      <4>1. hand'[x] = hand[x] /\ hand'[y] = hand[y]
        BY <1>4, <3>3
      <4>2. hand[x] = hand[y] => hand[x] = NoObject
        BY <2>4 DEF OnceInv, TracedOnce
      <4>. QED  BY <2>4, <4>1, <4>2
    <3>. QED  BY <3>1, <3>2, <3>3
  <2>5. ASSUME NEW x \in Workers, NEW y \in Workers
        PROVE  hand'[y] \notin deque'[x]
    <3>1. CASE y = w
      BY <1>4, <2>1, <3>1
    <3>2. CASE y # w
      <4>1. hand'[y] = hand[y] /\ hand[y] \notin deque[x]
        BY <1>4, <3>2 DEF OnceInv, TracedOnce
      <4>. QED  BY <2>1, <4>1
    <3>. QED  BY <3>1, <3>2
  <2>6. \A x \in Workers : deque'[x] \subseteq marked
    BY <2>1 DEF OnceInv
  <2>. QED  BY <2>3, <2>4, <2>5, <2>6 DEF OnceInv, TracedOnce
<1>7. RootInv'
  BY <1>3, <1>4 DEF RootInv, TerminationCheck
<1>8. MarkInv'
  <2>. SUFFICES ASSUME NEW p \in marked
                PROVE  \/ Edges[p] \subseteq marked
                       \/ \E x \in Workers : p \in deque'[x]
                       \/ \E x \in Workers :
                            hand'[x] = p /\ Edges[p] \ todo'[x] \subseteq marked
    BY DEF MarkInv
  <2>1. CASE p = o
    BY <1>4, <2>1
  <2>2. CASE p # o /\ \E x \in Workers : p \in deque[x]
    BY <1>4, <2>2
  <2>3. CASE \E x \in Workers : hand[x] = p /\ Edges[p] \ todo[x] \subseteq marked
    BY <1>3, <1>4, <2>3 DEF TypeOK
  <2>. QED  BY <2>1, <2>2, <2>3 DEF MarkInv
<1>9. /\ deque' \in [Workers -> SUBSET Objects]
      /\ hand' \in [Workers -> Objects \cup {NoObject}]
      /\ todo' \in [Workers -> SUBSET Objects]
  BY <1>1, <1>2 DEF TypeOK
<1>. QED  BY <1>5, <1>6, <1>7, <1>8, <1>9

\* TakeOwnLock preserves the invariant.
LEMMA TakeOwnLockStep ==
  ASSUME IInv, NEW h \in Helpers, TakeOwnLock(h)
  PROVE  IInv'
<1>. USE WorkerFacts DEF IInv, TakeOwnLock, Goto, sched_vars, root_vars,
  work_vars
<1>1. LockInv'
  BY TracerAssumption DEF TypeOK, LockInv, MainOwns, HelperHolds, AtWork
<1>2. ActiveInv' /\ active_tracers' \in Nat
  <2>1. Recounted(Active, Active', active_tracers, active_tracers', h)
    BY DEF Recounted, TypeOK, Active, AtWork, TerminationCheck
  <2>. QED  BY <2>1, RecountActive
<1>3. WorkInv'
  BY DEF TypeOK, WorkInv
<1>4. OnceInv'
  BY DEF OnceInv, TracedOnce
<1>5. RootInv'
  BY DEF TypeOK, RootInv, TerminationCheck
<1>6. MarkInv'
  BY DEF MarkInv
<1>7. ModeInv'
  BY DEF TypeOK, ModeInv
<1>8. DoneInv'
  BY DEF TypeOK, DoneInv, ModeInv
<1>9. TypeOK'
  BY <1>2 DEF TypeOK, HelperLabels, HelperHolds, MainLabels, AtWork,
    TerminationCheck
<1>. QED  BY <1>1, <1>2, <1>3, <1>4, <1>5, <1>6, <1>7, <1>8, <1>9

\* CheckEpoch preserves the invariant.
LEMMA CheckEpochStep ==
  ASSUME IInv, NEW h \in Helpers, CheckEpoch(h)
  PROVE  IInv'
<1>. USE WorkerFacts DEF IInv, CheckEpoch, Goto, sched_vars, root_vars,
  work_vars
<1>1. LockInv'
  BY TracerAssumption DEF TypeOK, LockInv, MainOwns, HelperHolds, AtWork
<1>2. ActiveInv' /\ active_tracers' \in Nat
  <2>1. Recounted(Active, Active', active_tracers, active_tracers', h)
    BY DEF Recounted, TypeOK, Active, AtWork, TerminationCheck
  <2>. QED  BY <2>1, RecountActive
<1>3. WorkInv'
  BY DEF TypeOK, WorkInv
<1>4. OnceInv'
  BY DEF OnceInv, TracedOnce
<1>5. RootInv'
  BY DEF TypeOK, RootInv, TerminationCheck
<1>6. MarkInv'
  BY DEF MarkInv
<1>7. ModeInv'
  BY DEF TypeOK, ModeInv
<1>8. DoneInv'
  BY DEF TypeOK, DoneInv, ModeInv
<1>9. TypeOK'
  <2>1. /\ pc' \in [Workers -> MainLabels \cup HelperLabels]
        /\ pc'[0] \in MainLabels
        /\ \A k \in Helpers : pc'[k] \in HelperLabels
    BY DEF TypeOK, HelperLabels, HelperHolds, MainLabels, AtWork,
      TerminationCheck
  <2>2. /\ lock' \in [Helpers -> {Free} \cup Workers]
        /\ locked' \in 1 .. WorkerCount
        /\ trace_epoch' \in [Helpers -> Nat] /\ epoch' \in Nat
    BY DEF TypeOK
  <2>3. /\ deque' \in [Workers -> SUBSET Objects]
        /\ hand' \in [Workers -> Objects \cup {NoObject}]
        /\ todo' \in [Workers -> SUBSET Objects]
        /\ marked' \in SUBSET Objects
        /\ unseen' \in [Workers -> SUBSET Workers]
    BY TracerAssumption DEF TypeOK
  <2>4. /\ roots' \in Seq(SUBSET Objects) /\ read' \in Nat
        /\ trace_roots_only' \in BOOLEAN /\ rooted' \in SUBSET Objects
        /\ batch' \in Nat
    BY TracerAssumption DEF TypeOK
  <2>. QED  BY <1>2, <2>1, <2>2, <2>3, <2>4 DEF TypeOK
<1>. QED  BY <1>1, <1>2, <1>3, <1>4, <1>5, <1>6, <1>7, <1>8, <1>9

\* Park preserves the invariant.
LEMMA ParkStep ==
  ASSUME IInv, NEW h \in Helpers, Park(h)
  PROVE  IInv'
<1>. USE WorkerFacts DEF IInv, Park, Goto, sched_vars, root_vars, work_vars
<1>1. LockInv'
  BY TracerAssumption DEF TypeOK, LockInv, MainOwns, HelperHolds, AtWork
<1>2. ActiveInv' /\ active_tracers' \in Nat
  <2>1. Recounted(Active, Active', active_tracers, active_tracers', h)
    BY DEF Recounted, TypeOK, Active, AtWork, TerminationCheck
  <2>. QED  BY <2>1, RecountActive
<1>3. WorkInv'
  BY DEF TypeOK, WorkInv
<1>4. OnceInv'
  BY DEF OnceInv, TracedOnce
<1>5. RootInv'
  BY DEF TypeOK, RootInv, TerminationCheck
<1>6. MarkInv'
  BY DEF MarkInv
<1>7. ModeInv'
  BY DEF TypeOK, ModeInv
<1>8. DoneInv'
  BY DEF TypeOK, DoneInv, ModeInv
<1>9. TypeOK'
  BY <1>2 DEF TypeOK, HelperLabels, HelperHolds, MainLabels, AtWork,
    TerminationCheck
<1>. QED  BY <1>1, <1>2, <1>3, <1>4, <1>5, <1>6, <1>7, <1>8, <1>9

\* SpuriousWakeup preserves the invariant.
LEMMA SpuriousWakeupStep ==
  ASSUME IInv, NEW h \in Helpers, SpuriousWakeup(h)
  PROVE  IInv'
<1>. USE WorkerFacts DEF IInv, SpuriousWakeup, Goto, sched_vars, root_vars,
  work_vars
<1>1. LockInv'
  BY TracerAssumption DEF TypeOK, LockInv, MainOwns, HelperHolds, AtWork
<1>2. ActiveInv' /\ active_tracers' \in Nat
  <2>1. Recounted(Active, Active', active_tracers, active_tracers', h)
    BY DEF Recounted, TypeOK, Active, AtWork, TerminationCheck
  <2>. QED  BY <2>1, RecountActive
<1>3. WorkInv'
  BY DEF TypeOK, WorkInv
<1>4. OnceInv'
  BY DEF OnceInv, TracedOnce
<1>5. RootInv'
  BY DEF TypeOK, RootInv, TerminationCheck
<1>6. MarkInv'
  BY DEF MarkInv
<1>7. ModeInv'
  BY DEF TypeOK, ModeInv
<1>8. DoneInv'
  BY DEF TypeOK, DoneInv, ModeInv
<1>9. TypeOK'
  BY <1>2 DEF TypeOK, HelperLabels, HelperHolds, MainLabels, AtWork,
    TerminationCheck
<1>. QED  BY <1>1, <1>2, <1>3, <1>4, <1>5, <1>6, <1>7, <1>8, <1>9

\* UnlockHelper preserves the invariant.
LEMMA UnlockHelperStep ==
  ASSUME IInv, UnlockHelper
  PROVE  IInv'
<1>. USE WorkerFacts DEF IInv, UnlockHelper, Goto, sched_vars, root_vars,
  work_vars
<1>1. LockInv'
  BY HelperRange, TracerAssumption DEF TypeOK, LockInv, MainOwns, HelperHolds,
    AtWork
<1>2. ActiveInv' /\ active_tracers' \in Nat
  <2>1. Recounted(Active, Active', active_tracers, active_tracers', 0)
    BY DEF Recounted, TypeOK, Active, AtWork, TerminationCheck
  <2>. QED  BY <2>1, RecountActive
<1>3. WorkInv'
  BY DEF TypeOK, WorkInv
<1>4. OnceInv'
  BY DEF OnceInv, TracedOnce
<1>5. RootInv'
  BY DEF TypeOK, RootInv, TerminationCheck
<1>6. MarkInv'
  BY DEF MarkInv
<1>7. ModeInv'
  BY DEF TypeOK, ModeInv
<1>8. DoneInv'
  BY DEF TypeOK, DoneInv, ModeInv
<1>9. TypeOK'
  <2>1. /\ pc' \in [Workers -> MainLabels \cup HelperLabels]
        /\ pc'[0] \in MainLabels
        /\ \A k \in Helpers : pc'[k] \in HelperLabels
    BY DEF TypeOK, HelperLabels, HelperHolds, MainLabels, AtWork,
      TerminationCheck
  <2>2. /\ lock' \in [Helpers -> {Free} \cup Workers]
        /\ locked' \in 1 .. WorkerCount
        /\ trace_epoch' \in [Helpers -> Nat] /\ epoch' \in Nat
    BY SMTT(30), TracerAssumption DEF TypeOK, Helpers, Workers
  <2>3. /\ deque' \in [Workers -> SUBSET Objects]
        /\ hand' \in [Workers -> Objects \cup {NoObject}]
        /\ todo' \in [Workers -> SUBSET Objects]
        /\ marked' \in SUBSET Objects
        /\ unseen' \in [Workers -> SUBSET Workers]
    BY TracerAssumption DEF TypeOK
  <2>4. /\ roots' \in Seq(SUBSET Objects) /\ read' \in Nat
        /\ trace_roots_only' \in BOOLEAN /\ rooted' \in SUBSET Objects
        /\ batch' \in Nat
    BY TracerAssumption DEF TypeOK
  <2>. QED  BY <1>2, <2>1, <2>2, <2>3, <2>4 DEF TypeOK
<1>. QED  BY <1>1, <1>2, <1>3, <1>4, <1>5, <1>6, <1>7, <1>8, <1>9

\* Unpark preserves the invariant.
LEMMA UnparkStep ==
  ASSUME IInv, Unpark
  PROVE  IInv'
<1>. USE WorkerFacts DEF IInv, Unpark, tracer_unpark_all_workers, Goto,
  sched_vars, root_vars, work_vars
<1>1. LockInv'
  BY TracerAssumption DEF TypeOK, LockInv, MainOwns, HelperHolds, AtWork
<1>2. ActiveInv' /\ active_tracers' \in Nat
  <2>1. Recounted(Active, Active', active_tracers, active_tracers', 0)
    BY DEF Recounted, TypeOK, Active, AtWork, TerminationCheck
  <2>. QED  BY <2>1, RecountActive
<1>3. WorkInv'
  BY DEF TypeOK, WorkInv
<1>4. OnceInv'
  BY DEF OnceInv, TracedOnce
<1>5. RootInv'
  BY DEF TypeOK, RootInv, TerminationCheck
<1>6. MarkInv'
  BY DEF MarkInv
<1>7. ModeInv'
  BY DEF TypeOK, ModeInv
<1>8. DoneInv'
  BY DEF TypeOK, DoneInv, ModeInv
<1>9. TypeOK'
  BY <1>2 DEF TypeOK, HelperLabels, HelperHolds, MainLabels, AtWork,
    TerminationCheck
<1>. QED  BY <1>1, <1>2, <1>3, <1>4, <1>5, <1>6, <1>7, <1>8, <1>9

\* ResetRoots preserves the invariant.
LEMMA ResetRootsStep ==
  ASSUME IInv, ResetRoots
  PROVE  IInv'
<1>. USE WorkerFacts DEF IInv, ResetRoots, Goto, sched_vars, root_vars,
  work_vars
<1>1. LockInv'
  BY TracerAssumption DEF TypeOK, LockInv, MainOwns, HelperHolds, AtWork
<1>2. ActiveInv' /\ active_tracers' \in Nat
  <2>1. Recounted(Active, Active', active_tracers, active_tracers', 0)
    BY DEF Recounted, TypeOK, Active, AtWork, TerminationCheck
  <2>. QED  BY <2>1, RecountActive
<1>3. WorkInv'
  BY DEF TypeOK, WorkInv
<1>4. OnceInv'
  BY DEF OnceInv, TracedOnce
<1>5. RootInv'
  BY DEF TypeOK, RootInv, TerminationCheck
<1>6. MarkInv'
  BY DEF MarkInv
<1>7. ModeInv'
  BY DEF TypeOK, ModeInv
<1>8. DoneInv'
  BY DEF TypeOK, DoneInv, ModeInv
<1>9. TypeOK'
  <2>1. /\ pc' \in [Workers -> MainLabels \cup HelperLabels]
        /\ pc'[0] \in MainLabels
        /\ \A k \in Helpers : pc'[k] \in HelperLabels
    BY DEF TypeOK, HelperLabels, HelperHolds, MainLabels, AtWork,
      TerminationCheck
  <2>2. /\ lock' \in [Helpers -> {Free} \cup Workers]
        /\ locked' \in 1 .. WorkerCount
        /\ trace_epoch' \in [Helpers -> Nat] /\ epoch' \in Nat
    BY TracerAssumption DEF TypeOK, Helpers, Workers
  <2>3. /\ deque' \in [Workers -> SUBSET Objects]
        /\ hand' \in [Workers -> Objects \cup {NoObject}]
        /\ todo' \in [Workers -> SUBSET Objects]
        /\ marked' \in SUBSET Objects
        /\ unseen' \in [Workers -> SUBSET Workers]
    BY TracerAssumption DEF TypeOK
  <2>4. /\ roots' \in Seq(SUBSET Objects) /\ read' \in Nat
        /\ trace_roots_only' \in BOOLEAN /\ rooted' \in SUBSET Objects
        /\ batch' \in Nat
    BY EmptySeq, TracerAssumption DEF TypeOK
  <2>. QED  BY <1>2, <2>1, <2>2, <2>3, <2>4 DEF TypeOK
<1>. QED  BY <1>1, <1>2, <1>3, <1>4, <1>5, <1>6, <1>7, <1>8, <1>9

\* CountTracers preserves the invariant.
LEMMA CountTracersStep ==
  ASSUME IInv, CountTracers
  PROVE  IInv'
<1>. USE WorkerFacts DEF IInv, CountTracers, Goto, sched_vars, root_vars,
  work_vars
<1>1. LockInv'
  BY HelperRange, TracerAssumption DEF TypeOK, LockInv, MainOwns, HelperHolds,
    AtWork
<1>2. ActiveInv' /\ active_tracers' \in Nat
  <2>1. Recounted(Active, Active', active_tracers, active_tracers', 0)
    BY DEF Recounted, TypeOK, Active, AtWork, TerminationCheck
  <2>. QED  BY <2>1, RecountActive
<1>3. WorkInv'
  BY DEF TypeOK, WorkInv
<1>4. OnceInv'
  BY DEF OnceInv, TracedOnce
<1>5. RootInv'
  BY DEF TypeOK, RootInv, TerminationCheck
<1>6. MarkInv'
  BY DEF MarkInv
<1>7. ModeInv'
  BY DEF TypeOK, ModeInv
<1>8. DoneInv'
  BY DEF TypeOK, DoneInv, ModeInv
<1>9. TypeOK'
  <2>1. /\ pc' \in [Workers -> MainLabels \cup HelperLabels]
        /\ pc'[0] \in MainLabels
        /\ \A k \in Helpers : pc'[k] \in HelperLabels
    BY DEF TypeOK, HelperLabels, HelperHolds, MainLabels, AtWork,
      TerminationCheck
  <2>2. /\ lock' \in [Helpers -> {Free} \cup Workers]
        /\ locked' \in 1 .. WorkerCount
        /\ trace_epoch' \in [Helpers -> Nat] /\ epoch' \in Nat
    BY TracerAssumption DEF TypeOK, Helpers, Workers
  <2>3. /\ deque' \in [Workers -> SUBSET Objects]
        /\ hand' \in [Workers -> Objects \cup {NoObject}]
        /\ todo' \in [Workers -> SUBSET Objects]
        /\ marked' \in SUBSET Objects
        /\ unseen' \in [Workers -> SUBSET Workers]
    BY TracerAssumption DEF TypeOK
  <2>4. /\ roots' \in Seq(SUBSET Objects) /\ read' \in Nat
        /\ trace_roots_only' \in BOOLEAN /\ rooted' \in SUBSET Objects
        /\ batch' \in Nat
    BY TracerAssumption DEF TypeOK
  <2>. QED  BY <1>2, <2>1, <2>2, <2>3, <2>4 DEF TypeOK
<1>. QED  BY <1>1, <1>2, <1>3, <1>4, <1>5, <1>6, <1>7, <1>8, <1>9

\* TryLock preserves the invariant.
LEMMA TryLockStep ==
  ASSUME IInv, TryLock
  PROVE  IInv'
<1>. USE WorkerFacts DEF IInv, TryLock, Goto, sched_vars, root_vars, work_vars
<1>1. LockInv'
  BY SMTT(30), HelperRange, TracerAssumption
    DEF TypeOK, LockInv, MainOwns, HelperHolds, AtWork
<1>2. ActiveInv' /\ active_tracers' \in Nat
  <2>1. Recounted(Active, Active', active_tracers, active_tracers', 0)
    BY DEF Recounted, TypeOK, Active, AtWork, TerminationCheck
  <2>. QED  BY <2>1, RecountActive
<1>3. WorkInv'
  BY DEF TypeOK, WorkInv
<1>4. OnceInv'
  BY DEF OnceInv, TracedOnce
<1>5. RootInv'
  BY DEF TypeOK, RootInv, TerminationCheck
<1>6. MarkInv'
  BY DEF MarkInv
<1>7. ModeInv'
  BY DEF TypeOK, ModeInv
<1>8. DoneInv'
  BY DEF TypeOK, DoneInv, ModeInv
<1>9. TypeOK'
  <2>1. /\ pc' \in [Workers -> MainLabels \cup HelperLabels]
        /\ pc'[0] \in MainLabels
        /\ \A k \in Helpers : pc'[k] \in HelperLabels
    BY DEF TypeOK, HelperLabels, HelperHolds, MainLabels, AtWork,
      TerminationCheck
  <2>2. /\ lock' \in [Helpers -> {Free} \cup Workers]
        /\ locked' \in 1 .. WorkerCount
        /\ trace_epoch' \in [Helpers -> Nat] /\ epoch' \in Nat
    BY SMTT(30), TracerAssumption DEF TypeOK, Helpers, Workers
  <2>3. /\ deque' \in [Workers -> SUBSET Objects]
        /\ hand' \in [Workers -> Objects \cup {NoObject}]
        /\ todo' \in [Workers -> SUBSET Objects]
        /\ marked' \in SUBSET Objects
        /\ unseen' \in [Workers -> SUBSET Workers]
    BY DEF TypeOK
  <2>4. /\ roots' \in Seq(SUBSET Objects) /\ read' \in Nat
        /\ trace_roots_only' \in BOOLEAN /\ rooted' \in SUBSET Objects
        /\ batch' \in Nat
    BY TracerAssumption DEF TypeOK
  <2>. QED  BY <1>2, <2>1, <2>2, <2>3, <2>4 DEF TypeOK
<1>. QED  BY <1>1, <1>2, <1>3, <1>4, <1>5, <1>6, <1>7, <1>8, <1>9

\* Scan preserves the invariant.
LEMMA ScanStep ==
  ASSUME IInv, Scan
  PROVE  IInv'
<1>. USE WorkerFacts DEF IInv, Scan, Goto, sched_vars, root_vars, work_vars
<1>1. LockInv'
  BY HelperRange, TracerAssumption DEF TypeOK, LockInv, MainOwns, HelperHolds,
    AtWork
<1>2. ActiveInv' /\ active_tracers' \in Nat
  <2>1. Recounted(Active, Active', active_tracers, active_tracers', 0)
    BY DEF Recounted, TypeOK, Active, AtWork, TerminationCheck
  <2>. QED  BY <2>1, RecountActive
<1>3. WorkInv'
  BY DEF TypeOK, WorkInv
<1>4. OnceInv'
  BY DEF OnceInv, TracedOnce
<1>5. RootInv'
  BY DEF TypeOK, RootInv, TerminationCheck
<1>6. MarkInv'
  BY DEF MarkInv
<1>7. ModeInv'
  BY DEF TypeOK, ModeInv
<1>8. DoneInv'
  <2>1. CASE unseen[0] = {} /\ pc'[0] = "leave" /\ UNCHANGED unseen
    BY <2>1 DEF TypeOK, DoneInv
  <2>2. CASE \E v \in unseen[0] : deque[v] # {} /\ Goto(0, "unlockback")
    BY <2>2 DEF TypeOK, DoneInv
  <2>3. CASE \E v \in unseen[0] : /\ deque[v] = {} /\ UNCHANGED pc
                                  /\ unseen' = [unseen EXCEPT ![0] = @ \ {v}]
    BY <2>3 DEF TypeOK, DoneInv
  <2>. QED  BY <2>1, <2>2, <2>3 DEF TypeOK
<1>9. TypeOK'
  BY SMTT(30), <1>2 DEF TypeOK, HelperLabels, HelperHolds, MainLabels, AtWork,
    TerminationCheck
<1>. QED  BY <1>1, <1>2, <1>3, <1>4, <1>5, <1>6, <1>7, <1>8, <1>9

\* UnlockBack preserves the invariant.
LEMMA UnlockBackStep ==
  ASSUME IInv, UnlockBack
  PROVE  IInv'
<1>. USE WorkerFacts DEF IInv, UnlockBack, Goto, sched_vars, root_vars,
  work_vars
<1>1. LockInv'
  BY HelperRange, TracerAssumption DEF TypeOK, LockInv, MainOwns, HelperHolds,
    AtWork
<1>2. ActiveInv' /\ active_tracers' \in Nat
  <2>1. Recounted(Active, Active', active_tracers, active_tracers', 0)
    BY DEF Recounted, TypeOK, Active, AtWork, TerminationCheck
  <2>. QED  BY <2>1, RecountActive
<1>3. WorkInv'
  BY DEF TypeOK, WorkInv
<1>4. OnceInv'
  BY DEF OnceInv, TracedOnce
<1>5. RootInv'
  BY DEF TypeOK, RootInv, TerminationCheck
<1>6. MarkInv'
  BY DEF MarkInv
<1>7. ModeInv'
  BY DEF TypeOK, ModeInv
<1>8. DoneInv'
  BY DEF TypeOK, DoneInv, ModeInv
<1>9. TypeOK'
  <2>1. /\ pc' \in [Workers -> MainLabels \cup HelperLabels]
        /\ pc'[0] \in MainLabels
        /\ \A k \in Helpers : pc'[k] \in HelperLabels
    BY DEF TypeOK, HelperLabels, HelperHolds, MainLabels, AtWork,
      TerminationCheck
  <2>2. /\ lock' \in [Helpers -> {Free} \cup Workers]
        /\ locked' \in 1 .. WorkerCount
        /\ trace_epoch' \in [Helpers -> Nat] /\ epoch' \in Nat
    BY SMTT(30), TracerAssumption DEF TypeOK, Helpers, Workers
  <2>3. /\ deque' \in [Workers -> SUBSET Objects]
        /\ hand' \in [Workers -> Objects \cup {NoObject}]
        /\ todo' \in [Workers -> SUBSET Objects]
        /\ marked' \in SUBSET Objects
        /\ unseen' \in [Workers -> SUBSET Workers]
    BY TracerAssumption DEF TypeOK
  <2>4. /\ roots' \in Seq(SUBSET Objects) /\ read' \in Nat
        /\ trace_roots_only' \in BOOLEAN /\ rooted' \in SUBSET Objects
        /\ batch' \in Nat
    BY TracerAssumption DEF TypeOK
  <2>. QED  BY <1>2, <2>1, <2>2, <2>3, <2>4 DEF TypeOK
<1>. QED  BY <1>1, <1>2, <1>3, <1>4, <1>5, <1>6, <1>7, <1>8, <1>9

\* LockHelper preserves the invariant.
LEMMA LockHelperStep ==
  ASSUME IInv, LockHelper
  PROVE  IInv'
<1>. USE WorkerFacts DEF IInv, LockHelper, Goto, sched_vars, root_vars,
  work_vars
<1>1. LockInv'
  BY HelperRange, TracerAssumption DEF TypeOK, LockInv, MainOwns, HelperHolds,
    AtWork
<1>2. ActiveInv' /\ active_tracers' \in Nat
  <2>1. Recounted(Active, Active', active_tracers, active_tracers', 0)
    BY DEF Recounted, TypeOK, Active, AtWork, TerminationCheck
  <2>. QED  BY <2>1, RecountActive
<1>3. WorkInv'
  BY DEF TypeOK, WorkInv
<1>4. OnceInv'
  BY DEF OnceInv, TracedOnce
<1>5. RootInv'
  BY DEF TypeOK, RootInv, TerminationCheck
<1>6. MarkInv'
  BY DEF MarkInv
<1>7. ModeInv'
  BY DEF TypeOK, ModeInv
<1>8. DoneInv'
  BY DEF TypeOK, DoneInv, ModeInv
<1>9. TypeOK'
  <2>1. /\ pc' \in [Workers -> MainLabels \cup HelperLabels]
        /\ pc'[0] \in MainLabels
        /\ \A k \in Helpers : pc'[k] \in HelperLabels
    BY DEF TypeOK, HelperLabels, HelperHolds, MainLabels, AtWork,
      TerminationCheck
  <2>2. /\ lock' \in [Helpers -> {Free} \cup Workers]
        /\ locked' \in 1 .. WorkerCount
        /\ trace_epoch' \in [Helpers -> Nat] /\ epoch' \in Nat
    BY SMTT(30), TracerAssumption DEF TypeOK, Helpers, Workers
  <2>3. /\ deque' \in [Workers -> SUBSET Objects]
        /\ hand' \in [Workers -> Objects \cup {NoObject}]
        /\ todo' \in [Workers -> SUBSET Objects]
        /\ marked' \in SUBSET Objects
        /\ unseen' \in [Workers -> SUBSET Workers]
    BY TracerAssumption DEF TypeOK
  <2>4. /\ roots' \in Seq(SUBSET Objects) /\ read' \in Nat
        /\ trace_roots_only' \in BOOLEAN /\ rooted' \in SUBSET Objects
        /\ batch' \in Nat
    BY TracerAssumption DEF TypeOK
  <2>. QED  BY <1>2, <2>1, <2>2, <2>3, <2>4 DEF TypeOK
<1>. QED  BY <1>1, <1>2, <1>3, <1>4, <1>5, <1>6, <1>7, <1>8, <1>9

\* StartTrace preserves the invariant.
LEMMA StartTraceStep ==
  ASSUME IInv, NEW only \in BOOLEAN, StartTrace(only)
  PROVE  IInv'
<1>. USE WorkerFacts DEF IInv, StartTrace, Goto, sched_vars, root_vars,
  work_vars
<1>1. LockInv'
  BY HelperRange, TracerAssumption DEF TypeOK, LockInv, MainOwns, HelperHolds,
    AtWork
<1>2. ActiveInv' /\ active_tracers' \in Nat
  <2>1. Recounted(Active, Active', active_tracers, active_tracers', 0)
    BY DEF Recounted, TypeOK, Active, AtWork, TerminationCheck
  <2>. QED  BY <2>1, RecountActive
<1>3. WorkInv'
  BY DEF TypeOK, WorkInv
<1>4. OnceInv'
  BY DEF OnceInv, TracedOnce
<1>5. RootInv'
  <2>1. roots = <<>> /\ read = 0
    BY DEF RootInv
  <2>2. roots' = RootBatches[batch'] /\ roots' \in Seq(SUBSET Objects)
    <3>1. batch' \in 1 .. Len(RootBatches)
      BY TracerAssumption DEF TypeOK
    <3>2. RootBatches[batch'] \in Seq(SUBSET Objects)
      BY <3>1, TracerAssumption
    <3>. QED  BY <2>1, <3>2
  <2>3. \A i \in 1 .. Len(roots') : roots'[i] \subseteq rooted'
    OBVIOUS
  <2>4. ASSUME NEW o \in rooted'
        PROVE  \/ o \in marked \/ \E w \in Workers : o \in todo[w]
               \/ \E i \in 1 .. Len(roots') : i > 0 /\ o \in roots'[i]
    <3>1. CASE o \in rooted
      BY <2>1, <3>1 DEF RootInv
    <3>2. CASE \E i \in 1 .. Len(roots') : o \in roots'[i]
      BY <2>2, <3>2
    <3>. QED  BY <3>1, <3>2
  <2>. QED  BY <2>1, <2>2, <2>3, <2>4 DEF TypeOK, RootInv, TerminationCheck
<1>6. MarkInv'
  BY DEF MarkInv
<1>7. ModeInv'
  BY OthersIdle DEF TypeOK, ModeInv
<1>8. DoneInv'
  BY DEF TypeOK, DoneInv, ModeInv
<1>9. TypeOK'
  <2>1. /\ pc' \in [Workers -> MainLabels \cup HelperLabels]
        /\ pc'[0] \in MainLabels
        /\ \A k \in Helpers : pc'[k] \in HelperLabels
    BY DEF TypeOK, HelperLabels, HelperHolds, MainLabels, AtWork,
      TerminationCheck
  <2>2. /\ lock' \in [Helpers -> {Free} \cup Workers]
        /\ locked' \in 1 .. WorkerCount
        /\ trace_epoch' \in [Helpers -> Nat] /\ epoch' \in Nat
    BY TracerAssumption DEF TypeOK, Helpers, Workers
  <2>3. /\ deque' \in [Workers -> SUBSET Objects]
        /\ hand' \in [Workers -> Objects \cup {NoObject}]
        /\ todo' \in [Workers -> SUBSET Objects]
        /\ marked' \in SUBSET Objects
        /\ unseen' \in [Workers -> SUBSET Workers]
    BY TracerAssumption DEF TypeOK
  <2>4. /\ roots' \in Seq(SUBSET Objects) /\ read' \in Nat
        /\ trace_roots_only' \in BOOLEAN /\ rooted' \in SUBSET Objects
        /\ batch' \in Nat
    BY TracerAssumption DEF TypeOK
  <2>. QED  BY <1>2, <2>1, <2>2, <2>3, <2>4 DEF TypeOK
<1>. QED  BY <1>1, <1>2, <1>3, <1>4, <1>5, <1>6, <1>7, <1>8, <1>9

\* Enter preserves the invariant.
LEMMA EnterStep ==
  ASSUME IInv, NEW w \in Workers, Enter(w)
  PROVE  IInv'
<1>. USE WorkerFacts DEF IInv, Enter, Goto, sched_vars, root_vars, work_vars
<1>1. LockInv'
  BY TracerAssumption DEF TypeOK, LockInv, MainOwns, HelperHolds, AtWork
<1>2. ActiveInv' /\ active_tracers' \in Nat
  <2>1. Recounted(Active, Active', active_tracers, active_tracers', w)
    BY DEF Recounted, TypeOK, Active, AtWork, TerminationCheck
  <2>. QED  BY <2>1, RecountActive
<1>3. WorkInv'
  BY DEF TypeOK, WorkInv
<1>4. OnceInv'
  BY DEF OnceInv, TracedOnce
<1>5. RootInv'
  BY DEF TypeOK, RootInv, TerminationCheck
<1>6. MarkInv'
  BY DEF MarkInv
<1>7. ModeInv'
  BY DEF TypeOK, ModeInv
<1>8. DoneInv'
  BY DEF TypeOK, DoneInv, ModeInv
<1>9. TypeOK'
  BY <1>2 DEF TypeOK, HelperLabels, HelperHolds, MainLabels, AtWork,
    TerminationCheck
<1>. QED  BY <1>1, <1>2, <1>3, <1>4, <1>5, <1>6, <1>7, <1>8, <1>9

\* PopRoot preserves the invariant.
LEMMA PopRootStep ==
  ASSUME IInv, NEW w \in Workers, PopRoot(w)
  PROVE  IInv'
<1>. USE WorkerFacts DEF IInv, PopRoot, Goto, sched_vars, root_vars, work_vars
<1>1. LockInv'
  BY SMTT(30), HelperRange, TracerAssumption
    DEF TypeOK, LockInv, MainOwns, HelperHolds, AtWork
<1>2. ActiveInv' /\ active_tracers' \in Nat
  <2>1. Recounted(Active, Active', active_tracers, active_tracers', w)
    BY DEF Recounted, TypeOK, Active, AtWork, TerminationCheck
  <2>. QED  BY <2>1, RecountActive
<1>3. WorkInv'
  <2>1. read < Len(roots) => roots[read + 1] \subseteq rooted
    BY DEF TypeOK, RootInv
  <2>. QED  BY <2>1 DEF TypeOK, WorkInv
<1>4. OnceInv'
  BY DEF OnceInv, TracedOnce
<1>5. RootInv'
  <2>1. todo[w] = {}
    BY DEF WorkInv
  <2>2. /\ UNCHANGED <<roots, rooted, marked>> /\ read' = read + 1
        /\ read \in Nat /\ Len(roots) \in Nat
    BY DEF TypeOK
  <2>3. CASE read < Len(roots)
    <3>1. todo' = [todo EXCEPT ![w] = roots[read + 1]] /\ Goto(w, "visitroot")
      BY <2>3
    <3>2. ASSUME NEW o \in rooted
          PROVE  \/ o \in marked \/ \E v \in Workers : o \in todo'[v]
                 \/ \E i \in 1 .. Len(roots) : i > read + 1 /\ o \in roots[i]
      <4>1. CASE \E v \in Workers : o \in todo[v]
        BY <2>1, <3>1, <4>1 DEF TypeOK
      <4>2. CASE \E i \in 1 .. Len(roots) : i > read /\ o \in roots[i]
        <5>1. PICK i \in 1 .. Len(roots) : i > read /\ o \in roots[i]
          BY <4>2
        <5>2. CASE i = read + 1
          BY <3>1, <5>1, <5>2 DEF TypeOK
        <5>. QED  BY <5>1, <5>2, <2>2
      <4>. QED  BY <4>1, <4>2 DEF RootInv
    <3>3. pc'[0] # pc[0] => w = 0 /\ pc'[0] = "visitroot"
      BY <3>1 DEF TypeOK
    <3>4. pc[0] = "out" => FALSE
      BY <2>3, <2>2 DEF RootInv
    <3>5. read >= Len(roots) => FALSE
      BY <2>2, <2>3
    <3>. QED  BY <2>2, <3>2, <3>3, <3>4, <3>5 DEF RootInv, TerminationCheck
  <2>4. CASE ~(read < Len(roots))
    <3>1. UNCHANGED todo /\ read' >= Len(roots)
      BY <2>2, <2>4
    <3>2. ASSUME NEW o \in rooted
          PROVE  o \in marked \/ \E v \in Workers : o \in todo'[v]
      BY <2>2, <2>4, <3>1 DEF RootInv
    <3>3. pc'[0] # "out"
      <4>1. CASE w = 0
        BY <2>4, <4>1 DEF TypeOK
      <4>2. CASE w # 0
        BY <4>2, OthersIdle, HelperRange DEF TypeOK
      <4>. QED  BY <4>1, <4>2
    <3>. QED  BY <2>2, <3>1, <3>2, <3>3 DEF RootInv
  <2>. QED  BY <2>3, <2>4
<1>6. MarkInv'
  <2>1. hand[w] = NoObject /\ \A v \in Workers : v # w => todo'[v] = todo[v]
    BY DEF TypeOK, WorkInv
  <2>2. \A o \in marked : o # NoObject
    BY TracerAssumption DEF TypeOK
  <2>. QED  BY <2>1, <2>2 DEF MarkInv
<1>7. ModeInv'
  BY DEF TypeOK, ModeInv
<1>8. DoneInv'
  BY DEF TypeOK, DoneInv, ModeInv
<1>9. TypeOK'
  <2>1. /\ pc' \in [Workers -> MainLabels \cup HelperLabels]
        /\ pc'[0] \in MainLabels
        /\ \A k \in Helpers : pc'[k] \in HelperLabels
    <3>1. PICK l \in {"visitroot", "objs", "lockall", "leave"} :
             /\ pc' = [pc EXCEPT ![w] = l]
             /\ (l = "lockall" => w = 0) /\ (l = "leave" => w # 0)
      OBVIOUS
    <3>2. /\ l = "lockall" \/ l \in HelperLabels
          /\ l \in MainLabels
      BY <3>1 DEF MainLabels, HelperLabels, HelperHolds, AtWork,
        TerminationCheck
    <3>. QED  BY <3>1, <3>2, PcTyped
  <2>2. /\ lock' \in [Helpers -> {Free} \cup Workers]
        /\ locked' \in 1 .. WorkerCount
        /\ trace_epoch' \in [Helpers -> Nat] /\ epoch' \in Nat
    BY SMTT(30), TracerAssumption DEF TypeOK, Helpers, Workers
  <2>3. /\ deque' \in [Workers -> SUBSET Objects]
        /\ hand' \in [Workers -> Objects \cup {NoObject}]
        /\ todo' \in [Workers -> SUBSET Objects]
        /\ marked' \in SUBSET Objects
        /\ unseen' \in [Workers -> SUBSET Workers]
    <3>1. read < Len(roots) => roots[read + 1] \in SUBSET Objects
      BY DEF TypeOK
    <3>. QED  BY <3>1 DEF TypeOK
  <2>4. /\ roots' \in Seq(SUBSET Objects) /\ read' \in Nat
        /\ trace_roots_only' \in BOOLEAN /\ rooted' \in SUBSET Objects
        /\ batch' \in Nat
    BY TracerAssumption DEF TypeOK
  <2>. QED  BY <1>2, <2>1, <2>2, <2>3, <2>4 DEF TypeOK
<1>. QED  BY <1>1, <1>2, <1>3, <1>4, <1>5, <1>6, <1>7, <1>8, <1>9

\* Visit preserves the invariant.
LEMMA VisitStep ==
  ASSUME IInv, NEW w \in Workers, Visit(w)
  PROVE  IInv'
<1>. USE WorkerFacts DEF IInv, Visit, tracer_visit, Goto, sched_vars,
  root_vars, work_vars
<1>1. LockInv'
  BY TracerAssumption DEF TypeOK, LockInv, MainOwns, HelperHolds, AtWork
<1>2. ActiveInv' /\ active_tracers' \in Nat
  <2>1. Recounted(Active, Active', active_tracers, active_tracers', w)
    BY DEF Recounted, TypeOK, Active, AtWork, TerminationCheck
  <2>. QED  BY <2>1, RecountActive
<1>3. WorkInv'
  BY DEF TypeOK, WorkInv
<1>4. OnceInv'
  <2>1. PICK o \in todo[w] : /\ tracer_visit(w, o)
                             /\ todo' = [todo EXCEPT ![w] = @ \ {o}]
    OBVIOUS
  <2>2. CASE o \in marked
    BY <2>1, <2>2 DEF OnceInv, TracedOnce
  <2>3. CASE o \notin marked
    <3>1. marked' = marked \cup {o} /\ deque' = [deque EXCEPT ![w] = @ \cup {o}]
      BY <2>1, <2>3
    <3>2. \A v \in Workers : o \notin deque[v] /\ hand[v] # o
      <4>1. \A v \in Workers : hand[v] = NoObject \/ hand[v] \in marked
        BY DEF WorkInv
      <4>2. o # NoObject
        BY TracerAssumption DEF TypeOK
      <4>. QED  BY <2>3, <4>1, <4>2 DEF OnceInv
    <3>. QED  BY <3>1, <3>2 DEF TypeOK, OnceInv, TracedOnce
  <2>. QED  BY <2>2, <2>3
<1>5. RootInv'
  BY SMTT(30) DEF TypeOK, RootInv, TerminationCheck
<1>6. MarkInv'
  <2>1. PICK o \in todo[w] : /\ tracer_visit(w, o)
                             /\ todo' = [todo EXCEPT ![w] = @ \ {o}]
    OBVIOUS
  <2>2. o \in marked' /\ marked \subseteq marked'
    BY <2>1
  <2>3. \A v \in Workers : deque[v] \subseteq deque'[v]
    BY <2>1 DEF TypeOK
  <2>4. \A p \in marked' : p \in marked \/ (p = o /\ o \in deque'[w])
    BY <2>1 DEF TypeOK
  <2>5. \A v \in Workers : todo[v] \ {o} \subseteq todo'[v]
    BY <2>1 DEF TypeOK
  <2>. QED  BY <2>2, <2>3, <2>4, <2>5 DEF MarkInv
<1>7. ModeInv'
  BY DEF TypeOK, ModeInv
<1>8. DoneInv'
  <2>1. pc[0] \notin {"scan", "leave", "reset"}
    BY OthersIdle DEF TypeOK
  <2>. QED  BY <2>1 DEF DoneInv
<1>9. TypeOK'
  BY <1>2 DEF TypeOK, HelperLabels, HelperHolds, MainLabels, AtWork,
    TerminationCheck
<1>. QED  BY <1>1, <1>2, <1>3, <1>4, <1>5, <1>6, <1>7, <1>8, <1>9

\* RootDone preserves the invariant.
LEMMA RootDoneStep ==
  ASSUME IInv, NEW w \in Workers, RootDone(w)
  PROVE  IInv'
<1>. USE WorkerFacts DEF IInv, RootDone, Goto, sched_vars, root_vars, work_vars
<1>1. LockInv'
  BY TracerAssumption DEF TypeOK, LockInv, MainOwns, HelperHolds, AtWork
<1>2. ActiveInv' /\ active_tracers' \in Nat
  <2>1. Recounted(Active, Active', active_tracers, active_tracers', w)
    BY DEF Recounted, TypeOK, Active, AtWork, TerminationCheck
  <2>. QED  BY <2>1, RecountActive
<1>3. WorkInv'
  BY DEF TypeOK, WorkInv
<1>4. OnceInv'
  BY DEF OnceInv, TracedOnce
<1>5. RootInv'
  BY DEF TypeOK, RootInv, TerminationCheck
<1>6. MarkInv'
  BY DEF MarkInv
<1>7. ModeInv'
  BY DEF TypeOK, ModeInv
<1>8. DoneInv'
  BY DEF TypeOK, DoneInv, ModeInv
<1>9. TypeOK'
  BY <1>2 DEF TypeOK, HelperLabels, HelperHolds, MainLabels, AtWork,
    TerminationCheck
<1>. QED  BY <1>1, <1>2, <1>3, <1>4, <1>5, <1>6, <1>7, <1>8, <1>9

\* ObjectDone preserves the invariant.
LEMMA ObjectDoneStep ==
  ASSUME IInv, NEW w \in Workers, ObjectDone(w)
  PROVE  IInv'
<1>. USE WorkerFacts DEF IInv, ObjectDone, tracer_unpark_all_workers, Goto,
  sched_vars, root_vars, work_vars
<1>1. LockInv'
  BY SMTT(30), TracerAssumption
    DEF TypeOK, LockInv, MainOwns, HelperHolds, AtWork
<1>2. ActiveInv' /\ active_tracers' \in Nat
  <2>1. Recounted(Active, Active', active_tracers, active_tracers', w)
    BY DEF Recounted, TypeOK, Active, AtWork, TerminationCheck
  <2>. QED  BY <2>1, RecountActive
<1>3. WorkInv'
  BY DEF TypeOK, WorkInv
<1>4. OnceInv'
  BY TracerAssumption DEF TypeOK, OnceInv, TracedOnce
<1>5. RootInv'
  BY DEF TypeOK, RootInv, TerminationCheck
<1>6. MarkInv'
  BY DEF MarkInv
<1>7. ModeInv'
  BY DEF TypeOK, ModeInv
<1>8. DoneInv'
  BY DEF TypeOK, DoneInv, ModeInv
<1>9. TypeOK'
  <2>1. /\ pc' \in [Workers -> MainLabels \cup HelperLabels]
        /\ pc'[0] \in MainLabels
        /\ \A k \in Helpers : pc'[k] \in HelperLabels
    <3>1. CASE pc' = [pc EXCEPT ![w] = "objs"]
      <4>1. "objs" \in MainLabels /\ "objs" \in HelperLabels
        BY DEF MainLabels, HelperLabels, HelperHolds, AtWork
      <4>. QED  BY <3>1, <4>1, PcTyped
    <3>2. CASE tracer_unpark_all_workers("objs")
      <4>1. "objs" \in MainLabels /\ "blocked" \in HelperLabels
        BY DEF MainLabels, HelperLabels, AtWork
      <4>. QED  BY <3>2, <4>1 DEF TypeOK
    <3>. QED  BY <3>1, <3>2
  <2>2. /\ lock' \in [Helpers -> {Free} \cup Workers]
        /\ locked' \in 1 .. WorkerCount
        /\ trace_epoch' \in [Helpers -> Nat] /\ epoch' \in Nat
    BY TracerAssumption DEF TypeOK, Helpers, Workers
  <2>3. /\ deque' \in [Workers -> SUBSET Objects]
        /\ hand' \in [Workers -> Objects \cup {NoObject}]
        /\ todo' \in [Workers -> SUBSET Objects]
        /\ marked' \in SUBSET Objects
        /\ unseen' \in [Workers -> SUBSET Workers]
    BY TracerAssumption DEF TypeOK
  <2>4. /\ roots' \in Seq(SUBSET Objects) /\ read' \in Nat
        /\ trace_roots_only' \in BOOLEAN /\ rooted' \in SUBSET Objects
        /\ batch' \in Nat
    BY TracerAssumption DEF TypeOK
  <2>. QED  BY <1>2, <2>1, <2>2, <2>3, <2>4 DEF TypeOK
<1>. QED  BY <1>1, <1>2, <1>3, <1>4, <1>5, <1>6, <1>7, <1>8, <1>9

\* PopOwn preserves the invariant.
LEMMA PopOwnStep ==
  ASSUME IInv, NEW w \in Workers, PopOwn(w)
  PROVE  IInv'
<1>. USE WorkerFacts DEF IInv, PopOwn, TakeObject, Goto, sched_vars, root_vars,
  work_vars
<1>1. LockInv'
  BY TracerAssumption DEF TypeOK, LockInv, MainOwns, HelperHolds, AtWork
<1>2. ActiveInv' /\ active_tracers' \in Nat
  <2>1. Recounted(Active, Active', active_tracers, active_tracers', w)
    BY DEF Recounted, TypeOK, Active, AtWork, TerminationCheck
  <2>. QED  BY <2>1, RecountActive
<1>3. WorkInv'
  <2>1. CASE TakeObject(w, w)
    BY <2>1, TakeObjectStep
  <2>2. CASE Goto(w, "steal") /\ UNCHANGED <<deque, hand, todo>>
    BY <2>2 DEF TypeOK, WorkInv
  <2>. QED  BY <2>1, <2>2
<1>4. OnceInv'
  <2>1. CASE TakeObject(w, w)
    BY <2>1, TakeObjectStep
  <2>2. CASE Goto(w, "steal") /\ UNCHANGED <<deque, hand, todo>>
    BY <2>2 DEF TypeOK, OnceInv, TracedOnce
  <2>. QED  BY <2>1, <2>2
<1>5. RootInv'
  <2>1. CASE TakeObject(w, w)
    BY <2>1, TakeObjectStep
  <2>2. CASE Goto(w, "steal") /\ UNCHANGED <<deque, hand, todo>>
    BY SMTT(30), <2>2 DEF TypeOK, RootInv, TerminationCheck
  <2>. QED  BY <2>1, <2>2
<1>6. MarkInv'
  <2>1. CASE TakeObject(w, w)
    BY <2>1, TakeObjectStep
  <2>2. CASE Goto(w, "steal") /\ UNCHANGED <<deque, hand, todo>>
    BY <2>2 DEF TypeOK, MarkInv
  <2>. QED  BY <2>1, <2>2
<1>7. ModeInv'
  BY DEF TypeOK, ModeInv
<1>8. DoneInv'
  <2>1. pc[0] \notin {"scan", "leave", "reset"}
    BY OthersIdle DEF TypeOK
  <2>2. pc'[0] \notin {"scan", "leave", "reset"}
    BY <2>1 DEF TypeOK
  <2>. QED  BY <2>2 DEF DoneInv
<1>9. TypeOK'
  <2>1. /\ pc' \in [Workers -> MainLabels \cup HelperLabels]
        /\ pc'[0] \in MainLabels
        /\ \A k \in Helpers : pc'[k] \in HelperLabels
    <3>1. PICK l \in {"visitobj", "steal"} : pc' = [pc EXCEPT ![w] = l]
      OBVIOUS
    <3>2. l \in MainLabels /\ l \in HelperLabels
      BY DEF MainLabels, HelperLabels, HelperHolds, AtWork
    <3>. QED  BY <3>1, <3>2, PcTyped
  <2>2. /\ lock' \in [Helpers -> {Free} \cup Workers]
        /\ locked' \in 1 .. WorkerCount
        /\ trace_epoch' \in [Helpers -> Nat] /\ epoch' \in Nat
    BY TracerAssumption DEF TypeOK, Helpers, Workers
  <2>3. /\ deque' \in [Workers -> SUBSET Objects]
        /\ hand' \in [Workers -> Objects \cup {NoObject}]
        /\ todo' \in [Workers -> SUBSET Objects]
        /\ marked' \in SUBSET Objects
        /\ unseen' \in [Workers -> SUBSET Workers]
    <3>1. CASE TakeObject(w, w)
      <4>1. /\ deque' \in [Workers -> SUBSET Objects]
            /\ hand' \in [Workers -> Objects \cup {NoObject}]
            /\ todo' \in [Workers -> SUBSET Objects]
        BY <3>1, TakeObjectStep
      <4>2. marked' \in SUBSET Objects /\ unseen' \in [Workers -> SUBSET Workers]
        BY SMTT(30) DEF TypeOK
      <4>. QED  BY <4>1, <4>2
    <3>2. CASE UNCHANGED <<deque, hand, todo>>
      BY <3>2 DEF TypeOK
    <3>. QED  BY <3>1, <3>2
  <2>4. /\ roots' \in Seq(SUBSET Objects) /\ read' \in Nat
        /\ trace_roots_only' \in BOOLEAN /\ rooted' \in SUBSET Objects
        /\ batch' \in Nat
    BY TracerAssumption DEF TypeOK
  <2>. QED  BY <1>2, <2>1, <2>2, <2>3, <2>4 DEF TypeOK
<1>. QED  BY <1>1, <1>2, <1>3, <1>4, <1>5, <1>6, <1>7, <1>8, <1>9

\* Steal preserves the invariant.
LEMMA StealStep ==
  ASSUME IInv, NEW w \in Workers, Steal(w)
  PROVE  IInv'
<1>. USE WorkerFacts DEF IInv, Steal, TakeObject, Goto, sched_vars, root_vars,
  work_vars
<1>1. LockInv'
  BY TracerAssumption DEF TypeOK, LockInv, MainOwns, HelperHolds, AtWork
<1>2. ActiveInv' /\ active_tracers' \in Nat
  <2>1. Recounted(Active, Active', active_tracers, active_tracers', w)
    BY DEF Recounted, TypeOK, Active, AtWork, TerminationCheck
  <2>. QED  BY <2>1, RecountActive
<1>3. WorkInv'
  <2>1. CASE \E v \in unseen[w] : TakeObject(w, v)
    <3>1. PICK v \in unseen[w] : TakeObject(w, v)
      BY <2>1
    <3>. QED  BY <3>1, TakeObjectStep DEF TypeOK
  <2>2. CASE UNCHANGED <<deque, hand, todo>>
    BY <2>2 DEF TypeOK, WorkInv
  <2>. QED  BY <2>1, <2>2
<1>4. OnceInv'
  <2>1. CASE \E v \in unseen[w] : TakeObject(w, v)
    <3>1. PICK v \in unseen[w] : TakeObject(w, v)
      BY <2>1
    <3>. QED  BY <3>1, TakeObjectStep DEF TypeOK
  <2>2. CASE UNCHANGED <<deque, hand, todo>>
    BY <2>2 DEF TypeOK, OnceInv, TracedOnce
  <2>. QED  BY <2>1, <2>2
<1>5. RootInv'
  <2>1. CASE \E v \in unseen[w] : TakeObject(w, v)
    <3>1. PICK v \in unseen[w] : TakeObject(w, v)
      BY <2>1
    <3>. QED  BY <3>1, TakeObjectStep DEF TypeOK
  <2>2. CASE UNCHANGED <<deque, hand, todo>>
    BY <2>2 DEF TypeOK, RootInv, TerminationCheck
  <2>. QED  BY <2>1, <2>2
<1>6. MarkInv'
  <2>1. CASE \E v \in unseen[w] : TakeObject(w, v)
    <3>1. PICK v \in unseen[w] : TakeObject(w, v)
      BY <2>1
    <3>. QED  BY <3>1, TakeObjectStep DEF TypeOK
  <2>2. CASE UNCHANGED <<deque, hand, todo>>
    BY <2>2 DEF TypeOK, MarkInv
  <2>. QED  BY <2>1, <2>2
<1>7. ModeInv'
  BY DEF TypeOK, ModeInv
<1>8. DoneInv'
  BY DEF TypeOK, DoneInv, ModeInv
<1>9. TypeOK'
  <2>1. /\ pc' \in [Workers -> MainLabels \cup HelperLabels]
        /\ pc'[0] \in MainLabels
        /\ \A k \in Helpers : pc'[k] \in HelperLabels
    <3>1. CASE UNCHANGED pc
      BY <3>1 DEF TypeOK
    <3>2. CASE \E l \in {"visitobj", "leave"} : pc' = [pc EXCEPT ![w] = l]
      <4>1. PICK l \in {"visitobj", "leave"} : pc' = [pc EXCEPT ![w] = l]
        BY <3>2
      <4>2. l \in MainLabels /\ l \in HelperLabels
        BY DEF MainLabels, HelperLabels, HelperHolds, AtWork
      <4>. QED  BY <4>1, <4>2, PcTyped
    <3>3. CASE w = 0 /\ pc' = [pc EXCEPT ![w] = "count"]
      <4>1. "count" \in MainLabels
        BY DEF MainLabels, TerminationCheck
      <4>. QED  BY <3>3, <4>1, PcTyped
    <3>. QED  BY <3>1, <3>2, <3>3
  <2>2. /\ lock' \in [Helpers -> {Free} \cup Workers]
        /\ locked' \in 1 .. WorkerCount
        /\ trace_epoch' \in [Helpers -> Nat] /\ epoch' \in Nat
    BY TracerAssumption DEF TypeOK, Helpers, Workers
  <2>3. /\ deque' \in [Workers -> SUBSET Objects]
        /\ hand' \in [Workers -> Objects \cup {NoObject}]
        /\ todo' \in [Workers -> SUBSET Objects]
        /\ marked' \in SUBSET Objects
        /\ unseen' \in [Workers -> SUBSET Workers]
    <3>1. CASE \E v \in unseen[w] : TakeObject(w, v)
      <4>1. PICK v \in unseen[w] : TakeObject(w, v)
        BY <3>1
      <4>2. v \in Workers
        BY DEF TypeOK
      <4>3. /\ deque' \in [Workers -> SUBSET Objects]
            /\ hand' \in [Workers -> Objects \cup {NoObject}]
            /\ todo' \in [Workers -> SUBSET Objects]
        BY <4>1, <4>2, TakeObjectStep
      <4>4. marked' \in SUBSET Objects /\ unseen' \in [Workers -> SUBSET Workers]
        BY DEF TypeOK
      <4>. QED  BY <4>3, <4>4
    <3>2. CASE UNCHANGED <<deque, hand, todo>>
      BY <3>2 DEF TypeOK
    <3>. QED  BY <3>1, <3>2
  <2>4. /\ roots' \in Seq(SUBSET Objects) /\ read' \in Nat
        /\ trace_roots_only' \in BOOLEAN /\ rooted' \in SUBSET Objects
        /\ batch' \in Nat
    BY TracerAssumption DEF TypeOK
  <2>. QED  BY <1>2, <2>1, <2>2, <2>3, <2>4 DEF TypeOK
<1>. QED  BY <1>1, <1>2, <1>3, <1>4, <1>5, <1>6, <1>7, <1>8, <1>9

\* Leave preserves the invariant.
LEMMA LeaveStep ==
  ASSUME IInv, NEW w \in Workers, Leave(w)
  PROVE  IInv'
<1>. USE WorkerFacts DEF IInv, Leave, Goto, sched_vars, root_vars, work_vars
<1>1. LockInv'
  BY TracerAssumption DEF TypeOK, LockInv, MainOwns, HelperHolds, AtWork
<1>2. ActiveInv' /\ active_tracers' \in Nat
  <2>1. Recounted(Active, Active', active_tracers, active_tracers', w)
    BY DEF Recounted, TypeOK, Active, AtWork, TerminationCheck
  <2>. QED  BY <2>1, RecountActive
<1>3. WorkInv'
  BY DEF TypeOK, WorkInv
<1>4. OnceInv'
  BY DEF OnceInv, TracedOnce
<1>5. RootInv'
  BY DEF TypeOK, RootInv, TerminationCheck
<1>6. MarkInv'
  BY DEF MarkInv
<1>7. ModeInv'
  BY DEF TypeOK, ModeInv
<1>8. DoneInv'
  BY DEF TypeOK, DoneInv, ModeInv
<1>9. TypeOK'
  BY <1>2 DEF TypeOK, HelperLabels, HelperHolds, MainLabels, AtWork,
    TerminationCheck
<1>. QED  BY <1>1, <1>2, <1>3, <1>4, <1>5, <1>6, <1>7, <1>8, <1>9

--------------------------------------------------------------------------------
\* Every step preserves the invariant.
LEMMA NextIInv == IInv /\ [Next]_vars => IInv'
<1>. SUFFICES ASSUME IInv, [Next]_vars PROVE IInv'
  OBVIOUS
<1>1. CASE \E only \in BOOLEAN : StartTrace(only)
  BY <1>1, StartTraceStep
<1>2. CASE MainStep
  BY <1>2, UnlockHelperStep, UnparkStep, ResetRootsStep, CountTracersStep,
     TryLockStep, ScanStep, UnlockBackStep, LockHelperStep DEF MainStep
<1>3. ASSUME NEW w \in Workers, TraceStep(w) PROVE IInv'
  BY <1>3, EnterStep, PopRootStep, VisitStep, RootDoneStep, ObjectDoneStep,
     PopOwnStep, StealStep, LeaveStep DEF TraceStep
<1>4. ASSUME NEW h \in Helpers, HelperStep(h) \/ SpuriousWakeup(h) PROVE IInv'
  BY <1>4, TakeOwnLockStep, CheckEpochStep, ParkStep, SpuriousWakeupStep
     DEF HelperStep
<1>5. CASE UNCHANGED vars
  <2>. USE <1>5 DEF vars, sched_vars, root_vars, work_vars, IInv
  <2>1. TypeOK' /\ ModeInv' /\ DoneInv'
    BY DEF TypeOK, ModeInv, DoneInv
  <2>2. LockInv' /\ ActiveInv'
    BY DEF LockInv, MainOwns, ActiveInv, Active
  <2>3. WorkInv'
    BY DEF WorkInv
  <2>4. OnceInv' /\ MarkInv'
    BY DEF OnceInv, TracedOnce, MarkInv
  <2>5. RootInv'
    BY DEF RootInv
  <2>. QED  BY <2>1, <2>2, <2>3, <2>4, <2>5
<1>. QED  BY <1>1, <1>2, <1>3, <1>4, <1>5 DEF Next

\* The inductive invariant holds throughout.
THEOREM InvariantHolds == Spec => []IInv
BY InitIInv, NextIInv, PTL DEF Spec

\* The variables keep their types, for every number of workers and every heap.
THEOREM TypeCorrect == Spec => []TypeOK
<1>1. IInv => TypeOK
  BY DEF IInv
<1>. QED  BY <1>1, InvariantHolds, PTL

\* Between two traces worker 0 owns all the helpers' locks and no helper is
\* inside trace_with_data (parallel-tracer.h, gc_tracer_trace).
THEOREM HelpersParkedCorrect == Spec => []HelpersParked
<1>1. IInv => HelpersParked
  <2>. SUFFICES ASSUME IInv, pc[0] = "out"
                PROVE  /\ active_tracers = 0
                       /\ \A h \in Helpers : pc[h] \notin HelperHolds /\ lock[h] = 0
    BY DEF HelpersParked
  <2>1. \A h \in Helpers : pc[h] \notin HelperHolds /\ lock[h] = 0
    BY WorkerFacts DEF IInv, LockInv, MainOwns
  <2>2. Active = {}
    BY WorkerFacts, OthersIdle DEF IInv, Active, AtWork, TerminationCheck
  <2>. QED  BY <2>1, <2>2, FS_EmptySet DEF IInv, ActiveInv
<1>. QED  BY <1>1, InvariantHolds, PTL

\* No object is lost or traced twice by the workers' deques and hands.
THEOREM TracedOnceCorrect == Spec => []TracedOnce
<1>1. IInv => TracedOnce
  BY DEF IInv, OnceInv
<1>. QED  BY <1>1, InvariantHolds, PTL

\* When worker 0 is about to return, every root's object is marked; after a full
\* trace the marked objects are closed under Edges and no work is left.
LEMMA AtReset ==
  ASSUME IInv, pc[0] = "reset"
  PROVE  /\ rooted \subseteq marked
         /\ ~trace_roots_only =>
              /\ \A o \in marked : Edges[o] \subseteq marked
              /\ \A w \in Workers : deque[w] = {} /\ hand[w] = NoObject
<1>1. \A w \in Workers : pc[w] \notin {"visitroot", "visitobj"}
  BY WorkerFacts, OthersIdle DEF IInv
<1>2. \A w \in Workers : hand[w] = NoObject /\ todo[w] = {}
  BY <1>1 DEF IInv, WorkInv
<1>3. rooted \subseteq marked
  <2>1. read >= Len(roots) /\ read \in Nat /\ Len(roots) \in Nat
    BY DEF IInv, TypeOK, RootInv
  <2>. QED  BY <1>2, <2>1 DEF IInv, RootInv
<1>4. ~trace_roots_only => \A w \in Workers : deque[w] = {}
  BY DEF IInv, DoneInv
<1>5. \A o \in marked : o # NoObject
  BY TracerAssumption DEF IInv, TypeOK
<1>. QED  BY <1>2, <1>3, <1>4, <1>5 DEF IInv, MarkInv

\* Termination detection is right: when worker 0 leaves a full trace, the closure
\* of the roots is marked and no work is left anywhere.
THEOREM TraceCompleteCorrect == Spec => []TraceComplete
<1>1. IInv => TraceComplete
  BY AtReset DEF TraceComplete
<1>. QED  BY <1>1, InvariantHolds, PTL

--------------------------------------------------------------------------------
\* A trace that is under way stays the trace it is.
LEMMA SameTrace ==
  ASSUME UNCHANGED <<marked, rooted, trace_roots_only>>,
         (pc'[0] = "out") = (pc[0] = "out")
  PROVE  UNCHANGED Abstract!tracing_vars
BY DEF Abstract!tracing_vars, Running

\* Marking one object is a step of the abstract trace.
LEMMA VisitMarks ==
  ASSUME IInv, NEW w \in Workers, Visit(w)
  PROVE  [Abstract!TracingNext]_(Abstract!tracing_vars)
<1>. USE WorkerFacts DEF IInv
<1>1. PICK o \in todo[w] : tracer_visit(w, o)
  BY DEF Visit
<1>2. UNCHANGED <<pc, rooted, trace_roots_only>>
  BY DEF Visit, sched_vars, root_vars
<1>3. CASE o \in marked
  BY <1>1, <1>2, <1>3, SameTrace DEF tracer_visit
<1>4. CASE o \notin marked
  <2>1. pc[0] # "out" /\ Running # "no" /\ Running' = Running
    BY <1>2, OthersIdle DEF Visit, Running
  <2>2. pc[w] = "visitobj" => Running = "full"
    BY <2>1 DEF ModeInv, Running
  <2>3. \/ o \in rooted
        \/ Running = "full" /\ \E p \in marked : o \in Edges[p]
    BY <2>2 DEF Visit, WorkInv
  <2>4. o \in Objects /\ marked' = marked \cup {o}
    BY <1>1, <1>4 DEF TypeOK, tracer_visit
  <2>5. Abstract!Mark(o)
    BY <1>2, <2>1, <2>3, <2>4 DEF Abstract!Mark
  <2>. QED  BY <2>4, <2>5 DEF Abstract!TracingNext
<1>. QED  BY <1>3, <1>4

\* Every step of the parallel tracer is a step of the abstract trace, or none.
LEMMA StepRefines ==
  IInv /\ [Next]_vars => [Abstract!TracingNext]_(Abstract!tracing_vars)
<1>. SUFFICES ASSUME IInv, [Next]_vars
              PROVE  [Abstract!TracingNext]_(Abstract!tracing_vars)
  OBVIOUS
<1>. USE WorkerFacts DEF IInv
<1>1. ASSUME NEW only \in BOOLEAN, StartTrace(only)
      PROVE  Abstract!TracingNext
  <2>. DEFINE R == UNION {roots'[i] : i \in 1 .. Len(roots')}
              kind == IF only THEN "roots" ELSE "full"
  <2>1. R \in SUBSET Objects /\ kind \in {"roots", "full"}
    <3>1. roots' \in Seq(SUBSET Objects)
      BY <1>1, StartTraceStep DEF TypeOK
    <3>. QED  BY <3>1
  <2>2. Running = "no" /\ Running' = kind
    BY <1>1 DEF StartTrace, Goto, TypeOK, Running
  <2>3. Abstract!StartTrace(R, kind)
    BY <1>1, <2>2 DEF StartTrace, work_vars, Abstract!StartTrace
  <2>. QED  BY <2>1, <2>3 DEF Abstract!TracingNext
<1>2. CASE ResetRoots
  <2>1. Running # "no" /\ Running' = "no"
    BY <1>2 DEF ResetRoots, Goto, TypeOK, Running
  <2>2. Running = "full" => ~trace_roots_only
    BY DEF Running
  <2>3. Abstract!FinishTrace
    BY <1>2, <2>1, <2>2, AtReset
       DEF ResetRoots, work_vars, Abstract!FinishTrace, Abstract!Closed
  <2>. QED  BY <2>3 DEF Abstract!TracingNext
<1>3. CASE \/ UnlockHelper \/ Unpark \/ CountTracers \/ TryLock \/ Scan
           \/ UnlockBack \/ LockHelper
  <2>1. UNCHANGED <<marked, rooted, trace_roots_only>>
    BY <1>3 DEF UnlockHelper, Unpark, CountTracers, TryLock, Scan, UnlockBack,
                LockHelper, root_vars, work_vars
  <2>2. pc[0] # "out" /\ pc'[0] # "out"
    BY <1>3 DEF UnlockHelper, Unpark, CountTracers, TryLock, Scan, UnlockBack,
                LockHelper, tracer_unpark_all_workers, Goto, TypeOK
  <2>. QED  BY <2>1, <2>2, SameTrace
<1>4. ASSUME NEW w \in Workers, TraceStep(w), ~Visit(w)
      PROVE  UNCHANGED Abstract!tracing_vars
  <2>1. UNCHANGED <<marked, rooted, trace_roots_only>>
    BY <1>4 DEF TraceStep, Enter, PopRoot, RootDone, ObjectDone, PopOwn, Steal,
                Leave, root_vars, work_vars
  <2>2. pc[0] # "out"
    BY <1>4, OthersIdle
       DEF TraceStep, Enter, PopRoot, RootDone, ObjectDone, PopOwn, Steal, Leave
  <2>3. pc'[0] # "out"
    BY <1>4, <2>2
       DEF TraceStep, Enter, PopRoot, RootDone, ObjectDone, PopOwn, Steal,
         Leave,
           TakeObject, tracer_unpark_all_workers, Goto, TypeOK
  <2>. QED  BY <2>1, <2>2, <2>3, SameTrace
<1>5. ASSUME NEW h \in Helpers, HelperStep(h) \/ SpuriousWakeup(h)
      PROVE  UNCHANGED Abstract!tracing_vars
  <2>1. UNCHANGED <<marked, rooted, trace_roots_only>> /\ pc'[0] = pc[0]
    BY <1>5 DEF HelperStep, TakeOwnLock, CheckEpoch, Park, SpuriousWakeup, Goto,
                root_vars, work_vars, TypeOK
  <2>. QED  BY <2>1, SameTrace
<1>6. CASE UNCHANGED vars
  BY <1>6, SameTrace DEF vars, sched_vars, root_vars, work_vars
<1>7. ASSUME NEW w \in Workers, TraceStep(w)
      PROVE  [Abstract!TracingNext]_(Abstract!tracing_vars)
  BY <1>4, <1>7, VisitMarks
<1>. QED  BY <1>1, <1>2, <1>3, <1>5, <1>6, <1>7 DEF Next, MainStep

\* The parallel tracer implements module Tracing: whatever the workers do, the
\* collector sees objects marked one by one, only reachable ones, and a trace
\* that returns has marked all it had to.
THEOREM TracingImplemented == Spec => ImplementsTracing
<1>1. Init => Abstract!TracingInit
  BY WorkerFacts DEF Init, Abstract!TracingInit, Running
<1>. QED  BY <1>1, StepRefines, InvariantHolds, PTL
          DEF Spec, ImplementsTracing, Abstract!TracingSpec
================================================================================
