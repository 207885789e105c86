--------------------------- MODULE ParallelTracer ---------------------------
(***************************************************************************)
(* The parallel tracer (parallel-tracer.h, root-worklist.h).               *)
(*                                                                         *)
(* Worker 0 is the collecting thread, which calls gc_tracer_trace; the     *)
(* helpers 1 .. WorkerCount-1 are threads of their own.  A helper holds    *)
(* its own lock except while it sleeps in a condition wait; worker 0 holds *)
(* all the helpers' locks except while it traces, so owning every lock is  *)
(* how it knows that no helper is at work.                                 *)
(*                                                                         *)
(* A worker's deque (shared-worklist.h, module SharedWorklist) is a set    *)
(* here: pushing, popping and stealing are atomic, and which element comes *)
(* out is left open.  steal_id only fixes the order in which the victims   *)
(* are looked at; that order is left open too.                             *)
(***************************************************************************)
EXTENDS Integers, Sequences, FiniteSets

CONSTANTS Objects, Edges,   \* the heap graph, as in Tracing
          NoObject,
          WorkerCount,      \* tracer->worker_count
          RootBatches,      \* roots the collector adds before each trace: a
                            \* sequence of sequences of sets of objects
          MaxEpoch,         \* bound on tracer->epoch
          SpuriousWakeups   \* may a condition wait return on its own?

ASSUME TracerAssumption ==
  /\ Edges \in [Objects -> SUBSET Objects]
  /\ NoObject \notin Objects
  /\ WorkerCount \in Nat \ {0}
  /\ RootBatches \in Seq(Seq(SUBSET Objects))
  /\ MaxEpoch \in Nat
  /\ SpuriousWakeups \in BOOLEAN

Workers == 0 .. WorkerCount - 1
Helpers == 1 .. WorkerCount - 1
Free == -1                    \* a lock nobody owns

VARIABLES
  roots, read,        \* the root worklist: its entries, and entries handed out
  trace_roots_only,   \* tracer->trace_roots_only
  active_tracers,     \* tracer->active_tracers
  epoch,              \* tracer->epoch
  trace_epoch,        \* local of trace_worker_thread
  lock,               \* lock[h]: owner of workers[h].lock: h, 0 or Free
  pc,                 \* where each worker is
  locked,             \* worker 0: loop variable over the helpers' locks
  unseen,             \* deques a worker has still to look into
  deque,              \* workers[w].shared, as a set
  hand,               \* the object the worker is tracing
  todo,               \* edges of that object, or of a root, still to visit
  marked,             \* mark bits of the heap
  rooted,             \* history: the objects the roots named so far
  batch               \* how many root batches have been added

sched_vars == <<active_tracers, epoch, trace_epoch, lock, pc, locked>>
root_vars == <<roots, read, trace_roots_only, rooted, batch>>
work_vars == <<deque, hand, todo, marked>>
vars == <<sched_vars, root_vars, work_vars, unseen>>

\* A helper is   blocked (asking for its lock) -> check -> (enter | park -> wait);
\* worker 0 is   out -> unlock -> unpark -> enter  and after its share of the
\* work          lockall,  or  check -> trylock -> scan (or unlockback), -> reset.
\* Both trace by enter -> roots <-> visitroot, objs <-> (steal | visitobj), leave.
AtWork == {"roots", "visitroot", "objs", "steal", "visitobj", "leave"}
HelperHolds == {"check", "park", "enter"} \cup AtWork
TerminationCheck == {"count", "trylock", "scan", "unlockback", "lockall"}
HelperLabels == {"blocked", "wait"} \cup HelperHolds
MainLabels == {"out", "unlock", "unpark", "enter", "reset"}
                \cup AtWork \cup TerminationCheck

Init ==
  /\ roots = <<>> /\ read = 0
  /\ trace_roots_only = FALSE
  /\ active_tracers = 0
  /\ epoch = 0
  /\ trace_epoch = [h \in Helpers |-> 0]
  /\ lock = [h \in Helpers |-> 0]
  /\ pc = [w \in Workers |-> IF w = 0 THEN "out" ELSE "blocked"]
  /\ locked = WorkerCount
  /\ unseen = [w \in Workers |-> {}]
  /\ deque = [w \in Workers |-> {}]
  /\ hand = [w \in Workers |-> NoObject]
  /\ todo = [w \in Workers |-> {}]
  /\ marked = {}
  /\ rooted = {}
  /\ batch = 0

Goto(w, l) == pc' = [pc EXCEPT ![w] = l]

--------------------------------------------------------------------------------
\* trace_worker_thread: the life of a helper.

\* pthread_mutex_lock at the start, or inside the return of the condition wait.
TakeOwnLock(h) ==
  /\ pc[h] = "blocked"
  /\ lock[h] = Free
  /\ lock' = [lock EXCEPT ![h] = h]
  /\ Goto(h, "check")
  /\ UNCHANGED <<active_tracers, epoch, trace_epoch, locked, root_vars,
                 work_vars, unseen>>

\* Load the epoch: trace if it has moved on.
CheckEpoch(h) ==
  /\ pc[h] = "check"
  /\ IF trace_epoch[h] # epoch
     THEN /\ trace_epoch' = [trace_epoch EXCEPT ![h] = epoch]
          /\ Goto(h, "enter")
     ELSE Goto(h, "park") /\ UNCHANGED trace_epoch
  /\ UNCHANGED <<active_tracers, epoch, lock, locked, root_vars, work_vars,
                 unseen>>

\* pthread_cond_wait: give the lock back and sleep.
Park(h) ==
  /\ pc[h] = "park"
  /\ lock' = [lock EXCEPT ![h] = Free]
  /\ Goto(h, "wait")
  /\ UNCHANGED <<active_tracers, epoch, trace_epoch, locked, root_vars,
                 work_vars, unseen>>

\* The wait may return by itself.
SpuriousWakeup(h) ==
  /\ SpuriousWakeups
  /\ pc[h] = "wait"
  /\ Goto(h, "blocked")
  /\ UNCHANGED <<active_tracers, epoch, trace_epoch, lock, locked, root_vars,
                 work_vars, unseen>>

\* tracer_unpark_all_workers: next epoch, and wake whoever sleeps.  next is
\* where worker 0 goes on.
tracer_unpark_all_workers(next) ==
  /\ epoch' = epoch + 1
  /\ pc' = [w \in Workers |-> IF w = 0 THEN next
                              ELSE IF pc[w] = "wait" THEN "blocked" ELSE pc[w]]

--------------------------------------------------------------------------------
\* gc_tracer_trace: worker 0.

\* The collector adds roots and calls gc_tracer_trace or gc_tracer_trace_roots.
StartTrace(only) ==
  /\ pc[0] = "out"
  /\ batch < Len(RootBatches)
  /\ epoch < MaxEpoch
  /\ batch' = batch + 1
  /\ roots' = roots \o RootBatches[batch']
  /\ rooted' = rooted \cup UNION {roots'[i] : i \in 1 .. Len(roots')}
  /\ trace_roots_only' = only
  /\ locked' = 1
  /\ Goto(0, "unlock")
  /\ UNCHANGED <<read, active_tracers, epoch, trace_epoch, lock, work_vars,
                 unseen>>

\* Let the helpers go, one after the other.
UnlockHelper ==
  /\ pc[0] = "unlock"
  /\ IF locked < WorkerCount
     THEN /\ lock' = [lock EXCEPT ![locked] = Free]
          /\ locked' = locked + 1
          /\ UNCHANGED pc
     ELSE Goto(0, "unpark") /\ UNCHANGED <<lock, locked>>
  /\ UNCHANGED <<active_tracers, epoch, trace_epoch, root_vars, work_vars,
                 unseen>>

Unpark ==
  /\ pc[0] = "unpark"
  /\ tracer_unpark_all_workers("enter")
  /\ UNCHANGED <<active_tracers, trace_epoch, lock, locked, root_vars, work_vars,
                 unseen>>

\* root_worklist_reset and the return; gc_tracer_trace_roots clears its flag.
ResetRoots ==
  /\ pc[0] = "reset"
  /\ roots' = <<>> /\ read' = 0
  /\ trace_roots_only' = FALSE
  /\ Goto(0, "out")
  /\ UNCHANGED <<active_tracers, epoch, trace_epoch, lock, locked, rooted, batch,
                 work_vars, unseen>>

--------------------------------------------------------------------------------
\* trace_with_data: every worker.

Enter(w) ==
  /\ pc[w] = "enter"
  /\ active_tracers' = active_tracers + 1
  /\ Goto(w, "roots")
  /\ UNCHANGED <<epoch, trace_epoch, lock, locked, root_vars, work_vars, unseen>>

\* Mutant: the last root of the worklist is left out.
PopRootButLast(w) ==
  /\ pc[w] = "roots"
  /\ read' = read + 1
  /\ IF read + 1 < Len(roots)
     THEN /\ todo' = [todo EXCEPT ![w] = roots[read + 1]]
          /\ Goto(w, "visitroot")
          /\ UNCHANGED locked
     ELSE /\ IF ~trace_roots_only THEN Goto(w, "objs") /\ UNCHANGED locked
             ELSE IF w = 0 THEN Goto(w, "lockall") /\ locked' = 1
             ELSE Goto(w, "leave") /\ UNCHANGED locked
          /\ UNCHANGED todo
  /\ UNCHANGED <<active_tracers, epoch, trace_epoch, lock, roots,
                 trace_roots_only, rooted, batch, deque, hand, marked, unseen>>

\* root_worklist_pop: a fetch-and-add hands out the entries.  Past the last one
\* the worker goes on to the objects, unless only the roots are to be traced.
PopRoot(w) ==
  /\ pc[w] = "roots"
  /\ read' = read + 1
  /\ IF read < Len(roots)
     THEN /\ todo' = [todo EXCEPT ![w] = roots[read + 1]]
          /\ Goto(w, "visitroot")
          /\ UNCHANGED locked
     ELSE /\ IF ~trace_roots_only THEN Goto(w, "objs") /\ UNCHANGED locked
             ELSE IF w = 0 THEN Goto(w, "lockall") /\ locked' = 1
             ELSE Goto(w, "leave") /\ UNCHANGED locked
          /\ UNCHANGED todo
  /\ UNCHANGED <<active_tracers, epoch, trace_epoch, lock, roots,
                 trace_roots_only, rooted, batch, deque, hand, marked, unseen>>

\* Mutant: enqueue whether or not we were first to mark.
tracer_visit_again(w, o) ==
  /\ marked' = marked \cup {o}
  /\ deque' = [deque EXCEPT ![w] = @ \cup {o}]

\* tracer_visit of one edge: mark atomically, enqueue if we were first.
tracer_visit(w, o) ==
  IF o \in marked THEN UNCHANGED <<marked, deque>>
  ELSE /\ marked' = marked \cup {o}
       /\ deque' = [deque EXCEPT ![w] = @ \cup {o}]

Visit(w) ==
  /\ pc[w] \in {"visitroot", "visitobj"}
  /\ \E o \in todo[w] : /\ tracer_visit(w, o)
                        /\ todo' = [todo EXCEPT ![w] = @ \ {o}]
  /\ UNCHANGED <<sched_vars, root_vars, hand, unseen>>

\* The end of trace_root.
RootDone(w) ==
  /\ pc[w] = "visitroot" /\ todo[w] = {}
  /\ Goto(w, "roots")
  /\ UNCHANGED <<active_tracers, epoch, trace_epoch, lock, locked, root_vars,
                 work_vars, unseen>>

\* The end of trace_one; now and then (every 128 objects) worker 0 wakes the
\* helpers if it has work to share and some of them are not active.
ObjectDone(w) ==
  /\ pc[w] = "visitobj" /\ todo[w] = {}
  /\ hand' = [hand EXCEPT ![w] = NoObject]
  /\ \/ Goto(w, "objs") /\ UNCHANGED epoch
     \/ /\ w = 0 /\ deque[0] # {} /\ active_tracers < WorkerCount
        /\ epoch < MaxEpoch
        /\ tracer_unpark_all_workers("objs")
  /\ UNCHANGED <<active_tracers, trace_epoch, lock, locked, root_vars, deque, todo,
                 marked, unseen>>

\* Take o out of the deque of worker v and begin trace_one.
TakeObject(w, v) ==
  \E o \in deque[v] :
    /\ deque' = [deque EXCEPT ![v] = @ \ {o}]
    /\ hand' = [hand EXCEPT ![w] = o]
    /\ todo' = [todo EXCEPT ![w] = Edges[o]]
    /\ Goto(w, "visitobj")

\* shared_worklist_try_pop, else go and steal.
PopOwn(w) ==
  /\ pc[w] = "objs"
  /\ \/ TakeObject(w, w) /\ UNCHANGED unseen
     \/ /\ deque[w] = {}
        /\ unseen' = [unseen EXCEPT ![w] = Workers]
        /\ Goto(w, "steal")
        /\ UNCHANGED <<deque, hand, todo>>
  /\ UNCHANGED <<active_tracers, epoch, trace_epoch, lock, locked, root_vars,
                 marked>>

\* trace_worker_steal_from_any looks at one deque; with none left to look at,
\* trace_worker_should_continue sends a helper home and makes worker 0 check
\* for termination.
Steal(w) ==
  /\ pc[w] = "steal"
  /\ \/ /\ \E v \in unseen[w] : TakeObject(w, v)
        /\ UNCHANGED unseen
     \/ /\ \E v \in unseen[w] : /\ deque[v] = {}
                                /\ unseen' = [unseen EXCEPT ![w] = @ \ {v}]
        /\ UNCHANGED <<pc, deque, hand, todo>>
     \/ /\ unseen[w] = {}
        /\ Goto(w, IF w = 0 THEN "count" ELSE "leave")
        /\ UNCHANGED <<unseen, deque, hand, todo>>
  /\ UNCHANGED <<active_tracers, epoch, trace_epoch, lock, locked, root_vars,
                 marked>>

Leave(w) ==
  /\ pc[w] = "leave"
  /\ active_tracers' = active_tracers - 1
  /\ Goto(w, IF w = 0 THEN "reset" ELSE "park")
  /\ UNCHANGED <<epoch, trace_epoch, lock, locked, root_vars, work_vars, unseen>>

--------------------------------------------------------------------------------
\* trace_worker_should_continue: worker 0 looks for termination.

\* Mutants: the count of tracers alone decides; and an idle worker 0 is enough.
CountTracersOnly ==
  /\ pc[0] = "count"
  /\ Goto(0, IF active_tracers # 1 THEN "objs" ELSE "leave")
  /\ UNCHANGED <<active_tracers, epoch, trace_epoch, lock, locked, root_vars,
                 work_vars, unseen>>
CountNothing ==
  /\ pc[0] = "count"
  /\ Goto(0, "leave")
  /\ UNCHANGED <<active_tracers, epoch, trace_epoch, lock, locked, root_vars,
                 work_vars, unseen>>

\* Others are active: spin.
CountTracers ==
  /\ pc[0] = "count"
  /\ IF active_tracers # 1 THEN Goto(0, "objs") /\ UNCHANGED locked
     ELSE Goto(0, "trylock") /\ locked' = 1
  /\ UNCHANGED <<active_tracers, epoch, trace_epoch, lock, root_vars, work_vars,
                 unseen>>

TryLock ==
  /\ pc[0] = "trylock"
  /\ IF locked = WorkerCount
     THEN /\ Goto(0, "scan")
          /\ unseen' = [unseen EXCEPT ![0] = Workers]
          /\ UNCHANGED <<lock, locked>>
     ELSE /\ IF lock[locked] = Free
             THEN /\ lock' = [lock EXCEPT ![locked] = 0]
                  /\ locked' = locked + 1
                  /\ UNCHANGED pc
             ELSE Goto(0, "unlockback") /\ UNCHANGED <<lock, locked>>
          /\ UNCHANGED unseen
  /\ UNCHANGED <<active_tracers, epoch, trace_epoch, root_vars, work_vars>>

\* trace_worker_can_steal_from_any, with all the locks held.
Scan ==
  /\ pc[0] = "scan"
  /\ \/ /\ unseen[0] = {}
        /\ Goto(0, "leave")
        /\ UNCHANGED unseen
     \/ \E v \in unseen[0] :
          IF deque[v] # {} THEN Goto(0, "unlockback") /\ UNCHANGED unseen
          ELSE /\ unseen' = [unseen EXCEPT ![0] = @ \ {v}]
               /\ UNCHANGED pc
  /\ UNCHANGED <<active_tracers, epoch, trace_epoch, lock, locked, root_vars,
                 work_vars>>

\* Mutant: the locks taken so far are kept.
UnlockBackNot ==
  /\ pc[0] = "unlockback"
  /\ Goto(0, "objs")
  /\ UNCHANGED <<active_tracers, epoch, trace_epoch, lock, locked, root_vars,
                 work_vars, unseen>>

UnlockBack ==
  /\ pc[0] = "unlockback"
  /\ IF locked > 1
     THEN /\ locked' = locked - 1
          /\ lock' = [lock EXCEPT ![locked - 1] = Free]
          /\ UNCHANGED pc
     ELSE Goto(0, "objs") /\ UNCHANGED <<lock, locked>>
  /\ UNCHANGED <<active_tracers, epoch, trace_epoch, root_vars, work_vars,
                 unseen>>

\* The end of a roots-only trace: wait for every helper to finish its root.
LockHelper ==
  /\ pc[0] = "lockall"
  /\ IF locked < WorkerCount
     THEN /\ lock[locked] = Free
          /\ lock' = [lock EXCEPT ![locked] = 0]
          /\ locked' = locked + 1
          /\ UNCHANGED pc
     ELSE Goto(0, "leave") /\ UNCHANGED <<lock, locked>>
  /\ UNCHANGED <<active_tracers, epoch, trace_epoch, root_vars, work_vars,
                 unseen>>

--------------------------------------------------------------------------------
MainStep ==
  \/ UnlockHelper \/ Unpark \/ ResetRoots
  \/ CountTracers \/ TryLock \/ Scan \/ UnlockBack \/ LockHelper

TraceStep(w) ==
  \/ Enter(w) \/ PopRoot(w) \/ Visit(w) \/ RootDone(w) \/ ObjectDone(w)
  \/ PopOwn(w) \/ Steal(w) \/ Leave(w)

HelperStep(h) == TakeOwnLock(h) \/ CheckEpoch(h) \/ Park(h)

Next ==
  \/ \E only \in BOOLEAN : StartTrace(only)
  \/ MainStep
  \/ \E w \in Workers : TraceStep(w)
  \/ \E h \in Helpers : HelperStep(h) \/ SpuriousWakeup(h)

Spec == Init /\ [][Next]_vars

\* Every thread keeps running; when the collector traces and whether a wait
\* returns by itself is left open.
FairSpec ==
  /\ Spec
  /\ WF_vars(MainStep)
  /\ \A w \in Workers : WF_vars(TraceStep(w))
  /\ \A h \in Helpers : WF_vars(HelperStep(h))

--------------------------------------------------------------------------------
TypeOK ==
  /\ roots \in Seq(SUBSET Objects)
  /\ read \in Nat
  /\ trace_roots_only \in BOOLEAN
  /\ active_tracers \in Nat
  /\ epoch \in Nat
  /\ trace_epoch \in [Helpers -> Nat]
  /\ lock \in [Helpers -> {Free} \cup Workers]
  /\ pc \in [Workers -> MainLabels \cup HelperLabels]
  /\ pc[0] \in MainLabels /\ \A h \in Helpers : pc[h] \in HelperLabels
  /\ locked \in 1 .. WorkerCount
  /\ unseen \in [Workers -> SUBSET Workers]
  /\ deque \in [Workers -> SUBSET Objects]
  /\ hand \in [Workers -> Objects \cup {NoObject}]
  /\ todo \in [Workers -> SUBSET Objects]
  /\ marked \in SUBSET Objects
  /\ rooted \in SUBSET Objects
  /\ batch \in Nat

\* Outside a trace no helper is at work or can get to work: worker 0 owns every
\* lock, and active_tracers is zero (asserted by gc_tracer_trace_roots).
HelpersParked ==
  pc[0] = "out" =>
    /\ active_tracers = 0
    /\ \A h \in Helpers : pc[h] \notin HelperHolds /\ lock[h] = 0

\* When a full trace is over nothing is left to do: all the roots' objects are
\* marked, the marked objects' edges lead to marked objects, no deque has work.
TraceComplete ==
  pc[0] = "reset" /\ ~trace_roots_only =>
    /\ rooted \subseteq marked
    /\ \A o \in marked : Edges[o] \subseteq marked
    /\ \A w \in Workers : deque[w] = {} /\ hand[w] = NoObject

\* An object is enqueued by whoever marks it and traced by whoever takes it: it
\* is never in two deques, in two hands, or in a deque and in a hand.
TracedOnce ==
  /\ \A v, w \in Workers : v # w =>
       deque[v] \cap deque[w] = {} /\ (hand[v] = hand[w] => hand[v] = NoObject)
  /\ \A v, w \in Workers : hand[w] \notin deque[v]

\* The trace under way, as module Tracing sees it.
Running == IF pc[0] = "out" THEN "no"
           ELSE IF trace_roots_only THEN "roots" ELSE "full"

\* The tracer implements what the collector relies on.
Abstract == INSTANCE Tracing WITH running <- Running
ImplementsTracing == Abstract!TracingSpec

\* Every trace comes to its end, whether or not the helpers hear the wakeup, unless
\* condition waits return on their own for ever, which may keep a helper's lock busy.
TraceTerminates ==
  <>[][~ \E h \in Helpers : SpuriousWakeup(h)]_vars
    => (pc[0] = "unlock" ~> pc[0] = "out")
================================================================================
