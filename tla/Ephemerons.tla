----------------------------- MODULE Ephemerons -----------------------------
(***************************************************************************)
(* Ephemerons and finalizers in a collection (gc-ephemeron.c,              *)
(* gc-finalizer.c and the parts of mmc.c that drive them).                 *)
(*                                                                         *)
(* The workers trace objects concurrently.  How they find and share work   *)
(* is ParallelTracer's subject; here an idle worker takes any enqueued     *)
(* object, and the trace ends when there is none and all are idle.  One    *)
(* atomic operation on an ephemeron's state, on a list or on an object's   *)
(* mark is one step.  The steps of the collector between traces run alone  *)
(* and are atomic.                                                         *)
(*                                                                         *)
(* Memory is sequentially consistent: the exchange that marks an object    *)
(* takes effect before its worker reads the pending table.                 *)
(***************************************************************************)
EXTENDS Integers, FiniteSets, SequencesExt

CONSTANTS
  Crews,          \* the sets of workers that the parallelism option may make
  Objects, Ephemerons, Null,
  Edges,          \* the references in an object that is not an ephemeron
  Key, Value,     \* the association of each ephemeron
  Table,          \* the object whose chain an ephemeron is pushed on
  Bucket,         \* hash of an object's address, scaled to the pending table
  Evacuated,      \* objects for which nofl_space_should_evacuate holds
  Finalizers,
  Object,         \* gc_finalizer_object
  Priority, PriorityCount,   \* gc_finalizer_priority_count
  Kept,           \* bound: objects that mutators always hold
  \* Bounds, by the number of workers.
  MaxRoots,       \* what mutators hold when a collection starts
  MaxDead,        \* the ephemerons that mutators mark as dead
  MaxCount        \* the number of collections

Plain == Objects \ Ephemerons

ASSUME EphemeronAssumption ==
  /\ Ephemerons \subseteq Objects /\ Null \notin Objects
  /\ Edges \in [Plain -> SUBSET Plain]
  /\ Key \in [Ephemerons -> Plain] /\ Value \in [Ephemerons -> Plain]
  /\ Table \in [Ephemerons -> Plain]
  /\ Bucket \in [Objects -> Nat]
  /\ Evacuated \subseteq Objects
  /\ Object \in [Finalizers -> Plain] /\ PriorityCount \in Nat
  /\ Priority \in [Finalizers -> 0 .. PriorityCount - 1]
  /\ Kept \subseteq Plain
  /\ \A crew \in Crews : LET n == Cardinality(crew) IN
       MaxRoots[n] \in Nat /\ MaxDead[n] \in Nat /\ MaxCount[n] \in Nat

VARIABLES
  phase,      \* how far collect has come, "mutator" between collections
  priority,   \* the next finalizer table to resolve
  count,      \* heap->count, which is the ephemeron epoch
  check,      \* heap->check_pending_ephemerons
  mutator,    \* [roots, heads]: what mutators hold, the chain heads in tables
  fin,        \* the state of each finalizer
  mark,       \* the mark of each object: white, busy, marked or forwarded
  grey,       \* objects enqueued for tracing
  root_edges, root_list,   \* roots for the tracer: edges, resolved ephemerons
  eph,        \* struct gc_ephemeron; a key is a reference "from" before the
              \* collection or "to" after it, or Null
  bucket, resolved,   \* struct gc_pending_ephemerons
  worker      \* where each worker is, with its registers

heap_vars == <<phase, priority, count, check>>
work_vars == <<grey, root_edges, root_list>>
eph_vars == <<eph, bucket, resolved>>
vars == <<heap_vars, mutator, fin, mark, work_vars, eph_vars, worker>>

Workers == DOMAIN worker
Parallelism == Cardinality(Workers)

\* What no step of a worker changes.
GivenToWorkers == <<heap_vars, mutator, fin>>

Buckets == {Bucket[o] : o \in Objects}

not_dead(e) == eph[e].key # Null
ephemeron_is_pending(e) == eph[e].state = "PENDING"
chain(e) == eph[e].chain
pending(e) == eph[e].pending
resolved_link(e) == eph[e].resolved

\* The first node, from e on, for which is_live holds (ephemeron_list_follow).
FirstLive(e, next(_), is_live(_)) ==
  LET skip[n \in 0 .. Cardinality(Ephemerons)] ==
        LET x == IF n = 0 THEN e ELSE skip[n - 1]
        IN IF x = Null \/ is_live(x) THEN x ELSE next(x)
  IN skip[Cardinality(Ephemerons)]

\* Mutant: give up at a dead node.
FirstOrNone(e) == IF e = Null \/ not_dead(e) THEN e ELSE Null

\* A chain from e on, without the dead ephemerons it starts with.
live_head(e) == FirstLive(e, chain, not_dead)

follow_chain(e) == live_head(eph[e].chain)

\* The nodes of the list that starts with e.
Listed(e, next(_)) ==
  LET upto[n \in 0 .. Cardinality(Ephemerons)] ==
        IF n = 0 THEN {e} \ {Null}
        ELSE LET s == upto[n - 1] IN s \cup ({next(x) : x \in s} \ {Null})
  IN upto[Cardinality(Ephemerons)]

\* The ephemerons in the pending table, those elsewhere already included.
InTable == UNION {Listed(bucket[b], pending) : b \in Buckets}
Pending == {e \in InTable : ephemeron_is_pending(e)}

Traced(o) == mark[o] \in {"marked", "forwarded"}

--------------------------------------------------------------------------------
\* What a collection should keep: the reference definition.

References(o) == Edges[o] \cup ({mutator.heads[o]} \ {Null})

\* What a live object keeps alive, given what is known to be live.
Keeps(o, live) ==
  IF o \in Plain THEN References(o)
  ELSE ({follow_chain(o)} \ {Null})
       \cup (IF not_dead(o) /\ Key[o] \in live THEN {Value[o]} ELSE {})

\* Everything that the objects in from keep alive.
LiveFrom(from) ==
  LET upto[n \in 0 .. Cardinality(Objects)] ==
        IF n = 0 THEN from
        ELSE LET s == upto[n - 1] IN s \cup UNION {Keeps(o, s) : o \in s}
  IN upto[Cardinality(Objects)]

\* Fired finalizers are on a list that is a root, and hold their objects.
Rooted == mutator.roots \cup {Object[f] : f \in {g \in Finalizers : fin[g] = "FIRED"}}

--------------------------------------------------------------------------------

Idle == [at |-> "idle", obj |-> Null, todo |-> {}, edge |-> Null, ret |-> "idle",
         loc |-> Null, head |-> Null, link |-> Null]

Init ==
  /\ phase = "mutator" /\ priority = 0 /\ count = 0 /\ check = FALSE
  /\ mutator = [roots |-> Plain, heads |-> [t \in Plain |-> Null]]
  /\ fin = [f \in Finalizers |-> "INIT"]
  /\ mark = [o \in Objects |-> "white"]
  /\ grey = {} /\ root_edges = {} /\ root_list = Null
  /\ eph = [e \in Ephemerons |-> [state |-> "NONE", epoch |-> 0, chain |-> Null,
                                  pending |-> Null, resolved |-> Null, key |-> Null]]
  /\ bucket = [b \in Buckets |-> Null] /\ resolved = Null
  /\ \E crew \in Crews : worker = [w \in crew |-> Idle]

--------------------------------------------------------------------------------
\* Mutators, between collections.

Held == LiveFrom(mutator.roots)

\* gc_ephemeron_init_internal.  An epoch of -1 stands for the largest unsigned
\* number.
NewbornEpoch == count - 1

\* A new ephemeron, and gc_ephemeron_chain_push.
NewEphemeron(e) ==
  /\ phase = "mutator" /\ eph[e].state = "NONE"
  /\ {Table[e], Key[e], Value[e]} \subseteq Held
  /\ eph' = [eph EXCEPT ![e] =
       [state |-> "TRACED", epoch |-> NewbornEpoch, chain |-> mutator.heads[Table[e]],
        pending |-> Null, resolved |-> Null, key |-> "to"]]
  /\ mutator' = [mutator EXCEPT !.heads[Table[e]] = e]
  /\ UNCHANGED <<heap_vars, fin, mark, work_vars, bucket, resolved, worker>>

gc_ephemeron_mark_dead(e) ==
  /\ phase = "mutator" /\ e \in Held /\ not_dead(e)
  /\ Cardinality({d \in Ephemerons : eph[d].state # "NONE" /\ ~not_dead(d)}) < MaxDead[Parallelism]
  /\ eph' = [eph EXCEPT ![e].key = Null]
  /\ UNCHANGED <<heap_vars, mutator, fin, mark, work_vars, bucket, resolved, worker>>

gc_ephemeron_chain_head(t) ==
  /\ phase = "mutator" /\ t \in Held
  /\ mutator' = [mutator EXCEPT !.heads[t] = live_head(@)]
  /\ UNCHANGED <<heap_vars, fin, mark, work_vars, eph_vars, worker>>

gc_ephemeron_chain_next(e) ==
  /\ phase = "mutator" /\ e \in Held
  /\ eph' = [eph EXCEPT ![e].chain = follow_chain(e)]
  /\ UNCHANGED <<heap_vars, mutator, fin, mark, work_vars, bucket, resolved, worker>>

\* gc_finalizer_init_internal and gc_finalizer_attach_internal.
AttachFinalizer(f) ==
  /\ phase = "mutator" /\ fin[f] = "INIT" /\ Object[f] \in Held
  /\ fin' = [fin EXCEPT ![f] = "ACTIVE"]
  /\ UNCHANGED <<heap_vars, mutator, mark, work_vars, eph_vars, worker>>

\* gc_finalizer_state_pop; the mutator may keep the object.
PopFinalizer(f) ==
  /\ phase = "mutator" /\ fin[f] = "FIRED"
  /\ fin' = [fin EXCEPT ![f] = "POPPED"]
  /\ \E keep \in SUBSET {Object[f]} :
       mutator' = [mutator EXCEPT !.roots = @ \cup keep]
  /\ UNCHANGED <<heap_vars, mark, work_vars, eph_vars, worker>>

DropRoot(o) ==
  /\ phase = "mutator" /\ o \in mutator.roots \ Kept
  /\ mutator' = [mutator EXCEPT !.roots = @ \ {o}]
  /\ UNCHANGED <<heap_vars, fin, mark, work_vars, eph_vars, worker>>

--------------------------------------------------------------------------------
\* Worker steps.  Registers: at, where the worker is; obj, what it traces; todo,
\* the edges left in obj; edge and ret, the argument and the return address of
\* trace_edge; loc, head and link, those of follow_pending; head also holds the
\* tail that a push expects.

Goto(w, at) == worker' = [worker EXCEPT ![w].at = at]
Done(w) == worker' = [worker EXCEPT ![w] = Idle]

\* Call trace_edge for the object o.
Visit(w, o, ret) ==
  worker' = [worker EXCEPT ![w].at = "mark", ![w].edge = o, ![w].ret = ret]

\* Return from trace_edge.
Return(w) ==
  LET r == worker[w] IN
  worker' = [worker EXCEPT ![w] = IF r.ret = "idle" THEN Idle ELSE
               [Idle EXCEPT !.at = r.ret, !.obj = r.obj, !.todo = r.todo]]

VisitRoot(w) ==
  /\ worker[w].at = "idle"
  /\ \E o \in root_edges : root_edges' = root_edges \ {o} /\ Visit(w, o, "idle")
  /\ UNCHANGED <<GivenToWorkers, mark, grey, root_list, eph_vars>>

TakeObject(w) ==
  /\ worker[w].at = "idle"
  /\ \E o \in grey :
       /\ grey' = grey \ {o}
       /\ worker' = [worker EXCEPT ![w] =
            IF o \in Ephemerons THEN [Idle EXCEPT !.at = "claim", !.obj = o]
            ELSE [Idle EXCEPT !.at = "edges", !.obj = o, !.todo = References(o)]]
  /\ UNCHANGED <<GivenToWorkers, mark, root_edges, root_list, eph_vars>>

VisitEdge(w) ==
  /\ worker[w].at = "edges"
  /\ \/ worker[w].todo = {} /\ Done(w)
     \/ \E o \in worker[w].todo :
          worker' = [worker EXCEPT ![w].at = "mark", ![w].edge = o,
                       ![w].ret = "edges", ![w].todo = @ \ {o}]
  /\ UNCHANGED <<GivenToWorkers, mark, work_vars, eph_vars>>

\* The worker marked an object: it looks for pending ephemerons if it should
\* check, and enqueues the object.
Shaded(w) ==
  IF check THEN /\ worker' = [worker EXCEPT ![w].at = "follow",
                                            ![w].loc = Bucket[worker[w].edge]]
                /\ UNCHANGED grey
  ELSE grey' = grey \cup {worker[w].edge} /\ Return(w)

\* do_trace: a worker that finds the object busy spins until it is not.
Mark(w) ==
  LET o == worker[w].edge IN
  /\ worker[w].at = "mark"
  /\ \/ Traced(o) /\ Return(w) /\ UNCHANGED <<mark, grey>>
     \/ /\ mark[o] = "white" /\ o \notin Evacuated
        /\ mark' = [mark EXCEPT ![o] = "marked"]
        /\ Shaded(w)
     \/ /\ mark[o] = "white" /\ o \in Evacuated
        /\ mark' = [mark EXCEPT ![o] = "busy"]
        /\ Goto(w, "copy") /\ UNCHANGED grey
  /\ UNCHANGED <<GivenToWorkers, root_edges, root_list, eph_vars>>

\* nofl_space_evacuate: without room, the object is marked in place.
Copy(w) ==
  /\ worker[w].at = "copy"
  /\ \E m \in {"forwarded", "marked"} : mark' = [mark EXCEPT ![worker[w].edge] = m]
  /\ Shaded(w)
  /\ UNCHANGED <<GivenToWorkers, root_edges, root_list, eph_vars>>

--------------------------------------------------------------------------------
\* gc_resolve_pending_ephemerons: the walk of a bucket.

At(loc) == IF loc \in Ephemerons THEN eph[loc].pending ELSE bucket[loc]

\* follow_pending returns e.
Found(w, e) ==
  worker' = [worker EXCEPT ![w].at = IF e = Null THEN "enqueue" ELSE "match",
                           ![w].link = e, ![w].head = Null, ![w].loc = Null]

\* Skip dead nodes from head on.
Skip(w, head) ==
  LET e == FirstLive(head, pending, ephemeron_is_pending)
  IN IF e = head THEN Found(w, e)
     ELSE worker' = [worker EXCEPT ![w].at = "advance", ![w].head = head,
                                   ![w].link = e]

Follow(w) ==
  /\ worker[w].at = "follow"
  /\ Skip(w, At(worker[w].loc))
  /\ UNCHANGED <<GivenToWorkers, mark, work_vars, eph_vars>>

\* The compare-and-swap that moves the location past dead nodes.
Advance(w) ==
  LET r == worker[w]
      now == At(r.loc)
  IN
  /\ r.at = "advance"
  /\ \/ /\ now = r.head
        /\ IF r.loc \in Ephemerons
           THEN eph' = [eph EXCEPT ![r.loc].pending = r.link] /\ UNCHANGED bucket
           ELSE bucket' = [bucket EXCEPT ![r.loc] = r.link] /\ UNCHANGED eph
        /\ Found(w, r.link)
     \/ /\ now # r.head
        /\ IF now = r.link THEN Found(w, r.link) ELSE Skip(w, now)
        /\ UNCHANGED <<eph, bucket>>
  /\ UNCHANGED <<GivenToWorkers, mark, work_vars, resolved>>

\* Compare the object with the key of the link; visiting the key forwards it.
Match(w) ==
  LET e == worker[w].link
      o == worker[w].edge
  IN
  /\ worker[w].at = "match"
  /\ IF Key[e] = o /\ (eph[e].key = "from" \/ mark[o] = "marked")
     THEN eph' = [eph EXCEPT ![e].key = "to"] /\ Goto(w, "resolve")
     ELSE /\ worker' = [worker EXCEPT ![w].at = "follow", ![w].loc = e,
                                      ![w].link = Null]
          /\ UNCHANGED eph
  /\ UNCHANGED <<GivenToWorkers, mark, work_vars, bucket, resolved>>

\* maybe_resolve_ephemeron is called for the link of a walk, or by the worker
\* that published its object.
Candidate(w) == IF worker[w].link = Null THEN worker[w].obj ELSE worker[w].link

AfterResolve(w) ==
  IF worker[w].link = Null THEN Done(w)
  ELSE worker' = [worker EXCEPT ![w].at = "follow", ![w].loc = worker[w].link,
                                ![w].head = Null, ![w].link = Null]

\* Mutant: resolve without looking at the state.
AlwaysResolve(e) == TRUE

MayResolve(e) == ephemeron_is_pending(e)

\* PENDING to RESOLVED, if it was pending; then link it before the resolved list
\* as it is now.
Resolve(w) ==
  LET e == Candidate(w) IN
  /\ worker[w].at = "resolve"
  /\ IF MayResolve(e)
     THEN /\ eph' = [eph EXCEPT ![e].state = "RESOLVED", ![e].resolved = resolved]
          /\ worker' = [worker EXCEPT ![w].at = "pushresolved", ![w].head = resolved]
     ELSE AfterResolve(w) /\ UNCHANGED eph
  /\ UNCHANGED <<GivenToWorkers, mark, work_vars, bucket, resolved>>

PushResolved(w) ==
  LET e == Candidate(w) IN
  /\ worker[w].at = "pushresolved"
  /\ IF resolved = worker[w].head
     THEN resolved' = e /\ AfterResolve(w) /\ UNCHANGED eph
     ELSE /\ eph' = [eph EXCEPT ![e].resolved = resolved]
          /\ worker' = [worker EXCEPT ![w].head = resolved]
          /\ UNCHANGED resolved
  /\ UNCHANGED <<GivenToWorkers, mark, work_vars, bucket>>

Enqueue(w) ==
  /\ worker[w].at = "enqueue"
  /\ grey' = grey \cup {worker[w].edge}
  /\ Return(w)
  /\ UNCHANGED <<GivenToWorkers, mark, root_edges, root_list, eph_vars>>

--------------------------------------------------------------------------------
\* gc_trace_ephemeron.

Claim(w) ==
  LET e == worker[w].obj IN
  /\ worker[w].at = "claim"
  /\ IF eph[e].state = "TRACED"
     THEN eph' = [eph EXCEPT ![e].state = "CLAIMED"] /\ Goto(w, "epoch")
     ELSE Done(w) /\ UNCHANGED eph
  /\ UNCHANGED <<GivenToWorkers, mark, work_vars, bucket, resolved>>

StaleEpoch(e) == eph[e].epoch # count

\* Take the ephemeron into this epoch and visit the rest of its chain.  No key
\* dies during a trace, so follow_chain sees the chain as it is.
Renew(w) ==
  LET e == worker[w].obj
      next == follow_chain(e)
  IN
  /\ worker[w].at = "epoch"
  /\ IF StaleEpoch(e)
     THEN /\ eph' = [eph EXCEPT ![e].epoch = count, ![e].pending = Null,
                                ![e].resolved = Null, ![e].chain = next]
          /\ IF next = Null THEN Goto(w, "key") ELSE Visit(w, next, "key")
     ELSE eph' = [eph EXCEPT ![e].state = "TRACED"] /\ Done(w)
  /\ UNCHANGED <<GivenToWorkers, mark, work_vars, bucket, resolved>>

\* gc_visit_ephemeron_key finds the key live, having waited for it while busy,
\* and forwards the reference to it,
KeyLive(e) == Traced(Key[e]) /\ eph' = [eph EXCEPT ![e].key = "to"]

\* or finds it not visited yet.
KeyUnknown(e) == mark[Key[e]] = "white" /\ UNCHANGED eph

CheckKey(w) ==
  LET e == worker[w].obj IN
  /\ worker[w].at = "key"
  /\ \/ ~not_dead(e) /\ Goto(w, "traced") /\ UNCHANGED eph
     \/ not_dead(e) /\ KeyLive(e) /\ Visit(w, Value[e], "traced")
     \/ not_dead(e) /\ KeyUnknown(e) /\ Goto(w, "publish")
  /\ UNCHANGED <<GivenToWorkers, mark, work_vars, bucket, resolved>>

EphemeronTraced(w) ==
  /\ worker[w].at = "traced"
  /\ eph' = [eph EXCEPT ![worker[w].obj].state = "TRACED"]
  /\ Done(w)
  /\ UNCHANGED <<GivenToWorkers, mark, work_vars, bucket, resolved>>

\* add_pending_ephemeron: the state, and the link to the bucket as it is now.
Publish(w) ==
  LET e == worker[w].obj
      tail == bucket[Bucket[Key[e]]]
  IN
  /\ worker[w].at = "publish"
  /\ eph' = [eph EXCEPT ![e].state = "PENDING", ![e].pending = tail]
  /\ worker' = [worker EXCEPT ![w].at = "push", ![w].head = tail]
  /\ UNCHANGED <<GivenToWorkers, mark, work_vars, bucket, resolved>>

PushPending(w) ==
  LET e == worker[w].obj
      b == Bucket[Key[e]]
  IN
  /\ worker[w].at = "push"
  /\ IF bucket[b] = worker[w].head
     THEN /\ bucket' = [bucket EXCEPT ![b] = e]
          /\ worker' = [worker EXCEPT ![w].at = "recheck", ![w].head = Null]
          /\ UNCHANGED eph
     ELSE /\ eph' = [eph EXCEPT ![e].pending = bucket[b]]
          /\ worker' = [worker EXCEPT ![w].head = bucket[b]]
          /\ UNCHANGED bucket
  /\ UNCHANGED <<GivenToWorkers, mark, work_vars, resolved>>

\* Mutant: leave it to whoever marks the key.
NoRecheck(w) == Done(w) /\ UNCHANGED eph

\* The key may have been marked by a worker that did not see the ephemeron in
\* the table.
Recheck(w) == \/ KeyLive(worker[w].obj) /\ Goto(w, "resolve")
              \/ KeyUnknown(worker[w].obj) /\ Done(w)

RecheckKey(w) ==
  /\ worker[w].at = "recheck"
  /\ Recheck(w)
  /\ UNCHANGED <<GivenToWorkers, mark, work_vars, bucket, resolved>>

--------------------------------------------------------------------------------
\* gc_trace_resolved_ephemerons, for a list that the collector made a root.

TakeList(w) ==
  /\ worker[w].at = "idle" /\ root_list # Null
  /\ root_list' = Null
  /\ worker' = [worker EXCEPT ![w].at = "value", ![w].obj = root_list]
  /\ UNCHANGED <<GivenToWorkers, mark, grey, root_edges, eph_vars>>

VisitValue(w) ==
  /\ worker[w].at = "value"
  /\ Visit(w, Value[worker[w].obj], "resolved")
  /\ UNCHANGED <<GivenToWorkers, mark, work_vars, eph_vars>>

ResolvedTraced(w) ==
  /\ worker[w].at = "resolved"
  /\ eph' = [eph EXCEPT ![worker[w].obj].state = "TRACED"]
  /\ Goto(w, "next")
  /\ UNCHANGED <<GivenToWorkers, mark, work_vars, bucket, resolved>>

NextResolved(w) ==
  LET e == eph[worker[w].obj].resolved IN
  /\ worker[w].at = "next"
  /\ IF e = Null THEN Done(w)
     ELSE worker' = [worker EXCEPT ![w].at = "value", ![w].obj = e]
  /\ UNCHANGED <<GivenToWorkers, mark, work_vars, eph_vars>>

--------------------------------------------------------------------------------
\* collect: the thread that runs the collection, while the workers are idle.

Quiet == /\ \A w \in Workers : worker[w].at = "idle"
         /\ grey = {} /\ root_edges = {} /\ root_list = Null

\* Up to the first gc_tracer_trace.  The references of the last collection are
\* those to forward in this one.
StartCollection ==
  /\ phase = "mutator" /\ count < MaxCount[Parallelism]
  /\ Cardinality(mutator.roots) <= MaxRoots[Parallelism]
  /\ phase' = "trace" /\ check' = FALSE
  /\ mark' = [o \in Objects |-> "white"]
  /\ eph' = [e \in Ephemerons |-> IF not_dead(e) THEN [eph[e] EXCEPT !.key = "from"]
                                  ELSE eph[e]]
  /\ root_edges' = Rooted
  /\ UNCHANGED <<priority, count, mutator, fin, grey, root_list, bucket, resolved,
                 worker>>

\* Mutant: only check from now on.
ScanNothing == {}

ScanFinds == {e \in Pending : Traced(Key[e])}

\* resolve_ephemerons_eagerly, with gc_scan_pending_ephemerons: push every pending
\* ephemeron with a live key on the resolved list.
ResolveEagerly ==
  LET found == SetToSeq(ScanFinds)
      list == <<resolved>> \o found
  IN
  /\ phase = "trace" /\ Quiet
  /\ phase' = "ephemerons" /\ check' = TRUE
  /\ eph' = [e \in Ephemerons |->
       IF e \notin Range(found) THEN eph[e]
       ELSE [eph[e] EXCEPT !.state = "RESOLVED", !.key = "to",
               !.resolved = list[CHOOSE i \in DOMAIN found : found[i] = e]]]
  /\ resolved' = Last(list)
  /\ UNCHANGED <<priority, count, mutator, fin, mark, work_vars, bucket, worker>>

\* Mutant: read the list without taking it.
LeaveResolved == resolved

\* gc_pop_resolved_ephemerons takes the whole list.
TakeResolved == Null

\* trace_resolved_ephemerons: trace what was resolved until nothing is.
TraceResolved ==
  /\ phase = "ephemerons" /\ Quiet
  /\ root_list' = resolved /\ resolved' = TakeResolved
  /\ phase' = IF resolved = Null THEN "finalizers" ELSE phase
  /\ UNCHANGED <<priority, count, check, mutator, fin, mark, grey, root_edges, eph,
                 bucket, worker>>

\* What fired is traced, and then the ephemerons that this resolved.
AfterFiring == "ephemerons"

TablesLeft == priority < PriorityCount

\* gc_resolve_finalizers for one priority.
ResolveFinalizers ==
  LET fired == {f \in Finalizers : /\ Priority[f] = priority /\ fin[f] = "ACTIVE"
                                   /\ ~Traced(Object[f])}
  IN
  /\ phase = "finalizers" /\ Quiet /\ TablesLeft
  /\ priority' = priority + 1
  /\ fin' = [f \in Finalizers |-> IF f \in fired THEN "FIRED" ELSE fin[f]]
  /\ root_edges' = {Object[f] : f \in fired}
  /\ phase' = IF fired = {} THEN phase ELSE AfterFiring
  /\ UNCHANGED <<count, check, mutator, mark, grey, root_list, eph_vars, worker>>

\* sweep_ephemerons, and the rest of the collection.
SweepEphemerons ==
  /\ phase = "finalizers" /\ Quiet /\ priority = PriorityCount
  /\ eph' = [e \in Ephemerons |->
       IF e \in Pending THEN [eph[e] EXCEPT !.state = "TRACED", !.key = Null]
       ELSE eph[e]]
  /\ bucket' = [b \in Buckets |-> Null]
  /\ phase' = "mutator" /\ priority' = 0 /\ count' = count + 1
  /\ UNCHANGED <<check, mutator, fin, mark, work_vars, resolved, worker>>

--------------------------------------------------------------------------------

Mutate ==
  \/ \E e \in Ephemerons : \/ NewEphemeron(e) \/ gc_ephemeron_mark_dead(e)
                           \/ gc_ephemeron_chain_next(e)
  \/ \E o \in Plain : gc_ephemeron_chain_head(o) \/ DropRoot(o)
  \/ \E f \in Finalizers : AttachFinalizer(f) \/ PopFinalizer(f)

Work(w) ==
  \/ VisitRoot(w) \/ TakeObject(w) \/ VisitEdge(w) \/ Mark(w) \/ Copy(w)
  \/ Follow(w) \/ Advance(w) \/ Match(w) \/ Resolve(w) \/ PushResolved(w)
  \/ Enqueue(w)
  \/ Claim(w) \/ Renew(w) \/ CheckKey(w) \/ EphemeronTraced(w) \/ Publish(w)
  \/ PushPending(w) \/ RecheckKey(w)
  \/ TakeList(w) \/ VisitValue(w) \/ ResolvedTraced(w) \/ NextResolved(w)

Collect == StartCollection \/ ResolveEagerly \/ TraceResolved \/ ResolveFinalizers
           \/ SweepEphemerons

\* The bound on collections is reached: nothing more needs to happen.
Finished == phase = "mutator" /\ count = MaxCount[Parallelism] /\ UNCHANGED vars

Next == Mutate \/ Collect \/ (\E w \in Workers : Work(w)) \/ Finished

Spec == Init /\ [][Next]_vars

\* The collecting thread and every worker keep running during a collection.
Fairness == /\ WF_vars(phase # "mutator" /\ Collect)
            /\ \A w \in UNION Crews : WF_vars(w \in Workers /\ Work(w))

LiveSpec == Spec /\ Fairness

--------------------------------------------------------------------------------
\* Properties.

Labels == {"idle", "edges", "mark", "copy", "follow", "advance", "match", "resolve",
           "pushresolved", "enqueue", "claim", "epoch", "key", "traced", "publish",
           "push", "recheck", "value", "resolved", "next"}
EphemeronOrNull == Ephemerons \cup {Null}

\* The state has the types of struct gc_ephemeron, struct gc_pending_ephemerons
\* and the locals of the functions that use them.
TypeOK ==
  /\ phase \in {"mutator", "trace", "ephemerons", "finalizers"}
  /\ priority \in 0 .. PriorityCount /\ count \in 0 .. MaxCount[Parallelism] /\ check \in BOOLEAN
  /\ mutator \in [roots : SUBSET Plain, heads : [Plain -> EphemeronOrNull]]
  /\ fin \in [Finalizers -> {"INIT", "ACTIVE", "FIRED", "POPPED"}]
  /\ mark \in [Objects -> {"white", "busy", "marked", "forwarded"}]
  /\ grey \subseteq Objects /\ root_edges \subseteq Objects
  /\ root_list \in EphemeronOrNull
  /\ eph \in [Ephemerons ->
       [state : {"NONE", "TRACED", "CLAIMED", "PENDING", "RESOLVED"},
        epoch : -1 .. MaxCount[Parallelism], chain : EphemeronOrNull, pending : EphemeronOrNull,
        resolved : EphemeronOrNull, key : {Null, "from", "to"}]]
  /\ bucket \in [Buckets -> EphemeronOrNull] /\ resolved \in EphemeronOrNull
  /\ \A w \in Workers :
       worker[w] \in [at : Labels, obj : Objects \cup {Null}, todo : SUBSET Objects,
                      edge : Objects \cup {Null}, ret : Labels,
                      loc : Buckets \cup EphemeronOrNull, head : EphemeronOrNull,
                      link : EphemeronOrNull]

AtSweep == phase = "finalizers" /\ priority = PriorityCount

\* When the ephemerons are about to be swept, exactly the objects that are live by
\* the reference definition have been marked: a value is kept if, and only if, its
\* ephemeron and its key are, however the key came to be live (traced, the value
\* of another ephemeron, or given to a finalizer), and nothing else is kept.  And
\* every ephemeron that was traced is settled: if its key is dead, the sweep finds it
\* pending in the table; else it is in the traced state, neither claimed nor resolved,
\* and its key field was forwarded.  Between collections no ephemeron is pending or
\* resolved (gc-ephemeron.c:126-128).
KeepsTheLive ==
  /\ TypeOK
  /\ AtSweep =>
       /\ {o \in Objects : Traced(o)} = LiveFrom(Rooted)
       /\ \A e \in Ephemerons : Traced(e) /\ not_dead(e) =>
            IF Traced(Key[e]) THEN eph[e].state = "TRACED" /\ eph[e].key = "to"
            ELSE e \in Pending
  /\ phase = "mutator" =>
       /\ \A e \in Ephemerons : eph[e].state \in {"NONE", "TRACED"}
       /\ InTable = {} /\ resolved = Null

\* A live ephemeron stays on the chain it was pushed on while its table lives,
\* though dead ones are taken out by mutators and by the collector.
ChainKeepsLive ==
  phase = "mutator" => \A t \in Held \cap Plain :
    {e \in Ephemerons : Table[e] = t /\ not_dead(e)}
      \subseteq Listed(mutator.heads[t], chain)

\* An ephemeron joins the pending table and the resolved set at most once in a
\* collection: it becomes pending only when claimed and not in the table, where it
\* stays, skipped, until the sweep; it becomes resolved only when pending, and is
\* never linked before a resolved list that it is on already.
ResolvedOnce ==
  [][\A e \in Ephemerons :
       /\ eph'[e].state = "PENDING" /\ eph[e].state # "PENDING" =>
            eph[e].state = "CLAIMED" /\ e \notin InTable
       /\ eph'[e].state = "RESOLVED" /\ eph[e].state # "RESOLVED" =>
            eph[e].state = "PENDING"
       /\ eph'[e].resolved # eph[e].resolved =>
            e \notin Listed(eph'[e].resolved, resolved_link)]_vars

\* A finalizer fires only for an object that is dead even with all that was fired
\* before it, ephemerons included.
FiresOnlyDead ==
  [][\A f \in Finalizers : fin[f] = "ACTIVE" /\ fin'[f] = "FIRED" =>
       Object[f] \notin LiveFrom(Rooted)]_vars

\* A collection ends, though workers wait for one another's copies and retry lost
\* races for a list.
CollectionEnds == phase = "trace" ~> phase = "mutator"
================================================================================
