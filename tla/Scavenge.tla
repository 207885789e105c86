------------------------------ MODULE Scavenge ------------------------------
(***************************************************************************)
(* The generational collector of pcc.c: two copy spaces                    *)
(* (copy-space.h), the write barrier, and the remembered set of            *)
(* field-set.h.                                                            *)
(*                                                                         *)
(* Mutators allocate in the new space, one block at a time, and store      *)
(* references with a barrier.  Stopped for a collection, the spaces flip   *)
(* and workers race to copy what they reach: in a minor collection new     *)
(* objects stay in the new space once and are promoted the next time, or   *)
(* at once when the new space is full; a major collection copies           *)
(* everything to the old space.                                            *)
(*                                                                         *)
(* An address is a slot of a region of a block.  An object has one field,  *)
(* whose address stands for it in the remembered set, and an identity,     *)
(* which copying keeps and the program does not know of.  The memory that  *)
(* a collection leaves is taken out of "heap", so that no reference to it  *)
(* can go unnoticed; its log bits stay, as they do in the code.  Stacks of *)
(* blocks are sets.  Pushes and pops, locked or lock-free, are one step    *)
(* each.  How mutators stop is StopTheWorld's subject, how workers share   *)
(* their work ParallelTracer's, when spaces grow and shrink HeapBudget's.  *)
(***************************************************************************)
EXTENDS Integers, FiniteSets, SequencesExt

CONSTANTS
  Mutators, Crews, \* Crews: the sets of workers that parallelism may make
  Ids, Size,       \* identities of objects, and the size of each in slots
  Finalizers,      \* those of finalizers, whose field is struct gc_finalizer's next, by
                   \* crew
  Handles, Table,  \* roots: of mutators, and a bucket of the finalizer table
  NewBlocks, OldBlocks, NoBlock,
  Reserves,        \* sets of further blocks of the new space, paged out at first, that
                   \* it may have, by crew
  K,               \* slots in a region
  Capacity,        \* GC_EDGE_BUFFER_CAPACITY
  Requests,        \* kinds of collection that mutators ask for
  Null, Busy,
  \* Bounds, by crew.
  MaxCount,        \* the number of collections
  MaxObjects       \* the number of objects that there are at once

Roots == Handles \cup {Table}

ASSUME ScavengeAssumption ==
  /\ Table \notin Handles
  /\ K \in Nat \ {0} /\ Size \in [Ids -> 1 .. K]
  /\ NewBlocks \cap OldBlocks = {} /\ NoBlock \notin NewBlocks \cup OldBlocks
  /\ Capacity \in Nat \ {0} /\ Requests \subseteq {"minor", "major"}
  /\ \A crew \in Crews :
       /\ Finalizers[crew] \subseteq Ids /\ MaxCount[crew] \in Nat /\ MaxObjects[crew] \in Nat
       /\ \A out \in Reserves[crew] : out \cap (NewBlocks \cup OldBlocks \cup {NoBlock}) = {}

VARIABLES
  heap,      \* the objects: identity, field, forwarding word, and how many
             \* collections have left it in the new space
  logged,    \* addresses of fields whose log bit is set
  root,      \* what mutators and the embedder hold
  list,      \* the block lists of each space
  active,    \* active_region of each space
  in_gc,     \* of each space
  survivor,  \* regions, as <<block, region>>, with is_survivor
  zero,      \* regions with all_zeroes
  allocated, \* block->allocated of blocks that are partly full, 0 of others
  alloc,     \* struct copy_space_allocator of each thread, for each space
  full, partly_full, empty,  \* struct gc_field_set: two sequences of edge
             \* buffers, and the number of empty ones
  writer,    \* the edge buffer of each thread, or Null
  todo,      \* roots that no worker has taken: root edges, edge buffers
  grey,      \* objects to trace
  phase,     \* "mutator", "minor" or "major"
  count,
  graph,     \* what the program stored: the identity in each field and root
  pc         \* where each thread is

remembered_vars == <<logged, full, partly_full, empty, writer>>
block_vars == <<list, active, in_gc, survivor, zero, allocated, alloc>>
gc_vars == <<todo, grey, phase, count>>
vars == <<heap, root, remembered_vars, block_vars, gc_vars, graph, pc>>

Threads == DOMAIN pc
Workers == Threads \ Mutators
Spaces == {"new", "old"}
Blocks == DOMAIN allocated
Addresses == [block : Blocks, region : {0, 1}, at : 0 .. K - 1]
Edges == Roots \cup Addresses
AllFinalizers == Finalizers[Workers]

--------------------------------------------------------------------------------

None == [block |-> NoBlock, hp |-> K]
Resting == [at |-> "idle", edge |-> Null, obj |-> Null, to |-> "new", buf |-> Null,
            i |-> 0]

\* gc_init and copy_space_init.
Init ==
  \E crew \in Crews : \E out \in Reserves[crew] :
  LET threads == Mutators \cup crew
      blocks == NewBlocks \cup OldBlocks \cup out
  IN
  /\ heap = << >> /\ logged = {}
  /\ root = [r \in Roots |-> Null]
  /\ list = [s \in Spaces |->
       [empty |-> IF s = "new" THEN NewBlocks ELSE OldBlocks,
        partly_full |-> {}, full |-> {},
        paged_out |-> IF s = "new" THEN out ELSE {}]]
  /\ active = [s \in Spaces |-> 0] /\ in_gc = [s \in Spaces |-> FALSE]
  /\ survivor = {} /\ zero = blocks \X {0, 1}
  /\ allocated = [b \in blocks |-> 0]
  /\ alloc = [t \in threads |-> [s \in Spaces |-> None]]
  /\ full = << >> /\ partly_full = << >> /\ empty = 0
  /\ writer = [t \in threads |-> Null]
  /\ todo = [roots |-> {}, buffers |-> << >>] /\ grey = {}
  /\ phase = "mutator" /\ count = 0
  /\ graph = [x \in Ids \cup Roots |-> Null]
  /\ pc = [t \in threads |-> Resting]

SpaceOf(b) == IF b \in OldBlocks THEN "old" ELSE "new"
InNew(ref) == ref # Null /\ ref.block \notin OldBlocks
IdOf(ref) == IF ref = Null THEN Null ELSE heap[ref].id
EdgeRef(e) == IF e \in Roots THEN root[e] ELSE heap[e].ref
Region(s, b) == <<b, active[s]>>
Slots(b, r) == {a \in Addresses : a.block = b /\ a.region = r}

--------------------------------------------------------------------------------
\* The remembered set.

\* gc_field_set_acquire_buffer: an empty buffer, a partly full one, a new one.
Acquired == IF empty = 0 /\ partly_full # << >> THEN Head(partly_full) ELSE << >>
AcquireBuffer ==
  /\ empty' = IF empty = 0 THEN 0 ELSE empty - 1
  /\ partly_full' = IF empty = 0 /\ partly_full # << >> THEN Tail(partly_full)
                    ELSE partly_full

IsFull(buf) == Len(buf) = Capacity

\* gc_field_set_release_buffer, for a sequence of buffers.
ReleaseBuffers(bufs) ==
  /\ full' = SelectSeq(bufs, IsFull) \o full
  /\ partly_full' = SelectSeq(bufs, LAMBDA b : ~IsFull(b)) \o partly_full

\* Mutant: a buffer that is not full is not handed back.
DropBuffer(t) ==
  writer' = [writer EXCEPT ![t] = Null] /\ UNCHANGED <<full, partly_full>>

gc_field_set_writer_release_buffer(t) ==
  /\ ReleaseBuffers(IF writer[t] = Null THEN << >> ELSE <<writer[t]>>)
  /\ writer' = [writer EXCEPT ![t] = Null]

gc_field_set_writer_add_edge(t, e) ==
  LET buf == Append(IF writer[t] = Null THEN Acquired ELSE writer[t], e)
  IN /\ IF writer[t] = Null THEN AcquireBuffer ELSE UNCHANGED <<empty, partly_full>>
     /\ IF IsFull(buf)
        THEN full' = <<buf>> \o full /\ writer' = [writer EXCEPT ![t] = Null]
        ELSE full' = full /\ writer' = [writer EXCEPT ![t] = buf]

\* Log the edge unless it is logged.
LogEdge(t, e) ==
  IF e \in logged THEN UNCHANGED remembered_vars
  ELSE logged' = logged \cup {e} /\ gc_field_set_writer_add_edge(t, e)

--------------------------------------------------------------------------------
\* Blocks and allocators.

\* copy_space_push_full_block
SurvivorsWhen(s, bs) ==
  IF in_gc[s] THEN survivor \cup {Region(s, b) : b \in bs} ELSE survivor

\* Where the collector allocates an object of the size it copies, a mutator one of
\* the size it asks for.
Needs(t) == Size[IF t \in Mutators THEN pc[t].obj ELSE heap[pc[t].obj].id]
Hole(t) == alloc[t][pc[t].to]
Fits(t) == Hole(t).hp + Needs(t) <= K

Goto(t, at) == pc' = [pc EXCEPT ![t].at = at]
SetHole(t, b, hp) == alloc' = [alloc EXCEPT ![t][pc[t].to] = [block |-> b, hp |-> hp]]

Take(s, l, b) == list' = [list EXCEPT ![s][l] = @ \ {b}]

\* copy_space_allocate when the hole is too small: copy_space_allocator_release_full_block,
\* and copy_space_allocator_acquire_partly_full_block, whose hole may be too small again.
NextHole(t) ==
  LET s == pc[t].to
      held == {Hole(t).block} \ {NoBlock}
      released == [list EXCEPT ![s].full = @ \cup held]
  IN /\ pc[t].at = "allocate" /\ ~Fits(t)
     /\ survivor' = SurvivorsWhen(s, held)
     /\ \/ /\ list[s].partly_full = {}
           /\ list' = released /\ SetHole(t, NoBlock, K) /\ allocated' = allocated
           /\ Goto(t, "empty")
        \/ \E b \in list[s].partly_full :
             /\ list' = [released EXCEPT ![s].partly_full = @ \ {b}]
             /\ SetHole(t, b, allocated[b]) /\ allocated' = [allocated EXCEPT ![b] = 0]
             /\ UNCHANGED pc
     /\ UNCHANGED <<heap, root, remembered_vars, active, in_gc, zero, gc_vars, graph>>

\* Mutant: whatever the log bits were.
KeepLogBits(s, b) == logged

\* The log bits when block b is taken for space s, whose memory is cleared unless it
\* is known to be zero.
LogBits(s, b) == IF Region(s, b) \in zero THEN logged
                 ELSE logged \ Slots(b, active[s])

\* copy_space_pop_empty_block, or a block from the page-out queue during a collection.
copy_space_allocator_acquire_empty_block(t) ==
  LET s == pc[t].to
      from == IF list[s].empty # {} THEN "empty" ELSE "paged_out"
  IN /\ pc[t].at = "empty" /\ (from = "empty" \/ in_gc[s])
     /\ \E b \in list[s][from] :
          /\ Take(s, from, b) /\ SetHole(t, b, 0)
          /\ survivor' = IF from = "empty" THEN survivor \ {Region(s, b)} ELSE survivor
          /\ zero' = zero \ {Region(s, b)}
          /\ logged' = LogBits(s, b)
     /\ Goto(t, "allocate")
     /\ UNCHANGED <<heap, root, full, partly_full, empty, writer, allocated, active, in_gc,
                    gc_vars, graph>>

NoBlocks(s) == list[s].empty = {} /\ (in_gc[s] => list[s].paged_out = {})

\* copy_space_allocator_finish, for the allocators of t in all spaces:
\* copy_space_allocator_release_partly_full_block, unless hp is at the limit.
copy_space_allocator_finish(t) ==
  LET held == [s \in Spaces |-> {alloc[t][s].block} \ {NoBlock}]
      isfull == [s \in Spaces |-> IF alloc[t][s].hp = K THEN held[s] ELSE {}]
  IN /\ list' = [s \in Spaces |->
          [list[s] EXCEPT !.full = @ \cup isfull[s],
                          !.partly_full = @ \cup (held[s] \ isfull[s])]]
     /\ survivor' = survivor \cup UNION {SurvivorsWhen(s, isfull[s]) : s \in Spaces}
     /\ allocated' = [b \in Blocks |->
          LET s == SpaceOf(b)
          IN IF b \in held[s] \ isfull[s] THEN alloc[t][s].hp ELSE allocated[b]]
     /\ alloc' = [alloc EXCEPT ![t] = [s \in Spaces |-> None]]

--------------------------------------------------------------------------------
\* Mutators.

ReachableFrom(roots) ==
  LET next[S \in SUBSET DOMAIN heap] ==
        LET T == S \cup ({heap[a].ref : a \in S} \cap DOMAIN heap)
        IN IF T = S THEN S ELSE next[T]
  IN next[{root[r] : r \in roots} \cap DOMAIN heap]

\* The finalizers in the bucket's list.
Listed ==
  LET walk[n \in 0 .. Cardinality(AllFinalizers)] ==
        IF n = 0 THEN << >>
        ELSE LET l == walk[n - 1]
                 f == IF l = << >> THEN root[Table] ELSE heap[Last(l)].ref
             IN IF f = Null THEN l ELSE Append(l, f)
  IN walk[Cardinality(AllFinalizers)]

Running(m) == phase = "mutator" /\ count < MaxCount[Workers] /\ pc[m].at = "idle"

\* The identities of objects that exist or are being allocated.
Used == {heap[a].id : a \in DOMAIN heap} \cup ({pc[m].obj : m \in Mutators} \ {Null})

\* gc_allocate, into an empty root.
Allocate(m, x, r) ==
  /\ Running(m) /\ root[r] = Null
  /\ x \notin Used /\ Cardinality(Used) < MaxObjects[Workers]
  /\ pc' = [pc EXCEPT ![m].at = "allocate", ![m].obj = x, ![m].edge = r]
  /\ UNCHANGED <<heap, root, remembered_vars, block_vars, gc_vars, graph>>

\* The address t's allocator has reached.
Bump(t) == [block |-> Hole(t).block, region |-> active[pc[t].to], at |-> Hole(t).hp]

NewObject(m) ==
  LET x == pc[m].obj
      r == pc[m].edge
  IN /\ phase = "mutator" /\ pc[m].at = "allocate" /\ Fits(m)
     /\ heap' = (Bump(m) :> [id |-> x, ref |-> Null, fwd |-> Null, age |-> 0]) @@ heap
     /\ root' = [root EXCEPT ![r] = Bump(m)]
     /\ graph' = [graph EXCEPT ![x] = Null, ![r] = x]
     /\ SetHole(m, Hole(m).block, Hole(m).hp + Size[x])
     /\ pc' = [pc EXCEPT ![m] = Resting]
     /\ UNCHANGED <<remembered_vars, list, active, in_gc, survivor, zero, allocated,
                    gc_vars>>

\* gc_write_barrier and the store: only fields of old objects whose bit is not set
\* go to gc_write_barrier_slow, which logs those that are to refer to a new object.
Write(m, a, ref) ==
  /\ Running(m) /\ heap[a].id \notin AllFinalizers
  /\ IF ref # Null /\ ~InNew(a) /\ InNew(ref) THEN LogEdge(m, a)
     ELSE UNCHANGED remembered_vars
  /\ heap' = [heap EXCEPT ![a].ref = ref]
  /\ graph' = [graph EXCEPT ![heap[a].id] = IdOf(ref)]
  /\ UNCHANGED <<root, block_vars, gc_vars, pc>>

\* gc_finalizer_attach: the finalizer, which is new, goes to the front of its bucket's
\* list, without a barrier.
AttachFinalizer(m, r) ==
  LET f == root[r]
  IN /\ Running(m) /\ InNew(f) /\ heap[f].id \in AllFinalizers \ {heap[a].id : a \in ToSet(Listed)}
     /\ heap' = [heap EXCEPT ![f].ref = root[Table]]
     /\ root' = [root EXCEPT ![Table] = f]
     /\ graph' = [graph EXCEPT ![heap[f].id] = graph[Table], ![Table] = heap[f].id]
     /\ UNCHANGED <<remembered_vars, block_vars, gc_vars, pc>>

\* A root is dropped, or refers to another object.
Move(m, r, ref) ==
  /\ Running(m) /\ ref # root[r]
  /\ root' = [root EXCEPT ![r] = ref]
  /\ graph' = [graph EXCEPT ![r] = IdOf(ref)]
  /\ UNCHANGED <<heap, remembered_vars, block_vars, gc_vars, pc>>

\* gc_safepoint_slow, trigger_collection: flush, and wait for a collection.
Flush(m) ==
  /\ Running(m) \/ (phase = "mutator" /\ pc[m].at = "empty" /\ NoBlocks("new"))
  /\ copy_space_allocator_finish(m) /\ gc_field_set_writer_release_buffer(m)
  /\ pc' = [pc EXCEPT ![m].at = "flushed", ![m].i = count]
  /\ UNCHANGED <<heap, root, logged, empty, active, in_gc, zero, gc_vars, graph>>

\* Back to the program, or to an allocation that had failed.
Resume(m) ==
  /\ phase = "mutator" /\ pc[m].at = "flushed" /\ count > pc[m].i
  /\ pc' = [pc EXCEPT ![m].at = IF pc[m].obj = Null THEN "idle" ELSE "allocate", ![m].i = 0]
  /\ UNCHANGED <<heap, root, remembered_vars, block_vars, gc_vars, graph>>

--------------------------------------------------------------------------------
\* A collection.

\* What resize_nursery has set up: a collection may page in more.
Nursery == Cardinality(NewBlocks)

\* copy_space_can_allocate counts regions; the nursery size counts both regions of a
\* block.
heap_can_minor_gc == Cardinality(list["old"].empty) >= 2 * Nursery

determine_collection_kind(requested) ==
  IF requested = "minor" /\ heap_can_minor_gc THEN "minor" ELSE "major"

\* collect, up to gc_tracer_trace: copy_space_flip of the spaces, and add_roots.
StartGC(requested) ==
  LET kind == determine_collection_kind(requested)
      flipped == IF kind = "minor" THEN {"new"} ELSE Spaces
  IN /\ phase = "mutator" /\ count < MaxCount[Workers]
     /\ \A m \in Mutators : pc[m].at = "flushed"
     /\ phase' = kind
     /\ list' = [s \in Spaces |-> IF s \notin flipped THEN list[s] ELSE
          [list[s] EXCEPT !.empty = @ \cup list[s].partly_full \cup list[s].full,
                          !.partly_full = {}, !.full = {}]]
     /\ allocated' = [b \in Blocks |-> IF SpaceOf(b) \in flipped THEN 0 ELSE allocated[b]]
     /\ active' = [s \in Spaces |-> IF s \in flipped THEN 1 - active[s] ELSE active[s]]
     /\ in_gc' = [s \in Spaces |-> s \in flipped]
     /\ todo' = [roots |-> {r \in Roots : root[r] # Null},
                 buffers |-> IF kind = "minor" THEN partly_full \o full ELSE << >>]
     /\ partly_full' = IF kind = "minor" THEN << >> ELSE partly_full
     /\ full' = IF kind = "minor" THEN << >> ELSE full
     /\ UNCHANGED <<heap, root, logged, empty, writer, survivor, zero, alloc, grey, count,
                    graph, pc>>

copy_space_should_promote(a) == <<a.block, a.region>> \in survivor

edge_is_from_survivor(e) == e \notin Roots /\ InNew(e)
\* remember_edge_to_survivor_object does nothing for a root.
FromPromoted(e) == e \notin Roots /\ ~InNew(e)

remember_edge_to_survivor_object(w, e) ==
  IF FromPromoted(e) THEN LogEdge(w, e) ELSE UNCHANGED remembered_vars

\* trace_edge, up to the forwarding word: whether the referent is to be copied, and
\* where to.  An edge is visited by one worker only.
Visit(w, e, thread) ==
  LET ref == EdgeRef(e)
      stays == phase = "minor" /\ InNew(ref) /\ ~copy_space_should_promote(ref)
  IN IF ref = Null \/ (phase = "minor" /\ ~InNew(ref))
     THEN /\ pc' = [pc EXCEPT ![w] = IF thread.buf = Null THEN Resting
                                     ELSE [thread EXCEPT !.edge = e, !.at = "visited"]]
          /\ UNCHANGED remembered_vars
     ELSE /\ pc' = [pc EXCEPT ![w] = [thread EXCEPT !.edge = e, !.at = "forward",
                        !.obj = ref, !.to = IF stays THEN "new" ELSE "old"]]
          /\ IF stays THEN remember_edge_to_survivor_object(w, e)
             ELSE UNCHANGED remembered_vars

TraceRoot(w) ==
  /\ pc[w].at = "idle" /\ phase # "mutator"
  /\ \E r \in todo.roots : /\ todo' = [todo EXCEPT !.roots = @ \ {r}]
                           /\ Visit(w, r, Resting)
  /\ UNCHANGED <<heap, root, block_vars, grey, phase, count, graph>>

TraceObject(w) ==
  /\ pc[w].at = "idle"
  /\ \E a \in grey : grey' = grey \ {a} /\ Visit(w, a, Resting)
  /\ UNCHANGED <<heap, root, block_vars, todo, phase, count, graph>>

\* gc_field_set_visit_edge_buffer
TraceBuffer(w) ==
  /\ pc[w].at = "idle" /\ todo.buffers # << >>
  /\ todo' = [todo EXCEPT !.buffers = Tail(@)]
  /\ pc' = [pc EXCEPT ![w] = [Resting EXCEPT !.at = "buffer", !.buf = Head(todo.buffers),
                                             !.i = 1]]
  /\ UNCHANGED <<heap, root, remembered_vars, block_vars, grey, phase, count, graph>>

NextInBuffer(w) ==
  /\ pc[w].at = "buffer"
  /\ IF pc[w].i <= Len(pc[w].buf) THEN Visit(w, pc[w].buf[pc[w].i], pc[w])
     ELSE /\ pc' = [pc EXCEPT ![w] = Resting]
          /\ ReleaseBuffers(<<pc[w].buf>>) /\ UNCHANGED <<logged, empty, writer>>
  /\ UNCHANGED <<heap, root, block_vars, gc_vars, graph>>

\* The last of buf takes the place of the i-th.
SwapOut(buf, i) == Front([buf EXCEPT ![i] = Last(buf)])

copy_space_forget_edge(e) == logged \ {e}

\* The end of trace_remembered_edge.
Visited(w) ==
  LET keep == InNew(heap[pc[w].edge].ref)
      next == [Resting EXCEPT !.at = "buffer", !.buf = pc[w].buf, !.i = pc[w].i]
  IN /\ pc[w].at = "visited"
     /\ logged' = IF keep THEN logged ELSE copy_space_forget_edge(pc[w].edge)
     /\ pc' = [pc EXCEPT ![w] = IF keep THEN [next EXCEPT !.i = @ + 1]
                                ELSE [next EXCEPT !.buf = SwapOut(@, pc[w].i)]]
     /\ UNCHANGED <<heap, root, full, partly_full, empty, writer, block_vars, gc_vars, graph>>

SetEdge(h, e, a) == IF e \in Roots THEN h ELSE [h EXCEPT ![e].ref = a]
SetRoot(e, a) == IF e \in Roots THEN [root EXCEPT ![e] = a] ELSE root

\* Mutant: claim what somebody else is copying.
ClaimAnyway(a) == heap[a].fwd \in {Null, Busy}

NotForwarded(a) == heap[a].fwd = Null

\* gc_atomic_forward_acquire
Claim(w) ==
  /\ pc[w].at = "forward" /\ NotForwarded(pc[w].obj)
  /\ heap' = [heap EXCEPT ![pc[w].obj].fwd = Busy]
  /\ Goto(w, "allocate")
  /\ UNCHANGED <<root, remembered_vars, block_vars, gc_vars, graph>>

\* The end of tracer_visit.
EdgeDone(w) == IF pc[w].buf = Null THEN pc' = [pc EXCEPT ![w] = Resting]
               ELSE Goto(w, "visited")

\* COPY_SPACE_FORWARD_UPDATED.  A worker that sees the object busy spins, and looks
\* again.
Updated(w) ==
  LET a == heap[pc[w].obj].fwd
  IN /\ pc[w].at = "forward" /\ a \notin {Null, Busy}
     /\ heap' = SetEdge(heap, pc[w].edge, a) /\ root' = SetRoot(pc[w].edge, a)
     /\ EdgeDone(w)
     /\ UNCHANGED <<remembered_vars, block_vars, gc_vars, graph>>

\* COPY_SPACE_FORWARD_EVACUATED: memcpy, gc_atomic_forward_commit, and the object is
\* enqueued.
Evacuate(w) ==
  LET from == heap[pc[w].obj]
      a == Bump(w)
      copy == [from EXCEPT !.fwd = Null, !.age = IF pc[w].to = "new" THEN @ + 1 ELSE @]
      copied == (a :> copy) @@ [heap EXCEPT ![pc[w].obj].fwd = a]
  IN /\ w \in Workers /\ pc[w].at = "allocate" /\ Fits(w)
     /\ heap' = SetEdge(copied, pc[w].edge, a) /\ root' = SetRoot(pc[w].edge, a)
     /\ grey' = grey \cup {a}
     /\ SetHole(w, a.block, Hole(w).hp + Size[from.id])
     /\ EdgeDone(w)
     /\ UNCHANGED <<remembered_vars, list, active, in_gc, survivor, zero, allocated,
                    todo, phase, count, graph>>

AfterAbort == Null

\* COPY_SPACE_FORWARD_FAILED in the new space: gc_atomic_forward_abort, and the object
\* is promoted instead.  (Without room in the old space the program stops.)
PromoteInstead(w) ==
  /\ w \in Workers /\ pc[w].at = "empty" /\ pc[w].to = "new" /\ NoBlocks("new")
  /\ heap' = [heap EXCEPT ![pc[w].obj].fwd = AfterAbort]
  /\ pc' = [pc EXCEPT ![w].at = "forward", ![w].to = "old"]
  /\ UNCHANGED <<root, remembered_vars, block_vars, gc_vars, graph>>

NoWork == todo = [roots |-> {}, buffers |-> << >>] /\ grey = {}

\* A worker that finds no more work hands back its blocks and its edge buffer.
FinishWorker(w) ==
  /\ phase # "mutator" /\ pc[w].at = "idle" /\ NoWork
  /\ alloc[w] # [s \in Spaces |-> None] \/ writer[w] # Null
  /\ copy_space_allocator_finish(w) /\ gc_field_set_writer_release_buffer(w)
  /\ UNCHANGED <<heap, root, logged, empty, active, in_gc, zero, gc_vars, graph, pc>>

\* Mutant: only blocks that are full hold survivors.
FullOnly(b) == FALSE

\* copy_space_finish_gc: after a minor collection no new object may share a block with
\* survivors.
MixesSurvivors(b) == phase = "minor" /\ SpaceOf(b) = "new"

\* gc_resolve_finalizers, when no finalizer fires: each is pushed again, and so their
\* order is reversed.
Relinked(f) == LET i == CHOOSE n \in DOMAIN Listed : Listed[n] = f
               IN IF i = 1 THEN Null ELSE Listed[i - 1]

\* collect, from resolve_finalizers on.
FinishGC ==
  LET f == ToSet(Listed)
      mixed == {b \in list["new"].partly_full : MixesSurvivors(b)}
      kept == {a \in DOMAIN heap :
                 (phase = "minor" /\ ~InNew(a))
                   \/ a.region = active[IF InNew(a) THEN "new" ELSE "old"]}
  IN /\ phase # "mutator" /\ NoWork
     /\ \A w \in Workers : /\ pc[w].at = "idle" /\ writer[w] = Null
                           /\ alloc[w] = [s \in Spaces |-> None]
     /\ list' = [list EXCEPT !["new"].full = @ \cup mixed, !["new"].partly_full = @ \ mixed]
     /\ survivor' = SurvivorsWhen("new", mixed)
     /\ in_gc' = [s \in Spaces |-> FALSE]
     /\ IF phase = "minor" THEN UNCHANGED <<full, partly_full, empty>>
        ELSE /\ empty' = empty + Len(full) + Len(partly_full)
             /\ full' = << >> /\ partly_full' = << >>
     /\ heap' = [a \in kept |-> IF a \in f THEN [heap[a] EXCEPT !.ref = Relinked(a)]
                               ELSE heap[a]]
     /\ root' = [root EXCEPT ![Table] = IF f = {} THEN Null ELSE Last(Listed)]
     /\ graph' = [x \in Ids \cup Roots |->
          IF x = Table THEN IdOf(root'[Table])
          ELSE IF \E a \in f : heap[a].id = x
          THEN IdOf(Relinked(CHOOSE a \in f : heap[a].id = x)) ELSE graph[x]]
     /\ count' = count + 1 /\ phase' = "mutator"
     /\ UNCHANGED <<logged, writer, active, zero, allocated, alloc, todo, grey, pc>>

--------------------------------------------------------------------------------

Mutate(m) ==
  \/ \E x \in Ids, r \in Handles : Allocate(m, x, r)
  \/ NewObject(m) \/ Flush(m) \/ Resume(m)
  \/ LET held == ReachableFrom(Handles)
     IN \/ \E a \in held, ref \in held \cup {Null} : Write(m, a, ref)
        \/ \E r \in Handles, ref \in held \cup {Null} : Move(m, r, ref)
  \/ \E r \in Handles : AttachFinalizer(m, r)

Trace(w) ==
  \/ TraceRoot(w) \/ TraceObject(w) \/ TraceBuffer(w) \/ NextInBuffer(w) \/ Visited(w)
  \/ Claim(w) \/ Updated(w) \/ Evacuate(w) \/ PromoteInstead(w) \/ FinishWorker(w)

GetBlock(t) ==
  NextHole(t) \/ copy_space_allocator_acquire_empty_block(t)

\* The bound on collections is reached.
Finished == phase = "mutator" /\ count = MaxCount[Workers] /\ UNCHANGED vars

Next == \/ \E m \in Mutators : Mutate(m)
        \/ \E w \in Workers : Trace(w)
        \/ \E t \in Threads : GetBlock(t)
        \/ \E kind \in Requests : StartGC(kind)
        \/ FinishGC
        \/ Finished

Spec == Init /\ [][Next]_vars

--------------------------------------------------------------------------------
\* Properties.

Buffers == {b \in Seq(Addresses) : Len(b) <= Capacity}

\* What every variable holds.  Edge buffers matter most: one in "partly_full" or in a
\* thread's hands has room for another edge, so that gc_field_set_writer_add_edge
\* never writes past the end of its array.
TypeOK ==
  /\ DOMAIN heap \subseteq Addresses
  /\ \A a \in DOMAIN heap :
       heap[a] \in [id : Ids, ref : Addresses \cup {Null},
                    fwd : Addresses \cup {Null, Busy}, age : {0, 1}]
  /\ logged \subseteq Addresses
  /\ root \in [Roots -> Addresses \cup {Null}]
  /\ list \in [Spaces -> [{"empty", "partly_full", "full", "paged_out"} -> SUBSET Blocks]]
  /\ active \in [Spaces -> {0, 1}] /\ in_gc \in [Spaces -> BOOLEAN]
  /\ survivor \cup zero \subseteq Blocks \X {0, 1}
  /\ allocated \in [Blocks -> 0 .. K]
  /\ alloc \in [Threads -> [Spaces -> [block : Blocks \cup {NoBlock}, hp : 0 .. K]]]
  /\ \A b \in ToSet(full) : b \in Buffers /\ Len(b) = Capacity
  /\ \A b \in ToSet(partly_full) \cup ({writer[t] : t \in Threads} \ {Null}) :
       b \in Buffers /\ Len(b) < Capacity
  /\ grey \subseteq DOMAIN heap
  /\ phase \in {"mutator", "minor", "major"} /\ count \in 0 .. MaxCount[Workers]

\* Collections do not show: between them, what the roots hold and what the fields of
\* reachable objects refer to is what the program stored there, and none of it was
\* left behind.  A minor collection, which does not look at old objects, relies on the
\* remembered set for it.
KeepsTheGraph ==
  phase = "mutator" =>
    /\ \A r \in Roots : root[r] \in DOMAIN heap \cup {Null} /\ IdOf(root[r]) = graph[r]
    /\ \A a \in ReachableFrom(Roots) : /\ heap[a].ref \in DOMAIN heap \cup {Null}
                            /\ IdOf(heap[a].ref) = graph[heap[a].id]

Moved(a) == heap[a].fwd \notin {Null, Busy}

\* copy_space_forward_atomic makes one copy of an object, however many workers reach it
\* at once, and even when one gives up: an object that is busy has a worker that will
\* commit or abort the copy, so that those that spin on it spin for a while only.  And
\* every block is in one list of its space or in the hands of one thread: between
\* copy_space_pop_* and copy_space_push_*, under the lock or lock-free, none is lost,
\* and no two threads allocate in the same one.
OneCopy ==
  /\ TypeOK
  /\ \A a, b \in DOMAIN heap :
       heap[a].id = heap[b].id /\ ~Moved(a) /\ ~Moved(b) => a = b
  /\ \A a \in DOMAIN heap :
       heap[a].fwd = Busy =>
         \E w \in Workers : pc[w].obj = a /\ pc[w].at \in {"allocate", "empty"}
  /\ \A b \in Blocks :
       LET s == SpaceOf(b)
       IN Cardinality({l \in DOMAIN list[s] : b \in list[s][l]})
            + Cardinality({t \in Threads : alloc[t][s].block = b}) = 1

\* The remembered set, with what mutators have not handed over yet.
InBuffers == FlattenSeq(full \o partly_full \o SetToSeq({writer[m] : m \in Mutators} \ {Null}))

\* do_minor_trace: "all old-to-new edges are part of the remembered set".  None is there
\* twice, and of the regions in use, the edges whose log bit is set are those of the set,
\* although blocks are used again and a major collection empties the set without a look
\* at the bits: the barrier logs what is not logged.
Remembered ==
  phase = "mutator" =>
    /\ \A a \in DOMAIN heap : ~InNew(a) /\ InNew(heap[a].ref) => a \in ToSet(InBuffers)
    /\ Len(InBuffers) = Cardinality(ToSet(InBuffers))
    /\ ToSet(InBuffers) = {a \in logged : /\ a.region = active["old"]
                                          /\ a.block \notin list["old"].empty}

\* copy_space_should_promote, which knows blocks only, finds the new objects that a
\* collection has left there already, and no others.
SurvivorsApart ==
  phase = "mutator" =>
    \A a \in DOMAIN heap : InNew(a) => (heap[a].age = 1 <=> copy_space_should_promote(a))
================================================================================
