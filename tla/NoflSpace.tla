------------------------------ MODULE NoflSpace ------------------------------
(***************************************************************************)
(* The nofl space of mmc (nofl-space.h, nofl-holeset.h): blocks, the lists *)
(* they move between, mark bytes, lazy sweeping, second-chance holes,      *)
(* evacuation and promotion.                                               *)
(*                                                                         *)
(* A location is a block and a granule.  Mutators allocate while others    *)
(* stop for a collection; workers mark or evacuate while all are stopped.  *)
(* A push or pop of a block list, or a critical section of the space lock, *)
(* is one step; so is a sweep of a block, which nobody else looks at.      *)
(* Whom the collector waits for is StopTheWorld's subject, racing tracers  *)
(* are ParallelTracer's and Ephemerons'.                                   *)
(***************************************************************************)
EXTENDS Integers, FiniteSets, FiniteSetsExt

CONSTANTS
  Teams,        \* the sets of mutators that a program may start
  Workers, NoOne,
  Blocks, NoBlock,
  G,            \* NOFL_GRANULES_PER_BLOCK
  Sizes,        \* sizes of objects in granules
  Kinds,        \* kinds of collection; "minor" when generational
  Threshold,    \* promotion_threshold, in granules
  MinReserve, Reserve,   \* blocks that evacuation_minimum_reserve and 50% come to
  MaxHeld,      \* bound on the objects that mutators hold
  \* Bounds, by the number of mutators.
  MaxAlloc,     \* the objects allocated
  MaxCount      \* the number of collections

ASSUME NoflAssumption ==
  /\ G \in Nat \ {0} /\ Sizes \subseteq 1 .. G
  /\ Kinds \subseteq {"minor", "in_place", "compacting"}
  /\ Threshold \in 0 .. G /\ MinReserve \in Nat /\ Reserve \in Nat
  /\ IsFiniteSet(Blocks) /\ NoBlock \notin Blocks /\ NoOne \notin UNION Teams
  /\ Workers \cap UNION Teams = {} /\ MaxHeld \in Nat
  /\ \A team \in Teams : LET n == Cardinality(team)
                         IN MaxCount[n] \in Nat /\ MaxAlloc[n] \in Nat

VARIABLES
  byte,      \* the mark bits of each metadata byte
  ends,      \* locations with NOFL_METADATA_BYTE_END
  dirty,     \* locations whose memory may not be zero
  zero,      \* blocks with NOFL_BLOCK_ZERO
  candidate, \* blocks with NOFL_BLOCK_EVACUATE
  marked,    \* blocks whose block mark is set
  summary,   \* struct nofl_block_summary: granules in holes, number of
             \* fragments, granules in fragments
  list,      \* the block lists of struct nofl_space
  holes,     \* the chains of holes in space->holes
  alloc,     \* the struct nofl_allocator of each mutator and worker
  current_mark, survivor_mark, evacuating, reserve,
  phase,     \* "run", "stopping", "pinned" or "trace"
  kind, collector, count,
  held,      \* the objects that mutators can reach
  allocated, \* how many objects were allocated
  pc         \* where each mutator and worker is

memory_vars == <<byte, ends, dirty>>
flag_vars == <<zero, candidate, marked, summary>>
space_vars == <<current_mark, survivor_mark, evacuating, reserve>>
gc_vars == <<phase, kind, collector, count>>
vars == <<memory_vars, flag_vars, list, holes, alloc, space_vars, gc_vars, held,
          allocated, pc>>

\* enum nofl_metadata_byte
NONE == 0
YOUNG == 1
MARK_0 == 2
MARK_2 == 4
BUSY == 5
FORWARDED == 6

Threads == DOMAIN pc
Mutators == Threads \ Workers
LastCount == MaxCount[Cardinality(Mutators)]
Granules == 0 .. G - 1
Locations == Blocks \X Granules
Lists == {"empty", "to_sweep", "partly_full", "full", "promoted", "old", "targets"}

\* A hole of n granules.
Hole(b, g, n) == [block |-> b, at |-> g, n |-> n]
Inside(h) == {h.block} \X (h.at .. h.at + h.n - 1)

\* The granules of the object at o, up to its END (nofl_space_live_object_granules).
Extent(o) ==
  {o[1]} \X (o[2] .. Min({g \in o[2] .. G - 1 : <<o[1], g>> \in ends}))

--------------------------------------------------------------------------------

Resting == [at |-> "idle", size |-> 0, swept |-> 0, obj |-> <<NoBlock, 0>>]

Init ==
  \E spare \in kSubset(MinReserve, Blocks), team \in Teams :
  /\ byte = [o \in Locations |-> NONE] /\ ends = {} /\ dirty = {}
  /\ zero = Blocks /\ candidate = {} /\ marked = {}
  /\ summary = [b \in Blocks |-> [holes |-> 0, pieces |-> 0, fragments |-> 0]]
  /\ list = [l \in Lists |-> CASE l = "empty" -> Blocks \ spare
                               [] l = "targets" -> spare [] OTHER -> {}]
  /\ holes = {}
  /\ alloc = [t \in team \cup Workers |->
                [block |-> NoBlock, alloc |-> 0, sweep |-> 0, holes |-> {}]]
  /\ current_mark = MARK_0 /\ survivor_mark = MARK_0 /\ evacuating = FALSE /\ reserve = MinReserve
  /\ phase = "run" /\ kind = "in_place" /\ collector = NoOne /\ count = 0
  /\ held = {} /\ allocated = 0
  /\ pc = [t \in team \cup Workers |-> Resting]

--------------------------------------------------------------------------------
\* Lists and allocators.

Goto(t, at) == pc' = [pc EXCEPT ![t].at = at]
Rest(t) == pc' = [pc EXCEPT ![t] = Resting]

\* Mutant: keep the block.
KeepBlock(a) == a

\* nofl_allocator_reset, except for the local holes.
Reset(a) == [a EXCEPT !.block = NoBlock, !.alloc = 0, !.sweep = 0]

Pop(l, b) == list' = [list EXCEPT ![l] = @ \ {b}]
Push(l, b) == list' = [list EXCEPT ![l] = @ \cup {b}]

should_promote(s) == "minor" \in Kinds /\ s.holes < Threshold

\* Where nofl_allocator_release_full_block puts a block with summary s.
FullList(s) == IF should_promote(s) THEN "promoted" ELSE "full"

\* What is left of the hole that a thread allocates from.
Leftover(a) == IF a.alloc < a.sweep THEN {Hole(a.block, a.alloc, a.sweep - a.alloc)}
              ELSE {}

\* The holes of b from granule g on: what the objects with the given mark leave free.
HolesIn(b, g, mark) ==
  LET live == UNION {Extent(o) : o \in {x \in {b} \X Granules : byte[x] = mark}}
      free == {h \in g .. G - 1 : <<b, h>> \notin live}
  IN {Hole(b, r[1], r[2]) : r \in
        {x \in free \X (1 .. G) :
           /\ x[1] .. x[1] + x[2] - 1 \subseteq free
           /\ x[1] - 1 \notin free /\ x[1] + x[2] \notin free}}

Wipe(locations) == /\ byte' = [o \in Locations |->
                                 IF o \in locations THEN NONE ELSE byte[o]]
                   /\ ends' = ends \ locations

\* nofl_holeset_push_local writes links into the holes.
Links(hs) == {<<h.block, h.at>> : h \in hs}

--------------------------------------------------------------------------------
\* Allocation.

\* gc_update_alloc_table, for n granules at o.
Place(o, n) ==
  /\ byte' = [byte EXCEPT ![o] = YOUNG]
  /\ ends' = ends \cup {<<o[1], o[2] + n - 1>>}
  /\ held' = held \cup {o}

Running(m) == phase \in {"run", "stopping"} /\ m # collector

\* nofl_allocate: the hole is large enough, or not.
Allocate(m, n) ==
  /\ Running(m) /\ pc[m].at = "idle"
  /\ allocated < MaxAlloc[Cardinality(Mutators)] /\ Cardinality(held) < MaxHeld
  /\ allocated' = allocated + 1
  /\ pc' = [pc EXCEPT ![m].size = n, ![m].at =
              IF alloc[m].alloc + n <= alloc[m].sweep THEN "bump" ELSE "hole"]
  /\ UNCHANGED <<memory_vars, flag_vars, list, holes, alloc, space_vars, gc_vars, held>>

nofl_allocate_bump_pointer(m) ==
  LET a == alloc[m]
      n == pc[m].size
  IN
  /\ pc[m].at = "bump"
  /\ Place(<<a.block, a.alloc>>, n)
  /\ dirty' = dirty \cup Inside(Hole(a.block, a.alloc, n))
  /\ alloc' = [alloc EXCEPT ![m].alloc = @ + n]
  /\ Rest(m)
  /\ UNCHANGED <<flag_vars, list, holes, space_vars, gc_vars, allocated>>

\* A thread found a hole.  nofl_finish_sweeping, which asks for no granules, goes on.
Found(m) == IF pc[m].size = 0 THEN "hole" ELSE "bump"

\* Mutant: leave the metadata of the hole as it is.
OnlyMemory(b, g, size) == {}

\* The metadata that nofl_allocator_next_hole_in_block clears before it returns a
\* hole of the size, or reaches the end of the block.
Cleared(b, g, size) ==
  LET hs == HolesIn(b, g, survivor_mark)
      first == Min({h.at : h \in {x \in hs : x.n >= size}} \cup {G})
  IN UNION {Inside(h) : h \in {x \in hs : x.at <= first}}

\* nofl_allocator_next_hole_in_block_of_size: finish the hole "left" of block b, which
\* was swept up to granule g and has summary s, and sweep on for a large one.  The
\* other blocks are in the lists "others".
NextHoleInBlock(m, b, g, left, s, others, otherwise) ==
  LET size == pc[m].size
      hs == HolesIn(b, g, survivor_mark)
      fit == {h \in hs : h.n >= size}
      got == {h \in fit : \A x \in fit : h.at <= x.at}
      passed == left \cup {h \in hs : \A x \in got : h.at < x.at}
      swept == UNION {Inside(h) : h \in got \cup (passed \ left)}
      done == [holes |-> s.holes + Cardinality(swept),
               pieces |-> s.pieces + Cardinality(passed),
               fragments |-> s.fragments + Cardinality(UNION {Inside(h) : h \in passed})]
      kept == IF size > 0 THEN passed ELSE {}
      a == [alloc[m] EXCEPT !.holes = @ \cup kept]
  IN
  /\ Wipe(Cleared(b, g, size))
  /\ dirty' = (dirty \ swept) \cup Links(kept)
  /\ summary' = [summary EXCEPT ![b] = done]
  /\ IF got = {}
     THEN /\ alloc' = [alloc EXCEPT ![m] = Reset(a)]
          /\ list' = [others EXCEPT ![FullList(done)] = @ \cup {b}]
          /\ pc' = [pc EXCEPT ![m] = otherwise]
     ELSE /\ \E h \in got : alloc' = [alloc EXCEPT ![m] =
               [a EXCEPT !.block = b, !.alloc = h.at, !.sweep = h.at + h.n]]
          /\ list' = others
          /\ Goto(m, Found(m))
  /\ UNCHANGED <<zero, candidate, marked, holes, space_vars, gc_vars, held, allocated>>

\* The rest of the block that the thread has.
SweepOn(m) ==
  LET a == alloc[m]
      next == [pc[m] EXCEPT !.at = IF pc[m].size = 0 THEN "sweep" ELSE "second",
                            !.swept = 0]
  IN
  /\ pc[m].at = "hole"
  /\ IF a.block # NoBlock
     THEN NextHoleInBlock(m, a.block, a.sweep, Leftover(a), summary[a.block], list, next)
     ELSE /\ pc' = [pc EXCEPT ![m] = next]
          /\ UNCHANGED <<memory_vars, flag_vars, list, holes, alloc, space_vars, gc_vars,
                         held, allocated>>

\* The holes that nofl_holeset_try_pop and nofl_holeset_acquire choose from: the
\* smallest that are large enough.
BestFit(hs, n) ==
  LET fit == {h \in hs : h.n >= n} IN {h \in fit : \A x \in fit : h.n <= x.n}

\* nofl_allocate_second_chance: take a local hole, or a chain of holes that another
\* mutator released, and put the tail of the hole back.
SecondChance(m) ==
  LET n == pc[m].size
      local == alloc[m].holes
      from == IF BestFit(local, n) # {} THEN {local}
              ELSE {local \cup c : c \in
                      {x \in holes : BestFit(UNION holes, n) \cap x # {}}}
  IN
  /\ pc[m].at = "second"
  /\ \/ /\ from = {} /\ Goto(m, "sweep")
        /\ UNCHANGED <<memory_vars, holes, alloc, held>>
     \/ \E hs \in from : \E h \in BestFit(hs, n) :
          LET tail == IF h.n > n THEN {Hole(h.block, h.at + n, h.n - n)} ELSE {} IN
          /\ Place(<<h.block, h.at>>, n)
          /\ dirty' = dirty \cup Inside(Hole(h.block, h.at, n)) \cup Links(tail)
          /\ alloc' = [alloc EXCEPT ![m].holes = (hs \ {h}) \cup tail]
          /\ holes' = {c \in holes : ~(c \subseteq hs)}
          /\ Rest(m)
  /\ UNCHANGED <<flag_vars, list, space_vars, gc_vars, allocated>>

\* nofl_blocks_to_sweep_for_size: the logarithm of what fits in a block; no limit
\* for nofl_finish_sweeping.
BlocksToSweep(n) ==
  IF n = 0 THEN Cardinality(Blocks)
  ELSE Max({k \in 0 .. G : 2 ^ k * n <= G})

\* The loop of nofl_allocator_next_hole over to_sweep.
Sweep(m) ==
  /\ pc[m].at = "sweep"
  /\ \/ /\ pc[m].swept < BlocksToSweep(pc[m].size)
        /\ \E b \in list["to_sweep"] :
             NextHoleInBlock(m, b, 0, {}, [holes |-> 0, pieces |-> 0, fragments |-> 0],
                             [list EXCEPT !["to_sweep"] = @ \ {b}],
                             [pc[m] EXCEPT !.swept = @ + 1])
     \/ /\ pc[m].swept = BlocksToSweep(pc[m].size) \/ list["to_sweep"] = {}
        /\ Goto(m, "partly")
        /\ UNCHANGED <<memory_vars, flag_vars, list, holes, alloc, space_vars, gc_vars,
                       held, allocated>>

\* Mutant: off by one.
TakenEarly(t, b) ==
  [alloc[t] EXCEPT !.block = b, !.alloc = G - summary[b].fragments - 1, !.sweep = G]

\* nofl_allocator_acquire_partly_full_block, for b.
Taken(t, b) ==
  [alloc[t] EXCEPT !.block = b, !.alloc = G - summary[b].fragments, !.sweep = G]

\* A partly full block, until there is one with enough room.
PartlyFull(m) ==
  /\ pc[m].at = "partly"
  /\ \/ /\ list["partly_full"] = {} /\ Goto(m, "empty")
        /\ UNCHANGED <<dirty, summary, list, alloc>>
     \/ \E b \in list["partly_full"] :
          LET left == Leftover(Taken(m, b))
              s == [summary[b] EXCEPT !.pieces = 1]
          IN
          IF pc[m].size <= summary[b].fragments
          THEN /\ alloc' = [alloc EXCEPT ![m] = Taken(m, b)]
               /\ summary' = [summary EXCEPT ![b].fragments = 0]
               /\ Pop("partly_full", b) /\ Goto(m, Found(m)) /\ UNCHANGED dirty
          ELSE /\ alloc' = [alloc EXCEPT ![m].holes = @ \cup left]
               /\ dirty' = dirty \cup Links(left)
               /\ summary' = [summary EXCEPT ![b] = s]
               /\ list' = [list EXCEPT !["partly_full"] = @ \ {b},
                                       ![FullList(s)] = @ \cup {b}]
               /\ UNCHANGED pc
  /\ UNCHANGED <<byte, ends, zero, candidate, marked, holes, space_vars, gc_vars, held,
                 allocated>>

\* Mutant: the flag stays.
KeepFlag(b) == zero

\* The blocks whose flag says that they are zero, once b is in use.
ClearFlag(b) == zero \ {b}

\* nofl_allocator_acquire_empty_block, for b: the memory is cleared unless the flag
\* says that it is zero.
AcquireEmpty(t, b) ==
  /\ Pop("empty", b)
  /\ summary' = [summary EXCEPT ![b] = [holes |-> G, pieces |-> 0, fragments |-> 0]]
  /\ alloc' = [alloc EXCEPT ![t] = [@ EXCEPT !.block = b, !.alloc = 0, !.sweep = G]]
  /\ zero' = ClearFlag(b)
  /\ dirty' = IF b \in zero THEN dirty ELSE dirty \ ({b} \X Granules)

Empty(m) ==
  /\ pc[m].at = "empty"
  /\ \/ \E b \in list["empty"] : AcquireEmpty(m, b) /\ Goto(m, Found(m))
     \/ /\ list["empty"] = {}
        /\ pc' = [pc EXCEPT ![m].swept = 0,
                            ![m].at = IF pc[m].swept = 0 THEN "nospace" ELSE "sweep"]
        /\ UNCHANGED <<list, summary, alloc, zero, dirty>>
  /\ UNCHANGED <<byte, ends, candidate, marked, holes, space_vars, gc_vars, held,
                 allocated>>

DropObject(o) ==
  /\ phase = "run" /\ o \in held
  /\ held' = held \ {o}
  /\ UNCHANGED <<memory_vars, flag_vars, list, holes, alloc, space_vars, gc_vars,
                 allocated, pc>>

--------------------------------------------------------------------------------
\* Stopping.

PartlyFullRoom(a) == a.alloc < a.sweep /\ a.sweep = G /\ summary[a.block].pieces = 0

ReleasePartlyFull(t) ==
  LET a == alloc[t] IN
  /\ summary' = [summary EXCEPT ![a.block].fragments = G - a.alloc]
  /\ Push("partly_full", a.block)
  /\ alloc' = [alloc EXCEPT ![t] = Reset(a)]

\* nofl_allocator_finish, first part: nofl_allocator_release_block.
ReleaseBlock(m) ==
  LET a == alloc[m]
      b == a.block
      more == HolesIn(b, a.sweep, survivor_mark)
      all == more \cup Leftover(a)
      swept == UNION {Inside(h) : h \in more}
      s == [holes |-> summary[b].holes + Cardinality(swept),
            pieces |-> summary[b].pieces + Cardinality(all),
            fragments |-> summary[b].fragments + Cardinality(UNION {Inside(h) : h \in all})]
  IN
  /\ Running(m) /\ pc[m].at \in {"idle", "nospace"}
  /\ \/ b = NoBlock /\ UNCHANGED <<memory_vars, summary, list, alloc>>
     \/ b # NoBlock /\ PartlyFullRoom(a) /\ ReleasePartlyFull(m) /\ UNCHANGED memory_vars
     \/ /\ b # NoBlock /\ ~PartlyFullRoom(a)
        /\ Wipe(swept) /\ dirty' = (dirty \ swept) \cup Links(all)
        /\ summary' = [summary EXCEPT ![b] = s]
        /\ Push(FullList(s), b)
        /\ alloc' = [alloc EXCEPT ![m] = Reset([a EXCEPT !.holes = @ \cup all])]
  /\ pc' = [pc EXCEPT ![m] = [Resting EXCEPT !.at = "release"]]
  /\ UNCHANGED <<zero, candidate, marked, holes, space_vars, gc_vars, held, allocated>>

\* nofl_holeset_release: one chain for each size.
ReleaseHoles(m) ==
  LET local == alloc[m].holes IN
  /\ pc[m].at = "release"
  /\ holes' = holes \cup {{h \in local : h.n = n} : n \in {h.n : h \in local}}
  /\ alloc' = [alloc EXCEPT ![m].holes = {}]
  /\ Goto(m, "flushed")
  /\ UNCHANGED <<memory_vars, flag_vars, list, space_vars, gc_vars, held, allocated>>

Resume(m) ==
  /\ phase = "run" /\ pc[m].at = "flushed" /\ Rest(m)
  /\ UNCHANGED <<memory_vars, flag_vars, list, holes, alloc, space_vars, gc_vars, held,
                 allocated>>

\* collect, up to nofl_finish_sweeping, which goes through SweepOn with size 0.
RequestStop(m) ==
  /\ phase = "run" /\ pc[m].at = "flushed" /\ count < LastCount
  /\ phase' = "stopping" /\ collector' = m
  /\ Goto(m, "hole")
  /\ UNCHANGED <<memory_vars, flag_vars, list, holes, alloc, space_vars, kind, count,
                 held, allocated>>

--------------------------------------------------------------------------------
\* A collection.

Stopped == /\ phase = "stopping" /\ pc[collector].at = "nospace"
           /\ \A m \in Mutators \ {collector} : pc[m].at = "flushed"

nofl_advance_current_mark(mark) == IF mark = MARK_2 THEN MARK_0 ELSE mark + 1

\* Mutant: block marks accumulate.
KeepMarks(k) == marked
\* Mutant: a minor collection starts afresh, too.
ForgetMarks(k) == {}

\* nofl_space_clear_block_marks
BlockMarks(k) == IF k = "minor" THEN marked ELSE {}

nofl_space_prepare_gc(k) ==
  /\ Stopped
  /\ phase' = "pinned" /\ kind' = k
  /\ current_mark' = IF k = "minor" THEN current_mark
                     ELSE nofl_advance_current_mark(current_mark)
  /\ marked' = BlockMarks(k)
  /\ UNCHANGED <<memory_vars, zero, candidate, summary, list, holes, alloc,
                 survivor_mark, evacuating, reserve, collector, count, held, allocated,
                 pc>>

\* nofl_space_set_nonempty_mark
SetMark(o) == byte' = [byte EXCEPT ![o] = current_mark] /\ marked' = marked \cup {o[1]}

\* Before evacuation begins, what pinned roots refer to is marked in place.
MarkPinned(o) ==
  /\ phase = "pinned" /\ kind = "compacting"
  /\ o \in held /\ byte[o] # current_mark
  /\ SetMark(o)
  /\ UNCHANGED <<ends, dirty, zero, candidate, summary, list, holes, alloc, space_vars,
                 gc_vars, held, allocated, pc>>

\* The lists that go to to_sweep.
Sources(k) == {"partly_full", "full"} \cup (IF k = "minor" THEN {} ELSE {"promoted", "old"})

\* nofl_space_start_gc, with nofl_space_prepare_evacuation: which of the blocks to
\* sweep become candidates is a matter of estimates.
nofl_space_start_gc ==
  LET moved == UNION {list[l] : l \in Sources(kind)}
      started == [l \in Lists |-> IF l \in Sources(kind) THEN {}
                                  ELSE IF l = "to_sweep" THEN list[l] \cup moved ELSE list[l]]
      spare == list["empty"] \cup list["targets"]
  IN
  /\ phase = "pinned" /\ phase' = "trace"
  /\ IF kind = "compacting"
     THEN /\ list' = [started EXCEPT !["empty"] = spare, !["targets"] = {}]
          /\ IF spare = {} THEN UNCHANGED <<evacuating, reserve, candidate>>
             ELSE /\ evacuating' = TRUE /\ reserve' = Reserve
                  /\ \E c \in SUBSET started["to_sweep"] :
                       candidate' = (candidate \ started["to_sweep"]) \cup c
     ELSE list' = started /\ UNCHANGED <<evacuating, reserve, candidate>>
  /\ UNCHANGED <<memory_vars, zero, marked, summary, holes, alloc, current_mark,
                 survivor_mark, kind, collector, count, held, allocated, pc>>

\* nofl_space_should_evacuate
should_evacuate(o) == evacuating /\ o[1] \in candidate

\* nofl_space_evacuate_or_mark_object
MarkObject(w, o) ==
  /\ phase = "trace" /\ pc[w].at = "idle" /\ o \in held
  /\ byte[o] \in {YOUNG, survivor_mark} \ {current_mark}
  /\ IF should_evacuate(o)
     THEN /\ byte' = [byte EXCEPT ![o] = BUSY] /\ UNCHANGED marked
          /\ pc' = [pc EXCEPT ![w] = [Resting EXCEPT !.at = "copy", !.obj = o]]
     ELSE SetMark(o) /\ UNCHANGED pc
  /\ UNCHANGED <<ends, dirty, zero, candidate, summary, list, holes, alloc, space_vars,
                 gc_vars, held, allocated>>

\* nofl_space_evacuate with room in the worker's block.
Copy(w) ==
  LET o == pc[w].obj
      a == alloc[w]
      n == Cardinality(Extent(o))
      new == <<a.block, a.alloc>>
  IN
  /\ pc[w].at = "copy" /\ a.sweep - a.alloc >= n
  /\ byte' = [byte EXCEPT ![o] = FORWARDED, ![new] = current_mark]
  /\ ends' = ends \cup {<<new[1], new[2] + n - 1>>}
  /\ dirty' = dirty \cup Inside(Hole(new[1], new[2], n))
  /\ marked' = marked \cup {new[1]}
  /\ held' = (held \ {o}) \cup {new}
  /\ alloc' = [alloc EXCEPT ![w].alloc = @ + n]
  /\ Rest(w)
  /\ UNCHANGED <<zero, candidate, summary, list, holes, space_vars, gc_vars, allocated>>

\* nofl_evacuation_allocate without room: give a full target back.
ReleaseTarget(w) ==
  /\ pc[w].at = "copy"
  /\ alloc[w].sweep - alloc[w].alloc < Cardinality(Extent(pc[w].obj))
  /\ IF alloc[w].block = NoBlock THEN UNCHANGED <<list, alloc>>
     ELSE /\ Push("old", alloc[w].block)
          /\ alloc' = [alloc EXCEPT ![w] = Reset(@)]
  /\ Goto(w, "partly")
  /\ UNCHANGED <<memory_vars, flag_vars, holes, space_vars, gc_vars, held, allocated>>

\* nofl_allocator_acquire_evacuation_target
PartlyFullTarget(w) ==
  /\ pc[w].at = "partly"
  /\ \/ /\ list["partly_full"] = {} /\ Goto(w, "empty")
        /\ UNCHANGED <<summary, list, alloc>>
     \/ \E b \in list["partly_full"] :
          /\ alloc' = [alloc EXCEPT ![w] = Taken(w, b)]
          /\ summary' = [summary EXCEPT ![b].fragments = 0]
          /\ Pop("partly_full", b) /\ Goto(w, "copy")
  /\ UNCHANGED <<memory_vars, zero, candidate, marked, holes, space_vars, gc_vars, held,
                 allocated>>

\* The object is marked in place if there is no block left.
EmptyTarget(w) ==
  /\ pc[w].at = "empty"
  /\ \/ /\ \E b \in list["empty"] : AcquireEmpty(w, b) /\ Goto(w, "copy")
        /\ UNCHANGED <<byte, marked>>
     \/ /\ list["empty"] = {} /\ SetMark(pc[w].obj) /\ Rest(w)
        /\ UNCHANGED <<list, summary, alloc, zero, dirty>>
  /\ UNCHANGED <<ends, candidate, holes, space_vars, gc_vars, held, allocated>>

\* A worker ends one of the traces of the collection: nofl_allocator_finish.
FinishWorker(w) ==
  LET a == alloc[w] IN
  /\ phase = "trace" /\ pc[w].at = "idle" /\ a.block # NoBlock
  /\ IF PartlyFullRoom(a) THEN ReleasePartlyFull(w)
     ELSE /\ Push("old", a.block)
          /\ alloc' = [alloc EXCEPT ![w] = Reset(a)]
          /\ UNCHANGED summary
  /\ UNCHANGED <<memory_vars, zero, candidate, marked, holes, space_vars, gc_vars, held,
                 allocated, pc>>

Traced == /\ phase = "trace"
          /\ \A w \in Workers : pc[w].at = "idle" /\ alloc[w].block = NoBlock
          /\ \A o \in held : byte[o] = current_mark

\* nofl_holeset_clear
ClearHoles == {}

\* The evacuation targets after the collection, as nofl_space_finish_evacuation or
\* the code that takes surplus blocks away leaves them, and filled up with blocks that
\* turned out to be empty.
TargetsAfter(dead) ==
  LET pool == IF evacuating THEN list["empty"] ELSE list["targets"]
      n == Min({MinReserve, Cardinality(pool)})
      more == Min({Cardinality(dead),
                   Max({0, (IF evacuating THEN reserve ELSE MinReserve) - n})})
  IN {s \cup d : s \in kSubset(n, pool), d \in kSubset(more, dead)}

\* nofl_space_finish_gc, with nofl_space_promote_blocks.
nofl_space_finish_gc ==
  LET dead == list["to_sweep"] \ marked
      freed == UNION {UNION {Inside(h) : h \in HolesIn(b, 0, current_mark)} :
                      b \in list["promoted"]}
  IN
  /\ Traced
  /\ holes' = ClearHoles
  /\ evacuating' = FALSE
  /\ reserve' = IF evacuating THEN reserve ELSE MinReserve
  /\ \E targets \in TargetsAfter(dead) :
       list' = [list EXCEPT
         !["targets"] = targets, !["empty"] = (@ \cup list["targets"] \cup dead) \ targets,
         !["to_sweep"] = @ \cap marked, !["promoted"] = {}, !["old"] = @ \cup list["promoted"]]
  /\ Wipe((dead \X Granules) \cup freed) /\ dirty' = dirty \ freed
  /\ survivor_mark' = current_mark
  /\ phase' = "run" /\ collector' = NoOne /\ count' = count + 1
  /\ Rest(collector)
  /\ UNCHANGED <<flag_vars, alloc, current_mark, kind, held, allocated>>

--------------------------------------------------------------------------------

Mutate(m) ==
  \/ \E n \in Sizes : Allocate(m, n)
  \/ nofl_allocate_bump_pointer(m) \/ SweepOn(m) \/ SecondChance(m) \/ Sweep(m)
  \/ PartlyFull(m) \/ Empty(m)
  \/ ReleaseBlock(m) \/ ReleaseHoles(m) \/ Resume(m) \/ RequestStop(m)

Evacuate(w) ==
  \/ \E o \in held : MarkObject(w, o)
  \/ Copy(w) \/ ReleaseTarget(w) \/ PartlyFullTarget(w) \/ EmptyTarget(w)
  \/ FinishWorker(w)

Collect ==
  \/ \E k \in Kinds : nofl_space_prepare_gc(k)
  \/ \E o \in held : MarkPinned(o)
  \/ nofl_space_start_gc \/ nofl_space_finish_gc

Next == \/ \E m \in Mutators : Mutate(m)
        \/ \E w \in Workers : Evacuate(w)
        \/ \E o \in held : DropObject(o)
        \/ Collect

Spec == Init /\ [][Next]_vars

--------------------------------------------------------------------------------
\* Properties.

Marks == {NONE, YOUNG, BUSY, FORWARDED} \cup MARK_0 .. MARK_2
HoleSet == {h \in [block : Blocks, at : Granules, n : 1 .. G] : h.at + h.n <= G}

\* The state has the types of struct nofl_space, struct nofl_allocator and the
\* metadata.
TypeOK ==
  /\ byte \in [Locations -> Marks] /\ ends \subseteq Locations
  /\ dirty \subseteq Locations
  /\ zero \subseteq Blocks /\ candidate \subseteq Blocks /\ marked \subseteq Blocks
  /\ summary \in [Blocks -> [holes : 0 .. G, pieces : 0 .. G, fragments : 0 .. G]]
  /\ list \in [Lists -> SUBSET Blocks]
  /\ \A c \in holes : c \subseteq HoleSet /\ c # {}
  /\ \A t \in Threads :
       /\ alloc[t].block \in Blocks \cup {NoBlock}
       /\ alloc[t].alloc \in 0 .. G /\ alloc[t].sweep \in alloc[t].alloc .. G
       /\ alloc[t].holes \subseteq HoleSet
       /\ pc[t] \in [at : {"idle", "bump", "hole", "second", "sweep", "partly", "empty",
                           "nospace", "release", "flushed", "copy"},
                     size : 0 .. G, swept : 0 .. Cardinality(Blocks),
                     obj : Locations \cup {<<NoBlock, 0>>}]
  /\ current_mark \in MARK_0 .. MARK_2 /\ survivor_mark \in MARK_0 .. MARK_2
  /\ evacuating \in BOOLEAN
  /\ reserve \in {MinReserve, Reserve}
  /\ phase \in {"run", "stopping", "pinned", "trace"} /\ count \in 0 .. LastCount
  /\ kind \in {"minor", "in_place", "compacting"} /\ collector \in Mutators \cup {NoOne}
  /\ held \subseteq Locations /\ allocated \in 0 .. MaxAlloc[Cardinality(Mutators)]

\* A block is in one list, or in the hands of one thread: none is lost when blocks
\* are popped, released and moved, and none is given to two threads.  Besides, as the
\* code asserts, nothing is left to sweep when a collection starts (nofl-space.h:1361);
\* no target is left when an evacuation ends (1394); and only blocks that were empty are
\* targets (664).
OneOwner ==
  /\ \A b \in Blocks :
       Cardinality({l \in Lists : b \in list[l]})
         + Cardinality({t \in Threads : alloc[t].block = b}) = 1
  /\ phase = "pinned" => list["to_sweep"] = {}
  /\ evacuating => list["targets"] = {}
  /\ \A w \in Workers : alloc[w].block # NoBlock => summary[alloc[w].block].holes = G

\* What somebody may allocate from: the holes of the allocators, the second-chance
\* holes, the ends of partly full blocks, the blocks that are empty.
Free ==
  (UNION ({Inside(h) : h \in UNION (holes \cup {alloc[t].holes \cup Leftover(alloc[t])
                                                : t \in Threads})}
          \cup {{b} \X (G - summary[b].fragments .. G - 1) : b \in list["partly_full"]}))
    \cup ((list["empty"] \cup list["targets"]) \X Granules)

\* An object that mutators can reach keeps its memory: it overlaps no other and nothing
\* that may be allocated from, through sweeps that go on during later allocation,
\* promotion, evacuation and any sequence of collections of all kinds.  As the code
\* asserts, what a thread leaves of a block to be partly full is not all of it
\* (nofl-space.h:686).
HeldIntact ==
  /\ TypeOK
  /\ \A t \in Threads : pc[t].at = "idle" /\ alloc[t].block # NoBlock => alloc[t].alloc > 0
  /\ \A o \in held :
       /\ byte[o] \in {YOUNG, survivor_mark, current_mark, BUSY}
       /\ Extent(o) \cap Free = {}
       /\ \A p \in held \ {o} : Extent(o) \cap Extent(p) = {}

\* What mutators get is zero, and has no mark bytes: in the holes of their
\* allocators, in the ends of partly full blocks, in second-chance holes but for the
\* links at their start, and in the empty blocks that are flagged as zero.
FreeIsZero ==
  LET second == UNION (holes \cup {alloc[t].holes : t \in Threads})
      flagged == (list["empty"] \cap zero) \X Granules
      blank == (Free \ ((list["empty"] \cup list["targets"]) \X Granules)) \cup flagged
  IN phase = "run" =>
       /\ blank \cap dirty \subseteq Links(second)
       /\ \A o \in Free : byte[o] = NONE /\ o \notin ends

\* When the mark that means "live" changes, no byte has the new mark yet: what died
\* with that mark two collections ago has been swept (the comment at
\* nofl-space.h:217-220).
MarksFresh ==
  [][current_mark' # current_mark =>
       \A o \in Locations : byte[o] # current_mark']_vars

\* After a collection that is not minor, a block is kept for sweeping only if
\* something in it is held.
ReclaimsDead ==
  [][count' # count /\ kind # "minor" =>
       \A b \in list'["to_sweep"] : \E o \in held : o[1] = b]_vars
================================================================================
