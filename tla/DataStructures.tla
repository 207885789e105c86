--------------------------- MODULE DataStructures ---------------------------
(***************************************************************************)
(* The sequential data structures of the collectors, each with the         *)
(* operations that the collectors perform on it: address maps, address     *)
(* sets, the splay tree of large objects and the extents made from it, the *)
(* extents of slabs, the serial tracer with its worklist, the metadata     *)
(* bytes, and the tasks of the background thread.                          *)
(*                                                                         *)
(* A behavior works on one of them: it is the structure as the code keeps  *)
(* it, and held is what its users put in: a function, a set of keys, a set *)
(* of spans.  The properties say that the two agree.  The other modules    *)
(* have functions, sets and sequences where the code has these.            *)
(***************************************************************************)
EXTENDS Integers, FiniteSetsExt, SequencesExt

CONSTANTS
  Structures,      \* those to try
  Keys,            \* hashes of addresses
  Updates,         \* the entries <<k, v>> with another value than 1 for a key
  Spans, SlabSpans,\* of large objects, and of slabs
  Objects, Fields, \* a heap: the sequence of objects that an object refers to
  page_size,       \* of the serial worklist at first, in references
  Memory, Values,  \* addresses and values of metadata bytes
  MARK_MASK, END,  \* the bits of a mark, and the one at the end of an object
  Priorities,      \* of the tasks of the background thread
  Null,
  MaxBytes,        \* Bounds: the bytes that are not zero, and
  MaxTasks         \* the tasks

ASSUME DataStructuresAssumption ==
  /\ Structures \subseteq {"map", "set", "tree", "slabs", "trace", "bytes", "tasks"}
  /\ Keys \subseteq Nat /\ Updates \subseteq Keys \X {2}
  /\ \A s \in Spans \cup SlabSpans : s.addr \in Nat \ {0} /\ s.size \in Nat \ {0}
  /\ Fields \in [Objects -> Seq(Objects)] /\ Null \notin Objects
  /\ page_size \in {2 ^ n : n \in 0 .. 4} /\ Memory = 0 .. Cardinality(Memory) - 1
  /\ Cardinality(Memory) % 8 = 0 /\ Values \subseteq 1 .. 255 /\ MaxBytes \in Nat
  /\ Priorities \subseteq Nat /\ MaxTasks \in Nat

VARIABLES kind, it, held
vars == <<kind, it, held>>

Table == INSTANCE AddressTable
Tree == INSTANCE SplayTree
Ext == INSTANCE Extents
Worklist == INSTANCE SimpleWorklist
Byte == INSTANCE ByteScan

Pages(S) == UNION {s.addr .. s.addr + s.size - 1 : s \in S}
Free(s) == Pages({s}) \cap Pages(held) = {}

-----------------------------------------------------------------------------
\* Initial states.

TracerInit ==
  [worklist |-> Worklist!worklist_init(page_size), roots |-> <<>>, fields |-> <<>>,
   marked |-> {}, rooted |-> {}, running |-> "no"]

NoTasks == [state |-> "starting", capacity |-> 0, tasks |-> <<>>, next_id |-> 0, ran |-> <<>>]

NoEntries == [k \in {} |-> 0]

Init ==
  /\ kind \in Structures
  /\ it = CASE kind = "map" -> Table!hash_init(8)
            [] kind = "set" -> Table!hash_init(8)
            [] kind = "tree" -> [root |-> Null, extents |-> Ext!extents_allocate(2)]
            [] kind = "slabs" -> Ext!extents_allocate(1)
            [] kind = "trace" -> TracerInit
            [] kind = "tasks" -> NoTasks
            [] OTHER -> [p \in Memory |-> 0]
  /\ held = CASE kind = "map" -> NoEntries [] OTHER -> {}

-----------------------------------------------------------------------------
\* Address maps and sets.  A set is a table whose values say nothing.

On(k) == kind = k /\ kind' = kind

Entry(k, v) == [j \in DOMAIN held \cup {k} |-> IF j = k THEN v ELSE held[j]]

MapAdd(k, v) ==
  /\ On("map")
  /\ it' = Table!hash_insert(it, k, v)
  /\ held' = Entry(k, v)

\* To remove what is not there is a trap.
MapRemove(k) ==
  /\ On("map") /\ k \in DOMAIN held
  /\ it' = Table!hash_remove(it, k)
  /\ held' = [j \in DOMAIN held \ {k} |-> held[j]]

MapClear ==
  /\ On("map")
  /\ it' = Table!hash_init(it.size)
  /\ held' = NoEntries

SetAdd(k) ==
  /\ On("set")
  /\ it' = Table!hash_insert(it, k, 1)
  /\ held' = held \cup {k}

SetRemove(k) ==
  /\ On("set") /\ k \in held
  /\ it' = Table!hash_remove(it, k)
  /\ held' = held \ {k}

SetContains(k) == Table!hash_contains(it, k)

SetClear ==
  /\ On("set")
  /\ it' = Table!hash_init(it.size)
  /\ held' = {}

\* The union of a new set with this one takes its place.  The union with a set that has
\* entries of its own does not look at how many slots are free, and is left out.
SetUnion ==
  /\ On("set")
  /\ it' = Table!populate(Table!hash_init(it.size), it)
  /\ UNCHANGED held

-----------------------------------------------------------------------------
\* The tree of large objects, and the extents that a collection makes from it.

InTree(root) == it' = [it EXCEPT !.root = root]

\* Between collections, when mutators and the background task run, there are no extents.
NoExtents == it.extents.ranges = <<>>

LargeObject(s) ==
  /\ On("tree") /\ NoExtents /\ Free(s)
  /\ InTree(Tree!tree_insert(it.root, s))
  /\ held' = held \cup {s}

\* An object is cut off one from the quarantine that is longer.
CutOff(s, t) ==
  /\ On("tree") /\ NoExtents /\ s \in held
  /\ t.addr > s.addr /\ t.addr + t.size = s.addr + s.size
  /\ InTree(Tree!tree_insert(Tree!Resized(it.root, s.addr, t.addr - s.addr), t))
  /\ held' = (held \ {s}) \cup {[s EXCEPT !.size = t.addr - s.addr], t}

\* The quarantine gives the pages of an object back.
Unmap(s) ==
  /\ On("tree") /\ NoExtents /\ s \in held
  /\ InTree(Tree!tree_remove(it.root, s.addr))
  /\ held' = held \ {s}

\* A lookup of the object that an edge is in, or that a conservative root points to.
Lookup(addr) ==
  /\ On("tree")
  /\ InTree(Tree!tree_splay(it.root, addr))
  /\ UNCHANGED held

PrepareExtents ==
  LET Add(e, s) == Ext!extents_append(e, s.addr, s.size) IN
  /\ On("tree") /\ NoExtents
  /\ it' = [it EXCEPT !.extents = FoldLeft(Add, Ext!extents_prepare(@, Cardinality(held)),
                                           Tree!InOrder(it.root))]
  /\ UNCHANGED held

ClearExtents ==
  /\ On("tree")
  /\ it' = [it EXCEPT !.extents = Ext!extents_clear(@)]
  /\ UNCHANGED held

\* The slabs of the copy space and the nofl space.
AddSlabs(s) ==
  /\ On("slabs") /\ Free(s)
  /\ it' = Ext!extents_adjoin(it, s.addr, s.size)
  /\ held' = held \cup {s}

-----------------------------------------------------------------------------
\* The serial tracer.

AddRoot(o) ==
  /\ On("trace") /\ it.running = "no" /\ o \notin it.rooted
  /\ it' = [it EXCEPT !.roots = Append(@, o)]
  /\ o \notin ToSet(it.roots)
  /\ UNCHANGED held

StartTrace(extent) ==
  /\ On("trace") /\ it.running = "no"
  /\ it' = [it EXCEPT !.running = extent, !.rooted = @ \cup ToSet(it.roots)]
  /\ UNCHANGED held

\* The state in which the object o, which a root or a field names, was visited: the first
\* visit marks it and enqueues it.
Visited(t, o) ==
  IF o \in t.marked THEN t
  ELSE [t EXCEPT !.marked = @ \cup {o}, !.worklist = Worklist!worklist_push(@, o)]

TraceRoot ==
  /\ On("trace") /\ it.running # "no" /\ it.roots # <<>>
  /\ it' = Visited([it EXCEPT !.roots = Tail(@)], Head(it.roots))
  /\ UNCHANGED held

Popped == Worklist!worklist_first(it.worklist)

\* The loop over the worklist, when no root is left.
TraceOne ==
  /\ On("trace") /\ it.running = "full" /\ it.roots = <<>> /\ it.fields = <<>>
  /\ Popped # Null
  /\ it' = [it EXCEPT !.worklist = Worklist!worklist_pop(@), !.fields = Fields[Popped]]
  /\ UNCHANGED held

TraceEdge ==
  /\ On("trace") /\ it.fields # <<>>
  /\ it' = Visited([it EXCEPT !.fields = Tail(@)], Head(it.fields))
  /\ UNCHANGED held

EndTrace ==
  /\ On("trace") /\ it.running # "no" /\ it.roots = <<>> /\ it.fields = <<>>
  /\ it.running = "full" => Popped = Null
  /\ it' = [it EXCEPT !.running = "no"]
  /\ UNCHANGED held

-----------------------------------------------------------------------------
\* The metadata bytes: allocation, marking and sweeping set them.

Write(p, v) ==
  /\ On("bytes")
  /\ Cardinality({q \in Memory \ {p} : it[q] # 0}) < MaxBytes
  /\ it' = [it EXCEPT ![p] = v]
  /\ UNCHANGED held

-----------------------------------------------------------------------------
\* The background thread, which holds its lock while it runs its tasks.  No collector
\* removes a task or destroys the thread.

\* Where a task goes: after those of its own priority.
Insert(priority) ==
  Min({Len(it.tasks) + 1} \cup {i \in DOMAIN it.tasks : priority < it.tasks[i].priority})

AddTask(priority) ==
  /\ On("tasks") /\ it.next_id < MaxTasks
  /\ it' = [it EXCEPT
       !.capacity = IF Len(it.tasks) = @ THEN 2 * @ + 1 ELSE @,
       !.tasks = InsertAt(@, Insert(priority), [id |-> it.next_id, priority |-> priority]),
       !.next_id = @ + 1]
  /\ held' = held \cup {<<priority, it.next_id>>}

StartThread ==
  /\ On("tasks") /\ it.state = "starting"
  /\ it' = [it EXCEPT !.state = "running"]
  /\ UNCHANGED held

\* Once a second.
RunTasks ==
  /\ On("tasks") /\ it.state = "running"
  /\ it' = [it EXCEPT !.ran = [i \in DOMAIN it.tasks |-> it.tasks[i].id]]
  /\ UNCHANGED held

-----------------------------------------------------------------------------
Next ==
  \/ \E k \in Keys : MapAdd(k, 1) \/ MapRemove(k) \/ SetAdd(k) \/ SetRemove(k)
  \/ \E e \in Updates : MapAdd(e[1], e[2])
  \/ MapClear \/ SetClear \/ SetUnion
  \/ \E s \in Spans : LargeObject(s) \/ Unmap(s) \/ \E t \in Spans : CutOff(s, t)
  \/ \E addr \in Pages(Spans) : Lookup(addr)
  \/ PrepareExtents \/ ClearExtents
  \/ \E s \in SlabSpans : AddSlabs(s)
  \/ \E o \in Objects : AddRoot(o)
  \/ \E extent \in {"roots", "full"} : StartTrace(extent)
  \/ TraceRoot \/ TraceOne \/ TraceEdge \/ EndTrace
  \/ \E p \in Memory, v \in Values \cup {0} : Write(p, v)
  \/ \E priority \in Priorities : AddTask(priority)
  \/ StartThread \/ RunTasks

Spec == Init /\ [][Next]_vars

-----------------------------------------------------------------------------
\* Properties.

\* Type correctness of each structure.
TypeOK ==
  /\ kind \in Structures
  /\ kind \in {"map", "set"} =>
       /\ it.size \in {2 ^ n : n \in 3 .. 6}
       /\ it.slots \in [0 .. it.size - 1 -> (Keys \X {1, 2}) \cup {Null}]
  /\ kind = "tree" => ToSet(Tree!InOrder(it.root)) \subseteq Spans
  /\ kind = "trace" =>
       /\ it.marked \subseteq Objects /\ it.rooted \subseteq Objects
       /\ it.worklist.buf \in [0 .. it.worklist.size - 1 -> Objects \cup {Null}]
  /\ kind = "tasks" => it.next_id = Len(it.tasks) /\ it.state \in {"starting", "running"}
  /\ kind = "bytes" => it \in [Memory -> Values \cup {0}]

\* The keys of a table, in spite of the entries that insertion and removal moved.
TablesHold ==
  /\ kind = "map" =>
       /\ \A k \in Keys : Table!hash_lookup(it, k, 0) = IF k \in DOMAIN held THEN held[k] ELSE 0
       /\ Table!Entries(it) = {<<k, held[k]>> : k \in DOMAIN held}
  /\ kind = "set" =>
       /\ \A k \in Keys : SetContains(k) <=> k \in held
       /\ Table!Entries(it) = {<<k, 1>> : k \in held}
  /\ kind \in {"map", "set"} =>
       /\ it.n_items = Cardinality(DOMAIN it.slots \ {i \in DOMAIN it.slots : it.slots[i] = Null})
       /\ it.n_items < it.size

\* The tasks, and those that ran last, in their order.
TasksInOrder ==
  kind = "tasks" =>
    LET Sooner(s, t) == s[1] < t[1] \/ (s[1] = t[1] /\ s[2] < t[2])
        order == SetToSortSeq(held, Sooner)
        ids == [i \in DOMAIN order |-> order[i][2]]
    IN /\ [i \in DOMAIN it.tasks |-> it.tasks[i].id] = ids
       /\ Len(it.tasks) <= it.capacity
       /\ it.ran = SelectSeq(ids, LAMBDA n : n < Len(it.ran))

\* An address map or set finds each key that was added and not removed, with its latest
\* value, and no other: lookups stop at the first entry nearer to its home
\* (address-map.h:142, address-set.h:137); and there is always a slot free, without which
\* no probe for an absent key would end (address-map.h:69).  The background thread has
\* every task once, by priority, and by the order of their registration where it is the
\* same: the tasks that age what may be paged out come before the sizer's, and those that
\* page it out come last (background-thread.h:55, 110).
EntriesKept == TypeOK /\ TablesHold /\ TasksInOrder

\* The splay tree, in the order of addresses, and what it finds by any address in a span.
TreeHolds ==
  kind = "tree" =>
    /\ LET spans == Tree!InOrder(it.root) IN
         /\ ToSet(spans) = held /\ Len(spans) = Cardinality(held)
         /\ \A i, j \in DOMAIN spans : i < j => spans[i].addr < spans[j].addr
    /\ \A addr \in Pages(Spans) :
         /\ Tree!tree_contains(it.root, addr) <=> addr \in Pages(held)
         /\ Tree!tree_contains(it.root, addr) => addr \in Pages({Tree!tree_splay(it.root, addr).key})

\* The extents made from the tree: the start of the span that an address is in.
ExtentsOfTree ==
  kind = "tree" /\ ~NoExtents =>
    /\ Len(it.extents.ranges) <= it.extents.capacity
    /\ \A addr \in Pages(Spans) :
         LET lo == Ext!extents_contain_addr(it.extents, addr) IN
         IF addr \in Pages(held) THEN \E s \in held : s.addr = lo /\ addr \in Pages({s})
         ELSE lo = 0

\* The extents of slabs: the start of the slabs that an address is in.
SlabsFound ==
  kind = "slabs" =>
    /\ \A addr \in Pages(SlabSpans) :
         LET lo == Ext!extents_contain_addr(it, addr) IN
         /\ lo # 0 <=> addr \in Pages(held)
         /\ lo # 0 => lo .. addr \subseteq Pages(held)
    /\ \A i \in 1 .. Len(it.ranges) - 1 : it.ranges[i].hi_addr <= it.ranges[i + 1].lo_addr
    /\ Len(it.ranges) <= it.capacity

\* The splay tree has the large objects that were inserted, and finds each by any address
\* in it, whatever lookups rotated (splay-tree.h:101); the extents that a collection makes
\* from it find the start of the object that an address is in, which conservative marking
\* takes for the object (large-object-space.h:425); and the binary search in the extents of
\* slabs finds those an address is in, or nothing if there are none: the ranges are in
\* order, apart, and fit (extents.h:21).
SpansFound == TreeHolds /\ ExtentsOfTree /\ SlabsFound

T == INSTANCE Tracing WITH
       Edges <- [o \in Objects |-> ToSet(Fields[o])],
       marked <- IF kind = "trace" THEN it.marked ELSE {},
       rooted <- IF kind = "trace" THEN it.rooted ELSE {},
       running <- IF kind = "trace" THEN it.running ELSE "no"

\* The serial tracer implements the same abstract trace as the parallel one: roots-only
\* traces leave their objects in the worklist for the full trace that follows, and none is
\* lost when the ring buffer grows with its contents wrapped around (serial-tracer.h:54).
ImplementsTracing == T!TracingSpec

\* What a search from ptr is for, byte by byte, within a limit at a word's end.
FirstFrom(ptr, match, limit) ==
  Min({limit} \cup {n \in 0 .. limit - 1 : ptr + n \in match})

\* Word by word searches find the first byte, or the last one before, that the byte by
\* byte search does, at any alignment: the end of an object, the next object that survives
\* in a block, and the object an interior pointer is in (nofl-space.h:607, 803, 1914).
ScansRight ==
  kind = "bytes" =>
    LET limit(ptr) == Max(Memory) + 1 - ptr
        Marked(tag) == {p \in Memory : it[p] % (MARK_MASK + 1) = tag}
        Ends == {p \in Memory : (it[p] \div END) % 2 = 1}
        Starts == {p \in Memory : it[p] % (MARK_MASK + 1) # 0}
    IN \A ptr \in Memory :
         /\ \A tag \in {v % (MARK_MASK + 1) : v \in Values} \ {0} :
              Byte!scan_for_byte_with_tag(it, ptr, limit(ptr), MARK_MASK, tag)
                = FirstFrom(ptr, Marked(tag), limit(ptr))
         /\ Byte!scan_for_byte_with_bits(it, ptr, limit(ptr), END) = FirstFrom(ptr, Ends, limit(ptr))
         /\ Byte!scan_backwards_for_byte_with_bits(it, ptr, 0, MARK_MASK + END)
              = Max({-1} \cup {p \in Ends \cup Starts : p < ptr})
================================================================================
