--------------------------- MODULE LargeObjects ---------------------------
(***************************************************************************)
(* The large object space (large-object-space.h) in the generational       *)
(* collector of mmc.c.                                                     *)
(*                                                                         *)
(* Large objects take pages from the operating system, do not move, and    *)
(* are described by nodes that are in a splay tree by the span they cover  *)
(* and in a hash table by address.  A collection marks what its workers    *)
(* reach and puts the others in quarantine: size-segregated lists, which   *)
(* allocation takes from first, and from which a background task gives to  *)
(* the operating system what it finds there for the second time.           *)
(*                                                                         *)
(* A node is known by the address of its object, counted in pages, and the *)
(* tree is the function from addresses to nodes.  DataStructures has the   *)
(* tree, the tables and the extents as the code implements them.  Large    *)
(* objects have one field, which refers to another or is Null, and the     *)
(* objects of other spaces are left out: Handles stand for them, and for   *)
(* precise roots.  What is done with a lock held is one step.              *)
(***************************************************************************)
EXTENDS Integers, FiniteSets, SequencesExt

CONSTANTS
  Crews,       \* the sets of workers that parallelism may make
  Handles, Stack, \* precise roots, and the word of a mutator's stack
  Pages, Bases,   \* of the operating system: pages, and where it may map what it is
                  \* asked for: at the first that is free
  Sizes,       \* of objects, in pages
  Kinds,       \* of objects, by how they are traced
  page_size,
  Words,       \* what words that look like addresses there may be on the stack, and
  AnyWord,     \* whether they may be there when the program holds no such object
  Requests,    \* kinds of collection that mutators ask for
  Null,
  MaxCount,    \* Bounds: the number of collections, and
  MaxNodes     \* of nodes at once

NURSERY == 0
MARK_0 == 1
MARK_1 == 3

ASSUME LargeObjectsAssumption ==
  /\ Pages \subseteq Nat /\ IsFiniteSet(Pages)
  /\ Bases \subseteq Pages /\ Sizes \subseteq Nat \ {0}
  /\ Kinds \subseteq {"precisely", "none", "conservatively"}
  /\ Stack \notin Handles /\ Null \notin Pages /\ (Handles \cup {Stack}) \cap Pages = {}
  /\ Words \subseteq Pages /\ page_size \in {2 ^ n : n \in 0 .. 16} /\ AnyWord \in BOOLEAN
  /\ Requests \subseteq {"minor", "major"} /\ MaxCount \in Nat /\ MaxNodes \in Nat

VARIABLES
  object_tree,      \* the nodes, by the address of their span
  object_map, nursery,
  quarantine,       \* for each size class, the list of its nodes
  marked,
  extents,          \* spans, during a collection
  total_pages, free_pages, live_pages, \* live_pages_at_last_collection
  remembered_edges, \* edges, by their object
  remembered_set,   \* those in the heap's field set
  synchronous_release,
  mapped,           \* pages that the operating system has given out
  field,            \* what the field of each live object refers to
  root,             \* what handles and the stack hold; in the stack it may be any page
                    \* of an object
  phase,            \* "mutator", "minor" or "major"
  count,
  todo,             \* edges to trace
  pc,               \* the object each worker is at, and the mark it has seen
  allocated,        \* pages allocated since the last collection
  reused            \* objects allocated from the quarantine since then

space_vars == <<object_tree, object_map, nursery, quarantine, total_pages, free_pages,
                mapped>>
mark_vars == <<marked, extents, live_pages>>
remembered_vars == <<remembered_edges, remembered_set>>
gc_vars == <<phase, count, todo, pc>>
program_vars == <<allocated, reused>>
vars == <<space_vars, mark_vars, remembered_vars, synchronous_release, field, root,
          gc_vars, program_vars>>

Workers == DOMAIN pc
Nodes == DOMAIN object_tree
Live == {a \in Nodes : object_tree[a].is_live}
Span(a) == a .. a + object_tree[a].size - 1
Roots == Handles \cup {Stack}

--------------------------------------------------------------------------------

\* gc_histogram_bucket, with the precision of 2 bits that lospace has.
size_class(npages) ==
  LET size == npages * page_size
      log2 == CHOOSE n \in 0 .. 30 : 2 ^ n <= size /\ size < 2 ^ (n + 1)
      major == log2 - 1
  IN IF size < 4 THEN size ELSE 4 * major + ((size \div 2 ^ (major - 1)) % 4)

Classes == {size_class(n) : n \in 1 .. Cardinality(Pages)}

Idle == [ref |-> Null, mark |-> NURSERY]

\* large_object_space_init
Init ==
  /\ object_tree = << >> /\ object_map = {} /\ nursery = {}
  /\ quarantine = [c \in Classes |-> << >>]
  /\ marked = MARK_0 /\ extents = {}
  /\ total_pages = 0 /\ free_pages = 0 /\ live_pages = 0
  /\ remembered_edges = {} /\ remembered_set = {}
  /\ synchronous_release \in BOOLEAN
  /\ mapped = {} /\ field = << >> /\ root = [r \in Roots |-> Null]
  /\ phase = "mutator" /\ count = 0 /\ todo = {}
  /\ \E crew \in Crews : pc = [w \in crew |-> Idle]
  /\ allocated = 0 /\ reused = {}

--------------------------------------------------------------------------------
\* Allocation.

ClassOf(tree, a) == size_class(tree[a].size)

\* What is left of a list without the nodes of gone, in the same order: entry j is the
\* one before which j - 1 others are left.
Without(list, gone) ==
  LET left == {i \in DOMAIN list : list[i] \notin gone}
      before(i) == Cardinality({k \in left : k < i})
  IN [j \in 1 .. Cardinality(left) |-> list[CHOOSE i \in left : before(i) = j - 1]]

\* large_object_space_add_to_freelist and large_object_space_remove_from_freelist
Pushed(q, tree, a) == [q EXCEPT ![ClassOf(tree, a)] = <<a>> \o @]
Unlinked(q, tree, a) == [q EXCEPT ![ClassOf(tree, a)] = Without(@, {a})]
Dead(size) == [size |-> size, is_live |-> FALSE, mark |-> NURSERY, trace |-> "none",
               age |-> 0]
NewObject(size, trace) == [Dead(size) EXCEPT !.is_live = TRUE, !.trace = trace]

MayFit(npages, c) == c >= size_class(npages)

\* The first node of the first list that is long enough, if any.
Holes(npages) ==
  LET fits(c) == {i \in DOMAIN quarantine[c] : object_tree[quarantine[c][i]].size >= npages}
      cs == {c \in Classes : MayFit(npages, c) /\ fits(c) # {}}
  IN {a \in Nodes : \E c \in cs : \E i \in fits(c) :
        a = quarantine[c][i] /\ (\A d \in cs : c <= d) /\ (\A j \in fits(c) : i <= j)}

\* Mutant: the tail is left out of the object map.
NoTail(a, npages) == {}

\* Where a node's tail begins, if it has one.
TailOf(a, npages) == IF object_tree[a].size > npages THEN {a + npages} ELSE {}

Allocated(a, r, npages) ==
  /\ field' = [b \in DOMAIN field \cup {a} |-> IF b = a THEN Null ELSE field[b]]
  /\ root' = [root EXCEPT ![r] = a]
  /\ allocated' = allocated + npages
  /\ UNCHANGED <<mark_vars, remembered_vars, synchronous_release, gc_vars>>

Running == phase = "mutator" /\ count < MaxCount

\* Mutant: the nursery is for what is new to the space.
NotInNursery(a) == nursery

AddToNursery(a) == nursery \cup {a}

\* large_object_space_alloc, from the quarantine and from the operating system.
Reuse(npages, trace, r) ==
  /\ Running /\ root[r] = Null
  /\ \E a \in Holes(npages) :
       LET tail == TailOf(a, npages)
           tree == [b \in Nodes \cup tail |->
                      IF b = a THEN NewObject(npages, trace)
                      ELSE IF b \in tail THEN Dead(object_tree[a].size - npages)
                      ELSE object_tree[b]]
           q == Unlinked(quarantine, object_tree, a)
       IN /\ Cardinality(Nodes \cup tail) <= MaxNodes
          /\ object_tree' = tree
          /\ object_map' = object_map \cup tail
          /\ quarantine' = IF tail = {} THEN q ELSE Pushed(q, tree, a + npages)
          /\ nursery' = AddToNursery(a)
          /\ free_pages' = free_pages - npages /\ reused' = reused \cup {a}
          /\ UNCHANGED <<total_pages, mapped>>
          /\ Allocated(a, r, npages)

Acquire(npages, trace, r) ==
  /\ Running /\ root[r] = Null /\ Holes(npages) = {} /\ Cardinality(Nodes) < MaxNodes
  /\ LET free == {a \in Bases : a .. a + npages - 1 \subseteq Pages \ mapped}
     IN \E a \in free :
          /\ \A b \in free : a <= b
          /\ mapped' = mapped \cup (a .. a + npages - 1)
          /\ object_tree' = [b \in Nodes \cup {a} |-> IF b = a THEN NewObject(npages, trace)
                                                    ELSE object_tree[b]]
          /\ object_map' = object_map \cup {a}
          /\ total_pages' = total_pages + npages
          /\ UNCHANGED <<nursery, quarantine, free_pages, reused>>
          /\ Allocated(a, r, npages)

--------------------------------------------------------------------------------
\* What mutators do with references.

is_survivor(a) == object_tree[a].mark = marked

\* gc_write_barrier_slow and the store.
Write(r, ref) ==
  LET a == root[r]
      remember == ref # Null /\ ~is_survivor(ref) /\ is_survivor(a) /\ a \notin remembered_edges
  IN /\ Running /\ a # Null /\ object_tree[a].trace # "none"
     /\ field' = [field EXCEPT ![a] = ref]
     /\ remembered_edges' = IF remember THEN remembered_edges \cup {a} ELSE remembered_edges
     /\ remembered_set' = IF remember THEN remembered_set \cup {a} ELSE remembered_set
     /\ UNCHANGED <<space_vars, mark_vars, synchronous_release, root, gc_vars, program_vars>>

\* A handle is dropped, or follows the field of the object it holds.
Move(r, ref) ==
  /\ Running /\ root[r] # Null /\ ref \in {Null, field[root[r]]} \ {root[r]}
  /\ root' = [root EXCEPT ![r] = ref]
  /\ UNCHANGED <<space_vars, mark_vars, remembered_vars, synchronous_release, field,
                 gc_vars, program_vars>>

\* A word is left on the stack: the address of some page of an object.
Push(word) ==
  /\ Running /\ word # root[Stack]
  /\ \/ AnyWord \/ word = Null
     \/ \E r \in Handles : root[r] # Null /\ word \in Span(root[r])
  /\ root' = [root EXCEPT ![Stack] = word]
  /\ UNCHANGED <<space_vars, mark_vars, remembered_vars, synchronous_release, field,
                 gc_vars, program_vars>>

--------------------------------------------------------------------------------
\* The background task.

Aged(n) == n.age + 1 >= 2

Listed(q) == UNION {ToSet(q[c]) : c \in Classes}

\* The space when its nodes are tree and the quarantine is q.
Becomes(tree, q) ==
  /\ object_tree' = tree /\ quarantine' = q
  /\ UNCHANGED <<object_map, mapped>>

Processed(tree, q) ==
  LET released == {a \in Listed(q) : Aged(tree[a])}
  IN /\ object_tree' = [a \in DOMAIN tree \ released |->
          IF a \in Listed(q) THEN [tree[a] EXCEPT !.age = @ + 1] ELSE tree[a]]
     /\ quarantine' = [c \in Classes |-> Without(q[c], released)]
     /\ object_map' = object_map \ released
     /\ mapped' = mapped \ UNION {a .. a + tree[a].size - 1 : a \in released}

\* As large_object_space_alloc does not change the age of the other nodes, steps when
\* the quarantine is empty are not told from others.
large_object_space_process_quarantine ==
  /\ phase = "mutator" /\ ~synchronous_release /\ Listed(quarantine) # {}
  /\ Processed(object_tree, quarantine)
  /\ UNCHANGED <<nursery, total_pages, free_pages, mark_vars, remembered_vars,
                 synchronous_release, field, root, gc_vars, program_vars>>

--------------------------------------------------------------------------------
\* A collection.

\* collect, up to gc_tracer_trace: large_object_space_start_gc, which keeps the space's
\* lock, and the roots.  The first collection is always major.
StartGC(requested) ==
  LET kind == IF count = 0 THEN "major" ELSE requested
  IN /\ Running
     /\ phase' = kind
     /\ extents' = {Span(a) : a \in Nodes}
     /\ marked' = IF kind = "major" THEN (MARK_0 + MARK_1) - marked ELSE marked
     /\ live_pages' = IF kind = "major" THEN 0 ELSE live_pages
     /\ todo' = {r \in Roots : root[r] # Null}
                  \cup IF kind = "minor" THEN remembered_set ELSE {}
     /\ UNCHANGED <<space_vars, remembered_vars, synchronous_release, field, root, count,
                    pc, program_vars>>

\* Mutant: the address of an object only.
BaseOnly(word, possibly_interior) == {word} \cap object_map

\* large_object_space_lookup_conservative_ref: at most one node.
lookup_conservative_ref(word, possibly_interior) ==
  LET starts == IF extents = {} THEN {word}
                ELSE {Min(s) : s \in {t \in extents : word \in t}}
      found == {a \in starts : a \in object_map /\ (possibly_interior \/ a = word)}
  IN IF found = {} /\ possibly_interior THEN {a \in Nodes : word \in Span(a)} ELSE found

\* What edge e refers to in this space: trace_edge, and trace_conservative_edges for
\* the stack and for objects that are traced conservatively.
Referent(e) ==
  LET word == IF e \in Roots THEN root[e] ELSE field[e]
      conservative == e = Stack \/ (e \notin Roots /\ object_tree[e].trace = "conservatively")
  IN IF word = Null THEN {}
     ELSE IF conservative
          THEN {a \in lookup_conservative_ref(word, e = Stack) : object_tree[a].is_live}
     ELSE {word} \cap object_map

\* A worker takes an edge, and loads the mark of what it refers to.
Visit(w, e) ==
  /\ pc[w] = Idle /\ todo' = todo \ {e}
  /\ pc' = [pc EXCEPT ![w] = IF Referent(e) = {} THEN Idle
                            ELSE LET a == CHOOSE a \in Referent(e) : TRUE
                                 IN [ref |-> a, mark |-> object_tree[a].mark]]
  /\ UNCHANGED <<space_vars, mark_vars, remembered_vars, synchronous_release, field, root,
                 phase, count, program_vars>>

\* Mutant: a store, whatever the mark is by now.
StoreMark(w) == TRUE

cmpxchg(w) == object_tree[pc[w].ref].mark = pc[w].mark

\* large_object_space_mark: what is not marked is marked and, unless it has no fields,
\* enqueued.
Mark(w) ==
  LET a == pc[w].ref
  IN /\ a # Null
     /\ IF pc[w].mark # marked /\ cmpxchg(w)
        THEN /\ object_tree' = [object_tree EXCEPT ![a].mark = marked]
             /\ live_pages' = live_pages + object_tree[a].size
             /\ todo' = IF object_tree[a].trace = "none" THEN todo ELSE todo \cup {a}
        ELSE UNCHANGED <<object_tree, live_pages, todo>>
     /\ pc' = [pc EXCEPT ![w] = IF pc[w].mark = marked \/ cmpxchg(w) THEN Idle
                               ELSE [@ EXCEPT !.mark = object_tree[a].mark]]
     /\ UNCHANGED <<object_map, nursery, quarantine, total_pages, free_pages, mapped,
                    marked, extents, remembered_vars, synchronous_release, field, root,
                    phase, count, program_vars>>

\* large_object_space_sweep_one
ToSweep(a) == object_tree[a].is_live /\ object_tree[a].mark # marked

\* The quarantine when the nodes of order are pushed, the first of them last.
AllPushed(q, tree, order) ==
  [c \in Classes |-> Without(order, {a \in ToSet(order) : ClassOf(tree, a) # c}) \o q[c]]

Cleared == {}

\* collect, from clear_remembered_set: large_object_space_finish_gc.
FinishGC ==
  LET swept == {a \in IF phase = "minor" THEN nursery ELSE object_map : ToSweep(a)}
      tree == [a \in Nodes |-> IF a \in swept THEN Dead(object_tree[a].size)
                               ELSE object_tree[a]]
  IN /\ phase # "mutator" /\ todo = {} /\ \A w \in Workers : pc[w] = Idle
     /\ \E order \in [1 .. Cardinality(swept) -> swept] :
          /\ ToSet(order) = swept
          /\ LET q == AllPushed(quarantine, tree, order)
             IN IF synchronous_release THEN Processed(tree, q) ELSE Becomes(tree, q)
     /\ nursery' = {} /\ extents' = {}
     /\ free_pages' = total_pages - live_pages
     /\ remembered_set' = {} /\ remembered_edges' = Cleared
     /\ field' = [a \in DOMAIN field \ swept |-> field[a]]
     /\ count' = count + 1 /\ phase' = "mutator" /\ allocated' = 0 /\ reused' = {}
     /\ UNCHANGED <<total_pages, marked, live_pages, synchronous_release, root, todo, pc>>

--------------------------------------------------------------------------------

Mutate ==
  \/ \E npages \in Sizes, trace \in Kinds, r \in Handles :
       Reuse(npages, trace, r) \/ Acquire(npages, trace, r)
  \/ \E r \in Handles, v \in Handles \cup {Null} :
       Write(r, IF v = Null THEN Null ELSE root[v])
  \/ \E r \in Handles : \E ref \in {Null} \cup {field[a] : a \in DOMAIN field} : Move(r, ref)
  \/ \E word \in Words \cup {Null} : Push(word)

Trace == \E w \in Workers : (\E e \in todo : Visit(w, e)) \/ Mark(w)

\* The bound on collections is reached.
Finished == phase = "mutator" /\ count = MaxCount /\ UNCHANGED vars

Next == \/ Mutate
        \/ large_object_space_process_quarantine
        \/ \E kind \in Requests : StartGC(kind)
        \/ Trace
        \/ FinishGC
        \/ Finished

Spec == Init /\ [][Next]_vars

--------------------------------------------------------------------------------
\* Properties.

Marks == {NURSERY, MARK_0, MARK_1}

\* What every variable holds.  No node of the quarantine is of age 2, at which
\* large_object_space_process_quarantine has released it.
TypeOK ==
  /\ Nodes \subseteq Pages
  /\ \A a \in Nodes :
       object_tree[a] \in [size : Nat \ {0}, is_live : BOOLEAN, mark : Marks,
                           trace : {"precisely", "none", "conservatively"}, age : {0, 1}]
  /\ object_map \cup nursery \subseteq Pages
  /\ \A c \in Classes : quarantine[c] \in Seq(Pages)
  /\ marked \in {MARK_0, MARK_1} /\ extents \subseteq SUBSET Pages
  /\ total_pages \in Nat /\ free_pages \in Int /\ live_pages \in Nat
  /\ remembered_edges \cup remembered_set \subseteq Pages /\ mapped \subseteq Pages
  /\ synchronous_release \in BOOLEAN
  /\ field \in [Live -> Pages \cup {Null}] /\ root \in [Roots -> Pages \cup {Null}]
  /\ phase \in {"mutator", "minor", "major"} /\ count \in 0 .. MaxCount
  /\ todo \subseteq Roots \cup Pages
  /\ \A w \in Workers : pc[w] \in [ref : Pages \cup {Null}, mark : Marks]
  /\ allocated \in Nat /\ reused \subseteq Pages

\* large_object_space_alloc cuts nodes and large_object_space_process_quarantine gives
\* back pieces of what was once one mapping: the spans of the nodes never overlap, they
\* are the memory that the space has, and the tree, the map and, in a collection, the
\* extents, which it searches without a lock, have the same ones.  Every dead object is
\* in the list of its size class, once, and nothing else is: a node that is pushed twice,
\* by large_object_space_sweep_one, would be allocated twice.
SpansAgree ==
  /\ TypeOK
  /\ \A a, b \in Nodes : a # b => Span(a) \cap Span(b) = {}
  /\ UNION {Span(a) : a \in Nodes} = mapped
  /\ object_map = Nodes
  /\ phase # "mutator" => extents = {Span(a) : a \in Nodes}
  /\ \A c \in Classes :
       /\ ToSet(quarantine[c]) = {a \in Nodes \ Live : size_class(object_tree[a].size) = c}
       /\ IsInjective(quarantine[c])

Held == ({root[r] : r \in Handles} \ {Null})
          \cup {a \in Live : root[Stack] \in Span(a)}

\* What is in every set that has start and, with an object, what its field refers to.
ReachableFrom(start) ==
  LET all == start \cup ({field[a] : a \in DOMAIN field} \ {Null})
      closed == {S \in SUBSET all : \A a \in S \cap DOMAIN field : field[a] \in S \cup {Null}}
  IN {a \in all : \A S \in closed : start \subseteq S => a \in S}

\* What the program can reach is live between collections, and so are the objects that
\* its stack points into: a minor collection relies on the write barrier for it, and on
\* the marks of the last major one.  The barrier, which asks remembered_edges, and the
\* minor collection, which goes through the field set, agree on what is remembered, and
\* it has every edge from an object that the next minor collection takes for live to one
\* that it may sweep.
KeepsReachable ==
  phase = "mutator" =>
    /\ ReachableFrom(Held) \subseteq Live
    /\ root[Stack] # Null => \E a \in Live : root[Stack] \in Span(a)
    /\ remembered_edges = remembered_set
    /\ \A a \in Live : is_survivor(a) /\ field[a] # Null /\ ~is_survivor(field[a])
                         => a \in remembered_set

Total(sizes) == MapThenSumSet(LAMBDA a : sizes[a], Pages)

\* The space's three counters, of which one is never told of released memory: they give
\* what large_object_space_add_to_allocation_counter takes from them, the pages allocated
\* since the last collection, and live_pages_at_last_collection, to which racing workers
\* add, those of the objects that are marked.
Accounting ==
  phase = "mutator" =>
    /\ total_pages - free_pages - live_pages = allocated
    /\ live_pages = Total([a \in Pages |-> IF a \in Live /\ is_survivor(a)
                                           THEN object_tree[a].size ELSE 0])

\* large_object_space_finish_gc: a major collection leaves no live object that the
\* program cannot reach, a minor one none that was allocated from the quarantine since
\* the last collection, unless something older refers to it.
Reclaims ==
  [][phase # "mutator" /\ phase' = "mutator" =>
       LET old == {a \in Live \ reused : is_survivor(a)}
       IN IF phase = "major" THEN Live' = ReachableFrom(Held)
          ELSE Live' \cap reused \subseteq ReachableFrom(Held \cup old)]_vars

\* large_object_space_mark asserts that what it marks is live.
MarksLive == \A w \in Workers : pc[w].ref # Null => object_tree[pc[w].ref].is_live
================================================================================
