-------------------------- MODULE NoflMemoryProofs --------------------------
(***************************************************************************)
(* The memory of the nofl space proved for any heap, any mutators and any  *)
(* workers: what is held stays intact, what may be allocated is zero, marks *)
(* are fresh, and what a collection keeps was live.                        *)
(***************************************************************************)
EXTENDS NoflSpaceProofs, WellFoundedInduction

--------------------------------------------------------------------------------
\* The objects in the metadata, live or dead.
Placed == {o \in Locations : byte[o] # NONE}

\* The second-chance holes.
AllHoles == UNION (holes \cup {alloc[t].holes : t \in Threads})

\* Whether nobody has swept o yet.
Unswept(o) == \/ o[1] \in list["to_sweep"]
              \/ \E m \in Mutators : alloc[m].block = o[1] /\ alloc[m].sweep <= o[2]

Vacant == list["empty"] \cup list["targets"]

Labels == {"idle", "bump", "hole", "second", "sweep", "partly", "empty", "nospace",
           "release", "flushed", "copy"}

\* The types of memory, and what the model counts.
MemoryTypes ==
  /\ byte \in [Locations -> Marks] /\ ends \subseteq Locations /\ dirty \subseteq Locations
  /\ held \subseteq Locations
  /\ zero \subseteq Blocks /\ candidate \subseteq Blocks /\ marked \subseteq Blocks
  /\ current_mark \in MARK_0 .. MARK_2 /\ survivor_mark \in MARK_0 .. MARK_2
  /\ evacuating \in BOOLEAN /\ reserve \in {MinReserve, Reserve}

Bounded ==
  LET last == MaxAlloc[Cardinality(Mutators)] IN
  /\ LastCount \in Nat /\ count \in 0 .. LastCount
  /\ phase # "run" => count < LastCount
  /\ last \in Nat /\ allocated \in 0 .. last
  /\ kind \in {"minor", "in_place", "compacting"}

\* What a thread allocates from, and when.
Registers(t) ==
  LET a == alloc[t]
      p == pc[t]
  IN
  /\ a.alloc \in 0 .. G /\ a.sweep \in a.alloc .. G /\ a.holes \subseteq HoleSet
  /\ a.block = NoBlock => a.alloc = 0 /\ a.sweep = 0
  /\ p.at \in Labels /\ p.size \in 0 .. G /\ p.swept \in Nat
  /\ p.obj \in Locations \cup {<<NoBlock, 0>>}
  /\ p.at = "idle" /\ a.block # NoBlock => a.alloc > 0
  /\ p.at \in {"bump", "second"} => p.size # 0
  /\ p.at = "bump" => a.alloc + p.size <= a.sweep
  /\ p.at \in {"nospace", "release", "flushed"} => p.swept = 0
  /\ t \in Workers => p.at \in {"idle", "copy", "partly", "empty"} /\ a.holes = {} /\ p.swept = 0

\* What is counted of a block lies before where its thread allocates.
Counts ==
  /\ \A b \in Blocks : LET s == summary[b] IN
       s.holes \in 0 .. G /\ s.pieces \in 0 .. G /\ s.fragments \in 0 .. G
  /\ \A t \in Threads : alloc[t].block # NoBlock =>
       LET s == summary[alloc[t].block] IN
       /\ s.holes <= alloc[t].sweep
       /\ s.pieces <= alloc[t].alloc /\ s.fragments <= alloc[t].alloc
  /\ \A b \in list["partly_full"] : summary[b].pieces = 0
  /\ \A m \in Mutators : pc[m].swept + Cardinality(list["to_sweep"]) <= Cardinality(Blocks)

\* Second-chance holes are apart from one another, each with one thread or in one
\* chain, and apart from what else may be allocated or swept.
HolesApart ==
  /\ \A c \in holes : c \subseteq HoleSet /\ c # {}
  /\ \A h, k \in AllHoles : h # k => Inside(h) \cap Inside(k) = {}
  /\ \A t, u \in Threads : t # u => alloc[t].holes \cap alloc[u].holes = {}
  /\ \A c \in holes, t \in Threads : c \cap alloc[t].holes = {}
  /\ \A c, d \in holes : c # d => c \cap d = {}
  /\ \A m \in Mutators : pc[m].at = "flushed" \/ m = collector => alloc[m].holes = {}

HolesAside ==
  /\ \A h \in AllHoles : h.block \notin Vacant \cup list["partly_full"]
  /\ \A h \in AllHoles : h.block \in list["to_sweep"] => phase = "trace"
  /\ \A h \in AllHoles, t \in Threads : h.block = alloc[t].block =>
       /\ t \notin Workers /\ summary[h.block].pieces > 0
       /\ h.at + h.n <= alloc[t].alloc

\* Every object has an end, shares no granule with another, and has none that may
\* be allocated; what may be allocated has no end.
ObjectsApart ==
  /\ \A o \in Placed : \E g \in o[2] .. G - 1 : <<o[1], g>> \in ends
  /\ \A o, p \in Placed : o # p => Extent(o) \cap Extent(p) = {}
  /\ \A o \in Placed : Extent(o) \cap Free = {}
  /\ ends \cap Free = {}

\* No object goes on from what a thread has swept into what it has not.
SweptWhole ==
  \A t \in Threads : alloc[t].block # NoBlock =>
    \A o \in Placed : o[1] = alloc[t].block /\ o[2] < alloc[t].sweep =>
      Extent(o) \subseteq {o[1]} \X (0 .. alloc[t].sweep - 1)

\* What is held has a mark that keeps it.
HeldMarked ==
  /\ \A o \in held : byte[o] \in {YOUNG, survivor_mark, current_mark, BUSY}
  /\ \A o \in held : byte[o] = BUSY => phase = "trace"
  /\ \A o \in held : byte[o] = current_mark => o[1] \in marked
  /\ phase \in {"run", "stopping"} =>
       /\ survivor_mark = current_mark
       /\ \A o \in held : Unswept(o) => byte[o] = survivor_mark

\* What a worker copies is held, and busy; nobody else copies it.
Busy ==
  /\ \A w \in Workers : pc[w].at # "idle" => pc[w].obj \in held /\ byte[pc[w].obj] = BUSY
  /\ \A v, w \in Workers : v # w /\ pc[v].at # "idle" /\ pc[w].at # "idle" =>
       pc[v].obj # pc[w].obj

\* No byte has the next mark; one that has another mark than the current one has not
\* been swept yet.  In a collection that is not minor, a block is marked for something
\* that is held.
Fresh ==
  /\ \A o \in Placed : byte[o] # nofl_advance_current_mark(current_mark)
  /\ \A o \in Placed : byte[o] \in MARK_0 .. MARK_2 =>
       byte[o] = current_mark \/ Unswept(o) \/ (phase = "pinned" /\ kind # "minor")
  /\ phase \in {"pinned", "trace"} /\ kind # "minor" =>
       \A b \in marked : \E o \in held : o[1] = b /\ byte[o] = current_mark

\* What may be allocated is zero but for the links of second-chance holes.
Clean ==
  /\ zero \subseteq Vacant /\ (zero \X Granules) \cap dirty = {}
  /\ \A t \in Threads : \A h \in Leftover(alloc[t]) : Inside(h) \cap dirty = {}
  /\ \A b \in list["partly_full"] :
       ({b} \X (G - summary[b].fragments .. G - 1)) \cap dirty = {}
  /\ \A h \in AllHoles : Inside(h) \cap dirty \subseteq {<<h.block, h.at>>}

HeapInv ==
  /\ IInv /\ MemoryTypes /\ Bounded /\ (\A t \in Threads : Registers(t)) /\ Counts
  /\ HolesApart /\ HolesAside /\ ObjectsApart /\ SweptWhole /\ HeldMarked /\ Busy
  /\ Fresh /\ Clean

--------------------------------------------------------------------------------
\* Numbers.

LEMMA Least ==
  ASSUME NEW S \in SUBSET Nat, S # {}
  PROVE  \E n \in S : \A k \in S : n <= k
<1>1. PICK n \in S : \A k \in S : <<k, n>> \notin OpToRel(<, Nat)
  BY NatLessThanWellFounded, WFMin
<1>2. \A k \in S : ~(k < n)
  BY <1>1 DEF OpToRel
<1>. QED  BY <1>2

LEMMA Greatest ==
  ASSUME NEW n \in Nat, NEW S \in SUBSET (0 .. n), S # {}
  PROVE  \E k \in S : \A i \in S : i <= k
<1>. DEFINE T == {n - i : i \in S}
<1>1. T \in SUBSET Nat /\ T # {}
  <2>1. PICK i \in S : TRUE
    OBVIOUS
  <2>2. n - i \in T
    OBVIOUS
  <2>3. \A k \in S : n - k \in Nat
    OBVIOUS
  <2>. QED  BY <2>2, <2>3
<1>. HIDE DEF T
<1>2. PICK j \in T : \A i \in T : j <= i
  BY <1>1, Least
<1>3. PICK k \in S : j = n - k
  BY <1>2 DEF T
<1>4. ASSUME NEW i \in S
      PROVE  i <= k
  <2>1. n - i \in T /\ i \in 0 .. n /\ k \in 0 .. n
    BY <1>3 DEF T
  <2>. QED  BY <1>2, <1>3, <2>1
<1>. QED  BY <1>4

LEMMA MinIs ==
  ASSUME NEW S \in SUBSET Int, NEW n \in S, \A k \in S : n <= k
  PROVE  Min(S) = n
<1>1. \A k \in S : (\A i \in S : k <= i) => k = n
  OBVIOUS
<1>. QED  BY <1>1 DEF Min

LEMMA GranulesAre ==
  /\ G \in Nat /\ G > 0 /\ Granules = 0 .. G - 1 /\ Locations = Blocks \X Granules
  /\ \A b, g : <<b, g>> \in Locations <=> b \in Blocks /\ g \in 0 .. G - 1
  /\ \A o \in Locations : o = <<o[1], o[2]>> /\ o[1] \in Blocks /\ o[2] \in 0 .. G - 1
BY NoflAssumption DEF Granules, Locations

LEMMA InsideIs ==
  ASSUME NEW b, NEW g \in Nat, NEW n \in Nat
  PROVE  /\ Hole(b, g, n).block = b /\ Hole(b, g, n).at = g /\ Hole(b, g, n).n = n
         /\ Inside(Hole(b, g, n)) = {b} \X (g .. g + n - 1)
         /\ \A c, i : <<c, i>> \in Inside(Hole(b, g, n)) <=> c = b /\ i \in g .. g + n - 1
BY DEF Hole, Inside

LEMMA HoleIs ==
  ASSUME NEW h \in HoleSet
  PROVE  /\ h.block \in Blocks /\ h.at \in 0 .. G - 1 /\ h.n \in 1 .. G /\ h.at + h.n <= G
         /\ h = Hole(h.block, h.at, h.n)
         /\ Inside(h) = {h.block} \X (h.at .. h.at + h.n - 1)
         /\ Inside(h) \subseteq Locations /\ <<h.block, h.at>> \in Inside(h)
         /\ \A c, i : <<c, i>> \in Inside(h) <=> c = h.block /\ i \in h.at .. h.at + h.n - 1
<1>1. /\ h.block \in Blocks /\ h.at \in 0 .. G - 1 /\ h.n \in 1 .. G /\ h.at + h.n <= G
      /\ h = Hole(h.block, h.at, h.n)
  BY GranulesAre DEF HoleSet, Hole
<1>2. Inside(h) = {h.block} \X (h.at .. h.at + h.n - 1)
  BY DEF Inside
<1>. QED  BY <1>1, <1>2, GranulesAre

LEMMA HoleSetHas ==
  ASSUME NEW b \in Blocks, NEW g \in 0 .. G - 1, NEW n \in 1 .. G, g + n <= G
  PROVE  Hole(b, g, n) \in HoleSet
BY GranulesAre DEF HoleSet, Hole

--------------------------------------------------------------------------------
\* Extents.

Ended(o) == \E g \in o[2] .. G - 1 : <<o[1], g>> \in ends

\* The last granule of the object at o.
LastOf(o) == Min({g \in o[2] .. G - 1 : <<o[1], g>> \in ends})

LEMMA LastIs ==
  ASSUME NEW o \in Locations, Ended(o)
  PROVE  /\ LastOf(o) \in o[2] .. G - 1 /\ <<o[1], LastOf(o)>> \in ends
         /\ \A g \in o[2] .. LastOf(o) - 1 : <<o[1], g>> \notin ends
<1>. DEFINE S == {g \in o[2] .. G - 1 : <<o[1], g>> \in ends}
<1>1. S \in SUBSET Nat /\ S # {} /\ o[2] \in Nat
  BY GranulesAre DEF Ended
<1>2. PICK n \in S : \A k \in S : n <= k
  BY <1>1, Least
<1>3. LastOf(o) = n
  <2>. HIDE DEF S
  <2>1. Min(S) = n
    BY <1>1, <1>2, MinIs
  <2>. QED  BY <2>1 DEF LastOf, S
<1>. QED  BY <1>1, <1>2, <1>3, GranulesAre

LEMMA ExtentIs ==
  ASSUME NEW o \in Locations, Ended(o)
  PROVE  /\ Extent(o) \subseteq Locations /\ o \in Extent(o)
         /\ Extent(o) = {o[1]} \X (o[2] .. LastOf(o))
         /\ \A c, i : <<c, i>> \in Extent(o) <=> c = o[1] /\ i \in o[2] .. LastOf(o)
<1>1. Extent(o) = {o[1]} \X (o[2] .. LastOf(o))
  BY DEF Extent, LastOf
<1>2. LastOf(o) \in o[2] .. G - 1
  BY LastIs
<1>. QED  BY <1>1, <1>2, GranulesAre

\* An object whose ends stay as they are keeps its extent.
LEMMA SameExtent ==
  ASSUME NEW o \in Locations, Ended(o),
         \A x \in Extent(o) : x \in ends' <=> x \in ends
  PROVE  Ended(o)' /\ Extent(o)' = Extent(o)
<1>. DEFINE e == LastOf(o)
            S == {g \in o[2] .. G - 1 : <<o[1], g>> \in ends'}
<1>1. /\ e \in o[2] .. G - 1 /\ <<o[1], e>> \in ends
      /\ \A g \in o[2] .. e - 1 : <<o[1], g>> \notin ends
      /\ Extent(o) = {o[1]} \X (o[2] .. e)
  BY LastIs, ExtentIs
<1>2. o[2] \in 0 .. G - 1
  BY GranulesAre
<1>. HIDE DEF e
<1>3. e \in S /\ \A g \in S : e <= g
  BY <1>1, <1>2, GranulesAre
<1>4. S \in SUBSET Int
  BY <1>2
<1>. HIDE DEF S
<1>5. Min(S) = e
  BY <1>3, <1>4, MinIs
<1>6. Extent(o)' = {o[1]} \X (o[2] .. Min(S))
  BY DEF Extent, S
<1>7. Ended(o)'
  BY <1>3 DEF Ended, S
<1>. QED  BY <1>1, <1>5, <1>6, <1>7

\* A new end makes an extent.
LEMMA NewExtent ==
  ASSUME NEW b \in Blocks, NEW g \in 0 .. G - 1, NEW n \in 1 .. G, g + n <= G,
         \A i \in g .. g + n - 2 : <<b, i>> \notin ends', <<b, g + n - 1>> \in ends'
  PROVE  Ended(<<b, g>>)' /\ Extent(<<b, g>>)' = {b} \X (g .. g + n - 1)
<1>. DEFINE S == {i \in g .. G - 1 : <<b, i>> \in ends'}
<1>1. g + n - 1 \in S /\ S \in SUBSET Int /\ \A i \in S : g + n - 1 <= i
  BY GranulesAre
<1>. HIDE DEF S
<1>2. Min(S) = g + n - 1
  BY <1>1, MinIs
<1>3. Extent(<<b, g>>)' = {b} \X (g .. Min(S))
  BY DEF Extent, S
<1>4. Ended(<<b, g>>)'
  BY <1>1 DEF Ended, S
<1>. QED  BY <1>2, <1>3, <1>4

--------------------------------------------------------------------------------
\* What may be allocated.

InHole(b, g) == \E h \in AllHoles : h.block = b /\ g \in h.at .. h.at + h.n - 1
InRoom(b, g) ==
  \E t \in Threads : alloc[t].block = b /\ g \in alloc[t].alloc .. alloc[t].sweep - 1
InTail(b, g) == b \in list["partly_full"] /\ G - summary[b].fragments <= g

LEMMA LeftoverIs ==
  ASSUME NEW a, a.alloc \in 0 .. G, a.sweep \in a.alloc .. G
  PROVE  /\ \A c, i : <<c, i>> \in UNION {Inside(h) : h \in Leftover(a)}
                        <=> c = a.block /\ i \in a.alloc .. a.sweep - 1
         /\ a.alloc < a.sweep => Leftover(a) = {Hole(a.block, a.alloc, a.sweep - a.alloc)}
         /\ ~(a.alloc < a.sweep) => Leftover(a) = {}
<1>. DEFINE h == Hole(a.block, a.alloc, a.sweep - a.alloc)
<1>1. a.alloc \in Nat /\ a.sweep \in Nat
  BY GranulesAre
<1>2. CASE a.alloc < a.sweep
  <2>1. Leftover(a) = {h}
    BY <1>2 DEF Leftover
  <2>2. a.sweep - a.alloc \in Nat /\ a.alloc + (a.sweep - a.alloc) - 1 = a.sweep - 1
    BY <1>1, <1>2
  <2>3. \A c, i : <<c, i>> \in Inside(h) <=> c = a.block /\ i \in a.alloc .. a.sweep - 1
    <3>. DEFINE n == a.sweep - a.alloc
    <3>1. n \in Nat
      BY <2>2
    <3>2. a.alloc + n - 1 = a.sweep - 1
      BY <2>2
    <3>. HIDE DEF n
    <3>3. \A c, i : <<c, i>> \in Inside(Hole(a.block, a.alloc, n))
                       <=> c = a.block /\ i \in a.alloc .. a.alloc + n - 1
      BY <1>1, <3>1, InsideIs
    <3>. QED  BY <3>2, <3>3 DEF n
  <2>4. UNION {Inside(x) : x \in Leftover(a)} = Inside(h)
    BY <2>1
  <2>. QED  BY <1>2, <2>1, <2>3, <2>4
<1>3. CASE ~(a.alloc < a.sweep)
  <2>1. Leftover(a) = {}
    BY <1>3 DEF Leftover
  <2>2. UNION {Inside(x) : x \in Leftover(a)} = {}
    BY <2>1
  <2>3. \A i : i \notin a.alloc .. a.sweep - 1
    BY <1>1, <1>3
  <2>. QED  BY <1>3, <2>1, <2>2, <2>3
<1>. QED  BY <1>2, <1>3

\* The types that the places of free memory have.
Typed ==
  /\ Records /\ (\A t \in Threads : Registers(t)) /\ (\A c \in holes : c \subseteq HoleSet)
  /\ \A b \in Blocks : summary[b].fragments \in 0 .. G

LEMMA AllHolesIs ==
  ASSUME Typed
  PROVE  /\ AllHoles \subseteq HoleSet
         /\ \A h : h \in AllHoles <=> \/ \E c \in holes : h \in c
                                      \/ \E t \in Threads : h \in alloc[t].holes
BY DEF AllHoles, Typed, Registers

FreeFacts ==
  /\ Free \subseteq Locations
  /\ \A b \in Blocks, g \in 0 .. G - 1 :
       <<b, g>> \in Free <=> InHole(b, g) \/ InRoom(b, g) \/ InTail(b, g) \/ b \in Vacant

LEMMA FreeIs == Typed => FreeFacts
<1>. SUFFICES ASSUME Typed
              PROVE  FreeFacts
  OBVIOUS
<1>. DEFINE A == UNION {Inside(h) : h \in AllHoles}
            B == UNION {UNION {Inside(h) : h \in Leftover(alloc[t])} : t \in Threads}
            C == UNION {{b} \X (G - summary[b].fragments .. G - 1) : b \in list["partly_full"]}
            D == Vacant \X Granules
<1>1. Free = A \cup B \cup C \cup D
  <2>. DEFINE S == UNION (holes \cup {alloc[t].holes \cup Leftover(alloc[t]) : t \in Threads})
              E == UNION {Inside(h) : h \in S}
  <2>1. ASSUME NEW h
        PROVE  h \in S <=> \/ h \in AllHoles
                          \/ \E t \in Threads : h \in Leftover(alloc[t])
    <3>. DEFINE X(t) == alloc[t].holes \cup Leftover(alloc[t])
    <3>1. h \in S <=> (\E c \in holes : h \in c) \/ \E t \in Threads : h \in X(t)
      <4>1. S = UNION (holes \cup {X(t) : t \in Threads})
        OBVIOUS
      <4>. HIDE DEF X, S
      <4>. QED  BY <4>1
    <3>2. h \in AllHoles <=> \/ \E c \in holes : h \in c
                            \/ \E t \in Threads : h \in alloc[t].holes
      BY AllHolesIs
    <3>. HIDE DEF S
    <3>. QED  BY <3>1, <3>2
  <2>. HIDE DEF S
  <2>2. E = A \cup B
    <3>1. \A x : x \in E <=> \E h \in S : x \in Inside(h)
      OBVIOUS
    <3>2. \A x : x \in B <=> \E t \in Threads : \E h \in Leftover(alloc[t]) : x \in Inside(h)
      OBVIOUS
    <3>3. \A x : x \in A <=> \E h \in AllHoles : x \in Inside(h)
      OBVIOUS
    <3>. HIDE DEF A, B, E
    <3>. QED  BY <2>1, <3>1, <3>2, <3>3
  <2>3. UNION ({Inside(h) : h \in S}
               \cup {{b} \X (G - summary[b].fragments .. G - 1) : b \in list["partly_full"]})
          = E \cup C
    OBVIOUS
  <2>4. Free = (UNION ({Inside(h) : h \in S}
                        \cup {{b} \X (G - summary[b].fragments .. G - 1) :
                                b \in list["partly_full"]}))
                 \cup D
    BY DEF Free, S, Vacant
  <2>. HIDE DEF A, B, C, D, E
  <2>. QED  BY <2>2, <2>3, <2>4
<1>2. list \in [Lists -> SUBSET Blocks] /\ "partly_full" \in Lists /\ Vacant \subseteq Blocks
  BY ListIs DEF Typed, Records, Vacant
<1>3. ASSUME NEW b, NEW g
      PROVE  <<b, g>> \in A <=> InHole(b, g)
  <2>1. \A h \in AllHoles : <<b, g>> \in Inside(h) <=> h.block = b /\ g \in h.at .. h.at + h.n - 1
    BY AllHolesIs, HoleIs
  <2>. QED  BY <2>1 DEF InHole
<1>4. ASSUME NEW b, NEW g
      PROVE  <<b, g>> \in B <=> InRoom(b, g)
  <2>1. \A t \in Threads : alloc[t].alloc \in 0 .. G /\ alloc[t].sweep \in alloc[t].alloc .. G
    BY DEF Typed, Registers
  <2>2. \A t \in Threads : <<b, g>> \in UNION {Inside(h) : h \in Leftover(alloc[t])}
                             <=> alloc[t].block = b /\ g \in alloc[t].alloc .. alloc[t].sweep - 1
    BY <2>1, LeftoverIs
  <2>. QED  BY <2>2 DEF InRoom
<1>5. ASSUME NEW b \in Blocks, NEW g \in 0 .. G - 1
      PROVE  <<b, g>> \in C <=> InTail(b, g)
  <2>1. summary[b].fragments \in 0 .. G /\ G \in Nat
    BY GranulesAre DEF Typed
  <2>. QED  BY <2>1 DEF InTail
<1>6. A \subseteq Locations
  <2>1. \A h \in AllHoles : Inside(h) \subseteq Locations
    BY AllHolesIs, HoleIs
  <2>. QED  BY <2>1
<1>7. B \subseteq Locations
  <2>1. ASSUME NEW t \in Threads
        PROVE  UNION {Inside(h) : h \in Leftover(alloc[t])} \subseteq Locations
    <3>1. Registers(t) /\ alloc[t].block \in Blocks \cup {NoBlock}
      BY DEF Typed, Records
    <3>2. CASE alloc[t].alloc < alloc[t].sweep
      <4>1. alloc[t].block \in Blocks
        BY <3>1, <3>2 DEF Registers
      <4>. DEFINE n == alloc[t].sweep - alloc[t].alloc
                  h == Hole(alloc[t].block, alloc[t].alloc, n)
      <4>2. alloc[t].alloc \in 0 .. G - 1 /\ n \in 1 .. G /\ alloc[t].alloc + n <= G
        BY <3>1, <3>2, GranulesAre DEF Registers
      <4>. HIDE DEF n
      <4>3. h \in HoleSet
        BY <4>1, <4>2, HoleSetHas
      <4>4. Leftover(alloc[t]) = {h}
        BY <3>1, <3>2, LeftoverIs DEF Registers, n
      <4>5. Inside(h) \subseteq Locations
        <5>. HIDE DEF h
        <5>. QED  BY <4>3, HoleIs
      <4>. HIDE DEF h
      <4>6. UNION {Inside(x) : x \in Leftover(alloc[t])} = Inside(h)
        BY <4>4
      <4>. QED  BY <4>5, <4>6
    <3>3. CASE ~(alloc[t].alloc < alloc[t].sweep)
      BY <3>1, <3>3, LeftoverIs DEF Registers
    <3>. QED  BY <3>2, <3>3
  <2>. QED  BY <2>1
<1>8. C \subseteq Locations
  <2>1. \A b \in list["partly_full"] : b \in Blocks /\ summary[b].fragments \in 0 .. G
    BY <1>2 DEF Typed
  <2>2. \A f \in 0 .. G : (G - f .. G - 1) \subseteq 0 .. G - 1
    BY GranulesAre
  <2>. QED  BY <2>1, <2>2, GranulesAre
<1>9. D \subseteq Locations /\ \A b, g : <<b, g>> \in D <=> b \in Vacant /\ g \in 0 .. G - 1
  BY <1>2, GranulesAre
<1>. HIDE DEF A, B, C, D
<1>10. Free \subseteq Locations
  BY <1>1, <1>6, <1>7, <1>8, <1>9
<1>. QED  BY <1>1, <1>3, <1>4, <1>5, <1>9, <1>10 DEF FreeFacts

LEMMA FreeIsNext == Typed' => FreeFacts'
<1>1. Typed => FreeFacts
  BY FreeIs
<1>. QED  BY <1>1, PTL
LEMMA FreeWithin ==
  ASSUME Typed, Typed', NEW W,
         \A b \in Blocks, g \in 0 .. G - 1 :
           InHole(b, g)' \/ InRoom(b, g)' \/ InTail(b, g)' \/ b \in Vacant' =>
             InHole(b, g) \/ InRoom(b, g) \/ InTail(b, g) \/ b \in Vacant \/ <<b, g>> \in W
  PROVE  Free' \subseteq Free \cup W
<1>1. FreeFacts /\ FreeFacts'
  BY FreeIs, FreeIsNext
<1>. QED  BY <1>1, GranulesAre DEF FreeFacts

--------------------------------------------------------------------------------
\* Steps on memory.

\* Metadata is wiped of whole objects.
LEMMA Wiped ==
  ASSUME ObjectsApart, NEW W, ends' = ends \ W, Placed' = Placed \ W,
         \A o \in Placed : Extent(o) \subseteq W \/ Extent(o) \cap W = {}
  PROVE  /\ \A o \in Placed' : /\ o \in Placed /\ Extent(o)' = Extent(o)
                               /\ Ended(o)' /\ Extent(o) \cap W = {}
         /\ Free' \subseteq Free \cup W => ObjectsApart'
<1>1. ASSUME NEW o \in Placed'
      PROVE  /\ o \in Placed /\ Extent(o)' = Extent(o) /\ Ended(o)' /\ Extent(o) \cap W = {}
  <2>1. o \in Placed /\ o \notin W /\ o \in Locations /\ Ended(o)
    BY DEF Placed, ObjectsApart, Ended
  <2>2. o \in Extent(o)
    BY <2>1, ExtentIs
  <2>3. Extent(o) \cap W = {}
    BY <2>1, <2>2
  <2>. QED  BY <2>1, <2>3, SameExtent
<1>2. ASSUME Free' \subseteq Free \cup W
      PROVE  ObjectsApart'
  <2>1. \A o \in Placed' : \E g \in o[2] .. G - 1 : <<o[1], g>> \in ends'
    BY <1>1 DEF Ended
  <2>2. \A o, p \in Placed' : o # p => Extent(o)' \cap Extent(p)' = {}
    BY <1>1 DEF ObjectsApart
  <2>3. \A o \in Placed' : Extent(o)' \cap Free' = {}
    BY <1>1, <1>2 DEF ObjectsApart
  <2>4. ends' \cap Free' = {}
    BY <1>2 DEF ObjectsApart
  <2>. QED  BY <2>1, <2>2, <2>3, <2>4 DEF ObjectsApart
<1>. QED  BY <1>1, <1>2

\* An object of n granules is placed where memory is free.
LEMMA PlacedOne ==
  ASSUME ObjectsApart, NEW b \in Blocks, NEW g \in 0 .. G - 1, NEW n \in 1 .. G, g + n <= G,
         {b} \X (g .. g + n - 1) \subseteq Free,
         ends' = ends \cup {<<b, g + n - 1>>}, Placed' = Placed \cup {<<b, g>>}
  PROVE  /\ <<b, g>> \notin Placed /\ Ended(<<b, g>>)'
         /\ Extent(<<b, g>>)' = {b} \X (g .. g + n - 1)
         /\ \A o \in Placed : /\ Extent(o)' = Extent(o) /\ Ended(o)'
                              /\ Extent(o) \cap ({b} \X (g .. g + n - 1)) = {}
         /\ Free' \subseteq Free \ ({b} \X (g .. g + n - 1)) => ObjectsApart'
<1>. DEFINE N == {b} \X (g .. g + n - 1)
            e == <<b, g + n - 1>>
<1>1. /\ e \in N /\ <<b, g>> \in N /\ <<b, g>> \in Locations
      /\ \A i \in g .. g + n - 2 : <<b, i>> \in N /\ <<b, i>> # e
  BY GranulesAre
<1>2. ends \cap N = {} /\ (\A o \in Placed : Extent(o) \cap N = {})
  BY DEF ObjectsApart
<1>3. ASSUME NEW o \in Placed
      PROVE  Extent(o)' = Extent(o) /\ Ended(o)' /\ o \in Extent(o)
  <2>1. o \in Locations /\ Ended(o)
    BY DEF Placed, ObjectsApart, Ended
  <2>2. \A x \in Extent(o) : x # e
    BY <1>1, <1>2
  <2>. HIDE DEF e
  <2>3. \A x \in Extent(o) : x \in ends' <=> x \in ends
    BY <2>2 DEF e
  <2>. QED  BY <2>1, <2>3, SameExtent, ExtentIs
<1>4. Ended(<<b, g>>)' /\ Extent(<<b, g>>)' = N
  BY <1>1, <1>2, NewExtent
<1>5. <<b, g>> \notin Placed
  BY <1>1, <1>2, <1>3
<1>6. ASSUME Free' \subseteq Free \ N
      PROVE  ObjectsApart'
  <2>. HIDE DEF N
  <2>1. \A o \in Placed' : \E i \in o[2] .. G - 1 : <<o[1], i>> \in ends'
    BY <1>3, <1>4 DEF Ended
  <2>2. ASSUME NEW o \in Placed', NEW p \in Placed', o # p
        PROVE  Extent(o)' \cap Extent(p)' = {}
    <3>1. CASE o \in Placed /\ p \in Placed
      BY <1>3, <2>2, <3>1 DEF ObjectsApart
    <3>2. CASE o = <<b, g>> /\ p \in Placed
      BY <1>2, <1>3, <1>4, <3>2
    <3>3. CASE p = <<b, g>> /\ o \in Placed
      BY <1>2, <1>3, <1>4, <3>3
    <3>. QED  BY <2>2, <3>1, <3>2, <3>3
  <2>3. \A o \in Placed' : Extent(o)' \cap Free' = {}
    BY <1>3, <1>4, <1>6 DEF ObjectsApart
  <2>4. ends' \cap Free' = {}
    BY <1>1, <1>6 DEF ObjectsApart
  <2>. QED  BY <2>1, <2>2, <2>3, <2>4 DEF ObjectsApart
<1>. QED  BY <1>2, <1>3, <1>4, <1>5, <1>6

--------------------------------------------------------------------------------
\* The fields of records.

LEMMA AllocatorFields ==
  ASSUME NEW a, IsAllocator(a), NEW x, NEW y, NEW z
  PROVE  /\ Room(a, x).alloc = x /\ Room(a, x).sweep = a.sweep /\ Room(a, x).holes = a.holes
         /\ LET c == Having(a, x)
            IN  c.alloc = a.alloc /\ c.sweep = a.sweep /\ c.holes = x
         /\ LET c == With(a, x, y, z)
            IN  c.alloc = y /\ c.sweep = z /\ c.holes = a.holes
         /\ LET c == Reset(a)
            IN  c.alloc = 0 /\ c.sweep = 0 /\ c.holes = a.holes
<1>. DEFINE b == a.block
            s == a.sweep
            h == a.holes
            n == a.alloc
<1>1. a = [block |-> b, alloc |-> n, sweep |-> s, holes |-> h]
  BY DEF IsAllocator
<1>2. a.sweep = s /\ a.holes = h /\ a.alloc = n
  OBVIOUS
<1>. HIDE DEF b, s, h, n
<1>3. [a EXCEPT !.alloc = x] = [block |-> b, alloc |-> x, sweep |-> s, holes |-> h]
  BY <1>1
<1>4. [a EXCEPT !.holes = x] = [block |-> b, alloc |-> n, sweep |-> s, holes |-> x]
  BY <1>1
<1>5. ASSUME NEW i, NEW j, NEW k
      PROVE  [a EXCEPT !.block = i, !.alloc = j, !.sweep = k]
               = [block |-> i, alloc |-> j, sweep |-> k, holes |-> h]
  <2>. DEFINE c == [a EXCEPT !.block = i]
              d == [c EXCEPT !.alloc = j]
  <2>1. [a EXCEPT !.block = i, !.alloc = j, !.sweep = k] = [d EXCEPT !.sweep = k]
    OBVIOUS
  <2>2. c = [block |-> i, alloc |-> n, sweep |-> s, holes |-> h]
    BY <1>1
  <2>. HIDE DEF c
  <2>3. d = [block |-> i, alloc |-> j, sweep |-> s, holes |-> h]
    BY <2>2
  <2>. HIDE DEF d
  <2>. QED  BY <2>1, <2>3
<1>6. Room(a, x) = [block |-> b, alloc |-> x, sweep |-> s, holes |-> h]
  BY <1>3 DEF Room
<1>7. Having(a, x) = [block |-> b, alloc |-> n, sweep |-> s, holes |-> x]
  BY <1>4 DEF Having
<1>8. With(a, x, y, z) = [block |-> x, alloc |-> y, sweep |-> z, holes |-> h]
  BY <1>5 DEF With
<1>9. Reset(a) = [block |-> NoBlock, alloc |-> 0, sweep |-> 0, holes |-> h]
  BY <1>5 DEF Reset
<1>. QED  BY <1>2, <1>6, <1>7, <1>8, <1>9

LEMMA ProcessObj ==
  ASSUME NEW p, IsProcess(p), NEW x, NEW y
  PROVE  /\ At(p, x).obj = p.obj /\ Sweeping(p, x, y).obj = p.obj
         /\ Again(p, x, y).obj = p.obj /\ Swept(p, y).obj = p.obj
         /\ Asking(p, x, y).obj = p.obj
<1>. DEFINE s == p.size
            a == p.at
            w == p.swept
            o == p.obj
<1>1. p = [at |-> a, size |-> s, swept |-> w, obj |-> o] /\ p.obj = o
  BY DEF IsProcess
<1>. HIDE DEF s, a, w, o
<1>2. At(p, x).obj = o /\ Swept(p, y).obj = o
  BY <1>1 DEF At, Swept
<1>3. Sweeping(p, x, y).obj = o
  <2>. DEFINE q == [p EXCEPT !.at = x]
  <2>1. Sweeping(p, x, y) = [q EXCEPT !.swept = y]
    BY DEF Sweeping
  <2>2. q = [at |-> x, size |-> s, swept |-> w, obj |-> o]
    BY <1>1
  <2>. HIDE DEF q
  <2>. QED  BY <2>1, <2>2
<1>4. Again(p, x, y).obj = o
  <2>. DEFINE q == [p EXCEPT !.swept = y]
  <2>1. Again(p, x, y) = [q EXCEPT !.at = x]
    BY DEF Again
  <2>2. q = [at |-> a, size |-> s, swept |-> y, obj |-> o]
    BY <1>1
  <2>. HIDE DEF q
  <2>. QED  BY <2>1, <2>2
<1>5. Asking(p, x, y).obj = o
  <2>. DEFINE q == [p EXCEPT !.size = y]
  <2>1. Asking(p, x, y) = [q EXCEPT !.at = x]
    BY DEF Asking
  <2>2. q = [at |-> a, size |-> y, swept |-> w, obj |-> o]
    BY <1>1
  <2>. HIDE DEF q
  <2>. QED  BY <2>1, <2>2
<1>. QED  BY <1>1, <1>2, <1>3, <1>4, <1>5

LEMMA RestingObj ==
  ASSUME NEW y
  PROVE  /\ Resting.swept = 0 /\ Resting.obj = <<NoBlock, 0>>
         /\ LET q == Copying(y)
            IN  q.size = 0 /\ q.swept = 0 /\ q.obj = y
<1>1. Resting.swept = 0 /\ Resting.obj = <<NoBlock, 0>>
  BY DEF Resting
<1>2. Copying(y) = [at |-> "copy", size |-> 0, swept |-> 0, obj |-> y]
  <2>. DEFINE q == [Resting EXCEPT !.at = "copy"]
  <2>1. Copying(y) = [q EXCEPT !.obj = y]
    BY DEF Copying
  <2>2. q = [at |-> "copy", size |-> 0, swept |-> 0, obj |-> <<NoBlock, 0>>]
    BY DEF Resting
  <2>. HIDE DEF q
  <2>. QED  BY <2>1, <2>2
<1>. QED  BY <1>1, <1>2

--------------------------------------------------------------------------------
\* Steps of one thread.

\* Only thread t does anything.
Only(t) ==
  /\ t \in Threads /\ Threads' = Threads /\ Mutators' = Mutators
  /\ \A u \in Threads : u # t => alloc'[u] = alloc[u] /\ pc'[u] = pc[u]

LEMMA OnlyOne ==
  ASSUME IInv, NEW t \in Threads, NEW p, IsProcess(p), pc' = [pc EXCEPT ![t] = p],
         NEW a, IsAllocator(a), a.block \in Blocks \cup {NoBlock},
         alloc' = [alloc EXCEPT ![t] = a]
  PROVE  Only(t) /\ pc'[t] = p /\ alloc'[t] = a
<1>1. Records
  BY DEF IInv
<1>. QED  BY <1>1, OneProcess, OneAllocator DEF Only

LEMMA SweepCount ==
  ASSUME HeapInv
  PROVE  /\ IsFiniteSet(Blocks) /\ IsFiniteSet(list["to_sweep"])
         /\ Cardinality(Blocks) \in Nat /\ Cardinality(list["to_sweep"]) \in Nat
         /\ Cardinality(list["to_sweep"]) <= Cardinality(Blocks)
<1>1. list["to_sweep"] \subseteq Blocks
  BY ListIs DEF HeapInv, IInv, Records
<1>. QED  BY <1>1, NoflAssumption, FS_Subset, FS_CardinalityType

LEMMA BoundedStays ==
  ASSUME Bounded, Mutators' = Mutators, UNCHANGED <<count, allocated, kind>>,
         phase' = phase \/ phase' = "run"
  PROVE  Bounded'
BY DEF Bounded, LastCount

\* The invariant of a state has the types that free memory goes by.
LEMMA HeapTyped ==
  /\ HeapInv => Typed
  /\ IInv /\ (\A t \in Threads : Registers(t)) /\ HolesApart /\ Counts => Typed
BY DEF HeapInv, Typed, IInv, HolesApart, Counts

LEMMA TypedNext ==
  IInv' /\ (\A t \in Threads : Registers(t))' /\ HolesApart' /\ Counts' => Typed'
BY DEF Typed, IInv, HolesApart, Counts

\* Marks, in a step while mutators run.
LEMMA MarksStay ==
  ASSUME HeapInv, IInv', phase \in {"run", "stopping"}, phase' \in {"run", "stopping"},
         UNCHANGED <<current_mark, survivor_mark, marked>>, held' \subseteq Locations,
         \A o \in held' :
           \/ o \in held /\ byte'[o] = byte[o] /\ (Unswept(o)' => Unswept(o))
           \/ byte'[o] = YOUNG /\ ~Unswept(o)',
         \A o \in Placed' :
           \/ byte'[o] = YOUNG
           \/ /\ o \in Placed /\ byte'[o] = byte[o]
              /\ byte[o] = current_mark \/ (Unswept(o) => Unswept(o)')
  PROVE  HeldMarked' /\ Busy' /\ Fresh'
<1>1. HeldMarked /\ Fresh /\ survivor_mark = current_mark
      /\ current_mark \in MARK_0 .. MARK_2
  BY DEF HeapInv, HeldMarked, MemoryTypes
<1>2. HeldMarked'
  <2>1. ASSUME NEW o \in held'
        PROVE  /\ byte'[o] \in {YOUNG, survivor_mark, current_mark, BUSY}
               /\ byte'[o] # BUSY
               /\ byte'[o] = current_mark => o[1] \in marked
               /\ Unswept(o)' => byte'[o] = survivor_mark
    <3>1. YOUNG # BUSY /\ YOUNG # current_mark
      BY <1>1 DEF YOUNG, BUSY, MARK_0, MARK_2
    <3>. QED  BY <1>1, <2>1, <3>1 DEF HeldMarked
  <2>. QED  BY <1>1, <2>1 DEF HeldMarked
<1>3. Busy'
  <2>1. \A w \in Workers : pc'[w].at = "idle"
    BY DEF IInv, WorkerInv
  <2>. QED  BY <2>1 DEF Busy
<1>4. Fresh'
  <2>1. ASSUME NEW o \in Placed'
        PROVE  /\ byte'[o] # nofl_advance_current_mark(current_mark)
               /\ byte'[o] \in MARK_0 .. MARK_2 => byte'[o] = current_mark \/ Unswept(o)'
    <3>1. nofl_advance_current_mark(current_mark) # YOUNG /\ YOUNG \notin MARK_0 .. MARK_2
      BY <1>1 DEF nofl_advance_current_mark, YOUNG, MARK_0, MARK_2
    <3>. QED  BY <1>1, <2>1, <3>1 DEF Fresh
  <2>. QED  BY <2>1 DEF Fresh, nofl_advance_current_mark
<1>. QED  BY <1>2, <1>3, <1>4

\* A step that leaves memory and the places of blocks and holes as they are.
LEMMA Quiet ==
  ASSUME HeapInv, IInv', Threads' = Threads, Mutators' = Mutators,
         UNCHANGED <<byte, ends, dirty, flag_vars, list, holes, alloc, space_vars, kind>>,
         held' \subseteq held, Bounded', \A t \in Threads : Registers(t)',
         phase' = phase \/ (phase = "run" /\ phase' = "stopping"),
         phase \in {"pinned", "trace"} => held' = held,
         \A m \in Mutators :
           /\ pc'[m].swept + Cardinality(list["to_sweep"]) <= Cardinality(Blocks)
           /\ pc'[m].at = "flushed" \/ m = collector' => alloc[m].holes = {},
         Busy'
  PROVE  HeapInv'
<1>. USE DEF flag_vars, space_vars
<1>1. MemoryTypes'
  BY DEF HeapInv, MemoryTypes
<1>2. Counts'
  BY DEF HeapInv, Counts
<1>3. AllHoles' = AllHoles /\ Free' = Free /\ Placed' = Placed /\ Vacant' = Vacant
      /\ (\A t \in Threads : Leftover(alloc[t])' = Leftover(alloc[t]))
      /\ (\A o : Extent(o)' = Extent(o)) /\ (\A o : Unswept(o)' = Unswept(o))
  BY DEF AllHoles, Free, Placed, Vacant, Leftover, Extent, Unswept
<1>4. HolesApart' /\ HolesAside'
  BY <1>3 DEF HeapInv, HolesApart, HolesAside
<1>5. ObjectsApart' /\ SweptWhole'
  BY <1>3 DEF HeapInv, ObjectsApart, SweptWhole
<1>6. HeldMarked'
  BY <1>3 DEF HeapInv, HeldMarked
<1>7. Fresh'
  BY <1>3 DEF HeapInv, Fresh, nofl_advance_current_mark
<1>8. Clean'
  BY <1>3 DEF HeapInv, Clean, Granules
<1>. QED  BY <1>1, <1>2, <1>4, <1>5, <1>6, <1>7, <1>8 DEF HeapInv

LEMMA QuietOne ==
  ASSUME HeapInv, IInv', NEW t \in Threads, NEW p, IsProcess(p), pc' = [pc EXCEPT ![t] = p],
         UNCHANGED <<byte, ends, dirty, flag_vars, list, holes, alloc, space_vars, kind, held>>,
         Bounded', Registers(t)',
         phase' = phase \/ (phase = "run" /\ phase' = "stopping"),
         p.swept = 0 \/ p.swept = pc[t].swept,
         p.at = "flushed" => alloc[t].holes = {},
         \A m \in Mutators : m = collector' => m = collector \/ alloc[m].holes = {},
         t \in Workers /\ p.at # "idle" => pc[t].at # "idle" /\ p.obj = pc[t].obj
  PROVE  HeapInv'
<1>1. Records
  BY DEF HeapInv, IInv
<1>2. Only(t) /\ pc'[t] = p
  BY <1>1, OneProcess DEF Only
<1>3. \A u \in Threads : Registers(u)'
  <2>1. ASSUME NEW u \in Threads, u # t
        PROVE  Registers(u)'
    BY <1>2, <2>1 DEF HeapInv, Registers, Only
  <2>. QED  BY <2>1
<1>4. ASSUME NEW m \in Mutators
      PROVE  /\ pc'[m].swept + Cardinality(list["to_sweep"]) <= Cardinality(Blocks)
             /\ pc'[m].at = "flushed" \/ m = collector' => alloc[m].holes = {}
  <2>1. /\ pc[m].swept + Cardinality(list["to_sweep"]) <= Cardinality(Blocks)
        /\ pc[m].at = "flushed" \/ m = collector => alloc[m].holes = {}
    BY DEF HeapInv, Counts, HolesApart
  <2>2. m \in Threads
    BY DEF Mutators
  <2>3. pc'[m].swept \in {0, pc[m].swept}
    BY <1>2, <2>2 DEF Only
  <2>. QED  BY <1>2, <2>1, <2>2, <2>3, SweepCount DEF Only
<1>5. Busy'
  <2>1. ASSUME NEW w \in Workers, pc'[w].at # "idle"
        PROVE  pc[w].at # "idle" /\ pc'[w].obj = pc[w].obj
    BY <1>1, <1>2, <2>1 DEF Only, Records
  <2>. QED  BY <2>1 DEF HeapInv, Busy
<1>. QED  BY <1>2, <1>3, <1>4, <1>5, Quiet DEF Only

LEMMA ThreadIs ==
  ASSUME HeapInv, NEW t \in Threads
  PROVE  /\ IsProcess(pc[t]) /\ IsAllocator(alloc[t]) /\ alloc[t].block \in Blocks \cup {NoBlock}
         /\ Registers(t) /\ Records /\ NoBlock \notin Blocks
         /\ t \in Workers => WorkerInv(t)
         /\ t \in Mutators => MutatorInv(t)
         /\ t \in Mutators <=> t \notin Workers
BY NoflAssumption DEF HeapInv, IInv, Records, Mutators

LEMMA AllocateHeap ==
  ASSUME HeapInv, NEW m \in Mutators, NEW n \in Sizes, Allocate(m, n)
  PROVE  HeapInv'
<1>. DEFINE at == IF alloc[m].alloc + n <= alloc[m].sweep THEN "bump" ELSE "hole"
            p == Asking(pc[m], at, n)
<1>1. /\ pc[m].at = "idle" /\ m # collector
      /\ UNCHANGED <<byte, ends, dirty, flag_vars, list, holes, alloc, space_vars, kind, held>>
      /\ UNCHANGED <<phase, collector, count>>
      /\ allocated' = allocated + 1 /\ allocated < MaxAlloc[Cardinality(Mutators)]
      /\ pc' = [pc EXCEPT ![m] = p]
  BY DEF Allocate, Running, Asking, memory_vars, gc_vars
<1>2. IInv' /\ m \in Threads /\ m \notin Workers
  BY AllocateIInv DEF HeapInv, Mutators
<1>3. Registers(m) /\ Records /\ IsProcess(pc[m])
  BY <1>2, ThreadIs
<1>4. at \in {"bump", "hole"} /\ (at = "bump" => alloc[m].alloc + n <= alloc[m].sweep)
  OBVIOUS
<1>. HIDE DEF at
<1>5. /\ IsProcess(p) /\ p.at = at /\ p.size = n /\ p.swept = pc[m].swept /\ p.obj = pc[m].obj
  BY <1>3, ProcessWith, ProcessObj
<1>. HIDE DEF p
<1>6. Mutators' = Mutators /\ pc'[m] = p
  BY <1>1, <1>2, <1>3, <1>5, OneProcess
<1>7. n \in 1 .. G /\ G \in Nat
  BY NoflAssumption
<1>8. Registers(m)'
  BY <1>1, <1>2, <1>3, <1>4, <1>5, <1>6, <1>7 DEF Registers, Labels
<1>9. Bounded'
  BY <1>1, <1>6 DEF HeapInv, Bounded, LastCount
<1>. QED  BY <1>1, <1>2, <1>4, <1>5, <1>8, <1>9, QuietOne

LEMMA DropHeap ==
  ASSUME HeapInv, NEW o \in held, DropObject(o)
  PROVE  HeapInv'
<1>1. /\ UNCHANGED <<byte, ends, dirty, flag_vars, list, holes, alloc, space_vars, kind>>
      /\ UNCHANGED <<phase, collector, count, allocated, pc, evacuating, summary>>
      /\ phase = "run" /\ held' \subseteq held
  BY DEF DropObject, memory_vars, gc_vars, flag_vars, space_vars
<1>2. IInv'
  BY <1>1, QuietIInv DEF HeapInv
<1>3. Threads' = Threads /\ Mutators' = Mutators
  BY <1>1 DEF Threads, Mutators
<1>4. Bounded'
  BY <1>1, <1>3, BoundedStays DEF HeapInv
<1>5. \A t \in Threads : Registers(t)'
  BY <1>1 DEF HeapInv, Registers
<1>6. Busy'
  BY <1>1 DEF HeapInv, Busy, IInv, WorkerInv
<1>7. \A m \in Mutators :
        /\ pc'[m].swept + Cardinality(list["to_sweep"]) <= Cardinality(Blocks)
        /\ pc'[m].at = "flushed" \/ m = collector' => alloc[m].holes = {}
  BY <1>1 DEF HeapInv, Counts, HolesApart
<1>. QED  BY <1>1, <1>2, <1>3, <1>4, <1>5, <1>6, <1>7, Quiet

LEMMA StutterHeap ==
  ASSUME HeapInv, UNCHANGED vars
  PROVE  HeapInv'
<1>1. /\ UNCHANGED <<byte, ends, dirty, flag_vars, list, holes, alloc, space_vars, kind>>
      /\ UNCHANGED <<phase, collector, count, allocated, pc, held, evacuating, summary>>
  BY DEF vars, memory_vars, gc_vars, flag_vars, space_vars
<1>2. IInv'
  BY <1>1, QuietIInv DEF HeapInv
<1>3. Threads' = Threads /\ Mutators' = Mutators
  BY <1>1 DEF Threads, Mutators
<1>4. Bounded'
  BY <1>1, <1>3, BoundedStays DEF HeapInv
<1>5. \A t \in Threads : Registers(t)'
  BY <1>1 DEF HeapInv, Registers
<1>6. Busy'
  BY <1>1 DEF HeapInv, Busy
<1>7. \A m \in Mutators :
        /\ pc'[m].swept + Cardinality(list["to_sweep"]) <= Cardinality(Blocks)
        /\ pc'[m].at = "flushed" \/ m = collector' => alloc[m].holes = {}
  BY <1>1 DEF HeapInv, Counts, HolesApart
<1>. QED  BY <1>1, <1>2, <1>3, <1>4, <1>5, <1>6, <1>7, Quiet

LEMMA ResumeHeap ==
  ASSUME HeapInv, NEW m \in Mutators, Resume(m)
  PROVE  HeapInv'
<1>1. /\ pc[m].at = "flushed"
      /\ UNCHANGED <<byte, ends, dirty, flag_vars, list, holes, alloc, space_vars, kind, held>>
      /\ UNCHANGED <<phase, collector, count, allocated>>
      /\ pc' = [pc EXCEPT ![m] = Resting]
  BY DEF Resume, Rest, memory_vars, gc_vars
<1>2. IInv' /\ m \in Threads /\ m \notin Workers
  BY ResumeIInv DEF HeapInv, Mutators
<1>3. Registers(m) /\ Records /\ MutatorInv(m)
  BY <1>2, ThreadIs
<1>4. IsProcess(Resting) /\ Resting.at = "idle" /\ Resting.size = 0 /\ Resting.swept = 0
      /\ Resting.obj = <<NoBlock, 0>>
  BY RestingIs, RestingObj
<1>5. Mutators' = Mutators /\ pc'[m] = Resting
  BY <1>1, <1>2, <1>3, <1>4, OneProcess
<1>6. Registers(m)'
  BY <1>1, <1>2, <1>3, <1>4, <1>5, NoflAssumption DEF Registers, Labels, MutatorInv
<1>7. Bounded'
  BY <1>1, <1>5, BoundedStays DEF HeapInv
<1>. QED  BY <1>1, <1>2, <1>4, <1>6, <1>7, QuietOne

LEMMA RequestStopHeap ==
  ASSUME HeapInv, NEW m \in Mutators, RequestStop(m)
  PROVE  HeapInv'
<1>. DEFINE p == At(pc[m], "hole")
<1>1. /\ pc[m].at = "flushed" /\ phase = "run" /\ phase' = "stopping" /\ collector' = m
      /\ UNCHANGED <<byte, ends, dirty, flag_vars, list, holes, alloc, space_vars, kind, held>>
      /\ UNCHANGED <<count, allocated>> /\ count < LastCount
      /\ pc' = [pc EXCEPT ![m] = p]
  BY DEF RequestStop, Goto, At, memory_vars
<1>2. IInv' /\ m \in Threads /\ m \notin Workers
  BY RequestStopIInv DEF HeapInv, Mutators
<1>3. Registers(m) /\ Records /\ IsProcess(pc[m])
  BY <1>2, ThreadIs
<1>4. /\ IsProcess(p) /\ p.at = "hole" /\ p.size = pc[m].size /\ p.swept = pc[m].swept
      /\ p.obj = pc[m].obj
  BY <1>3, ProcessWith, ProcessObj
<1>. HIDE DEF p
<1>5. Mutators' = Mutators /\ pc'[m] = p
  BY <1>1, <1>2, <1>3, <1>4, OneProcess
<1>6. Registers(m)'
  BY <1>1, <1>2, <1>3, <1>4, <1>5 DEF Registers, Labels
<1>7. Bounded'
  BY <1>1, <1>5 DEF HeapInv, Bounded, LastCount
<1>8. alloc[m].holes = {}
  BY <1>1 DEF HeapInv, HolesApart
<1>. QED  BY <1>1, <1>2, <1>4, <1>6, <1>7, <1>8, QuietOne

\* A thread goes on to look elsewhere.
LEMMA GoesOn ==
  ASSUME HeapInv, IInv', NEW t \in Threads,
         NEW x \in Labels \ {"idle", "bump", "release", "flushed"},
         NEW p, p \in {At(pc[t], x), Sweeping(pc[t], x, 0), Again(pc[t], x, 0)},
         pc' = [pc EXCEPT ![t] = p], pc[t].at # "idle",
         UNCHANGED <<byte, ends, dirty, flag_vars, list, holes, alloc, space_vars, gc_vars,
                     held, allocated>>,
         x = "second" => pc[t].size # 0, x = "nospace" => p.swept = 0,
         t \in Workers => x \in {"copy", "partly", "empty"}
  PROVE  HeapInv'
<1>1. Registers(t) /\ Records /\ IsProcess(pc[t])
  BY ThreadIs
<1>2. /\ IsProcess(p) /\ p.at = x /\ p.size = pc[t].size /\ p.obj = pc[t].obj
      /\ p.swept \in {0, pc[t].swept}
  BY <1>1, ProcessWith, ProcessObj
<1>3. Mutators' = Mutators /\ pc'[t] = p
  BY <1>1, <1>2, OneProcess
<1>4. Registers(t)'
  BY <1>1, <1>2, <1>3 DEF Registers
<1>5. Bounded'
  BY <1>3, BoundedStays DEF HeapInv, gc_vars
<1>. QED  BY <1>2, <1>4, <1>5, QuietOne DEF gc_vars

LEMMA SweepOnGoesOn ==
  ASSUME HeapInv, NEW m \in Mutators, SweepOn(m), alloc[m].block = NoBlock
  PROVE  HeapInv'
<1>. DEFINE x == IF pc[m].size = 0 THEN "sweep" ELSE "second"
            p == Sweeping(pc[m], x, 0)
<1>1. /\ pc[m].at = "hole" /\ pc' = [pc EXCEPT ![m] = p]
      /\ UNCHANGED <<byte, ends, dirty, flag_vars, list, holes, alloc, space_vars, gc_vars,
                     held, allocated>>
  BY DEF SweepOn, Sweeping, memory_vars
<1>2. x \in Labels \ {"idle", "bump", "release", "flushed"} /\ (x = "second" => pc[m].size # 0)
      /\ x # "nospace"
  BY DEF Labels
<1>3. IInv' /\ m \in Threads /\ m \notin Workers
  BY SweepOnIInv DEF HeapInv, Mutators
<1>. HIDE DEF x
<1>. QED  BY <1>1, <1>2, <1>3, GoesOn

LEMMA SecondGoesOn ==
  ASSUME HeapInv, NEW m \in Mutators, SecondChance(m), Goto(m, "sweep"),
         UNCHANGED <<memory_vars, holes, alloc, held>>
  PROVE  HeapInv'
<1>1. /\ pc[m].at = "second" /\ pc' = [pc EXCEPT ![m] = At(pc[m], "sweep")]
      /\ UNCHANGED <<byte, ends, dirty, flag_vars, list, holes, alloc, space_vars, gc_vars,
                     held, allocated>>
  BY DEF SecondChance, Goto, At, memory_vars
<1>2. IInv' /\ m \in Threads /\ m \notin Workers
  BY SecondChanceIInv DEF HeapInv, Mutators
<1>3. "sweep" \in Labels \ {"idle", "bump", "release", "flushed"}
  BY DEF Labels
<1>. QED  BY <1>1, <1>2, <1>3, GoesOn

LEMMA SweepGoesOn ==
  ASSUME HeapInv, NEW m \in Mutators, Sweep(m), Goto(m, "partly"),
         UNCHANGED <<memory_vars, flag_vars, list, holes, alloc, space_vars, gc_vars, held,
                     allocated>>
  PROVE  HeapInv'
<1>1. pc[m].at = "sweep" /\ pc' = [pc EXCEPT ![m] = At(pc[m], "partly")]
  BY DEF Sweep, Goto, At
<1>2. IInv' /\ m \in Threads /\ m \notin Workers
  BY SweepIInv DEF HeapInv, Mutators
<1>3. "partly" \in Labels \ {"idle", "bump", "release", "flushed"}
  BY DEF Labels
<1>. QED  BY <1>1, <1>2, <1>3, GoesOn DEF memory_vars

LEMMA PartlyFullGoesOn ==
  ASSUME HeapInv, NEW m \in Mutators, PartlyFull(m), Goto(m, "empty"),
         UNCHANGED <<dirty, summary, list, alloc>>
  PROVE  HeapInv'
<1>1. /\ pc[m].at = "partly" /\ pc' = [pc EXCEPT ![m] = At(pc[m], "empty")]
      /\ UNCHANGED <<byte, ends, dirty, flag_vars, list, holes, alloc, space_vars, gc_vars,
                     held, allocated>>
  BY DEF PartlyFull, Goto, At, flag_vars
<1>2. IInv' /\ m \in Threads /\ m \notin Workers
  BY PartlyFullIInv DEF HeapInv, Mutators
<1>3. "empty" \in Labels \ {"idle", "bump", "release", "flushed"}
  BY DEF Labels
<1>. QED  BY <1>1, <1>2, <1>3, GoesOn

LEMMA EmptyGoesOn ==
  ASSUME HeapInv, NEW m \in Mutators, Empty(m),
         pc' = [pc EXCEPT ![m].swept = 0,
                          ![m].at = IF pc[m].swept = 0 THEN "nospace" ELSE "sweep"],
         UNCHANGED <<list, summary, alloc, zero, dirty>>
  PROVE  HeapInv'
<1>. DEFINE x == IF pc[m].swept = 0 THEN "nospace" ELSE "sweep"
            p == Again(pc[m], x, 0)
<1>1. /\ pc[m].at = "empty" /\ pc' = [pc EXCEPT ![m] = p]
      /\ UNCHANGED <<byte, ends, dirty, flag_vars, list, holes, alloc, space_vars, gc_vars,
                     held, allocated>>
  BY DEF Empty, Again, flag_vars
<1>2. x \in Labels \ {"idle", "bump", "release", "flushed"} /\ x # "second"
  BY DEF Labels
<1>3. IInv' /\ m \in Threads /\ m \notin Workers
  BY EmptyIInv DEF HeapInv, Mutators
<1>. HIDE DEF x
<1>4. p.swept = 0
  BY <1>3, ThreadIs, ProcessWith
<1>. QED  BY <1>1, <1>2, <1>3, <1>4, GoesOn

LEMMA PartlyTargetGoesOn ==
  ASSUME HeapInv, NEW w \in Workers, PartlyFullTarget(w), Goto(w, "empty"),
         UNCHANGED <<summary, list, alloc>>
  PROVE  HeapInv'
<1>1. /\ pc[w].at = "partly" /\ pc' = [pc EXCEPT ![w] = At(pc[w], "empty")]
      /\ UNCHANGED <<byte, ends, dirty, flag_vars, list, holes, alloc, space_vars, gc_vars,
                     held, allocated>>
  BY DEF PartlyFullTarget, Goto, At, memory_vars, flag_vars
<1>2. IInv' /\ w \in Threads
  BY PartlyFullTargetIInv DEF HeapInv, IInv, Records
<1>3. "empty" \in Labels \ {"idle", "bump", "release", "flushed"}
  BY DEF Labels
<1>. QED  BY <1>1, <1>2, <1>3, GoesOn

LEMMA ReleaseTargetGoesOn ==
  ASSUME HeapInv, NEW w \in Workers, ReleaseTarget(w), alloc[w].block = NoBlock
  PROVE  HeapInv'
<1>1. /\ pc[w].at = "copy" /\ pc' = [pc EXCEPT ![w] = At(pc[w], "partly")]
      /\ UNCHANGED <<byte, ends, dirty, flag_vars, list, holes, alloc, space_vars, gc_vars,
                     held, allocated>>
  BY DEF ReleaseTarget, Goto, At, memory_vars
<1>2. IInv' /\ w \in Threads
  BY ReleaseTargetIInv DEF HeapInv, IInv, Records
<1>3. "partly" \in Labels \ {"idle", "bump", "release", "flushed"}
  BY DEF Labels
<1>. QED  BY <1>1, <1>2, <1>3, GoesOn

LEMMA ReleaseNothing ==
  ASSUME HeapInv, NEW m \in Mutators, ReleaseBlock(m), alloc[m].block = NoBlock
  PROVE  HeapInv'
<1>. DEFINE p == At(Resting, "release")
<1>1. /\ m # collector /\ pc' = [pc EXCEPT ![m] = p]
      /\ UNCHANGED <<byte, ends, dirty, flag_vars, list, holes, alloc, space_vars, gc_vars,
                     held, allocated>>
  BY DEF ReleaseBlock, At, Running, memory_vars, flag_vars
<1>2. IInv' /\ m \in Threads /\ m \notin Workers
  BY ReleaseBlockIInv DEF HeapInv, Mutators
<1>3. Registers(m) /\ Records
  BY <1>2, ThreadIs
<1>4. /\ IsProcess(p) /\ p.at = "release" /\ p.size = 0 /\ p.swept = 0
      /\ p.obj = <<NoBlock, 0>>
  BY RestingIs, RestingObj, ProcessWith, ProcessObj
<1>. HIDE DEF p
<1>5. Mutators' = Mutators /\ pc'[m] = p
  BY <1>1, <1>2, <1>3, <1>4, OneProcess
<1>6. Registers(m)'
  BY <1>1, <1>2, <1>3, <1>4, <1>5, GranulesAre DEF Registers, Labels
<1>7. Bounded'
  BY <1>5, <1>1, BoundedStays DEF HeapInv, gc_vars
<1>. QED  BY <1>1, <1>2, <1>4, <1>6, <1>7, QuietOne DEF gc_vars

--------------------------------------------------------------------------------
\* Memory that is zero.

LEMMA RoomClean ==
  ASSUME NEW a, a.alloc \in 0 .. G, a.sweep \in a.alloc .. G, NEW D
  PROVE  (\A h \in Leftover(a) : Inside(h) \cap D = {})
           <=> \A g \in a.alloc .. a.sweep - 1 : <<a.block, g>> \notin D
<1>. DEFINE U == UNION {Inside(h) : h \in Leftover(a)}
<1>1. (\A h \in Leftover(a) : Inside(h) \cap D = {}) <=> \A x \in U : x \notin D
  OBVIOUS
<1>2. \A c, i : <<c, i>> \in U <=> c = a.block /\ i \in a.alloc .. a.sweep - 1
  BY LeftoverIs
<1>3. \A x \in U : x = <<x[1], x[2]>>
  <2>1. \A h \in Leftover(a) : \A x \in Inside(h) : x = <<x[1], x[2]>>
    BY DEF Inside
  <2>. QED  BY <2>1
<1>. HIDE DEF U
<1>. QED  BY <1>1, <1>2, <1>3

LEMMA HoleClean ==
  ASSUME NEW h \in HoleSet, NEW D
  PROVE  Inside(h) \cap D \subseteq {<<h.block, h.at>>}
           <=> \A g \in h.at + 1 .. h.at + h.n - 1 : <<h.block, g>> \notin D
<1>1. /\ h.at \in Nat /\ h.n \in Nat
      /\ Inside(h) = {h.block} \X (h.at .. h.at + h.n - 1)
  <2>1. h.at \in 0 .. G - 1 /\ h.n \in 1 .. G
    BY HoleIs
  <2>. QED  BY <2>1, GranulesAre DEF Inside
<1>. QED  BY <1>1

LEMMA TailClean ==
  ASSUME NEW b, NEW f \in 0 .. G, NEW D
  PROVE  ({b} \X (G - f .. G - 1)) \cap D = {}
           <=> \A g \in 0 .. G - 1 : G - f <= g => <<b, g>> \notin D
BY GranulesAre

--------------------------------------------------------------------------------
\* Placing an object where a thread allocates.

LEMMA AllHolesAre ==
  ASSUME Typed, NEW h \in AllHoles
  PROVE  /\ h \in HoleSet /\ h.block \in Blocks
         /\ h.at \in Nat /\ h.n \in Nat /\ h.n > 0 /\ h.at + h.n \in Nat /\ h.at + h.n <= G
         /\ Inside(h) = {h.block} \X (h.at .. h.at + h.n - 1)
<1>1. h \in HoleSet
  BY AllHolesIs
<1>2. h.block \in Blocks /\ h.at \in 0 .. G - 1 /\ h.n \in 1 .. G /\ h.at + h.n <= G
  BY <1>1, HoleIs
<1>. QED  BY <1>1, <1>2, GranulesAre DEF Inside

LEMMA BumpPlaces ==
  ASSUME HeapInv, IInv', NEW t \in Threads, NEW n \in 1 .. G, Only(t),
         NEW b, NEW i, NEW e, alloc[t].block = b, alloc[t].alloc = i, alloc[t].sweep = e,
         i + n <= e, alloc'[t] = Room(alloc[t], i + n),
         pc'[t] = Resting, UNCHANGED <<list, holes, summary, zero, phase, collector>>,
         ends' = ends \cup {<<b, i + n - 1>>}, Placed' = Placed \cup {<<b, i>>},
         dirty' = dirty \cup Inside(Hole(b, i, n))
  PROVE  /\ b \in Blocks /\ i \in 0 .. G - 1 /\ <<b, i>> \notin Placed
         /\ dirty' \subseteq Locations /\ ends' \subseteq Locations
         /\ (\A u \in Threads : Registers(u)') /\ Counts' /\ HolesApart' /\ HolesAside'
         /\ ObjectsApart' /\ SweptWhole' /\ Clean'
         /\ (\A o : Unswept(o)' = Unswept(o)) /\ ~Unswept(<<b, i>>)
<1>. DEFINE N == {b} \X (i .. i + n - 1)
<1>1. Registers(t) /\ Records /\ IsAllocator(alloc[t]) /\ Apart /\ NoBlock \notin Blocks
      /\ b \in Blocks \cup {NoBlock}
  BY ThreadIs DEF HeapInv, IInv
<1>2. i \in 0 .. G /\ e \in i .. G /\ G \in Nat /\ (b = NoBlock => i = 0 /\ e = 0)
      /\ i + n <= e
  BY <1>1, GranulesAre DEF Registers
<1>3. b \in Blocks /\ i \in 0 .. G - 1 /\ i + n \in 0 .. G /\ i + n <= G
  BY <1>1, <1>2
<1>4. alloc'[t].block = b /\ alloc'[t].alloc = i + n /\ alloc'[t].sweep = e
      /\ alloc'[t].holes = alloc[t].holes
  BY <1>1, AllocatorWith, AllocatorFields
<1>5. \A u \in Threads : /\ alloc'[u].block = alloc[u].block /\ alloc'[u].sweep = alloc[u].sweep
                         /\ alloc'[u].holes = alloc[u].holes
                         /\ u # t => alloc'[u] = alloc[u]
  BY <1>4 DEF Only
<1>6. Inside(Hole(b, i, n)) = N /\ \A c, x : <<c, x>> \in N <=> c = b /\ x \in i .. i + n - 1
  BY <1>2, InsideIs
<1>. DEFINE new == <<b, i>>
<1>22. /\ ends' = ends \cup {<<b, i + n - 1>>} /\ Placed' = Placed \cup {new}
       /\ dirty' = dirty \cup N /\ new \in N
  BY <1>2, <1>6
<1>7. \A u \in Threads : Registers(u)'
  <2>1. Registers(t)'
    <3>1. Resting.at = "idle" /\ Resting.size = 0 /\ Resting.swept = 0
          /\ Resting.obj = <<NoBlock, 0>>
      BY RestingIs, RestingObj
    <3>. QED  BY <1>1, <1>2, <1>3, <1>4, <3>1 DEF Registers, Labels
  <2>2. ASSUME NEW u \in Threads, u # t
        PROVE  Registers(u)'
    BY <2>2 DEF HeapInv, Registers, Only
  <2>. QED  BY <2>1, <2>2
<1>8. Counts'
  <2>1. \A u \in Threads : alloc[u].alloc \in Int /\ alloc'[u].alloc \in Int
                           /\ alloc[u].alloc <= alloc'[u].alloc
    BY <1>2, <1>4, <1>5 DEF HeapInv, Registers
  <2>2. ASSUME NEW m \in Mutators
        PROVE  pc'[m].swept + Cardinality(list["to_sweep"]) <= Cardinality(Blocks)
    <3>1. pc[m].swept + Cardinality(list["to_sweep"]) <= Cardinality(Blocks)
      BY DEF HeapInv, Counts
    <3>2. pc'[m].swept \in {0, pc[m].swept}
      BY RestingObj DEF Only, Mutators
    <3>. QED  BY <3>1, <3>2, SweepCount
  <2>3. \A u \in Threads : alloc'[u].block # NoBlock => alloc'[u].block \in Blocks
    BY <1>1, <1>5 DEF Records
  <2>4. \A c \in Blocks : LET s == summary[c] IN
          s.holes \in 0 .. G /\ s.pieces \in 0 .. G /\ s.fragments \in 0 .. G
    BY DEF HeapInv, Counts
  <2>5. ASSUME NEW u \in Threads, alloc'[u].block # NoBlock
        PROVE  LET s == summary[alloc'[u].block] IN
               /\ s.holes <= alloc'[u].sweep
               /\ s.pieces <= alloc'[u].alloc /\ s.fragments <= alloc'[u].alloc
    <3>. DEFINE s == summary[alloc[u].block]
    <3>1. /\ s.holes <= alloc[u].sweep
          /\ s.pieces <= alloc[u].alloc /\ s.fragments <= alloc[u].alloc
      BY <1>5, <2>5 DEF HeapInv, Counts
    <3>2. s.pieces \in 0 .. G /\ s.fragments \in 0 .. G
      BY <1>5, <2>3, <2>4, <2>5
    <3>. HIDE DEF s
    <3>3. s.pieces <= alloc'[u].alloc /\ s.fragments <= alloc'[u].alloc
      BY <2>1, <3>1, <3>2
    <3>. QED  BY <1>5, <3>1, <3>3 DEF s
  <2>6. \A c \in list["partly_full"] : summary[c].pieces = 0
    BY DEF HeapInv, Counts
  <2>. QED  BY <2>2, <2>4, <2>5, <2>6 DEF Counts, Only
<1>9. AllHoles' = AllHoles
  <2>1. Threads' = Threads
    BY DEF Only
  <2>. QED  BY <1>5, <2>1 DEF AllHoles
<1>10. HolesApart'
  <2>1. \A m \in Mutators : pc'[m].at = "flushed" \/ m = collector => alloc[m].holes = {}
    BY RestingIs DEF Only, Mutators, HeapInv, HolesApart
  <2>2. \A m \in Mutators : alloc'[m].holes = alloc[m].holes
    BY <1>5 DEF Mutators
  <2>. QED  BY <1>5, <1>9, <2>1, <2>2 DEF HeapInv, HolesApart, Only
<1>11. HolesAside'
  <2>1. ASSUME NEW h \in AllHoles, NEW u \in Threads, h.block = alloc'[u].block
        PROVE  u \notin Workers /\ summary[h.block].pieces > 0 /\ h.at + h.n <= alloc'[u].alloc
    <3>1. u \notin Workers /\ summary[h.block].pieces > 0 /\ h.at + h.n <= alloc[u].alloc
      BY <1>5, <2>1 DEF HeapInv, HolesAside
    <3>2. h.at + h.n \in Int
      BY HeapTyped, AllHolesAre
    <3>3. alloc[u].alloc \in Int /\ alloc'[u].alloc \in Int /\ alloc[u].alloc <= alloc'[u].alloc
      BY <1>2, <1>4, <1>5 DEF HeapInv, Registers
    <3>. QED  BY <3>1, <3>2, <3>3
  <2>2. Vacant' = Vacant /\ Threads' = Threads
    BY DEF Vacant, Only
  <2>. QED  BY <1>9, <2>1, <2>2 DEF HeapInv, HolesAside
<1>12. \A h \in AllHoles : h.block = b => h.at + h.n <= i
  BY DEF HeapInv, HolesAside
<1>13. Typed /\ Typed' /\ Threads' = Threads
  BY <1>7, <1>8, <1>10, HeapTyped, TypedNext DEF Only
<1>14. N \subseteq Free
  <2>1. FreeFacts
    BY <1>13, FreeIs
  <2>2. \A g \in i .. i + n - 1 : g \in 0 .. G - 1 /\ InRoom(b, g)
    BY <1>2, <1>3 DEF InRoom
  <2>. QED  BY <1>3, <2>1, <2>2 DEF FreeFacts
<1>15. Free' \subseteq Free \ N
  <2>1. Free' \subseteq Free \cup {}
    <3>1. ASSUME NEW c \in Blocks, NEW g \in 0 .. G - 1,
                 InHole(c, g)' \/ InRoom(c, g)' \/ InTail(c, g)' \/ c \in Vacant'
          PROVE  InHole(c, g) \/ InRoom(c, g) \/ InTail(c, g) \/ c \in Vacant
      <4>1. InHole(c, g)' = InHole(c, g) /\ InTail(c, g)' = InTail(c, g) /\ Vacant' = Vacant
        BY <1>9 DEF InHole, InTail, Vacant
      <4>2. InRoom(c, g)' => InRoom(c, g)
        <5>1. ASSUME NEW u \in Threads, alloc'[u].block = c,
                     g \in alloc'[u].alloc .. alloc'[u].sweep - 1
              PROVE  alloc[u].block = c /\ g \in alloc[u].alloc .. alloc[u].sweep - 1
          BY <1>2, <1>4, <1>5, <5>1
        <5>. QED  BY <1>13, <5>1 DEF InRoom
      <4>. QED  BY <3>1, <4>1, <4>2
    <3>. QED  BY <1>13, <3>1, FreeWithin
  <2>2. ASSUME NEW g \in i .. i + n - 1
        PROVE  <<b, g>> \notin Free'
    <3>1. g \in 0 .. G - 1
      BY <1>2, <1>3, <2>2
    <3>2. ~InHole(b, g)'
      <4>1. \A h \in AllHoles : h.block = b => ~(g \in h.at .. h.at + h.n - 1)
        BY <1>2, <1>12, <1>13, <2>2, AllHolesAre
      <4>. QED  BY <1>9, <4>1 DEF InHole
    <3>3. ~InRoom(b, g)'
      <4>1. \A u \in Threads : alloc'[u].block = b => u = t
        BY <1>1, <1>3, <1>5 DEF Apart
      <4>2. g \notin i + n .. e - 1
        BY <1>2, <2>2
      <4>. QED  BY <1>4, <1>13, <4>1, <4>2 DEF InRoom
    <3>4. ~InTail(b, g)' /\ b \notin Vacant'
      <4>1. b \notin list["partly_full"] /\ b \notin list["empty"] /\ b \notin list["targets"]
        BY <1>1, ListIs DEF Apart
      <4>. QED  BY <4>1 DEF InTail, Vacant
    <3>. QED  BY <1>3, <1>13, <3>1, <3>2, <3>3, <3>4, FreeIsNext DEF FreeFacts
  <2>. QED  BY <2>1, <2>2
<1>16. /\ new \notin Placed /\ Ended(new)' /\ Extent(new)' = N
       /\ \A o \in Placed : Extent(o)' = Extent(o) /\ Extent(o) \cap N = {}
       /\ ObjectsApart'
  <2>1. ObjectsApart
    BY DEF HeapInv
  <2>. QED  BY <1>3, <1>14, <1>15, <1>22, <2>1, PlacedOne
<1>. HIDE DEF N, new
<1>17. SweptWhole'
  <2>1. ASSUME NEW u \in Threads, alloc'[u].block # NoBlock, NEW o \in Placed',
               o[1] = alloc'[u].block, o[2] < alloc'[u].sweep
        PROVE  Extent(o)' \subseteq {o[1]} \X (0 .. alloc'[u].sweep - 1)
    <3>1. CASE o \in Placed
      BY <1>5, <1>16, <2>1, <3>1 DEF HeapInv, SweptWhole
    <3>2. CASE o = new
      <4>1. u = t
        <5>1. alloc[u].block = b
          BY <1>5, <2>1, <3>2 DEF new
        <5>. QED  BY <1>1, <1>3, <5>1 DEF Apart
      <4>2. i .. i + n - 1 \subseteq 0 .. e - 1
        BY <1>2
      <4>3. Extent(o)' = N
        BY <1>16, <3>2
      <4>4. o[1] = b
        BY <3>2 DEF new
      <4>5. N \subseteq {b} \X (0 .. e - 1)
        BY <4>2 DEF N
      <4>. QED  BY <1>4, <4>1, <4>3, <4>4, <4>5
    <3>. QED  BY <1>22, <2>1, <3>1, <3>2
  <2>. QED  BY <1>13, <2>1 DEF SweptWhole
<1>18. Clean'
  <2>1. zero' \subseteq Vacant' /\ (zero' \X Granules) \cap dirty' = {}
    <3>1. b \notin Vacant
      BY <1>1, ListIs DEF Apart, Vacant
    <3>2. \A g : \A c \in zero : <<c, g>> \notin N
      BY <1>6, <3>1 DEF HeapInv, Clean
    <3>3. (zero \X Granules) \cap N = {}
      BY <3>2
    <3>. QED  BY <1>22, <3>3 DEF HeapInv, Clean, Vacant
  <2>2. ASSUME NEW u \in Threads
        PROVE  \A h \in Leftover(alloc'[u]) : Inside(h) \cap dirty' = {}
    <3>1. /\ alloc'[u].alloc \in 0 .. G /\ alloc'[u].sweep \in alloc'[u].alloc .. G
          /\ alloc[u].alloc \in 0 .. G /\ alloc[u].sweep \in alloc[u].alloc .. G
      BY <1>7 DEF HeapInv, Registers
    <3>2. \A g \in alloc[u].alloc .. alloc[u].sweep - 1 : <<alloc[u].block, g>> \notin dirty
      BY <3>1, RoomClean DEF HeapInv, Clean
    <3>3. ASSUME NEW g \in alloc'[u].alloc .. alloc'[u].sweep - 1
          PROVE  <<alloc'[u].block, g>> \notin dirty'
      <4>1. CASE u = t
        <5>1. g \in i .. e - 1 /\ g \notin i .. i + n - 1
          BY <1>2, <1>4, <4>1
        <5>2. <<b, g>> \notin dirty /\ <<b, g>> \notin N
          BY <1>6, <3>2, <4>1, <5>1
        <5>. QED  BY <1>4, <1>22, <4>1, <5>2
      <4>2. CASE u # t
        <5>1. alloc[u].block # b
          BY <1>1, <1>3, <4>2 DEF Apart
        <5>2. <<alloc[u].block, g>> \notin N
          BY <1>6, <5>1
        <5>3. <<alloc[u].block, g>> \notin dirty /\ alloc'[u].block = alloc[u].block
          BY <1>5, <3>2, <4>2
        <5>. QED  BY <1>22, <5>2, <5>3
      <4>. QED  BY <4>1, <4>2
    <3>. QED  BY <3>1, <3>3, RoomClean
  <2>3. ASSUME NEW c \in list["partly_full"]
        PROVE  ({c} \X (G - summary[c].fragments .. G - 1)) \cap dirty' = {}
    <3>1. c # b
      BY <1>1, ListIs DEF Apart
    <3>2. ({c} \X (G - summary[c].fragments .. G - 1)) \cap N = {}
      BY <1>6, <3>1
    <3>. QED  BY <1>22, <3>2 DEF HeapInv, Clean
  <2>4. ASSUME NEW h \in AllHoles
        PROVE  Inside(h) \cap dirty' \subseteq {<<h.block, h.at>>}
    <3>1. h \in HoleSet
      BY <1>13, AllHolesIs
    <3>2. /\ h.at \in Nat /\ h.n \in Nat /\ Inside(h) = {h.block} \X (h.at .. h.at + h.n - 1)
          /\ h.block = b => h.at + h.n <= i
      BY <1>12, <1>13, AllHolesAre
    <3>3. \A g \in h.at .. h.at + h.n - 1 : <<h.block, g>> \notin N
      BY <1>2, <1>6, <3>2
    <3>4. Inside(h) \cap N = {}
      BY <3>2, <3>3
    <3>. QED  BY <1>22, <3>4 DEF HeapInv, Clean
  <2>. QED  BY <1>9, <1>13, <2>1, <2>2, <2>3, <2>4 DEF Clean, Granules
<1>19. dirty' \subseteq Locations /\ ends' \subseteq Locations
  <2>1. N \subseteq Locations /\ <<b, i + n - 1>> \in Locations
    BY <1>2, <1>3, GranulesAre DEF N
  <2>. QED  BY <1>22, <2>1 DEF HeapInv, MemoryTypes, N
<1>20. \A o : Unswept(o)' = Unswept(o)
  BY <1>5 DEF Unswept, Only, Mutators
<1>21. ~Unswept(new)
  <2>1. b \notin list["to_sweep"]
    BY <1>1, ListIs DEF Apart
  <2>2. \A m \in Mutators : alloc[m].block = b => m = t
    BY <1>1, <1>3 DEF Apart, Mutators
  <2>3. ~(e <= i)
    BY <1>2
  <2>. QED  BY <2>1, <2>2, <2>3 DEF Unswept, new
<1>. QED
  BY <1>3, <1>7, <1>8, <1>10, <1>11, <1>16, <1>17, <1>18, <1>19, <1>20, <1>21
     DEF new

\* A byte that is set to a mark.
LEMMA ByteSet ==
  ASSUME byte \in [Locations -> Marks], NEW o \in Locations, NEW v \in Marks \ {NONE},
         byte' = [byte EXCEPT ![o] = v]
  PROVE  /\ byte' \in [Locations -> Marks] /\ byte'[o] = v
         /\ \A x \in Locations : x # o => byte'[x] = byte[x]
         /\ Placed' = Placed \cup {o}
<1>1. /\ byte' \in [Locations -> Marks] /\ byte'[o] = v
      /\ \A x \in Locations : x # o => byte'[x] = byte[x]
  OBVIOUS
<1>. QED  BY <1>1 DEF Placed

LEMMA MarksAre ==
  /\ NONE \in Marks /\ {YOUNG, BUSY, FORWARDED} \subseteq Marks \ {NONE}
  /\ MARK_0 .. MARK_2 \subseteq Marks \ {NONE}
  /\ YOUNG \notin MARK_0 .. MARK_2 /\ BUSY \notin MARK_0 .. MARK_2
  /\ FORWARDED \notin MARK_0 .. MARK_2 /\ NONE \notin MARK_0 .. MARK_2
  /\ YOUNG # BUSY /\ FORWARDED # YOUNG /\ FORWARDED # BUSY
BY DEF Marks, NONE, YOUNG, BUSY, FORWARDED, MARK_0, MARK_2

LEMMA HeapRuns ==
  ASSUME HeapInv, NEW m \in Mutators, pc[m].at \notin {"nospace", "flushed"}
  PROVE  m \in Threads /\ m \notin Workers /\ phase \in {"run", "stopping"}
BY MutatorRuns DEF HeapInv, Mutators

LEMMA BumpHeap ==
  ASSUME HeapInv, NEW m \in Mutators, nofl_allocate_bump_pointer(m)
  PROVE  HeapInv'
<1>1. PICK b, i, e, n : /\ b = alloc[m].block /\ i = alloc[m].alloc /\ e = alloc[m].sweep
                        /\ n = pc[m].size
  OBVIOUS
<1>. DEFINE new == <<b, i>>
<1>2. /\ pc[m].at = "bump" /\ UNCHANGED <<list, holes, summary, zero, phase, collector>>
      /\ UNCHANGED <<candidate, marked, current_mark, survivor_mark, evacuating, reserve,
                     kind, count, allocated>>
      /\ pc' = [pc EXCEPT ![m] = Resting] /\ alloc' = [alloc EXCEPT ![m] = Room(alloc[m], i + n)]
      /\ byte' = [byte EXCEPT ![new] = YOUNG] /\ ends' = ends \cup {<<b, i + n - 1>>}
      /\ held' = held \cup {new} /\ dirty' = dirty \cup Inside(Hole(b, i, n))
  BY <1>1 DEF nofl_allocate_bump_pointer, Place, Rest, Room, flag_vars, space_vars, gc_vars
<1>3. IInv' /\ m \in Threads /\ m \notin Workers /\ phase \in {"run", "stopping"}
  BY <1>2, BumpIInv, HeapRuns DEF HeapInv
<1>4. /\ Registers(m) /\ Records /\ IsAllocator(alloc[m])
      /\ alloc[m].block \in Blocks \cup {NoBlock}
  BY <1>3, ThreadIs
<1>5. n \in 1 .. G /\ i + n <= e /\ i \in 0 .. G /\ e \in 0 .. G /\ (b = NoBlock => e = 0)
  BY <1>1, <1>2, <1>4, GranulesAre DEF Registers
<1>6. b \in Blocks /\ i \in 0 .. G - 1 /\ new \in Locations
  BY <1>1, <1>4, <1>5, GranulesAre
<1>7. /\ IsAllocator(Room(alloc[m], i + n))
      /\ Room(alloc[m], i + n).block \in Blocks \cup {NoBlock}
  BY <1>4, AllocatorWith
<1>8. Only(m) /\ pc'[m] = Resting /\ alloc'[m] = Room(alloc[m], i + n)
  BY <1>2, <1>3, <1>7, OnlyOne, RestingIs DEF HeapInv
<1>9. MemoryTypes
  BY DEF HeapInv
<1>10. /\ byte' \in [Locations -> Marks] /\ byte'[new] = YOUNG /\ Placed' = Placed \cup {new}
       /\ \A x \in Locations : x # new => byte'[x] = byte[x]
  BY <1>2, <1>6, <1>9, MarksAre, ByteSet DEF MemoryTypes
<1>11. /\ new \notin Placed /\ dirty' \subseteq Locations /\ ends' \subseteq Locations
       /\ (\A u \in Threads : Registers(u)') /\ Counts' /\ HolesApart' /\ HolesAside'
       /\ ObjectsApart' /\ SweptWhole' /\ Clean'
       /\ (\A o : Unswept(o)' = Unswept(o)) /\ ~Unswept(new)
  BY <1>1, <1>2, <1>3, <1>5, <1>8, <1>10, BumpPlaces
<1>12. MemoryTypes'
  BY <1>2, <1>6, <1>9, <1>10, <1>11 DEF MemoryTypes
<1>13. Bounded' /\ Threads' = Threads
  BY <1>2, <1>8, BoundedStays DEF HeapInv, Only
<1>14. ASSUME NEW o \in held'
       PROVE  \/ o \in held /\ byte'[o] = byte[o] /\ (Unswept(o)' => Unswept(o))
              \/ byte'[o] = YOUNG /\ ~Unswept(o)'
  <2>1. CASE o = new
    BY <1>10, <1>11, <2>1
  <2>2. CASE o # new
    BY <1>2, <1>9, <1>10, <1>11, <2>2 DEF MemoryTypes
  <2>. QED  BY <2>1, <2>2
<1>15. ASSUME NEW o \in Placed'
       PROVE  \/ byte'[o] = YOUNG
              \/ /\ o \in Placed /\ byte'[o] = byte[o]
                 /\ byte[o] = current_mark \/ (Unswept(o) => Unswept(o)')
  <2>1. CASE o = new
    BY <1>10, <2>1
  <2>2. CASE o # new
    BY <1>10, <1>11, <2>2 DEF Placed
  <2>. QED  BY <2>1, <2>2
<1>16. HeldMarked' /\ Busy' /\ Fresh'
  BY <1>2, <1>3, <1>12, <1>14, <1>15, MarksStay DEF MemoryTypes
<1>. QED  BY <1>3, <1>11, <1>12, <1>13, <1>16 DEF HeapInv

--------------------------------------------------------------------------------
\* Second-chance holes.

\* What is left of a hole after n granules.
Tail(h, n) == IF h.n > n THEN {Hole(h.block, h.at + n, h.n - n)} ELSE {}

LEMMA TailIs ==
  ASSUME NEW h \in HoleSet, NEW n \in 1 .. G, n <= h.n
  PROVE  /\ Tail(h, n) \subseteq HoleSet
         /\ \A k \in Tail(h, n) :
              /\ k.block = h.block /\ k.at = h.at + n /\ k.n = h.n - n
              /\ k # h /\ Inside(k) \subseteq Inside(h)
              /\ Inside(k) \cap ({h.block} \X (h.at .. h.at + n - 1)) = {}
         /\ {h.block} \X (h.at .. h.at + n - 1) \subseteq Inside(h)
<1>1. /\ h.block \in Blocks /\ h.at \in 0 .. G - 1 /\ h.n \in 1 .. G /\ h.at + h.n <= G
      /\ Inside(h) = {h.block} \X (h.at .. h.at + h.n - 1) /\ G \in Nat
  BY HoleIs, GranulesAre
<1>2. {h.block} \X (h.at .. h.at + n - 1) \subseteq Inside(h)
  BY <1>1
<1>3. CASE h.n > n
  <2>. DEFINE i == h.at + n
              j == h.n - n
              k == Hole(h.block, i, j)
  <2>1. i \in 0 .. G - 1 /\ j \in 1 .. G /\ i + j <= G /\ i + j = h.at + h.n
    BY <1>1, <1>3
  <2>2. Tail(h, n) = {k}
    BY <1>3 DEF Tail
  <2>. HIDE DEF i, j
  <2>3. k \in HoleSet /\ k.block = h.block /\ k.at = i /\ k.n = j
        /\ Inside(k) = {h.block} \X (i .. i + j - 1)
    <3>1. i \in Nat /\ j \in Nat
      BY <1>1, <2>1
    <3>2. k \in HoleSet
      BY <1>1, <2>1, HoleSetHas
    <3>3. k.block = h.block /\ k.at = i /\ k.n = j
      BY DEF Hole
    <3>. HIDE DEF k
    <3>4. Inside(k) = {h.block} \X (i .. i + j - 1)
      BY <3>3 DEF Inside
    <3>. QED  BY <3>2, <3>3, <3>4
  <2>. HIDE DEF k
  <2>4. i # h.at
    BY <1>1 DEF i
  <2>5. i .. i + j - 1 \subseteq h.at .. h.at + h.n - 1
        /\ \A x \in i .. i + j - 1 : x \notin h.at .. h.at + n - 1
    BY <1>1, <2>1 DEF i
  <2>6. Inside(k) \subseteq Inside(h) /\ Inside(k) \cap ({h.block} \X (h.at .. h.at + n - 1)) = {}
    BY <1>1, <2>3, <2>5
  <2>7. k # h
    BY <2>3, <2>4
  <2>. QED  BY <1>2, <2>2, <2>3, <2>6, <2>7 DEF i, j
<1>4. CASE ~(h.n > n)
  BY <1>2, <1>4 DEF Tail
<1>. QED  BY <1>3, <1>4

\* A thread has taken the holes cs of a chain, or none, and hole h out of them.
Takes2(m, cs, h, n) ==
  /\ cs \in holes \cup {{}} /\ h \in alloc[m].holes \cup cs /\ n <= h.n
  /\ alloc' = [alloc EXCEPT ![m].holes = ((alloc[m].holes \cup cs) \ {h}) \cup Tail(h, n)]
  /\ holes' = holes \ {cs}
  /\ byte' = [byte EXCEPT ![<<h.block, h.at>>] = YOUNG]
  /\ ends' = ends \cup {<<h.block, h.at + n - 1>>}
  /\ held' = held \cup {<<h.block, h.at>>}
  /\ dirty' = dirty \cup Inside(Hole(h.block, h.at, n)) \cup Links(Tail(h, n))
  /\ pc' = [pc EXCEPT ![m] = Resting]
  /\ UNCHANGED <<flag_vars, list, space_vars, gc_vars, allocated>>

LEMMA SecondChanceIs ==
  ASSUME HeapInv, NEW m \in Mutators, SecondChance(m),
         ~(Goto(m, "sweep") /\ UNCHANGED <<memory_vars, holes, alloc, held>>)
  PROVE  \E cs, h : Takes2(m, cs, h, pc[m].size)
<1>1. PICK n : n = pc[m].size
  OBVIOUS
<1>. DEFINE local == alloc[m].holes
            from == IF BestFit(local, n) # {} THEN {local}
                    ELSE {local \cup c : c \in
                            {x \in holes : BestFit(UNION holes, n) \cap x # {}}}
<1>2. PICK hs \in from : \E h \in BestFit(hs, n) :
        /\ Place(<<h.block, h.at>>, n)
        /\ dirty' = dirty \cup Inside(Hole(h.block, h.at, n)) \cup Links(Tail(h, n))
        /\ alloc' = [alloc EXCEPT ![m].holes = (hs \ {h}) \cup Tail(h, n)]
        /\ holes' = {c \in holes : ~(c \subseteq hs)}
        /\ Rest(m) /\ UNCHANGED <<flag_vars, list, space_vars, gc_vars, allocated>>
  <2>1. /\ \/ /\ from = {} /\ Goto(m, "sweep")
              /\ UNCHANGED <<memory_vars, holes, alloc, held>>
           \/ \E hs \in from : \E h \in BestFit(hs, n) :
                /\ Place(<<h.block, h.at>>, n)
                /\ dirty' = dirty \cup Inside(Hole(h.block, h.at, n)) \cup Links(Tail(h, n))
                /\ alloc' = [alloc EXCEPT ![m].holes = (hs \ {h}) \cup Tail(h, n)]
                /\ holes' = {c \in holes : ~(c \subseteq hs)}
                /\ Rest(m)
        /\ UNCHANGED <<flag_vars, list, space_vars, gc_vars, allocated>>
    <3>. HIDE DEF Place, Goto, Rest, BestFit, Links
    <3>. QED  BY ONLY SecondChance(m), <1>1 DEF SecondChance, Tail, from, local
  <2>. HIDE DEF from
  <2>. QED  BY <2>1
<1>3. PICK h \in BestFit(hs, n) :
        /\ Place(<<h.block, h.at>>, n)
        /\ dirty' = dirty \cup Inside(Hole(h.block, h.at, n)) \cup Links(Tail(h, n))
        /\ alloc' = [alloc EXCEPT ![m].holes = (hs \ {h}) \cup Tail(h, n)]
        /\ holes' = {c \in holes : ~(c \subseteq hs)}
        /\ Rest(m) /\ UNCHANGED <<flag_vars, list, space_vars, gc_vars, allocated>>
  BY <1>2
<1>4. h \in hs /\ n <= h.n
  <2>1. h \in hs /\ h.n >= n
    BY DEF BestFit
  <2>. QED  BY <2>1
<1>5. /\ \A c \in holes : c # {} /\ c \cap local = {}
      /\ \A c, d \in holes : c # d => c \cap d = {}
  BY DEF HeapInv, HolesApart, Mutators
<1>6. PICK cs \in holes \cup {{}} : hs = local \cup cs
  <2>1. hs = local \/ \E c \in holes : hs = local \cup c
    BY <1>2
  <2>2. hs = local => hs = local \cup {}
    OBVIOUS
  <2>. QED  BY <2>1, <2>2
<1>. HIDE DEF from
<1>7. {c \in holes : ~(c \subseteq hs)} = holes \ {cs}
  <2>1. ASSUME NEW c \in holes
        PROVE  c \subseteq hs <=> c = cs
    <3>1. CASE c = cs
      BY <1>6, <3>1
    <3>2. CASE c # cs
      <4>1. c # {} /\ c \cap local = {} /\ c \cap cs = {}
        BY <1>5, <1>6, <3>2
      <4>. QED  BY <1>6, <3>2, <4>1
    <3>. QED  BY <3>1, <3>2
  <2>. QED  BY <2>1
<1>8. Takes2(m, cs, h, n)
  BY <1>3, <1>4, <1>6, <1>7 DEF Takes2, Place, Rest
<1>. QED  BY <1>1, <1>8

\* Holes of one thread, or chain, are nobody else's; a tail is a new hole.
LEMMA TakenHoles ==
  ASSUME HeapInv, NEW m \in Threads, NEW cs \in holes \cup {{}},
         NEW h \in alloc[m].holes \cup cs, NEW n \in 1 .. G, n <= h.n,
         Threads' = Threads, holes' = holes \ {cs},
         alloc'[m].holes = ((alloc[m].holes \cup cs) \ {h}) \cup Tail(h, n),
         \A u \in Threads : u # m => alloc'[u].holes = alloc[u].holes
  PROVE  /\ h \in AllHoles /\ AllHoles' = (AllHoles \ {h}) \cup Tail(h, n)
         /\ Tail(h, n) \cap AllHoles = {}
         /\ \A x, y \in AllHoles' : x # y => Inside(x) \cap Inside(y) = {}
         /\ \A t, u \in Threads : t # u => alloc'[t].holes \cap alloc'[u].holes = {}
         /\ \A c \in holes', t \in Threads : c \cap alloc'[t].holes = {}
<1>1. Typed /\ HolesApart
  BY HeapTyped DEF HeapInv
<1>2. \A x : x \in AllHoles <=> \/ \E c \in holes : x \in c
                                \/ \E t \in Threads : x \in alloc[t].holes
  BY <1>1, AllHolesIs
<1>3. \A x : x \in AllHoles' <=> \/ \E c \in holes' : x \in c
                                 \/ \E t \in Threads : x \in alloc'[t].holes
  BY DEF AllHoles
<1>4. h \in AllHoles /\ h \in HoleSet
  BY <1>1, <1>2, AllHolesAre
<1>5. \A k \in Tail(h, n) : k \in HoleSet /\ k # h /\ Inside(k) \subseteq Inside(h)
  BY <1>4, TailIs
<1>6. \A k \in HoleSet : Inside(k) # {}
  BY HoleIs
<1>7. Tail(h, n) \cap AllHoles = {}
  <2>1. ASSUME NEW k \in Tail(h, n), k \in AllHoles
        PROVE  FALSE
    <3>1. Inside(k) \cap Inside(h) = {}
      BY <1>1, <1>4, <1>5, <2>1 DEF HolesApart
    <3>. QED  BY <1>5, <1>6, <3>1
  <2>. QED  BY <2>1
<1>8. \A c \in holes : c \in holes' \/ c = cs
  OBVIOUS
<1>9. /\ \A c \in holes' : h \notin c
      /\ \A u \in Threads : u # m => h \notin alloc[u].holes
  BY <1>1 DEF HolesApart
<1>10. ASSUME NEW x
       PROVE  x \in AllHoles' <=> x \in (AllHoles \ {h}) \cup Tail(h, n)
  <2>1. CASE x \in Tail(h, n)
    BY <1>3, <2>1
  <2>2. CASE x = h
    <3>1. h \notin Tail(h, n)
      BY <1>5
    <3>2. \A u \in Threads : h \notin alloc'[u].holes
      BY <1>9, <3>1
    <3>. QED  BY <1>3, <1>9, <2>2, <3>1, <3>2
  <2>3. CASE x # h /\ x \notin Tail(h, n)
    <3>1. x \in AllHoles' => x \in AllHoles
      BY <1>2, <1>3, <2>3
    <3>2. ASSUME x \in AllHoles
          PROVE  x \in AllHoles'
      <4>1. CASE \E c \in holes : x \in c
        <5>1. PICK c \in holes : x \in c
          BY <4>1
        <5>2. CASE c = cs
          BY <1>3, <2>3, <5>1, <5>2
        <5>3. CASE c # cs
          BY <1>3, <5>1, <5>3
        <5>. QED  BY <5>2, <5>3
      <4>2. CASE \E t \in Threads : x \in alloc[t].holes
        BY <1>3, <2>3, <4>2
      <4>. QED  BY <1>2, <3>2, <4>1, <4>2
    <3>. QED  BY <2>3, <3>1, <3>2
  <2>. QED  BY <2>1, <2>2, <2>3
<1>11. AllHoles' = (AllHoles \ {h}) \cup Tail(h, n)
  BY <1>10
<1>12. ASSUME NEW x \in AllHoles', NEW y \in AllHoles', x # y
       PROVE  Inside(x) \cap Inside(y) = {}
  <2>1. \A k, l \in Tail(h, n) : k = l
    BY DEF Tail
  <2>2. CASE x \in Tail(h, n)
    <3>1. y \in AllHoles /\ y # h
      BY <1>11, <1>12, <2>1, <2>2
    <3>2. Inside(h) \cap Inside(y) = {}
      BY <1>1, <1>4, <3>1 DEF HolesApart
    <3>. QED  BY <1>5, <2>2, <3>2
  <2>3. CASE y \in Tail(h, n)
    <3>1. x \in AllHoles /\ x # h
      BY <1>11, <1>12, <2>1, <2>3
    <3>2. Inside(h) \cap Inside(x) = {}
      BY <1>1, <1>4, <3>1 DEF HolesApart
    <3>. QED  BY <1>5, <2>3, <3>2
  <2>4. CASE x \in AllHoles /\ y \in AllHoles
    BY <1>1, <1>12, <2>4 DEF HolesApart
  <2>. QED  BY <1>11, <2>2, <2>3, <2>4
<1>13. \A u \in Threads : alloc[u].holes \subseteq AllHoles
  BY <1>2
<1>14. \A c \in holes : c \subseteq AllHoles
  BY <1>2
<1>15. \A t, u \in Threads : t # u => alloc'[t].holes \cap alloc'[u].holes = {}
  <2>1. ASSUME NEW u \in Threads, u # m
        PROVE  alloc'[m].holes \cap alloc[u].holes = {}
    BY <1>1, <1>7, <1>13, <2>1 DEF HolesApart
  <2>. QED  BY <1>1, <2>1 DEF HolesApart
<1>16. \A c \in holes', t \in Threads : c \cap alloc'[t].holes = {}
  <2>1. ASSUME NEW c \in holes', NEW t \in Threads
        PROVE  c \cap alloc'[t].holes = {}
    <3>1. c \in holes /\ c # cs /\ c \cap alloc[t].holes = {} /\ c \cap alloc[m].holes = {}
      BY <1>1 DEF HolesApart
    <3>2. c \cap cs = {}
      BY <1>1, <3>1 DEF HolesApart
    <3>. QED  BY <1>7, <1>14, <3>1, <3>2
  <2>. QED  BY <2>1
<1>. QED  BY <1>4, <1>7, <1>11, <1>12, <1>15, <1>16

LEMMA SecondHeap ==
  ASSUME HeapInv, NEW m \in Mutators, pc[m].at = "second", IInv', NEW cs, NEW h, NEW n,
         NEW b, NEW i, b = h.block, i = h.at, n = pc[m].size, Takes2(m, cs, h, n)
  PROVE  HeapInv'
<1>. DEFINE new == <<b, i>>
            N == {b} \X (i .. i + n - 1)
            a == Having(alloc[m], ((alloc[m].holes \cup cs) \ {h}) \cup Tail(h, n))
<1>1. /\ UNCHANGED <<list, summary, zero, phase, collector>>
      /\ UNCHANGED <<candidate, marked, current_mark, survivor_mark, evacuating, reserve,
                     kind, count, allocated>>
      /\ pc' = [pc EXCEPT ![m] = Resting] /\ alloc' = [alloc EXCEPT ![m] = a]
      /\ byte' = [byte EXCEPT ![new] = YOUNG] /\ ends' = ends \cup {<<b, i + n - 1>>}
      /\ held' = held \cup {new} /\ holes' = holes \ {cs}
      /\ dirty' = dirty \cup Inside(Hole(b, i, n)) \cup Links(Tail(h, n))
      /\ cs \in holes \cup {{}} /\ h \in alloc[m].holes \cup cs /\ n <= h.n
  BY DEF Takes2, Having, flag_vars, space_vars, gc_vars
<1>2. m \in Threads /\ m \notin Workers /\ phase \in {"run", "stopping"}
  BY HeapRuns
<1>3. /\ Registers(m) /\ Records /\ IsAllocator(alloc[m]) /\ Apart /\ NoBlock \notin Blocks
      /\ alloc[m].block \in Blocks \cup {NoBlock} /\ MutatorInv(m)
  BY <1>2, ThreadIs DEF HeapInv, IInv
<1>4. n \in 1 .. G /\ alloc[m].block = NoBlock /\ m # collector
  BY <1>3, GranulesAre DEF Registers, MutatorInv
<1>5. /\ IsAllocator(a) /\ a.block = NoBlock /\ a.alloc = alloc[m].alloc
      /\ a.sweep = alloc[m].sweep /\ a.holes = ((alloc[m].holes \cup cs) \ {h}) \cup Tail(h, n)
  BY <1>3, <1>4, AllocatorWith, AllocatorFields
<1>. HIDE DEF a
<1>6. Only(m) /\ pc'[m] = Resting /\ alloc'[m] = a
  BY <1>1, <1>2, <1>5, OnlyOne, RestingIs DEF HeapInv
<1>7. \A u \in Threads : /\ alloc'[u].block = alloc[u].block /\ alloc'[u].sweep = alloc[u].sweep
                         /\ alloc'[u].alloc = alloc[u].alloc
                         /\ u # m => alloc'[u] = alloc[u]
  BY <1>4, <1>5, <1>6 DEF Only
<1>8. Typed /\ MemoryTypes /\ Threads' = Threads /\ Mutators' = Mutators
  BY <1>6, HeapTyped DEF HeapInv, Only
<1>9. /\ h \in AllHoles /\ AllHoles' = (AllHoles \ {h}) \cup Tail(h, n)
      /\ \A x, y \in AllHoles' : x # y => Inside(x) \cap Inside(y) = {}
      /\ \A t, u \in Threads : t # u => alloc'[t].holes \cap alloc'[u].holes = {}
      /\ \A c \in holes', t \in Threads : c \cap alloc'[t].holes = {}
  BY <1>1, <1>2, <1>4, <1>5, <1>6, <1>8, TakenHoles DEF Only
<1>10. /\ h \in HoleSet /\ b \in Blocks /\ i \in 0 .. G - 1 /\ h.n \in 1 .. G /\ i + h.n <= G
       /\ Inside(h) = {b} \X (i .. i + h.n - 1) /\ new \in Locations /\ i + n <= G
       /\ G \in Nat /\ new \in Inside(h)
  <2>1. h \in HoleSet
    BY <1>8, <1>9, AllHolesIs
  <2>2. /\ b \in Blocks /\ i \in 0 .. G - 1 /\ h.n \in 1 .. G /\ i + h.n <= G
        /\ Inside(h) = {b} \X (i .. i + h.n - 1) /\ new \in Inside(h)
    BY <2>1, HoleIs
  <2>. QED  BY <1>1, <1>4, <2>1, <2>2, GranulesAre
<1>11. /\ Tail(h, n) \subseteq HoleSet /\ N \subseteq Inside(h)
       /\ \A k \in Tail(h, n) : /\ k.block = b /\ k.at = i + n /\ k.n = h.n - n
                                /\ Inside(k) \subseteq Inside(h) /\ Inside(k) \cap N = {}
  BY <1>1, <1>4, <1>10, TailIs
<1>12. Inside(Hole(b, i, n)) = N /\ \A c, x : <<c, x>> \in N <=> c = b /\ x \in i .. i + n - 1
  <2>1. i \in Nat /\ n \in Nat
    BY <1>4, <1>10
  <2>. QED  BY <2>1, InsideIs
<1>13. dirty' \subseteq dirty \cup Inside(h) /\ new \in N
  <2>1. Links(Tail(h, n)) \subseteq Inside(h)
    <3>1. \A k \in Tail(h, n) : <<k.block, k.at>> \in Inside(k)
      BY <1>11, HoleIs
    <3>. QED  BY <1>11, <3>1 DEF Links
  <2>2. new \in N
    BY <1>4, <1>10, <1>12
  <2>. QED  BY <1>1, <1>11, <1>12, <2>1, <2>2
<1>. HIDE DEF N, new
<1>14. \A k \in AllHoles : k # h => Inside(k) \cap Inside(h) = {}
  BY <1>9 DEF HeapInv, HolesApart
<1>15. /\ b \notin Vacant \cup list["partly_full"] /\ b \notin list["to_sweep"]
       /\ \A t \in Threads : b = alloc[t].block =>
            t \notin Workers /\ summary[b].pieces > 0 /\ i + h.n <= alloc[t].alloc
  BY <1>2, <1>9 DEF HeapInv, HolesAside
<1>16. \A u \in Threads : Registers(u)'
  <2>1. Registers(m)'
    <3>1. Resting.at = "idle" /\ Resting.size = 0 /\ Resting.swept = 0
          /\ Resting.obj = <<NoBlock, 0>>
      BY RestingIs, RestingObj
    <3>2. a.holes \subseteq HoleSet
      <4>1. cs \subseteq HoleSet
        BY <1>1 DEF HeapInv, HolesApart
      <4>. QED  BY <1>3, <1>5, <1>11, <4>1 DEF Registers
    <3>. QED  BY <1>2, <1>3, <1>4, <1>5, <1>6, <3>1, <3>2, GranulesAre DEF Registers, Labels
  <2>2. ASSUME NEW u \in Threads, u # m
        PROVE  Registers(u)'
    BY <1>6, <2>2 DEF HeapInv, Registers, Only
  <2>. QED  BY <2>1, <2>2
<1>17. Counts'
  <2>1. ASSUME NEW u \in Mutators
        PROVE  pc'[u].swept + Cardinality(list["to_sweep"]) <= Cardinality(Blocks)
    <3>1. pc[u].swept + Cardinality(list["to_sweep"]) <= Cardinality(Blocks)
      BY DEF HeapInv, Counts
    <3>2. pc'[u].swept \in {0, pc[u].swept}
      BY <1>6, RestingObj DEF Only, Mutators
    <3>. QED  BY <3>1, <3>2, SweepCount
  <2>. QED  BY <1>1, <1>7, <1>8, <2>1 DEF HeapInv, Counts
<1>18. HolesApart'
  <2>1. \A c \in holes' : c \subseteq HoleSet /\ c # {}
    BY <1>1 DEF HeapInv, HolesApart
  <2>2. \A c, d \in holes' : c # d => c \cap d = {}
    BY <1>1 DEF HeapInv, HolesApart
  <2>3. \A u \in Mutators : pc'[u].at = "flushed" \/ u = collector => alloc'[u].holes = {}
    <3>1. \A u \in Mutators : pc[u].at = "flushed" \/ u = collector => alloc[u].holes = {}
      BY DEF HeapInv, HolesApart
    <3>. QED  BY <1>4, <1>6, <3>1, RestingIs DEF Only, Mutators
  <2>. QED  BY <1>1, <1>8, <1>9, <2>1, <2>2, <2>3 DEF HolesApart
<1>19. HolesAside'
  <2>1. ASSUME NEW k \in AllHoles'
        PROVE  /\ k.block \notin Vacant \cup list["partly_full"] /\ k.block \notin list["to_sweep"]
               /\ \A t \in Threads : k.block = alloc[t].block =>
                    t \notin Workers /\ summary[k.block].pieces > 0 /\ k.at + k.n <= alloc[t].alloc
    <3>1. CASE k \in AllHoles
      BY <1>2, <3>1 DEF HeapInv, HolesAside
    <3>2. CASE k \in Tail(h, n)
      <4>1. k.at + k.n = i + h.n
        BY <1>4, <1>10, <1>11, <3>2
      <4>. QED  BY <1>11, <1>15, <3>2, <4>1
    <3>. QED  BY <1>9, <3>1, <3>2
  <2>2. Vacant' = Vacant
    BY <1>1 DEF Vacant
  <2>. QED  BY <1>1, <1>7, <1>8, <2>1, <2>2 DEF HolesAside
<1>20. Typed'
  BY <1>16, <1>17, <1>18, <1>8, TypedNext
<1>21. N \subseteq Free
  <2>1. FreeFacts
    BY <1>8, FreeIs
  <2>2. \A g \in i .. i + n - 1 : g \in 0 .. G - 1 /\ g \in i .. i + h.n - 1
    BY <1>1, <1>4, <1>10
  <2>3. \A g \in i .. i + n - 1 : InHole(b, g)
    BY <1>9, <2>2 DEF InHole
  <2>4. \A g \in i .. i + n - 1 : <<b, g>> \in Free
    BY <1>10, <2>1, <2>2, <2>3 DEF FreeFacts
  <2>. QED  BY <2>4 DEF N
<1>22. Free' \subseteq Free \ N
  <2>1. ASSUME NEW c \in Blocks, NEW g \in 0 .. G - 1,
               InHole(c, g)' \/ InRoom(c, g)' \/ InTail(c, g)' \/ c \in Vacant'
        PROVE  /\ InHole(c, g) \/ InRoom(c, g) \/ InTail(c, g) \/ c \in Vacant
               /\ <<c, g>> \notin N
    <3>1. CASE InHole(c, g)'
      <4>1. PICK k \in AllHoles' : k.block = c /\ g \in k.at .. k.at + k.n - 1
        BY <3>1 DEF InHole
      <4>2. CASE k \in AllHoles /\ k # h
        <5>1. <<c, g>> \in Inside(k)
          BY <1>8, <4>1, <4>2, AllHolesAre
        <5>2. <<c, g>> \notin N
          BY <1>11, <1>14, <4>2, <5>1
        <5>. QED  BY <4>1, <4>2, <5>2 DEF InHole
      <4>3. CASE k \in Tail(h, n)
        <5>1. <<c, g>> \in Inside(k)
          BY <1>11, <4>1, <4>3, HoleIs
        <5>2. <<c, g>> \in Inside(h) /\ <<c, g>> \notin N
          BY <1>11, <4>3, <5>1
        <5>3. c = b /\ g \in i .. i + h.n - 1
          BY <1>10, <5>2
        <5>4. InHole(c, g)
          BY <1>9, <5>3 DEF InHole
        <5>. QED  BY <5>2, <5>4
      <4>. QED  BY <1>9, <4>1, <4>2, <4>3
    <3>2. CASE InRoom(c, g)'
      <4>1. PICK u \in Threads : alloc[u].block = c /\ g \in alloc[u].alloc .. alloc[u].sweep - 1
        BY <1>7, <1>8, <3>2 DEF InRoom
      <4>2. <<c, g>> \notin N
        <5>1. c = b => i + h.n <= alloc[u].alloc
          BY <1>15, <4>1
        <5>2. alloc[u].alloc \in Int
          BY DEF Registers, HeapInv
        <5>. QED  BY <1>1, <1>4, <1>10, <1>12, <4>1, <5>1, <5>2
      <4>. QED  BY <4>1, <4>2 DEF InRoom
    <3>3. CASE InTail(c, g)' \/ c \in Vacant'
      <4>1. InTail(c, g) \/ c \in Vacant
        BY <1>1, <3>3 DEF InTail, Vacant
      <4>2. c # b
        BY <1>15, <4>1 DEF InTail
      <4>. QED  BY <1>12, <4>1, <4>2
    <3>. QED  BY <2>1, <3>1, <3>2, <3>3
  <2>2. Free' \subseteq Free \cup {}
    BY <1>8, <1>20, <2>1, FreeWithin
  <2>3. FreeFacts'
    BY <1>20, FreeIsNext
  <2>4. \A x \in Free' : x \notin N
    BY <2>1, <2>3, GranulesAre DEF FreeFacts
  <2>. QED  BY <2>2, <2>4
<1>23. /\ byte' \in [Locations -> Marks] /\ byte'[new] = YOUNG /\ Placed' = Placed \cup {new}
       /\ \A x \in Locations : x # new => byte'[x] = byte[x]
  BY <1>1, <1>8, <1>10, MarksAre, ByteSet DEF MemoryTypes, new
<1>24. /\ new \notin Placed /\ Extent(new)' = N
       /\ \A o \in Placed : Extent(o)' = Extent(o) /\ Extent(o) \cap N = {}
       /\ ObjectsApart'
  <2>1. ObjectsApart
    BY DEF HeapInv
  <2>2. ends' = ends \cup {<<b, i + n - 1>>} /\ Placed' = Placed \cup {<<b, i>>}
    BY <1>1, <1>23 DEF new
  <2>. QED  BY <1>4, <1>10, <1>21, <1>22, <2>1, <2>2, PlacedOne DEF N, new
<1>25. SweptWhole'
  <2>1. ASSUME NEW u \in Threads, alloc[u].block # NoBlock, NEW o \in Placed',
               o[1] = alloc[u].block, o[2] < alloc[u].sweep
        PROVE  Extent(o)' \subseteq {o[1]} \X (0 .. alloc[u].sweep - 1)
    <3>1. CASE o \in Placed
      BY <1>24, <2>1, <3>1 DEF HeapInv, SweptWhole
    <3>2. CASE o = new
      <4>1. o[1] = b /\ Extent(o)' = N
        BY <1>24, <3>2 DEF new
      <4>2. i + h.n <= alloc[u].alloc /\ Registers(u)
        BY <1>15, <2>1, <4>1 DEF HeapInv
      <4>3. i .. i + n - 1 \subseteq 0 .. alloc[u].sweep - 1
        BY <1>1, <1>4, <1>10, <4>2 DEF Registers
      <4>. QED  BY <4>1, <4>3 DEF N
    <3>. QED  BY <1>23, <3>1, <3>2
  <2>. QED  BY <1>7, <1>8, <2>1 DEF SweptWhole
<1>26. Clean'
  <2>1. zero' \subseteq Vacant' /\ (zero' \X Granules) \cap dirty' = {}
    <3>1. zero \subseteq Vacant /\ (zero \X Granules) \cap dirty = {}
      BY DEF HeapInv, Clean
    <3>2. (zero \X Granules) \cap Inside(h) = {}
      BY <1>10, <1>15, <3>1
    <3>. QED  BY <1>1, <1>13, <3>1, <3>2 DEF Vacant
  <2>2. ASSUME NEW u \in Threads
        PROVE  \A k \in Leftover(alloc'[u]) : Inside(k) \cap dirty' = {}
    <3>1. /\ alloc'[u].alloc \in 0 .. G /\ alloc'[u].sweep \in alloc'[u].alloc .. G
          /\ alloc[u].alloc \in 0 .. G /\ alloc[u].sweep \in alloc[u].alloc .. G
      BY <1>16 DEF HeapInv, Registers
    <3>2. \A g \in alloc[u].alloc .. alloc[u].sweep - 1 : <<alloc[u].block, g>> \notin dirty
      BY <3>1, RoomClean DEF HeapInv, Clean
    <3>3. \A g \in alloc[u].alloc .. alloc[u].sweep - 1 : <<alloc[u].block, g>> \notin Inside(h)
      BY <1>10, <1>15, <3>1
    <3>. QED  BY <1>7, <1>13, <3>1, <3>2, <3>3, RoomClean
  <2>3. ASSUME NEW c \in list["partly_full"]
        PROVE  ({c} \X (G - summary[c].fragments .. G - 1)) \cap dirty' = {}
    <3>1. ({c} \X (G - summary[c].fragments .. G - 1)) \cap Inside(h) = {}
      BY <1>10, <1>15
    <3>. QED  BY <1>13, <3>1 DEF HeapInv, Clean
  <2>4. ASSUME NEW k \in AllHoles'
        PROVE  Inside(k) \cap dirty' \subseteq {<<k.block, k.at>>}
    <3>1. CASE k \in AllHoles /\ k # h
      BY <1>13, <1>14, <3>1 DEF HeapInv, Clean
    <3>2. CASE k \in Tail(h, n)
      <4>1. /\ Inside(k) \subseteq Inside(h) /\ Inside(k) \cap N = {}
            /\ k.block = b /\ k.at = i + n /\ k \in HoleSet
        BY <1>11, <3>2
      <4>2. Inside(h) \cap dirty \subseteq {new}
        BY <1>9 DEF HeapInv, Clean, new
      <4>3. Links(Tail(h, n)) \subseteq {<<k.block, k.at>>}
        BY <1>11, <4>1 DEF Links
      <4>4. dirty' = dirty \cup N \cup Links(Tail(h, n))
        BY <1>1, <1>12
      <4>. QED  BY <1>13, <4>1, <4>2, <4>3, <4>4
    <3>. QED  BY <1>9, <3>1, <3>2
  <2>. QED  BY <1>1, <1>8, <2>1, <2>2, <2>3, <2>4 DEF Clean, Granules
<1>27. MemoryTypes'
  <2>1. Inside(h) \subseteq Locations
    BY <1>10, HoleIs
  <2>2. <<b, i + n - 1>> \in N
    BY <1>4, <1>10, <1>12
  <2>3. ends' = ends \cup {<<b, i + n - 1>>} /\ held' = held \cup {new}
    BY <1>1 DEF new
  <2>. QED  BY <1>1, <1>8, <1>11, <1>13, <1>23, <2>1, <2>2, <2>3 DEF MemoryTypes
<1>28. Bounded'
  BY <1>1, <1>8, BoundedStays DEF HeapInv
<1>29. (\A o : Unswept(o)' = Unswept(o)) /\ ~Unswept(new)
  <2>1. \A o : Unswept(o)' = Unswept(o)
    BY <1>1, <1>7, <1>8 DEF Unswept, Mutators
  <2>2. \A u \in Threads : alloc[u].block = b => ~(alloc[u].sweep <= i)
    <3>1. \A u \in Threads : alloc[u].alloc \in Int /\ alloc[u].sweep \in Int
                             /\ alloc[u].alloc <= alloc[u].sweep
      BY GranulesAre DEF HeapInv, Registers
    <3>. QED  BY <1>10, <1>15, <3>1
  <2>. QED  BY <1>15, <2>1, <2>2 DEF Unswept, new, Mutators
<1>30. HeldMarked' /\ Busy' /\ Fresh'
  <2>1. held' = held \cup {new} /\ held \subseteq Locations
    BY <1>1, <1>8 DEF MemoryTypes, new
  <2>2. ASSUME NEW o \in held'
        PROVE  \/ o \in held /\ byte'[o] = byte[o] /\ (Unswept(o)' => Unswept(o))
               \/ byte'[o] = YOUNG /\ ~Unswept(o)'
    <3>1. CASE o = new
      BY <1>23, <1>29, <3>1
    <3>2. CASE o # new
      BY <1>23, <1>29, <2>1, <3>2
    <3>. QED  BY <3>1, <3>2
  <2>3. ASSUME NEW o \in Placed'
        PROVE  \/ byte'[o] = YOUNG
               \/ /\ o \in Placed /\ byte'[o] = byte[o]
                  /\ byte[o] = current_mark \/ (Unswept(o) => Unswept(o)')
    <3>1. CASE o = new
      BY <1>23, <3>1
    <3>2. CASE o # new
      BY <1>23, <1>29, <3>2 DEF Placed
    <3>. QED  BY <3>1, <3>2
  <2>4. held' \subseteq Locations
    BY <1>27 DEF MemoryTypes
  <2>. QED  BY <1>1, <1>2, <2>2, <2>3, <2>4, MarksStay
<1>. QED
  BY <1>8, <1>16, <1>17, <1>18, <1>19, <1>24, <1>25, <1>26, <1>27, <1>28, <1>30 DEF HeapInv

LEMMA SecondChanceHeap ==
  ASSUME HeapInv, NEW m \in Mutators, SecondChance(m)
  PROVE  HeapInv'
<1>1. CASE Goto(m, "sweep") /\ UNCHANGED <<memory_vars, holes, alloc, held>>
  BY <1>1, SecondGoesOn
<1>2. CASE ~(Goto(m, "sweep") /\ UNCHANGED <<memory_vars, holes, alloc, held>>)
  <2>1. PICK cs, h : Takes2(m, cs, h, pc[m].size)
    BY <1>2, SecondChanceIs
  <2>2. PICK n, b, i : n = pc[m].size /\ b = h.block /\ i = h.at
    OBVIOUS
  <2>3. IInv' /\ pc[m].at = "second"
    BY SecondChanceIInv DEF HeapInv, SecondChance
  <2>. QED  BY <2>1, <2>2, <2>3, SecondHeap
<1>. QED  BY <1>1, <1>2

--------------------------------------------------------------------------------
\* The holes of a block.

\* The granules of block b, from g on, that no object with the mark has.
FreeIn(b, g, mark) ==
  {h \in g .. G - 1 : <<b, h>> \notin
     UNION {Extent(o) : o \in {x \in {b} \X Granules : byte[x] = mark}}}

\* A run of granules in S that does not go on.
Run(S, i, n) == i .. i + n - 1 \subseteq S /\ i - 1 \notin S /\ i + n \notin S

LEMMA HolesInIs ==
  ASSUME NEW b, NEW g, NEW mark
  PROVE  HolesIn(b, g, mark) =
           {Hole(b, r[1], r[2]) : r \in {x \in FreeIn(b, g, mark) \X (1 .. G) :
                                           Run(FreeIn(b, g, mark), x[1], x[2])}}
BY DEF HolesIn, FreeIn, Run

LEMMA RunHas ==
  ASSUME NEW g \in 0 .. G, NEW S \in SUBSET (g .. G - 1), NEW i \in S
  PROVE  \E r \in S, n \in 1 .. G : Run(S, r, n) /\ i \in r .. r + n - 1
<1>. DEFINE L == {r \in g .. i : r .. i \subseteq S}
            H == {e \in i .. G - 1 : i .. e \subseteq S}
<1>1. G \in Nat /\ i \in g .. G - 1 /\ g \in Nat /\ i \in Nat
  BY GranulesAre
<1>2. L \in SUBSET Nat /\ i \in L
  BY <1>1
<1>3. PICK r \in L : \A k \in L : r <= k
  <2>. HIDE DEF L
  <2>. QED  BY <1>2, Least
<1>4. H \in SUBSET (0 .. G - 1) /\ i \in H /\ G - 1 \in Nat
  BY <1>1
<1>5. PICK e \in H : \A k \in H : k <= e
  <2>. HIDE DEF H
  <2>. QED  BY <1>4, Greatest
<1>6. r \in g .. i /\ r .. i \subseteq S /\ e \in i .. G - 1 /\ i .. e \subseteq S
  OBVIOUS
<1>7. r - 1 \notin S
  <2>. SUFFICES ASSUME r - 1 \in S
                PROVE  FALSE
    OBVIOUS
  <2>1. r - 1 \in g .. i
    BY <1>1, <1>6
  <2>2. (r - 1) .. i \subseteq S
    BY <1>1, <1>6
  <2>3. r - 1 \in L
    BY <2>1, <2>2
  <2>4. r <= r - 1
    BY <1>3, <2>3
  <2>. QED  BY <1>1, <1>6, <2>4
<1>8. e + 1 \notin S
  <2>. SUFFICES ASSUME e + 1 \in S
                PROVE  FALSE
    OBVIOUS
  <2>1. e + 1 \in i .. G - 1
    BY <1>1, <1>6
  <2>2. i .. (e + 1) \subseteq S
    BY <1>1, <1>6
  <2>3. e + 1 \in H
    BY <2>1, <2>2
  <2>4. e + 1 <= e
    BY <1>5, <2>3
  <2>. QED  BY <1>1, <1>6, <2>4
<1>. DEFINE n == e - r + 1
<1>9. n \in 1 .. G /\ r + n = e + 1 /\ r + n - 1 = e /\ i \in r .. e /\ r \in S
  BY <1>1, <1>6
<1>10. r .. e \subseteq S
  BY <1>1, <1>6
<1>. HIDE DEF n, L, H
<1>. QED  BY <1>7, <1>8, <1>9, <1>10 DEF Run

LEMMA HolesInAre ==
  ASSUME NEW b \in Blocks, NEW g \in 0 .. G, NEW mark
  PROVE  LET F == FreeIn(b, g, mark)
             hs == HolesIn(b, g, mark)
         IN
         /\ \A h \in hs : /\ h \in HoleSet /\ h.block = b /\ h.at \in g .. G - 1
                          /\ h.n \in 1 .. G /\ h.at + h.n <= G /\ Run(F, h.at, h.n)
         /\ \A i \in F : \E h \in hs : i \in h.at .. h.at + h.n - 1
         /\ \A h, k \in hs : h # k =>
              h.at # k.at /\ (h.at < k.at => h.at + h.n <= k.at)
<1>. DEFINE F == FreeIn(b, g, mark)
            hs == HolesIn(b, g, mark)
            R == {x \in F \X (1 .. G) : Run(F, x[1], x[2])}
<1>1. hs = {Hole(b, r[1], r[2]) : r \in R}
  BY HolesInIs
<1>2. G \in Nat /\ g \in Nat /\ F \subseteq g .. G - 1
  BY GranulesAre DEF FreeIn
<1>. HIDE DEF hs, F
<1>3. ASSUME NEW h \in hs
      PROVE  /\ h \in HoleSet /\ h.block = b /\ h.at \in g .. G - 1
             /\ h.n \in 1 .. G /\ h.at + h.n <= G /\ Run(F, h.at, h.n)
  <2>1. PICK r \in R : h = Hole(b, r[1], r[2])
    BY <1>1
  <2>2. PICK i \in F, n \in 1 .. G : r = <<i, n>> /\ Run(F, i, n)
    BY <2>1
  <2>3. h.block = b /\ h.at = i /\ h.n = n /\ h = Hole(b, i, n)
    BY <2>1, <2>2 DEF Hole
  <2>4. i \in g .. G - 1 /\ i + n - 1 \in F
    BY <1>2, <2>2 DEF Run
  <2>5. i + n <= G /\ i \in 0 .. G - 1
    BY <1>2, <2>4
  <2>6. h \in HoleSet
    BY <2>3, <2>5, HoleSetHas
  <2>. QED  BY <2>2, <2>3, <2>4, <2>5, <2>6
<1>4. ASSUME NEW i \in F
      PROVE  \E h \in hs : i \in h.at .. h.at + h.n - 1
  <2>1. PICK r \in F, n \in 1 .. G : Run(F, r, n) /\ i \in r .. r + n - 1
    BY <1>2, RunHas
  <2>2. <<r, n>> \in R
    BY <2>1
  <2>3. Hole(b, r, n) \in hs
    BY <1>1, <2>2
  <2>. QED  BY <2>1, <2>3 DEF Hole
<1>5. ASSUME NEW h \in hs, NEW k \in hs, h.at < k.at
      PROVE  h.at + h.n <= k.at
  <2>1. /\ h.at \in g .. G - 1 /\ h.n \in 1 .. G /\ Run(F, h.at, h.n)
        /\ k.at \in g .. G - 1 /\ k.n \in 1 .. G /\ Run(F, k.at, k.n)
    BY <1>3
  <2>. SUFFICES ASSUME k.at < h.at + h.n
                PROVE  FALSE
    BY <1>2, <2>1
  <2>2. k.at - 1 \in h.at .. h.at + h.n - 1
    BY <1>2, <1>5, <2>1
  <2>. QED  BY <2>1, <2>2 DEF Run
<1>6. ASSUME NEW h \in hs, NEW k \in hs, h.at = k.at
      PROVE  h = k
  <2>1. /\ h \in HoleSet /\ h.block = b /\ h.at \in g .. G - 1 /\ h.n \in 1 .. G
        /\ k \in HoleSet /\ k.block = b /\ k.at \in g .. G - 1 /\ k.n \in 1 .. G
        /\ Run(F, h.at, h.n) /\ Run(F, k.at, k.n)
    BY <1>3
  <2>2. ~(h.n < k.n)
    <3>. SUFFICES ASSUME h.n < k.n
                  PROVE  FALSE
      OBVIOUS
    <3>1. h.at + h.n \in k.at .. k.at + k.n - 1
      BY <1>2, <1>6, <2>1
    <3>. QED  BY <2>1, <3>1 DEF Run
  <2>3. ~(k.n < h.n)
    <3>. SUFFICES ASSUME k.n < h.n
                  PROVE  FALSE
      OBVIOUS
    <3>1. k.at + k.n \in h.at .. h.at + h.n - 1
      BY <1>2, <1>6, <2>1
    <3>. QED  BY <2>1, <3>1 DEF Run
  <2>4. h.n = k.n
    BY <1>2, <2>1, <2>2, <2>3
  <2>5. h = Hole(b, h.at, h.n) /\ k = Hole(b, k.at, k.n)
    BY <2>1, HoleIs
  <2>. QED  BY <1>6, <2>4, <2>5
<1>. QED  BY <1>3, <1>4, <1>5, <1>6 DEF hs, F

LEMMA FreeInIs ==
  ASSUME ObjectsApart, NEW b \in Blocks, NEW g \in 0 .. G, NEW mark \in Marks \ {NONE}
  PROVE  \A i : i \in FreeIn(b, g, mark) <=>
           /\ i \in g .. G - 1
           /\ \A o \in Placed : o[1] = b /\ byte[o] = mark => <<b, i>> \notin Extent(o)
<1>1. \A x : x \in {b} \X Granules => x \in Locations /\ x[1] = b
  BY GranulesAre
<1>2. \A x \in Locations : x[1] = b => x \in {b} \X Granules
  BY GranulesAre
<1>3. ASSUME NEW x
      PROVE  x \in {y \in {b} \X Granules : byte[y] = mark}
               <=> x \in Placed /\ x[1] = b /\ byte[x] = mark
  BY <1>1, <1>2 DEF Placed
<1>. QED  BY <1>3 DEF FreeIn

--------------------------------------------------------------------------------
\* Counting.

LEMMA FewBy ==
  ASSUME NEW S, NEW x \in Nat, NEW y \in Nat, x <= y, NEW f \in [S -> x .. y - 1],
         \A s, t \in S : f[s] = f[t] => s = t
  PROVE  /\ IsFiniteSet(S) /\ Cardinality(S) \in Nat /\ Cardinality(S) <= y - x
         /\ Cardinality(S) = 0 <=> S = {}
<1>1. f \in Injection(S, x .. y - 1)
  BY DEF Injection, IsInjective
<1>2. IsFiniteSet(x .. y - 1) /\ Cardinality(x .. y - 1) = y - x
  <2>1. x \in Int /\ y - 1 \in Int
    OBVIOUS
  <2>2. /\ IsFiniteSet(x .. y - 1)
        /\ Cardinality(x .. y - 1) = IF x > y - 1 THEN 0 ELSE y - 1 - x + 1
    BY <2>1, FS_Interval
  <2>. QED  BY <2>2
<1>3. IsFiniteSet(S) /\ Cardinality(S) <= y - x
  BY <1>1, <1>2, FS_Injection
<1>. QED  BY <1>3, FS_CardinalityType, FS_EmptySet

LEMMA FewIn ==
  ASSUME NEW b, NEW x \in Nat, NEW y \in Nat, x <= y, NEW S \in SUBSET ({b} \X (x .. y - 1))
  PROVE  Cardinality(S) \in Nat /\ Cardinality(S) <= y - x
<1>. DEFINE f == [s \in S |-> s[2]]
<1>1. f \in [S -> x .. y - 1]
  OBVIOUS
<1>2. \A s \in S : s = <<b, s[2]>> /\ f[s] = s[2]
  OBVIOUS
<1>3. \A s, t \in S : f[s] = f[t] => s = t
  <2>. HIDE DEF f
  <2>. QED  BY <1>2
<1>. HIDE DEF f
<1>. QED  BY <1>1, <1>3, FewBy

\* Holes of a block that start in different places.
LEMMA FewHoles ==
  ASSUME NEW x \in Nat, NEW y \in Nat, x <= y, NEW S, \A h \in S : h.at \in x .. y - 1,
         \A h, k \in S : h.at = k.at => h = k
  PROVE  /\ Cardinality(S) \in Nat /\ Cardinality(S) <= y - x
         /\ Cardinality(S) = 0 <=> S = {}
<1>. DEFINE f == [s \in S |-> s.at]
<1>1. f \in [S -> x .. y - 1]
  OBVIOUS
<1>2. \A s, t \in S : f[s] = f[t] => s = t
  OBVIOUS
<1>. HIDE DEF f
<1>. QED  BY <1>1, <1>2, FewBy

--------------------------------------------------------------------------------
\* Sweeping a block.

\* Where a sweep of block b from granule g on ends: at G, or with a hole.
Ends(b, g, stop, end) ==
  \/ stop = G /\ end = G
  \/ \E r \in HolesIn(b, g, survivor_mark) : stop = r.at /\ end = r.at + r.n

\* The holes that it passes, and what it clears.
Passes(b, g, stop) == {h \in HolesIn(b, g, survivor_mark) : h.at < stop}
Clears(b, g, stop) ==
  UNION {Inside(h) : h \in {x \in HolesIn(b, g, survivor_mark) : x.at <= stop}}

LEMMA ClearsIs ==
  ASSUME NEW b \in Blocks, NEW g \in 0 .. G, NEW stop, NEW end, Ends(b, g, stop, end)
  PROVE  /\ stop \in g .. G /\ end \in stop .. G /\ (stop < G => stop < end)
         /\ Passes(b, g, stop) \subseteq HoleSet
         /\ \A h \in Passes(b, g, stop) : h.block = b /\ h.at \in g .. stop - 1
                                          /\ h.at + h.n <= stop
         /\ \A h, k \in Passes(b, g, stop) : h # k => h.at # k.at /\ Inside(h) \cap Inside(k) = {}
         /\ Clears(b, g, stop) \subseteq {b} \X (g .. end - 1)
         /\ \A i : <<b, i>> \in Clears(b, g, stop)
                     <=> i \in FreeIn(b, g, survivor_mark) /\ i < end
         /\ \A i \in stop .. end - 1 : <<b, i>> \in Clears(b, g, stop)
         /\ \A h \in Passes(b, g, stop) : Inside(h) \subseteq Clears(b, g, stop)
         /\ stop < G => stop \in FreeIn(b, g, survivor_mark)
         /\ \A i \in FreeIn(b, g, survivor_mark) :
              \E h \in HolesIn(b, g, survivor_mark) :
                /\ i \in h.at .. h.at + h.n - 1 /\ Run(FreeIn(b, g, survivor_mark), h.at, h.n)
<1>. DEFINE F == FreeIn(b, g, survivor_mark)
            hs == HolesIn(b, g, survivor_mark)
            C == Clears(b, g, stop)
            P == Passes(b, g, stop)
<1>1. /\ \A h \in hs : /\ h \in HoleSet /\ h.block = b /\ h.at \in g .. G - 1
                       /\ h.n \in 1 .. G /\ h.at + h.n <= G /\ Run(F, h.at, h.n)
      /\ \A i \in F : \E h \in hs : i \in h.at .. h.at + h.n - 1
      /\ \A h, k \in hs : h # k => h.at # k.at /\ (h.at < k.at => h.at + h.n <= k.at)
  BY HolesInAre
<1>2. G \in Nat /\ g \in Nat /\ F \subseteq g .. G - 1
  BY GranulesAre DEF FreeIn
<1>3. \A h \in hs : Inside(h) = {b} \X (h.at .. h.at + h.n - 1)
  BY <1>1 DEF Inside
<1>4. \/ stop = G /\ end = G
      \/ \E r \in hs : stop = r.at /\ end = r.at + r.n
  BY DEF Ends
<1>5. P = {h \in hs : h.at < stop} /\ C = UNION {Inside(h) : h \in {x \in hs : x.at <= stop}}
  BY DEF Passes, Clears
<1>. HIDE DEF F, hs, C, P
<1>6. stop \in g .. G /\ end \in stop .. G /\ (stop < G => stop < end /\ stop \in F)
  <2>1. CASE stop = G /\ end = G
    BY <1>2, <2>1
  <2>2. ASSUME NEW r \in hs, stop = r.at, end = r.at + r.n
        PROVE  stop \in g .. G /\ end \in stop .. G /\ stop < end /\ stop \in F
    BY <1>1, <1>2, <2>2 DEF Run
  <2>. QED  BY <1>4, <2>1, <2>2
<1>7. ASSUME NEW h \in hs, h.at <= stop
      PROVE  h.at + h.n <= end /\ (h.at < stop => h.at + h.n <= stop)
  <2>1. h.at \in g .. G - 1 /\ h.n \in 1 .. G /\ h.at + h.n <= G
    BY <1>1
  <2>2. CASE stop = G /\ end = G
    BY <2>1, <2>2
  <2>3. ASSUME NEW r \in hs, stop = r.at, end = r.at + r.n
        PROVE  h.at + h.n <= end /\ (h.at < stop => h.at + h.n <= stop)
    <3>1. CASE h = r
      BY <1>2, <2>1, <2>3, <3>1
    <3>2. CASE h # r
      <4>1. h.at # stop
        BY <1>1, <2>3, <3>2
      <4>2. h.at < stop
        BY <1>2, <1>6, <1>7, <2>1, <4>1
      <4>3. h.at + h.n <= stop
        BY <1>1, <2>3, <3>2, <4>2
      <4>. QED  BY <1>2, <1>6, <2>1, <4>3
    <3>. QED  BY <3>1, <3>2
  <2>. QED  BY <1>4, <2>2, <2>3
<1>8. C \subseteq {b} \X (g .. end - 1)
  <2>1. ASSUME NEW h \in hs, h.at <= stop
        PROVE  Inside(h) \subseteq {b} \X (g .. end - 1)
    <3>1. h.at .. h.at + h.n - 1 \subseteq g .. end - 1
      BY <1>1, <1>2, <1>6, <1>7, <2>1
    <3>. QED  BY <1>3, <3>1
  <2>. QED  BY <1>5, <2>1
<1>9. ASSUME NEW i
      PROVE  <<b, i>> \in C <=> i \in F /\ i < end
  <2>1. ASSUME NEW h \in hs, h.at <= stop, <<b, i>> \in Inside(h)
        PROVE  i \in F /\ i < end
    <3>1. i \in h.at .. h.at + h.n - 1
      BY <1>3, <2>1
    <3>2. i \in F /\ h.at + h.n <= end
      BY <1>1, <1>7, <2>1, <3>1 DEF Run
    <3>. QED  BY <1>1, <1>2, <1>6, <3>1, <3>2
  <2>2. ASSUME i \in F, i < end
        PROVE  <<b, i>> \in C
    <3>1. PICK h \in hs : i \in h.at .. h.at + h.n - 1
      BY <1>1, <2>2
    <3>2. h.at \in g .. G - 1 /\ h.n \in 1 .. G
      BY <1>1
    <3>3. h.at <= stop
      <4>1. CASE stop = G
        BY <1>2, <3>2, <4>1
      <4>2. ASSUME NEW r \in hs, stop = r.at, end = r.at + r.n
            PROVE  h.at <= stop
        <5>1. stop < h.at => end <= h.at
          BY <1>1, <4>2
        <5>. QED  BY <1>2, <1>6, <2>2, <3>1, <3>2, <5>1
      <4>. QED  BY <1>4, <4>1, <4>2
    <3>4. <<b, i>> \in Inside(h)
      BY <1>3, <3>1
    <3>. QED  BY <1>5, <3>3, <3>4
  <2>. QED  BY <1>5, <2>1, <2>2
<1>10. ASSUME NEW i \in stop .. end - 1
       PROVE  <<b, i>> \in C
  <2>1. CASE stop = G /\ end = G
    BY <1>2, <2>1
  <2>2. ASSUME NEW r \in hs, stop = r.at, end = r.at + r.n
        PROVE  <<b, i>> \in C
    <3>1. <<b, i>> \in Inside(r)
      <4>1. i \in r.at .. r.at + r.n - 1
        BY <1>1, <1>2, <1>10, <2>2
      <4>. QED  BY <1>3, <4>1
    <3>2. r.at <= stop
      BY <1>2, <1>6, <2>2
    <3>. QED  BY <1>5, <3>1, <3>2
  <2>. QED  BY <1>4, <2>1, <2>2
<1>11. ASSUME NEW h \in P
       PROVE  /\ h \in HoleSet /\ h.block = b /\ h.at \in g .. stop - 1 /\ h.at + h.n <= stop
              /\ Inside(h) \subseteq C
  <2>1. h \in hs /\ h.at < stop
    BY <1>5
  <2>2. h \in HoleSet /\ h.block = b /\ h.at \in g .. G - 1
    BY <1>1, <2>1
  <2>3. h.at <= stop /\ h.at \in g .. stop - 1
    BY <1>2, <1>6, <2>1, <2>2
  <2>. QED  BY <1>5, <1>7, <2>1, <2>2, <2>3
<1>12. ASSUME NEW h \in P, NEW k \in P, h # k
       PROVE  h.at # k.at /\ Inside(h) \cap Inside(k) = {}
  <2>1. h \in hs /\ k \in hs
    BY <1>5
  <2>2. /\ h.at \in g .. G - 1 /\ h.n \in 1 .. G /\ k.at \in g .. G - 1 /\ k.n \in 1 .. G
        /\ h.at # k.at /\ (h.at < k.at => h.at + h.n <= k.at)
        /\ (k.at < h.at => k.at + k.n <= h.at)
    BY <1>1, <1>12, <2>1
  <2>3. (h.at .. h.at + h.n - 1) \cap (k.at .. k.at + k.n - 1) = {}
    BY <1>2, <2>2
  <2>. QED  BY <1>3, <2>1, <2>2, <2>3
<1>13. \A i \in F : \E h \in hs : i \in h.at .. h.at + h.n - 1 /\ Run(F, h.at, h.n)
  BY <1>1
<1>. QED  BY <1>6, <1>8, <1>9, <1>10, <1>11, <1>12, <1>13 DEF F, hs, C, P

\* What a sweep of block b clears are whole objects, all of those up to where it ends
\* that do not have the mark.
LEMMA ClearsObjects ==
  ASSUME ObjectsApart, survivor_mark \in MARK_0 .. MARK_2,
         NEW b \in Blocks, NEW g \in 0 .. G, NEW stop, NEW end, Ends(b, g, stop, end),
         \A o \in Placed : o[1] = b /\ o[2] < g => Extent(o) \subseteq {b} \X (0 .. g - 1)
  PROVE  /\ \A o \in Placed : \/ Extent(o) \subseteq Clears(b, g, stop)
                              \/ Extent(o) \cap Clears(b, g, stop) = {}
         /\ \A o \in Placed : o \in Clears(b, g, stop) =>
              o[1] = b /\ o[2] >= g /\ byte[o] # survivor_mark
         /\ \A o \in Placed : /\ o[1] = b /\ g <= o[2] /\ o[2] < end
                              /\ byte[o] # survivor_mark
                              => o \in Clears(b, g, stop)
         /\ \A o \in Placed : /\ o[1] = b /\ o[2] < end /\ o \notin Clears(b, g, stop)
                              => Extent(o) \subseteq {b} \X (0 .. end - 1)
<1>. DEFINE F == FreeIn(b, g, survivor_mark)
            C == Clears(b, g, stop)
<1>1. /\ stop \in g .. G /\ end \in stop .. G /\ (stop < G => stop < end)
      /\ C \subseteq {b} \X (g .. end - 1)
      /\ \A i : <<b, i>> \in C <=> i \in F /\ i < end
      /\ \A i \in F : \E h \in HolesIn(b, g, survivor_mark) :
           i \in h.at .. h.at + h.n - 1 /\ Run(F, h.at, h.n)
      /\ \A i \in stop .. end - 1 : <<b, i>> \in C
  BY ClearsIs
<1>14. \/ stop = G /\ end = G
       \/ \E r \in HolesIn(b, g, survivor_mark) : stop = r.at /\ end = r.at + r.n
  BY DEF Ends
<1>2. \A i : i \in F <=> /\ i \in g .. G - 1
                         /\ \A o \in Placed : o[1] = b /\ byte[o] = survivor_mark
                                                => <<b, i>> \notin Extent(o)
  <2>1. survivor_mark \in Marks \ {NONE}
    BY MarksAre
  <2>. QED  BY <2>1, FreeInIs
<1>3. G \in Nat /\ g \in Nat /\ end \in Nat
  BY <1>1, GranulesAre
<1>4. ASSUME NEW h \in HolesIn(b, g, survivor_mark)
      PROVE  h.at \in g .. G - 1 /\ h.n \in 1 .. G /\ h.at + h.n <= G /\ Run(F, h.at, h.n)
  BY HolesInAre
<1>. HIDE DEF F, C
<1>5. ASSUME NEW o \in Placed
      PROVE  /\ o \in Locations /\ o = <<o[1], o[2]>> /\ o[2] \in 0 .. G - 1 /\ o \in Extent(o)
             /\ LastOf(o) \in o[2] .. G - 1 /\ Extent(o) = {o[1]} \X (o[2] .. LastOf(o))
  <2>1. o \in Locations /\ Ended(o)
    BY DEF Placed, ObjectsApart, Ended
  <2>. QED  BY <2>1, LastIs, ExtentIs, GranulesAre
<1>6. ASSUME NEW o \in Placed, o[1] # b
      PROVE  Extent(o) \cap C = {} /\ o \notin C
  BY <1>1, <1>5, <1>6
<1>7. ASSUME NEW o \in Placed, o[1] = b, byte[o] = survivor_mark
      PROVE  Extent(o) \cap C = {} /\ o \notin C
  <2>1. ASSUME NEW i \in o[2] .. LastOf(o)
        PROVE  <<b, i>> \notin C
    <3>1. <<b, i>> \in Extent(o)
      BY <1>5, <1>7, <2>1
    <3>. QED  BY <1>1, <1>2, <1>7, <3>1
  <2>. QED  BY <1>5, <1>7, <2>1
<1>8. ASSUME NEW o \in Placed, o[1] = b, o[2] < g
      PROVE  Extent(o) \cap C = {} /\ o \notin C
  <2>1. Extent(o) \subseteq {b} \X (0 .. g - 1)
    BY <1>8
  <2>2. \A i \in 0 .. g - 1 : <<b, i>> \notin C
    BY <1>1, <1>3
  <2>. QED  BY <1>5, <2>1, <2>2
<1>9. ASSUME NEW o \in Placed, o[1] = b, g <= o[2], byte[o] # survivor_mark
      PROVE  \/ Extent(o) \subseteq C
             \/ Extent(o) \cap C = {} /\ ~(o[2] < end)
  <2>1. \A i \in o[2] .. LastOf(o) : i \in F
    <3>1. ASSUME NEW i \in o[2] .. LastOf(o)
          PROVE  i \in F
      <4>1. <<b, i>> \in Extent(o) /\ i \in g .. G - 1
        BY <1>3, <1>5, <1>9
      <4>2. \A p \in Placed : p[1] = b /\ byte[p] = survivor_mark => <<b, i>> \notin Extent(p)
        BY <1>9, <4>1 DEF ObjectsApart
      <4>. QED  BY <1>2, <4>1, <4>2
    <3>. QED  BY <3>1
  <2>2. o[2] \in F
    BY <1>5, <2>1
  <2>3. PICK h \in HolesIn(b, g, survivor_mark) :
          o[2] \in h.at .. h.at + h.n - 1 /\ Run(F, h.at, h.n)
    BY <1>1, <2>2
  <2>4. h.at \in g .. G - 1 /\ h.n \in 1 .. G
    BY <1>4
  <2>5. LastOf(o) < h.at + h.n
    <3>. SUFFICES ASSUME ~(LastOf(o) < h.at + h.n)
                  PROVE  FALSE
      OBVIOUS
    <3>1. h.at + h.n \in o[2] .. LastOf(o)
      BY <1>3, <1>5, <2>3, <2>4
    <3>. QED  BY <2>1, <2>3, <3>1 DEF Run
  <2>6. CASE o[2] < end
    <3>1. h.at + h.n <= end
      <4>1. CASE stop = G /\ end = G
        BY <1>4, <4>1
      <4>2. ASSUME NEW r \in HolesIn(b, g, survivor_mark), stop = r.at, end = r.at + r.n
            PROVE  h.at + h.n <= end
        <5>1. /\ r.at \in g .. G - 1 /\ r.n \in 1 .. G /\ Run(F, r.at, r.n)
          BY <1>4
        <5>. SUFFICES ASSUME ~(h.at + h.n <= end)
                      PROVE  FALSE
          OBVIOUS
        <5>2. end \in h.at .. h.at + h.n - 1
          BY <1>3, <2>3, <2>4, <2>6, <1>5
        <5>3. end \in F
          BY <2>3, <5>2 DEF Run
        <5>. QED  BY <4>2, <5>1, <5>3 DEF Run
      <4>. QED  BY <1>14, <4>1, <4>2
    <3>2. \A i \in o[2] .. LastOf(o) : i \in F /\ i < end
      BY <1>3, <1>5, <2>1, <2>4, <2>5, <3>1
    <3>. QED  BY <1>1, <1>5, <1>9, <3>2
  <2>7. CASE ~(o[2] < end)
    <3>1. \A i \in o[2] .. LastOf(o) : ~(i < end)
      BY <1>3, <1>5, <2>7
    <3>. QED  BY <1>1, <1>5, <1>9, <2>7, <3>1
  <2>. QED  BY <2>6, <2>7
<1>10. \A o \in Placed : Extent(o) \subseteq C \/ Extent(o) \cap C = {}
  <2>1. ASSUME NEW o \in Placed
        PROVE  Extent(o) \subseteq C \/ Extent(o) \cap C = {}
    <3>1. o[2] < g \/ g <= o[2]
      BY <1>3, <1>5
    <3>. QED  BY <1>6, <1>7, <1>8, <1>9, <3>1
  <2>. QED  BY <2>1
<1>11. ASSUME NEW o \in Placed, o \in C
       PROVE  o[1] = b /\ o[2] >= g /\ byte[o] # survivor_mark
  <2>1. o[1] = b
    BY <1>6, <1>11
  <2>2. ~(o[2] < g) /\ byte[o] # survivor_mark
    BY <1>7, <1>8, <1>11, <2>1
  <2>. QED  BY <1>3, <1>5, <2>1, <2>2
<1>12. ASSUME NEW o \in Placed, o[1] = b, g <= o[2], o[2] < end, byte[o] # survivor_mark
       PROVE  o \in C
  BY <1>5, <1>9, <1>12
<1>13. ASSUME NEW o \in Placed, o[1] = b, o[2] < end, o \notin C
       PROVE  Extent(o) \subseteq {b} \X (0 .. end - 1)
  <2>1. CASE o[2] < g
    <3>1. Extent(o) \subseteq {b} \X (0 .. g - 1)
      BY <1>13, <2>1
    <3>2. 0 .. g - 1 \subseteq 0 .. end - 1
      BY <1>1, <1>3
    <3>. QED  BY <3>1, <3>2
  <2>2. CASE ~(o[2] < g)
    <3>1. g <= o[2]
      BY <1>3, <1>5, <2>2
    <3>2. byte[o] = survivor_mark
      BY <1>12, <1>13, <3>1
    <3>3. Extent(o) \cap C = {}
      BY <1>7, <1>13, <3>2
    <3>4. LastOf(o) < end
      <4>1. CASE stop = G
        BY <1>1, <1>3, <1>5, <4>1
      <4>2. CASE stop < G
        <5>. SUFFICES ASSUME ~(LastOf(o) < end)
                      PROVE  FALSE
          OBVIOUS
        <5>1. end - 1 \in o[2] .. LastOf(o) /\ end - 1 \in stop .. end - 1
          BY <1>1, <1>3, <1>5, <1>13, <4>2
        <5>2. <<b, end - 1>> \in C /\ <<b, end - 1>> \in Extent(o)
          BY <1>1, <1>5, <1>13, <5>1
        <5>. QED  BY <3>3, <5>2
      <4>. QED  BY <1>1, <1>3, <4>1, <4>2
    <3>5. o[2] .. LastOf(o) \subseteq 0 .. end - 1
      BY <1>3, <1>5, <3>4
    <3>. QED  BY <1>5, <1>13, <3>5
  <2>. QED  BY <2>1, <2>2
<1>. QED  BY <1>10, <1>11, <1>12, <1>13 DEF C

\* What is left of the hole that a thread had.
Remains(b, lo, g) == IF lo < g THEN {Hole(b, lo, g - lo)} ELSE {}
Passed(b, g, lo, stop) == Remains(b, lo, g) \cup Passes(b, g, stop)

\* Mutator m sweeps block b from granule g on, to a hole or to the end of the block,
\* having allocated up to granule lo of it, and keeps holes.
SweepsTo(m, b, g, lo, stop, end, kept) ==
  LET W == Clears(b, g, stop)
      passed == Passed(b, g, lo, stop)
      new == b \in list["to_sweep"]
      p == pc'[m]
  IN
  /\ Only(m) /\ phase \in {"run", "stopping"} /\ b \in Blocks
  /\ g \in 0 .. G /\ lo \in 0 .. g /\ Ends(b, g, stop, end)
  /\ IF new THEN alloc[m].block = NoBlock /\ lo = 0 /\ g = 0
     ELSE alloc[m].block = b /\ alloc[m].alloc = lo /\ alloc[m].sweep = g
  /\ kept = {} \/ (kept = passed /\ m # collector)
  /\ Wipe(W) /\ dirty' = (dirty \ W) \cup Links(kept)
  /\ summary'[b].holes = (IF new THEN 0 ELSE summary[b].holes) + Cardinality(W)
  /\ summary'[b].pieces = (IF new THEN 0 ELSE summary[b].pieces) + Cardinality(passed)
  /\ summary'[b].fragments = (IF new THEN 0 ELSE summary[b].fragments)
                               + Cardinality(UNION {Inside(h) : h \in passed})
  /\ \A c \in Blocks : c # b => summary'[c] = summary[c]
  /\ \A l \in {"empty", "targets", "partly_full"} : list'[l] = list[l]
  /\ list'["to_sweep"] = list["to_sweep"] \ {b}
  /\ alloc'[m].holes = alloc[m].holes \cup kept
  /\ IF stop < G
     THEN alloc'[m].block = b /\ alloc'[m].alloc = stop /\ alloc'[m].sweep = end
     ELSE alloc'[m].block = NoBlock /\ alloc'[m].alloc = 0 /\ alloc'[m].sweep = 0
  /\ p.at \in Labels \ {"idle", "flushed", "nospace"} /\ p.size \in 0 .. G
  /\ p.obj \in Locations \cup {<<NoBlock, 0>>}
  /\ p.at \in {"bump", "second"} => p.size # 0
  /\ p.at = "bump" => stop < G /\ stop + p.size <= end
  /\ p.at = "release" => p.swept = 0
  /\ p.swept \in {0, pc[m].swept} \/ (new /\ p.swept = pc[m].swept + 1)
  /\ UNCHANGED <<zero, candidate, marked, holes, space_vars, gc_vars, held, allocated>>

\* The holes that a sweep passes, with what was left of the one before.
LEMMA PassedAre ==
  ASSUME NEW b \in Blocks, NEW g \in 0 .. G, NEW lo \in 0 .. g, NEW stop, NEW end,
         Ends(b, g, stop, end)
  PROVE  LET passed == Passed(b, g, lo, stop) IN
         /\ \A h \in passed :
              h \in HoleSet /\ h.block = b /\ h.at \in lo .. stop - 1 /\ h.at + h.n <= stop
         /\ \A h \in passed :
              \/ Inside(h) \subseteq Clears(b, g, stop)
              \/ lo < g /\ h = Hole(b, lo, g - lo) /\ Inside(h) = {b} \X (lo .. g - 1)
         /\ \A h, k \in passed : h # k => h.at # k.at /\ Inside(h) \cap Inside(k) = {}
         /\ LET n == Cardinality(passed)
            IN  n \in Nat /\ n <= stop - lo /\ (passed # {} => n > 0)
         /\ LET n == Cardinality(UNION {Inside(h) : h \in passed})
            IN  n \in Nat /\ n <= stop - lo
         /\ LET n == Cardinality(Clears(b, g, stop))
            IN  n \in Nat /\ n <= end - g
<1>. DEFINE passed == Passed(b, g, lo, stop)
            P == Passes(b, g, stop)
            C == Clears(b, g, stop)
            n == g - lo
            h0 == Hole(b, lo, n)
<1>1. /\ stop \in g .. G /\ end \in stop .. G
      /\ P \subseteq HoleSet /\ C \subseteq {b} \X (g .. end - 1)
      /\ \A h \in P : h.block = b /\ h.at \in g .. stop - 1 /\ h.at + h.n <= stop
      /\ \A h, k \in P : h # k => h.at # k.at /\ Inside(h) \cap Inside(k) = {}
      /\ \A h \in P : Inside(h) \subseteq C
  BY ClearsIs
<1>2. /\ G \in Nat /\ g \in Nat /\ lo \in Nat /\ stop \in Nat /\ end \in Nat
      /\ lo <= g /\ g <= stop /\ stop <= end
  BY <1>1, GranulesAre
<1>3. /\ lo < g => Remains(b, lo, g) = {h0}
      /\ ~(lo < g) => Remains(b, lo, g) = {}
      /\ passed = Remains(b, lo, g) \cup P
  BY DEF Remains, Passed
<1>. HIDE DEF passed, P, C
<1>4. ASSUME lo < g
      PROVE  /\ h0 \in HoleSet /\ h0.block = b /\ h0.at = lo /\ h0.n = n /\ lo + n = g
             /\ Inside(h0) = {b} \X (lo .. g - 1)
  <2>1. lo \in 0 .. G - 1 /\ n \in 1 .. G /\ lo + n <= G /\ lo + n = g
    BY <1>1, <1>2, <1>4
  <2>. HIDE DEF n
  <2>2. h0 \in HoleSet
    BY <2>1, HoleSetHas
  <2>3. h0.block = b /\ h0.at = lo /\ h0.n = n
    BY DEF Hole
  <2>. HIDE DEF h0
  <2>4. Inside(h0) = {b} \X (lo .. g - 1)
    BY <2>1, <2>3 DEF Inside
  <2>. QED  BY <2>1, <2>2, <2>3, <2>4
<1>. HIDE DEF h0, n
<1>5. ASSUME NEW h \in passed
      PROVE  /\ h \in HoleSet /\ h.block = b /\ h.at \in lo .. stop - 1
             /\ h.at + h.n <= stop
             /\ \/ Inside(h) \subseteq C
                \/ lo < g /\ h = h0 /\ Inside(h) = {b} \X (lo .. g - 1)
  <2>1. CASE h \in P
    BY <1>1, <1>2, <2>1
  <2>2. CASE h = h0 /\ lo < g
    BY <1>2, <1>4, <2>2
  <2>. QED  BY <1>3, <2>1, <2>2
<1>6. ASSUME NEW h \in P, lo < g
      PROVE  h.at # h0.at /\ Inside(h) \cap Inside(h0) = {}
  <2>1. h \in HoleSet /\ h.block = b /\ h.at \in g .. stop - 1
    BY <1>1
  <2>2. \A i \in h.at .. h.at + h.n - 1 : i \notin lo .. g - 1
    <3>1. h.n \in 1 .. G
      BY <2>1, HoleIs
    <3>. QED  BY <1>2, <2>1, <3>1
  <2>3. Inside(h) = {b} \X (h.at .. h.at + h.n - 1)
    BY <2>1 DEF Inside
  <2>. QED  BY <1>2, <1>4, <1>6, <2>1, <2>2, <2>3
<1>7. \A h, k \in passed : h # k => h.at # k.at /\ Inside(h) \cap Inside(k) = {}
  <2>1. ASSUME NEW h \in passed, NEW k \in passed, h # k
        PROVE  h.at # k.at /\ Inside(h) \cap Inside(k) = {}
    <3>1. CASE h \in P /\ k \in P
      BY <1>1, <2>1, <3>1
    <3>2. CASE h \in P /\ k = h0 /\ lo < g
      BY <1>6, <3>2
    <3>3. CASE k \in P /\ h = h0 /\ lo < g
      BY <1>6, <3>3
    <3>. QED  BY <1>3, <2>1, <3>1, <3>2, <3>3
  <2>. QED  BY <2>1
<1>8. /\ Cardinality(passed) \in Nat /\ Cardinality(passed) <= stop - lo
      /\ passed # {} => Cardinality(passed) > 0
  <2>1. lo <= stop /\ (\A h \in passed : h.at \in lo .. stop - 1)
        /\ \A h, k \in passed : h.at = k.at => h = k
    BY <1>2, <1>5, <1>7
  <2>2. /\ Cardinality(passed) \in Nat /\ Cardinality(passed) <= stop - lo
        /\ Cardinality(passed) = 0 <=> passed = {}
    BY <1>2, <2>1, FewHoles
  <2>. QED  BY <2>2
<1>9. /\ Cardinality(UNION {Inside(h) : h \in passed}) \in Nat
      /\ Cardinality(UNION {Inside(h) : h \in passed}) <= stop - lo
  <2>1. ASSUME NEW h \in passed
        PROVE  Inside(h) \subseteq {b} \X (lo .. stop - 1)
    <3>1. h.at \in lo .. stop - 1 /\ h.at + h.n <= stop /\ h.block = b /\ h.n \in 1 .. G
      BY <1>5, HoleIs
    <3>2. h.at .. h.at + h.n - 1 \subseteq lo .. stop - 1
      BY <1>2, <3>1
    <3>. QED  BY <3>1, <3>2 DEF Inside
  <2>. DEFINE S == UNION {Inside(h) : h \in passed}
  <2>2. S \in SUBSET ({b} \X (lo .. stop - 1)) /\ lo <= stop
    BY <1>2, <2>1
  <2>. HIDE DEF S
  <2>3. Cardinality(S) \in Nat /\ Cardinality(S) <= stop - lo
    BY <1>2, <2>2, FewIn
  <2>. QED  BY <2>3 DEF S
<1>10. Cardinality(C) \in Nat /\ Cardinality(C) <= end - g
  <2>1. g <= end
    BY <1>2
  <2>. QED  BY <1>1, <1>2, <2>1, FewIn
<1>. QED  BY <1>5, <1>7, <1>8, <1>9, <1>10 DEF passed, C, h0, n

\* What a sweep leaves as it was.
LEMMA SweepKeeps ==
  ASSUME HeapInv, NEW m \in Mutators, NEW b, NEW g, NEW lo, NEW stop, NEW end, NEW kept,
         SweepsTo(m, b, g, lo, stop, end, kept)
  PROVE  /\ g \in Nat /\ lo \in Nat /\ G \in Nat /\ lo <= g /\ NoBlock \notin Blocks
         /\ stop \in g .. G /\ end \in stop .. G /\ (stop < G => stop < end)
         /\ m \in Threads /\ m \notin Workers /\ Typed /\ MemoryTypes /\ b \in Blocks
         /\ b \notin Vacant \cup list["partly_full"] /\ Vacant' = Vacant
         /\ \A u \in Threads : u # m => alloc[u].block # b
         /\ \A u \in Threads : alloc[u].block \in Blocks \cup {NoBlock}
         /\ \A h \in AllHoles : h.block = b =>
              /\ h.at + h.n <= lo /\ b \notin list["to_sweep"] /\ summary[b].pieces > 0
         /\ \A o \in Placed : o[1] = b /\ o[2] < g => Extent(o) \subseteq {b} \X (0 .. g - 1)
         /\ alloc[m].block \in {b, NoBlock}
         /\ alloc[m].block = b => alloc[m].alloc = lo /\ alloc[m].sweep = g
         /\ b \in list["to_sweep"] \/ alloc[m].block = b
<1>1. /\ Only(m) /\ phase \in {"run", "stopping"} /\ b \in Blocks
      /\ g \in 0 .. G /\ lo \in 0 .. g /\ Ends(b, g, stop, end)
      /\ IF b \in list["to_sweep"] THEN alloc[m].block = NoBlock /\ lo = 0 /\ g = 0
         ELSE alloc[m].block = b /\ alloc[m].alloc = lo /\ alloc[m].sweep = g
      /\ \A l \in {"empty", "targets", "partly_full"} : list'[l] = list[l]
  BY DEF SweepsTo
<1>2. m \in Threads /\ m \notin Workers
  BY DEF Mutators
<1>3. /\ Registers(m) /\ Records /\ Apart /\ NoBlock \notin Blocks /\ Typed /\ MemoryTypes
      /\ list \in [Lists -> SUBSET Blocks]
  BY <1>2, ThreadIs, HeapTyped DEF HeapInv, IInv, Records
<1>4. g \in Nat /\ lo \in Nat /\ G \in Nat /\ lo <= g
  BY <1>1, GranulesAre
<1>5. stop \in g .. G /\ end \in stop .. G /\ (stop < G => stop < end)
  BY <1>1, ClearsIs
<1>6. b \notin Vacant \cup list["partly_full"] /\ Vacant' = Vacant
  <2>1. b \in list["to_sweep"] \/ alloc[m].block = b
    BY <1>1
  <2>2. b \notin list["empty"] /\ b \notin list["targets"] /\ b \notin list["partly_full"]
    BY <1>2, <1>3, <2>1, ListIs DEF Apart
  <2>. QED  BY <1>1, <2>2 DEF Vacant
<1>7. ASSUME NEW u \in Threads, u # m
      PROVE  alloc[u].block # b
  <2>1. CASE b \in list["to_sweep"]
    BY <1>3, <2>1, ListIs DEF Apart
  <2>2. CASE alloc[m].block = b
    BY <1>1, <1>2, <1>3, <1>7, <2>2 DEF Apart
  <2>. QED  BY <1>1, <2>1, <2>2
<1>8. ASSUME NEW h \in AllHoles, h.block = b
      PROVE  h.at + h.n <= lo /\ b \notin list["to_sweep"] /\ summary[b].pieces > 0
  <2>1. b \notin list["to_sweep"]
    BY <1>1, <1>8 DEF HeapInv, HolesAside
  <2>. QED  BY <1>1, <1>2, <1>8, <2>1 DEF HeapInv, HolesAside
<1>9. ASSUME NEW o \in Placed, o[1] = b, o[2] < g
      PROVE  Extent(o) \subseteq {b} \X (0 .. g - 1)
  <2>1. CASE b \in list["to_sweep"]
    <3>1. g = 0 /\ o[2] \in 0 .. G - 1
      BY <1>1, <2>1, GranulesAre DEF Placed
    <3>. QED  BY <1>9, <3>1
  <2>2. CASE b \notin list["to_sweep"]
    <3>1. alloc[m].block = b /\ alloc[m].sweep = g /\ b # NoBlock
      BY <1>1, <1>3, <2>2
    <3>. QED  BY <1>2, <1>9, <3>1 DEF HeapInv, SweptWhole
  <2>. QED  BY <2>1, <2>2
<1>10. /\ alloc[m].block \in {b, NoBlock} /\ (b \in list["to_sweep"] \/ alloc[m].block = b)
       /\ alloc[m].block = b => alloc[m].alloc = lo /\ alloc[m].sweep = g
  BY <1>1, <1>3
<1>. QED
  BY <1>1, <1>2, <1>3, <1>4, <1>5, <1>6, <1>7, <1>8, <1>9, <1>10 DEF Records

\* Memory after a sweep.
LEMMA SweepWipes ==
  ASSUME HeapInv, NEW m \in Mutators, NEW b, NEW g, NEW lo, NEW stop, NEW end, NEW kept,
         SweepsTo(m, b, g, lo, stop, end, kept)
  PROVE  LET W == Clears(b, g, stop) IN
         /\ W \subseteq Locations /\ Placed' = Placed \ W /\ ends' = ends \ W
         /\ byte' \in [Locations -> Marks] /\ \A o \in Locations : o \notin W => byte'[o] = byte[o]
         /\ \A o \in Placed' : o \in Placed /\ Extent(o)' = Extent(o)
         /\ Free' \subseteq Free \cup W => ObjectsApart'
         /\ \A o \in Placed : o \in W => o[1] = b /\ o[2] >= g /\ byte[o] # survivor_mark
         /\ \A o \in Placed : o[1] = b /\ g <= o[2] /\ o[2] < end /\ o \notin W =>
              byte[o] = survivor_mark
         /\ \A o \in Placed' : o[1] = b /\ o[2] < end => Extent(o) \subseteq {b} \X (0 .. end - 1)
         /\ \A o \in held : o \notin W
<1>. DEFINE W == Clears(b, g, stop)
<1>1. /\ g \in 0 .. G /\ b \in Blocks /\ Ends(b, g, stop, end) /\ Wipe(W)
      /\ phase \in {"run", "stopping"}
  BY DEF SweepsTo
<1>2. /\ g \in Nat /\ G \in Nat /\ stop \in g .. G /\ end \in stop .. G /\ MemoryTypes
      /\ \A o \in Placed : o[1] = b /\ o[2] < g => Extent(o) \subseteq {b} \X (0 .. g - 1)
      /\ b \in list["to_sweep"] \/ (alloc[m].block = b /\ alloc[m].sweep = g)
  BY SweepKeeps
<1>3. W \subseteq {b} \X (g .. end - 1)
  BY <1>1, ClearsIs
<1>4. ObjectsApart /\ survivor_mark \in MARK_0 .. MARK_2
  BY DEF HeapInv, MemoryTypes
<1>5. /\ \A o \in Placed : Extent(o) \subseteq W \/ Extent(o) \cap W = {}
      /\ \A o \in Placed : o \in W => o[1] = b /\ o[2] >= g /\ byte[o] # survivor_mark
      /\ \A o \in Placed : /\ o[1] = b /\ g <= o[2] /\ o[2] < end /\ byte[o] # survivor_mark
                           => o \in W
      /\ \A o \in Placed : /\ o[1] = b /\ o[2] < end /\ o \notin W
                           => Extent(o) \subseteq {b} \X (0 .. end - 1)
  BY <1>1, <1>2, <1>4, ClearsObjects
<1>. HIDE DEF W
<1>6. W \subseteq Locations
  <2>1. g .. end - 1 \subseteq 0 .. G - 1
    BY <1>2
  <2>. QED  BY <1>1, <1>3, <2>1, GranulesAre
<1>7. /\ byte' = [o \in Locations |-> IF o \in W THEN NONE ELSE byte[o]] /\ ends' = ends \ W
  BY <1>1 DEF Wipe
<1>8. /\ byte' \in [Locations -> Marks] /\ Placed' = Placed \ W
      /\ \A o \in Locations : o \notin W => byte'[o] = byte[o]
  <2>1. \A o \in Locations : byte[o] \in Marks
    BY <1>2 DEF MemoryTypes
  <2>. QED  BY <1>7, <2>1, MarksAre DEF Placed
<1>9. /\ \A o \in Placed' : o \in Placed /\ Extent(o)' = Extent(o)
      /\ Free' \subseteq Free \cup W => ObjectsApart'
  BY <1>4, <1>5, <1>7, <1>8, Wiped
<1>10. ASSUME NEW o \in held, o \in W
       PROVE  FALSE
  <2>1. o \in Placed
    <3>1. byte[o] # NONE /\ o \in Locations
      <4>1. byte[o] \in {YOUNG, survivor_mark, current_mark, BUSY}
        BY DEF HeapInv, HeldMarked
      <4>2. current_mark \in MARK_0 .. MARK_2
        BY <1>2 DEF MemoryTypes
      <4>. QED  BY <1>4, <1>6, <1>10, <4>1, <4>2, MarksAre
    <3>. QED  BY <3>1 DEF Placed
  <2>2. o[1] = b /\ o[2] >= g /\ byte[o] # survivor_mark
    BY <1>5, <1>10, <2>1
  <2>3. Unswept(o)
    <3>1. g <= o[2]
      BY <1>2, <1>6, <1>10, <2>2, GranulesAre
    <3>. QED  BY <1>2, <2>2, <3>1 DEF Unswept
  <2>. QED  BY <1>1, <2>2, <2>3 DEF HeapInv, HeldMarked
<1>11. \A o \in Placed' : o[1] = b /\ o[2] < end => Extent(o) \subseteq {b} \X (0 .. end - 1)
  BY <1>5, <1>8
<1>12. \A o \in Placed : o[1] = b /\ g <= o[2] /\ o[2] < end /\ o \notin W =>
              byte[o] = survivor_mark
  BY <1>5
<1>. QED  BY <1>5, <1>6, <1>7, <1>8, <1>9, <1>10, <1>11, <1>12 DEF W

\* Registers and counts after a sweep.
LEMMA SweepCounts ==
  ASSUME HeapInv, NEW m \in Mutators, NEW b, NEW g, NEW lo, NEW stop, NEW end, NEW kept,
         SweepsTo(m, b, g, lo, stop, end, kept), IInv'
  PROVE  (\A u \in Threads : Registers(u)') /\ Counts'
<1>1. /\ Only(m) /\ phase \in {"run", "stopping"} /\ b \in Blocks
      /\ g \in 0 .. G /\ lo \in 0 .. g /\ Ends(b, g, stop, end)
      /\ list'["partly_full"] = list["partly_full"]
      /\ list'["to_sweep"] = list["to_sweep"] \ {b}
      /\ alloc'[m].holes = alloc[m].holes \cup kept
      /\ kept = {} \/ kept = Passed(b, g, lo, stop)
      /\ \A c \in Blocks : c # b => summary'[c] = summary[c]
      /\ pc'[m].swept \in {0, pc[m].swept}
           \/ (b \in list["to_sweep"] /\ pc'[m].swept = pc[m].swept + 1)
      /\ Threads' = Threads /\ Mutators' = Mutators
      /\ \A u \in Threads : u # m => alloc'[u] = alloc[u] /\ pc'[u] = pc[u]
  BY DEF SweepsTo, Only
<1>2. IF stop < G
      THEN alloc'[m].block = b /\ alloc'[m].alloc = stop /\ alloc'[m].sweep = end
      ELSE alloc'[m].block = NoBlock /\ alloc'[m].alloc = 0 /\ alloc'[m].sweep = 0
  BY DEF SweepsTo
<1>3. /\ pc'[m].at \in Labels \ {"idle", "flushed", "nospace"} /\ pc'[m].size \in 0 .. G
      /\ pc'[m].obj \in Locations \cup {<<NoBlock, 0>>}
      /\ pc'[m].at \in {"bump", "second"} => pc'[m].size # 0
      /\ pc'[m].at = "bump" => stop < G /\ stop + pc'[m].size <= end
      /\ pc'[m].at = "release" => pc'[m].swept = 0
  BY DEF SweepsTo
<1>4. /\ g \in Nat /\ lo \in Nat /\ G \in Nat /\ lo <= g /\ NoBlock \notin Blocks
      /\ stop \in g .. G /\ end \in stop .. G /\ (stop < G => stop < end)
      /\ m \in Threads /\ m \notin Workers
      /\ b \notin Vacant \cup list["partly_full"]
      /\ \A u \in Threads : u # m => alloc[u].block # b
      /\ \A u \in Threads : alloc[u].block \in Blocks \cup {NoBlock}
      /\ alloc[m].block \in {b, NoBlock}
      /\ alloc[m].block = b => alloc[m].alloc = lo /\ alloc[m].sweep = g
      /\ b \in list["to_sweep"] \/ alloc[m].block = b
  BY SweepKeeps
<1>5. Registers(m)
  BY <1>4, ThreadIs
<1>6. Registers(m)'
  <2>1. kept \subseteq HoleSet
    <3>1. \A h \in Passed(b, g, lo, stop) : h \in HoleSet
      BY <1>1, PassedAre
    <3>. QED  BY <1>1, <3>1
  <2>2. alloc'[m].holes \subseteq HoleSet
    BY <1>1, <1>5, <2>1 DEF Registers
  <2>3. /\ alloc'[m].alloc \in 0 .. G /\ alloc'[m].sweep \in alloc'[m].alloc .. G
        /\ alloc'[m].block = NoBlock => alloc'[m].alloc = 0 /\ alloc'[m].sweep = 0
    BY <1>1, <1>2, <1>4
  <2>4. pc'[m].swept \in Nat
    BY <1>1, <1>5 DEF Registers
  <2>5. pc'[m].at = "bump" => alloc'[m].alloc + pc'[m].size <= alloc'[m].sweep
    BY <1>2, <1>3
  <2>. QED  BY <1>3, <1>4, <2>2, <2>3, <2>4, <2>5 DEF Registers
<1>7. \A u \in Threads : Registers(u)'
  <2>1. ASSUME NEW u \in Threads, u # m
        PROVE  Registers(u)'
    BY <1>1, <2>1 DEF HeapInv, Registers
  <2>. QED  BY <1>6, <2>1
<1>8. \A c \in Blocks : LET s == summary[c] IN
        s.holes \in 0 .. G /\ s.pieces \in 0 .. G /\ s.fragments \in 0 .. G
  BY DEF HeapInv, Counts
<1>9. LET s == summary'[b] IN
      /\ s.holes \in 0 .. G /\ s.pieces \in 0 .. G /\ s.fragments \in 0 .. G
      /\ s.holes <= end /\ s.pieces <= stop /\ s.fragments <= stop
  <2>. DEFINE new == b \in list["to_sweep"]
              s0 == IF new THEN 0 ELSE summary[b].holes
              s1 == IF new THEN 0 ELSE summary[b].pieces
              s2 == IF new THEN 0 ELSE summary[b].fragments
              c0 == Cardinality(Clears(b, g, stop))
              c1 == Cardinality(Passed(b, g, lo, stop))
              c2 == Cardinality(UNION {Inside(h) : h \in Passed(b, g, lo, stop)})
  <2>1. s0 \in Nat /\ s0 <= g /\ s1 \in Nat /\ s1 <= lo /\ s2 \in Nat /\ s2 <= lo
    <3>1. CASE new
      BY <1>4, <3>1
    <3>2. CASE ~new
      <4>1. alloc[m].block = b /\ alloc[m].alloc = lo /\ alloc[m].sweep = g /\ b # NoBlock
        BY <1>1, <1>4, <3>2
      <4>2. LET s == summary[b] IN s.holes <= g /\ s.pieces <= lo /\ s.fragments <= lo
        BY <1>4, <4>1 DEF HeapInv, Counts
      <4>. QED  BY <1>1, <1>4, <1>8, <3>2, <4>2
    <3>. QED  BY <3>1, <3>2
  <2>2. /\ c0 \in Nat /\ c0 <= end - g /\ c1 \in Nat /\ c1 <= stop - lo
        /\ c2 \in Nat /\ c2 <= stop - lo
    BY <1>1, PassedAre
  <2>3. summary'[b].holes = s0 + c0 /\ summary'[b].pieces = s1 + c1
        /\ summary'[b].fragments = s2 + c2
    BY DEF SweepsTo
  <2>. HIDE DEF s0, s1, s2, c0, c1, c2
  <2>. QED  BY <1>4, <2>1, <2>2, <2>3
<1>10. ASSUME NEW u \in Threads, alloc'[u].block # NoBlock
       PROVE  LET s == summary'[alloc'[u].block] IN
              /\ s.holes <= alloc'[u].sweep
              /\ s.pieces <= alloc'[u].alloc /\ s.fragments <= alloc'[u].alloc
  <2>1. CASE u = m
    BY <1>2, <1>9, <1>10, <2>1
  <2>2. CASE u # m
    <3>1. alloc'[u] = alloc[u] /\ alloc[u].block \in Blocks /\ alloc[u].block # b
      BY <1>1, <1>4, <1>10, <2>2
    <3>2. summary'[alloc[u].block] = summary[alloc[u].block]
      BY <1>1, <3>1
    <3>. QED  BY <1>10, <3>1, <3>2 DEF HeapInv, Counts
  <2>. QED  BY <2>1, <2>2
<1>11. \A c \in list'["partly_full"] : summary'[c].pieces = 0
  <2>1. \A c \in list["partly_full"] : c \in Blocks /\ c # b
    BY <1>4, ListIs DEF HeapInv, IInv, Records
  <2>. QED  BY <1>1, <2>1 DEF HeapInv, Counts
<1>12. ASSUME NEW u \in Mutators
       PROVE  pc'[u].swept + Cardinality(list'["to_sweep"]) <= Cardinality(Blocks)
  <2>1. /\ pc[u].swept + Cardinality(list["to_sweep"]) <= Cardinality(Blocks)
        /\ pc[u].swept \in Nat /\ u \in Threads
    BY DEF HeapInv, Counts, Registers, Mutators
  <2>2. /\ IsFiniteSet(list["to_sweep"]) /\ Cardinality(Blocks) \in Nat
        /\ Cardinality(list["to_sweep"]) \in Nat
        /\ Cardinality(list["to_sweep"]) <= Cardinality(Blocks)
    BY SweepCount
  <2>3. Cardinality(list'["to_sweep"])
          = IF b \in list["to_sweep"] THEN Cardinality(list["to_sweep"]) - 1
            ELSE Cardinality(list["to_sweep"])
    <3>. DEFINE S == list["to_sweep"]
    <3>1. IsFiniteSet(S) /\ list'["to_sweep"] = S \ {b}
      BY <1>1, <2>2
    <3>. HIDE DEF S
    <3>2. Cardinality(S \ {b}) = IF b \in S THEN Cardinality(S) - 1 ELSE Cardinality(S)
      BY <3>1, FS_RemoveElement
    <3>3. Cardinality(list'["to_sweep"])
            = IF b \in S THEN Cardinality(S) - 1 ELSE Cardinality(S)
      BY <3>1, <3>2
    <3>. QED  BY <3>3 DEF S
  <2>4. CASE u = m
    BY <1>1, <2>1, <2>2, <2>3, <2>4
  <2>5. CASE u # m
    BY <1>1, <2>1, <2>2, <2>3, <2>5
  <2>. QED  BY <2>4, <2>5
<1>13. Counts'
  <2>1. ASSUME NEW c \in Blocks
        PROVE  LET s == summary'[c] IN
               s.holes \in 0 .. G /\ s.pieces \in 0 .. G /\ s.fragments \in 0 .. G
    BY <1>1, <1>8, <1>9
  <2>. QED  BY <1>1, <1>10, <1>11, <1>12, <2>1 DEF Counts
<1>. QED  BY <1>7, <1>13

\* The holes that a sweep keeps are new ones.
LEMMA SweepHoles ==
  ASSUME HeapInv, NEW m \in Mutators, NEW b, NEW g, NEW lo, NEW stop, NEW end, NEW kept,
         SweepsTo(m, b, g, lo, stop, end, kept), IInv'
  PROVE  /\ AllHoles' = AllHoles \cup kept
         /\ \A h \in kept, k \in AllHoles : h # k /\ Inside(h) \cap Inside(k) = {}
         /\ \A h \in kept, k \in AllHoles : <<h.block, h.at>> \notin Inside(k)
         /\ HolesApart' /\ HolesAside'
<1>1. /\ Only(m) /\ phase \in {"run", "stopping"} /\ b \in Blocks
      /\ g \in 0 .. G /\ lo \in 0 .. g /\ Ends(b, g, stop, end)
      /\ list'["partly_full"] = list["partly_full"]
      /\ list'["to_sweep"] = list["to_sweep"] \ {b}
      /\ alloc'[m].holes = alloc[m].holes \cup kept
      /\ kept = {} \/ (kept = Passed(b, g, lo, stop) /\ m # collector)
      /\ \A c \in Blocks : c # b => summary'[c] = summary[c]
      /\ Threads' = Threads /\ Mutators' = Mutators
      /\ \A u \in Threads : u # m => alloc'[u] = alloc[u] /\ pc'[u] = pc[u]
      /\ pc'[m].at # "flushed" /\ holes' = holes /\ phase' = phase /\ collector' = collector
  BY DEF SweepsTo, Only, gc_vars
<1>2. IF stop < G
      THEN alloc'[m].block = b /\ alloc'[m].alloc = stop /\ alloc'[m].sweep = end
      ELSE alloc'[m].block = NoBlock /\ alloc'[m].alloc = 0 /\ alloc'[m].sweep = 0
  BY DEF SweepsTo
<1>3. /\ g \in Nat /\ lo \in Nat /\ G \in Nat /\ lo <= g /\ NoBlock \notin Blocks
      /\ stop \in g .. G /\ end \in stop .. G /\ (stop < G => stop < end)
      /\ m \in Threads /\ m \notin Workers /\ Typed /\ Vacant' = Vacant
      /\ b \notin Vacant \cup list["partly_full"]
      /\ \A u \in Threads : u # m => alloc[u].block # b
      /\ \A u \in Threads : alloc[u].block \in Blocks \cup {NoBlock}
      /\ \A h \in AllHoles : h.block = b =>
           /\ h.at + h.n <= lo /\ b \notin list["to_sweep"] /\ summary[b].pieces > 0
  BY SweepKeeps
<1>4. /\ \A h \in kept : /\ h \in HoleSet /\ h.block = b /\ h.at \in lo .. stop - 1
                         /\ h.at + h.n <= stop
      /\ \A h, k \in kept : h # k => h.at # k.at /\ Inside(h) \cap Inside(k) = {}
  <2>. DEFINE P == Passed(b, g, lo, stop)
  <2>1. /\ \A h \in P : /\ h \in HoleSet /\ h.block = b /\ h.at \in lo .. stop - 1
                        /\ h.at + h.n <= stop
        /\ \A h, k \in P : h # k => h.at # k.at /\ Inside(h) \cap Inside(k) = {}
    <3>1. b \in Blocks /\ g \in 0 .. G /\ lo \in 0 .. g /\ Ends(b, g, stop, end)
      BY <1>1
    <3>2. \A h \in Passed(b, g, lo, stop) :
            h \in HoleSet /\ h.block = b /\ h.at \in lo .. stop - 1 /\ h.at + h.n <= stop
      BY <3>1, PassedAre
    <3>3. \A h, k \in Passed(b, g, lo, stop) :
            h # k => h.at # k.at /\ Inside(h) \cap Inside(k) = {}
      BY <3>1, PassedAre
    <3>. QED  BY <3>2, <3>3
  <2>. HIDE DEF P
  <2>2. kept = {} \/ kept = P
    BY <1>1 DEF P
  <2>. QED  BY <2>1, <2>2
<1>5. ASSUME NEW h \in kept, NEW k \in AllHoles
      PROVE  h # k /\ Inside(h) \cap Inside(k) = {} /\ <<h.block, h.at>> \notin Inside(k)
  <2>1. /\ h \in HoleSet /\ h.at \in lo .. stop - 1 /\ h.block = b
    BY <1>4
  <2>2. /\ k.at \in Nat /\ k.n \in Nat /\ k.n > 0 /\ k \in HoleSet
    BY <1>3, AllHolesAre
  <2>3. k.block = b => k.at + k.n <= lo
    BY <1>3
  <2>4. \A i : i \in k.at .. k.at + k.n - 1 /\ k.block = b => ~(h.at <= i)
    <3>1. h.at \in Int /\ lo \in Int /\ lo <= h.at
      BY <1>3, <2>1
    <3>2. ASSUME NEW i \in k.at .. k.at + k.n - 1, k.block = b
          PROVE  ~(h.at <= i)
      <4>1. i \in Int /\ i < lo
        BY <1>3, <2>2, <2>3, <3>2
      <4>. QED  BY <3>1, <4>1
    <3>. QED  BY <3>2
  <2>5. <<h.block, h.at>> \notin Inside(k)
    <3>1. Inside(k) = {k.block} \X (k.at .. k.at + k.n - 1)
      BY DEF Inside
    <3>2. h.at <= h.at
      BY <2>1
    <3>3. k.block = b => h.at \notin k.at .. k.at + k.n - 1
      BY <2>4, <3>2
    <3>. QED  BY <2>1, <3>1, <3>3
  <2>6. Inside(h) \cap Inside(k) = {}
    <3>1. /\ Inside(h) = {b} \X (h.at .. h.at + h.n - 1)
          /\ Inside(k) = {k.block} \X (k.at .. k.at + k.n - 1)
      BY <2>1 DEF Inside
    <3>2. \A i \in h.at .. h.at + h.n - 1 : h.at <= i
      BY <2>1
    <3>. QED  BY <2>4, <3>1, <3>2
  <2>7. <<h.block, h.at>> \in Inside(h)
    BY <2>1, HoleIs
  <2>. QED  BY <2>5, <2>6, <2>7
<1>6. AllHoles' = AllHoles \cup kept
  <2>1. \A h : h \in AllHoles <=> \/ \E c \in holes : h \in c
                                  \/ \E u \in Threads : h \in alloc[u].holes
    BY DEF AllHoles
  <2>2. \A h : h \in AllHoles' <=> \/ \E c \in holes : h \in c
                                   \/ \E u \in Threads : h \in alloc'[u].holes
    BY <1>1 DEF AllHoles
  <2>3. \A h : (\E u \in Threads : h \in alloc'[u].holes)
                 <=> h \in kept \/ \E u \in Threads : h \in alloc[u].holes
    BY <1>1, <1>3
  <2>. QED  BY <2>1, <2>2, <2>3
<1>7. \A u \in Threads : alloc[u].holes \subseteq AllHoles
  BY DEF AllHoles
<1>8. \A c \in holes : c \subseteq AllHoles
  BY DEF AllHoles
<1>9. HolesApart'
  <2>1. \A h, k \in AllHoles' : h # k => Inside(h) \cap Inside(k) = {}
    <3>1. \A h, k \in AllHoles : h # k => Inside(h) \cap Inside(k) = {}
      BY DEF HeapInv, HolesApart
    <3>. QED  BY <1>4, <1>5, <1>6, <3>1
  <2>2. \A t, u \in Threads : t # u => alloc'[t].holes \cap alloc'[u].holes = {}
    <3>1. \A t, u \in Threads : t # u => alloc[t].holes \cap alloc[u].holes = {}
      BY DEF HeapInv, HolesApart
    <3>2. \A u \in Threads : alloc[u].holes \cap kept = {}
      BY <1>5, <1>7
    <3>. QED  BY <1>1, <3>1, <3>2
  <2>3. \A c \in holes, t \in Threads : c \cap alloc'[t].holes = {}
    <3>1. \A c \in holes, t \in Threads : c \cap alloc[t].holes = {}
      BY DEF HeapInv, HolesApart
    <3>2. \A c \in holes : c \cap kept = {}
      BY <1>5, <1>8
    <3>. QED  BY <1>1, <3>1, <3>2
  <2>4. ASSUME NEW u \in Mutators, pc'[u].at = "flushed" \/ u = collector
        PROVE  alloc'[u].holes = {}
    <3>1. u \in Threads /\ (pc[u].at = "flushed" \/ u = collector => alloc[u].holes = {})
      BY DEF HeapInv, HolesApart, Mutators
    <3>2. CASE u = m
      BY <1>1, <2>4, <3>1, <3>2
    <3>3. CASE u # m
      BY <1>1, <2>4, <3>1, <3>3
    <3>. QED  BY <3>2, <3>3
  <2>5. /\ \A c \in holes : c \subseteq HoleSet /\ c # {}
        /\ \A c, d \in holes : c # d => c \cap d = {}
    BY DEF HeapInv, HolesApart
  <2>. QED  BY <1>1, <2>1, <2>2, <2>3, <2>4, <2>5 DEF HolesApart
<1>10. HolesAside'
  <2>1. ASSUME NEW h \in AllHoles'
        PROVE  /\ h.block \notin Vacant \cup list["partly_full"]
               /\ h.block \notin list["to_sweep"] \ {b}
    <3>1. CASE h \in AllHoles
      BY <1>1, <3>1 DEF HeapInv, HolesAside
    <3>2. CASE h \in kept
      BY <1>3, <1>4, <3>2
    <3>. QED  BY <1>6, <3>1, <3>2
  <2>2. ASSUME NEW h \in AllHoles', NEW t \in Threads, h.block = alloc'[t].block
        PROVE  t \notin Workers /\ summary'[h.block].pieces > 0 /\ h.at + h.n <= alloc'[t].alloc
    <3>1. CASE t # m
      <4>1. alloc'[t] = alloc[t] /\ alloc[t].block # b
        BY <1>1, <1>3, <3>1
      <4>2. h \in AllHoles
        BY <1>4, <1>6, <2>2, <4>1
      <4>3. h.block \in Blocks
        BY <1>3, <4>2, AllHolesAre
      <4>4. summary'[h.block] = summary[h.block]
        BY <1>1, <2>2, <4>1, <4>3
      <4>. QED  BY <2>2, <4>1, <4>2, <4>4 DEF HeapInv, HolesAside
    <3>2. CASE t = m
      <4>1. h.block \in Blocks
        <5>1. h \in AllHoles \/ h \in kept
          BY <1>6
        <5>. QED  BY <1>1, <1>3, <1>4, <5>1, AllHolesAre
      <4>2. stop < G /\ h.block = b /\ alloc'[m].alloc = stop
        BY <1>2, <1>3, <2>2, <3>2, <4>1
      <4>. DEFINE c == Cardinality(Passed(b, g, lo, stop))
      <4>3. c \in Nat /\ (kept # {} => c > 0)
        BY <1>1, PassedAre
      <4>4. summary'[b].pieces = (IF b \in list["to_sweep"] THEN 0 ELSE summary[b].pieces) + c
        BY DEF SweepsTo
      <4>. HIDE DEF c
      <4>5. summary[b].pieces \in Nat
        BY <1>1, GranulesAre DEF HeapInv, Counts
      <4>6. CASE h \in AllHoles
        <5>1. h.at + h.n <= lo /\ b \notin list["to_sweep"] /\ summary[b].pieces > 0
          BY <1>3, <4>2, <4>6
        <5>2. h.at + h.n \in Nat
          BY <1>3, <4>6, AllHolesAre
        <5>. QED  BY <1>3, <3>2, <4>2, <4>3, <4>4, <4>5, <5>1, <5>2
      <4>7. CASE h \in kept
        <5>1. h.at + h.n <= stop /\ kept # {}
          BY <1>4, <4>7
        <5>. QED  BY <1>3, <3>2, <4>2, <4>3, <4>4, <4>5, <5>1
      <4>. QED  BY <1>6, <4>6, <4>7
    <3>. QED  BY <3>1, <3>2
  <2>. QED  BY <1>1, <1>3, <2>1, <2>2 DEF HolesAside
<1>. QED  BY <1>5, <1>6, <1>9, <1>10

LEMMA SweepFrees ==
  ASSUME HeapInv, NEW m \in Mutators, NEW b, NEW g, NEW lo, NEW stop, NEW end, NEW kept,
         SweepsTo(m, b, g, lo, stop, end, kept), IInv'
  PROVE  /\ Free' \subseteq Free \cup Clears(b, g, stop) /\ ObjectsApart' /\ SweptWhole'
         /\ Clean'
<1>. DEFINE W == Clears(b, g, stop)
<1>1. /\ Only(m) /\ b \in Blocks /\ g \in 0 .. G /\ lo \in 0 .. g /\ Ends(b, g, stop, end)
      /\ list'["partly_full"] = list["partly_full"]
      /\ kept = {} \/ kept = Passed(b, g, lo, stop)
      /\ dirty' = (dirty \ W) \cup Links(kept)
      /\ \A c \in Blocks : c # b => summary'[c] = summary[c]
      /\ zero' = zero /\ Threads' = Threads
      /\ \A u \in Threads : u # m => alloc'[u] = alloc[u]
  BY DEF SweepsTo, Only
<1>2. IF stop < G
      THEN alloc'[m].block = b /\ alloc'[m].alloc = stop /\ alloc'[m].sweep = end
      ELSE alloc'[m].block = NoBlock /\ alloc'[m].alloc = 0 /\ alloc'[m].sweep = 0
  BY DEF SweepsTo
<1>3. /\ g \in Nat /\ lo \in Nat /\ G \in Nat /\ lo <= g /\ NoBlock \notin Blocks
      /\ stop \in g .. G /\ end \in stop .. G
      /\ m \in Threads /\ Typed /\ Vacant' = Vacant
      /\ b \notin Vacant \cup list["partly_full"]
      /\ \A u \in Threads : u # m => alloc[u].block # b
      /\ \A u \in Threads : alloc[u].block \in Blocks \cup {NoBlock}
      /\ alloc[m].block = b => alloc[m].alloc = lo /\ alloc[m].sweep = g
      /\ b \in list["to_sweep"] \/ alloc[m].block = b
  BY SweepKeeps
<1>4. /\ \A h \in kept : h \in HoleSet /\ h.block = b /\ h.at \in lo .. stop - 1
      /\ \A h \in kept : Inside(h) \subseteq W \/ (lo < g /\ Inside(h) = {b} \X (lo .. g - 1))
      /\ \A h, k \in kept : h # k => Inside(h) \cap Inside(k) = {}
  <2>1. \A h \in Passed(b, g, lo, stop) :
          h \in HoleSet /\ h.block = b /\ h.at \in lo .. stop - 1 /\ h.at + h.n <= stop
    BY <1>1, PassedAre
  <2>3. \A h \in Passed(b, g, lo, stop) :
          \/ Inside(h) \subseteq Clears(b, g, stop)
          \/ lo < g /\ h = Hole(b, lo, g - lo) /\ Inside(h) = {b} \X (lo .. g - 1)
    <3>1. b \in Blocks /\ g \in 0 .. G /\ lo \in 0 .. g /\ Ends(b, g, stop, end)
      BY <1>1
    <3>. QED  BY <3>1, PassedAre
  <2>2. \A h, k \in Passed(b, g, lo, stop) : h # k => Inside(h) \cap Inside(k) = {}
    BY <1>1, PassedAre
  <2>. QED  BY <1>1, <2>1, <2>2, <2>3
<1>5. /\ AllHoles' = AllHoles \cup kept /\ HolesApart' /\ HolesAside'
      /\ \A h \in kept, k \in AllHoles : <<h.block, h.at>> \notin Inside(k)
  BY SweepHoles
<1>6. (\A u \in Threads : Registers(u)') /\ Counts'
  BY SweepCounts
<1>7. Typed'
  BY <1>1, <1>5, <1>6, TypedNext
<1>8. /\ Placed' = Placed \ W
      /\ \A o \in Placed' : o \in Placed /\ Extent(o)' = Extent(o)
      /\ Free' \subseteq Free \cup W => ObjectsApart'
      /\ \A o \in Placed' : o[1] = b /\ o[2] < end => Extent(o) \subseteq {b} \X (0 .. end - 1)
  BY SweepWipes
<1>9. /\ W \subseteq {b} \X (g .. end - 1)
      /\ \A i \in stop .. end - 1 : <<b, i>> \in W
  BY <1>1, ClearsIs
<1>10. lo < g => alloc[m].block = b /\ alloc[m].alloc = lo /\ alloc[m].sweep = g
  <2>1. b \in list["to_sweep"] => lo = 0 /\ g = 0
    BY DEF SweepsTo
  <2>. QED  BY <1>3, <2>1
<1>. HIDE DEF W
<1>11. Free' \subseteq Free \cup W
  <2>1. ASSUME NEW c \in Blocks, NEW i \in 0 .. G - 1,
               InHole(c, i)' \/ InRoom(c, i)' \/ InTail(c, i)' \/ c \in Vacant'
        PROVE  \/ InHole(c, i) \/ InRoom(c, i) \/ InTail(c, i) \/ c \in Vacant
               \/ <<c, i>> \in W
    <3>1. CASE InHole(c, i)'
      <4>1. PICK h \in AllHoles' : h.block = c /\ i \in h.at .. h.at + h.n - 1
        BY <3>1 DEF InHole
      <4>2. CASE h \in AllHoles
        BY <4>1, <4>2 DEF InHole
      <4>3. CASE h \in kept
        <5>1. <<c, i>> \in Inside(h)
          BY <1>4, <4>1, <4>3, HoleIs
        <5>2. CASE Inside(h) \subseteq W
          BY <5>1, <5>2
        <5>3. CASE lo < g /\ Inside(h) = {b} \X (lo .. g - 1)
          <6>1. c = b /\ i \in lo .. g - 1
            BY <5>1, <5>3
          <6>2. InRoom(c, i)
            BY <1>3, <1>10, <5>3, <6>1 DEF InRoom
          <6>. QED  BY <6>2
        <5>. QED  BY <1>4, <4>3, <5>2, <5>3
      <4>. QED  BY <1>5, <4>1, <4>2, <4>3
    <3>2. CASE InRoom(c, i)'
      <4>1. PICK u \in Threads : /\ alloc'[u].block = c
                                 /\ i \in alloc'[u].alloc .. alloc'[u].sweep - 1
        BY <1>1, <3>2 DEF InRoom
      <4>2. CASE u # m
        BY <1>1, <4>1, <4>2 DEF InRoom
      <4>3. CASE u = m
        BY <1>2, <1>3, <1>9, <4>1, <4>3
      <4>. QED  BY <4>2, <4>3
    <3>3. CASE InTail(c, i)'
      <4>1. c \in list["partly_full"] /\ c # b
        BY <1>1, <1>3, <3>3 DEF InTail
      <4>. QED  BY <1>1, <3>3, <4>1 DEF InTail
    <3>. QED  BY <1>3, <2>1, <3>1, <3>2, <3>3
  <2>. QED  BY <1>3, <1>7, <2>1, FreeWithin
<1>12. SweptWhole'
  <2>1. ASSUME NEW u \in Threads, alloc'[u].block # NoBlock, NEW o \in Placed',
               o[1] = alloc'[u].block, o[2] < alloc'[u].sweep
        PROVE  Extent(o) \subseteq {o[1]} \X (0 .. alloc'[u].sweep - 1)
    <3>1. CASE u # m
      BY <1>1, <1>8, <2>1, <3>1 DEF HeapInv, SweptWhole
    <3>2. CASE u = m
      BY <1>2, <1>8, <2>1, <3>2
    <3>. QED  BY <3>1, <3>2
  <2>. QED  BY <1>1, <1>8, <2>1 DEF SweptWhole
<1>13. Clean'
  <2>1. \A x \in Links(kept) : \E h \in kept : x = <<b, h.at>> /\ h.at \in lo .. stop - 1
                                              /\ x = <<h.block, h.at>>
    BY <1>4 DEF Links
  <2>2. zero' \subseteq Vacant' /\ (zero' \X Granules) \cap dirty' = {}
    <3>1. zero \subseteq Vacant /\ (zero \X Granules) \cap dirty = {}
      BY DEF HeapInv, Clean
    <3>2. (zero \X Granules) \cap Links(kept) = {}
      BY <1>3, <2>1, <3>1
    <3>. QED  BY <1>1, <1>3, <3>1, <3>2
  <2>3. ASSUME NEW u \in Threads
        PROVE  \A h \in Leftover(alloc'[u]) : Inside(h) \cap dirty' = {}
    <3>1. /\ alloc'[u].alloc \in 0 .. G /\ alloc'[u].sweep \in alloc'[u].alloc .. G
          /\ alloc[u].alloc \in 0 .. G /\ alloc[u].sweep \in alloc[u].alloc .. G
      BY <1>6 DEF HeapInv, Registers
    <3>2. ASSUME NEW i \in alloc'[u].alloc .. alloc'[u].sweep - 1
          PROVE  <<alloc'[u].block, i>> \notin dirty'
      <4>1. CASE u = m
        <5>1. alloc'[m].block = b /\ i \in stop .. end - 1
          <6>1. stop < G
            BY <1>2, <1>3, <3>2, <4>1
          <6>. QED  BY <1>2, <3>2, <4>1, <6>1
        <5>2. <<b, i>> \in W
          BY <1>9, <5>1
        <5>3. <<b, i>> \notin Links(kept)
          BY <1>3, <2>1, <5>1
        <5>. QED  BY <1>1, <4>1, <5>1, <5>2, <5>3
      <4>2. CASE u # m
        <5>1. alloc'[u] = alloc[u] /\ alloc[u].block # b
          BY <1>1, <1>3, <4>2
        <5>2. <<alloc[u].block, i>> \notin dirty
          BY <3>1, <3>2, <5>1, RoomClean DEF HeapInv, Clean
        <5>3. <<alloc[u].block, i>> \notin Links(kept)
          BY <2>1, <5>1
        <5>. QED  BY <1>1, <5>1, <5>2, <5>3
      <4>. QED  BY <4>1, <4>2
    <3>. QED  BY <3>1, <3>2, RoomClean
  <2>4. ASSUME NEW c \in list["partly_full"]
        PROVE  ({c} \X (G - summary'[c].fragments .. G - 1)) \cap dirty' = {}
    <3>1. c \in Blocks /\ c # b
      BY <1>3, ListIs DEF HeapInv, IInv, Records
    <3>2. ({c} \X (G - summary[c].fragments .. G - 1)) \cap Links(kept) = {}
      BY <2>1, <3>1
    <3>3. ({c} \X (G - summary[c].fragments .. G - 1)) \cap dirty = {}
      BY DEF HeapInv, Clean
    <3>4. summary'[c] = summary[c]
      BY <1>1, <3>1
    <3>. QED  BY <1>1, <3>2, <3>3, <3>4
  <2>5. ASSUME NEW k \in AllHoles'
        PROVE  Inside(k) \cap dirty' \subseteq {<<k.block, k.at>>}
    <3>1. CASE k \in AllHoles
      <4>1. Inside(k) \cap Links(kept) = {}
        BY <1>5, <2>1, <3>1
      <4>2. Inside(k) \cap dirty \subseteq {<<k.block, k.at>>}
        BY <3>1 DEF HeapInv, Clean
      <4>. QED  BY <1>1, <4>1, <4>2
    <3>2. CASE k \in kept
      <4>1. Inside(k) \cap (dirty \ W) = {}
        <5>1. CASE Inside(k) \subseteq W
          BY <5>1
        <5>2. CASE lo < g /\ Inside(k) = {b} \X (lo .. g - 1)
          <6>1. \A i \in lo .. g - 1 : <<b, i>> \notin dirty
            <7>1. alloc[m].block = b /\ alloc[m].alloc = lo /\ alloc[m].sweep = g
              BY <1>10, <5>2
            <7>2. alloc[m].alloc \in 0 .. G /\ alloc[m].sweep \in alloc[m].alloc .. G
              BY <1>3 DEF HeapInv, Registers
            <7>3. \A h \in Leftover(alloc[m]) : Inside(h) \cap dirty = {}
              BY <1>3 DEF HeapInv, Clean
            <7>4. \A i \in alloc[m].alloc .. alloc[m].sweep - 1 : <<alloc[m].block, i>> \notin dirty
              BY <7>2, <7>3, RoomClean
            <7>. QED  BY <7>1, <7>4
          <6>. QED  BY <5>2, <6>1
        <5>. QED  BY <1>4, <3>2, <5>1, <5>2
      <4>2. ASSUME NEW x \in Inside(k), x \in Links(kept)
            PROVE  x = <<k.block, k.at>>
        <5>1. PICK h \in kept : x = <<h.block, h.at>>
          BY <2>1, <4>2
        <5>2. x \in Inside(h)
          BY <1>4, <5>1, HoleIs
        <5>3. h = k
          BY <1>4, <3>2, <4>2, <5>2
        <5>. QED  BY <5>1, <5>3
      <4>. QED  BY <1>1, <4>1, <4>2
    <3>. QED  BY <1>5, <3>1, <3>2
  <2>. QED  BY <1>1, <2>2, <2>3, <2>4, <2>5 DEF Clean, Granules
<1>. QED  BY <1>8, <1>11, <1>12, <1>13 DEF W

LEMMA SweepToHeap ==
  ASSUME HeapInv, NEW m \in Mutators, NEW b, NEW g, NEW lo, NEW stop, NEW end, NEW kept,
         SweepsTo(m, b, g, lo, stop, end, kept), IInv'
  PROVE  HeapInv'
<1>. DEFINE W == Clears(b, g, stop)
<1>1. /\ Only(m) /\ b \in Blocks /\ g \in 0 .. G /\ lo \in 0 .. g /\ Ends(b, g, stop, end)
      /\ kept = {} \/ kept = Passed(b, g, lo, stop)
      /\ dirty' = (dirty \ W) \cup Links(kept) /\ phase \in {"run", "stopping"}
      /\ list'["to_sweep"] = list["to_sweep"] \ {b}
      /\ \A u \in Threads : u # m => alloc'[u] = alloc[u]
      /\ UNCHANGED <<zero, candidate, marked, current_mark, survivor_mark, evacuating, reserve,
                     phase, kind, count, held, allocated>>
  BY DEF SweepsTo, Only, space_vars, gc_vars
<1>2. IF stop < G
      THEN alloc'[m].block = b /\ alloc'[m].alloc = stop /\ alloc'[m].sweep = end
      ELSE alloc'[m].block = NoBlock /\ alloc'[m].alloc = 0 /\ alloc'[m].sweep = 0
  BY DEF SweepsTo
<1>3. /\ g \in Nat /\ G \in Nat /\ stop \in g .. G /\ end \in stop .. G /\ m \in Threads
      /\ MemoryTypes /\ NoBlock \notin Blocks
      /\ \A u \in Threads : u # m => alloc[u].block # b
      /\ alloc[m].block \in {b, NoBlock}
      /\ alloc[m].block = b => alloc[m].sweep = g
      /\ b \in list["to_sweep"] \/ alloc[m].block = b
  BY SweepKeeps
<1>4. /\ (\A u \in Threads : Registers(u)') /\ Counts' /\ HolesApart' /\ HolesAside'
      /\ ObjectsApart' /\ SweptWhole' /\ Clean'
  BY SweepCounts, SweepHoles, SweepFrees
<1>5. /\ W \subseteq Locations /\ Placed' = Placed \ W /\ ends' = ends \ W
      /\ byte' \in [Locations -> Marks]
      /\ \A o \in Locations : o \notin W => byte'[o] = byte[o]
      /\ \A o \in Placed : o[1] = b /\ g <= o[2] /\ o[2] < end /\ o \notin W =>
           byte[o] = survivor_mark
      /\ \A o \in held : o \notin W
  BY SweepWipes
<1>. HIDE DEF W
<1>6. Threads' = Threads /\ Mutators' = Mutators
  BY <1>1 DEF Only
<1>7. MemoryTypes'
  <2>1. \A h \in kept : h \in HoleSet
    <3>1. \A h \in Passed(b, g, lo, stop) : h \in HoleSet
      BY <1>1, PassedAre
    <3>. QED  BY <1>1, <3>1
  <2>2. Links(kept) \subseteq Locations
    BY <2>1, HoleIs, GranulesAre DEF Links
  <2>. QED  BY <1>1, <1>3, <1>5, <2>2 DEF MemoryTypes
<1>8. Bounded'
  BY <1>1, <1>6, BoundedStays DEF HeapInv
<1>9. ASSUME NEW o \in Locations, Unswept(o)'
      PROVE  Unswept(o)
  <2>1. CASE o[1] \in list'["to_sweep"]
    BY <1>1, <2>1 DEF Unswept
  <2>2. ASSUME NEW u \in Mutators, alloc'[u].block = o[1], alloc'[u].sweep <= o[2]
        PROVE  Unswept(o)
    <3>1. CASE u # m
      BY <1>1, <2>2, <3>1 DEF Unswept, Mutators
    <3>2. CASE u = m
      <4>1. o[1] = b /\ end <= o[2]
        BY <1>2, <1>3, <2>2, <3>2, GranulesAre
      <4>2. g <= o[2]
        BY <1>3, <4>1, GranulesAre
      <4>. QED  BY <1>3, <4>1, <4>2 DEF Unswept
    <3>. QED  BY <3>1, <3>2
  <2>. QED  BY <1>6, <1>9, <2>1, <2>2 DEF Unswept
<1>10. ASSUME NEW o \in Placed'
       PROVE  /\ o \in Placed /\ byte'[o] = byte[o]
              /\ byte[o] = current_mark \/ (Unswept(o) => Unswept(o)')
  <2>1. o \in Placed /\ o \notin W /\ o \in Locations /\ o[1] \in Blocks /\ o[2] \in 0 .. G - 1
    BY <1>5, GranulesAre DEF Placed
  <2>2. ASSUME Unswept(o), byte[o] # current_mark
        PROVE  Unswept(o)'
    <3>1. survivor_mark = current_mark
      BY <1>1 DEF HeapInv, HeldMarked
    <3>2. CASE o[1] # b
      <4>1. CASE o[1] \in list["to_sweep"]
        BY <1>1, <3>2, <4>1 DEF Unswept
      <4>2. ASSUME NEW u \in Mutators, alloc[u].block = o[1], alloc[u].sweep <= o[2]
            PROVE  Unswept(o)'
        <5>1. u # m /\ u \in Threads
          BY <1>3, <2>1, <3>2, <4>2 DEF Mutators
        <5>2. alloc'[u] = alloc[u]
          BY <1>1, <5>1
        <5>. QED  BY <1>6, <4>2, <5>2 DEF Unswept
      <4>. QED  BY <2>2, <4>1, <4>2 DEF Unswept
    <3>3. CASE o[1] = b
      <4>1. g <= o[2]
        <5>1. CASE b \in list["to_sweep"]
          <6>1. g = 0
            BY <5>1 DEF SweepsTo
          <6>. QED  BY <2>1, <6>1, GranulesAre
        <5>2. CASE b \notin list["to_sweep"]
          <6>1. PICK u \in Mutators : alloc[u].block = b /\ alloc[u].sweep <= o[2]
            BY <2>2, <3>3, <5>2 DEF Unswept
          <6>2. u = m
            BY <1>3, <6>1 DEF Mutators
          <6>. QED  BY <1>3, <6>1, <6>2
        <5>. QED  BY <5>1, <5>2
      <4>2. ~(o[2] < end)
        BY <1>5, <2>1, <2>2, <3>1, <3>3, <4>1
      <4>3. end <= o[2] /\ stop < G
        BY <1>3, <2>1, <4>2
      <4>4. alloc'[m].block = b /\ alloc'[m].sweep = end
        BY <1>2, <4>3
      <4>. QED  BY <1>6, <3>3, <4>3, <4>4 DEF Unswept
    <3>. QED  BY <3>2, <3>3
  <2>. QED  BY <1>5, <2>1, <2>2
<1>11. HeldMarked' /\ Busy' /\ Fresh'
  <2>1. ASSUME NEW o \in held'
        PROVE  o \in held /\ byte'[o] = byte[o] /\ (Unswept(o)' => Unswept(o))
    BY <1>1, <1>3, <1>5, <1>9 DEF MemoryTypes
  <2>2. held' \subseteq Locations
    BY <1>7 DEF MemoryTypes
  <2>. QED  BY <1>1, <1>10, <2>1, <2>2, MarksStay
<1>. QED  BY <1>4, <1>6, <1>7, <1>8, <1>11 DEF HeapInv

--------------------------------------------------------------------------------
\* What a search for a hole of a size comes to.

Fits(b, g, size) == {h \in HolesIn(b, g, survivor_mark) : h.n >= size}
First(b, g, size) == {h \in Fits(b, g, size) : \A x \in Fits(b, g, size) : h.at <= x.at}

\* Where the search stops.
StopsAt(b, g, size, stop, end) ==
  \/ First(b, g, size) = {} /\ stop = G /\ end = G
  \/ \E h \in First(b, g, size) : stop = h.at /\ end = h.at + h.n

LEMMA FirstIs ==
  ASSUME NEW b \in Blocks, NEW g \in 0 .. G, NEW size,
         NEW stop, NEW end, StopsAt(b, g, size, stop, end)
  PROVE  LET hs == HolesIn(b, g, survivor_mark)
             got == First(b, g, size)
         IN
         /\ Ends(b, g, stop, end)
         /\ \A h \in got : h \in hs /\ h.n >= size /\ h.at = stop /\ h.at + h.n = end
         /\ \A h \in hs : (\A x \in got : h.at < x.at) <=> h.at < stop
         /\ \A h \in hs : h.at < stop \/ h \in got <=> h.at <= stop
         /\ \A h \in Fits(b, g, size) : stop <= h.at
         /\ got # {} => stop < G
<1>. DEFINE hs == HolesIn(b, g, survivor_mark)
            F == Fits(b, g, size)
            got == First(b, g, size)
<1>1. \A h \in hs : h.at \in g .. G - 1 /\ h.n \in 1 .. G /\ h.at + h.n <= G
  BY HolesInAre
<1>2. \A h, k \in hs : h # k => h.at # k.at
  BY HolesInAre
<1>3. G \in Nat /\ g \in Nat
  BY GranulesAre
<1>4. /\ got \subseteq F /\ F \subseteq hs /\ (\A h \in F : h.n >= size)
      /\ \A h \in F : h \in got <=> \A x \in F : h.at <= x.at
  BY DEF First, Fits
<1>5. CASE got = {} /\ stop = G /\ end = G
  <2>1. F = {}
    <3>1. SUFFICES ASSUME F # {}
                   PROVE  FALSE
      OBVIOUS
    <3>. DEFINE S == {h.at : h \in F}
    <3>2. S \in SUBSET Nat /\ S # {}
      BY <1>1, <1>3, <1>4, <3>1
    <3>3. PICK n \in S : \A k \in S : n <= k
      BY <3>2, Least
    <3>4. PICK h \in F : n = h.at
      BY <3>3
    <3>5. h \in got
      BY <1>4, <3>3, <3>4
    <3>. QED  BY <1>5, <3>5
  <2>. QED  BY <1>1, <1>3, <1>5, <2>1 DEF Ends
<1>6. ASSUME NEW r \in got, stop = r.at, end = r.at + r.n
      PROVE  /\ Ends(b, g, stop, end) /\ \A h \in got : h = r
             /\ \A h \in F : stop <= h.at
             /\ stop < G
  <2>1. \A h \in got : h.at <= r.at /\ r.at <= h.at
    BY <1>4
  <2>2. \A h \in got : h.at \in Int /\ r.at \in Int
    BY <1>1, <1>3, <1>4
  <2>3. \A h \in got : h.at = r.at
    BY <2>1, <2>2
  <2>4. \A h \in got : h = r
    BY <1>2, <1>4, <2>3
  <2>5. stop < G
    BY <1>1, <1>3, <1>4, <1>6
  <2>. QED  BY <1>4, <1>6, <2>4, <2>5 DEF Ends
<1>7. CASE got # {}
  <2>1. PICK r \in got : stop = r.at /\ end = r.at + r.n
    BY <1>7 DEF StopsAt
  <2>2. /\ Ends(b, g, stop, end) /\ (\A h \in got : h = r) /\ stop < G
        /\ \A h \in F : stop <= h.at
    BY <1>6, <2>1
  <2>3. \A h \in hs : (\A x \in got : h.at < x.at) <=> h.at < stop
    BY <2>1, <2>2
  <2>4. ASSUME NEW h \in hs
        PROVE  h.at < stop \/ h \in got <=> h.at <= stop
    <3>1. r \in hs /\ r.at \in Int /\ h.at \in Int
      BY <1>1, <1>3, <1>4, <2>1
    <3>2. h.at = r.at => h = r
      BY <1>2, <3>1
    <3>. QED  BY <2>1, <2>2, <3>1, <3>2
  <2>. QED  BY <1>4, <2>1, <2>2, <2>3, <2>4
<1>8. got = {} => stop = G /\ end = G
  BY DEF StopsAt
<1>. QED  BY <1>5, <1>7, <1>8

LEMMA SearchIs ==
  ASSUME NEW b \in Blocks, NEW g \in 0 .. G, NEW lo \in 0 .. g, NEW size,
         NEW stop, NEW end, StopsAt(b, g, size, stop, end)
  PROVE  LET hs == HolesIn(b, g, survivor_mark)
             got == First(b, g, size)
             passed == Passed(b, g, lo, stop)
         IN
         /\ Cleared(b, g, size) = Clears(b, g, stop)
         /\ Remains(b, lo, g) \cup {h \in hs : \A x \in got : h.at < x.at} = passed
         /\ UNION {Inside(h) : h \in got \cup (passed \ Remains(b, lo, g))} = Clears(b, g, stop)
<1>. DEFINE hs == HolesIn(b, g, survivor_mark)
            F == Fits(b, g, size)
            got == First(b, g, size)
            passed == Passed(b, g, lo, stop)
            L == Remains(b, lo, g)
<1>1. /\ got \subseteq hs /\ F \subseteq hs
      /\ \A h \in hs : (\A x \in got : h.at < x.at) <=> h.at < stop
      /\ \A h \in hs : h.at < stop \/ h \in got <=> h.at <= stop
      /\ Ends(b, g, stop, end)
  <2>1. got \subseteq hs /\ F \subseteq hs
    BY DEF First, Fits
  <2>2. \A h \in hs : (\A x \in got : h.at < x.at) <=> h.at < stop
    BY FirstIs
  <2>3. \A h \in hs : h.at < stop \/ h \in got <=> h.at <= stop
    BY FirstIs
  <2>4. Ends(b, g, stop, end)
    BY FirstIs
  <2>. QED  BY <2>1, <2>2, <2>3, <2>4
<1>2. stop \in g .. G /\ g \in Nat /\ G \in Nat /\ lo \in Nat
  BY <1>1, ClearsIs, GranulesAre
<1>3. \A h \in hs : h.at \in g .. G - 1
  BY HolesInAre
<1>4. Cleared(b, g, size) = Clears(b, g, stop)
  <2>. DEFINE S == {h.at : h \in F} \cup {G}
  <2>1. Min(S) = stop
    <3>1. S \in SUBSET Int
      BY <1>1, <1>2, <1>3
    <3>2. stop \in S
      <4>1. CASE got = {}
        <5>1. stop = G
          BY <4>1 DEF StopsAt
        <5>. QED  BY <5>1
      <4>2. CASE got # {}
        <5>1. PICK h \in got : stop = h.at
          BY <4>2 DEF StopsAt
        <5>2. h \in F
          BY DEF First
        <5>. QED  BY <5>1, <5>2
      <4>. QED  BY <4>1, <4>2
    <3>3. \A h \in F : stop <= h.at
      BY FirstIs
    <3>4. \A k \in S : stop <= k
      BY <1>2, <3>3
    <3>. HIDE DEF S
    <3>. QED  BY <3>1, <3>2, <3>4, MinIs
  <2>2. S = {h.at : h \in {x \in hs : x.n >= size}} \cup {G}
    BY DEF Fits
  <2>. HIDE DEF S
  <2>3. Cleared(b, g, size) = UNION {Inside(h) : h \in {x \in hs : x.at <= Min(S)}}
    BY <2>2 DEF Cleared
  <2>. QED  BY <2>1, <2>3 DEF Clears
<1>5. L \cup {h \in hs : \A x \in got : h.at < x.at} = passed
  BY <1>1 DEF Passed, Passes
<1>6. \A h \in L : h \notin hs
  <2>1. \A h \in L : lo < g /\ h.at = lo
    BY DEF Remains, Hole
  <2>. QED  BY <1>2, <1>3, <2>1
<1>7. got \cup (passed \ L) = {x \in hs : x.at <= stop}
  <2>1. passed \ L = {h \in hs : h.at < stop}
    BY <1>6 DEF Passed, Passes
  <2>. QED  BY <1>1, <2>1
<1>8. UNION {Inside(h) : h \in got \cup (passed \ L)} = Clears(b, g, stop)
  BY <1>7 DEF Clears
<1>. QED  BY <1>4, <1>5, <1>8

\* What NextHoleInBlock does, told by where the search stops.
StopsWith(m, b, g, lo, s, others, q, stop, end, kept, d, c) ==
  LET W == Clears(b, g, stop)
      passed == Passed(b, g, lo, stop)
  IN
  /\ StopsAt(b, g, pc[m].size, stop, end) /\ Ends(b, g, stop, end)
  /\ kept = IF pc[m].size > 0 THEN passed ELSE {}
  /\ Wipe(W) /\ dirty' = (dirty \ W) \cup Links(kept)
  /\ IsSummary(d) /\ summary' = [summary EXCEPT ![b] = d]
  /\ d.holes = s.holes + Cardinality(W) /\ d.pieces = s.pieces + Cardinality(passed)
  /\ d.fragments = s.fragments + Cardinality(UNION {Inside(h) : h \in passed})
  /\ IsAllocator(c) /\ alloc' = [alloc EXCEPT ![m] = c] /\ c.holes = alloc[m].holes \cup kept
  /\ IF stop < G
     THEN /\ c.block = b /\ c.alloc = stop /\ c.sweep = end /\ list' = others
          /\ pc' = [pc EXCEPT ![m] = At(pc[m], Found(m))] /\ pc[m].size <= end - stop
     ELSE /\ c.block = NoBlock /\ c.alloc = 0 /\ c.sweep = 0
          /\ list' = [others EXCEPT ![FullList(d)] = @ \cup {b}]
          /\ pc' = [pc EXCEPT ![m] = q]
  /\ UNCHANGED <<zero, candidate, marked, holes, space_vars, gc_vars, held, allocated>>

LEMMA NextHoleStops ==
  ASSUME HeapInv, NEW m \in Threads, NEW b \in Blocks, NEW g \in 0 .. G, NEW lo \in 0 .. g,
         NEW s, NEW others, NEW q,
         NextHoleInBlock(m, b, g, Remains(b, lo, g), s, others, q)
  PROVE  \E stop, end, kept, d, c : StopsWith(m, b, g, lo, s, others, q, stop, end, kept, d, c)
<1>. DEFINE size == pc[m].size
            left == Remains(b, lo, g)
            hs == HolesIn(b, g, survivor_mark)
            got == First(b, g, size)
            passed == left \cup {h \in hs : \A x \in got : h.at < x.at}
            swept == UNION {Inside(h) : h \in got \cup (passed \ left)}
            kept == IF size > 0 THEN passed ELSE {}
            d == [holes |-> s.holes + Cardinality(swept),
                  pieces |-> s.pieces + Cardinality(passed),
                  fragments |-> s.fragments + Cardinality(UNION {Inside(h) : h \in passed})]
            a == Having(alloc[m], alloc[m].holes \cup kept)
            c(h) == With(a, b, h.at, h.at + h.n)
<1>1. /\ Wipe(Cleared(b, g, size)) /\ dirty' = (dirty \ swept) \cup Links(kept)
      /\ summary' = [summary EXCEPT ![b] = d]
      /\ UNCHANGED <<zero, candidate, marked, holes, space_vars, gc_vars, held, allocated>>
      /\ IF got = {}
         THEN /\ alloc' = [alloc EXCEPT ![m] = Reset(a)]
              /\ list' = [others EXCEPT ![FullList(d)] = @ \cup {b}]
              /\ pc' = [pc EXCEPT ![m] = q]
         ELSE /\ \E h \in got : alloc' = [alloc EXCEPT ![m] = c(h)]
              /\ list' = others
              /\ pc' = [pc EXCEPT ![m] = At(pc[m], Found(m))]
  BY DEF NextHoleInBlock, Goto, At, Having, With, First, Fits
<1>2. /\ IsSummary(d) /\ d.holes = s.holes + Cardinality(swept)
      /\ d.pieces = s.pieces + Cardinality(passed)
      /\ d.fragments = s.fragments + Cardinality(UNION {Inside(h) : h \in passed})
  BY DEF IsSummary
<1>3. IsAllocator(a) /\ a.holes = alloc[m].holes \cup kept
  BY ThreadIs, AllocatorWith, AllocatorFields
<1>4. kept = IF size > 0 THEN passed ELSE {}
  OBVIOUS
<1>. HIDE DEF a, d, kept
<1>5. /\ IsAllocator(Reset(a)) /\ Reset(a).block = NoBlock
      /\ Reset(a).alloc = 0 /\ Reset(a).sweep = 0 /\ Reset(a).holes = a.holes
  BY <1>3, AllocatorWith, AllocatorFields
<1>6. \A h : /\ IsAllocator(c(h)) /\ c(h).block = b /\ c(h).alloc = h.at
             /\ c(h).sweep = h.at + h.n /\ c(h).holes = a.holes
  BY <1>3, AllocatorWith, AllocatorFields
<1>. HIDE DEF c
<1>7. ASSUME NEW stop, NEW end, StopsAt(b, g, size, stop, end)
      PROVE  /\ Cleared(b, g, size) = Clears(b, g, stop)
             /\ passed = Passed(b, g, lo, stop) /\ swept = Clears(b, g, stop)
             /\ Ends(b, g, stop, end)
  <2>1. Cleared(b, g, size) = Clears(b, g, stop) /\ Ends(b, g, stop, end)
    BY <1>7, SearchIs, FirstIs
  <2>2. passed = Passed(b, g, lo, stop)
    BY <1>7, SearchIs
  <2>3. UNION {Inside(h) : h \in got \cup (Passed(b, g, lo, stop) \ left)} = Clears(b, g, stop)
    BY <1>7, SearchIs
  <2>. QED  BY <2>1, <2>2, <2>3
<1>. HIDE DEF passed, swept
<1>8. CASE got = {}
  <2>1. StopsAt(b, g, size, G, G)
    BY <1>8 DEF StopsAt
  <2>2. ~(G < G)
    BY GranulesAre
  <2>3. StopsWith(m, b, g, lo, s, others, q, G, G, kept, d, Reset(a))
    BY <1>1, <1>2, <1>3, <1>4, <1>5, <1>7, <1>8, <2>1, <2>2 DEF StopsWith
  <2>. QED  BY <2>3
<1>9. CASE got # {}
  <2>1. PICK h \in got : alloc' = [alloc EXCEPT ![m] = c(h)]
    BY <1>1, <1>9
  <2>. DEFINE stop == h.at
              end == h.at + h.n
  <2>2. StopsAt(b, g, size, stop, end)
    BY DEF StopsAt
  <2>3. h \in hs /\ h.n >= size /\ stop < G
    <3>1. stop < G
      BY <1>9, <2>2, FirstIs
    <3>2. h \in hs /\ h.n >= size
      BY DEF First, Fits
    <3>. QED  BY <3>1, <3>2
  <2>4. size <= end - stop
    <3>1. h.at \in g .. G - 1 /\ h.n \in 1 .. G
      BY <2>3, HolesInAre
    <3>2. size \in 0 .. G
      BY ThreadIs DEF Registers
    <3>. QED  BY <2>3, <3>1, <3>2, GranulesAre
  <2>5. c(h).alloc = stop /\ c(h).sweep = end
    BY <1>6
  <2>. HIDE DEF stop, end
  <2>6. StopsWith(m, b, g, lo, s, others, q, stop, end, kept, d, c(h))
    BY <1>1, <1>2, <1>3, <1>4, <1>6, <1>7, <1>9, <2>1, <2>2, <2>3, <2>4, <2>5 DEF StopsWith
  <2>. QED  BY <2>6
<1>. QED  BY <1>8, <1>9

LEMMA StopsSweeps ==
  ASSUME HeapInv, NEW m \in Mutators, pc[m].at \notin {"nospace", "flushed"},
         NEW b \in Blocks, NEW g \in 0 .. G, NEW lo \in 0 .. g, NEW s, NEW others, NEW q,
         NEW stop, NEW end, NEW kept, NEW d, NEW c,
         StopsWith(m, b, g, lo, s, others, q, stop, end, kept, d, c),
         \/ /\ b \in list["to_sweep"] /\ alloc[m].block = NoBlock /\ lo = 0 /\ g = 0
            /\ s.holes = 0 /\ s.pieces = 0 /\ s.fragments = 0
            /\ others = [list EXCEPT !["to_sweep"] = @ \ {b}]
         \/ /\ b \notin list["to_sweep"] /\ others = list /\ s = summary[b]
            /\ alloc[m].block = b /\ alloc[m].alloc = lo /\ alloc[m].sweep = g,
         IsProcess(q), q.at \in {"second", "sweep"}, q.at = "second" => q.size # 0,
         q.size = pc[m].size, q.obj = pc[m].obj,
         \/ q.swept \in {0, pc[m].swept}
         \/ b \in list["to_sweep"] /\ q.swept = pc[m].swept + 1
  PROVE  SweepsTo(m, b, g, lo, stop, end, kept)
<1>1. phase \in {"run", "stopping"} /\ m \in Threads /\ m \notin Workers
  BY HeapRuns
<1>2. /\ Records /\ Summaries /\ IsProcess(pc[m]) /\ Registers(m) /\ NoBlock \notin Blocks
      /\ list \in [Lists -> SUBSET Blocks] /\ MutatorInv(m)
  BY <1>1, ThreadIs DEF Records
<1>. DEFINE p == At(pc[m], Found(m))
<1>3. /\ IsProcess(p) /\ p.at = Found(m) /\ p.size = pc[m].size /\ p.swept = pc[m].swept
      /\ p.obj = pc[m].obj
  BY <1>2, ProcessWith, ProcessObj
<1>. HIDE DEF p
<1>4. /\ IsAllocator(c) /\ c.block \in Blocks \cup {NoBlock} /\ alloc' = [alloc EXCEPT ![m] = c]
      /\ pc' = [pc EXCEPT ![m] = IF stop < G THEN p ELSE q]
  BY DEF StopsWith, p
<1>5. Only(m) /\ alloc'[m] = c /\ pc'[m] = IF stop < G THEN p ELSE q
  <2>. DEFINE r == IF stop < G THEN p ELSE q
  <2>1. IsProcess(r) /\ pc' = [pc EXCEPT ![m] = r]
    BY <1>3, <1>4
  <2>. HIDE DEF r
  <2>2. Only(m) /\ alloc'[m] = c /\ pc'[m] = r
    BY <1>1, <1>4, <2>1, OnlyOne DEF HeapInv
  <2>. QED  BY <2>2 DEF r
<1>6. summary'[b] = d /\ \A x \in Blocks : x # b => summary'[x] = summary[x]
  BY <1>2, OneSummary DEF StopsWith
<1>7. /\ \A l \in {"empty", "targets", "partly_full"} : list'[l] = list[l]
      /\ list'["to_sweep"] = list["to_sweep"] \ {b}
  <2>1. /\ others \in [Lists -> SUBSET Blocks]
        /\ \A l \in {"empty", "targets", "partly_full"} : others[l] = list[l]
        /\ others["to_sweep"] = list["to_sweep"] \ {b}
    BY <1>2, ListIs
  <2>2. list' = others \/ \E l \in {"promoted", "full"} : list' = [others EXCEPT ![l] = @ \cup {b}]
    BY ListIs DEF StopsWith
  <2>. QED  BY <2>1, <2>2, ListIs
<1>8. kept = {} \/ (kept = Passed(b, g, lo, stop) /\ m # collector)
  <2>1. m = collector => pc[m].size = 0
    BY <1>2 DEF MutatorInv
  <2>. QED  BY <2>1 DEF StopsWith
<1>9. /\ Found(m) \in {"hole", "bump"} /\ (pc[m].size = 0 => Found(m) = "hole")
      /\ pc[m].size \in 0 .. G /\ pc[m].obj \in Locations \cup {<<NoBlock, 0>>}
      /\ Labels \ {"idle", "flushed", "nospace"} = {"bump", "hole", "second", "sweep", "partly",
                                                    "empty", "release", "copy"}
  BY <1>2, FoundIs DEF Registers, Labels
<1>10. stop < G => stop + pc[m].size <= end
  <2>1. stop \in g .. G /\ end \in stop .. G
    BY ClearsIs DEF StopsWith
  <2>2. stop < G => pc[m].size <= end - stop
    BY DEF StopsWith
  <2>. QED  BY <1>9, <2>1, <2>2, GranulesAre
<1>11. LET r == pc'[m] IN
       /\ r.at \in Labels \ {"idle", "flushed", "nospace"} /\ r.size \in 0 .. G
       /\ r.obj \in Locations \cup {<<NoBlock, 0>>}
       /\ r.at \in {"bump", "second"} => r.size # 0
       /\ r.at = "bump" => stop < G /\ stop + r.size <= end
       /\ r.at # "release"
       /\ r.swept \in {0, pc[m].swept} \/ (b \in list["to_sweep"] /\ r.swept = pc[m].swept + 1)
  <2>1. CASE stop < G
    BY <1>3, <1>5, <1>9, <1>10, <2>1
  <2>2. CASE ~(stop < G)
    BY <1>5, <1>9, <2>2
  <2>. QED  BY <2>1, <2>2
<1>12. LET W == Clears(b, g, stop)
           passed == Passed(b, g, lo, stop)
           new == b \in list["to_sweep"]
       IN
       /\ d.holes = (IF new THEN 0 ELSE summary[b].holes) + Cardinality(W)
       /\ d.pieces = (IF new THEN 0 ELSE summary[b].pieces) + Cardinality(passed)
       /\ d.fragments = (IF new THEN 0 ELSE summary[b].fragments)
                          + Cardinality(UNION {Inside(h) : h \in passed})
  BY DEF StopsWith
<1>13. /\ Ends(b, g, stop, end) /\ Wipe(Clears(b, g, stop))
       /\ dirty' = (dirty \ Clears(b, g, stop)) \cup Links(kept)
       /\ c.holes = alloc[m].holes \cup kept
       /\ IF stop < G THEN c.block = b /\ c.alloc = stop /\ c.sweep = end
          ELSE c.block = NoBlock /\ c.alloc = 0 /\ c.sweep = 0
       /\ UNCHANGED <<zero, candidate, marked, holes, space_vars, gc_vars, held, allocated>>
  BY DEF StopsWith
<1>14. IF b \in list["to_sweep"] THEN alloc[m].block = NoBlock /\ lo = 0 /\ g = 0
       ELSE alloc[m].block = b /\ alloc[m].alloc = lo /\ alloc[m].sweep = g
  OBVIOUS
<1>. QED  BY <1>1, <1>5, <1>6, <1>7, <1>8, <1>11, <1>12, <1>13, <1>14 DEF SweepsTo

LEMMA SweepOnHeap ==
  ASSUME HeapInv, NEW m \in Mutators, SweepOn(m)
  PROVE  HeapInv'
<1>. DEFINE a == alloc[m]
            at == IF pc[m].size = 0 THEN "sweep" ELSE "second"
            q == Sweeping(pc[m], at, 0)
<1>1. CASE a.block = NoBlock
  BY <1>1, SweepOnGoesOn
<1>2. CASE a.block # NoBlock
  <2>1. /\ pc[m].at = "hole"
        /\ NextHoleInBlock(m, a.block, a.sweep, Leftover(a), summary[a.block], list, q)
    BY <1>2 DEF SweepOn, Sweeping
  <2>2. m \in Threads /\ m \notin Workers
    BY <2>1, HeapRuns
  <2>3. IsProcess(pc[m]) /\ Registers(m) /\ a.block \in Blocks \cup {NoBlock} /\ Apart
    BY <2>2, ThreadIs DEF HeapInv, IInv
  <2>4. /\ IsProcess(q) /\ q.at = at /\ q.size = pc[m].size /\ q.swept = 0 /\ q.obj = pc[m].obj
    <3>. HIDE DEF at
    <3>. QED  BY <2>3, ProcessWith, ProcessObj
  <2>5. q.at \in {"second", "sweep"} /\ (q.at = "second" => q.size # 0)
    BY <2>4
  <2>. HIDE DEF q, at
  <2>6. PICK b, lo, g : b = a.block /\ lo = a.alloc /\ g = a.sweep
    OBVIOUS
  <2>7. b \in Blocks /\ g \in 0 .. G /\ lo \in 0 .. g /\ Remains(b, lo, g) = Leftover(a)
    BY <1>2, <2>3, <2>6, GranulesAre DEF Registers, Remains, Leftover
  <2>8. NextHoleInBlock(m, b, g, Remains(b, lo, g), summary[b], list, q)
    BY <2>1, <2>6, <2>7
  <2>9. PICK stop, end, kept, d, c :
          StopsWith(m, b, g, lo, summary[b], list, q, stop, end, kept, d, c)
    BY <2>2, <2>7, <2>8, NextHoleStops
  <2>10. b \notin list["to_sweep"]
    BY <2>2, <2>3, <2>6, ListIs DEF Apart
  <2>11. SweepsTo(m, b, g, lo, stop, end, kept)
    BY <2>1, <2>4, <2>5, <2>6, <2>7, <2>9, <2>10, StopsSweeps
  <2>12. IInv'
    BY SweepOnIInv DEF HeapInv
  <2>. QED  BY <2>11, <2>12, SweepToHeap
<1>. QED  BY <1>1, <1>2

LEMMA SweepHeap ==
  ASSUME HeapInv, NEW m \in Mutators, Sweep(m)
  PROVE  HeapInv'
<1>. DEFINE q == Swept(pc[m], pc[m].swept + 1)
            others(b) == [list EXCEPT !["to_sweep"] = @ \ {b}]
            none == [holes |-> 0, pieces |-> 0, fragments |-> 0]
<1>1. /\ pc[m].at = "sweep"
      /\ \/ \E b \in list["to_sweep"] : NextHoleInBlock(m, b, 0, {}, none, others(b), q)
         \/ /\ Goto(m, "partly")
            /\ UNCHANGED <<memory_vars, flag_vars, list, holes, alloc, space_vars, gc_vars,
                           held, allocated>>
  BY DEF Sweep, Swept
<1>2. m \in Threads /\ m \notin Workers
  BY <1>1, HeapRuns
<1>3. IsProcess(pc[m]) /\ MutatorInv(m) /\ list \in [Lists -> SUBSET Blocks]
  BY <1>2, ThreadIs DEF Records
<1>4. /\ IsProcess(q) /\ q.at = "sweep" /\ q.size = pc[m].size /\ q.swept = pc[m].swept + 1
      /\ q.obj = pc[m].obj /\ alloc[m].block = NoBlock
      /\ none.holes = 0 /\ none.pieces = 0 /\ none.fragments = 0
  BY <1>1, <1>3, ProcessWith, ProcessObj DEF MutatorInv
<1>. HIDE DEF q, none
<1>5. ASSUME NEW b \in list["to_sweep"], NextHoleInBlock(m, b, 0, {}, none, others(b), q)
      PROVE  HeapInv'
  <2>1. b \in Blocks /\ 0 \in 0 .. G /\ 0 \in 0 .. 0 /\ Remains(b, 0, 0) = {}
    BY <1>3, ListIs, GranulesAre DEF Remains
  <2>. DEFINE o == others(b)
  <2>2. o = [list EXCEPT !["to_sweep"] = @ \ {b}]
    OBVIOUS
  <2>3. NextHoleInBlock(m, b, 0, Remains(b, 0, 0), none, o, q)
    BY <1>5, <2>1
  <2>. HIDE DEF o
  <2>4. PICK stop, end, kept, d, c : StopsWith(m, b, 0, 0, none, o, q, stop, end, kept, d, c)
    BY <1>2, <2>1, <2>3, NextHoleStops
  <2>5. SweepsTo(m, b, 0, 0, stop, end, kept)
    BY <1>1, <1>4, <2>1, <2>2, <2>4, StopsSweeps
  <2>6. IInv'
    BY SweepIInv DEF HeapInv
  <2>. QED  BY <2>5, <2>6, SweepToHeap
<1>. QED  BY <1>1, <1>5, SweepGoesOn

\* A block that a mutator releases is swept to its end.
LEMMA ReleaseFullHeap ==
  ASSUME HeapInv, NEW m \in Mutators, ReleaseBlock(m),
         alloc[m].block # NoBlock, ~PartlyFullRoom(alloc[m])
  PROVE  HeapInv'
<1>. DEFINE a == alloc[m]
            p == At(Resting, "release")
<1>1. PICK b, lo, g : b = a.block /\ lo = a.alloc /\ g = a.sweep
  OBVIOUS
<1>. DEFINE more == HolesIn(b, g, survivor_mark)
            all == more \cup Leftover(a)
            swept == UNION {Inside(h) : h \in more}
            d == [holes |-> summary[b].holes + Cardinality(swept),
                  pieces |-> summary[b].pieces + Cardinality(all),
                  fragments |-> summary[b].fragments
                                  + Cardinality(UNION {Inside(h) : h \in all})]
            c == Reset(Having(a, a.holes \cup all))
<1>2. /\ phase \in {"run", "stopping"} /\ m # collector /\ pc[m].at \in {"idle", "nospace"}
      /\ Wipe(swept) /\ dirty' = (dirty \ swept) \cup Links(all)
      /\ summary' = [summary EXCEPT ![b] = d]
      /\ list' = [list EXCEPT ![FullList(d)] = @ \cup {b}]
      /\ alloc' = [alloc EXCEPT ![m] = c] /\ pc' = [pc EXCEPT ![m] = p]
      /\ UNCHANGED <<zero, candidate, marked, holes, space_vars, gc_vars, held, allocated>>
  BY <1>1 DEF ReleaseBlock, Running, Push, Having, At
<1>3. m \in Threads /\ m \notin Workers
  BY DEF Mutators
<1>4. /\ Registers(m) /\ a.block \in Blocks \cup {NoBlock} /\ Apart /\ Records /\ Summaries
      /\ NoBlock \notin Blocks /\ IsAllocator(a) /\ list \in [Lists -> SUBSET Blocks]
      /\ MutatorInv(m)
  BY <1>3, ThreadIs DEF HeapInv, IInv, Records
<1>5. /\ b \in Blocks /\ g \in 0 .. G /\ lo \in 0 .. g /\ Remains(b, lo, g) = Leftover(a)
      /\ b \notin list["to_sweep"]
  <2>1. b \in Blocks /\ g \in 0 .. G /\ lo \in 0 .. g
    BY <1>1, <1>4, GranulesAre DEF Registers
  <2>2. Remains(b, lo, g) = Leftover(a)
    BY <1>1 DEF Remains, Leftover
  <2>3. b \notin list["to_sweep"]
    BY <1>1, <1>3, <1>4, ListIs DEF Apart
  <2>. QED  BY <2>1, <2>2, <2>3
<1>6. Ends(b, g, G, G) /\ all = Passed(b, g, lo, G) /\ swept = Clears(b, g, G)
  <2>1. \A h \in more : h.at < G /\ h.at <= G
    <3>1. \A h \in more : h.at \in g .. G - 1
      BY <1>5, HolesInAre
    <3>. QED  BY <1>5, <3>1, GranulesAre
  <2>. QED  BY <1>5, <2>1 DEF Ends, Passed, Passes, Clears
<1>7. /\ IsAllocator(c) /\ c.block = NoBlock /\ c.alloc = 0 /\ c.sweep = 0
      /\ c.holes = a.holes \cup all
  <2>1. IsAllocator(Having(a, a.holes \cup all))
    BY <1>4, AllocatorWith
  <2>2. Having(a, a.holes \cup all).holes = a.holes \cup all
    BY <1>4, AllocatorFields
  <2>. QED  BY <2>1, <2>2, AllocatorWith, AllocatorFields
<1>8. IsSummary(d) /\ d.holes = summary[b].holes + Cardinality(swept)
      /\ d.pieces = summary[b].pieces + Cardinality(all)
      /\ d.fragments = summary[b].fragments + Cardinality(UNION {Inside(h) : h \in all})
  BY DEF IsSummary
<1>9. IsProcess(p) /\ p.at = "release" /\ p.size = 0 /\ p.swept = 0 /\ p.obj = <<NoBlock, 0>>
  BY RestingIs, RestingObj, ProcessWith, ProcessObj
<1>. HIDE DEF c, d, p
<1>10. Only(m) /\ alloc'[m] = c /\ pc'[m] = p
  BY <1>2, <1>3, <1>7, <1>9, OnlyOne DEF HeapInv
<1>11. summary'[b] = d /\ \A x \in Blocks : x # b => summary'[x] = summary[x]
  BY <1>2, <1>4, <1>5, <1>8, OneSummary
<1>12. /\ \A l \in {"empty", "targets", "partly_full"} : list'[l] = list[l]
       /\ list'["to_sweep"] = list["to_sweep"] \ {b}
  <2>1. PICK l \in {"promoted", "full"} : list' = [list EXCEPT ![l] = @ \cup {b}]
    BY <1>2, ListIs
  <2>. QED  BY <1>4, <1>5, <2>1, ListIs
<1>13. /\ p.at \in Labels \ {"idle", "flushed", "nospace"} /\ 0 \in 0 .. G /\ ~(G < G)
  BY <1>9, GranulesAre DEF Labels
<1>. HIDE DEF all, swept
<1>14. /\ Wipe(Clears(b, g, G)) /\ dirty' = (dirty \ Clears(b, g, G)) \cup Links(all)
       /\ d.holes = summary[b].holes + Cardinality(Clears(b, g, G))
       /\ d.pieces = summary[b].pieces + Cardinality(Passed(b, g, lo, G))
       /\ d.fragments = summary[b].fragments
                          + Cardinality(UNION {Inside(h) : h \in Passed(b, g, lo, G)})
  BY <1>2, <1>6, <1>8
<1>15. SweepsTo(m, b, g, lo, G, G, all)
  BY <1>1, <1>2, <1>5, <1>6, <1>7, <1>9, <1>10, <1>11, <1>12, <1>13, <1>14 DEF SweepsTo
<1>16. IInv'
  BY ReleaseBlockIInv DEF HeapInv
<1>. QED  BY <1>3, <1>15, <1>16, SweepToHeap

--------------------------------------------------------------------------------
\* Moving blocks.

LEMMA BystanderRegisters ==
  ASSUME \A u \in Threads : Registers(u), NEW t \in Threads, Registers(t)', Threads' = Threads,
         \A u \in Threads : u # t => alloc'[u] = alloc[u] /\ pc'[u] = pc[u]
  PROVE  \A u \in Threads : Registers(u)'
<1>1. ASSUME NEW u \in Threads
      PROVE  Registers(u)'
  <2>1. CASE u = t
    BY <2>1
  <2>2. CASE u # t
    BY <2>2 DEF Registers
  <2>. QED  BY <2>1, <2>2
<1>. QED  BY <1>1

\* A thread takes a block or gives one away, and leaves objects as they are.
LEMMA Moved ==
  ASSUME HeapInv, IInv', NEW t \in Threads, Only(t),
         UNCHANGED <<byte, ends, candidate, marked, space_vars, gc_vars, held, allocated>>,
         zero' \subseteq zero, dirty' \subseteq Locations,
         list'["to_sweep"] = list["to_sweep"],
         \/ t \in Workers \/ alloc[t].block = NoBlock \/ alloc[t].sweep = G
         \/ alloc'[t].block = alloc[t].block /\ alloc'[t].sweep = alloc[t].sweep,
         \/ alloc'[t].block = NoBlock \/ alloc'[t].sweep = G
         \/ alloc'[t].block = alloc[t].block /\ alloc'[t].sweep = alloc[t].sweep,
         t \in Workers => pc'[t].obj = pc[t].obj,
         t \in Workers => (pc[t].at = "idle" => pc'[t].at = "idle"),
         Registers(t)', Counts', HolesApart', HolesAside', Clean', Free' \subseteq Free
  PROVE  HeapInv'
<1>1. /\ Threads' = Threads /\ Mutators' = Mutators
      /\ \A u \in Threads : u # t => alloc'[u] = alloc[u] /\ pc'[u] = pc[u]
  BY DEF Only
<1>2. \A u \in Threads : Registers(u)'
  BY <1>1, BystanderRegisters DEF HeapInv
<1>3. MemoryTypes' /\ Bounded'
  BY <1>1, BoundedStays DEF HeapInv, MemoryTypes, space_vars, gc_vars
<1>4. Placed' = Placed /\ (\A o : Extent(o)' = Extent(o)) /\ held' = held /\ byte' = byte
  BY DEF Placed, Extent
<1>5. ObjectsApart'
  BY <1>4 DEF HeapInv, ObjectsApart
<1>6. \A o \in Placed : /\ o \in Locations /\ o[2] \in 0 .. G - 1
                        /\ Extent(o) \subseteq {o[1]} \X (0 .. G - 1)
  <2>1. ASSUME NEW o \in Placed
        PROVE  /\ o \in Locations /\ o[2] \in 0 .. G - 1
               /\ Extent(o) \subseteq {o[1]} \X (0 .. G - 1)
    <3>1. o \in Locations /\ Ended(o)
      BY DEF HeapInv, ObjectsApart, Placed, Ended
    <3>2. LastOf(o) \in o[2] .. G - 1 /\ Extent(o) = {o[1]} \X (o[2] .. LastOf(o))
      BY <3>1, LastIs, ExtentIs
    <3>3. o[2] \in 0 .. G - 1 /\ G \in Nat
      BY <3>1, GranulesAre
    <3>4. o[2] .. LastOf(o) \subseteq 0 .. G - 1
      BY <3>2, <3>3
    <3>. QED  BY <3>1, <3>2, <3>3, <3>4
  <2>. QED  BY <2>1
<1>7. SweptWhole'
  <2>1. ASSUME NEW u \in Threads, alloc'[u].block # NoBlock, NEW o \in Placed,
               o[1] = alloc'[u].block, o[2] < alloc'[u].sweep
        PROVE  Extent(o) \subseteq {o[1]} \X (0 .. alloc'[u].sweep - 1)
    <3>1. CASE alloc'[u].block = alloc[u].block /\ alloc'[u].sweep = alloc[u].sweep
      BY <2>1, <3>1 DEF HeapInv, SweptWhole
    <3>2. CASE alloc'[u].sweep = G
      BY <1>6, <3>2
    <3>. QED  BY <1>1, <2>1, <3>1, <3>2
  <2>. QED  BY <1>1, <1>4, <2>1 DEF SweptWhole
<1>8. ASSUME NEW o \in Locations
      PROVE  Unswept(o)' <=> Unswept(o)
  <2>1. o[2] \in 0 .. G - 1 /\ G \in Nat /\ ~(G <= o[2]) /\ o[1] \in Blocks /\ NoBlock \notin Blocks
    BY GranulesAre, NoflAssumption
  <2>2. ASSUME NEW u \in Mutators
        PROVE  alloc'[u].block = o[1] /\ alloc'[u].sweep <= o[2]
                 <=> alloc[u].block = o[1] /\ alloc[u].sweep <= o[2]
    BY <1>1, <2>1 DEF Mutators
  <2>. QED  BY <1>1, <2>2 DEF Unswept
<1>9. HeldMarked'
  BY <1>4, <1>8 DEF HeapInv, HeldMarked, MemoryTypes, space_vars, gc_vars
<1>10. Fresh'
  BY <1>4, <1>6, <1>8 DEF HeapInv, Fresh, nofl_advance_current_mark, space_vars, gc_vars
<1>11. Busy'
  <2>1. Workers \subseteq Threads
    BY DEF HeapInv, IInv, Records
  <2>2. \A w \in Workers : /\ pc'[w].at # "idle" => pc[w].at # "idle"
                           /\ pc'[w].obj = pc[w].obj
    BY <1>1, <2>1
  <2>. QED  BY <1>4, <2>2 DEF HeapInv, Busy
<1>. QED  BY <1>1, <1>2, <1>3, <1>5, <1>7, <1>9, <1>10, <1>11 DEF HeapInv

\* A thread takes a partly full block or an empty one.
TakesRoom(t, b, lo) ==
  LET a == alloc'[t]
      s == summary'[b]
      p == pc'[t]
  IN
  /\ Only(t) /\ b \in Blocks /\ alloc[t].block = NoBlock
  /\ a.block = b /\ a.alloc = lo /\ a.sweep = G /\ a.holes = alloc[t].holes
  /\ \A c \in Blocks : c # b => summary'[c] = summary[c]
  /\ list'["to_sweep"] = list["to_sweep"]
  /\ \/ /\ b \in list["partly_full"] /\ list'["partly_full"] = list["partly_full"] \ {b}
        /\ Vacant' = Vacant /\ lo = G - summary[b].fragments
        /\ s.holes = summary[b].holes /\ s.pieces = summary[b].pieces /\ s.fragments = 0
        /\ zero' = zero /\ dirty' = dirty
     \/ /\ b \in list["empty"] /\ list'["empty"] = list["empty"] \ {b}
        /\ list'["targets"] = list["targets"] /\ list'["partly_full"] = list["partly_full"]
        /\ lo = 0 /\ s.holes = G /\ s.pieces = 0 /\ s.fragments = 0
        /\ zero' = zero \ {b}
        /\ dirty' = IF b \in zero THEN dirty ELSE dirty \ ({b} \X Granules)
  /\ IF t \in Workers THEN p.at = "copy" /\ pc[t].at # "idle" /\ p.obj = pc[t].obj
     ELSE p.at \in {"hole", "bump"}
  /\ p.size = pc[t].size /\ p.swept = pc[t].swept /\ p.obj = pc[t].obj
  /\ p.at = "bump" => p.size # 0 /\ lo + p.size <= G
  /\ UNCHANGED <<byte, ends, candidate, marked, holes, space_vars, gc_vars, held, allocated>>

LEMMA TakesHeap ==
  ASSUME HeapInv, IInv', NEW t, NEW b, NEW lo, TakesRoom(t, b, lo)
  PROVE  HeapInv'
<1>1. /\ Only(t) /\ b \in Blocks /\ alloc[t].block = NoBlock
      /\ alloc'[t].block = b /\ alloc'[t].alloc = lo /\ alloc'[t].sweep = G
      /\ alloc'[t].holes = alloc[t].holes
      /\ \A c \in Blocks : c # b => summary'[c] = summary[c]
      /\ list'["to_sweep"] = list["to_sweep"]
      /\ UNCHANGED <<byte, ends, candidate, marked, holes, space_vars, gc_vars, held, allocated>>
  BY DEF TakesRoom
<1>2. /\ t \in Threads /\ Threads' = Threads /\ Mutators' = Mutators
      /\ \A u \in Threads : u # t => alloc'[u] = alloc[u] /\ pc'[u] = pc[u]
  BY <1>1 DEF Only
<1>3. /\ Registers(t) /\ Records /\ NoBlock \notin Blocks /\ (t \in Mutators <=> t \notin Workers)
      /\ list \in [Lists -> SUBSET Blocks] /\ Apart
      /\ \A u \in Threads : alloc[u].block \in Blocks \cup {NoBlock}
  BY <1>2, ThreadIs DEF HeapInv, IInv, Records
<1>4. /\ Typed /\ Counts /\ HolesApart /\ HolesAside /\ Clean /\ MemoryTypes
      /\ \A u \in Threads : Registers(u)
  BY HeapTyped DEF HeapInv
<1>5. /\ list["partly_full"] \subseteq Blocks /\ list["empty"] \subseteq Blocks
      /\ list["partly_full"] \cap Vacant = {} /\ list["empty"] \cap list["targets"] = {}
      /\ \A u \in Threads : alloc[u].block \notin Vacant \cup list["partly_full"]
  BY <1>3, ListIs DEF Apart, Vacant
<1>6. /\ G \in Nat /\ lo \in 0 .. G
      /\ \A c \in Blocks : summary[c].holes \in 0 .. G /\ summary[c].pieces \in 0 .. G
                           /\ summary[c].fragments \in 0 .. G
  <2>1. \A c \in Blocks : summary[c].holes \in 0 .. G /\ summary[c].pieces \in 0 .. G
                           /\ summary[c].fragments \in 0 .. G
    BY <1>4 DEF Counts
  <2>2. lo = G - summary[b].fragments \/ lo = 0
    BY DEF TakesRoom
  <2>. QED  BY <1>1, <2>1, <2>2, GranulesAre
<1>7. /\ b \in Vacant \cup list["partly_full"]
      /\ Vacant' \subseteq Vacant /\ list'["partly_full"] \subseteq list["partly_full"]
      /\ b \notin Vacant' \cup list'["partly_full"]
      /\ zero' \subseteq zero /\ zero' \subseteq Vacant' /\ dirty' \subseteq dirty
  <2>1. CASE /\ b \in list["partly_full"] /\ list'["partly_full"] = list["partly_full"] \ {b}
             /\ Vacant' = Vacant /\ zero' = zero /\ dirty' = dirty
    BY <1>4, <1>5, <2>1 DEF Clean
  <2>2. CASE /\ b \in list["empty"] /\ list'["empty"] = list["empty"] \ {b}
             /\ list'["targets"] = list["targets"]
             /\ list'["partly_full"] = list["partly_full"] /\ zero' = zero \ {b}
             /\ dirty' = IF b \in zero THEN dirty ELSE dirty \ ({b} \X Granules)
    <3>1. /\ b \in Vacant /\ Vacant' = Vacant \ {b}
      BY <1>5, <2>2 DEF Vacant
    <3>. QED  BY <1>4, <1>5, <2>2, <3>1 DEF Clean
  <2>. QED  BY <2>1, <2>2 DEF TakesRoom
<1>8. \A u \in Threads : u # t => alloc[u].block # b
  BY <1>5, <1>7
<1>9. Registers(t)'
  <2>1. /\ pc'[t].at \in {"copy", "hole", "bump"} /\ (t \in Workers => pc'[t].at = "copy")
        /\ pc'[t].size = pc[t].size /\ pc'[t].swept = pc[t].swept /\ pc'[t].obj = pc[t].obj
        /\ pc'[t].at = "bump" => pc'[t].size # 0 /\ lo + pc'[t].size <= G
    BY DEF TakesRoom
  <2>2. G \in G .. G /\ G \in 0 .. G /\ G \in lo .. G
    BY <1>6
  <2>. QED  BY <1>1, <1>3, <1>6, <2>1, <2>2 DEF Registers, Labels
<1>10. /\ summary'[b].holes \in 0 .. G /\ summary'[b].pieces \in 0 .. G
       /\ summary'[b].fragments = 0 /\ summary'[b].pieces = 0
  <2>1. CASE b \in list["partly_full"]
    <3>1. summary[b].pieces = 0
      BY <1>4, <2>1 DEF Counts
    <3>2. b \notin list["empty"]
      BY <1>5, <2>1 DEF Vacant
    <3>. QED  BY <1>1, <1>6, <3>1, <3>2 DEF TakesRoom
  <2>2. CASE b \notin list["partly_full"]
    BY <1>6, <2>2 DEF TakesRoom
  <2>. QED  BY <2>1, <2>2
<1>11. Counts'
  <2>1. \A c \in Blocks : /\ summary'[c].holes \in 0 .. G /\ summary'[c].pieces \in 0 .. G
                          /\ summary'[c].fragments \in 0 .. G
    BY <1>1, <1>6, <1>10
  <2>2. ASSUME NEW u \in Threads, alloc'[u].block # NoBlock
        PROVE  LET s == summary'[alloc'[u].block] IN
               /\ s.holes <= alloc'[u].sweep
               /\ s.pieces <= alloc'[u].alloc /\ s.fragments <= alloc'[u].alloc
    <3>1. CASE u = t
      BY <1>1, <1>6, <1>10, <3>1
    <3>2. CASE u # t
      <4>1. alloc'[u] = alloc[u] /\ alloc[u].block \in Blocks /\ alloc[u].block # b
        BY <1>2, <1>3, <1>8, <2>2, <3>2
      <4>. QED  BY <1>1, <1>4, <2>2, <4>1 DEF Counts
    <3>. QED  BY <3>1, <3>2
  <2>3. \A c \in list'["partly_full"] : summary'[c].pieces = 0
    BY <1>1, <1>4, <1>5, <1>7 DEF Counts
  <2>4. \A m \in Mutators : pc'[m].swept = pc[m].swept
    BY <1>2 DEF TakesRoom, Mutators
  <2>. QED  BY <1>1, <1>2, <1>4, <2>1, <2>2, <2>3, <2>4 DEF Counts
<1>12. AllHoles' = AllHoles /\ \A u \in Threads : alloc'[u].holes = alloc[u].holes
  <2>1. \A u \in Threads : alloc'[u].holes = alloc[u].holes
    BY <1>1, <1>2
  <2>. QED  BY <1>1, <1>2, <2>1 DEF AllHoles
<1>13. HolesApart'
  <2>1. ASSUME NEW m \in Mutators, pc'[m].at = "flushed" \/ m = collector
        PROVE  pc[m].at = "flushed" \/ m = collector
    <3>1. pc'[t].at # "flushed"
      BY DEF TakesRoom
    <3>. QED  BY <1>2, <2>1, <3>1 DEF Mutators
  <2>2. Mutators \subseteq Threads /\ collector' = collector
    BY <1>1 DEF Mutators, gc_vars
  <2>. QED  BY <1>1, <1>2, <1>4, <1>12, <2>1, <2>2 DEF HolesApart
<1>14. \A h \in AllHoles : h.block # b
  BY <1>4, <1>7 DEF HolesAside
<1>15. HolesAside'
  <2>1. ASSUME NEW h \in AllHoles, NEW u \in Threads, h.block = alloc'[u].block
        PROVE  /\ u \notin Workers /\ summary'[h.block].pieces > 0
               /\ h.at + h.n <= alloc'[u].alloc
    <3>1. u # t /\ alloc'[u] = alloc[u]
      BY <1>1, <1>2, <1>14, <2>1
    <3>2. h.block \in Blocks
      BY <1>4, AllHolesAre
    <3>3. summary'[h.block] = summary[h.block]
      BY <1>1, <1>14, <3>2
    <3>. QED  BY <1>4, <2>1, <3>1, <3>3 DEF HolesAside
  <2>2. phase' = phase
    BY <1>1 DEF gc_vars
  <2>. QED  BY <1>1, <1>2, <1>4, <1>7, <1>12, <2>1, <2>2 DEF HolesAside
<1>16. Typed'
  <2>1. \A u \in Threads : Registers(u)'
    BY <1>2, <1>4, <1>9, BystanderRegisters
  <2>. QED  BY <1>2, <1>11, <1>13, <2>1, TypedNext
<1>17. Free' \subseteq Free
  <2>1. ASSUME NEW c \in Blocks, NEW i \in 0 .. G - 1,
               InHole(c, i)' \/ InRoom(c, i)' \/ InTail(c, i)' \/ c \in Vacant'
        PROVE  InHole(c, i) \/ InRoom(c, i) \/ InTail(c, i) \/ c \in Vacant
    <3>1. CASE InHole(c, i)'
      BY <1>12, <3>1 DEF InHole
    <3>2. CASE InRoom(c, i)'
      <4>1. PICK u \in Threads : /\ alloc'[u].block = c
                                 /\ i \in alloc'[u].alloc .. alloc'[u].sweep - 1
        BY <1>2, <3>2 DEF InRoom
      <4>2. CASE u # t
        BY <1>2, <4>1, <4>2 DEF InRoom
      <4>3. CASE u = t
        <5>1. c = b /\ lo <= i
          BY <1>1, <1>6, <4>1, <4>3
        <5>2. CASE b \in list["partly_full"]
          <6>1. lo = G - summary[b].fragments
            BY <1>5, <5>2 DEF TakesRoom, Vacant
          <6>. QED  BY <5>1, <5>2, <6>1 DEF InTail
        <5>3. CASE b \notin list["partly_full"]
          BY <1>7, <5>1, <5>3
        <5>. QED  BY <5>2, <5>3
      <4>. QED  BY <4>2, <4>3
    <3>3. CASE InTail(c, i)'
      <4>1. c \in list["partly_full"] /\ c # b
        BY <1>7, <3>3 DEF InTail
      <4>. QED  BY <1>1, <3>3, <4>1 DEF InTail
    <3>4. CASE c \in Vacant'
      BY <1>7, <3>4
    <3>. QED  BY <2>1, <3>1, <3>2, <3>3, <3>4
  <2>2. \A c \in Blocks, i \in 0 .. G - 1 :
          InHole(c, i)' \/ InRoom(c, i)' \/ InTail(c, i)' \/ c \in Vacant' =>
            InHole(c, i) \/ InRoom(c, i) \/ InTail(c, i) \/ c \in Vacant \/ <<c, i>> \in {}
    BY <2>1
  <2>3. Free' \subseteq Free \cup {}
    BY <1>4, <1>16, <2>2, FreeWithin
  <2>. QED  BY <2>3
<1>18. Clean'
  <2>1. (zero' \X Granules) \cap dirty' = {}
    BY <1>4, <1>7 DEF Clean
  <2>2. ASSUME NEW u \in Threads
        PROVE  \A h \in Leftover(alloc'[u]) : Inside(h) \cap dirty' = {}
    <3>1. CASE u # t
      <4>1. alloc'[u] = alloc[u]
        BY <1>2, <3>1
      <4>. QED  BY <1>4, <1>7, <4>1 DEF Clean
    <3>2. CASE u = t
      <4>1. ASSUME NEW i \in lo .. G - 1
            PROVE  <<b, i>> \notin dirty'
        <5>1. i \in 0 .. G - 1
          BY <1>6
        <5>2. CASE b \in list["partly_full"]
          <6>1. lo = G - summary[b].fragments
            BY <1>5, <5>2 DEF TakesRoom, Vacant
          <6>2. ({b} \X (G - summary[b].fragments .. G - 1)) \cap dirty = {}
            BY <1>4, <5>2 DEF Clean
          <6>. QED  BY <1>7, <6>1, <6>2
        <5>3. CASE b \notin list["partly_full"] /\ b \in zero
          BY <1>4, <1>7, <5>1, <5>3 DEF Clean, Granules
        <5>4. CASE b \notin list["partly_full"] /\ b \notin zero
          <6>1. dirty' = dirty \ ({b} \X Granules)
            BY <5>4 DEF TakesRoom
          <6>. QED  BY <5>1, <6>1 DEF Granules
        <5>. QED  BY <5>2, <5>3, <5>4
      <4>2. alloc'[t].alloc \in 0 .. G /\ alloc'[t].sweep \in alloc'[t].alloc .. G
        BY <1>9 DEF Registers
      <4>3. \A i \in alloc'[t].alloc .. alloc'[t].sweep - 1 : <<alloc'[t].block, i>> \notin dirty'
        BY <1>1, <4>1
      <4>. QED  BY <3>2, <4>2, <4>3, RoomClean
    <3>. QED  BY <3>1, <3>2
  <2>3. ASSUME NEW c \in list'["partly_full"]
        PROVE  ({c} \X (G - summary'[c].fragments .. G - 1)) \cap dirty' = {}
    <3>1. c \in list["partly_full"] /\ c # b /\ c \in Blocks
      BY <1>5, <1>7
    <3>2. summary'[c] = summary[c]
      BY <1>1, <3>1
    <3>3. ({c} \X (G - summary[c].fragments .. G - 1)) \cap dirty = {}
      BY <1>4, <3>1 DEF Clean
    <3>. QED  BY <1>7, <3>2, <3>3
  <2>4. \A h \in AllHoles : Inside(h) \cap dirty' \subseteq {<<h.block, h.at>>}
    BY <1>4, <1>7 DEF Clean
  <2>. QED  BY <1>2, <1>7, <1>12, <2>1, <2>2, <2>3, <2>4 DEF Clean, Granules
<1>19. /\ t \in Workers => pc'[t].obj = pc[t].obj
       /\ t \in Workers => (pc[t].at = "idle" => pc'[t].at = "idle")
  BY DEF TakesRoom
<1>20. dirty' \subseteq Locations
  BY <1>4, <1>7 DEF MemoryTypes
<1>. QED  BY <1>1, <1>2, <1>7, <1>9, <1>11, <1>13, <1>15, <1>17, <1>18, <1>19, <1>20, Moved

LEMMA SummaryFields ==
  ASSUME NEW s, IsSummary(s), NEW x
  PROVE  /\ LET d == Fragmented(s, x)
            IN  d.holes = s.holes /\ d.pieces = s.pieces /\ d.fragments = x
         /\ LET d == Pieces(s, x)
            IN  d.holes = s.holes /\ d.pieces = x /\ d.fragments = s.fragments
BY DEF IsSummary, Fragmented, Pieces

\* What a thread goes on with once it has a block with room from granule lo on.
Onwards(t, x, lo) ==
  /\ IF t \in Workers THEN x = "copy" /\ pc[t].at # "idle" ELSE x \in {"hole", "bump"}
  /\ x = "bump" => pc[t].size # 0 /\ lo + pc[t].size <= G

LEMMA TakesPartlyFull ==
  ASSUME HeapInv, IInv', NEW t \in Threads, NEW b \in list["partly_full"],
         alloc[t].block = NoBlock, alloc' = [alloc EXCEPT ![t] = Taken(t, b)],
         summary' = [summary EXCEPT ![b].fragments = 0], Pop("partly_full", b),
         NEW x, Goto(t, x), Onwards(t, x, G - summary[b].fragments),
         UNCHANGED <<byte, ends, dirty, zero, candidate, marked, holes, space_vars, gc_vars,
                     held, allocated>>
  PROVE  HeapInv'
<1>. DEFINE lo == G - summary[b].fragments
            a == With(alloc[t], b, lo, G)
            p == At(pc[t], x)
            s == Fragmented(summary[b], 0)
<1>1. /\ alloc' = [alloc EXCEPT ![t] = a] /\ summary' = [summary EXCEPT ![b] = s]
      /\ list' = [list EXCEPT !["partly_full"] = @ \ {b}] /\ pc' = [pc EXCEPT ![t] = p]
  BY DEF Taken, With, Fragmented, Pop, Goto, At
<1>2. /\ IsProcess(pc[t]) /\ IsAllocator(alloc[t]) /\ Summaries /\ NoBlock \notin Blocks
      /\ list \in [Lists -> SUBSET Blocks]
  BY ThreadIs DEF Records
<1>3. b \in Blocks /\ IsSummary(summary[b])
  BY <1>2, ListIs DEF Summaries
<1>4. /\ IsAllocator(a) /\ a.block = b /\ a.alloc = lo /\ a.sweep = G
      /\ a.holes = alloc[t].holes
  <2>. HIDE DEF lo
  <2>. QED  BY <1>2, AllocatorWith, AllocatorFields
<1>5. /\ IsProcess(p) /\ p.at = x /\ p.size = pc[t].size /\ p.swept = pc[t].swept
      /\ p.obj = pc[t].obj
  BY <1>2, ProcessWith, ProcessObj
<1>6. IsSummary(s) /\ s.holes = summary[b].holes /\ s.pieces = summary[b].pieces
      /\ s.fragments = 0
  BY <1>3, SummaryWith, SummaryFields
<1>. HIDE DEF a, p, s, lo
<1>7. Only(t) /\ pc'[t] = p /\ alloc'[t] = a
  BY <1>1, <1>3, <1>4, <1>5, OnlyOne DEF HeapInv
<1>8. summary'[b] = s /\ \A c \in Blocks : c # b => summary'[c] = summary[c]
  BY <1>1, <1>2, <1>3, <1>6, OneSummary
<1>9. /\ list'["partly_full"] = list["partly_full"] \ {b} /\ Vacant' = Vacant
      /\ list'["to_sweep"] = list["to_sweep"]
  BY <1>1, <1>2, ListIs DEF Vacant
<1>10. /\ IF t \in Workers THEN x = "copy" /\ pc[t].at # "idle" ELSE x \in {"hole", "bump"}
       /\ x = "bump" => pc[t].size # 0 /\ lo + pc[t].size <= G
  BY DEF Onwards, lo
<1>11. TakesRoom(t, b, lo)
  BY <1>3, <1>4, <1>5, <1>6, <1>7, <1>8, <1>9, <1>10 DEF TakesRoom, lo
<1>. QED  BY <1>11, TakesHeap

LEMMA TakesEmpty ==
  ASSUME HeapInv, IInv', NEW t \in Threads, NEW b \in list["empty"],
         alloc[t].block = NoBlock, AcquireEmpty(t, b), NEW x, Goto(t, x), Onwards(t, x, 0),
         UNCHANGED <<byte, ends, candidate, marked, holes, space_vars, gc_vars, held, allocated>>
  PROVE  HeapInv'
<1>. DEFINE a == With(alloc[t], b, 0, G)
            p == At(pc[t], x)
            s == [holes |-> G, pieces |-> 0, fragments |-> 0]
<1>1. /\ alloc' = [alloc EXCEPT ![t] = a] /\ summary' = [summary EXCEPT ![b] = s]
      /\ list' = [list EXCEPT !["empty"] = @ \ {b}] /\ pc' = [pc EXCEPT ![t] = p]
      /\ zero' = zero \ {b}
      /\ dirty' = IF b \in zero THEN dirty ELSE dirty \ ({b} \X Granules)
  BY DEF AcquireEmpty, ClearFlag, With, Pop, Goto, At
<1>2. /\ IsProcess(pc[t]) /\ IsAllocator(alloc[t]) /\ Summaries /\ NoBlock \notin Blocks
      /\ list \in [Lists -> SUBSET Blocks]
  BY ThreadIs DEF Records
<1>3. b \in Blocks
  BY <1>2, ListIs
<1>4. /\ IsAllocator(a) /\ a.block = b /\ a.alloc = 0 /\ a.sweep = G
      /\ a.holes = alloc[t].holes
  BY <1>2, AllocatorWith, AllocatorFields
<1>5. /\ IsProcess(p) /\ p.at = x /\ p.size = pc[t].size /\ p.swept = pc[t].swept
      /\ p.obj = pc[t].obj
  BY <1>2, ProcessWith, ProcessObj
<1>6. IsSummary(s) /\ s.holes = G /\ s.pieces = 0 /\ s.fragments = 0
  BY DEF IsSummary
<1>. HIDE DEF a, p, s
<1>7. Only(t) /\ pc'[t] = p /\ alloc'[t] = a
  BY <1>1, <1>3, <1>4, <1>5, OnlyOne DEF HeapInv
<1>8. summary'[b] = s /\ \A c \in Blocks : c # b => summary'[c] = summary[c]
  BY <1>1, <1>2, <1>3, <1>6, OneSummary
<1>9. /\ list'["empty"] = list["empty"] \ {b} /\ list'["targets"] = list["targets"]
      /\ list'["to_sweep"] = list["to_sweep"] /\ list'["partly_full"] = list["partly_full"]
  BY <1>1, <1>2, ListIs
<1>10. /\ IF t \in Workers THEN x = "copy" /\ pc[t].at # "idle" ELSE x \in {"hole", "bump"}
       /\ x = "bump" => pc[t].size # 0 /\ 0 + pc[t].size <= G
  BY DEF Onwards
<1>11. TakesRoom(t, b, 0)
  BY <1>1, <1>3, <1>4, <1>5, <1>6, <1>7, <1>8, <1>9, <1>10 DEF TakesRoom
<1>. QED  BY <1>11, TakesHeap

LEMMA EmptyHeap ==
  ASSUME HeapInv, NEW m \in Mutators, Empty(m)
  PROVE  HeapInv'
<1>1. pc[m].at = "empty"
  BY DEF Empty
<1>2. m \in Threads /\ m \notin Workers /\ IInv'
  BY <1>1, HeapRuns, EmptyIInv DEF HeapInv
<1>3. alloc[m].block = NoBlock /\ Registers(m)
  BY <1>1, <1>2, ThreadIs DEF MutatorInv
<1>4. ASSUME NEW b \in list["empty"], AcquireEmpty(m, b), Goto(m, Found(m))
      PROVE  HeapInv'
  <2>1. pc[m].size \in 0 .. G
    BY <1>3 DEF Registers
  <2>2. Found(m) \in {"hole", "bump"} /\ (Found(m) = "bump" => pc[m].size # 0)
    BY FoundIs
  <2>3. Onwards(m, Found(m), 0)
    BY <1>2, <2>1, <2>2, GranulesAre DEF Onwards
  <2>4. UNCHANGED <<byte, ends, candidate, marked, holes, space_vars, gc_vars, held, allocated>>
    BY DEF Empty
  <2>. QED  BY <1>2, <1>3, <1>4, <2>3, <2>4, TakesEmpty
<1>5. CASE /\ pc' = [pc EXCEPT ![m].swept = 0,
                               ![m].at = IF pc[m].swept = 0 THEN "nospace" ELSE "sweep"]
           /\ UNCHANGED <<list, summary, alloc, zero, dirty>>
  BY <1>5, EmptyGoesOn
<1>. QED  BY <1>4, <1>5 DEF Empty

LEMMA PartlyTargetHeap ==
  ASSUME HeapInv, NEW w \in Workers, PartlyFullTarget(w)
  PROVE  HeapInv'
<1>1. pc[w].at = "partly"
  BY DEF PartlyFullTarget
<1>2. w \in Threads /\ IInv'
  BY PartlyFullTargetIInv DEF HeapInv, IInv, Records
<1>3. alloc[w].block = NoBlock
  BY <1>1, <1>2, ThreadIs DEF WorkerInv
<1>4. ASSUME NEW b \in list["partly_full"], alloc' = [alloc EXCEPT ![w] = Taken(w, b)],
             summary' = [summary EXCEPT ![b].fragments = 0], Pop("partly_full", b),
             Goto(w, "copy")
      PROVE  HeapInv'
  <2>1. Onwards(w, "copy", G - summary[b].fragments)
    BY <1>1 DEF Onwards
  <2>2. UNCHANGED <<byte, ends, dirty, zero, candidate, marked, holes, space_vars, gc_vars,
                    held, allocated>>
    BY DEF PartlyFullTarget, memory_vars
  <2>. QED  BY <1>2, <1>3, <1>4, <2>1, <2>2, TakesPartlyFull
<1>5. CASE Goto(w, "empty") /\ UNCHANGED <<summary, list, alloc>>
  BY <1>5, PartlyTargetGoesOn
<1>. QED  BY <1>4, <1>5 DEF PartlyFullTarget

\* A thread gives its block away: what is left of it is the end of a partly full block,
\* or a worker loses it.
GivesRoom(t, b, lo) ==
  LET a == alloc'[t]
      s == summary'[b]
      p == pc'[t]
  IN
  /\ Only(t) /\ b \in Blocks /\ alloc[t].block = b /\ alloc[t].alloc = lo
  /\ a.block = NoBlock /\ a.alloc = 0 /\ a.sweep = 0 /\ a.holes = alloc[t].holes
  /\ \A c \in Blocks : c # b => summary'[c] = summary[c]
  /\ list'["to_sweep"] = list["to_sweep"] /\ Vacant' = Vacant
  /\ \/ /\ alloc[t].sweep = G /\ summary[b].pieces = 0
        /\ list'["partly_full"] = list["partly_full"] \cup {b}
        /\ s.holes = summary[b].holes /\ s.pieces = 0 /\ s.fragments = G - lo
     \/ /\ t \in Workers /\ list'["partly_full"] = list["partly_full"] /\ s = summary[b]
  /\ IF t \in Workers
     THEN p.at \in {"idle", "partly"} /\ (pc[t].at = "idle" => p.at = "idle") /\ p.obj = pc[t].obj
     ELSE p.at = "release" /\ p.swept = 0
  /\ p.size \in 0 .. G /\ p.swept \in {0, pc[t].swept}
  /\ p.obj \in Locations \cup {<<NoBlock, 0>>}
  /\ UNCHANGED <<byte, ends, dirty, zero, candidate, marked, holes, space_vars, gc_vars, held,
                 allocated>>

LEMMA GivesHeap ==
  ASSUME HeapInv, IInv', NEW t, NEW b, NEW lo, GivesRoom(t, b, lo)
  PROVE  HeapInv'
<1>1. /\ Only(t) /\ b \in Blocks /\ alloc[t].block = b /\ alloc[t].alloc = lo
      /\ alloc'[t].block = NoBlock /\ alloc'[t].alloc = 0 /\ alloc'[t].sweep = 0
      /\ alloc'[t].holes = alloc[t].holes
      /\ \A c \in Blocks : c # b => summary'[c] = summary[c]
      /\ list'["to_sweep"] = list["to_sweep"] /\ Vacant' = Vacant
      /\ UNCHANGED <<byte, ends, dirty, zero, candidate, marked, holes, space_vars, gc_vars,
                     held, allocated>>
  BY DEF GivesRoom
<1>2. /\ t \in Threads /\ Threads' = Threads /\ Mutators' = Mutators
      /\ \A u \in Threads : u # t => alloc'[u] = alloc[u] /\ pc'[u] = pc[u]
  BY <1>1 DEF Only
<1>3. /\ Registers(t) /\ Records /\ NoBlock \notin Blocks /\ (t \in Mutators <=> t \notin Workers)
      /\ list \in [Lists -> SUBSET Blocks] /\ Apart
      /\ \A u \in Threads : alloc[u].block \in Blocks \cup {NoBlock}
  BY <1>2, ThreadIs DEF HeapInv, IInv, Records
<1>4. /\ Typed /\ Counts /\ HolesApart /\ HolesAside /\ Clean /\ MemoryTypes
      /\ \A u \in Threads : Registers(u)
  BY HeapTyped DEF HeapInv
<1>5. /\ list["partly_full"] \subseteq Blocks
      /\ \A u \in Threads : u # t => alloc[u].block # b
      /\ b \notin Vacant \cup list["partly_full"]
  BY <1>1, <1>2, <1>3, ListIs DEF Apart, Vacant
<1>6. /\ G \in Nat /\ lo \in 0 .. G
      /\ \A c \in Blocks : summary[c].holes \in 0 .. G /\ summary[c].pieces \in 0 .. G
                           /\ summary[c].fragments \in 0 .. G
  BY <1>1, <1>3, <1>4, GranulesAre DEF Registers, Counts
<1>7. \/ /\ alloc[t].sweep = G /\ summary[b].pieces = 0
         /\ list'["partly_full"] = list["partly_full"] \cup {b}
         /\ summary'[b].holes = summary[b].holes /\ summary'[b].pieces = 0
         /\ summary'[b].fragments = G - lo
      \/ /\ t \in Workers /\ list'["partly_full"] = list["partly_full"]
         /\ summary'[b] = summary[b]
  BY DEF GivesRoom
<1>8. Registers(t)'
  <2>1. /\ pc'[t].at \in {"idle", "partly", "release"} /\ pc'[t].size \in 0 .. G
        /\ pc'[t].obj \in Locations \cup {<<NoBlock, 0>>}
        /\ pc'[t].swept \in {0, pc[t].swept}
        /\ t \in Workers => pc'[t].at \in {"idle", "partly"}
        /\ pc'[t].at = "release" => pc'[t].swept = 0
    BY DEF GivesRoom
  <2>2. 0 \in 0 .. G /\ 0 \in 0 .. G
    BY <1>6
  <2>. QED  BY <1>1, <1>3, <2>1, <2>2 DEF Registers, Labels
<1>9. /\ summary'[b].holes \in 0 .. G /\ summary'[b].pieces \in 0 .. G
      /\ summary'[b].fragments \in 0 .. G
  BY <1>1, <1>6, <1>7
<1>10. Counts'
  <2>1. \A c \in Blocks : /\ summary'[c].holes \in 0 .. G /\ summary'[c].pieces \in 0 .. G
                          /\ summary'[c].fragments \in 0 .. G
    BY <1>1, <1>6, <1>9
  <2>2. ASSUME NEW u \in Threads, alloc'[u].block # NoBlock
        PROVE  LET s == summary'[alloc'[u].block] IN
               /\ s.holes <= alloc'[u].sweep
               /\ s.pieces <= alloc'[u].alloc /\ s.fragments <= alloc'[u].alloc
    <3>1. alloc'[u] = alloc[u] /\ alloc[u].block \in Blocks /\ alloc[u].block # b
      BY <1>1, <1>2, <1>3, <1>5, <2>2
    <3>. QED  BY <1>1, <1>4, <2>2, <3>1 DEF Counts
  <2>3. ASSUME NEW c \in list'["partly_full"]
        PROVE  summary'[c].pieces = 0
    <3>1. CASE c = b
      BY <1>5, <1>7, <3>1
    <3>2. CASE c # b
      BY <1>1, <1>4, <1>5, <1>7, <3>2 DEF Counts
    <3>. QED  BY <3>1, <3>2
  <2>4. ASSUME NEW m \in Mutators
        PROVE  pc'[m].swept + Cardinality(list["to_sweep"]) <= Cardinality(Blocks)
    <3>1. m \in Threads /\ pc[m].swept \in Nat
      BY <1>4 DEF Mutators, Registers
    <3>2. pc'[m].swept \in {0, pc[m].swept}
      BY <1>2, <3>1 DEF GivesRoom
    <3>3. pc[m].swept + Cardinality(list["to_sweep"]) <= Cardinality(Blocks)
      BY <1>4 DEF Counts
    <3>. QED  BY <3>1, <3>2, <3>3, SweepCount
  <2>. QED  BY <1>1, <1>2, <2>1, <2>2, <2>3, <2>4 DEF Counts
<1>11. AllHoles' = AllHoles /\ \A u \in Threads : alloc'[u].holes = alloc[u].holes
  <2>1. \A u \in Threads : alloc'[u].holes = alloc[u].holes
    BY <1>1, <1>2
  <2>. QED  BY <1>1, <1>2, <2>1 DEF AllHoles
<1>12. HolesApart'
  <2>1. ASSUME NEW m \in Mutators, pc'[m].at = "flushed" \/ m = collector
        PROVE  pc[m].at = "flushed" \/ m = collector
    <3>1. pc'[t].at # "flushed"
      BY DEF GivesRoom
    <3>. QED  BY <1>2, <2>1, <3>1 DEF Mutators
  <2>2. Mutators \subseteq Threads /\ collector' = collector
    BY <1>1 DEF Mutators, gc_vars
  <2>. QED  BY <1>1, <1>2, <1>4, <1>11, <2>1, <2>2 DEF HolesApart
<1>13. ASSUME NEW h \in AllHoles
       PROVE  /\ h.block \notin list'["partly_full"]
              /\ h.block \in Blocks /\ (h.block # b => summary'[h.block] = summary[h.block])
  <2>1. h.block \in Blocks
    BY <1>4, AllHolesAre
  <2>2. h.block \notin list'["partly_full"]
    <3>1. CASE h.block = b
      <4>1. summary[b].pieces > 0
        BY <1>1, <1>2, <1>4, <3>1 DEF HolesAside
      <4>2. ~(summary[b].pieces = 0)
        BY <1>1, <1>6, <4>1
      <4>. QED  BY <1>5, <1>7, <3>1, <4>2
    <3>2. CASE h.block # b
      BY <1>4, <1>7, <3>2 DEF HolesAside
    <3>. QED  BY <3>1, <3>2
  <2>. QED  BY <1>1, <2>1, <2>2
<1>14. HolesAside'
  <2>1. ASSUME NEW h \in AllHoles, NEW u \in Threads, h.block = alloc'[u].block
        PROVE  /\ u \notin Workers /\ summary'[h.block].pieces > 0
               /\ h.at + h.n <= alloc'[u].alloc
    <3>1. u # t /\ alloc'[u] = alloc[u] /\ h.block # b
      BY <1>1, <1>2, <1>3, <1>5, <1>13, <2>1
    <3>. QED  BY <1>4, <1>13, <2>1, <3>1 DEF HolesAside
  <2>2. phase' = phase
    BY <1>1 DEF gc_vars
  <2>. QED  BY <1>1, <1>2, <1>4, <1>11, <1>13, <2>1, <2>2 DEF HolesAside
<1>15. Typed'
  <2>1. \A u \in Threads : Registers(u)'
    BY <1>2, <1>4, <1>8, BystanderRegisters
  <2>. QED  BY <1>2, <1>10, <1>12, <2>1, TypedNext
<1>16. Free' \subseteq Free
  <2>1. ASSUME NEW c \in Blocks, NEW i \in 0 .. G - 1,
               InHole(c, i)' \/ InRoom(c, i)' \/ InTail(c, i)' \/ c \in Vacant'
        PROVE  InHole(c, i) \/ InRoom(c, i) \/ InTail(c, i) \/ c \in Vacant
    <3>1. CASE InHole(c, i)'
      BY <1>11, <3>1 DEF InHole
    <3>2. CASE InRoom(c, i)'
      <4>1. PICK u \in Threads : /\ alloc'[u].block = c
                                 /\ i \in alloc'[u].alloc .. alloc'[u].sweep - 1
        BY <1>2, <3>2 DEF InRoom
      <4>2. u # t
        BY <1>1, <1>3, <4>1
      <4>. QED  BY <1>2, <4>1, <4>2 DEF InRoom
    <3>3. CASE InTail(c, i)'
      <4>1. CASE c = b
        <5>1. alloc[t].sweep = G /\ G - (G - lo) <= i
          BY <1>5, <1>7, <3>3, <4>1 DEF InTail
        <5>2. i \in lo .. G - 1
          BY <1>6, <5>1
        <5>. QED  BY <1>1, <1>2, <4>1, <5>1, <5>2 DEF InRoom
      <4>2. CASE c # b
        <5>1. c \in list["partly_full"] /\ summary'[c] = summary[c]
          BY <1>1, <1>7, <3>3, <4>2 DEF InTail
        <5>. QED  BY <3>3, <5>1 DEF InTail
      <4>. QED  BY <4>1, <4>2
    <3>4. CASE c \in Vacant'
      BY <1>1, <3>4
    <3>. QED  BY <2>1, <3>1, <3>2, <3>3, <3>4
  <2>2. \A c \in Blocks, i \in 0 .. G - 1 :
          InHole(c, i)' \/ InRoom(c, i)' \/ InTail(c, i)' \/ c \in Vacant' =>
            InHole(c, i) \/ InRoom(c, i) \/ InTail(c, i) \/ c \in Vacant \/ <<c, i>> \in {}
    BY <2>1
  <2>3. Free' \subseteq Free \cup {}
    BY <1>4, <1>15, <2>2, FreeWithin
  <2>. QED  BY <2>3
<1>17. Clean'
  <2>1. ASSUME NEW u \in Threads
        PROVE  \A h \in Leftover(alloc'[u]) : Inside(h) \cap dirty = {}
    <3>1. CASE u # t
      <4>1. alloc'[u] = alloc[u]
        BY <1>2, <3>1
      <4>. QED  BY <1>4, <4>1 DEF Clean
    <3>2. CASE u = t
      <4>1. Leftover(alloc'[t]) = {}
        BY <1>1 DEF Leftover
      <4>. QED  BY <3>2, <4>1
    <3>. QED  BY <3>1, <3>2
  <2>2. ASSUME NEW c \in list'["partly_full"]
        PROVE  ({c} \X (G - summary'[c].fragments .. G - 1)) \cap dirty = {}
    <3>1. CASE c # b
      <4>1. c \in list["partly_full"] /\ c \in Blocks /\ summary'[c] = summary[c]
        BY <1>1, <1>5, <1>7, <3>1
      <4>. QED  BY <1>4, <4>1 DEF Clean
    <3>2. CASE c = b
      <4>1. alloc[t].sweep = G /\ summary'[b].fragments = G - lo
        BY <1>5, <1>7, <3>2
      <4>2. /\ alloc[t].alloc \in 0 .. G /\ alloc[t].sweep \in alloc[t].alloc .. G
            /\ \A h \in Leftover(alloc[t]) : Inside(h) \cap dirty = {}
        BY <1>2, <1>3, <1>4 DEF Registers, Clean
      <4>3. \A i \in alloc[t].alloc .. alloc[t].sweep - 1 : <<alloc[t].block, i>> \notin dirty
        BY <4>2, RoomClean
      <4>4. \A i \in lo .. G - 1 : <<b, i>> \notin dirty
        BY <1>1, <4>1, <4>3
      <4>5. G - (G - lo) = lo
        BY <1>6
      <4>. QED  BY <3>2, <4>1, <4>4, <4>5
    <3>. QED  BY <3>1, <3>2
  <2>. QED  BY <1>1, <1>2, <1>4, <1>11, <2>1, <2>2 DEF Clean
<1>18. /\ t \in Workers => pc'[t].obj = pc[t].obj
       /\ t \in Workers => (pc[t].at = "idle" => pc'[t].at = "idle")
       /\ t \in Workers \/ alloc[t].sweep = G
  BY <1>7 DEF GivesRoom
<1>19. dirty' \subseteq Locations /\ zero' \subseteq zero
  BY <1>1, <1>4 DEF MemoryTypes
<1>. QED  BY <1>1, <1>2, <1>8, <1>10, <1>12, <1>14, <1>16, <1>17, <1>18, <1>19, Moved

\* What a thread goes on with once it has given its block away.
Onto(t, p) ==
  /\ IsProcess(p)
  /\ IF t \in Workers
     THEN p.at \in {"idle", "partly"} /\ (pc[t].at = "idle" => p.at = "idle") /\ p.obj = pc[t].obj
     ELSE p.at = "release" /\ p.swept = 0
  /\ p.size \in 0 .. G /\ p.swept \in {0, pc[t].swept}
  /\ p.obj \in Locations \cup {<<NoBlock, 0>>}

LEMMA GivesPartlyFull ==
  ASSUME HeapInv, IInv', NEW t \in Threads, alloc[t].block # NoBlock, PartlyFullRoom(alloc[t]),
         ReleasePartlyFull(t), NEW p, Onto(t, p), pc' = [pc EXCEPT ![t] = p],
         UNCHANGED <<byte, ends, dirty, zero, candidate, marked, holes, space_vars, gc_vars,
                     held, allocated>>
  PROVE  HeapInv'
<1>1. PICK b, lo : b = alloc[t].block /\ lo = alloc[t].alloc
  OBVIOUS
<1>. DEFINE a == Reset(alloc[t])
            s == Fragmented(summary[b], G - lo)
<1>2. /\ alloc' = [alloc EXCEPT ![t] = a] /\ summary' = [summary EXCEPT ![b] = s]
      /\ list' = [list EXCEPT !["partly_full"] = @ \cup {b}]
      /\ alloc[t].sweep = G /\ summary[b].pieces = 0
  BY <1>1 DEF ReleasePartlyFull, Fragmented, Push, PartlyFullRoom
<1>3. /\ IsProcess(pc[t]) /\ IsAllocator(alloc[t]) /\ Summaries /\ NoBlock \notin Blocks
      /\ list \in [Lists -> SUBSET Blocks] /\ alloc[t].block \in Blocks \cup {NoBlock}
  BY ThreadIs DEF Records
<1>4. b \in Blocks /\ IsSummary(summary[b])
  BY <1>1, <1>3 DEF Summaries
<1>5. /\ IsAllocator(a) /\ a.block = NoBlock /\ a.alloc = 0 /\ a.sweep = 0
      /\ a.holes = alloc[t].holes
  BY <1>3, AllocatorWith, AllocatorFields
<1>6. IsSummary(s) /\ s.holes = summary[b].holes /\ s.pieces = 0 /\ s.fragments = G - lo
  <2>1. IsSummary(s)
    BY <1>4, SummaryWith
  <2>. QED  BY <1>2, <1>4, <2>1, SummaryFields
<1>. HIDE DEF a, s
<1>7. Only(t) /\ pc'[t] = p /\ alloc'[t] = a
  BY <1>2, <1>5, OnlyOne DEF HeapInv, Onto
<1>8. summary'[b] = s /\ \A c \in Blocks : c # b => summary'[c] = summary[c]
  BY <1>2, <1>3, <1>4, <1>6, OneSummary
<1>9. /\ list'["partly_full"] = list["partly_full"] \cup {b} /\ Vacant' = Vacant
      /\ list'["to_sweep"] = list["to_sweep"]
  BY <1>2, <1>3, ListIs DEF Vacant
<1>10. GivesRoom(t, b, lo)
  BY <1>1, <1>2, <1>4, <1>5, <1>6, <1>7, <1>8, <1>9 DEF GivesRoom, Onto
<1>. QED  BY <1>10, GivesHeap

LEMMA GivesOld ==
  ASSUME HeapInv, IInv', NEW t \in Workers, t \in Threads, alloc[t].block # NoBlock,
         Push("old", alloc[t].block), alloc' = [alloc EXCEPT ![t] = Reset(alloc[t])],
         NEW p, Onto(t, p), pc' = [pc EXCEPT ![t] = p],
         UNCHANGED <<byte, ends, dirty, zero, candidate, marked, summary, holes, space_vars,
                     gc_vars, held, allocated>>
  PROVE  HeapInv'
<1>1. PICK b, lo : b = alloc[t].block /\ lo = alloc[t].alloc
  OBVIOUS
<1>. DEFINE a == Reset(alloc[t])
<1>2. alloc' = [alloc EXCEPT ![t] = a] /\ list' = [list EXCEPT !["old"] = @ \cup {b}]
  BY <1>1 DEF Push
<1>3. /\ IsProcess(pc[t]) /\ IsAllocator(alloc[t]) /\ NoBlock \notin Blocks
      /\ list \in [Lists -> SUBSET Blocks] /\ alloc[t].block \in Blocks \cup {NoBlock}
  BY ThreadIs DEF Records
<1>4. b \in Blocks
  BY <1>1, <1>3
<1>5. /\ IsAllocator(a) /\ a.block = NoBlock /\ a.alloc = 0 /\ a.sweep = 0
      /\ a.holes = alloc[t].holes
  BY <1>3, AllocatorWith, AllocatorFields
<1>. HIDE DEF a
<1>6. Only(t) /\ pc'[t] = p /\ alloc'[t] = a
  BY <1>2, <1>5, OnlyOne DEF HeapInv, Onto
<1>7. /\ list'["partly_full"] = list["partly_full"] /\ Vacant' = Vacant
      /\ list'["to_sweep"] = list["to_sweep"]
  BY <1>2, <1>3, ListIs DEF Vacant
<1>8. GivesRoom(t, b, lo)
  BY <1>1, <1>4, <1>5, <1>6, <1>7 DEF GivesRoom, Onto
<1>. QED  BY <1>8, GivesHeap

LEMMA ReleaseBlockHeap ==
  ASSUME HeapInv, NEW m \in Mutators, ReleaseBlock(m)
  PROVE  HeapInv'
<1>1. m \in Threads /\ m \notin Workers /\ IInv'
  BY ReleaseBlockIInv DEF HeapInv, Mutators
<1>2. CASE alloc[m].block # NoBlock /\ PartlyFullRoom(alloc[m])
  <2>. DEFINE p == At(Resting, "release")
  <2>1. /\ ReleasePartlyFull(m) /\ pc' = [pc EXCEPT ![m] = p]
        /\ UNCHANGED <<byte, ends, dirty, zero, candidate, marked, holes, space_vars, gc_vars,
                       held, allocated>>
    BY <1>2 DEF ReleaseBlock, At, memory_vars
  <2>2. IsProcess(p) /\ p.at = "release" /\ p.size = 0 /\ p.swept = 0 /\ p.obj = <<NoBlock, 0>>
    BY RestingIs, RestingObj, ProcessWith, ProcessObj
  <2>. HIDE DEF p
  <2>3. Onto(m, p)
    BY <1>1, <2>2, GranulesAre DEF Onto
  <2>. QED  BY <1>1, <1>2, <2>1, <2>3, GivesPartlyFull
<1>3. CASE alloc[m].block # NoBlock /\ ~PartlyFullRoom(alloc[m])
  BY <1>3, ReleaseFullHeap
<1>4. CASE alloc[m].block = NoBlock
  BY <1>4, ReleaseNothing
<1>. QED  BY <1>2, <1>3, <1>4

LEMMA ReleaseTargetHeap ==
  ASSUME HeapInv, NEW w \in Workers, ReleaseTarget(w)
  PROVE  HeapInv'
<1>1. CASE alloc[w].block = NoBlock
  BY <1>1, ReleaseTargetGoesOn
<1>2. CASE alloc[w].block # NoBlock
  <2>. DEFINE p == At(pc[w], "partly")
  <2>1. /\ Push("old", alloc[w].block) /\ alloc' = [alloc EXCEPT ![w] = Reset(alloc[w])]
        /\ pc' = [pc EXCEPT ![w] = p] /\ pc[w].at = "copy"
        /\ UNCHANGED <<byte, ends, dirty, zero, candidate, marked, summary, holes, space_vars,
                       gc_vars, held, allocated>>
    BY <1>2 DEF ReleaseTarget, Goto, At, memory_vars, flag_vars
  <2>2. w \in Threads /\ IInv'
    BY ReleaseTargetIInv DEF HeapInv, IInv, Records
  <2>3. IsProcess(pc[w]) /\ Registers(w)
    BY <2>2, ThreadIs
  <2>4. /\ IsProcess(p) /\ p.at = "partly" /\ p.size = pc[w].size /\ p.swept = pc[w].swept
        /\ p.obj = pc[w].obj
    BY <2>3, ProcessWith, ProcessObj
  <2>. HIDE DEF p
  <2>5. Onto(w, p)
    BY <2>1, <2>3, <2>4 DEF Onto, Registers
  <2>. QED  BY <1>2, <2>1, <2>2, <2>5, GivesOld
<1>. QED  BY <1>1, <1>2

LEMMA FinishWorkerHeap ==
  ASSUME HeapInv, NEW w \in Workers, FinishWorker(w)
  PROVE  HeapInv'
<1>1. /\ w \in Threads /\ IInv' /\ pc[w].at = "idle" /\ alloc[w].block # NoBlock
      /\ UNCHANGED <<byte, ends, dirty, zero, candidate, marked, holes, space_vars, gc_vars,
                     held, allocated>>
  BY FinishWorkerIInv DEF HeapInv, IInv, Records, FinishWorker, memory_vars
<1>2. IsProcess(pc[w]) /\ Registers(w) /\ pc' = [pc EXCEPT ![w] = pc[w]]
  BY <1>1, ThreadIs DEF Records, FinishWorker
<1>3. Onto(w, pc[w])
  BY <1>1, <1>2 DEF Onto, Registers
<1>4. CASE PartlyFullRoom(alloc[w])
  <2>1. ReleasePartlyFull(w)
    BY <1>4 DEF FinishWorker
  <2>. QED  BY <1>1, <1>2, <1>3, <1>4, <2>1, GivesPartlyFull
<1>5. CASE ~PartlyFullRoom(alloc[w])
  <2>1. /\ Push("old", alloc[w].block) /\ summary' = summary
        /\ alloc' = [alloc EXCEPT ![w] = Reset(alloc[w])]
    BY <1>5 DEF FinishWorker
  <2>. QED  BY <1>1, <1>2, <1>3, <2>1, GivesOld
<1>. QED  BY <1>4, <1>5

\* A partly full block without enough room: its end is a second-chance hole.
LEMMA PartlyHoleHeap ==
  ASSUME HeapInv, IInv', NEW m \in Mutators, pc[m].at = "partly", NEW b \in list["partly_full"],
         ~(pc[m].size <= summary[b].fragments),
         NEW left, left = Leftover(Taken(m, b)), NEW s, s = Pieces(summary[b], 1),
         alloc' = [alloc EXCEPT ![m].holes = @ \cup left], dirty' = dirty \cup Links(left),
         summary' = [summary EXCEPT ![b] = s],
         list' = [list EXCEPT !["partly_full"] = @ \ {b}, ![FullList(s)] = @ \cup {b}],
         UNCHANGED <<pc, byte, ends, zero, candidate, marked, holes, space_vars, gc_vars, held,
                     allocated>>
  PROVE  HeapInv'
<1>1. PICK f, lo : f = summary[b].fragments /\ lo = G - f
  OBVIOUS
<1>. DEFINE a == Having(alloc[m], alloc[m].holes \cup left)
<1>2. m \in Threads /\ m \notin Workers
  BY DEF Mutators
<1>3. /\ Registers(m) /\ Records /\ NoBlock \notin Blocks /\ IsProcess(pc[m])
      /\ list \in [Lists -> SUBSET Blocks] /\ Apart /\ IsAllocator(alloc[m]) /\ Summaries
      /\ MutatorInv(m)
      /\ \A u \in Threads : alloc[u].block \in Blocks \cup {NoBlock}
  BY <1>2, ThreadIs DEF HeapInv, IInv, Records
<1>4. /\ Typed /\ Counts /\ HolesApart /\ HolesAside /\ Clean /\ MemoryTypes
      /\ \A u \in Threads : Registers(u)
  BY HeapTyped DEF HeapInv
<1>5. alloc[m].block = NoBlock /\ m # collector
  <2>1. m # collector
    <3>1. SUFFICES ASSUME m = collector
                   PROVE  FALSE
      OBVIOUS
    <3>2. pc[m].size = 0
      BY <1>3, <3>1 DEF MutatorInv
    <3>3. summary[b].fragments \in 0 .. G
      BY <1>3, <1>4, ListIs DEF Counts
    <3>. QED  BY <3>2, <3>3, GranulesAre
  <2>. QED  BY <1>3, <2>1 DEF MutatorInv
<1>6. /\ b \in Blocks /\ b \notin Vacant \cup list["to_sweep"] /\ IsSummary(summary[b])
      /\ \A u \in Threads : alloc[u].block # b
  BY <1>3, ListIs DEF Apart, Vacant, Summaries
<1>7. /\ f \in 0 .. G /\ lo \in 0 .. G /\ G \in Nat /\ G > 0 /\ lo + f = G
      /\ \A c \in Blocks : summary[c].holes \in 0 .. G /\ summary[c].pieces \in 0 .. G
                           /\ summary[c].fragments \in 0 .. G
  BY <1>1, <1>4, <1>6, GranulesAre DEF Counts
<1>8. /\ Only(m) /\ alloc'[m] = a /\ pc'[m] = pc[m]
      /\ IsAllocator(a) /\ a.block = NoBlock /\ a.alloc = alloc[m].alloc
      /\ a.sweep = alloc[m].sweep /\ a.holes = alloc[m].holes \cup left
  <2>1. /\ IsAllocator(a) /\ a.block = NoBlock /\ a.alloc = alloc[m].alloc
        /\ a.sweep = alloc[m].sweep /\ a.holes = alloc[m].holes \cup left
    BY <1>3, <1>5, AllocatorWith, AllocatorFields
  <2>2. alloc' = [alloc EXCEPT ![m] = a]
    BY DEF Having
  <2>3. pc' = [pc EXCEPT ![m] = pc[m]]
    BY <1>3 DEF Records
  <2>. HIDE DEF a
  <2>. QED  BY <1>2, <1>3, <2>1, <2>2, <2>3, OnlyOne DEF HeapInv
<1>9. /\ Threads' = Threads /\ Mutators' = Mutators
      /\ \A u \in Threads : u # m => alloc'[u] = alloc[u]
  BY <1>8 DEF Only
<1>. HIDE DEF a
<1>10. /\ IsSummary(s) /\ s.holes = summary[b].holes /\ s.pieces = 1
       /\ s.fragments = summary[b].fragments
       /\ summary'[b] = s /\ \A c \in Blocks : c # b => summary'[c] = summary[c]
  <2>1. IsSummary(s) /\ s.holes = summary[b].holes /\ s.pieces = 1
        /\ s.fragments = summary[b].fragments
    BY <1>6, SummaryWith, SummaryFields
  <2>. QED  BY <1>3, <1>6, <2>1, OneSummary
<1>11. /\ list'["to_sweep"] = list["to_sweep"] /\ Vacant' = Vacant
       /\ list'["partly_full"] = list["partly_full"] \ {b}
  <2>1. PICK l \in {"promoted", "full"} :
          list' = [list EXCEPT !["partly_full"] = @ \ {b}, ![l] = @ \cup {b}]
    BY ListIs
  <2>. QED  BY <1>3, <2>1, ListIs DEF Vacant
<1>12. /\ lo < G => left = {Hole(b, lo, f)}
       /\ ~(lo < G) => left = {}
  <2>. DEFINE x == Taken(m, b)
  <2>1. x.block = b /\ x.alloc = lo /\ x.sweep = G
    <3>1. x = With(alloc[m], b, lo, G)
      BY <1>1 DEF Taken, With
    <3>. HIDE DEF x
    <3>. QED  BY <1>3, <3>1, AllocatorWith, AllocatorFields
  <2>2. G - lo = f
    BY <1>7
  <2>. HIDE DEF x
  <2>3. Leftover(x) = IF lo < G THEN {Hole(b, lo, f)} ELSE {}
    BY <2>1, <2>2 DEF Leftover
  <2>. QED  BY <2>3 DEF x
<1>13. /\ left \subseteq HoleSet
       /\ \A h \in left : h.block = b /\ h.at = lo /\ h.n = f
       /\ \A h \in left : Inside(h) = {b} \X (lo .. G - 1)
       /\ \A h, k \in left : h = k
  <2>1. CASE lo < G
    <3>1. f \in 1 .. G /\ lo \in 0 .. G - 1 /\ lo + f <= G /\ lo \in Nat /\ f \in Nat
          /\ lo + f - 1 = G - 1
      BY <1>7, <2>1
    <3>. DEFINE h0 == Hole(b, lo, f)
    <3>2. h0 \in HoleSet
      BY <1>6, <3>1, HoleSetHas
    <3>3. h0.block = b /\ h0.at = lo /\ h0.n = f /\ Inside(h0) = {b} \X (lo .. lo + f - 1)
      <4>1. lo \in Nat /\ f \in Nat
        BY <3>1
      <4>. QED  BY <4>1, InsideIs
    <3>. HIDE DEF h0
    <3>4. left = {h0}
      BY <1>12, <2>1 DEF h0
    <3>. QED  BY <3>1, <3>2, <3>3, <3>4
  <2>2. CASE ~(lo < G)
    BY <1>12, <2>2
  <2>. QED  BY <2>1, <2>2
<1>14. AllHoles' = AllHoles \cup left
  <2>1. ASSUME NEW h
        PROVE  h \in AllHoles' <=> h \in AllHoles \/ h \in left
    <3>1. h \in AllHoles' <=> \/ \E c \in holes : h \in c
                              \/ \E u \in Threads : h \in alloc'[u].holes
      BY <1>9 DEF AllHoles
    <3>2. h \in AllHoles <=> \/ \E c \in holes : h \in c
                             \/ \E u \in Threads : h \in alloc[u].holes
      BY <1>4, AllHolesIs
    <3>3. (\E u \in Threads : h \in alloc'[u].holes)
            <=> (\E u \in Threads : h \in alloc[u].holes) \/ h \in left
      BY <1>2, <1>8, <1>9
    <3>. QED  BY <3>1, <3>2, <3>3
  <2>. QED  BY <2>1
<1>15. \A h \in AllHoles : h \in HoleSet /\ h.block \in Blocks /\ h.block # b
  BY <1>4, AllHolesAre DEF HolesAside
<1>16. \A h \in left, k \in AllHoles : h # k /\ Inside(h) \cap Inside(k) = {}
  <2>1. ASSUME NEW h \in left, NEW k \in AllHoles
        PROVE  h # k /\ Inside(h) \cap Inside(k) = {}
    <3>1. Inside(k) = {k.block} \X (k.at .. k.at + k.n - 1) /\ k.block # b
      BY <1>15, HoleIs
    <3>. QED  BY <1>13, <3>1
  <2>. QED  BY <2>1
<1>17. HolesApart'
  <2>1. \A h, k \in AllHoles' : h # k => Inside(h) \cap Inside(k) = {}
    <3>1. \A h, k \in AllHoles : h # k => Inside(h) \cap Inside(k) = {}
      BY <1>4 DEF HolesApart
    <3>. QED  BY <1>13, <1>14, <1>16, <3>1
  <2>2. \A u \in Threads : \A h \in alloc[u].holes : h \in AllHoles
    BY <1>4, AllHolesIs
  <2>3. \A c \in holes : \A h \in c : h \in AllHoles
    BY <1>4, AllHolesIs
  <2>4. \A u \in Threads : alloc'[u].holes = alloc[u].holes \cup (IF u = m THEN left ELSE {})
    BY <1>8, <1>9
  <2>5. \A t, u \in Threads : t # u => alloc'[t].holes \cap alloc'[u].holes = {}
    <3>1. ASSUME NEW t \in Threads, NEW u \in Threads, t # u, NEW h,
                 h \in alloc'[t].holes, h \in alloc'[u].holes
          PROVE  FALSE
      <4>1. h \in alloc[t].holes \cup (IF t = m THEN left ELSE {})
            /\ h \in alloc[u].holes \cup (IF u = m THEN left ELSE {})
        BY <2>4, <3>1
      <4>2. ~(h \in alloc[t].holes /\ h \in alloc[u].holes)
        BY <1>4, <3>1 DEF HolesApart
      <4>3. ~(h \in left /\ h \in AllHoles)
        BY <1>16
      <4>. QED  BY <2>2, <3>1, <4>1, <4>2, <4>3
    <3>. QED  BY <3>1
  <2>6. \A c \in holes, u \in Threads : c \cap alloc'[u].holes = {}
    <3>1. ASSUME NEW c \in holes, NEW u \in Threads, NEW h, h \in c, h \in alloc'[u].holes
          PROVE  FALSE
      <4>1. h \in alloc[u].holes \cup (IF u = m THEN left ELSE {})
        BY <2>4, <3>1
      <4>2. h \notin alloc[u].holes
        BY <1>4, <3>1 DEF HolesApart
      <4>3. ~(h \in left /\ h \in AllHoles)
        BY <1>16
      <4>. QED  BY <2>3, <3>1, <4>1, <4>2, <4>3
    <3>. QED  BY <3>1
  <2>7. ASSUME NEW u \in Mutators, pc'[u].at = "flushed" \/ u = collector'
        PROVE  alloc'[u].holes = {}
    <3>1. u \in Threads /\ pc' = pc /\ collector' = collector
      BY DEF Mutators, gc_vars
    <3>2. u # m
      BY <1>5, <2>7, <3>1
    <3>. QED  BY <1>4, <1>9, <2>7, <3>1, <3>2 DEF HolesApart
  <2>. QED  BY <1>4, <1>9, <2>1, <2>5, <2>6, <2>7 DEF HolesApart
<1>18. HolesAside'
  <2>1. \A h \in AllHoles' : h.block \notin Vacant \cup list'["partly_full"]
    BY <1>4, <1>6, <1>11, <1>13, <1>14 DEF HolesAside
  <2>2. \A h \in AllHoles' : h.block \in list["to_sweep"] => phase' = "trace"
    BY <1>4, <1>6, <1>13, <1>14 DEF HolesAside, gc_vars
  <2>3. ASSUME NEW h \in AllHoles', NEW u \in Threads, h.block = alloc'[u].block
        PROVE  /\ u \notin Workers /\ summary'[h.block].pieces > 0
               /\ h.at + h.n <= alloc'[u].alloc
    <3>1. h \in AllHoles /\ alloc'[u].block # NoBlock
      BY <1>3, <1>6, <1>8, <1>9, <1>13, <1>14, <1>15, <2>3
    <3>2. u # m /\ alloc'[u] = alloc[u]
      BY <1>8, <1>9, <3>1
    <3>3. summary'[h.block] = summary[h.block]
      BY <1>10, <1>15, <3>1
    <3>. QED  BY <1>4, <2>3, <3>1, <3>2, <3>3 DEF HolesAside
  <2>. QED  BY <1>9, <1>11, <2>1, <2>2, <2>3 DEF HolesAside
<1>19. Registers(m)'
  <2>1. Registers(m) /\ m \notin Workers
    BY <1>2, <1>3
  <2>2. /\ a.alloc = alloc[m].alloc /\ a.sweep = alloc[m].sweep /\ a.block = alloc[m].block
        /\ a.holes \subseteq HoleSet
    BY <1>5, <1>8, <1>13, <2>1 DEF Registers
  <2>3. alloc'[m] = a /\ pc'[m] = pc[m]
    BY <1>8
  <2>. QED  BY <2>1, <2>2, <2>3 DEF Registers
<1>20. Counts'
  <2>1. \A c \in Blocks : /\ summary'[c].holes \in 0 .. G /\ summary'[c].pieces \in 0 .. G
                          /\ summary'[c].fragments \in 0 .. G
    BY <1>6, <1>7, <1>10
  <2>2. ASSUME NEW u \in Threads, alloc'[u].block # NoBlock
        PROVE  LET x == summary'[alloc'[u].block] IN
               /\ x.holes <= alloc'[u].sweep
               /\ x.pieces <= alloc'[u].alloc /\ x.fragments <= alloc'[u].alloc
    <3>1. alloc'[u] = alloc[u] /\ alloc[u].block \in Blocks /\ alloc[u].block # b
      BY <1>3, <1>6, <1>8, <1>9, <2>2
    <3>2. summary'[alloc[u].block] = summary[alloc[u].block]
      BY <1>10, <3>1
    <3>. QED  BY <1>4, <2>2, <3>1, <3>2 DEF Counts
  <2>3. \A c \in list'["partly_full"] : summary'[c].pieces = 0
    <3>1. list["partly_full"] \subseteq Blocks
      BY <1>3, ListIs
    <3>. QED  BY <1>4, <1>10, <1>11, <3>1 DEF Counts
  <2>. QED  BY <1>4, <1>9, <1>11, <2>1, <2>2, <2>3 DEF Counts
<1>21. Typed'
  <2>1. \A u \in Threads : Registers(u)'
    BY <1>2, <1>4, <1>9, <1>19, BystanderRegisters
  <2>. QED  BY <1>9, <1>17, <1>20, <2>1, TypedNext
<1>22. Free' \subseteq Free
  <2>1. ASSUME NEW c \in Blocks, NEW i \in 0 .. G - 1,
               InHole(c, i)' \/ InRoom(c, i)' \/ InTail(c, i)' \/ c \in Vacant'
        PROVE  InHole(c, i) \/ InRoom(c, i) \/ InTail(c, i) \/ c \in Vacant
    <3>1. CASE InHole(c, i)'
      <4>1. PICK h \in AllHoles' : h.block = c /\ i \in h.at .. h.at + h.n - 1
        BY <3>1 DEF InHole
      <4>2. CASE h \in AllHoles
        BY <4>1, <4>2 DEF InHole
      <4>3. CASE h \in left
        <5>1. c = b /\ lo <= i
          BY <1>7, <1>13, <4>1, <4>3
        <5>. QED  BY <1>1, <5>1 DEF InTail
      <4>. QED  BY <1>14, <4>2, <4>3
    <3>2. CASE InRoom(c, i)'
      <4>1. PICK u \in Threads : /\ alloc'[u].block = c
                                 /\ i \in alloc'[u].alloc .. alloc'[u].sweep - 1
        BY <1>9, <3>2 DEF InRoom
      <4>2. u # m
        BY <1>3, <1>8, <4>1
      <4>. QED  BY <1>9, <4>1, <4>2 DEF InRoom
    <3>3. CASE InTail(c, i)'
      BY <1>10, <1>11, <3>3 DEF InTail
    <3>4. CASE c \in Vacant'
      BY <1>11, <3>4
    <3>. QED  BY <2>1, <3>1, <3>2, <3>3, <3>4
  <2>2. \A c \in Blocks, i \in 0 .. G - 1 :
          InHole(c, i)' \/ InRoom(c, i)' \/ InTail(c, i)' \/ c \in Vacant' =>
            InHole(c, i) \/ InRoom(c, i) \/ InTail(c, i) \/ c \in Vacant \/ <<c, i>> \in {}
    BY <2>1
  <2>3. Free' \subseteq Free \cup {}
    BY <1>4, <1>21, <2>2, FreeWithin
  <2>. QED  BY <2>3
<1>23. Links(left) \subseteq {<<b, lo>>} /\ Links(left) \subseteq Locations
  <2>1. Links(left) \subseteq {<<b, lo>>}
    BY <1>13 DEF Links
  <2>2. \A h \in left : <<h.block, h.at>> \in Locations
    BY <1>13, HoleIs
  <2>. QED  BY <2>1, <2>2 DEF Links
<1>24. Clean'
  <2>1. zero' \subseteq Vacant' /\ (zero' \X Granules) \cap dirty' = {}
    <3>1. zero \subseteq Vacant /\ (zero \X Granules) \cap dirty = {} /\ b \notin zero
      BY <1>4, <1>6 DEF Clean
    <3>. QED  BY <1>11, <1>23, <3>1
  <2>2. ASSUME NEW u \in Threads
        PROVE  \A h \in Leftover(alloc'[u]) : Inside(h) \cap dirty' = {}
    <3>1. /\ alloc'[u].block = alloc[u].block /\ alloc'[u].alloc = alloc[u].alloc
          /\ alloc'[u].sweep = alloc[u].sweep
      BY <1>5, <1>8, <1>9
    <3>2. /\ alloc[u].alloc \in 0 .. G /\ alloc[u].sweep \in alloc[u].alloc .. G
          /\ \A h \in Leftover(alloc[u]) : Inside(h) \cap dirty = {}
      BY <1>4 DEF Registers, Clean
    <3>3. \A i \in alloc[u].alloc .. alloc[u].sweep - 1 : <<alloc[u].block, i>> \notin dirty
      BY <3>2, RoomClean
    <3>4. \A i \in alloc[u].alloc .. alloc[u].sweep - 1 : <<alloc[u].block, i>> \notin dirty'
      BY <1>6, <1>23, <3>3
    <3>. QED  BY <3>1, <3>2, <3>4, RoomClean
  <2>3. ASSUME NEW c \in list'["partly_full"]
        PROVE  ({c} \X (G - summary'[c].fragments .. G - 1)) \cap dirty' = {}
    <3>1. c \in list["partly_full"] /\ c # b
      BY <1>11
    <3>2. ({c} \X (G - summary[c].fragments .. G - 1)) \cap dirty = {}
      BY <1>4, <3>1 DEF Clean
    <3>3. summary'[c] = summary[c]
      BY <1>3, <1>10, <3>1, ListIs
    <3>. QED  BY <1>23, <3>1, <3>2, <3>3
  <2>4. ASSUME NEW h \in AllHoles'
        PROVE  Inside(h) \cap dirty' \subseteq {<<h.block, h.at>>}
    <3>1. CASE h \in AllHoles
      <4>1. Inside(h) = {h.block} \X (h.at .. h.at + h.n - 1) /\ h.block # b
        BY <1>15, <3>1, HoleIs
      <4>2. Inside(h) \cap dirty \subseteq {<<h.block, h.at>>}
        BY <1>4, <3>1 DEF Clean
      <4>. QED  BY <1>23, <4>1, <4>2
    <3>2. CASE h \in left
      <4>1. ({b} \X (lo .. G - 1)) \cap dirty = {}
        BY <1>1, <1>4 DEF Clean
      <4>. QED  BY <1>13, <1>23, <3>2, <4>1
    <3>. QED  BY <1>14, <3>1, <3>2
  <2>. QED  BY <1>9, <2>1, <2>2, <2>3, <2>4 DEF Clean, Granules
<1>25. dirty' \subseteq Locations
  BY <1>4, <1>23 DEF MemoryTypes
<1>26. alloc'[m].block = NoBlock
  BY <1>8
<1>. QED  BY <1>2, <1>5, <1>8, <1>11, <1>17, <1>18, <1>19, <1>20, <1>22, <1>24, <1>25, <1>26, Moved

LEMMA PartlyFullHeap ==
  ASSUME HeapInv, NEW m \in Mutators, PartlyFull(m)
  PROVE  HeapInv'
<1>1. pc[m].at = "partly"
  BY DEF PartlyFull
<1>2. m \in Threads /\ m \notin Workers /\ IInv'
  BY <1>1, HeapRuns, PartlyFullIInv DEF HeapInv
<1>3. alloc[m].block = NoBlock /\ Registers(m) /\ list \in [Lists -> SUBSET Blocks]
  BY <1>1, <1>2, ThreadIs DEF MutatorInv, Records
<1>4. UNCHANGED <<byte, ends, zero, candidate, marked, holes, space_vars, gc_vars, held,
                  allocated>>
  BY DEF PartlyFull
<1>5. ASSUME NEW b \in list["partly_full"], pc[m].size <= summary[b].fragments,
             alloc' = [alloc EXCEPT ![m] = Taken(m, b)],
             summary' = [summary EXCEPT ![b].fragments = 0], Pop("partly_full", b),
             Goto(m, Found(m)), UNCHANGED dirty
      PROVE  HeapInv'
  <2>1. pc[m].size \in 0 .. G /\ summary[b].fragments \in 0 .. G
    BY <1>3, ListIs DEF Registers, HeapInv, Counts
  <2>2. Found(m) \in {"hole", "bump"} /\ (Found(m) = "bump" => pc[m].size # 0)
    BY FoundIs
  <2>3. Onwards(m, Found(m), G - summary[b].fragments)
    BY <1>2, <1>5, <2>1, <2>2, GranulesAre DEF Onwards
  <2>. QED  BY <1>2, <1>3, <1>4, <1>5, <2>3, TakesPartlyFull
<1>6. ASSUME NEW b \in list["partly_full"], ~(pc[m].size <= summary[b].fragments),
             NEW left, left = Leftover(Taken(m, b)), NEW s, s = Pieces(summary[b], 1),
             alloc' = [alloc EXCEPT ![m].holes = @ \cup left],
             dirty' = dirty \cup Links(left), summary' = [summary EXCEPT ![b] = s],
             list' = [list EXCEPT !["partly_full"] = @ \ {b}, ![FullList(s)] = @ \cup {b}],
             UNCHANGED pc
      PROVE  HeapInv'
  BY <1>1, <1>2, <1>4, <1>6, PartlyHoleHeap
<1>7. CASE Goto(m, "empty") /\ UNCHANGED <<dirty, summary, list, alloc>>
  BY <1>7, PartlyFullGoesOn
<1>8. \/ Goto(m, "empty") /\ UNCHANGED <<dirty, summary, list, alloc>>
      \/ \E b \in list["partly_full"] :
           \/ /\ pc[m].size <= summary[b].fragments
              /\ alloc' = [alloc EXCEPT ![m] = Taken(m, b)]
              /\ summary' = [summary EXCEPT ![b].fragments = 0]
              /\ Pop("partly_full", b) /\ Goto(m, Found(m)) /\ UNCHANGED dirty
           \/ \E left, s :
              /\ ~(pc[m].size <= summary[b].fragments)
              /\ left = Leftover(Taken(m, b)) /\ s = Pieces(summary[b], 1)
              /\ alloc' = [alloc EXCEPT ![m].holes = @ \cup left]
              /\ dirty' = dirty \cup Links(left)
              /\ summary' = [summary EXCEPT ![b] = s]
              /\ list' = [list EXCEPT !["partly_full"] = @ \ {b}, ![FullList(s)] = @ \cup {b}]
              /\ UNCHANGED pc
  BY DEF PartlyFull, Pieces
<1>. QED  BY <1>5, <1>6, <1>7, <1>8

LEMMA EmptyTargetTakes ==
  ASSUME HeapInv, NEW w \in Workers, EmptyTarget(w), NEW b \in list["empty"],
         AcquireEmpty(w, b), Goto(w, "copy"), UNCHANGED <<byte, marked>>
  PROVE  HeapInv'
<1>1. pc[w].at = "empty"
  BY DEF EmptyTarget
<1>2. w \in Threads /\ IInv'
  BY EmptyTargetIInv DEF HeapInv, IInv, Records
<1>3. alloc[w].block = NoBlock
  BY <1>1, <1>2, ThreadIs DEF WorkerInv
<1>4. Onwards(w, "copy", 0)
  BY <1>1 DEF Onwards
<1>5. UNCHANGED <<byte, ends, candidate, marked, holes, space_vars, gc_vars, held, allocated>>
  BY DEF EmptyTarget
<1>. QED  BY <1>2, <1>3, <1>4, <1>5, TakesEmpty

LEMMA ReleaseHolesHeap ==
  ASSUME HeapInv, NEW m \in Mutators, ReleaseHoles(m)
  PROVE  HeapInv'
<1>. DEFINE a == Having(alloc[m], {})
            p == At(pc[m], "flushed")
<1>1. PICK local, K : /\ local = alloc[m].holes
                      /\ K = {{h \in local : h.n = n} : n \in {h.n : h \in local}}
  OBVIOUS
<1>2. /\ pc[m].at = "release" /\ holes' = holes \cup K
      /\ UNCHANGED <<byte, ends, dirty, zero, candidate, marked, summary, list, phase, kind,
                     collector, count, held, allocated>>
      /\ UNCHANGED <<space_vars, gc_vars>>
  BY <1>1 DEF ReleaseHoles, memory_vars, flag_vars, gc_vars
<1>3. m \in Threads /\ m \notin Workers /\ IInv'
  BY <1>2, HeapRuns, ReleaseHolesIInv DEF HeapInv
<1>4. /\ Registers(m) /\ Records /\ NoBlock \notin Blocks /\ IsProcess(pc[m])
      /\ IsAllocator(alloc[m]) /\ MutatorInv(m)
  BY <1>3, ThreadIs
<1>5. /\ Typed /\ Counts /\ HolesApart /\ HolesAside /\ Clean /\ MemoryTypes
      /\ \A u \in Threads : Registers(u)
  BY HeapTyped DEF HeapInv
<1>6. alloc[m].block = NoBlock
  BY <1>2, <1>4 DEF MutatorInv
<1>7. /\ Only(m) /\ alloc'[m] = a /\ pc'[m] = p
      /\ a.block = alloc[m].block /\ a.alloc = alloc[m].alloc /\ a.sweep = alloc[m].sweep
      /\ a.holes = {} /\ p.at = "flushed" /\ p.size = pc[m].size /\ p.swept = pc[m].swept
      /\ p.obj = pc[m].obj
  <2>1. IsAllocator(a) /\ a.block = alloc[m].block
    BY <1>4, AllocatorWith
  <2>2. a.alloc = alloc[m].alloc /\ a.sweep = alloc[m].sweep /\ a.holes = {}
    BY <1>4, AllocatorFields
  <2>3. IsProcess(p) /\ p.at = "flushed" /\ p.size = pc[m].size /\ p.swept = pc[m].swept
    BY <1>4, ProcessWith
  <2>4. p.obj = pc[m].obj
    BY <1>4, ProcessObj
  <2>5. alloc' = [alloc EXCEPT ![m] = a] /\ pc' = [pc EXCEPT ![m] = p]
    BY DEF ReleaseHoles, Having, At, Goto
  <2>. HIDE DEF a, p
  <2>6. Only(m) /\ alloc'[m] = a /\ pc'[m] = p
    BY <1>3, <1>6, <2>1, <2>3, <2>5, OnlyOne DEF HeapInv
  <2>. QED  BY <2>1, <2>2, <2>3, <2>4, <2>6
<1>8. /\ Threads' = Threads /\ Mutators' = Mutators
      /\ \A u \in Threads : u # m => alloc'[u] = alloc[u] /\ pc'[u] = pc[u]
      /\ \A u \in Threads : /\ alloc'[u].block = alloc[u].block
                            /\ alloc'[u].alloc = alloc[u].alloc
                            /\ alloc'[u].sweep = alloc[u].sweep
  BY <1>7 DEF Only
<1>. HIDE DEF a, p
<1>9. /\ \A c \in K : c \subseteq local /\ c # {}
      /\ \A c, d \in K : c # d => c \cap d = {}
      /\ \A h \in local : \E c \in K : h \in c
  <2>1. ASSUME NEW c \in K
        PROVE  \E k \in local : \A h : h \in c <=> h \in local /\ h.n = k.n
    <3>1. PICK n \in {h.n : h \in local} : c = {h \in local : h.n = n}
      BY <1>1
    <3>2. PICK k \in local : n = k.n
      BY <3>1
    <3>. QED  BY <3>1, <3>2
  <2>2. ASSUME NEW k \in local
        PROVE  \E c \in K : k \in c
    <3>1. {h \in local : h.n = k.n} \in K
      BY <1>1
    <3>. QED  BY <3>1
  <2>3. \A c \in K : c \subseteq local /\ c # {}
    BY <2>1
  <2>4. ASSUME NEW c \in K, NEW d \in K, NEW x, x \in c, x \in d
        PROVE  c = d
    <3>1. PICK k \in local : \A h : h \in c <=> h \in local /\ h.n = k.n
      BY <2>1
    <3>2. PICK l \in local : \A h : h \in d <=> h \in local /\ h.n = l.n
      BY <2>1
    <3>3. k.n = x.n /\ l.n = x.n
      BY <2>4, <3>1, <3>2
    <3>. QED  BY <3>1, <3>2, <3>3
  <2>. QED  BY <2>2, <2>3, <2>4
<1>10. AllHoles' = AllHoles
  <2>1. ASSUME NEW h
        PROVE  h \in AllHoles' <=> h \in AllHoles
    <3>1. h \in AllHoles' <=> \/ \E c \in holes' : h \in c
                              \/ \E u \in Threads : h \in alloc'[u].holes
      BY <1>8 DEF AllHoles
    <3>2. h \in AllHoles <=> \/ \E c \in holes : h \in c
                             \/ \E u \in Threads : h \in alloc[u].holes
      BY <1>5, AllHolesIs
    <3>3. (\E c \in holes' : h \in c) <=> (\E c \in holes : h \in c) \/ h \in alloc[m].holes
      BY <1>1, <1>2, <1>9
    <3>4. (\E u \in Threads : h \in alloc[u].holes)
            <=> (\E u \in Threads : h \in alloc'[u].holes) \/ h \in alloc[m].holes
      BY <1>3, <1>7, <1>8
    <3>. QED  BY <3>1, <3>2, <3>3, <3>4
  <2>. QED  BY <2>1
<1>11. HolesApart'
  <2>1. \A u \in Threads : /\ alloc'[u].holes \subseteq alloc[u].holes
                           /\ alloc'[u].holes \cap local = {}
    BY <1>1, <1>3, <1>5, <1>7, <1>8 DEF HolesApart
  <2>2. local \subseteq HoleSet
    BY <1>1, <1>4 DEF Registers
  <2>3. \A c \in holes' : c \subseteq HoleSet /\ c # {}
    BY <1>2, <1>5, <1>9, <2>2 DEF HolesApart
  <2>4. \A h, k \in AllHoles' : h # k => Inside(h) \cap Inside(k) = {}
    BY <1>5, <1>10 DEF HolesApart
  <2>5. \A t, u \in Threads : t # u => alloc'[t].holes \cap alloc'[u].holes = {}
    BY <1>5, <2>1 DEF HolesApart
  <2>6. \A c \in holes', u \in Threads : c \cap alloc'[u].holes = {}
    BY <1>2, <1>5, <1>9, <2>1 DEF HolesApart
  <2>7. \A c, d \in holes' : c # d => c \cap d = {}
    <3>1. \A c \in holes : c \cap local = {}
      BY <1>1, <1>3, <1>5 DEF HolesApart
    <3>. QED  BY <1>2, <1>5, <1>9, <3>1 DEF HolesApart
  <2>8. ASSUME NEW u \in Mutators, pc'[u].at = "flushed" \/ u = collector'
        PROVE  alloc'[u].holes = {}
    BY <1>2, <1>5, <1>7, <1>8, <2>8 DEF HolesApart, Mutators
  <2>. QED  BY <1>8, <2>3, <2>4, <2>5, <2>6, <2>7, <2>8 DEF HolesApart
<1>12. HolesAside'
  <2>1. Vacant' = Vacant
    BY <1>2 DEF Vacant
  <2>. QED  BY <1>2, <1>5, <1>8, <1>10, <2>1 DEF HolesAside
<1>13. Registers(m)'
  <2>1. Registers(m) /\ m \notin Workers
    BY <1>3, <1>4
  <2>2. /\ alloc'[m].alloc = alloc[m].alloc /\ alloc'[m].sweep = alloc[m].sweep
        /\ alloc'[m].block = alloc[m].block /\ alloc'[m].holes = {}
        /\ pc'[m].at = "flushed" /\ pc'[m].size = pc[m].size /\ pc'[m].swept = pc[m].swept
        /\ pc'[m].obj = pc[m].obj
    BY <1>7
  <2>. QED  BY <1>2, <2>1, <2>2 DEF Registers, Labels
<1>14. Counts'
  <2>1. \A u \in Mutators : pc'[u].swept = pc[u].swept
    BY <1>7, <1>8 DEF Mutators
  <2>. QED  BY <1>2, <1>5, <1>8, <2>1 DEF Counts
<1>15. Typed'
  <2>1. \A u \in Threads : Registers(u)'
    BY <1>3, <1>5, <1>8, <1>13, BystanderRegisters
  <2>. QED  BY <1>3, <1>8, <1>11, <1>14, <2>1, TypedNext
<1>16. Free' \subseteq Free
  <2>1. \A c \in Blocks, i \in 0 .. G - 1 :
          InHole(c, i)' \/ InRoom(c, i)' \/ InTail(c, i)' \/ c \in Vacant' =>
            InHole(c, i) \/ InRoom(c, i) \/ InTail(c, i) \/ c \in Vacant \/ <<c, i>> \in {}
    BY <1>2, <1>8, <1>10 DEF InHole, InRoom, InTail, Vacant
  <2>2. Free' \subseteq Free \cup {}
    BY <1>5, <1>15, <2>1, FreeWithin
  <2>. QED  BY <2>2
<1>17. Clean'
  <2>1. \A u \in Threads : Leftover(alloc'[u]) = Leftover(alloc[u])
    BY <1>8 DEF Leftover
  <2>2. Vacant' = Vacant
    BY <1>2 DEF Vacant
  <2>. QED  BY <1>2, <1>5, <1>8, <1>10, <2>1, <2>2 DEF Clean, Granules
<1>18. dirty' \subseteq Locations
  BY <1>2, <1>5 DEF MemoryTypes
<1>. QED  BY <1>2, <1>3, <1>6, <1>7, <1>8, <1>11, <1>12, <1>13, <1>14, <1>16, <1>17, <1>18, Moved

--------------------------------------------------------------------------------
\* Marks.

\* A step that changes the marks of objects, and nothing else of the heap.
LEMMA Remarked ==
  ASSUME HeapInv, IInv', Threads' = Threads, Mutators' = Mutators,
         UNCHANGED <<ends, dirty, zero, candidate, summary, list, holes, alloc, space_vars,
                     gc_vars, held, allocated>>,
         \A m \in Mutators : pc'[m] = pc[m], \A t \in Threads : Registers(t)',
         byte' \in [Locations -> Marks], Placed' = Placed, marked' \subseteq Blocks,
         HeldMarked', Busy', Fresh'
  PROVE  HeapInv'
<1>1. UNCHANGED <<current_mark, survivor_mark, evacuating, reserve, phase, kind, collector,
                  count>>
  BY DEF space_vars, gc_vars
<1>2. MemoryTypes' /\ Bounded'
  BY <1>1, BoundedStays DEF HeapInv, MemoryTypes
<1>3. AllHoles' = AllHoles /\ Vacant' = Vacant /\ Free' = Free /\ \A o : Extent(o)' = Extent(o)
  BY DEF AllHoles, Vacant, Free, Extent, Leftover, Threads
<1>4. Counts' /\ HolesApart' /\ HolesAside'
  BY <1>1, <1>3 DEF HeapInv, Counts, HolesApart, HolesAside
<1>5. ObjectsApart' /\ SweptWhole' /\ Clean'
  BY <1>3 DEF HeapInv, ObjectsApart, SweptWhole, Clean, Leftover
<1>. QED  BY <1>2, <1>4, <1>5 DEF HeapInv

\* What is held is where something was placed, at a granule of a block.
LEMMA HeldPlaced ==
  ASSUME HeapInv, NEW o \in held
  PROVE  /\ o \in Locations /\ o \in Placed /\ o[1] \in Blocks
         /\ byte[o] \in {YOUNG, survivor_mark, current_mark, BUSY}
         /\ current_mark \in MARK_0 .. MARK_2 /\ survivor_mark \in MARK_0 .. MARK_2
<1>1. /\ o \in Locations /\ current_mark \in MARK_0 .. MARK_2
      /\ survivor_mark \in MARK_0 .. MARK_2
      /\ byte[o] \in {YOUNG, survivor_mark, current_mark, BUSY}
  BY DEF HeapInv, MemoryTypes, HeldMarked
<1>2. byte[o] # NONE
  BY <1>1, MarksAre
<1>. QED  BY <1>1, <1>2, GranulesAre DEF Placed

\* nofl_space_set_nonempty_mark, for something that is held.
LEMMA MarksOne ==
  ASSUME HeapInv, IInv', NEW o \in held, SetMark(o), phase \in {"pinned", "trace"},
         Threads' = Threads, Mutators' = Mutators,
         UNCHANGED <<ends, dirty, zero, candidate, summary, list, holes, alloc, space_vars,
                     gc_vars, held, allocated>>,
         \A m \in Mutators : pc'[m] = pc[m], \A t \in Threads : Registers(t)', Busy'
  PROVE  HeapInv'
<1>1. /\ o \in Locations /\ o \in Placed /\ o[1] \in Blocks
      /\ current_mark \in MARK_0 .. MARK_2
  BY HeldPlaced
<1>2. UNCHANGED <<current_mark, survivor_mark, phase, kind>>
  BY DEF space_vars, gc_vars
<1>3. /\ byte' \in [Locations -> Marks] /\ byte'[o] = current_mark
      /\ \A x \in Locations : x # o => byte'[x] = byte[x]
      /\ Placed' = Placed /\ marked' = marked \cup {o[1]}
  <2>1. byte \in [Locations -> Marks] /\ byte' = [byte EXCEPT ![o] = current_mark]
    BY DEF HeapInv, MemoryTypes, SetMark
  <2>2. current_mark \in Marks \ {NONE}
    BY <1>1, MarksAre
  <2>3. /\ byte' \in [Locations -> Marks] /\ byte'[o] = current_mark
        /\ \A x \in Locations : x # o => byte'[x] = byte[x]
        /\ Placed' = Placed \cup {o}
    BY <1>1, <2>1, <2>2, ByteSet
  <2>. QED  BY <1>1, <2>3 DEF SetMark
<1>4. marked' \subseteq Blocks /\ held \subseteq Locations /\ Placed \subseteq Locations
  BY <1>1, <1>3 DEF HeapInv, MemoryTypes, Placed
<1>5. HeldMarked'
  <2>1. \A x \in held : byte[x] \in {YOUNG, survivor_mark, current_mark, BUSY}
                        /\ (byte[x] = BUSY => phase = "trace")
                        /\ (byte[x] = current_mark => x[1] \in marked)
    BY DEF HeapInv, HeldMarked
  <2>2. current_mark # BUSY
    BY <1>1, MarksAre
  <2>. QED  BY <1>2, <1>3, <1>4, <2>1, <2>2 DEF HeldMarked
<1>6. \A x : Unswept(x)' <=> Unswept(x)
  BY DEF Unswept
<1>7. Fresh'
  <2>1. current_mark # nofl_advance_current_mark(current_mark)
    BY <1>1 DEF nofl_advance_current_mark, MARK_0, MARK_2
  <2>2. \A x \in Placed' : byte'[x] # nofl_advance_current_mark(current_mark)'
    BY <1>2, <1>3, <1>4, <2>1 DEF HeapInv, Fresh, nofl_advance_current_mark
  <2>3. \A x \in Placed' : byte'[x] \in MARK_0 .. MARK_2 =>
          byte'[x] = current_mark' \/ Unswept(x)' \/ (phase' = "pinned" /\ kind' # "minor")
    BY <1>2, <1>3, <1>4, <1>6 DEF HeapInv, Fresh
  <2>4. ASSUME phase' \in {"pinned", "trace"}, kind' # "minor", NEW b \in marked'
        PROVE  \E x \in held' : x[1] = b /\ byte'[x] = current_mark'
    <3>1. CASE b = o[1]
      BY <1>2, <1>3, <3>1
    <3>2. CASE b \in marked
      <4>1. PICK x \in held : x[1] = b /\ byte[x] = current_mark
        BY <1>2, <2>4, <3>2 DEF HeapInv, Fresh
      <4>. QED  BY <1>2, <1>3, <1>4, <4>1
    <3>. QED  BY <1>3, <2>4, <3>1, <3>2
  <2>. QED  BY <1>2, <2>2, <2>3, <2>4 DEF Fresh
<1>. QED  BY <1>3, <1>4, <1>5, <1>7, Remarked

LEMMA MarkPinnedHeap ==
  ASSUME HeapInv, NEW o \in held, MarkPinned(o)
  PROVE  HeapInv'
<1>1. /\ phase = "pinned" /\ SetMark(o)
      /\ UNCHANGED <<ends, dirty, zero, candidate, summary, list, holes, alloc, space_vars,
                     gc_vars, held, allocated, pc>>
  BY DEF MarkPinned
<1>2. UNCHANGED <<evacuating, phase, collector>>
  BY <1>1 DEF space_vars, gc_vars
<1>3. IInv' /\ Threads' = Threads /\ Mutators' = Mutators
  BY <1>1, <1>2, QuietIInv DEF HeapInv, Threads, Mutators
<1>4. \A t \in Threads : Registers(t)'
  BY <1>1 DEF HeapInv, Registers
<1>5. Busy'
  <2>1. \A w \in Workers : pc[w].at = "idle"
    BY <1>1 DEF HeapInv, IInv, WorkerInv
  <2>. QED  BY <1>1, <2>1 DEF Busy
<1>. QED  BY <1>1, <1>3, <1>4, <1>5, MarksOne

\* What worker w does next changes neither allocators nor other processes.
LEMMA WorkerGoesOn ==
  ASSUME HeapInv, NEW w \in Workers, NEW p, IsProcess(p), pc' = [pc EXCEPT ![w] = p],
         alloc' = alloc, p.at \in {"idle", "copy"}, p.size = 0, p.swept = 0,
         p.obj \in Locations \cup {<<NoBlock, 0>>},
         p.at = "idle" => alloc[w].block = NoBlock \/ alloc[w].alloc > 0
  PROVE  /\ Threads' = Threads /\ Mutators' = Mutators /\ w \in Threads /\ pc'[w] = p
         /\ \A m \in Mutators : pc'[m] = pc[m]
         /\ \A t \in Threads : Registers(t)'
         /\ \A v \in Workers : v # w => pc'[v] = pc[v]
<1>1. Records /\ w \in Threads /\ Workers \subseteq Threads
  BY DEF HeapInv, IInv, Records
<1>2. Only(w) /\ pc'[w] = p
  BY <1>1, OneProcess DEF Only
<1>3. Registers(w)'
  <2>1. Registers(w) /\ 0 \in 0 .. G /\ 0 \in Nat
    BY <1>1, GranulesAre DEF HeapInv
  <2>. QED  BY <1>2, <2>1 DEF Registers, Labels
<1>4. \A t \in Threads : Registers(t)'
  BY <1>1, <1>2, <1>3, BystanderRegisters DEF HeapInv, Only
<1>. QED  BY <1>1, <1>2, <1>4 DEF Only, Mutators

LEMMA MarkObjectHeap ==
  ASSUME HeapInv, NEW w \in Workers, NEW o \in held, MarkObject(w, o)
  PROVE  HeapInv'
<1>1. /\ phase = "trace" /\ pc[w].at = "idle" /\ byte[o] \in {YOUNG, survivor_mark}
      /\ byte[o] # current_mark
      /\ UNCHANGED <<ends, dirty, zero, candidate, summary, list, holes, alloc, space_vars,
                     gc_vars, held, allocated>>
  BY DEF MarkObject
<1>2. UNCHANGED <<current_mark, survivor_mark, phase, kind>>
  BY <1>1 DEF space_vars, gc_vars
<1>3. IInv'
  BY MarkObjectIInv DEF HeapInv
<1>4. /\ o \in Locations /\ o \in Placed /\ o[1] \in Blocks
      /\ current_mark \in MARK_0 .. MARK_2 /\ survivor_mark \in MARK_0 .. MARK_2
  BY HeldPlaced
<1>5. byte[o] # BUSY
  BY <1>1, <1>4, MarksAre
<1>6. Busy
  BY DEF HeapInv
<1>7. CASE SetMark(o) /\ UNCHANGED pc
  <2>1. Threads' = Threads /\ Mutators' = Mutators
    BY <1>7 DEF Threads, Mutators
  <2>2. \A t \in Threads : Registers(t)'
    BY <1>1, <1>7 DEF HeapInv, Registers
  <2>3. \A x \in Locations : x # o => byte'[x] = byte[x]
    BY <1>7 DEF SetMark, HeapInv, MemoryTypes
  <2>4. Busy'
    <3>1. \A v \in Workers : pc[v].at # "idle" =>
            pc[v].obj # o /\ pc[v].obj \in held /\ pc[v].obj \in Locations
      BY <1>5, <1>6 DEF Busy, HeapInv, MemoryTypes
    <3>. QED  BY <1>1, <1>6, <1>7, <2>3, <3>1 DEF Busy
  <2>. QED  BY <1>1, <1>3, <1>7, <2>1, <2>2, <2>4, MarksOne
<1>8. CASE /\ byte' = [byte EXCEPT ![o] = BUSY] /\ UNCHANGED marked
           /\ pc' = [pc EXCEPT ![w] = [Resting EXCEPT !.at = "copy", !.obj = o]]
  <2>. DEFINE p == Copying(o)
  <2>1. IsProcess(p) /\ p.at = "copy" /\ p.size = 0 /\ p.swept = 0 /\ p.obj = o
    BY RestingIs, RestingObj
  <2>2. pc' = [pc EXCEPT ![w] = p]
    BY <1>8 DEF Copying
  <2>. HIDE DEF p
  <2>3. /\ Threads' = Threads /\ Mutators' = Mutators /\ w \in Threads /\ pc'[w] = p
        /\ \A m \in Mutators : pc'[m] = pc[m]
        /\ \A t \in Threads : Registers(t)'
        /\ \A v \in Workers : v # w => pc'[v] = pc[v]
    BY <1>1, <1>4, <2>1, <2>2, WorkerGoesOn
  <2>4. /\ byte' \in [Locations -> Marks] /\ byte'[o] = BUSY
        /\ \A x \in Locations : x # o => byte'[x] = byte[x]
        /\ Placed' = Placed
    <3>1. byte \in [Locations -> Marks] /\ byte' = [byte EXCEPT ![o] = BUSY]
      BY <1>8 DEF HeapInv, MemoryTypes
    <3>2. BUSY \in Marks \ {NONE}
      BY MarksAre
    <3>3. /\ byte' \in [Locations -> Marks] /\ byte'[o] = BUSY
          /\ \A x \in Locations : x # o => byte'[x] = byte[x]
          /\ Placed' = Placed \cup {o}
      BY <1>4, <3>1, <3>2, ByteSet
    <3>. QED  BY <1>4, <3>3
  <2>5. /\ marked' = marked /\ marked' \subseteq Blocks /\ held' = held
        /\ held \subseteq Locations /\ Placed \subseteq Locations
    BY <1>1, <1>8 DEF HeapInv, MemoryTypes, Placed
  <2>6. BUSY \notin MARK_0 .. MARK_2
    BY MarksAre
  <2>7. HeldMarked'
    <3>1. \A x \in held : byte[x] \in {YOUNG, survivor_mark, current_mark, BUSY}
                          /\ (byte[x] = BUSY => phase = "trace")
                          /\ (byte[x] = current_mark => x[1] \in marked)
      BY DEF HeapInv, HeldMarked
    <3>2. \A x \in held' : byte'[x] \in {YOUNG, survivor_mark', current_mark', BUSY}
                           /\ (byte'[x] = BUSY => phase' = "trace")
                           /\ (byte'[x] = current_mark' => x[1] \in marked')
      BY <1>1, <1>2, <1>4, <2>4, <2>5, <2>6, <3>1
    <3>. QED  BY <1>1, <1>2, <3>2 DEF HeldMarked
  <2>8. \A x : Unswept(x)' <=> Unswept(x)
    BY <1>1, <2>3 DEF Unswept
  <2>9. Fresh'
    <3>1. nofl_advance_current_mark(current_mark) \in MARK_0 .. MARK_2
      BY <1>4 DEF nofl_advance_current_mark, MARK_0, MARK_2
    <3>2. \A x \in Placed' : byte'[x] # nofl_advance_current_mark(current_mark)'
      BY <1>2, <2>4, <2>5, <2>6, <3>1 DEF HeapInv, Fresh, nofl_advance_current_mark
    <3>3. \A x \in Placed' : byte'[x] \in MARK_0 .. MARK_2 =>
            byte'[x] = current_mark' \/ Unswept(x)' \/ (phase' = "pinned" /\ kind' # "minor")
      BY <1>2, <2>4, <2>5, <2>6, <2>8 DEF HeapInv, Fresh
    <3>4. ASSUME kind' # "minor", NEW b \in marked'
          PROVE  \E x \in held' : x[1] = b /\ byte'[x] = current_mark'
      <4>1. PICK x \in held : x[1] = b /\ byte[x] = current_mark
        BY <1>1, <1>2, <2>5, <3>4 DEF HeapInv, Fresh
      <4>. QED  BY <1>1, <1>2, <2>4, <2>5, <4>1
    <3>. QED  BY <1>2, <3>2, <3>3, <3>4 DEF Fresh
  <2>10. Busy'
    <3>1. \A v \in Workers : v # w /\ pc'[v].at # "idle" =>
            /\ pc'[v] = pc[v] /\ pc[v].obj # o /\ pc[v].obj \in held
            /\ pc[v].obj \in Locations /\ byte'[pc[v].obj] = BUSY
      BY <1>5, <1>6, <2>3, <2>4, <2>5 DEF Busy
    <3>2. \A u, v \in Workers : u # w /\ v # w /\ u # v /\ pc'[u].at # "idle"
                                /\ pc'[v].at # "idle" => pc'[u].obj # pc'[v].obj
      BY <1>6, <2>3 DEF Busy
    <3>3. pc'[w].obj = o /\ byte'[o] = BUSY /\ o \in held'
      BY <2>1, <2>3, <2>4, <2>5
    <3>. QED  BY <2>5, <3>1, <3>2, <3>3 DEF Busy
  <2>. QED  BY <1>1, <1>3, <2>3, <2>4, <2>5, <2>7, <2>9, <2>10, Remarked
<1>. QED  BY <1>7, <1>8 DEF MarkObject

LEMMA EmptyTargetHeap ==
  ASSUME HeapInv, NEW w \in Workers, EmptyTarget(w)
  PROVE  HeapInv'
<1>1. ASSUME NEW b \in list["empty"], AcquireEmpty(w, b), Goto(w, "copy"),
             UNCHANGED <<byte, marked>>
      PROVE  HeapInv'
  BY <1>1, EmptyTargetTakes
<1>2. CASE /\ SetMark(pc[w].obj) /\ Rest(w)
           /\ UNCHANGED <<list, summary, alloc, zero, dirty>>
  <2>1. PICK o : o = pc[w].obj
    OBVIOUS
  <2>2. /\ pc[w].at = "empty" /\ pc' = [pc EXCEPT ![w] = Resting]
        /\ UNCHANGED <<ends, dirty, zero, candidate, summary, list, holes, alloc, space_vars,
                       gc_vars, held, allocated>>
    BY <1>2 DEF EmptyTarget, Rest
  <2>3. /\ IInv' /\ w \in Threads /\ phase = "trace" /\ WorkerInv(w)
        /\ alloc[w].block = NoBlock
    BY <2>2, EmptyTargetIInv DEF HeapInv, IInv, Records, WorkerInv
  <2>4. Busy /\ o \in held /\ byte[o] = BUSY
    BY <2>1, <2>2 DEF HeapInv, Busy
  <2>5. IsProcess(Resting) /\ Resting.at = "idle" /\ Resting.size = 0 /\ Resting.swept = 0
        /\ Resting.obj = <<NoBlock, 0>>
    BY RestingIs, RestingObj
  <2>6. /\ Threads' = Threads /\ Mutators' = Mutators /\ w \in Threads /\ pc'[w] = Resting
        /\ \A m \in Mutators : pc'[m] = pc[m]
        /\ \A t \in Threads : Registers(t)'
        /\ \A v \in Workers : v # w => pc'[v] = pc[v]
    BY <2>2, <2>3, <2>5, WorkerGoesOn
  <2>7. \A x \in Locations : x # o => byte'[x] = byte[x]
    BY <1>2, <2>1 DEF SetMark, HeapInv, MemoryTypes
  <2>8. Busy'
    <3>1. \A v \in Workers : pc'[v].at # "idle" =>
            /\ v # w /\ pc'[v] = pc[v] /\ pc[v].obj # o /\ pc[v].obj \in held
            /\ pc[v].obj \in Locations /\ byte[pc[v].obj] = BUSY
      BY <2>1, <2>2, <2>4, <2>5, <2>6 DEF Busy, HeapInv, MemoryTypes
    <3>. QED  BY <2>2, <2>4, <2>7, <3>1 DEF Busy
  <2>9. SetMark(o)
    BY <1>2, <2>1
  <2>. QED  BY <2>2, <2>3, <2>4, <2>6, <2>8, <2>9, MarksOne
<1>. QED  BY <1>1, <1>2 DEF EmptyTarget

\* An object has at least one granule and fits in a block.
LEMMA SizeIs ==
  ASSUME HeapInv, NEW o \in Placed
  PROVE  Cardinality(Extent(o)) \in 1 .. G
<1>1. o \in Locations /\ Ended(o)
  BY DEF HeapInv, ObjectsApart, Placed, Ended
<1>2. /\ Extent(o) \subseteq Locations /\ o \in Extent(o) /\ LastOf(o) \in o[2] .. G - 1
      /\ Extent(o) = {o[1]} \X (o[2] .. LastOf(o))
  BY <1>1, ExtentIs, LastIs
<1>3. /\ G \in Nat /\ Locations = Blocks \X (0 .. G - 1) /\ o[2] \in 0 .. G - 1
  BY <1>1, GranulesAre
<1>4. Extent(o) \in SUBSET ({o[1]} \X (0 .. G - 1))
  <2>1. o[2] .. LastOf(o) \subseteq 0 .. G - 1
    BY <1>2, <1>3
  <2>. QED  BY <1>2, <2>1
<1>5. Cardinality(Extent(o)) \in Nat /\ Cardinality(Extent(o)) <= G
  <2>1. 0 \in Nat /\ 0 <= G /\ G - 0 = G
    BY <1>3
  <2>2. Cardinality(Extent(o)) \in Nat /\ Cardinality(Extent(o)) <= G - 0
    BY <1>3, <1>4, <2>1, FewIn
  <2>. QED  BY <2>1, <2>2
<1>6. IsFiniteSet(Extent(o))
  <2>1. IsFiniteSet(Blocks) /\ IsFiniteSet(0 .. G - 1)
    <3>1. 0 \in Int /\ G - 1 \in Int
      BY <1>3
    <3>2. IsFiniteSet(0 .. G - 1)
      BY <3>1, FS_Interval
    <3>. QED  BY <3>2, SweepCount
  <2>2. IsFiniteSet(Locations)
    BY <1>3, <2>1, FS_Product
  <2>. QED  BY <1>2, <2>2, FS_Subset
<1>7. Cardinality(Extent(o)) # 0
  BY <1>2, <1>6, FS_EmptySet
<1>. QED  BY <1>3, <1>5, <1>7

LEMMA CopyHeap ==
  ASSUME HeapInv, NEW w \in Workers, Copy(w)
  PROVE  HeapInv'
<1>1. PICK o, b, i, e, n : /\ o = pc[w].obj /\ b = alloc[w].block /\ i = alloc[w].alloc
                           /\ e = alloc[w].sweep /\ n = Cardinality(Extent(o))
  OBVIOUS
<1>. DEFINE new == <<b, i>>
<1>2. /\ pc[w].at = "copy" /\ e - i >= n
      /\ UNCHANGED <<list, holes, summary, zero, candidate, phase, collector>>
      /\ UNCHANGED <<current_mark, survivor_mark, evacuating, reserve, kind, count, allocated>>
      /\ pc' = [pc EXCEPT ![w] = Resting] /\ alloc' = [alloc EXCEPT ![w] = Room(alloc[w], i + n)]
      /\ byte' = [byte EXCEPT ![o] = FORWARDED, ![new] = current_mark]
      /\ ends' = ends \cup {<<b, i + n - 1>>} /\ marked' = marked \cup {b}
      /\ held' = (held \ {o}) \cup {new} /\ dirty' = dirty \cup Inside(Hole(b, i, n))
  BY <1>1 DEF Copy, Rest, Room, space_vars, gc_vars
<1>3. /\ IInv' /\ w \in Threads /\ phase = "trace" /\ Workers \subseteq Threads
  BY <1>2, CopyIInv DEF HeapInv, IInv, Records, WorkerInv
<1>4. /\ Registers(w) /\ Records /\ IsAllocator(alloc[w])
      /\ alloc[w].block \in Blocks \cup {NoBlock}
  BY <1>3, ThreadIs
<1>5. MemoryTypes /\ Busy /\ o \in held /\ byte[o] = BUSY
  BY <1>1, <1>2 DEF HeapInv, Busy
<1>6. /\ o \in Locations /\ o \in Placed
      /\ current_mark \in MARK_0 .. MARK_2 /\ survivor_mark \in MARK_0 .. MARK_2
  BY <1>5, HeldPlaced
<1>7. n \in 1 .. G
  BY <1>1, <1>6, SizeIs
<1>8. i + n <= e /\ i \in 0 .. G /\ e \in 0 .. G /\ (b = NoBlock => e = 0) /\ G \in Nat
  BY <1>1, <1>2, <1>4, <1>7, GranulesAre DEF Registers
<1>9. b \in Blocks /\ i \in 0 .. G - 1 /\ new \in Locations
  BY <1>1, <1>4, <1>7, <1>8, GranulesAre
<1>10. /\ IsAllocator(Room(alloc[w], i + n))
       /\ Room(alloc[w], i + n).block \in Blocks \cup {NoBlock}
  BY <1>4, AllocatorWith
<1>11. Only(w) /\ pc'[w] = Resting /\ alloc'[w] = Room(alloc[w], i + n)
  BY <1>2, <1>3, <1>10, OnlyOne, RestingIs DEF HeapInv
<1>12. FORWARDED \in Marks \ {NONE} /\ current_mark \in Marks \ {NONE}
       /\ FORWARDED \notin MARK_0 .. MARK_2 /\ BUSY \notin MARK_0 .. MARK_2
  BY <1>6, MarksAre
<1>13. /\ byte' \in [Locations -> Marks] /\ byte'[new] = current_mark
       /\ new # o => byte'[o] = FORWARDED
       /\ \A x \in Locations : x # new /\ x # o => byte'[x] = byte[x]
  BY <1>2, <1>5, <1>6, <1>9, <1>12 DEF MemoryTypes
<1>14. Placed' = Placed \cup {new}
  <2>1. \A x \in Locations : byte'[x] # NONE <=> byte[x] # NONE \/ x = new
    BY <1>6, <1>12, <1>13 DEF Placed
  <2>. QED  BY <1>9, <2>1 DEF Placed
<1>15. /\ new \notin Placed /\ dirty' \subseteq Locations /\ ends' \subseteq Locations
       /\ (\A u \in Threads : Registers(u)') /\ Counts' /\ HolesApart' /\ HolesAside'
       /\ ObjectsApart' /\ SweptWhole' /\ Clean'
       /\ (\A x : Unswept(x)' = Unswept(x)) /\ ~Unswept(new)
  BY <1>1, <1>2, <1>3, <1>7, <1>8, <1>11, <1>14, BumpPlaces
<1>16. held \subseteq Placed /\ Placed \subseteq Locations /\ new # o
  BY <1>6, <1>15, HeldPlaced DEF Placed
<1>17. MemoryTypes'
  BY <1>2, <1>5, <1>9, <1>13, <1>15 DEF MemoryTypes
<1>18. Bounded' /\ Threads' = Threads /\ Mutators' = Mutators
  BY <1>2, <1>11, BoundedStays DEF HeapInv, Only
<1>19. \A x \in held' : x = new \/ (x \in held /\ byte'[x] = byte[x])
  BY <1>2, <1>13, <1>15, <1>16
<1>20. HeldMarked'
  <2>1. \A x \in held : byte[x] \in {YOUNG, survivor_mark, current_mark, BUSY}
                        /\ (byte[x] = current_mark => x[1] \in marked)
    BY DEF HeapInv, HeldMarked
  <2>2. \A x \in held' : byte'[x] \in {YOUNG, survivor_mark', current_mark', BUSY}
                         /\ (byte'[x] = current_mark' => x[1] \in marked')
    <3>1. ASSUME NEW x \in held'
          PROVE  /\ byte'[x] \in {YOUNG, survivor_mark, current_mark, BUSY}
                 /\ (byte'[x] = current_mark => x[1] \in marked \cup {b})
      <4>1. CASE x = new
        BY <1>13, <4>1
      <4>2. CASE x # new
        BY <1>19, <2>1, <4>2
      <4>. QED  BY <4>1, <4>2
    <3>. QED  BY <1>2, <3>1
  <2>. QED  BY <1>2, <1>3, <2>2 DEF HeldMarked
<1>21. Busy'
  <2>1. \A v \in Workers : pc'[v].at # "idle" =>
          /\ v # w /\ pc'[v] = pc[v] /\ pc[v].obj # o /\ pc[v].obj \in held
          /\ byte[pc[v].obj] = BUSY /\ pc[v].obj # new
    BY <1>1, <1>2, <1>3, <1>5, <1>11, <1>15, <1>16, RestingIs DEF Busy, Only
  <2>2. \A v \in Workers : pc'[v].at # "idle" =>
          pc'[v].obj \in held' /\ byte'[pc'[v].obj] = BUSY
    BY <1>2, <1>13, <1>16, <2>1
  <2>. QED  BY <1>5, <2>1, <2>2 DEF Busy
<1>22. Fresh'
  <2>1. current_mark # nofl_advance_current_mark(current_mark)
        /\ nofl_advance_current_mark(current_mark) \in MARK_0 .. MARK_2
    BY <1>6 DEF nofl_advance_current_mark, MARK_0, MARK_2
  <2>2. Fresh
    BY DEF HeapInv
  <2>3. \A x \in Placed' : byte'[x] # nofl_advance_current_mark(current_mark)'
    BY <1>2, <1>12, <1>13, <1>14, <1>16, <2>1, <2>2 DEF Fresh, nofl_advance_current_mark
  <2>4. \A x \in Placed' : byte'[x] \in MARK_0 .. MARK_2 =>
          byte'[x] = current_mark' \/ Unswept(x)' \/ (phase' = "pinned" /\ kind' # "minor")
    BY <1>2, <1>12, <1>13, <1>14, <1>15, <1>16, <2>2 DEF Fresh
  <2>5. ASSUME kind' # "minor", NEW c \in marked'
        PROVE  \E x \in held' : x[1] = c /\ byte'[x] = current_mark'
    <3>1. CASE c = b
      <4>1. new \in held' /\ new[1] = c /\ byte'[new] = current_mark'
        BY <1>2, <1>13, <3>1
      <4>. QED  BY <4>1
    <3>2. CASE c \in marked
      <4>1. PICK x \in held : x[1] = c /\ byte[x] = current_mark
        BY <1>2, <1>3, <2>2, <2>5, <3>2 DEF Fresh
      <4>2. x # o /\ x # new
        BY <1>5, <1>6, <1>12, <1>15, <1>16, <4>1
      <4>. QED  BY <1>2, <1>13, <1>16, <4>1, <4>2
    <3>. QED  BY <1>2, <2>5, <3>1, <3>2
  <2>. QED  BY <1>2, <2>3, <2>4, <2>5 DEF Fresh
<1>. QED  BY <1>3, <1>15, <1>17, <1>18, <1>20, <1>21, <1>22 DEF HeapInv

--------------------------------------------------------------------------------
\* A collection begins.

\* When all mutators have stopped, none has a block or a hole.
LEMMA AtRest ==
  ASSUME HeapInv, Stopped \/ phase \in {"pinned", "trace"}
  PROVE  /\ \A m \in Mutators :
              /\ m \in Threads /\ pc[m].at \in {"nospace", "flushed"} /\ pc[m].swept = 0
              /\ alloc[m].block = NoBlock /\ alloc[m].holes = {}
         /\ \A o \in Locations : Unswept(o) <=> o[1] \in list["to_sweep"]
<1>1. ASSUME NEW m \in Mutators
      PROVE  /\ m \in Threads /\ pc[m].at \in {"nospace", "flushed"} /\ pc[m].swept = 0
             /\ alloc[m].block = NoBlock /\ alloc[m].holes = {}
  <2>1. m \in Threads /\ MutatorInv(m) /\ Registers(m)
    BY DEF HeapInv, IInv, Mutators
  <2>2. pc[m].at \in {"nospace", "flushed"} /\ (pc[m].at = "flushed" \/ m = collector)
    BY <2>1 DEF Stopped, MutatorInv
  <2>. QED  BY <2>1, <2>2 DEF MutatorInv, Registers, HeapInv, HolesApart
<1>2. \A o \in Locations : o[1] # NoBlock
  BY GranulesAre, NoflAssumption
<1>. QED  BY <1>1, <1>2 DEF Unswept

LEMMA PrepareHeap ==
  ASSUME HeapInv, NEW k \in Kinds, nofl_space_prepare_gc(k)
  PROVE  HeapInv'
<1>1. /\ Stopped /\ phase = "stopping" /\ phase' = "pinned" /\ kind' = k
      /\ current_mark' = IF k = "minor" THEN current_mark
                         ELSE nofl_advance_current_mark(current_mark)
      /\ marked' = IF k = "minor" THEN marked ELSE {}
      /\ UNCHANGED <<byte, ends, dirty, zero, candidate, summary, list, holes, alloc,
                     survivor_mark, evacuating, reserve, collector, count, held, allocated, pc>>
  BY DEF nofl_space_prepare_gc, Stopped, BlockMarks, memory_vars
<1>2. IInv' /\ Threads' = Threads /\ Mutators' = Mutators
  BY <1>1, PrepareIInv DEF HeapInv, Threads, Mutators
<1>3. AllHoles' = AllHoles /\ Vacant' = Vacant /\ Free' = Free /\ Placed' = Placed
      /\ \A o : Extent(o)' = Extent(o)
  BY <1>1 DEF AllHoles, Vacant, Free, Extent, Leftover, Threads, Placed
<1>4. list["to_sweep"] = {}
  BY <1>1, <1>2 DEF IInv, Phases
<1>5. \A o \in Locations : ~Unswept(o) /\ ~Unswept(o)'
  <2>1. \A o \in Locations : ~Unswept(o)
    BY <1>1, <1>4, AtRest
  <2>. QED  BY <1>1, <1>2, <2>1 DEF Unswept
<1>6. MemoryTypes /\ Fresh /\ HeldMarked
  BY DEF HeapInv
<1>7. /\ current_mark \in MARK_0 .. MARK_2 /\ current_mark' \in MARK_0 .. MARK_2
      /\ LET next == nofl_advance_current_mark(current_mark)
         IN  /\ next \in MARK_0 .. MARK_2 /\ nofl_advance_current_mark(next) \in MARK_0 .. MARK_2
             /\ nofl_advance_current_mark(next) # current_mark
  <2>1. current_mark \in MARK_0 .. MARK_2
    BY <1>6 DEF MemoryTypes
  <2>. QED  BY <1>1, <2>1 DEF nofl_advance_current_mark, MARK_0, MARK_2
<1>8. MemoryTypes'
  BY <1>1, <1>6, <1>7 DEF MemoryTypes
<1>9. Bounded'
  <2>1. k \in {"minor", "in_place", "compacting"}
    BY NoflAssumption
  <2>. QED  BY <1>1, <1>2, <2>1 DEF HeapInv, Bounded, LastCount
<1>10. \A t \in Threads : Registers(t)'
  BY <1>1 DEF HeapInv, Registers
<1>11. Counts' /\ HolesApart'
  BY <1>1, <1>2, <1>3 DEF HeapInv, Counts, HolesApart
<1>12. HolesAside'
  BY <1>1, <1>2, <1>3, <1>4 DEF HeapInv, HolesAside
<1>13. ObjectsApart' /\ SweptWhole' /\ Clean'
  BY <1>1, <1>2, <1>3 DEF HeapInv, ObjectsApart, SweptWhole, Clean, Leftover, Granules
<1>14. Placed \subseteq Locations /\ held \subseteq Placed
  BY HeldPlaced DEF Placed
<1>15. HeldMarked'
  <2>1. \A o \in held : /\ byte[o] \in {YOUNG, survivor_mark}
                        /\ byte[o] = current_mark => o[1] \in marked
    BY <1>1, <1>6, MarksAre DEF HeldMarked
  <2>2. k # "minor" => \A o \in held : byte[o] # current_mark'
    BY <1>1, <1>6, <1>14 DEF Fresh
  <2>3. YOUNG # BUSY /\ survivor_mark # BUSY
    BY <1>6, MarksAre DEF MemoryTypes
  <2>. QED  BY <1>1, <2>1, <2>2, <2>3 DEF HeldMarked
<1>16. Busy'
  <2>1. \A w \in Workers : pc[w].at = "idle"
    BY <1>1 DEF HeapInv, IInv, WorkerInv
  <2>. QED  BY <1>1, <2>1 DEF Busy
<1>17. Fresh'
  <2>1. \A o \in Placed : byte[o] \in MARK_0 .. MARK_2 => byte[o] = current_mark
    BY <1>1, <1>5, <1>6, <1>14 DEF Fresh
  <2>2. \A o \in Placed : byte[o] # nofl_advance_current_mark(current_mark)
    BY <1>6 DEF Fresh
  <2>3. \A o \in Placed' : byte'[o] # nofl_advance_current_mark(current_mark)'
    <3>1. CASE k = "minor"
      BY <1>1, <1>3, <2>2, <3>1 DEF nofl_advance_current_mark
    <3>2. CASE k # "minor"
      BY <1>1, <1>3, <1>7, <2>1, <3>2 DEF nofl_advance_current_mark
    <3>. QED  BY <3>1, <3>2
  <2>4. \A o \in Placed' : byte'[o] \in MARK_0 .. MARK_2 =>
          byte'[o] = current_mark' \/ Unswept(o)' \/ (phase' = "pinned" /\ kind' # "minor")
    BY <1>1, <1>3, <2>1
  <2>. QED  BY <1>1, <2>3, <2>4 DEF Fresh
<1>. QED  BY <1>2, <1>8, <1>9, <1>10, <1>11, <1>12, <1>13, <1>15, <1>16, <1>17 DEF HeapInv

\* The lists that are swept after the collection, but for a minor one.
LEMMA StartLists ==
  ASSUME HeapInv, nofl_space_start_gc
  PROVE  /\ Vacant' = Vacant /\ list'["partly_full"] = {}
         /\ list["to_sweep"] \subseteq list'["to_sweep"] /\ list'["to_sweep"] \subseteq Blocks
         /\ list["full"] \cup list["partly_full"] \subseteq list'["to_sweep"]
         /\ kind # "minor" => list["promoted"] \cup list["old"] \subseteq list'["to_sweep"]
<1>. DEFINE S == Sources(kind)
            moved == UNION {list[l] : l \in S}
            spare == list["empty"] \cup list["targets"]
            started == [l \in Lists |-> IF l \in S THEN {}
                                        ELSE IF l = "to_sweep" THEN list[l] \cup moved
                                        ELSE list[l]]
<1>1. /\ list \in [Lists -> SUBSET Blocks] /\ list'["partly_full"] = {}
      /\ list' \in [Lists -> SUBSET Blocks]
      /\ list' = IF kind = "compacting"
                 THEN [started EXCEPT !["empty"] = spare, !["targets"] = {}] ELSE started
  BY StartIs DEF HeapInv, IInv, Records, nofl_space_start_gc
<1>2. /\ S \subseteq Lists \ {"empty", "to_sweep", "targets"} /\ {"partly_full", "full"} \subseteq S
      /\ {"empty", "to_sweep", "targets"} \subseteq Lists
      /\ kind # "minor" => {"promoted", "old"} \subseteq S
  BY DEF Sources, Lists
<1>. HIDE DEF S
<1>3. /\ started["to_sweep"] = list["to_sweep"] \cup moved
      /\ started["empty"] = list["empty"] /\ started["targets"] = list["targets"]
      /\ started \in [Lists -> SUBSET Blocks]
  BY <1>1, <1>2
<1>. HIDE DEF started
<1>4. list'["to_sweep"] = list["to_sweep"] \cup moved
  BY <1>1, <1>2, <1>3
<1>5. list'["empty"] \cup list'["targets"] = list["empty"] \cup list["targets"]
  BY <1>1, <1>2, <1>3
<1>6. /\ list["full"] \cup list["partly_full"] \subseteq moved
      /\ kind # "minor" => list["promoted"] \cup list["old"] \subseteq moved
  BY <1>2
<1>7. list'["to_sweep"] \subseteq Blocks
  BY <1>1, <1>2
<1>. QED  BY <1>1, <1>4, <1>5, <1>6, <1>7 DEF Vacant

LEMMA StartHeap ==
  ASSUME HeapInv, nofl_space_start_gc
  PROVE  HeapInv'
<1>1. /\ phase = "pinned" /\ phase' = "trace"
      /\ UNCHANGED <<byte, ends, dirty, zero, marked, summary, holes, alloc, current_mark,
                     survivor_mark, kind, collector, count, held, allocated, pc>>
  BY DEF nofl_space_start_gc, memory_vars
<1>2. IInv' /\ Threads' = Threads /\ Mutators' = Mutators
  BY <1>1, StartIInv DEF HeapInv, Threads, Mutators
<1>3. /\ Vacant' = Vacant /\ list'["partly_full"] = {}
      /\ list["to_sweep"] \subseteq list'["to_sweep"] /\ list'["to_sweep"] \subseteq Blocks
      /\ list["full"] \cup list["partly_full"] \subseteq list'["to_sweep"]
      /\ kind # "minor" => list["promoted"] \cup list["old"] \subseteq list'["to_sweep"]
  BY StartLists
<1>4. AllHoles' = AllHoles /\ Placed' = Placed /\ \A o : Extent(o)' = Extent(o)
  BY <1>1 DEF AllHoles, Extent, Threads, Placed
<1>5. MemoryTypes /\ Fresh /\ HeldMarked /\ Typed /\ Apart /\ Records
  BY HeapTyped DEF HeapInv, IInv
<1>6. MemoryTypes'
  <2>1. /\ evacuating' \in BOOLEAN /\ reserve' \in {MinReserve, Reserve}
    BY <1>5 DEF nofl_space_start_gc, MemoryTypes
  <2>2. candidate' \subseteq Blocks
    <3>1. PICK started : /\ started \subseteq Blocks
                         /\ \/ candidate' = candidate
                            \/ \E c \in SUBSET started :
                                 candidate' = (candidate \ started) \cup c
      <4>. DEFINE moved == UNION {list[l] : l \in Sources(kind)}
                  started == [l \in Lists |-> IF l \in Sources(kind) THEN {}
                               ELSE IF l = "to_sweep" THEN list[l] \cup moved ELSE list[l]]
      <4>1. list \in [Lists -> SUBSET Blocks] /\ Sources(kind) \subseteq Lists
            /\ "to_sweep" \in Lists
        BY <1>5 DEF Records, Sources, Lists
      <4>2. started["to_sweep"] \subseteq Blocks
        BY <4>1
      <4>3. \/ candidate' = candidate
            \/ \E c \in SUBSET started["to_sweep"] :
                 candidate' = (candidate \ started["to_sweep"]) \cup c
        BY DEF nofl_space_start_gc
      <4>. HIDE DEF started
      <4>. QED  BY <4>2, <4>3
    <3>. QED  BY <1>5, <3>1 DEF MemoryTypes
  <2>. QED  BY <1>1, <1>5, <2>1, <2>2 DEF MemoryTypes
<1>7. Bounded'
  BY <1>1, <1>2 DEF HeapInv, Bounded, LastCount
<1>8. \A t \in Threads : Registers(t)'
  BY <1>1 DEF HeapInv, Registers
<1>9. \A m \in Mutators : pc[m].swept = 0 /\ alloc[m].block = NoBlock
  BY <1>1, AtRest
<1>10. Counts'
  <2>1. Cardinality(list'["to_sweep"]) \in Nat /\ Cardinality(Blocks) \in Nat
        /\ Cardinality(list'["to_sweep"]) <= Cardinality(Blocks)
    <3>1. IsFiniteSet(Blocks)
      BY SweepCount
    <3>2. IsFiniteSet(list'["to_sweep"])
          /\ Cardinality(list'["to_sweep"]) <= Cardinality(Blocks)
      BY <1>3, <3>1, FS_Subset
    <3>. QED  BY <3>1, <3>2, FS_CardinalityType
  <2>. QED  BY <1>1, <1>2, <1>3, <1>9, <2>1 DEF HeapInv, Counts
<1>11. HolesApart'
  BY <1>1, <1>2, <1>4 DEF HeapInv, HolesApart
<1>12. HolesAside'
  BY <1>1, <1>2, <1>3, <1>4 DEF HeapInv, HolesAside
<1>13. Free' \subseteq Free
  <2>1. Typed'
    BY <1>2, <1>8, <1>10, <1>11, TypedNext
  <2>2. \A c \in Blocks, i \in 0 .. G - 1 :
          InHole(c, i)' \/ InRoom(c, i)' \/ InTail(c, i)' \/ c \in Vacant' =>
            InHole(c, i) \/ InRoom(c, i) \/ InTail(c, i) \/ c \in Vacant \/ <<c, i>> \in {}
    BY <1>1, <1>2, <1>3, <1>4 DEF InHole, InRoom, InTail
  <2>3. Free' \subseteq Free \cup {}
    BY <1>5, <2>1, <2>2, FreeWithin
  <2>. QED  BY <2>3
<1>14. ObjectsApart' /\ SweptWhole'
  BY <1>1, <1>2, <1>4, <1>13 DEF HeapInv, ObjectsApart, SweptWhole
<1>15. Clean'
  BY <1>1, <1>2, <1>3, <1>4 DEF HeapInv, Clean, Leftover, Granules
<1>16. HeldMarked'
  BY <1>1, <1>5 DEF HeldMarked
<1>17. Busy'
  BY <1>1 DEF HeapInv, Busy
<1>18. Fresh'
  <2>1. ASSUME NEW o \in Placed
        PROVE  byte[o] \in MARK_0 .. MARK_2 => byte[o] = current_mark \/ Unswept(o)'
    <3>1. o \in Locations /\ o[1] \in Blocks /\ o[2] \in 0 .. G - 1 /\ o = <<o[1], o[2]>>
      BY GranulesAre DEF Placed
    <3>2. CASE Unswept(o)
      BY <1>1, <1>2, <1>3, <3>2 DEF Unswept
    <3>3. CASE kind # "minor"
      <4>1. o \notin Free
        <5>1. Ended(o)
          BY DEF HeapInv, ObjectsApart, Ended
        <5>2. o \in Extent(o)
          BY <3>1, <5>1, ExtentIs
        <5>. QED  BY <5>2 DEF HeapInv, ObjectsApart
      <4>2. o[1] \notin Vacant
        BY <1>5, <3>1, <4>1, FreeIs DEF FreeFacts
      <4>3. \A t \in Threads : alloc[t].block # o[1]
        <5>1. \A w \in Workers : alloc[w].block = NoBlock
          BY <1>1 DEF HeapInv, IInv, WorkerInv
        <5>2. o[1] # NoBlock
          BY <3>1, NoflAssumption
        <5>. QED  BY <1>9, <5>1, <5>2 DEF Mutators
      <4>4. PICK l \in Lists : o[1] \in list[l]
        BY <1>5, <3>1, <4>3 DEF Apart
      <4>5. l \in {"to_sweep", "partly_full", "full", "promoted", "old"}
        BY <4>2, <4>4 DEF Lists, Vacant
      <4>. QED  BY <1>3, <3>3, <4>4, <4>5 DEF Unswept
    <3>. QED  BY <1>1, <1>5, <3>2, <3>3 DEF Fresh
  <2>2. \A o \in Placed' : byte'[o] # nofl_advance_current_mark(current_mark)'
    BY <1>1, <1>4, <1>5 DEF Fresh, nofl_advance_current_mark
  <2>3. kind' # "minor" =>
          \A b \in marked' : \E o \in held' : o[1] = b /\ byte'[o] = current_mark'
    BY <1>1, <1>5 DEF Fresh
  <2>. QED  BY <1>1, <1>4, <2>1, <2>2, <2>3 DEF Fresh
<1>. QED  BY <1>2, <1>6, <1>7, <1>8, <1>10, <1>11, <1>12, <1>14, <1>15, <1>16, <1>17, <1>18
          DEF HeapInv

--------------------------------------------------------------------------------
\* A collection ends.

Dead == list["to_sweep"] \ marked
Freed == UNION {UNION {Inside(h) : h \in HolesIn(b, 0, current_mark)} : b \in list["promoted"]}

\* The lists after a collection.
LEMMA FinishLists ==
  ASSUME HeapInv, nofl_space_finish_gc
  PROVE  /\ Vacant \subseteq Vacant' /\ Vacant' \subseteq Vacant \cup Dead
         /\ list'["partly_full"] = list["partly_full"]
         /\ list'["to_sweep"] = list["to_sweep"] \cap marked
<1>1. PICK T \in TargetsAfter(Dead) :
        list' = [list EXCEPT
          !["targets"] = T, !["empty"] = (@ \cup list["targets"] \cup Dead) \ T,
          !["to_sweep"] = @ \cap marked, !["promoted"] = {}, !["old"] = @ \cup list["promoted"]]
  BY DEF nofl_space_finish_gc, Dead
<1>2. T \subseteq list["empty"] \cup list["targets"] \cup Dead
  BY DEF TargetsAfter, kSubset
<1>3. list \in [Lists -> SUBSET Blocks]
  BY DEF HeapInv, IInv, Records
<1>4. {"empty", "to_sweep", "promoted", "old", "targets", "partly_full"} \subseteq Lists
  BY DEF Lists
<1>5. /\ list'["targets"] = T
      /\ list'["empty"] = (list["empty"] \cup list["targets"] \cup Dead) \ T
      /\ list'["to_sweep"] = list["to_sweep"] \cap marked
      /\ list'["partly_full"] = list["partly_full"]
  BY <1>1, <1>3, <1>4
<1>. QED  BY <1>2, <1>5 DEF Vacant

\* What is freed in a block that is promoted.
LEMMA FreedIs ==
  ASSUME HeapInv
  PROVE  /\ Freed \subseteq Locations
         /\ \A b \in Blocks, i \in 0 .. G - 1 :
              <<b, i>> \in Freed <=>
                /\ b \in list["promoted"]
                /\ \A o \in Placed : o[1] = b /\ byte[o] = current_mark =>
                     <<b, i>> \notin Extent(o)
<1>1. /\ list["promoted"] \subseteq Blocks /\ ObjectsApart /\ current_mark \in Marks \ {NONE}
      /\ G \in Nat /\ 0 \in 0 .. G
  BY ListIs, MarksAre, GranulesAre DEF HeapInv, IInv, Records, MemoryTypes
<1>2. ASSUME NEW b \in list["promoted"]
      PROVE  LET hs == HolesIn(b, 0, current_mark) IN
             /\ \A h \in hs : /\ h \in HoleSet /\ h.block = b
                              /\ h.at .. h.at + h.n - 1 \subseteq FreeIn(b, 0, current_mark)
             /\ \A i \in FreeIn(b, 0, current_mark) : \E h \in hs : i \in h.at .. h.at + h.n - 1
  BY <1>1, <1>2, HolesInAre DEF Run
<1>3. ASSUME NEW b \in list["promoted"], NEW i
      PROVE  i \in FreeIn(b, 0, current_mark) <=>
               /\ i \in 0 .. G - 1
               /\ \A o \in Placed : o[1] = b /\ byte[o] = current_mark => <<b, i>> \notin Extent(o)
  BY <1>1, <1>3, FreeInIs
<1>4. ASSUME NEW b \in list["promoted"], NEW c, NEW i
      PROVE  (\E h \in HolesIn(b, 0, current_mark) : <<c, i>> \in Inside(h))
               <=> c = b /\ i \in FreeIn(b, 0, current_mark)
  <2>1. \A h \in HolesIn(b, 0, current_mark) :
          h.block = b /\ (<<c, i>> \in Inside(h) <=> c = h.block /\ i \in h.at .. h.at + h.n - 1)
    BY <1>2, HoleIs
  <2>. QED  BY <1>2, <2>1
<1>5. ASSUME NEW b \in Blocks, NEW i \in 0 .. G - 1
      PROVE  <<b, i>> \in Freed <=> b \in list["promoted"] /\ i \in FreeIn(b, 0, current_mark)
  BY <1>4 DEF Freed
<1>6. Freed \subseteq Locations
  <2>1. ASSUME NEW x \in Freed
        PROVE  x \in Locations
    <3>1. PICK b \in list["promoted"] : \E h \in HolesIn(b, 0, current_mark) : x \in Inside(h)
      BY DEF Freed
    <3>2. PICK h \in HolesIn(b, 0, current_mark) : x \in Inside(h)
      BY <3>1
    <3>. QED  BY <1>2, <3>2, HoleIs
  <2>. QED  BY <2>1
<1>. QED  BY <1>3, <1>5, <1>6

\* Objects are freed as a whole, and none that is marked.
LEMMA FinishWipes ==
  ASSUME HeapInv, nofl_space_finish_gc
  PROVE  LET W == (Dead \X Granules) \cup Freed IN
         /\ W \subseteq Locations /\ Placed' = Placed \ W /\ ends' = ends \ W
         /\ byte' \in [Locations -> Marks] /\ \A o \in Locations : o \notin W => byte'[o] = byte[o]
         /\ \A o \in Placed : Extent(o) \subseteq W \/ Extent(o) \cap W = {}
         /\ \A o \in held : o \notin W
         /\ dirty' \subseteq dirty
<1>. DEFINE W == (Dead \X Granules) \cup Freed
<1>1. /\ Wipe(W) /\ dirty' = dirty \ Freed /\ \A o \in held : byte[o] = current_mark
  BY DEF nofl_space_finish_gc, Traced, Dead, Freed
<1>2. /\ MemoryTypes /\ ObjectsApart /\ Apart /\ list \in [Lists -> SUBSET Blocks]
  BY DEF HeapInv, IInv, Records
<1>3. Dead \subseteq Blocks /\ Dead \cap list["promoted"] = {}
  BY <1>2, ListIs DEF Dead, Apart
<1>4. /\ W \subseteq Locations
      /\ \A b \in Blocks, i \in 0 .. G - 1 : <<b, i>> \in W <=> b \in Dead \/ <<b, i>> \in Freed
  <2>1. Dead \X Granules \subseteq Locations
    BY <1>3 DEF Locations
  <2>. QED  BY <1>3, <2>1, FreedIs, GranulesAre
<1>5. \A b \in Blocks, i \in 0 .. G - 1 :
        <<b, i>> \in Freed <=>
          /\ b \in list["promoted"]
          /\ \A o \in Placed : o[1] = b /\ byte[o] = current_mark => <<b, i>> \notin Extent(o)
  BY FreedIs
<1>. HIDE DEF W
<1>6. NONE \in Marks
  BY MarksAre
<1>7. /\ byte' \in [Locations -> Marks] /\ \A o \in Locations : o \notin W => byte'[o] = byte[o]
      /\ ends' = ends \ W /\ \A o \in Locations : o \in W => byte'[o] = NONE
  BY <1>1, <1>2, <1>6 DEF Wipe, MemoryTypes
<1>8. Placed' = Placed \ W
  BY <1>7 DEF Placed
<1>9. ASSUME NEW o \in Placed
      PROVE  /\ o \in Locations /\ o[1] \in Blocks /\ o = <<o[1], o[2]>> /\ o[2] \in 0 .. G - 1
             /\ o \in Extent(o) /\ Extent(o) \subseteq Locations
             /\ \A x \in Extent(o) : x = <<o[1], x[2]>> /\ x[2] \in 0 .. G - 1
  <2>1. o \in Locations /\ Ended(o)
    BY <1>2 DEF ObjectsApart, Placed, Ended
  <2>2. Extent(o) \subseteq Locations /\ o \in Extent(o)
        /\ \A c, i : <<c, i>> \in Extent(o) <=> c = o[1] /\ i \in o[2] .. LastOf(o)
    BY <2>1, ExtentIs
  <2>3. \A x \in Extent(o) : x = <<x[1], x[2]>> /\ x[2] \in 0 .. G - 1
    BY <2>2, GranulesAre
  <2>. QED  BY <2>1, <2>2, <2>3, GranulesAre
<1>10. ASSUME NEW o \in Placed
       PROVE  /\ Extent(o) \subseteq W \/ Extent(o) \cap W = {}
              /\ byte[o] = current_mark /\ o[1] \notin Dead => o \notin W
  <2>1. CASE o[1] \in Dead
    BY <1>4, <1>9, <2>1
  <2>2. CASE o[1] \notin Dead /\ o[1] \notin list["promoted"]
    BY <1>4, <1>5, <1>9, <2>2
  <2>3. CASE o[1] \notin Dead /\ o[1] \in list["promoted"] /\ byte[o] = current_mark
    <3>1. \A x \in Extent(o) : x \notin W
      BY <1>4, <1>5, <1>9, <2>3
    <3>. QED  BY <1>9, <3>1
  <2>4. CASE o[1] \notin Dead /\ o[1] \in list["promoted"] /\ byte[o] # current_mark
    <3>1. \A p \in Placed : byte[p] = current_mark => Extent(o) \cap Extent(p) = {}
      BY <1>2, <2>4 DEF ObjectsApart
    <3>2. \A x \in Extent(o) : x \in W
      BY <1>4, <1>5, <1>9, <2>4, <3>1
    <3>. QED  BY <2>4, <3>2
  <2>. QED  BY <2>1, <2>2, <2>3, <2>4
<1>11. ASSUME NEW o \in held
       PROVE  o \notin W
  <2>1. o \in Placed /\ byte[o] = current_mark
    BY <1>1, HeldPlaced
  <2>2. o[1] \in marked
    BY <2>1 DEF HeapInv, HeldMarked
  <2>. QED  BY <1>10, <2>1, <2>2 DEF Dead
<1>. QED  BY <1>1, <1>4, <1>7, <1>8, <1>10, <1>11 DEF W

LEMMA FinishHeap ==
  ASSUME HeapInv, nofl_space_finish_gc
  PROVE  HeapInv'
<1>1. PICK W : W = (Dead \X Granules) \cup Freed
  OBVIOUS
<1>2. /\ phase = "trace" /\ phase' = "run" /\ holes' = {} /\ survivor_mark' = current_mark
      /\ collector' = NoOne /\ count' = count + 1 /\ evacuating' = FALSE
      /\ reserve' = (IF evacuating THEN reserve ELSE MinReserve)
      /\ pc' = [pc EXCEPT ![collector] = Resting]
      /\ \A w \in Workers : pc[w].at = "idle" /\ alloc[w].block = NoBlock
      /\ \A o \in held : byte[o] = current_mark
      /\ UNCHANGED <<zero, candidate, marked, summary, alloc, current_mark, kind, held, allocated>>
  BY DEF nofl_space_finish_gc, Traced, ClearHoles, Rest, flag_vars
<1>3. /\ Vacant \subseteq Vacant' /\ Vacant' \subseteq Vacant \cup Dead
      /\ list'["partly_full"] = list["partly_full"]
      /\ list'["to_sweep"] = list["to_sweep"] \cap marked
  BY FinishLists
<1>4. /\ W \subseteq Locations /\ Placed' = Placed \ W /\ ends' = ends \ W
      /\ byte' \in [Locations -> Marks] /\ \A o \in Locations : o \notin W => byte'[o] = byte[o]
      /\ \A o \in Placed : Extent(o) \subseteq W \/ Extent(o) \cap W = {}
      /\ \A o \in held : o \notin W
      /\ dirty' \subseteq dirty
  BY <1>1, FinishWipes
<1>5. /\ MemoryTypes /\ Fresh /\ HeldMarked /\ Typed /\ Apart /\ Records /\ Phases /\ Clean
      /\ Counts /\ ObjectsApart /\ \A t \in Threads : Registers(t)
  BY HeapTyped DEF HeapInv, IInv
<1>6. /\ \A m \in Mutators :
           /\ m \in Threads /\ pc[m].at \in {"nospace", "flushed"} /\ pc[m].swept = 0
           /\ alloc[m].block = NoBlock /\ alloc[m].holes = {}
      /\ \A o \in Locations : Unswept(o) <=> o[1] \in list["to_sweep"]
  BY <1>2, AtRest
<1>7. IInv' /\ collector \in Mutators /\ collector \in Threads /\ collector \notin Workers
  BY <1>2, <1>5, FinishIInv DEF HeapInv, Phases, Mutators
<1>8. /\ Threads' = Threads /\ Mutators' = Mutators /\ pc'[collector] = Resting
      /\ \A u \in Threads : u # collector => pc'[u] = pc[u]
  BY <1>2, <1>5, <1>7, OneProcess, RestingIs
<1>9. /\ Resting.at = "idle" /\ Resting.size = 0 /\ Resting.swept = 0
      /\ Resting.obj = <<NoBlock, 0>>
  BY RestingIs, RestingObj
<1>10. \A t \in Threads : alloc[t].block = NoBlock /\ alloc[t].holes = {}
  <2>1. \A t \in Threads : t \in Workers => alloc[t].holes = {}
    BY <1>5 DEF Registers
  <2>. QED  BY <1>2, <1>6, <2>1 DEF Mutators
<1>11. AllHoles' = {}
  BY <1>2, <1>8, <1>10 DEF AllHoles
<1>12. MemoryTypes'
  BY <1>2, <1>4, <1>5 DEF MemoryTypes
<1>13. Bounded'
  <2>1. Bounded
    BY DEF HeapInv
  <2>2. MaxCount[Cardinality(Mutators)]' = MaxCount[Cardinality(Mutators)]
        /\ MaxAlloc[Cardinality(Mutators)]' = MaxAlloc[Cardinality(Mutators)]
    BY <1>8
  <2>. QED  BY <1>2, <2>1, <2>2 DEF Bounded, LastCount
<1>14. \A t \in Threads : Registers(t)'
  <2>1. PICK c : c = collector
    OBVIOUS
  <2>2. Registers(c) /\ 0 \in 0 .. G /\ 0 \in Nat
    BY <1>5, <1>7, <2>1, GranulesAre
  <2>3. pc'[c] = Resting /\ alloc' = alloc /\ alloc[c].block = NoBlock /\ c \notin Workers
    BY <1>2, <1>7, <1>8, <1>10, <2>1
  <2>4. Registers(c)'
    BY <1>9, <2>2, <2>3 DEF Registers, Labels
  <2>5. c \in Threads /\ \A u \in Threads : u # c => alloc'[u] = alloc[u] /\ pc'[u] = pc[u]
    BY <1>2, <1>7, <1>8, <2>1
  <2>. QED  BY <1>5, <1>8, <2>4, <2>5, BystanderRegisters
<1>15. Counts'
  <2>1. \A m \in Mutators : pc'[m].swept = 0
    BY <1>6, <1>8, <1>9
  <2>2. Cardinality(list'["to_sweep"]) \in Nat /\ Cardinality(Blocks) \in Nat
        /\ Cardinality(list'["to_sweep"]) <= Cardinality(Blocks)
    <3>1. list["to_sweep"] \subseteq Blocks
      BY <1>5, ListIs DEF Records
    <3>2. list'["to_sweep"] \subseteq Blocks /\ IsFiniteSet(Blocks)
      BY <1>3, <3>1, SweepCount
    <3>3. IsFiniteSet(list'["to_sweep"])
          /\ Cardinality(list'["to_sweep"]) <= Cardinality(Blocks)
      BY <3>2, FS_Subset
    <3>. QED  BY <3>2, <3>3, FS_CardinalityType
  <2>. QED  BY <1>2, <1>3, <1>5, <1>8, <2>1, <2>2 DEF Counts
<1>16. HolesApart' /\ HolesAside'
  BY <1>2, <1>6, <1>8, <1>10, <1>11 DEF HolesApart, HolesAside
<1>17. Free' \subseteq Free \cup W
  <2>1. Typed'
    BY <1>7, <1>8, <1>14, <1>15, <1>16, TypedNext
  <2>2. ASSUME NEW c \in Blocks, NEW i \in 0 .. G - 1,
               InHole(c, i)' \/ InRoom(c, i)' \/ InTail(c, i)' \/ c \in Vacant'
        PROVE  InTail(c, i) \/ c \in Vacant \/ <<c, i>> \in W
    <3>1. ~InHole(c, i)'
      BY <1>11 DEF InHole
    <3>2. ~InRoom(c, i)'
      <4>1. c # NoBlock
        BY NoflAssumption
      <4>. QED  BY <1>2, <1>8, <1>10, <4>1 DEF InRoom
    <3>3. CASE InTail(c, i)'
      BY <1>2, <1>3, <3>3 DEF InTail
    <3>4. CASE c \in Vacant'
      <4>1. c \in Vacant \/ c \in Dead
        BY <1>3, <3>4
      <4>. QED  BY <1>1, <4>1 DEF Granules
    <3>. QED  BY <2>2, <3>1, <3>2, <3>3, <3>4
  <2>. QED  BY <1>5, <2>1, <2>2, FreeWithin
<1>18. /\ ObjectsApart'
       /\ \A o \in Placed' : o \in Placed
  BY <1>4, <1>5, <1>17, Wiped
<1>19. SweptWhole'
  BY <1>2, <1>8, <1>10 DEF SweptWhole
<1>20. Clean'
  <2>1. zero' \subseteq Vacant' /\ (zero' \X Granules) \cap dirty' = {}
    BY <1>2, <1>3, <1>4, <1>5 DEF Clean
  <2>2. \A t \in Threads : \A h \in Leftover(alloc'[t]) : Inside(h) \cap dirty' = {}
    BY <1>2, <1>4, <1>5 DEF Clean
  <2>3. \A b \in list'["partly_full"] :
          ({b} \X (G - summary'[b].fragments .. G - 1)) \cap dirty' = {}
    BY <1>2, <1>3, <1>4, <1>5 DEF Clean
  <2>. QED  BY <1>8, <1>11, <2>1, <2>2, <2>3 DEF Clean, Granules
<1>21. HeldMarked'
  <2>1. \A o \in held : o \in Locations /\ byte[o] = current_mark /\ o[1] \in marked
                        /\ byte'[o] = byte[o]
    BY <1>2, <1>4, <1>5 DEF HeldMarked, MemoryTypes
  <2>2. current_mark # BUSY
    BY <1>5, MarksAre DEF MemoryTypes
  <2>. QED  BY <1>2, <2>1, <2>2 DEF HeldMarked
<1>22. Busy'
  <2>1. \A w \in Workers : pc'[w].at = "idle"
    BY <1>2, <1>5, <1>7, <1>8 DEF Records
  <2>. QED  BY <2>1 DEF Busy
<1>23. Fresh'
  <2>1. \A o \in Placed' : o \in Placed /\ o \in Locations /\ byte'[o] = byte[o] /\ o \notin W
    BY <1>4, <1>18 DEF Placed
  <2>2. \A o \in Placed' : byte'[o] # nofl_advance_current_mark(current_mark)'
    BY <1>2, <1>5, <2>1 DEF Fresh, nofl_advance_current_mark
  <2>3. ASSUME NEW o \in Placed', byte'[o] \in MARK_0 .. MARK_2, byte'[o] # current_mark'
        PROVE  Unswept(o)'
    <3>1. o[1] \in list["to_sweep"]
      BY <1>2, <1>5, <1>6, <2>1, <2>3 DEF Fresh
    <3>2. o[1] \notin Dead
      BY <1>1, <2>1, GranulesAre
    <3>. QED  BY <1>3, <3>1, <3>2 DEF Dead, Unswept
  <2>. QED  BY <1>2, <2>2, <2>3 DEF Fresh
<1>. QED  BY <1>7, <1>8, <1>12, <1>13, <1>14, <1>15, <1>16, <1>18, <1>19, <1>20, <1>21, <1>22,
             <1>23 DEF HeapInv

--------------------------------------------------------------------------------
\* The invariant.

LEMMA InitHeap == Init => HeapInv
<1>. SUFFICES ASSUME Init
              PROVE  HeapInv
  OBVIOUS
<1>. DEFINE none == [block |-> NoBlock, alloc |-> 0, sweep |-> 0, holes |-> {}]
            zeros == [holes |-> 0, pieces |-> 0, fragments |-> 0]
<1>1. PICK spare \in kSubset(MinReserve, Blocks), team \in Teams :
        /\ byte = [o \in Locations |-> NONE] /\ ends = {} /\ dirty = {}
        /\ zero = Blocks /\ candidate = {} /\ marked = {} /\ holes = {}
        /\ summary = [b \in Blocks |-> zeros]
        /\ list = [l \in Lists |-> CASE l = "empty" -> Blocks \ spare
                                     [] l = "targets" -> spare [] OTHER -> {}]
        /\ alloc = [t \in team \cup Workers |-> none]
        /\ pc = [t \in team \cup Workers |-> Resting]
        /\ current_mark = MARK_0 /\ survivor_mark = MARK_0 /\ evacuating = FALSE
        /\ reserve = MinReserve
        /\ phase = "run" /\ kind = "in_place" /\ collector = NoOne /\ count = 0
        /\ held = {} /\ allocated = 0
  BY DEF Init
<1>2. /\ none.block = NoBlock /\ none.alloc = 0 /\ none.sweep = 0 /\ none.holes = {}
      /\ zeros.holes = 0 /\ zeros.pieces = 0 /\ zeros.fragments = 0
  OBVIOUS
<1>3. /\ Resting.at = "idle" /\ Resting.size = 0 /\ Resting.swept = 0
      /\ Resting.obj = <<NoBlock, 0>>
  BY RestingIs, RestingObj
<1>. HIDE DEF none, zeros
<1>4. /\ Threads = team \cup Workers /\ Mutators = team
      /\ \A t \in Threads : pc[t] = Resting /\ alloc[t] = none
  BY <1>1, NoflAssumption DEF Threads, Mutators
<1>5. /\ list["empty"] = Blocks \ spare /\ list["targets"] = spare
      /\ list["to_sweep"] = {} /\ list["partly_full"] = {}
  BY <1>1 DEF Lists
<1>6. Vacant = Blocks
  <2>1. spare \subseteq Blocks
    BY DEF kSubset
  <2>. QED  BY <1>5, <2>1 DEF Vacant
<1>7. IInv
  BY InitIInv
<1>8. Placed = {} /\ AllHoles = {}
  BY <1>1, <1>2, <1>4 DEF Placed, AllHoles
<1>9. MemoryTypes
  <2>1. byte \in [Locations -> Marks] /\ MARK_0 \in MARK_0 .. MARK_2
    BY <1>1, MarksAre DEF MARK_0, MARK_2
  <2>. QED  BY <1>1, <2>1 DEF MemoryTypes
<1>10. Bounded
  <2>1. MaxCount[Cardinality(Mutators)] \in Nat /\ MaxAlloc[Cardinality(Mutators)] \in Nat
    BY <1>4, NoflAssumption
  <2>. QED  BY <1>1, <2>1 DEF Bounded, LastCount
<1>11. 0 \in 0 .. G /\ 0 \in Nat /\ G \in Nat
  BY GranulesAre
<1>12. \A t \in Threads : Registers(t)
  BY <1>2, <1>3, <1>4, <1>11 DEF Registers, Labels
<1>13. Counts
  <2>1. \A b \in Blocks : summary[b] = zeros
    BY <1>1
  <2>2. Cardinality({}) = 0 /\ Cardinality(Blocks) \in Nat
    BY NoflAssumption, FS_EmptySet, FS_CardinalityType
  <2>3. \A m \in Mutators : pc[m].swept + Cardinality(list["to_sweep"]) <= Cardinality(Blocks)
    BY <1>3, <1>4, <1>5, <2>2
  <2>. QED  BY <1>2, <1>4, <1>5, <1>11, <2>1, <2>3 DEF Counts
<1>14. HolesApart
  <2>1. \A t \in Threads : alloc[t].holes = {}
    BY <1>2, <1>4
  <2>. QED  BY <1>1, <1>4, <1>8, <2>1 DEF HolesApart, Mutators
<1>15. HolesAside
  BY <1>8 DEF HolesAside
<1>16. ObjectsApart /\ SweptWhole
  BY <1>1, <1>8 DEF ObjectsApart, SweptWhole
<1>17. HeldMarked /\ Fresh
  BY <1>1, <1>8 DEF HeldMarked, Fresh
<1>18. Busy
  <2>1. Workers \subseteq Threads
    BY <1>4
  <2>. QED  BY <1>3, <1>4, <2>1 DEF Busy
<1>19. Clean
  BY <1>1, <1>5, <1>6, <1>8 DEF Clean
<1>. QED  BY <1>7, <1>9, <1>10, <1>12, <1>13, <1>14, <1>15, <1>16, <1>17, <1>18, <1>19 DEF HeapInv

LEMMA NextHeap == HeapInv /\ [Next]_vars => HeapInv'
<1>. SUFFICES ASSUME HeapInv, [Next]_vars
              PROVE  HeapInv'
  OBVIOUS
<1>1. ASSUME NEW m \in Mutators, NEW n \in Sizes, Allocate(m, n)
      PROVE  HeapInv'
  BY <1>1, AllocateHeap
<1>2. ASSUME NEW m \in Mutators,
             \/ nofl_allocate_bump_pointer(m) \/ SweepOn(m) \/ SecondChance(m)
             \/ Sweep(m) \/ PartlyFull(m) \/ Empty(m)
      PROVE  HeapInv'
  BY <1>2, BumpHeap, SweepOnHeap, SecondChanceHeap, SweepHeap, PartlyFullHeap, EmptyHeap
<1>3. ASSUME NEW m \in Mutators,
             ReleaseBlock(m) \/ ReleaseHoles(m) \/ Resume(m) \/ RequestStop(m)
      PROVE  HeapInv'
  BY <1>3, ReleaseBlockHeap, ReleaseHolesHeap, ResumeHeap, RequestStopHeap
<1>4. ASSUME NEW w \in Workers, NEW o \in held, MarkObject(w, o)
      PROVE  HeapInv'
  BY <1>4, MarkObjectHeap
<1>5. ASSUME NEW w \in Workers,
             \/ Copy(w) \/ ReleaseTarget(w) \/ PartlyFullTarget(w) \/ EmptyTarget(w)
             \/ FinishWorker(w)
      PROVE  HeapInv'
  BY <1>5, CopyHeap, ReleaseTargetHeap, PartlyTargetHeap, EmptyTargetHeap, FinishWorkerHeap
<1>6. ASSUME NEW o \in held, DropObject(o) \/ MarkPinned(o)
      PROVE  HeapInv'
  BY <1>6, DropHeap, MarkPinnedHeap
<1>7. ASSUME NEW k \in Kinds, nofl_space_prepare_gc(k)
      PROVE  HeapInv'
  BY <1>7, PrepareHeap
<1>8. CASE nofl_space_start_gc
  BY <1>8, StartHeap
<1>9. CASE nofl_space_finish_gc
  BY <1>9, FinishHeap
<1>10. CASE UNCHANGED vars
  BY <1>10, StutterHeap
<1>. QED
  BY <1>1, <1>2, <1>3, <1>4, <1>5, <1>6, <1>7, <1>8, <1>9, <1>10
     DEF Next, Mutate, Evacuate, Collect

\* The invariant of the memory: gc_update_alloc_table, nofl_allocator_next_hole, the
\* holesets, nofl_space_evacuate, nofl_space_start_gc and nofl_space_finish_gc keep
\* objects, holes, summaries and mark bytes in agreement.
THEOREM HeapInvariantHolds == Spec => []HeapInv
<1>. QED  BY InitHeap, NextHeap, PTL DEF Spec

--------------------------------------------------------------------------------
\* What it says of held objects and of free memory.

LEMMA HeapTypeOK ==
  ASSUME HeapInv
  PROVE  TypeOK
<1>1. /\ Records /\ Phases /\ MemoryTypes /\ Bounded /\ Counts /\ HolesApart
      /\ \A t \in Threads : Registers(t)
  BY DEF HeapInv, IInv
<1>2. summary \in [Blocks -> [holes : 0 .. G, pieces : 0 .. G, fragments : 0 .. G]]
  <2>1. \A b \in Blocks : summary[b] \in [holes : 0 .. G, pieces : 0 .. G, fragments : 0 .. G]
    BY <1>1 DEF Records, Summaries, IsSummary, Counts
  <2>2. summary = [b \in Blocks |-> summary[b]]
    BY <1>1 DEF Records, Summaries
  <2>. QED  BY <2>1, <2>2
<1>3. ASSUME NEW t \in Threads
      PROVE  /\ alloc[t].block \in Blocks \cup {NoBlock}
             /\ alloc[t].alloc \in 0 .. G /\ alloc[t].sweep \in alloc[t].alloc .. G
             /\ alloc[t].holes \subseteq HoleSet
             /\ pc[t] \in [at : {"idle", "bump", "hole", "second", "sweep", "partly", "empty",
                                 "nospace", "release", "flushed", "copy"},
                           size : 0 .. G, swept : 0 .. Cardinality(Blocks),
                           obj : Locations \cup {<<NoBlock, 0>>}]
  <2>1. Registers(t) /\ IsProcess(pc[t]) /\ alloc[t].block \in Blocks \cup {NoBlock}
    BY <1>1 DEF Records
  <2>2. pc[t].swept \in 0 .. Cardinality(Blocks)
    <3>1. /\ Cardinality(Blocks) \in Nat /\ Cardinality(list["to_sweep"]) \in Nat
          /\ pc[t].swept \in Nat /\ (t \in Workers => pc[t].swept = 0)
      BY <2>1, SweepCount DEF Registers
    <3>2. t \in Mutators =>
            pc[t].swept + Cardinality(list["to_sweep"]) <= Cardinality(Blocks)
      BY <1>1 DEF Counts
    <3>. QED  BY <3>1, <3>2 DEF Mutators
  <2>3. /\ pc[t].at \in Labels /\ pc[t].size \in 0 .. G
        /\ pc[t].obj \in Locations \cup {<<NoBlock, 0>>}
    BY <2>1 DEF Registers
  <2>4. pc[t] \in [at : {"idle", "bump", "hole", "second", "sweep", "partly", "empty",
                         "nospace", "release", "flushed", "copy"},
                   size : 0 .. G, swept : 0 .. Cardinality(Blocks),
                   obj : Locations \cup {<<NoBlock, 0>>}]
    BY <2>1, <2>2, <2>3 DEF IsProcess, Labels
  <2>. QED  BY <2>1, <2>4 DEF Registers
<1>4. collector \in Mutators \cup {NoOne}
  BY <1>1 DEF Phases
<1>. QED  BY <1>1, <1>2, <1>3, <1>4 DEF TypeOK, Records, Phases, MemoryTypes, Bounded, HolesApart

\* What mutators hold keeps its memory and its mark: no allocation, sweep, promotion or
\* evacuation, in collections of any kind, gives a granule of it away.
THEOREM HeldIntactHolds == Spec => []HeldIntact
<1>1. HeapInv => HeldIntact
  <2>. SUFFICES ASSUME HeapInv
                PROVE  HeldIntact
    OBVIOUS
  <2>1. TypeOK
    BY HeapTypeOK
  <2>2. \A t \in Threads : pc[t].at = "idle" /\ alloc[t].block # NoBlock => alloc[t].alloc > 0
    BY DEF HeapInv, Registers
  <2>3. ASSUME NEW o \in held
        PROVE  /\ byte[o] \in {YOUNG, survivor_mark, current_mark, BUSY}
               /\ Extent(o) \cap Free = {}
               /\ \A p \in held \ {o} : Extent(o) \cap Extent(p) = {}
    <3>1. \A p \in held : p \in Placed
      BY HeldPlaced
    <3>. QED  BY <3>1, HeldPlaced DEF HeapInv, ObjectsApart
  <2>. QED  BY <2>1, <2>2, <2>3 DEF HeldIntact
<1>. QED  BY <1>1, HeapInvariantHolds, PTL

\* What mutators get is zero and has no metadata: sweeps clear the holes that they find,
\* nofl_allocator_acquire_empty_block clears a block that is not flagged as zero, and
\* only the links of second-chance holes are left to clear.
THEOREM FreeIsZeroHolds == Spec => []FreeIsZero
<1>1. HeapInv => FreeIsZero
  <2>. SUFFICES ASSUME HeapInv
                PROVE  FreeIsZero
    OBVIOUS
  <2>1. Typed /\ Clean /\ ObjectsApart /\ \A t \in Threads : Registers(t)
    BY HeapTyped DEF HeapInv
  <2>2. FreeFacts
    BY <2>1, FreeIs
  <2>3. \A h \in AllHoles : <<h.block, h.at>> \in Links(AllHoles)
    BY DEF Links
  <2>4. ASSUME NEW x \in Free, x \in dirty, x \notin Vacant \X Granules
        PROVE  x \in Links(AllHoles)
    <3>1. PICK b \in Blocks, i \in 0 .. G - 1 : x = <<b, i>>
      BY <2>2, <2>4, GranulesAre DEF FreeFacts
    <3>2. b \notin Vacant
      BY <2>4, <3>1 DEF Granules
    <3>3. CASE InHole(b, i)
      <4>1. PICK h \in AllHoles : h.block = b /\ i \in h.at .. h.at + h.n - 1
        BY <3>3 DEF InHole
      <4>2. x \in Inside(h)
        BY <2>1, <3>1, <4>1, AllHolesAre
      <4>3. x = <<h.block, h.at>>
        BY <2>1, <2>4, <4>2 DEF Clean
      <4>. QED  BY <2>3, <4>3
    <3>4. CASE InRoom(b, i)
      <4>1. PICK t \in Threads : alloc[t].block = b /\ i \in alloc[t].alloc .. alloc[t].sweep - 1
        BY <3>4 DEF InRoom
      <4>2. /\ alloc[t].alloc \in 0 .. G /\ alloc[t].sweep \in alloc[t].alloc .. G
            /\ \A h \in Leftover(alloc[t]) : Inside(h) \cap dirty = {}
        BY <2>1 DEF Registers, Clean
      <4>3. \A g \in alloc[t].alloc .. alloc[t].sweep - 1 : <<alloc[t].block, g>> \notin dirty
        BY <4>2, RoomClean
      <4>. QED  BY <2>4, <3>1, <4>1, <4>3
    <3>5. CASE InTail(b, i)
      <4>1. /\ b \in list["partly_full"] /\ summary[b].fragments \in 0 .. G
            /\ G - summary[b].fragments <= i
        BY <2>1, <3>5 DEF InTail, Typed
      <4>2. ({b} \X (G - summary[b].fragments .. G - 1)) \cap dirty = {}
        BY <2>1, <4>1 DEF Clean
      <4>. QED  BY <2>4, <3>1, <4>1, <4>2, TailClean
    <3>. QED  BY <2>2, <2>4, <3>1, <3>2, <3>3, <3>4, <3>5 DEF FreeFacts
  <2>5. ((list["empty"] \cap zero) \X Granules) \cap dirty = {}
    BY <2>1 DEF Clean
  <2>6. ASSUME NEW o \in Free
        PROVE  byte[o] = NONE /\ o \notin ends
    <3>1. o \in Locations /\ o \notin ends
      BY <2>1, <2>2 DEF FreeFacts, ObjectsApart
    <3>2. o \notin Placed
      <4>1. ASSUME o \in Placed
            PROVE  FALSE
        <5>1. Ended(o)
          BY <2>1, <4>1 DEF ObjectsApart, Ended
        <5>2. o \in Extent(o)
          BY <3>1, <5>1, ExtentIs
        <5>. QED  BY <2>1, <4>1, <5>2 DEF ObjectsApart
      <4>. QED  BY <4>1
    <3>. QED  BY <3>1, <3>2 DEF Placed
  <2>. QED  BY <2>4, <2>5, <2>6 DEF FreeIsZero, AllHoles, Vacant
<1>. QED  BY <1>1, HeapInvariantHolds, PTL

--------------------------------------------------------------------------------
\* What it says of collections.

\* Only a collection changes marks, and counts.
LEMMA OnlyCollections ==
  ASSUME Next
  PROVE  /\ current_mark' # current_mark => \E k \in Kinds : nofl_space_prepare_gc(k)
         /\ count' # count => nofl_space_finish_gc
<1>1. ASSUME NEW m \in Mutators, Mutate(m)
      PROVE  current_mark' = current_mark /\ count' = count
  <2>1. ASSUME NEW n \in Sizes, Allocate(m, n)
        PROVE  current_mark' = current_mark /\ count' = count
    BY <2>1 DEF Allocate, space_vars, gc_vars
  <2>2. CASE SweepOn(m)
    BY <2>2 DEF SweepOn, NextHoleInBlock, space_vars, gc_vars
  <2>3. CASE Sweep(m)
    BY <2>3 DEF Sweep, NextHoleInBlock, space_vars, gc_vars
  <2>4. CASE nofl_allocate_bump_pointer(m) \/ SecondChance(m)
    BY <2>4 DEF nofl_allocate_bump_pointer, SecondChance, space_vars, gc_vars
  <2>5. CASE PartlyFull(m) \/ Empty(m)
    BY <2>5 DEF PartlyFull, Empty, space_vars, gc_vars
  <2>6. CASE ReleaseBlock(m) \/ ReleaseHoles(m)
    BY <2>6 DEF ReleaseBlock, ReleaseHoles, space_vars, gc_vars
  <2>7. CASE Resume(m) \/ RequestStop(m)
    BY <2>7 DEF Resume, RequestStop, space_vars, gc_vars
  <2>. QED  BY <1>1, <2>1, <2>2, <2>3, <2>4, <2>5, <2>6, <2>7 DEF Mutate
<1>2. ASSUME NEW w \in Workers, Evacuate(w)
      PROVE  current_mark' = current_mark /\ count' = count
  <2>1. ASSUME NEW o \in held, MarkObject(w, o)
        PROVE  current_mark' = current_mark /\ count' = count
    BY <2>1 DEF MarkObject, space_vars, gc_vars
  <2>2. CASE Copy(w) \/ ReleaseTarget(w)
    BY <2>2 DEF Copy, ReleaseTarget, space_vars, gc_vars
  <2>3. CASE PartlyFullTarget(w) \/ EmptyTarget(w) \/ FinishWorker(w)
    BY <2>3 DEF PartlyFullTarget, EmptyTarget, FinishWorker, space_vars, gc_vars
  <2>. QED  BY <1>2, <2>1, <2>2, <2>3 DEF Evacuate
<1>3. ASSUME NEW o \in held, DropObject(o) \/ MarkPinned(o)
      PROVE  current_mark' = current_mark /\ count' = count
  BY <1>3 DEF DropObject, MarkPinned, space_vars, gc_vars
<1>4. CASE nofl_space_start_gc
  BY <1>4 DEF nofl_space_start_gc
<1>5. ASSUME NEW k \in Kinds, nofl_space_prepare_gc(k)
      PROVE  count' = count
  BY <1>5 DEF nofl_space_prepare_gc
<1>6. CASE nofl_space_finish_gc
  BY <1>6 DEF nofl_space_finish_gc
<1>. QED  BY <1>1, <1>2, <1>3, <1>4, <1>5, <1>6 DEF Next, Collect

\* When nofl_space_prepare_gc advances the mark that means "live", no byte has
\* the new one: what had it last was swept since.
THEOREM MarksFreshHolds == Spec => MarksFresh
<1>1. HeapInv /\ [Next]_vars =>
        [current_mark' # current_mark => \A o \in Locations : byte[o] # current_mark']_vars
  <2>. SUFFICES ASSUME HeapInv, Next, current_mark' # current_mark, NEW o \in Locations
                PROVE  byte[o] # current_mark'
    BY DEF vars, space_vars
  <2>1. current_mark' = nofl_advance_current_mark(current_mark)
    <3>1. PICK k \in Kinds : nofl_space_prepare_gc(k)
      BY OnlyCollections
    <3>. QED  BY <3>1 DEF nofl_space_prepare_gc
  <2>2. /\ current_mark \in MARK_0 .. MARK_2
        /\ \A p \in Placed : byte[p] # nofl_advance_current_mark(current_mark)
    BY DEF HeapInv, MemoryTypes, Fresh
  <2>3. nofl_advance_current_mark(current_mark) \in MARK_0 .. MARK_2
    BY <2>2 DEF nofl_advance_current_mark, MARK_0, MARK_2
  <2>. QED  BY <2>1, <2>2, <2>3, MarksAre DEF Placed
<1>. QED  BY <1>1, HeapInvariantHolds, PTL DEF MarksFresh, Spec

\* After a collection that is not minor, nofl_space_finish_gc keeps a block for sweeping
\* only if something in it is held.
THEOREM ReclaimsDeadHolds == Spec => ReclaimsDead
<1>1. HeapInv /\ [Next]_vars =>
        [count' # count /\ kind # "minor" =>
           \A b \in list'["to_sweep"] : \E o \in held : o[1] = b]_vars
  <2>. SUFFICES ASSUME HeapInv, Next, count' # count, kind # "minor", NEW b \in list'["to_sweep"]
                PROVE  \E o \in held : o[1] = b
    BY DEF vars, gc_vars
  <2>1. nofl_space_finish_gc
    BY OnlyCollections
  <2>2. b \in marked
    BY <2>1, FinishLists
  <2>3. phase = "trace"
    BY <2>1 DEF nofl_space_finish_gc, Traced
  <2>. QED  BY <2>2, <2>3 DEF HeapInv, Fresh
<1>. QED  BY <1>1, HeapInvariantHolds, PTL DEF ReclaimsDead, Spec
================================================================================
