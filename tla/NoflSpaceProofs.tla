--------------------------- MODULE NoflSpaceProofs ---------------------------
(***************************************************************************)
(* The nofl space proved for any heap, any mutators and any workers: every *)
(* block has one owner.                                                    *)
(***************************************************************************)
EXTENDS NoflSpace, FiniteSetTheorems, TLAPS

--------------------------------------------------------------------------------
\* Values that have the fields of a record, and no others.
IsProcess(p) == p = [at |-> p.at, size |-> p.size, swept |-> p.swept, obj |-> p.obj]
IsAllocator(a) ==
  a = [block |-> a.block, alloc |-> a.alloc, sweep |-> a.sweep, holes |-> a.holes]
IsSummary(s) ==
  s = [holes |-> s.holes, pieces |-> s.pieces, fragments |-> s.fragments]

Summaries ==
  summary = [b \in Blocks |-> summary[b]] /\ \A b \in Blocks : IsSummary(summary[b])

Records ==
  /\ pc = [t \in Threads |-> pc[t]] /\ alloc = [t \in Threads |-> alloc[t]]
  /\ \A t \in Threads : /\ IsProcess(pc[t]) /\ IsAllocator(alloc[t])
                        /\ alloc[t].block \in Blocks \cup {NoBlock}
  /\ Summaries /\ list \in [Lists -> SUBSET Blocks]
  /\ Workers \subseteq Threads /\ NoOne \notin Mutators

\* A block is in one list or in the hands of one thread.
Apart ==
  /\ \A k, l \in Lists : k # l => list[k] \cap list[l] = {}
  /\ \A t, u \in Threads :
       alloc[t].block = alloc[u].block /\ alloc[t].block # NoBlock => t = u
  /\ \A l \in Lists, t \in Threads : alloc[t].block \notin list[l]
  /\ \A b \in Blocks : \/ \E l \in Lists : b \in list[l]
                       \/ \E t \in Threads : alloc[t].block = b

\* The collector has looked for blocks to sweep, once more and in vain.
IsDone(p) == p.at \in {"partly", "empty"} /\ p.swept = 0

\* A mutator that looks for a block, or has stopped, has none; one that stops asks for
\* no granules.  The collector does not leave nofl_finish_sweeping before nothing is
\* left to sweep, and a collection begins when all mutators have stopped.
MutatorInv(m) ==
  /\ pc[m].at \in {"second", "sweep", "partly", "empty", "nospace", "release", "flushed"} =>
       alloc[m].block = NoBlock
  /\ pc[m].at \in {"release", "flushed"} => pc[m].size = 0
  /\ m = collector =>
       /\ pc[m].size = 0 /\ pc[m].at \in {"hole", "sweep", "partly", "empty", "nospace"}
       /\ phase = "stopping" /\ (IsDone(pc[m]) \/ pc[m].at = "nospace") => list["to_sweep"] = {}
  /\ phase \in {"pinned", "trace"} =>
       pc[m].at = IF m = collector THEN "nospace" ELSE "flushed"

\* A worker that looks for a target has none; it has one only during a trace, and only
\* one that was empty when the trace began.
WorkerInv(w) ==
  /\ pc[w].at \in {"partly", "empty"} => alloc[w].block = NoBlock
  /\ pc[w].at # "idle" \/ alloc[w].block # NoBlock => phase = "trace"
  /\ alloc[w].block # NoBlock => summary[alloc[w].block].holes = G

Phases ==
  /\ phase \in {"run", "stopping", "pinned", "trace"}
  /\ IF phase = "run" THEN collector = NoOne ELSE collector \in Mutators
  /\ phase = "pinned" => list["to_sweep"] = {}
  /\ evacuating => phase = "trace" /\ list["targets"] = {}
  /\ phase = "trace" => \A b \in list["partly_full"] : summary[b].holes = G

IInv ==
  /\ Records /\ Apart /\ Phases
  /\ \A m \in Mutators : MutatorInv(m)
  /\ \A w \in Workers : WorkerInv(w)

--------------------------------------------------------------------------------
\* Records.

\* A process at another place, that has swept n blocks, that asks for n granules.
At(p, x) == [p EXCEPT !.at = x]
Sweeping(p, x, n) == [p EXCEPT !.at = x, !.swept = n]
Swept(p, n) == [p EXCEPT !.swept = n]
Again(p, x, n) == [p EXCEPT !.swept = n, !.at = x]
Asking(p, x, n) == [p EXCEPT !.size = n, !.at = x]

LEMMA ProcessWith ==
  ASSUME NEW p, IsProcess(p), NEW x, NEW y
  PROVE  /\ LET q == At(p, x)
            IN  IsProcess(q) /\ q.at = x /\ q.size = p.size /\ q.swept = p.swept
         /\ LET q == Sweeping(p, x, y)
            IN  IsProcess(q) /\ q.at = x /\ q.size = p.size /\ q.swept = y
         /\ LET q == Again(p, x, y)
            IN  IsProcess(q) /\ q.at = x /\ q.size = p.size /\ q.swept = y
         /\ LET q == Swept(p, y)
            IN  IsProcess(q) /\ q.at = p.at /\ q.size = p.size /\ q.swept = y
         /\ LET q == Asking(p, x, y)
            IN  IsProcess(q) /\ q.at = x /\ q.size = y /\ q.swept = p.swept
<1>. DEFINE s == p.size
            a == p.at
            w == p.swept
            o == p.obj
<1>1. p = [at |-> a, size |-> s, swept |-> w, obj |-> o]
  BY DEF IsProcess
<1>. HIDE DEF s, a, w, o
<1>2. [p EXCEPT !.at = x] = [at |-> x, size |-> s, swept |-> w, obj |-> o]
  BY <1>1
<1>3. [p EXCEPT !.at = x, !.swept = y] = [at |-> x, size |-> s, swept |-> y, obj |-> o]
  <2>. DEFINE q == [p EXCEPT !.at = x]
  <2>1. [p EXCEPT !.at = x, !.swept = y] = [q EXCEPT !.swept = y]
    OBVIOUS
  <2>2. q = [at |-> x, size |-> s, swept |-> w, obj |-> o]
    BY <1>2
  <2>. HIDE DEF q
  <2>. QED  BY <2>1, <2>2
<1>4. [p EXCEPT !.swept = y, !.at = x] = [at |-> x, size |-> s, swept |-> y, obj |-> o]
  <2>. DEFINE q == [p EXCEPT !.swept = y]
  <2>1. [p EXCEPT !.swept = y, !.at = x] = [q EXCEPT !.at = x]
    OBVIOUS
  <2>2. q = [at |-> a, size |-> s, swept |-> y, obj |-> o]
    BY <1>1
  <2>. HIDE DEF q
  <2>. QED  BY <2>1, <2>2
<1>5. [p EXCEPT !.size = y, !.at = x] = [at |-> x, size |-> y, swept |-> w, obj |-> o]
  <2>. DEFINE q == [p EXCEPT !.size = y]
  <2>1. [p EXCEPT !.size = y, !.at = x] = [q EXCEPT !.at = x]
    OBVIOUS
  <2>2. q = [at |-> a, size |-> y, swept |-> w, obj |-> o]
    BY <1>1
  <2>. HIDE DEF q
  <2>. QED  BY <2>1, <2>2
<1>6. ASSUME NEW i, NEW j, NEW k, NEW l
      PROVE  LET q == [at |-> i, size |-> j, swept |-> k, obj |-> l]
             IN  IsProcess(q) /\ q.at = i /\ q.size = j /\ q.swept = k
  BY DEF IsProcess
<1>7. p.at = a /\ p.size = s /\ p.swept = w
  BY DEF a, s, w
<1>8. LET q == At(p, x)
      IN  IsProcess(q) /\ q.at = x /\ q.size = p.size /\ q.swept = p.swept
  BY <1>2, <1>6, <1>7 DEF At
<1>9. LET q == Sweeping(p, x, y)
      IN  IsProcess(q) /\ q.at = x /\ q.size = p.size /\ q.swept = y
  BY <1>3, <1>6, <1>7 DEF Sweeping
<1>10. LET q == Again(p, x, y)
       IN  IsProcess(q) /\ q.at = x /\ q.size = p.size /\ q.swept = y
  BY <1>4, <1>6, <1>7 DEF Again
<1>11. LET q == Asking(p, x, y)
       IN  IsProcess(q) /\ q.at = x /\ q.size = y /\ q.swept = p.swept
  BY <1>5, <1>6, <1>7 DEF Asking
<1>12. LET q == Swept(p, y)
       IN  IsProcess(q) /\ q.at = p.at /\ q.size = p.size /\ q.swept = y
  <2>1. Swept(p, y) = [at |-> a, size |-> s, swept |-> y, obj |-> o]
    BY <1>1 DEF Swept
  <2>. QED  BY <1>6, <1>7, <2>1
<1>. QED  BY <1>8, <1>9, <1>10, <1>11, <1>12

Copying(o) == [Resting EXCEPT !.at = "copy", !.obj = o]

LEMMA RestingIs ==
  ASSUME NEW y
  PROVE  /\ IsProcess(Resting) /\ Resting.at = "idle" /\ Resting.size = 0
         /\ LET q == Copying(y)
            IN  IsProcess(q) /\ q.at = "copy"
<1>1. IsProcess(Resting) /\ Resting.at = "idle" /\ Resting.size = 0
  BY DEF IsProcess, Resting
<1>2. Copying(y) = [at |-> "copy", size |-> 0, swept |-> 0, obj |-> y]
  <2>. DEFINE q == [Resting EXCEPT !.at = "copy"]
  <2>1. Copying(y) = [q EXCEPT !.obj = y]
    BY DEF Copying
  <2>2. q = [at |-> "copy", size |-> 0, swept |-> 0, obj |-> <<NoBlock, 0>>]
    BY DEF Resting
  <2>. HIDE DEF q
  <2>. QED  BY <2>1, <2>2
<1>3. LET q == [at |-> "copy", size |-> 0, swept |-> 0, obj |-> y]
      IN  IsProcess(q) /\ q.at = "copy"
  BY DEF IsProcess
<1>. QED  BY <1>1, <1>2, <1>3

\* An allocator that allocates from elsewhere, has other holes, has another hole.
Room(a, x) == [a EXCEPT !.alloc = x]
Having(a, hs) == [a EXCEPT !.holes = hs]
With(a, b, x, y) == [a EXCEPT !.block = b, !.alloc = x, !.sweep = y]

LEMMA AllocatorWith ==
  ASSUME NEW a, IsAllocator(a), NEW x, NEW y, NEW z
  PROVE  /\ IsAllocator(Room(a, x)) /\ Room(a, x).block = a.block
         /\ IsAllocator(Having(a, x)) /\ Having(a, x).block = a.block
         /\ IsAllocator(With(a, x, y, z)) /\ With(a, x, y, z).block = x
         /\ IsAllocator(Reset(a)) /\ Reset(a).block = NoBlock
<1>. DEFINE b == a.block
            s == a.sweep
            h == a.holes
            n == a.alloc
<1>1. a = [block |-> b, alloc |-> n, sweep |-> s, holes |-> h]
  BY DEF IsAllocator
<1>. HIDE DEF b, s, h, n
<1>2. [a EXCEPT !.alloc = x] = [block |-> b, alloc |-> x, sweep |-> s, holes |-> h]
  BY <1>1
<1>3. [a EXCEPT !.holes = x] = [block |-> b, alloc |-> n, sweep |-> s, holes |-> x]
  BY <1>1
<1>4. ASSUME NEW i, NEW j, NEW k
      PROVE  [a EXCEPT !.block = i, !.alloc = j, !.sweep = k]
               = [block |-> i, alloc |-> j, sweep |-> k, holes |-> h]
  <2>. DEFINE c == [a EXCEPT !.block = i]
              d == [c EXCEPT !.alloc = j]
  <2>1. [a EXCEPT !.block = i, !.alloc = j, !.sweep = k] = [d EXCEPT !.sweep = k]
    OBVIOUS
  <2>2. c = [block |-> i, alloc |-> n, sweep |-> s, holes |-> h]
    BY <1>1
  <2>. HIDE DEF c
  <2>3. d = [block |-> i, alloc |-> j, sweep |-> s, holes |-> h]
    BY <2>2
  <2>. HIDE DEF d
  <2>. QED  BY <2>1, <2>3
<1>5. Reset(a) = [block |-> NoBlock, alloc |-> 0, sweep |-> 0, holes |-> h]
  BY <1>4 DEF Reset
<1>6. ASSUME NEW i, NEW j, NEW k, NEW l
      PROVE  LET q == [block |-> i, alloc |-> j, sweep |-> k, holes |-> l]
             IN  IsAllocator(q) /\ q.block = i
  BY DEF IsAllocator
<1>7. IsAllocator(Room(a, x)) /\ Room(a, x).block = a.block
  BY <1>2, <1>6 DEF b, Room
<1>8. IsAllocator(Having(a, x)) /\ Having(a, x).block = a.block
  BY <1>3, <1>6 DEF b, Having
<1>9. IsAllocator(With(a, x, y, z)) /\ With(a, x, y, z).block = x
  <2>1. With(a, x, y, z) = [block |-> x, alloc |-> y, sweep |-> z, holes |-> h]
    BY <1>4 DEF With
  <2>. QED  BY <1>6, <2>1
<1>10. IsAllocator(Reset(a)) /\ Reset(a).block = NoBlock
  BY <1>5, <1>6
<1>. QED  BY <1>7, <1>8, <1>9, <1>10

\* A summary that counts other fragments or other pieces.
Fragmented(s, x) == [s EXCEPT !.fragments = x]
Pieces(s, x) == [s EXCEPT !.pieces = x]

LEMMA SummaryWith ==
  ASSUME NEW s, IsSummary(s), NEW x
  PROVE  /\ IsSummary(Fragmented(s, x)) /\ Fragmented(s, x).holes = s.holes
         /\ IsSummary(Pieces(s, x)) /\ Pieces(s, x).holes = s.holes
BY DEF IsSummary, Fragmented, Pieces

--------------------------------------------------------------------------------
\* How blocks move.

LEMMA ListIs ==
  /\ {"empty", "to_sweep", "partly_full", "full", "promoted", "old", "targets"} = Lists
  /\ \A s : FullList(s) \in {"promoted", "full"}
BY DEF Lists, FullList

\* The allocator of one thread changes.
LEMMA OneAllocator ==
  ASSUME Records, NEW t \in Threads, NEW a, IsAllocator(a),
         a.block \in Blocks \cup {NoBlock},
         alloc' = [alloc EXCEPT ![t] = a]
  PROVE  /\ alloc' = [u \in Threads |-> alloc'[u]]
         /\ alloc'[t] = a
         /\ \A u \in Threads : u # t => alloc'[u] = alloc[u]
         /\ \A u \in Threads : IsAllocator(alloc'[u]) /\ alloc'[u].block \in Blocks \cup {NoBlock}
<1>1. alloc = [u \in Threads |-> alloc[u]]
  BY DEF Records
<1>2. alloc' = [u \in Threads |-> IF u = t THEN a ELSE alloc[u]]
  BY <1>1
<1>. QED  BY <1>2 DEF Records

\* Its process changes.
LEMMA OneProcess ==
  ASSUME Records, NEW t \in Threads, NEW p, IsProcess(p), pc' = [pc EXCEPT ![t] = p]
  PROVE  /\ Threads' = Threads /\ Mutators' = Mutators
         /\ pc' = [u \in Threads |-> pc'[u]]
         /\ pc'[t] = p
         /\ \A u \in Threads : u # t => pc'[u] = pc[u]
         /\ \A u \in Threads : IsProcess(pc'[u])
<1>1. pc = [u \in Threads |-> pc[u]]
  BY DEF Records
<1>2. pc' = [u \in Threads |-> IF u = t THEN p ELSE pc[u]]
  BY <1>1
<1>3. Threads' = Threads
  BY <1>2 DEF Threads
<1>. QED  BY <1>2, <1>3 DEF Records, Mutators

\* Thread t takes block b from list l.
LEMMA Takes ==
  ASSUME Records, Apart, NEW t \in Threads, NEW l \in Lists, NEW b \in list[l], NEW a,
         IsAllocator(a), alloc[t].block = NoBlock, a.block = b, Threads' = Threads,
         alloc' = [alloc EXCEPT ![t] = a], list' = [list EXCEPT ![l] = @ \ {b}]
  PROVE  Apart' /\ list' \in [Lists -> SUBSET Blocks]
<1>1. /\ list \in [Lists -> SUBSET Blocks] /\ b \in Blocks /\ NoBlock \notin Blocks
      /\ list' \in [Lists -> SUBSET Blocks]
      /\ list'[l] = list[l] \ {b} /\ \A k \in Lists : k # l => list'[k] = list[k]
  BY NoflAssumption DEF Records
<1>2. alloc'[t] = a /\ \A u \in Threads : u # t => alloc'[u] = alloc[u]
  BY <1>1, OneAllocator
<1>3. \A k \in Lists : b \notin list'[k]
  BY <1>1 DEF Apart
<1>4. \A u \in Threads : alloc[u].block # b
  BY DEF Apart
<1>5. \A k, j \in Lists : k # j => list'[k] \cap list'[j] = {}
  BY <1>1 DEF Apart
<1>6. \A u, v \in Threads :
        alloc'[u].block = alloc'[v].block /\ alloc'[u].block # NoBlock => u = v
  BY <1>2, <1>4 DEF Apart
<1>7. \A k \in Lists, u \in Threads : alloc'[u].block \notin list'[k]
  BY <1>1, <1>2, <1>3 DEF Apart
<1>8. ASSUME NEW c \in Blocks
      PROVE  \/ \E k \in Lists : c \in list'[k]
             \/ \E u \in Threads : alloc'[u].block = c
  <2>1. CASE c = b
    BY <1>2, <2>1
  <2>2. CASE c # b /\ \E k \in Lists : c \in list[k]
    BY <1>1, <2>2
  <2>3. CASE c # b /\ \E u \in Threads : alloc[u].block = c
    BY <1>1, <1>2, <2>3
  <2>. QED  BY <2>1, <2>2, <2>3 DEF Apart
<1>. QED  BY <1>1, <1>5, <1>6, <1>7, <1>8 DEF Apart

\* It gives its block to list l.
LEMMA Gives ==
  ASSUME Records, Apart, NEW t \in Threads, NEW l \in Lists, NEW b, b # NoBlock, NEW a,
         IsAllocator(a), alloc[t].block = b, a.block = NoBlock, Threads' = Threads,
         alloc' = [alloc EXCEPT ![t] = a], list' = [list EXCEPT ![l] = @ \cup {b}]
  PROVE  Apart' /\ list' \in [Lists -> SUBSET Blocks]
<1>1. /\ list \in [Lists -> SUBSET Blocks] /\ b \in Blocks /\ NoBlock \notin Blocks
      /\ list' \in [Lists -> SUBSET Blocks]
      /\ list'[l] = list[l] \cup {b} /\ \A k \in Lists : k # l => list'[k] = list[k]
  BY NoflAssumption DEF Records
<1>2. alloc'[t] = a /\ \A u \in Threads : u # t => alloc'[u] = alloc[u]
  BY <1>1, OneAllocator
<1>3. \A k \in Lists : b \notin list[k]
  BY DEF Apart
<1>4. \A u \in Threads : alloc'[u].block # b
  BY <1>1, <1>2 DEF Apart
<1>5. \A k, j \in Lists : k # j => list'[k] \cap list'[j] = {}
  BY <1>1, <1>3 DEF Apart
<1>6. \A u, v \in Threads :
        alloc'[u].block = alloc'[v].block /\ alloc'[u].block # NoBlock => u = v
  BY <1>2 DEF Apart
<1>7. \A k \in Lists, u \in Threads : alloc'[u].block \notin list'[k]
  BY <1>1, <1>2, <1>4 DEF Apart
<1>8. ASSUME NEW c \in Blocks
      PROVE  \/ \E k \in Lists : c \in list'[k]
             \/ \E u \in Threads : alloc'[u].block = c
  <2>1. CASE c = b
    BY <1>1, <2>1
  <2>2. CASE \E k \in Lists : c \in list[k]
    BY <1>1, <2>2
  <2>3. CASE c # b /\ \E u \in Threads : alloc[u].block = c
    BY <1>1, <1>2, <2>3
  <2>. QED  BY <2>1, <2>2, <2>3 DEF Apart
<1>. QED  BY <1>1, <1>5, <1>6, <1>7, <1>8 DEF Apart

\* No thread has another block than before.
Held == \A u \in Threads : alloc'[u].block = alloc[u].block

\* A block goes from list k to list l.
LEMMA Moves ==
  ASSUME Records, Apart, Held, Threads' = Threads,
         NEW k \in Lists, NEW l \in Lists, k # l, NEW b \in list[k],
         list' = [[list EXCEPT ![k] = @ \ {b}] EXCEPT ![l] = @ \cup {b}]
  PROVE  Apart' /\ list' \in [Lists -> SUBSET Blocks]
<1>1. /\ list \in [Lists -> SUBSET Blocks] /\ b \in Blocks
      /\ list' \in [Lists -> SUBSET Blocks]
      /\ list'[k] = list[k] \ {b} /\ list'[l] = list[l] \cup {b}
      /\ \A j \in Lists \ {k, l} : list'[j] = list[j]
  BY DEF Records
<1>2. \A i, j \in Lists : i # j => list'[i] \cap list'[j] = {}
  BY <1>1 DEF Apart
<1>3. \A u \in Threads : alloc'[u].block # b
  BY DEF Apart, Held
<1>4. \A j \in Lists, u \in Threads : alloc'[u].block \notin list'[j]
  BY <1>1, <1>3 DEF Apart, Held
<1>5. ASSUME NEW c \in Blocks
      PROVE  (\E j \in Lists : c \in list[j]) => \E j \in Lists : c \in list'[j]
  <2>1. CASE c = b
    BY <1>1, <2>1
  <2>2. CASE c # b
    BY <1>1, <2>2
  <2>. QED  BY <2>1, <2>2
<1>6. \A u, v \in Threads :
        alloc'[u].block = alloc'[v].block /\ alloc'[u].block # NoBlock => u = v
  BY DEF Apart, Held
<1>7. \A c \in Blocks : \/ \E j \in Lists : c \in list'[j]
                        \/ \E u \in Threads : alloc'[u].block = c
  BY <1>5 DEF Apart, Held
<1>. QED  BY <1>1, <1>2, <1>4, <1>6, <1>7 DEF Apart

\* Blocks stay where they are.
LEMMA Stays ==
  ASSUME Records, Apart, Held, Threads' = Threads, list' = list
  PROVE  Apart' /\ list' \in [Lists -> SUBSET Blocks]
BY DEF Records, Apart, Held

--------------------------------------------------------------------------------
\* Steps of one thread.

LEMMA SameThread ==
  ASSUME Records, NEW t \in Threads
  PROVE  /\ pc = [pc EXCEPT ![t] = pc[t]] /\ IsProcess(pc[t])
         /\ alloc = [alloc EXCEPT ![t] = alloc[t]] /\ IsAllocator(alloc[t])
         /\ alloc[t].block \in Blocks \cup {NoBlock}
BY DEF Records

LEMMA OneSummary ==
  ASSUME Summaries, NEW b \in Blocks, NEW s, IsSummary(s), summary' = [summary EXCEPT ![b] = s]
  PROVE  /\ Summaries' /\ summary'[b] = s
         /\ \A c \in Blocks : c # b => summary'[c] = summary[c]
<1>1. summary = [c \in Blocks |-> summary[c]] /\ \A c \in Blocks : IsSummary(summary[c])
  BY DEF Summaries
<1>2. summary' = [c \in Blocks |-> IF c = b THEN s ELSE summary[c]]
  BY <1>1
<1>. QED  BY <1>1, <1>2 DEF Summaries

\* A mutator that does anything is not stopped, and the world is not.
LEMMA MutatorRuns ==
  ASSUME IInv, NEW m \in Mutators, pc[m].at \notin {"nospace", "flushed"}
  PROVE  /\ m \in Threads /\ phase \in {"run", "stopping"}
         /\ m = collector => phase = "stopping"
<1>1. MutatorInv(m) /\ Phases /\ NoOne \notin Mutators
  BY DEF IInv, Records
<1>. QED  BY <1>1 DEF MutatorInv, Phases, Mutators

LEMMA MutatorStep ==
  ASSUME IInv, NEW m \in Mutators, phase \in {"run", "stopping"},
         NEW p, IsProcess(p), pc' = [pc EXCEPT ![m] = p],
         NEW a, IsAllocator(a), a.block \in Blocks \cup {NoBlock},
         alloc' = [alloc EXCEPT ![m] = a],
         Summaries', list' \in [Lists -> SUBSET Blocks],
         list'["to_sweep"] \subseteq list["to_sweep"],
         UNCHANGED <<phase, collector, evacuating>>,
         Apart', MutatorInv(m)'
  PROVE  IInv'
<1>1. Records /\ Phases /\ m \in Threads \ Workers
  BY DEF IInv, Mutators
<1>2. /\ Threads' = Threads /\ Mutators' = Mutators
      /\ pc' = [u \in Threads |-> pc'[u]]
      /\ \A u \in Threads : u # m => pc'[u] = pc[u]
      /\ \A u \in Threads : IsProcess(pc'[u])
  BY <1>1, OneProcess
<1>3. /\ alloc' = [u \in Threads |-> alloc'[u]]
      /\ \A u \in Threads : u # m => alloc'[u] = alloc[u]
      /\ \A u \in Threads : IsAllocator(alloc'[u]) /\ alloc'[u].block \in Blocks \cup {NoBlock}
  BY <1>1, OneAllocator
<1>4. Records'
  BY <1>1, <1>2, <1>3 DEF Records
<1>5. Phases'
  BY <1>1, <1>2 DEF Phases
<1>6. ASSUME NEW u \in Mutators, u # m
      PROVE  MutatorInv(u)'
  <2>1. MutatorInv(u) /\ u \in Threads
    BY DEF IInv, Mutators
  <2>2. pc'[u] = pc[u] /\ alloc'[u] = alloc[u]
    BY <1>2, <1>3, <1>6, <2>1
  <2>. QED  BY <2>1, <2>2 DEF MutatorInv
<1>7. ASSUME NEW w \in Workers
      PROVE  WorkerInv(w)'
  <2>1. WorkerInv(w) /\ w \in Threads /\ w # m
    BY <1>1 DEF IInv, Records
  <2>2. pc'[w] = pc[w] /\ alloc'[w] = alloc[w]
    BY <1>2, <1>3, <2>1
  <2>. QED  BY <2>1, <2>2 DEF WorkerInv
<1>. QED  BY <1>2, <1>4, <1>5, <1>6, <1>7 DEF IInv

LEMMA WorkerStep ==
  ASSUME IInv, NEW w \in Workers, phase = "trace",
         NEW p, IsProcess(p), pc' = [pc EXCEPT ![w] = p],
         NEW a, IsAllocator(a), a.block \in Blocks \cup {NoBlock},
         alloc' = [alloc EXCEPT ![w] = a],
         Summaries', list' \in [Lists -> SUBSET Blocks],
         \A b \in Blocks : summary'[b].holes \in {summary[b].holes, G},
         list'["targets"] = list["targets"],
         \A b \in list'["partly_full"] : summary'[b].holes = G,
         UNCHANGED <<phase, collector, evacuating>>,
         Apart', WorkerInv(w)'
  PROVE  IInv'
<1>1. Records /\ Phases /\ w \in Threads /\ w \notin Mutators
  BY DEF IInv, Records, Mutators
<1>2. /\ Threads' = Threads /\ Mutators' = Mutators
      /\ pc' = [u \in Threads |-> pc'[u]]
      /\ \A u \in Threads : u # w => pc'[u] = pc[u]
      /\ \A u \in Threads : IsProcess(pc'[u])
  BY <1>1, OneProcess
<1>3. /\ alloc' = [u \in Threads |-> alloc'[u]]
      /\ \A u \in Threads : u # w => alloc'[u] = alloc[u]
      /\ \A u \in Threads : IsAllocator(alloc'[u]) /\ alloc'[u].block \in Blocks \cup {NoBlock}
  BY <1>1, OneAllocator
<1>4. Records'
  BY <1>1, <1>2, <1>3 DEF Records
<1>5. Phases'
  BY <1>1, <1>2 DEF Phases
<1>6. ASSUME NEW u \in Mutators
      PROVE  MutatorInv(u)'
  <2>1. MutatorInv(u) /\ u \in Threads /\ u # w
    BY <1>1 DEF IInv, Mutators
  <2>2. pc'[u] = pc[u] /\ alloc'[u] = alloc[u]
    BY <1>2, <1>3, <2>1
  <2>. QED  BY <2>1, <2>2 DEF MutatorInv
<1>7. ASSUME NEW v \in Workers, v # w
      PROVE  WorkerInv(v)'
  <2>1. WorkerInv(v) /\ v \in Threads
    BY <1>1 DEF IInv, Records
  <2>2. pc'[v] = pc[v] /\ alloc'[v] = alloc[v] /\ alloc[v].block \in Blocks \cup {NoBlock}
    BY <1>1, <1>2, <1>3, <1>7, <2>1 DEF Records
  <2>. QED  BY <2>1, <2>2 DEF WorkerInv
<1>. QED  BY <1>2, <1>4, <1>5, <1>6, <1>7 DEF IInv

--------------------------------------------------------------------------------
\* The mutators.

LEMMA AllocateIInv ==
  ASSUME IInv, NEW m \in Mutators, NEW n \in Sizes, Allocate(m, n)
  PROVE  IInv'
<1>. DEFINE at == IF alloc[m].alloc + n <= alloc[m].sweep THEN "bump" ELSE "hole"
            p == Asking(pc[m], at, n)
<1>1. /\ pc[m].at = "idle" /\ m # collector /\ list' = list
      /\ UNCHANGED <<phase, collector, evacuating, summary, alloc>>
      /\ pc' = [pc EXCEPT ![m] = p]
  BY DEF Allocate, Running, Asking, flag_vars, space_vars, gc_vars
<1>2. Records /\ Apart /\ Summaries
  BY DEF IInv, Records
<1>3. m \in Threads /\ phase \in {"run", "stopping"}
  BY <1>1, MutatorRuns
<1>4. /\ IsProcess(pc[m]) /\ alloc' = [alloc EXCEPT ![m] = alloc[m]]
      /\ IsAllocator(alloc[m]) /\ alloc[m].block \in Blocks \cup {NoBlock}
  BY <1>1, <1>2, <1>3, SameThread
<1>5. IsProcess(p) /\ p.at \in {"bump", "hole"}
  <2>1. at \in {"bump", "hole"}
    OBVIOUS
  <2>. HIDE DEF at
  <2>. QED  BY <1>4, <2>1, ProcessWith
<1>. HIDE DEF p
<1>6. Threads' = Threads /\ pc'[m] = p
  BY <1>1, <1>2, <1>3, <1>5, OneProcess
<1>7. Apart' /\ list' \in [Lists -> SUBSET Blocks] /\ Summaries'
  BY <1>1, <1>2, <1>6, Stays DEF Held, Summaries
<1>8. MutatorInv(m)'
  BY <1>1, <1>3, <1>5, <1>6 DEF MutatorInv, IsDone
<1>. QED  BY <1>1, <1>3, <1>4, <1>5, <1>7, <1>8, MutatorStep

LEMMA BumpIInv ==
  ASSUME IInv, NEW m \in Mutators, nofl_allocate_bump_pointer(m)
  PROVE  IInv'
<1>. DEFINE a == Room(alloc[m], alloc[m].alloc + pc[m].size)
<1>1. /\ pc[m].at = "bump" /\ list' = list
      /\ UNCHANGED <<phase, collector, evacuating, summary>>
      /\ pc' = [pc EXCEPT ![m] = Resting] /\ alloc' = [alloc EXCEPT ![m] = a]
  BY DEF nofl_allocate_bump_pointer, Rest, Room, flag_vars, space_vars, gc_vars
<1>2. Records /\ Apart /\ Summaries /\ MutatorInv(m)
  BY DEF IInv, Records
<1>3. m \in Threads /\ phase \in {"run", "stopping"}
  BY <1>1, MutatorRuns
<1>4. /\ IsAllocator(a) /\ a.block = alloc[m].block
      /\ a.block \in Blocks \cup {NoBlock}
  BY <1>2, <1>3, SameThread, AllocatorWith
<1>. HIDE DEF a
<1>5. Threads' = Threads /\ pc'[m] = Resting
  BY <1>1, <1>2, <1>3, OneProcess, RestingIs
<1>6. Held
  BY <1>1, <1>2, <1>3, <1>4, OneAllocator DEF Held
<1>7. Apart' /\ list' \in [Lists -> SUBSET Blocks] /\ Summaries'
  BY <1>1, <1>2, <1>5, <1>6, Stays DEF Summaries
<1>8. MutatorInv(m)'
  <2>1. m # collector
    BY <1>1, <1>2 DEF MutatorInv
  <2>2. Resting.at = "idle"
    BY RestingIs
  <2>. QED  BY <1>1, <1>3, <1>5, <2>1, <2>2 DEF MutatorInv, IsDone
<1>. QED  BY <1>1, <1>3, <1>4, <1>7, <1>8, MutatorStep, RestingIs

\* What nofl_allocator_next_hole_in_block_of_size does with block b.
Finds(m, b, others, otherwise, a, s) ==
  /\ IsAllocator(a) /\ alloc' = [alloc EXCEPT ![m] = a]
  /\ IsSummary(s) /\ summary' = [summary EXCEPT ![b] = s]
  /\ \/ /\ a.block = NoBlock
        /\ list' = [others EXCEPT ![FullList(s)] = @ \cup {b}]
        /\ pc' = [pc EXCEPT ![m] = otherwise]
     \/ /\ a.block = b
        /\ list' = others
        /\ pc' = [pc EXCEPT ![m] = At(pc[m], Found(m))]
  /\ UNCHANGED <<phase, collector, evacuating>>

LEMMA NextHole ==
  ASSUME Records, NEW m \in Threads, NEW b, NEW g, NEW left, NEW s, NEW others, NEW otherwise,
         NextHoleInBlock(m, b, g, left, s, others, otherwise)
  PROVE  \E a, d : Finds(m, b, others, otherwise, a, d)
<1>. DEFINE size == pc[m].size
            hs == HolesIn(b, g, survivor_mark)
            fit == {h \in hs : h.n >= size}
            got == {h \in fit : \A x \in fit : h.at <= x.at}
            passed == left \cup {h \in hs : \A x \in got : h.at < x.at}
            swept == UNION {Inside(h) : h \in got \cup (passed \ left)}
            done == [holes |-> s.holes + Cardinality(swept),
                     pieces |-> s.pieces + Cardinality(passed),
                     fragments |-> s.fragments
                                     + Cardinality(UNION {Inside(h) : h \in passed})]
            kept == IF size > 0 THEN passed ELSE {}
            a == Having(alloc[m], alloc[m].holes \cup kept)
            c(h) == With(a, b, h.at, h.at + h.n)
<1>1. /\ summary' = [summary EXCEPT ![b] = done]
      /\ UNCHANGED <<phase, collector, evacuating>>
      /\ \/ /\ alloc' = [alloc EXCEPT ![m] = Reset(a)]
            /\ list' = [others EXCEPT ![FullList(done)] = @ \cup {b}]
            /\ pc' = [pc EXCEPT ![m] = otherwise]
         \/ /\ \E h \in got : alloc' = [alloc EXCEPT ![m] = c(h)]
            /\ list' = others
            /\ pc' = [pc EXCEPT ![m] = At(pc[m], Found(m))]
  BY DEF NextHoleInBlock, Goto, At, Having, With, space_vars, gc_vars
<1>2. IsAllocator(a)
  BY SameThread, AllocatorWith
<1>3. IsSummary(done)
  BY DEF IsSummary
<1>4. \A h : IsAllocator(c(h)) /\ c(h).block = b
  <2>. HIDE DEF a
  <2>. QED  BY <1>2, AllocatorWith
<1>5. IsAllocator(Reset(a)) /\ Reset(a).block = NoBlock
  <2>. HIDE DEF a
  <2>. QED  BY <1>2, AllocatorWith
<1>. HIDE DEF done, a, c, got
<1>6. CASE /\ alloc' = [alloc EXCEPT ![m] = Reset(a)]
           /\ list' = [others EXCEPT ![FullList(done)] = @ \cup {b}]
           /\ pc' = [pc EXCEPT ![m] = otherwise]
  <2>1. Finds(m, b, others, otherwise, Reset(a), done)
    BY <1>1, <1>3, <1>5, <1>6 DEF Finds
  <2>. QED  BY <2>1
<1>7. CASE /\ \E h \in got : alloc' = [alloc EXCEPT ![m] = c(h)]
           /\ list' = others
           /\ pc' = [pc EXCEPT ![m] = At(pc[m], Found(m))]
  <2>1. PICK h \in got : alloc' = [alloc EXCEPT ![m] = c(h)]
    BY <1>7
  <2>2. Finds(m, b, others, otherwise, c(h), done)
    BY <1>1, <1>3, <1>4, <1>7, <2>1 DEF Finds
  <2>. QED  BY <2>2
<1>. QED  BY <1>1, <1>6, <1>7

LEMMA FoundIs ==
  ASSUME NEW m
  PROVE  Found(m) \in {"hole", "bump"} /\ (pc[m].size = 0 => Found(m) = "hole")
BY DEF Found

\* What a mutator finds in block b of its own, or in one that it is about to sweep:
\* if it goes on as it should, all is well.
LEMMA FindsIInv ==
  ASSUME IInv, NEW m \in Mutators, pc[m].at \notin {"nospace", "flushed"},
         NEW b \in Blocks, NEW others, NEW q, NEW a, NEW s, Finds(m, b, others, q, a, s),
         \/ others = list /\ alloc[m].block = b
         \/ /\ others = [list EXCEPT !["to_sweep"] = @ \ {b}]
            /\ b \in list["to_sweep"] /\ alloc[m].block = NoBlock,
         IsProcess(q), q.size = pc[m].size,
         q.at \in {"second", "sweep"}, q.at = "second" => q.size # 0
  PROVE  IInv'
<1>1. Records /\ Apart /\ Summaries /\ MutatorInv(m) /\ NoBlock \notin Blocks
  BY NoflAssumption DEF IInv, Records
<1>2. m \in Threads /\ phase \in {"run", "stopping"} /\ (m = collector => phase = "stopping")
  BY MutatorRuns
<1>3. /\ IsAllocator(a) /\ alloc' = [alloc EXCEPT ![m] = a]
      /\ IsSummary(s) /\ summary' = [summary EXCEPT ![b] = s]
      /\ UNCHANGED <<phase, collector, evacuating>>
      /\ a.block \in {b, NoBlock}
  BY DEF Finds
<1>4. Summaries'
  BY <1>1, <1>3, OneSummary
<1>5. alloc'[m] = a /\ \A u \in Threads : u # m => alloc'[u] = alloc[u]
  BY <1>1, <1>2, <1>3, OneAllocator
<1>6. list \in [Lists -> SUBSET Blocks] /\ "to_sweep" \in Lists /\ FullList(s) \in Lists
      /\ FullList(s) # "to_sweep"
  BY <1>1, ListIs DEF Records
<1>. DEFINE f == At(pc[m], Found(m))
<1>7. /\ IsProcess(f) /\ f.at = Found(m) /\ f.size = pc[m].size
      /\ f.at \in {"hole", "bump"} /\ (f.size = 0 => f.at = "hole")
  BY <1>1, <1>2, SameThread, ProcessWith, FoundIs
<1>. HIDE DEF f
<1>8. CASE /\ a.block = NoBlock
           /\ list' = [others EXCEPT ![FullList(s)] = @ \cup {b}]
           /\ pc' = [pc EXCEPT ![m] = q]
  <2>1. Threads' = Threads /\ pc'[m] = q
    BY <1>1, <1>2, <1>8, OneProcess
  <2>2. CASE others = list /\ alloc[m].block = b
    <3>1. Apart' /\ list' \in [Lists -> SUBSET Blocks]
      BY <1>1, <1>2, <1>3, <1>6, <1>8, <2>1, <2>2, Gives
    <3>2. list'["to_sweep"] = list["to_sweep"]
      BY <1>6, <1>8, <2>2
    <3>3. MutatorInv(m)'
      BY <1>1, <1>2, <1>3, <1>5, <1>8, <2>1, <3>2 DEF MutatorInv, IsDone
    <3>. QED  BY <1>1, <1>2, <1>3, <1>4, <1>8, <3>1, <3>2, <3>3, MutatorStep
  <2>3. CASE /\ others = [list EXCEPT !["to_sweep"] = @ \ {b}]
             /\ b \in list["to_sweep"] /\ alloc[m].block = NoBlock
    <3>1. Held
      BY <1>5, <1>8, <2>3 DEF Held
    <3>2. Apart' /\ list' \in [Lists -> SUBSET Blocks]
      BY <1>1, <1>6, <1>8, <2>1, <2>3, <3>1, Moves
    <3>3. list'["to_sweep"] \subseteq list["to_sweep"]
      BY <1>6, <1>8, <2>3
    <3>4. MutatorInv(m)'
      BY <1>1, <1>2, <1>3, <1>5, <1>8, <2>1, <3>3 DEF MutatorInv, IsDone
    <3>. QED  BY <1>1, <1>2, <1>3, <1>4, <1>8, <3>2, <3>3, <3>4, MutatorStep
  <2>. QED  BY <2>2, <2>3
<1>9. CASE a.block = b /\ list' = others /\ pc' = [pc EXCEPT ![m] = f]
  <2>1. Threads' = Threads /\ pc'[m] = f
    BY <1>1, <1>2, <1>7, <1>9, OneProcess
  <2>2. CASE others = list /\ alloc[m].block = b
    <3>1. Held
      BY <1>5, <1>9, <2>2 DEF Held
    <3>2. Apart' /\ list' \in [Lists -> SUBSET Blocks]
      BY <1>1, <1>9, <2>1, <2>2, <3>1, Stays
    <3>3. MutatorInv(m)'
      BY <1>1, <1>2, <1>3, <1>7, <2>1 DEF MutatorInv, IsDone
    <3>. QED  BY <1>1, <1>2, <1>3, <1>4, <1>7, <1>9, <2>2, <3>2, <3>3, MutatorStep
  <2>3. CASE /\ others = [list EXCEPT !["to_sweep"] = @ \ {b}]
             /\ b \in list["to_sweep"] /\ alloc[m].block = NoBlock
    <3>1. Apart' /\ list' \in [Lists -> SUBSET Blocks]
      BY <1>1, <1>2, <1>3, <1>6, <1>9, <2>1, <2>3, Takes
    <3>2. list'["to_sweep"] \subseteq list["to_sweep"]
      BY <1>6, <1>9, <2>3
    <3>3. MutatorInv(m)'
      BY <1>1, <1>2, <1>3, <1>7, <2>1 DEF MutatorInv, IsDone
    <3>. QED  BY <1>1, <1>2, <1>3, <1>4, <1>7, <1>9, <3>1, <3>2, <3>3, MutatorStep
  <2>. QED  BY <2>2, <2>3
<1>. QED  BY <1>8, <1>9 DEF Finds, f

LEMMA SweepOnIInv ==
  ASSUME IInv, NEW m \in Mutators, SweepOn(m)
  PROVE  IInv'
<1>. DEFINE a == alloc[m]
            at == IF pc[m].size = 0 THEN "sweep" ELSE "second"
            q == Sweeping(pc[m], at, 0)
<1>1. /\ pc[m].at = "hole"
      /\ \/ /\ a.block # NoBlock
            /\ NextHoleInBlock(m, a.block, a.sweep, Leftover(a), summary[a.block], list, q)
         \/ /\ a.block = NoBlock /\ pc' = [pc EXCEPT ![m] = q]
            /\ UNCHANGED <<phase, collector, evacuating, summary, alloc, list>>
  BY DEF SweepOn, Sweeping, flag_vars, space_vars, gc_vars
<1>2. Records /\ Apart /\ Summaries /\ MutatorInv(m)
  BY DEF IInv, Records
<1>3. m \in Threads /\ phase \in {"run", "stopping"} /\ (m = collector => phase = "stopping")
  BY <1>1, MutatorRuns
<1>4. /\ IsProcess(q) /\ q.at = at /\ q.size = pc[m].size
      /\ IsAllocator(a) /\ a.block \in Blocks \cup {NoBlock}
  <2>. HIDE DEF at
  <2>. QED  BY <1>2, <1>3, SameThread, ProcessWith
<1>5. q.at \in {"second", "sweep"} /\ (q.at = "second" <=> q.size # 0)
  BY <1>4
<1>. HIDE DEF q, at
<1>6. CASE a.block # NoBlock /\ NextHoleInBlock(m, a.block, a.sweep, Leftover(a),
                                                summary[a.block], list, q)
  <2>1. PICK c, s : Finds(m, a.block, list, q, c, s)
    BY <1>2, <1>3, <1>6, NextHole
  <2>2. a.block \in Blocks
    BY <1>4, <1>6
  <2>. QED  BY <1>1, <1>4, <1>5, <2>1, <2>2, FindsIInv
<1>7. CASE /\ a.block = NoBlock /\ pc' = [pc EXCEPT ![m] = q]
           /\ UNCHANGED <<phase, collector, evacuating, summary, alloc, list>>
  <2>1. Threads' = Threads /\ pc'[m] = q
    BY <1>2, <1>3, <1>4, <1>7, OneProcess
  <2>2. Apart' /\ list' \in [Lists -> SUBSET Blocks] /\ Summaries'
    BY <1>2, <1>7, <2>1, Stays DEF Held, Summaries
  <2>3. MutatorInv(m)'
    BY <1>2, <1>3, <1>4, <1>5, <1>7, <2>1 DEF MutatorInv, IsDone
  <2>4. alloc' = [alloc EXCEPT ![m] = a]
    BY <1>2, <1>3, <1>7, SameThread
  <2>. QED  BY <1>3, <1>4, <1>7, <2>2, <2>3, <2>4, MutatorStep
<1>. QED  BY <1>1, <1>6, <1>7

LEMMA SecondChanceIInv ==
  ASSUME IInv, NEW m \in Mutators, SecondChance(m)
  PROVE  IInv'
<1>. DEFINE q == At(pc[m], "sweep")
<1>1. /\ pc[m].at = "second" /\ UNCHANGED <<phase, collector, evacuating, summary, list>>
      /\ \/ /\ pc' = [pc EXCEPT ![m] = q] /\ alloc' = alloc
         \/ /\ pc' = [pc EXCEPT ![m] = Resting]
            /\ \E hs : alloc' = [alloc EXCEPT ![m] = Having(alloc[m], hs)]
  BY DEF SecondChance, At, Goto, Rest, Having, flag_vars, space_vars, gc_vars
<1>2. Records /\ Apart /\ Summaries /\ MutatorInv(m)
  BY DEF IInv, Records
<1>3. m \in Threads /\ phase \in {"run", "stopping"}
  BY <1>1, MutatorRuns
<1>4. /\ IsAllocator(alloc[m]) /\ alloc[m].block \in Blocks \cup {NoBlock}
      /\ alloc = [alloc EXCEPT ![m] = alloc[m]]
      /\ IsProcess(q) /\ q.at = "sweep"
      /\ IsProcess(Resting) /\ Resting.at = "idle"
  <2>1. /\ IsAllocator(alloc[m]) /\ alloc[m].block \in Blocks \cup {NoBlock}
        /\ alloc = [alloc EXCEPT ![m] = alloc[m]] /\ IsProcess(pc[m])
    BY <1>2, <1>3, SameThread
  <2>2. IsProcess(q) /\ q.at = "sweep"
    BY <2>1, ProcessWith
  <2>. QED  BY <2>1, <2>2, RestingIs
<1>. HIDE DEF q
<1>5. PICK a : /\ IsAllocator(a) /\ a.block = alloc[m].block
               /\ alloc' = [alloc EXCEPT ![m] = a]
  <2>1. CASE alloc' = alloc
    BY <1>4, <2>1
  <2>2. ASSUME NEW hs, alloc' = [alloc EXCEPT ![m] = Having(alloc[m], hs)]
        PROVE  \E a : /\ IsAllocator(a) /\ a.block = alloc[m].block
                      /\ alloc' = [alloc EXCEPT ![m] = a]
    BY <1>4, <2>2, AllocatorWith
  <2>. QED  BY <1>1, <2>1, <2>2
<1>6. PICK p \in {q, Resting} : pc' = [pc EXCEPT ![m] = p]
  BY <1>1
<1>7. Threads' = Threads /\ pc'[m] = p
  BY <1>2, <1>3, <1>4, <1>6, OneProcess
<1>8. Held /\ alloc'[m] = a
  BY <1>2, <1>3, <1>4, <1>5, OneAllocator DEF Held
<1>9. Apart' /\ list' \in [Lists -> SUBSET Blocks] /\ Summaries'
  BY <1>1, <1>2, <1>7, <1>8, Stays DEF Summaries
<1>10. MutatorInv(m)'
  BY <1>1, <1>2, <1>3, <1>4, <1>5, <1>7, <1>8 DEF MutatorInv, IsDone
<1>. QED  BY <1>1, <1>3, <1>4, <1>5, <1>6, <1>9, <1>10, MutatorStep

LEMMA SweepIInv ==
  ASSUME IInv, NEW m \in Mutators, Sweep(m)
  PROVE  IInv'
<1>. DEFINE p == At(pc[m], "partly")
            q == Swept(pc[m], pc[m].swept + 1)
            others(b) == [list EXCEPT !["to_sweep"] = @ \ {b}]
            none == [holes |-> 0, pieces |-> 0, fragments |-> 0]
<1>1. /\ pc[m].at = "sweep"
      /\ \/ \E b \in list["to_sweep"] : NextHoleInBlock(m, b, 0, {}, none, others(b), q)
         \/ /\ pc[m].swept = BlocksToSweep(pc[m].size) \/ list["to_sweep"] = {}
            /\ pc' = [pc EXCEPT ![m] = p]
            /\ UNCHANGED <<phase, collector, evacuating, summary, alloc, list>>
  BY DEF Sweep, Swept, At, Goto, flag_vars, space_vars, gc_vars
<1>2. Records /\ Apart /\ Summaries /\ MutatorInv(m)
  BY DEF IInv, Records
<1>3. m \in Threads /\ phase \in {"run", "stopping"}
  BY <1>1, MutatorRuns
<1>4. /\ IsProcess(p) /\ p.at = "partly" /\ p.size = pc[m].size /\ p.swept = pc[m].swept
      /\ IsProcess(q) /\ q.at = "sweep" /\ q.size = pc[m].size
      /\ IsAllocator(alloc[m]) /\ alloc[m].block = NoBlock
      /\ alloc = [alloc EXCEPT ![m] = alloc[m]]
  <2>1. IsProcess(pc[m]) /\ IsAllocator(alloc[m]) /\ alloc = [alloc EXCEPT ![m] = alloc[m]]
    BY <1>2, <1>3, SameThread
  <2>2. alloc[m].block = NoBlock
    BY <1>1, <1>2 DEF MutatorInv
  <2>. QED  BY <1>1, <2>1, <2>2, ProcessWith
<1>. HIDE DEF p, q, none
<1>5. ASSUME NEW b \in list["to_sweep"], NextHoleInBlock(m, b, 0, {}, none, others(b), q)
      PROVE  IInv'
  <2>1. b \in Blocks
    BY <1>2 DEF Records, Lists
  <2>. DEFINE o == others(b)
  <2>2. o = [list EXCEPT !["to_sweep"] = @ \ {b}]
    OBVIOUS
  <2>3. NextHoleInBlock(m, b, 0, {}, none, o, q)
    BY <1>5
  <2>. HIDE DEF o
  <2>4. PICK c, s : Finds(m, b, o, q, c, s)
    BY <1>2, <1>3, <2>3, NextHole
  <2>. QED  BY <1>1, <1>4, <2>1, <2>2, <2>4, FindsIInv
<1>6. CASE /\ pc[m].swept = BlocksToSweep(pc[m].size) \/ list["to_sweep"] = {}
           /\ pc' = [pc EXCEPT ![m] = p]
           /\ UNCHANGED <<phase, collector, evacuating, summary, alloc, list>>
  <2>1. Threads' = Threads /\ pc'[m] = p
    BY <1>2, <1>3, <1>4, <1>6, OneProcess
  <2>2. Apart' /\ list' \in [Lists -> SUBSET Blocks] /\ Summaries'
    BY <1>2, <1>6, <2>1, Stays DEF Held, Summaries
  <2>3. ASSUME pc[m].size = 0, pc[m].swept = 0
        PROVE  list["to_sweep"] = {}
    <3>1. BlocksToSweep(0) = Cardinality(Blocks)
      BY DEF BlocksToSweep
    <3>2. CASE Cardinality(Blocks) = 0
      <4>1. Blocks = {}
        BY <3>2, FS_EmptySet, NoflAssumption
      <4>. QED  BY <1>2, <4>1 DEF Records, Lists
    <3>. QED  BY <1>6, <2>3, <3>1, <3>2
  <2>4. MutatorInv(m)'
    BY <1>1, <1>2, <1>3, <1>4, <1>6, <2>1, <2>3 DEF MutatorInv, IsDone
  <2>. QED  BY <1>3, <1>4, <1>6, <2>2, <2>4, MutatorStep
<1>. QED  BY <1>1, <1>5, <1>6

LEMMA PartlyFullIInv ==
  ASSUME IInv, NEW m \in Mutators, PartlyFull(m)
  PROVE  IInv'
<1>. DEFINE p == At(pc[m], "empty")
            f == At(pc[m], Found(m))
            s(b) == Pieces(summary[b], 1)
            t(b) == Fragmented(summary[b], 0)
<1>1. /\ pc[m].at = "partly"
      /\ UNCHANGED <<phase, collector, evacuating>>
      /\ \/ /\ pc' = [pc EXCEPT ![m] = p] /\ UNCHANGED <<summary, list, alloc>>
         \/ \E b \in list["partly_full"] :
              \/ /\ alloc' = [alloc EXCEPT ![m] = Taken(m, b)]
                 /\ summary' = [summary EXCEPT ![b] = t(b)]
                 /\ list' = [list EXCEPT !["partly_full"] = @ \ {b}]
                 /\ pc' = [pc EXCEPT ![m] = f]
              \/ /\ \E hs : alloc' = [alloc EXCEPT ![m] = Having(alloc[m], hs)]
                 /\ summary' = [summary EXCEPT ![b] = s(b)]
                 /\ list' = [[list EXCEPT !["partly_full"] = @ \ {b}]
                              EXCEPT ![FullList(s(b))] = @ \cup {b}]
                 /\ pc' = pc
  <2>1. ASSUME NEW b, NEW l
        PROVE  /\ [summary EXCEPT ![b].fragments = 0] = [summary EXCEPT ![b] = t(b)]
               /\ [alloc EXCEPT ![m].holes = @ \cup l]
                    = [alloc EXCEPT ![m] = Having(alloc[m], alloc[m].holes \cup l)]
               /\ [list EXCEPT !["partly_full"] = @ \ {b}, ![FullList(s(b))] = @ \cup {b}]
                    = [[list EXCEPT !["partly_full"] = @ \ {b}]
                         EXCEPT ![FullList(s(b))] = @ \cup {b}]
    BY DEF Fragmented, Having
  <2>2. pc[m].at = "partly" /\ UNCHANGED <<phase, collector, evacuating>>
    BY DEF PartlyFull, space_vars, gc_vars
  <2>3. CASE Goto(m, "empty") /\ UNCHANGED <<dirty, summary, list, alloc>>
    BY <2>2, <2>3 DEF Goto, At
  <2>4. ASSUME NEW b \in list["partly_full"],
               alloc' = [alloc EXCEPT ![m] = Taken(m, b)],
               summary' = [summary EXCEPT ![b].fragments = 0],
               Pop("partly_full", b), Goto(m, Found(m))
        PROVE  /\ alloc' = [alloc EXCEPT ![m] = Taken(m, b)]
               /\ summary' = [summary EXCEPT ![b] = t(b)]
               /\ list' = [list EXCEPT !["partly_full"] = @ \ {b}]
               /\ pc' = [pc EXCEPT ![m] = f]
    BY <2>1, <2>4 DEF Goto, Pop, At
  <2>5. ASSUME NEW b \in list["partly_full"], NEW l,
               alloc' = [alloc EXCEPT ![m].holes = @ \cup l],
               summary' = [summary EXCEPT ![b] = s(b)],
               list' = [list EXCEPT !["partly_full"] = @ \ {b}, ![FullList(s(b))] = @ \cup {b}]
        PROVE  /\ \E hs : alloc' = [alloc EXCEPT ![m] = Having(alloc[m], hs)]
               /\ list' = [[list EXCEPT !["partly_full"] = @ \ {b}]
                            EXCEPT ![FullList(s(b))] = @ \cup {b}]
    BY <2>1, <2>5
  <2>6. \/ Goto(m, "empty") /\ UNCHANGED <<dirty, summary, list, alloc>>
        \/ \E b \in list["partly_full"] :
              \/ /\ alloc' = [alloc EXCEPT ![m] = Taken(m, b)]
                 /\ summary' = [summary EXCEPT ![b].fragments = 0]
                 /\ Pop("partly_full", b) /\ Goto(m, Found(m))
              \/ /\ \E l : alloc' = [alloc EXCEPT ![m].holes = @ \cup l]
                 /\ summary' = [summary EXCEPT ![b] = s(b)]
                 /\ list' = [list EXCEPT !["partly_full"] = @ \ {b},
                                         ![FullList(s(b))] = @ \cup {b}]
                 /\ pc' = pc
    BY DEF PartlyFull, Pieces
  <2>. HIDE DEF f, s, t
  <2>7. CASE \E b \in list["partly_full"] :
               /\ alloc' = [alloc EXCEPT ![m] = Taken(m, b)]
               /\ summary' = [summary EXCEPT ![b].fragments = 0]
               /\ Pop("partly_full", b) /\ Goto(m, Found(m))
    BY <2>2, <2>4, <2>7
  <2>8. CASE \E b \in list["partly_full"] :
               /\ \E l : alloc' = [alloc EXCEPT ![m].holes = @ \cup l]
               /\ summary' = [summary EXCEPT ![b] = s(b)]
               /\ list' = [list EXCEPT !["partly_full"] = @ \ {b},
                                       ![FullList(s(b))] = @ \cup {b}]
               /\ pc' = pc
    BY <2>2, <2>5, <2>8
  <2>. QED  BY <2>3, <2>6, <2>7, <2>8
<1>2. Records /\ Apart /\ Summaries /\ MutatorInv(m)
  BY DEF IInv, Records
<1>3. m \in Threads /\ phase \in {"run", "stopping"}
  BY <1>1, MutatorRuns
<1>4. /\ pc = [pc EXCEPT ![m] = pc[m]] /\ IsProcess(pc[m])
      /\ IsAllocator(alloc[m]) /\ alloc[m].block = NoBlock
      /\ alloc = [alloc EXCEPT ![m] = alloc[m]]
  <2>1. alloc[m].block = NoBlock
    BY <1>1, <1>2 DEF MutatorInv
  <2>. QED  BY <1>2, <1>3, <2>1, SameThread
<1>5. /\ IsProcess(p) /\ p.at = "empty" /\ p.size = pc[m].size /\ p.swept = pc[m].swept
      /\ IsProcess(f) /\ f.at = Found(m) /\ f.size = pc[m].size
      /\ Found(m) \in {"hole", "bump"} /\ (pc[m].size = 0 => Found(m) = "hole")
  BY <1>4, ProcessWith, FoundIs
<1>6. /\ list \in [Lists -> SUBSET Blocks] /\ "partly_full" \in Lists /\ "to_sweep" \in Lists
      /\ \A b : FullList(s(b)) \in Lists /\ FullList(s(b)) \notin {"partly_full", "to_sweep"}
  BY <1>2, ListIs DEF Records
<1>7. \A b \in Blocks : IsSummary(s(b)) /\ IsSummary(t(b))
  BY <1>2, SummaryWith DEF Summaries
<1>. HIDE DEF p, f, s, t
<1>8. CASE pc' = [pc EXCEPT ![m] = p] /\ UNCHANGED <<summary, list, alloc>>
  <2>1. Threads' = Threads /\ pc'[m] = p
    BY <1>2, <1>3, <1>5, <1>8, OneProcess
  <2>2. Apart' /\ list' \in [Lists -> SUBSET Blocks] /\ Summaries'
    BY <1>2, <1>8, <2>1, Stays DEF Held, Summaries
  <2>3. MutatorInv(m)'
    BY <1>1, <1>2, <1>3, <1>4, <1>5, <1>8, <2>1 DEF MutatorInv, IsDone
  <2>. QED  BY <1>1, <1>3, <1>4, <1>5, <1>8, <2>2, <2>3, MutatorStep
<1>9. ASSUME NEW b \in list["partly_full"],
             alloc' = [alloc EXCEPT ![m] = Taken(m, b)],
             summary' = [summary EXCEPT ![b] = t(b)],
             list' = [list EXCEPT !["partly_full"] = @ \ {b}],
             pc' = [pc EXCEPT ![m] = f]
      PROVE  IInv'
  <2>1. b \in Blocks
    BY <1>6
  <2>2. IsAllocator(Taken(m, b)) /\ Taken(m, b).block = b
    <3>1. Taken(m, b) = With(alloc[m], b, G - summary[b].fragments, G)
      BY DEF Taken, With
    <3>. QED  BY <1>4, <3>1, AllocatorWith
  <2>3. Threads' = Threads /\ pc'[m] = f
    BY <1>2, <1>3, <1>5, <1>9, OneProcess
  <2>4. Summaries'
    BY <1>2, <1>7, <1>9, <2>1, OneSummary
  <2>5. Apart' /\ list' \in [Lists -> SUBSET Blocks]
    BY <1>2, <1>3, <1>4, <1>6, <1>9, <2>2, <2>3, Takes
  <2>6. list'["to_sweep"] = list["to_sweep"]
    BY <1>6, <1>9
  <2>7. MutatorInv(m)'
    BY <1>1, <1>2, <1>3, <1>5, <2>3 DEF MutatorInv, IsDone
  <2>. QED  BY <1>1, <1>3, <1>5, <1>9, <2>1, <2>2, <2>4, <2>5, <2>6, <2>7, MutatorStep
<1>10. ASSUME NEW b \in list["partly_full"], NEW hs,
              alloc' = [alloc EXCEPT ![m] = Having(alloc[m], hs)],
              summary' = [summary EXCEPT ![b] = s(b)],
              list' = [[list EXCEPT !["partly_full"] = @ \ {b}]
                              EXCEPT ![FullList(s(b))] = @ \cup {b}],
              pc' = pc
       PROVE  IInv'
  <2>1. b \in Blocks
    BY <1>6
  <2>2. IsAllocator(Having(alloc[m], hs)) /\ Having(alloc[m], hs).block = NoBlock
    BY <1>4, AllocatorWith
  <2>3. Threads' = Threads
    BY <1>10 DEF Threads
  <2>4. Held /\ alloc'[m].block = NoBlock
    BY <1>2, <1>3, <1>4, <1>10, <2>2, OneAllocator DEF Held
  <2>5. Summaries'
    BY <1>2, <1>7, <1>10, <2>1, OneSummary
  <2>6. Apart' /\ list' \in [Lists -> SUBSET Blocks]
    BY <1>2, <1>6, <1>10, <2>3, <2>4, Moves
  <2>7. list'["to_sweep"] = list["to_sweep"]
    BY <1>6, <1>10
  <2>8. MutatorInv(m)'
    BY <1>1, <1>2, <1>3, <1>10, <2>4, <2>7 DEF MutatorInv, IsDone
  <2>. QED  BY <1>1, <1>3, <1>4, <1>10, <2>2, <2>5, <2>6, <2>7, <2>8, MutatorStep
<1>. QED  BY <1>1, <1>8, <1>9, <1>10

LEMMA EmptyIInv ==
  ASSUME IInv, NEW m \in Mutators, Empty(m)
  PROVE  IInv'
<1>. DEFINE at == IF pc[m].swept = 0 THEN "nospace" ELSE "sweep"
            p == Again(pc[m], at, 0)
            f == At(pc[m], Found(m))
            s == [holes |-> G, pieces |-> 0, fragments |-> 0]
            a(b) == With(alloc[m], b, 0, G)
<1>1. /\ pc[m].at = "empty"
      /\ UNCHANGED <<phase, collector, evacuating>>
      /\ \/ \E b \in list["empty"] :
              /\ list' = [list EXCEPT !["empty"] = @ \ {b}]
              /\ summary' = [summary EXCEPT ![b] = s]
              /\ alloc' = [alloc EXCEPT ![m] = a(b)]
              /\ pc' = [pc EXCEPT ![m] = f]
         \/ pc' = [pc EXCEPT ![m] = p] /\ UNCHANGED <<summary, list, alloc>>
  BY DEF Empty, AcquireEmpty, At, Again, With, Goto, Pop, space_vars, gc_vars
<1>2. Records /\ Apart /\ Summaries /\ MutatorInv(m)
  BY DEF IInv, Records
<1>3. m \in Threads /\ phase \in {"run", "stopping"}
  BY <1>1, MutatorRuns
<1>4. /\ IsProcess(pc[m]) /\ IsAllocator(alloc[m]) /\ alloc[m].block = NoBlock
      /\ alloc = [alloc EXCEPT ![m] = alloc[m]]
  <2>1. alloc[m].block = NoBlock
    BY <1>1, <1>2 DEF MutatorInv
  <2>. QED  BY <1>2, <1>3, <2>1, SameThread
<1>5. /\ IsProcess(p) /\ p.at = at /\ p.size = pc[m].size
      /\ IsProcess(f) /\ f.at = Found(m) /\ f.size = pc[m].size
      /\ Found(m) \in {"hole", "bump"} /\ (pc[m].size = 0 => Found(m) = "hole")
  <2>. HIDE DEF at
  <2>. QED  BY <1>4, ProcessWith, FoundIs
<1>6. IsSummary(s) /\ \A b : IsAllocator(a(b)) /\ a(b).block = b
  <2>1. IsSummary(s)
    BY DEF IsSummary
  <2>. QED  BY <1>4, <2>1, AllocatorWith
<1>7. at \in {"nospace", "sweep"} /\ (at = "nospace" => pc[m].swept = 0)
  OBVIOUS
<1>8. list \in [Lists -> SUBSET Blocks] /\ "empty" \in Lists /\ "to_sweep" \in Lists
  BY <1>2, ListIs DEF Records
<1>. HIDE DEF p, f, s, a, at
<1>9. CASE pc' = [pc EXCEPT ![m] = p] /\ UNCHANGED <<summary, list, alloc>>
  <2>1. Threads' = Threads /\ pc'[m] = p
    BY <1>2, <1>3, <1>5, <1>9, OneProcess
  <2>2. Apart' /\ list' \in [Lists -> SUBSET Blocks] /\ Summaries'
    BY <1>2, <1>9, <2>1, Stays DEF Held, Summaries
  <2>3. MutatorInv(m)'
    BY <1>1, <1>2, <1>3, <1>4, <1>5, <1>7, <1>9, <2>1 DEF MutatorInv, IsDone
  <2>. QED  BY <1>1, <1>3, <1>4, <1>5, <1>9, <2>2, <2>3, MutatorStep
<1>10. ASSUME NEW b \in list["empty"],
              list' = [list EXCEPT !["empty"] = @ \ {b}],
              summary' = [summary EXCEPT ![b] = s],
              alloc' = [alloc EXCEPT ![m] = a(b)],
              pc' = [pc EXCEPT ![m] = f]
       PROVE  IInv'
  <2>1. b \in Blocks /\ IsAllocator(a(b)) /\ a(b).block = b
    BY <1>6, <1>8
  <2>2. Threads' = Threads /\ pc'[m] = f
    BY <1>2, <1>3, <1>5, <1>10, OneProcess
  <2>3. Summaries'
    BY <1>2, <1>6, <1>10, <2>1, OneSummary
  <2>4. Apart' /\ list' \in [Lists -> SUBSET Blocks]
    BY <1>2, <1>3, <1>4, <1>8, <1>10, <2>1, <2>2, Takes
  <2>5. list'["to_sweep"] = list["to_sweep"]
    BY <1>8, <1>10
  <2>6. MutatorInv(m)'
    BY <1>1, <1>2, <1>3, <1>5, <2>2 DEF MutatorInv, IsDone
  <2>. QED  BY <1>1, <1>3, <1>5, <1>10, <2>1, <2>3, <2>4, <2>5, <2>6, MutatorStep
<1>. QED  BY <1>1, <1>9, <1>10

\* nofl_allocator_finish gives a block back, to the partly full ones or to list l.
LEMMA ReleasePartlyFullIs ==
  ASSUME NEW t, ReleasePartlyFull(t)
  PROVE  /\ alloc' = [alloc EXCEPT ![t] = Reset(alloc[t])]
         /\ list' = [list EXCEPT !["partly_full"] = @ \cup {alloc[t].block}]
         /\ \E x : summary' = [summary EXCEPT ![alloc[t].block]
                                 = Fragmented(summary[alloc[t].block], x)]
<1>1. \A b, x : [summary EXCEPT ![b].fragments = x]
                  = [summary EXCEPT ![b] = Fragmented(summary[b], x)]
  BY DEF Fragmented
<1>. QED  BY <1>1 DEF ReleasePartlyFull, Push

LEMMA ReleaseBlockIInv ==
  ASSUME IInv, NEW m \in Mutators, ReleaseBlock(m)
  PROVE  IInv'
<1>. DEFINE p == At(Resting, "release")
            a == alloc[m]
            b == a.block
            more == HolesIn(b, a.sweep, survivor_mark)
            all == more \cup Leftover(a)
            swept == UNION {Inside(h) : h \in more}
            s == [holes |-> summary[b].holes + Cardinality(swept),
                  pieces |-> summary[b].pieces + Cardinality(all),
                  fragments |-> summary[b].fragments
                                  + Cardinality(UNION {Inside(h) : h \in all})]
            c == Reset(Having(a, a.holes \cup all))
<1>1. /\ phase \in {"run", "stopping"} /\ m # collector
      /\ UNCHANGED <<phase, collector, evacuating>>
      /\ pc' = [pc EXCEPT ![m] = p]
      /\ \/ b = NoBlock /\ UNCHANGED <<summary, list, alloc>>
         \/ b # NoBlock /\ ReleasePartlyFull(m)
         \/ /\ b # NoBlock
            /\ summary' = [summary EXCEPT ![b] = s]
            /\ list' = [list EXCEPT ![FullList(s)] = @ \cup {b}]
            /\ alloc' = [alloc EXCEPT ![m] = c]
  BY DEF ReleaseBlock, Running, At, Having, Push, space_vars, gc_vars
<1>2. Records /\ Apart /\ Summaries /\ m \in Threads
  BY DEF IInv, Records, Mutators
<1>3. /\ IsAllocator(a) /\ b \in Blocks \cup {NoBlock} /\ a = alloc[m]
      /\ alloc = [alloc EXCEPT ![m] = a]
  BY <1>2, SameThread
<1>4. IsProcess(p) /\ p.at = "release" /\ p.size = 0
  BY RestingIs, ProcessWith
<1>5. IsSummary(s) /\ b = alloc[m].block
  BY DEF IsSummary
<1>6. IsAllocator(c) /\ c.block = NoBlock /\ IsAllocator(Reset(a)) /\ Reset(a).block = NoBlock
  <2>1. IsAllocator(Having(a, a.holes \cup all))
    BY <1>3, AllocatorWith
  <2>. QED  BY <1>3, <2>1, AllocatorWith
<1>7. /\ list \in [Lists -> SUBSET Blocks] /\ "partly_full" \in Lists /\ "to_sweep" \in Lists
      /\ FullList(s) \in Lists /\ FullList(s) # "to_sweep"
  BY <1>2, ListIs DEF Records
<1>8. Threads' = Threads /\ pc'[m] = p
  BY <1>1, <1>2, <1>4, OneProcess
<1>9. ASSUME NEW d, IsAllocator(d), d.block = NoBlock, alloc' = [alloc EXCEPT ![m] = d],
             Summaries', Apart', list' \in [Lists -> SUBSET Blocks],
             list'["to_sweep"] = list["to_sweep"]
      PROVE  IInv'
  <2>1. alloc'[m] = d
    BY <1>2, <1>9, OneAllocator
  <2>2. MutatorInv(m)'
    BY <1>1, <1>4, <1>8, <1>9, <2>1 DEF MutatorInv, IsDone
  <2>. QED  BY <1>1, <1>4, <1>9, <2>2, MutatorStep
<1>. HIDE DEF p, c, s, a, b
<1>10. CASE b = NoBlock /\ UNCHANGED <<summary, list, alloc>>
  <2>1. Apart' /\ Summaries' /\ list' \in [Lists -> SUBSET Blocks]
    BY <1>2, <1>8, <1>10, Stays DEF Held, Summaries
  <2>2. a.block = NoBlock
    BY <1>3, <1>5, <1>10
  <2>. QED  BY <1>3, <1>9, <1>10, <2>1, <2>2
<1>11. CASE b # NoBlock /\ ReleasePartlyFull(m)
  <2>1. /\ alloc' = [alloc EXCEPT ![m] = Reset(a)]
        /\ list' = [list EXCEPT !["partly_full"] = @ \cup {b}]
        /\ \E x : summary' = [summary EXCEPT ![b] = Fragmented(summary[b], x)]
    BY <1>3, <1>5, <1>11, ReleasePartlyFullIs
  <2>2. PICK x : summary' = [summary EXCEPT ![b] = Fragmented(summary[b], x)]
    BY <2>1
  <2>3. b \in Blocks /\ IsSummary(Fragmented(summary[b], x))
    BY <1>2, <1>3, <1>11, SummaryWith DEF Summaries
  <2>4. Summaries'
    BY <1>2, <2>2, <2>3, OneSummary
  <2>5. Apart' /\ list' \in [Lists -> SUBSET Blocks]
    BY <1>2, <1>5, <1>6, <1>7, <1>8, <1>11, <2>1, Gives
  <2>6. list'["to_sweep"] = list["to_sweep"]
    BY <1>7, <2>1
  <2>. QED  BY <1>6, <1>9, <2>1, <2>4, <2>5, <2>6
<1>12. CASE /\ b # NoBlock
            /\ summary' = [summary EXCEPT ![b] = s]
            /\ list' = [list EXCEPT ![FullList(s)] = @ \cup {b}]
            /\ alloc' = [alloc EXCEPT ![m] = c]
  <2>1. b \in Blocks
    BY <1>3, <1>12
  <2>2. Summaries'
    BY <1>2, <1>5, <1>12, <2>1, OneSummary
  <2>3. Apart' /\ list' \in [Lists -> SUBSET Blocks]
    BY <1>2, <1>5, <1>6, <1>7, <1>8, <1>12, Gives
  <2>4. list'["to_sweep"] = list["to_sweep"]
    BY <1>7, <1>12
  <2>. QED  BY <1>6, <1>9, <1>12, <2>2, <2>3, <2>4
<1>. QED  BY <1>1, <1>10, <1>11, <1>12

LEMMA ReleaseHolesIInv ==
  ASSUME IInv, NEW m \in Mutators, ReleaseHoles(m)
  PROVE  IInv'
<1>. DEFINE p == At(pc[m], "flushed")
            a == Having(alloc[m], {})
<1>1. /\ pc[m].at = "release" /\ UNCHANGED <<phase, collector, evacuating, summary, list>>
      /\ pc' = [pc EXCEPT ![m] = p]
  BY DEF ReleaseHoles, At, Goto, flag_vars, space_vars, gc_vars
<1>2. alloc' = [alloc EXCEPT ![m] = a]
  <2>1. [alloc EXCEPT ![m].holes = {}] = [alloc EXCEPT ![m] = a]
    BY DEF Having
  <2>. QED  BY <2>1 DEF ReleaseHoles
<1>3. Records /\ Apart /\ Summaries /\ MutatorInv(m)
  BY DEF IInv, Records
<1>4. m \in Threads /\ phase \in {"run", "stopping"}
  BY <1>1, MutatorRuns
<1>5. pc[m].size = 0 /\ m # collector /\ alloc[m].block = NoBlock
  BY <1>1, <1>3 DEF MutatorInv
<1>6. /\ IsProcess(p) /\ p.at = "flushed" /\ p.size = 0
      /\ IsAllocator(a) /\ a.block = NoBlock
  <2>1. IsProcess(pc[m]) /\ IsAllocator(alloc[m])
    BY <1>3, <1>4, SameThread
  <2>2. IsProcess(p) /\ p.at = "flushed" /\ p.size = 0
    BY <1>5, <2>1, ProcessWith
  <2>3. IsAllocator(a) /\ a.block = NoBlock
    BY <1>5, <2>1, AllocatorWith
  <2>. QED  BY <2>2, <2>3
<1>. HIDE DEF p, a
<1>7. Threads' = Threads /\ pc'[m] = p
  BY <1>1, <1>3, <1>4, <1>6, OneProcess
<1>8. Held /\ alloc'[m] = a
  BY <1>2, <1>3, <1>4, <1>5, <1>6, OneAllocator DEF Held
<1>9. Apart' /\ list' \in [Lists -> SUBSET Blocks] /\ Summaries'
  BY <1>1, <1>3, <1>7, <1>8, Stays DEF Summaries
<1>10. MutatorInv(m)'
  BY <1>1, <1>4, <1>5, <1>6, <1>7, <1>8 DEF MutatorInv, IsDone
<1>. QED  BY <1>1, <1>2, <1>4, <1>6, <1>9, <1>10, MutatorStep

LEMMA ResumeIInv ==
  ASSUME IInv, NEW m \in Mutators, Resume(m)
  PROVE  IInv'
<1>1. /\ phase = "run" /\ UNCHANGED <<phase, collector, evacuating, summary, list, alloc>>
      /\ pc' = [pc EXCEPT ![m] = Resting]
  BY DEF Resume, Rest, flag_vars, space_vars, gc_vars
<1>2. Records /\ Apart /\ Summaries /\ m \in Threads /\ m # collector
  BY <1>1 DEF IInv, Records, Phases, Mutators
<1>3. /\ IsAllocator(alloc[m]) /\ alloc[m].block \in Blocks \cup {NoBlock}
      /\ alloc = [alloc EXCEPT ![m] = alloc[m]]
  BY <1>2, SameThread
<1>4. IsProcess(Resting) /\ Resting.at = "idle"
  BY RestingIs
<1>5. Threads' = Threads /\ pc'[m] = Resting
  BY <1>1, <1>2, <1>4, OneProcess
<1>6. Apart' /\ list' \in [Lists -> SUBSET Blocks] /\ Summaries'
  BY <1>1, <1>2, <1>5, Stays DEF Held, Summaries
<1>7. MutatorInv(m)'
  BY <1>1, <1>2, <1>4, <1>5 DEF MutatorInv, IsDone
<1>. QED  BY <1>1, <1>3, <1>4, <1>6, <1>7, MutatorStep

\* The collector goes on as a mutator would that looks for a hole.
LEMMA RequestStopIInv ==
  ASSUME IInv, NEW m \in Mutators, RequestStop(m)
  PROVE  IInv'
<1>. DEFINE p == At(pc[m], "hole")
<1>1. /\ phase = "run" /\ pc[m].at = "flushed" /\ phase' = "stopping" /\ collector' = m
      /\ UNCHANGED <<evacuating, summary, list, alloc>>
      /\ pc' = [pc EXCEPT ![m] = p]
  BY DEF RequestStop, At, Goto, flag_vars, space_vars
<1>2. Records /\ Apart /\ Summaries /\ MutatorInv(m) /\ m \in Threads \ Workers /\ Phases
  BY DEF IInv, Records, Mutators
<1>3. IsProcess(p) /\ p.at = "hole" /\ p.size = 0
  <2>1. IsProcess(pc[m]) /\ pc[m].size = 0
    BY <1>1, <1>2, SameThread DEF MutatorInv
  <2>. QED  BY <2>1, ProcessWith
<1>. HIDE DEF p
<1>4. /\ Threads' = Threads /\ Mutators' = Mutators /\ pc'[m] = p
      /\ pc' = [u \in Threads |-> pc'[u]]
      /\ \A u \in Threads : u # m => pc'[u] = pc[u]
      /\ \A u \in Threads : IsProcess(pc'[u])
  BY <1>1, <1>2, <1>3, OneProcess
<1>5. Apart' /\ list' \in [Lists -> SUBSET Blocks] /\ Summaries'
  BY <1>1, <1>2, <1>4, Stays DEF Held, Summaries
<1>6. Records'
  BY <1>1, <1>2, <1>4, <1>5 DEF Records
<1>7. Phases'
  BY <1>1, <1>2, <1>4 DEF Phases
<1>8. MutatorInv(m)'
  BY <1>1, <1>3, <1>4 DEF MutatorInv, IsDone
<1>9. ASSUME NEW u \in Mutators, u # m
      PROVE  MutatorInv(u)'
  <2>1. MutatorInv(u) /\ u \in Threads
    BY DEF IInv, Mutators
  <2>. QED  BY <1>1, <1>4, <1>9, <2>1 DEF MutatorInv
<1>10. ASSUME NEW w \in Workers
       PROVE  WorkerInv(w)'
  <2>1. WorkerInv(w) /\ w \in Threads /\ w # m
    BY <1>2 DEF IInv, Records
  <2>. QED  BY <1>1, <1>4, <2>1 DEF WorkerInv
<1>. QED  BY <1>4, <1>5, <1>6, <1>7, <1>8, <1>9, <1>10 DEF IInv

--------------------------------------------------------------------------------
\* The workers.

\* A worker at work, or with a block, is so during a trace, while partly full blocks
\* are blocks that workers had.
LEMMA WorkerIs ==
  ASSUME IInv, NEW w \in Workers
  PROVE  /\ Records /\ Apart /\ Summaries /\ WorkerInv(w) /\ w \in Threads
         /\ pc[w].at # "idle" => phase = "trace"
         /\ phase = "trace" => \A b \in list["partly_full"] : summary[b].holes = G
         /\ pc = [pc EXCEPT ![w] = pc[w]] /\ IsProcess(pc[w])
         /\ alloc = [alloc EXCEPT ![w] = alloc[w]] /\ IsAllocator(alloc[w])
         /\ alloc[w].block \in Blocks \cup {NoBlock}
         /\ list \in [Lists -> SUBSET Blocks]
<1>1. /\ Records /\ Apart /\ Summaries /\ WorkerInv(w) /\ w \in Threads
      /\ pc[w].at # "idle" => phase = "trace"
      /\ phase = "trace" => \A b \in list["partly_full"] : summary[b].holes = G
      /\ list \in [Lists -> SUBSET Blocks]
  BY DEF IInv, Records, WorkerInv, Phases
<1>. QED  BY <1>1, SameThread

\* A worker that keeps its block goes to another place.
LEMMA WorkerGoes ==
  ASSUME IInv, NEW w \in Workers, phase = "trace",
         NEW p, IsProcess(p), pc' = [pc EXCEPT ![w] = p],
         p.at \in {"partly", "empty"} => alloc[w].block = NoBlock,
         NEW a, IsAllocator(a), a.block = alloc[w].block, alloc' = [alloc EXCEPT ![w] = a],
         UNCHANGED <<summary, list, phase, collector, evacuating>>
  PROVE  IInv'
<1>1. /\ Records /\ Apart /\ Summaries /\ WorkerInv(w) /\ w \in Threads
      /\ \A b \in list["partly_full"] : summary[b].holes = G
      /\ alloc[w].block \in Blocks \cup {NoBlock}
  BY WorkerIs
<1>2. Threads' = Threads /\ pc'[w] = p
  BY <1>1, OneProcess
<1>3. Held /\ alloc'[w] = a
  BY <1>1, OneAllocator DEF Held
<1>4. Apart' /\ list' \in [Lists -> SUBSET Blocks] /\ Summaries'
  BY <1>1, <1>2, <1>3, Stays DEF Summaries
<1>5. WorkerInv(w)'
  BY <1>1, <1>2, <1>3 DEF WorkerInv
<1>. QED  BY <1>1, <1>4, <1>5, WorkerStep

LEMMA MarkObjectIInv ==
  ASSUME IInv, NEW w \in Workers, NEW o, MarkObject(w, o)
  PROVE  IInv'
<1>1. /\ phase = "trace" /\ UNCHANGED <<phase, collector, evacuating, summary, list, alloc>>
      /\ pc' = [pc EXCEPT ![w] = Copying(o)] \/ pc' = pc
  BY DEF MarkObject, Copying, space_vars, gc_vars
<1>2. /\ pc = [pc EXCEPT ![w] = pc[w]] /\ IsProcess(pc[w]) /\ WorkerInv(w)
      /\ alloc = [alloc EXCEPT ![w] = alloc[w]] /\ IsAllocator(alloc[w])
  BY WorkerIs
<1>3. IsProcess(Copying(o)) /\ Copying(o).at = "copy"
  BY RestingIs
<1>4. PICK p : /\ IsProcess(p) /\ pc' = [pc EXCEPT ![w] = p]
               /\ p.at \in {"partly", "empty"} => alloc[w].block = NoBlock
  BY <1>1, <1>2, <1>3 DEF WorkerInv
<1>. QED  BY <1>1, <1>2, <1>4, WorkerGoes

LEMMA CopyIInv ==
  ASSUME IInv, NEW w \in Workers, Copy(w)
  PROVE  IInv'
<1>. DEFINE n == Cardinality(Extent(pc[w].obj))
            a == Room(alloc[w], alloc[w].alloc + n)
<1>1. /\ pc[w].at = "copy" /\ UNCHANGED <<phase, collector, evacuating, summary, list>>
      /\ pc' = [pc EXCEPT ![w] = Resting]
  BY DEF Copy, Rest, space_vars, gc_vars
<1>2. alloc' = [alloc EXCEPT ![w] = a]
  <2>1. \A x : [alloc EXCEPT ![w].alloc = @ + x]
                 = [alloc EXCEPT ![w] = Room(alloc[w], alloc[w].alloc + x)]
    BY DEF Room
  <2>. QED  BY <2>1 DEF Copy
<1>3. phase = "trace" /\ IsAllocator(alloc[w])
  BY <1>1, WorkerIs
<1>4. IsAllocator(a) /\ a.block = alloc[w].block
  BY <1>3, AllocatorWith
<1>5. IsProcess(Resting) /\ Resting.at = "idle"
  BY RestingIs
<1>. HIDE DEF a
<1>. QED  BY <1>1, <1>2, <1>3, <1>4, <1>5, WorkerGoes

\* A worker takes block b, all of whose granules are in holes, from list l.
LEMMA WorkerTakes ==
  ASSUME IInv, NEW w \in Workers, phase = "trace", alloc[w].block = NoBlock,
         NEW l \in Lists \ {"targets"}, NEW b \in list[l],
         list' = [list EXCEPT ![l] = @ \ {b}],
         NEW s, IsSummary(s), s.holes = G, summary' = [summary EXCEPT ![b] = s],
         NEW a, IsAllocator(a), a.block = b, alloc' = [alloc EXCEPT ![w] = a],
         NEW p, IsProcess(p), p.at = "copy", pc' = [pc EXCEPT ![w] = p],
         UNCHANGED <<phase, collector, evacuating>>
  PROVE  IInv'
<1>1. /\ Records /\ Apart /\ Summaries /\ w \in Threads
      /\ \A c \in list["partly_full"] : summary[c].holes = G
      /\ list \in [Lists -> SUBSET Blocks] /\ l \in Lists
      /\ "targets" \in Lists /\ "partly_full" \in Lists
  BY WorkerIs, ListIs
<1>2. b \in Blocks
  BY <1>1
<1>3. Threads' = Threads /\ pc'[w] = p
  BY <1>1, OneProcess
<1>4. alloc'[w] = a
  BY <1>1, <1>2, OneAllocator
<1>5. Summaries' /\ summary'[b] = s /\ \A c \in Blocks : c # b => summary'[c] = summary[c]
  BY <1>1, <1>2, OneSummary
<1>6. Apart' /\ list' \in [Lists -> SUBSET Blocks]
  BY <1>1, <1>3, Takes
<1>7. /\ list'["targets"] = list["targets"]
      /\ list'["partly_full"] \subseteq list["partly_full"]
      /\ list["partly_full"] \subseteq Blocks
  BY <1>1
<1>8. /\ \A c \in Blocks : summary'[c].holes \in {summary[c].holes, G}
      /\ \A c \in list'["partly_full"] : summary'[c].holes = G
  BY <1>1, <1>5, <1>7
<1>9. WorkerInv(w)'
  BY <1>3, <1>4, <1>5 DEF WorkerInv
<1>. QED  BY <1>2, <1>5, <1>6, <1>7, <1>8, <1>9, WorkerStep

LEMMA PartlyFullTargetIInv ==
  ASSUME IInv, NEW w \in Workers, PartlyFullTarget(w)
  PROVE  IInv'
<1>. DEFINE p == At(pc[w], "empty")
            c == At(pc[w], "copy")
            s(b) == Fragmented(summary[b], 0)
<1>1. /\ pc[w].at = "partly" /\ UNCHANGED <<phase, collector, evacuating>>
      /\ \/ pc' = [pc EXCEPT ![w] = p] /\ UNCHANGED <<summary, list, alloc>>
         \/ \E b \in list["partly_full"] :
              /\ alloc' = [alloc EXCEPT ![w] = Taken(w, b)]
              /\ summary' = [summary EXCEPT ![b] = s(b)]
              /\ list' = [list EXCEPT !["partly_full"] = @ \ {b}]
              /\ pc' = [pc EXCEPT ![w] = c]
  <2>1. \A b : [summary EXCEPT ![b].fragments = 0] = [summary EXCEPT ![b] = s(b)]
    BY DEF Fragmented
  <2>. HIDE DEF s
  <2>. QED  BY <2>1 DEF PartlyFullTarget, Goto, Pop, At, space_vars, gc_vars
<1>2. /\ Summaries /\ WorkerInv(w) /\ phase = "trace" /\ IsProcess(pc[w])
      /\ IsAllocator(alloc[w]) /\ alloc = [alloc EXCEPT ![w] = alloc[w]]
      /\ \A b \in list["partly_full"] : summary[b].holes = G
      /\ list \in [Lists -> SUBSET Blocks]
  BY <1>1, WorkerIs
<1>3. alloc[w].block = NoBlock
  BY <1>1, <1>2 DEF WorkerInv
<1>4. IsProcess(p) /\ IsProcess(c) /\ c.at = "copy"
  BY <1>2, ProcessWith
<1>5. "partly_full" \in Lists \ {"targets"}
  BY ListIs
<1>6. ASSUME NEW b \in list["partly_full"]
      PROVE  /\ IsSummary(s(b)) /\ s(b).holes = G
             /\ IsAllocator(Taken(w, b)) /\ Taken(w, b).block = b
  <2>1. IsSummary(summary[b]) /\ summary[b].holes = G
    BY <1>2, <1>5 DEF Summaries
  <2>2. Taken(w, b) = With(alloc[w], b, G - summary[b].fragments, G)
    BY DEF Taken, With
  <2>3. IsSummary(s(b)) /\ s(b).holes = G
    BY <2>1, SummaryWith
  <2>4. IsAllocator(Taken(w, b)) /\ Taken(w, b).block = b
    BY <1>2, <2>2, AllocatorWith
  <2>. QED  BY <2>3, <2>4
<1>. HIDE DEF p, c, s
<1>7. CASE pc' = [pc EXCEPT ![w] = p] /\ UNCHANGED <<summary, list, alloc>>
  BY <1>1, <1>2, <1>3, <1>4, <1>7, WorkerGoes
<1>8. ASSUME NEW b \in list["partly_full"],
             alloc' = [alloc EXCEPT ![w] = Taken(w, b)],
             summary' = [summary EXCEPT ![b] = s(b)],
             list' = [list EXCEPT !["partly_full"] = @ \ {b}],
             pc' = [pc EXCEPT ![w] = c]
      PROVE  IInv'
  <2>1. /\ phase = "trace" /\ alloc[w].block = NoBlock /\ IsProcess(c) /\ c.at = "copy"
        /\ UNCHANGED <<phase, collector, evacuating>>
    BY <1>1, <1>2, <1>3, <1>4
  <2>2. /\ IsSummary(s(b)) /\ s(b).holes = G
        /\ IsAllocator(Taken(w, b)) /\ Taken(w, b).block = b
    BY <1>6
  <2>. QED  BY <1>5, <1>8, <2>1, <2>2, WorkerTakes
<1>. QED  BY <1>1, <1>7, <1>8

\* A worker gives its block to list l.
LEMMA WorkerGives ==
  ASSUME IInv, NEW w \in Workers, phase = "trace",
         NEW b, alloc[w].block = b, b # NoBlock, NEW l \in Lists \ {"targets"},
         list' = [list EXCEPT ![l] = @ \cup {b}],
         NEW s, IsSummary(s), s.holes = G, summary' = [summary EXCEPT ![b] = s],
         alloc' = [alloc EXCEPT ![w] = Reset(alloc[w])],
         NEW p, IsProcess(p), pc' = [pc EXCEPT ![w] = p],
         UNCHANGED <<phase, collector, evacuating>>
  PROVE  IInv'
<1>. DEFINE a == Reset(alloc[w])
<1>1. /\ Records /\ Apart /\ Summaries /\ w \in Threads
      /\ \A c \in list["partly_full"] : summary[c].holes = G
      /\ list \in [Lists -> SUBSET Blocks] /\ l \in Lists
      /\ "targets" \in Lists /\ "partly_full" \in Lists
      /\ IsAllocator(alloc[w]) /\ b \in Blocks
  BY WorkerIs, ListIs
<1>2. IsAllocator(a) /\ a.block = NoBlock
  BY <1>1, AllocatorWith
<1>. HIDE DEF a
<1>3. Threads' = Threads /\ pc'[w] = p
  BY <1>1, OneProcess
<1>4. alloc' = [alloc EXCEPT ![w] = a]
  BY DEF a
<1>5. alloc'[w] = a
  BY <1>1, <1>2, <1>4, OneAllocator
<1>6. Summaries' /\ summary'[b] = s /\ \A c \in Blocks : c # b => summary'[c] = summary[c]
  BY <1>1, OneSummary
<1>7. Apart' /\ list' \in [Lists -> SUBSET Blocks]
  BY <1>1, <1>2, <1>3, <1>4, Gives
<1>8. /\ list'["targets"] = list["targets"]
      /\ list'["partly_full"] \subseteq list["partly_full"] \cup {b}
      /\ list["partly_full"] \subseteq Blocks
  BY <1>1
<1>9. /\ \A c \in Blocks : summary'[c].holes \in {summary[c].holes, G}
      /\ \A c \in list'["partly_full"] : summary'[c].holes = G
  BY <1>1, <1>6, <1>8
<1>10. WorkerInv(w)'
  BY <1>2, <1>5 DEF WorkerInv
<1>. QED  BY <1>2, <1>4, <1>6, <1>7, <1>8, <1>9, <1>10, WorkerStep

\* It gives it to the old blocks.
LEMMA WorkerRetires ==
  ASSUME IInv, NEW w \in Workers, phase = "trace", alloc[w].block # NoBlock,
         Push("old", alloc[w].block), summary' = summary,
         alloc' = [alloc EXCEPT ![w] = Reset(alloc[w])],
         NEW p, IsProcess(p), pc' = [pc EXCEPT ![w] = p],
         UNCHANGED <<phase, collector, evacuating>>
  PROVE  IInv'
<1>. DEFINE b == alloc[w].block
            s == summary[b]
<1>1. Summaries /\ WorkerInv(w) /\ b \in Blocks
  BY WorkerIs
<1>2. IsSummary(s) /\ s.holes = G /\ summary' = [summary EXCEPT ![b] = s]
  BY <1>1 DEF Summaries, WorkerInv
<1>3. list' = [list EXCEPT !["old"] = @ \cup {b}] /\ "old" \in Lists \ {"targets"}
  BY ListIs DEF Push
<1>4. alloc[w].block = b /\ b # NoBlock
  OBVIOUS
<1>. HIDE DEF b, s
<1>. QED  BY <1>2, <1>3, <1>4, WorkerGives

LEMMA ReleaseTargetIInv ==
  ASSUME IInv, NEW w \in Workers, ReleaseTarget(w)
  PROVE  IInv'
<1>. DEFINE p == At(pc[w], "partly")
<1>1. /\ pc[w].at = "copy" /\ UNCHANGED <<phase, collector, evacuating, summary>>
      /\ pc' = [pc EXCEPT ![w] = p]
      /\ \/ alloc[w].block = NoBlock /\ UNCHANGED <<list, alloc>>
         \/ /\ alloc[w].block # NoBlock /\ Push("old", alloc[w].block)
            /\ alloc' = [alloc EXCEPT ![w] = Reset(alloc[w])]
  BY DEF ReleaseTarget, At, Goto, flag_vars, space_vars, gc_vars
<1>2. /\ phase = "trace" /\ IsProcess(pc[w])
      /\ alloc = [alloc EXCEPT ![w] = alloc[w]] /\ IsAllocator(alloc[w])
  BY <1>1, WorkerIs
<1>3. IsProcess(p)
  BY <1>2, ProcessWith
<1>. HIDE DEF p
<1>4. CASE alloc[w].block = NoBlock /\ UNCHANGED <<list, alloc>>
  BY <1>1, <1>2, <1>3, <1>4, WorkerGoes
<1>5. CASE /\ alloc[w].block # NoBlock /\ Push("old", alloc[w].block)
           /\ alloc' = [alloc EXCEPT ![w] = Reset(alloc[w])]
  BY <1>1, <1>2, <1>3, <1>5, WorkerRetires
<1>. QED  BY <1>1, <1>4, <1>5

LEMMA EmptyTargetIInv ==
  ASSUME IInv, NEW w \in Workers, EmptyTarget(w)
  PROVE  IInv'
<1>. DEFINE c == At(pc[w], "copy")
            s == [holes |-> G, pieces |-> 0, fragments |-> 0]
            a(b) == With(alloc[w], b, 0, G)
<1>1. /\ pc[w].at = "empty" /\ UNCHANGED <<phase, collector, evacuating>>
      /\ \/ \E b \in list["empty"] :
              /\ list' = [list EXCEPT !["empty"] = @ \ {b}]
              /\ summary' = [summary EXCEPT ![b] = s]
              /\ alloc' = [alloc EXCEPT ![w] = a(b)]
              /\ pc' = [pc EXCEPT ![w] = c]
         \/ pc' = [pc EXCEPT ![w] = Resting] /\ UNCHANGED <<summary, list, alloc>>
  BY DEF EmptyTarget, AcquireEmpty, At, With, Goto, Rest, Pop, space_vars, gc_vars
<1>2. /\ WorkerInv(w) /\ phase = "trace" /\ IsProcess(pc[w])
      /\ alloc = [alloc EXCEPT ![w] = alloc[w]] /\ IsAllocator(alloc[w])
  BY <1>1, WorkerIs
<1>3. alloc[w].block = NoBlock
  BY <1>1, <1>2 DEF WorkerInv
<1>4. IsProcess(c) /\ c.at = "copy"
  BY <1>2, ProcessWith
<1>5. \A b : IsAllocator(a(b)) /\ a(b).block = b
  <2>1. IsAllocator(alloc[w])
    BY <1>2
  <2>. QED  BY <2>1, AllocatorWith
<1>6. IsSummary(s) /\ s.holes = G
  BY DEF IsSummary
<1>7. "empty" \in Lists \ {"targets"}
  BY ListIs
<1>. HIDE DEF c, s, a
<1>8. CASE pc' = [pc EXCEPT ![w] = Resting] /\ UNCHANGED <<summary, list, alloc>>
  <2>1. IsProcess(Resting) /\ Resting.at = "idle"
    BY RestingIs
  <2>. QED  BY <1>1, <1>2, <1>8, <2>1, WorkerGoes
<1>9. ASSUME NEW b \in list["empty"],
             list' = [list EXCEPT !["empty"] = @ \ {b}],
             summary' = [summary EXCEPT ![b] = s],
             alloc' = [alloc EXCEPT ![w] = a(b)],
             pc' = [pc EXCEPT ![w] = c]
      PROVE  IInv'
  <2>1. phase = "trace" /\ UNCHANGED <<phase, collector, evacuating>>
    BY <1>1, <1>2
  <2>2. IsAllocator(a(b)) /\ a(b).block = b
    BY <1>5
  <2>. QED  BY <1>3, <1>4, <1>6, <1>7, <1>9, <2>1, <2>2, WorkerTakes
<1>. QED  BY <1>1, <1>8, <1>9

LEMMA FinishWorkerIInv ==
  ASSUME IInv, NEW w \in Workers, FinishWorker(w)
  PROVE  IInv'
<1>. DEFINE b == alloc[w].block
<1>1. /\ phase = "trace" /\ b # NoBlock
      /\ UNCHANGED <<phase, collector, evacuating, pc>>
      /\ \/ ReleasePartlyFull(w)
         \/ /\ Push("old", b) /\ summary' = summary
            /\ alloc' = [alloc EXCEPT ![w] = Reset(alloc[w])]
  BY DEF FinishWorker, space_vars, gc_vars
<1>2. /\ Summaries /\ WorkerInv(w) /\ b \in Blocks
      /\ pc = [pc EXCEPT ![w] = pc[w]] /\ IsProcess(pc[w])
  BY <1>1, WorkerIs
<1>3. CASE ReleasePartlyFull(w)
  <2>1. /\ alloc' = [alloc EXCEPT ![w] = Reset(alloc[w])]
        /\ list' = [list EXCEPT !["partly_full"] = @ \cup {b}]
        /\ \E x : summary' = [summary EXCEPT ![b] = Fragmented(summary[b], x)]
    BY <1>3, ReleasePartlyFullIs
  <2>2. PICK x : summary' = [summary EXCEPT ![b] = Fragmented(summary[b], x)]
    BY <2>1
  <2>. DEFINE s == Fragmented(summary[b], x)
  <2>3. IsSummary(summary[b]) /\ summary[b].holes = G
    BY <1>1, <1>2 DEF Summaries, WorkerInv
  <2>4. IsSummary(s) /\ s.holes = G /\ summary' = [summary EXCEPT ![b] = s]
    BY <2>2, <2>3, SummaryWith
  <2>5. "partly_full" \in Lists \ {"targets"}
    BY ListIs
  <2>6. alloc[w].block = b /\ b # NoBlock
    BY <1>1
  <2>. HIDE DEF s, b
  <2>. QED  BY <1>1, <1>2, <2>1, <2>4, <2>5, <2>6, WorkerGives
<1>4. CASE /\ Push("old", b) /\ summary' = summary
           /\ alloc' = [alloc EXCEPT ![w] = Reset(alloc[w])]
  <2>1. pc' = [pc EXCEPT ![w] = pc[w]]
    BY <1>1, <1>2
  <2>. QED  BY <1>1, <1>2, <1>4, <2>1, WorkerRetires
<1>. QED  BY <1>1, <1>3, <1>4


--------------------------------------------------------------------------------
\* The collection.

LEMMA QuietIInv ==
  ASSUME IInv, UNCHANGED <<pc, alloc, list, summary, phase, collector, evacuating>>
  PROVE  IInv'
<1>1. Threads' = Threads /\ Mutators' = Mutators
  BY DEF Threads, Mutators
<1>2. Records' /\ Apart' /\ Phases'
  BY <1>1 DEF IInv, Records, Summaries, Apart, Phases
<1>3. \A m \in Mutators : MutatorInv(m)'
  BY DEF IInv, MutatorInv
<1>4. \A w \in Workers : WorkerInv(w)'
  BY DEF IInv, WorkerInv
<1>. QED  BY <1>1, <1>2, <1>3, <1>4 DEF IInv

\* All mutators have stopped, so that nothing is left to sweep.
LEMMA PrepareIInv ==
  ASSUME IInv, NEW k, nofl_space_prepare_gc(k)
  PROVE  IInv'
<1>1. /\ phase = "stopping" /\ pc[collector].at = "nospace"
      /\ \A m \in Mutators \ {collector} : pc[m].at = "flushed"
      /\ phase' = "pinned" /\ UNCHANGED <<pc, alloc, list, summary, collector, evacuating>>
  BY DEF nofl_space_prepare_gc, Stopped
<1>2. Records /\ Apart /\ Phases /\ collector \in Mutators /\ MutatorInv(collector)
  BY <1>1 DEF IInv, Phases
<1>3. Threads' = Threads /\ Mutators' = Mutators
  BY <1>1 DEF Threads, Mutators
<1>4. Records' /\ Apart'
  BY <1>1, <1>2, <1>3 DEF Records, Summaries, Apart
<1>5. Phases'
  BY <1>1, <1>2, <1>3 DEF Phases, MutatorInv
<1>6. ASSUME NEW m \in Mutators
      PROVE  MutatorInv(m)'
  <2>1. MutatorInv(m)
    BY DEF IInv
  <2>. QED  BY <1>1, <2>1 DEF MutatorInv, IsDone
<1>7. ASSUME NEW w \in Workers
      PROVE  WorkerInv(w)'
  <2>1. WorkerInv(w)
    BY DEF IInv
  <2>. QED  BY <1>1, <2>1 DEF WorkerInv
<1>. QED  BY <1>3, <1>4, <1>5, <1>6, <1>7 DEF IInv

\* Block b of list k goes to list f[b][k].
LEMMA Sorts ==
  ASSUME Records, Apart, Held, Threads' = Threads, list' \in [Lists -> SUBSET Blocks],
         NEW f, \A b \in Blocks, k \in Lists : f[b][k] \in Lists,
         \A b \in Blocks, l \in Lists :
           b \in list'[l] <=> \E k \in Lists : b \in list[k] /\ f[b][k] = l
  PROVE  Apart'
<1>1. list \in [Lists -> SUBSET Blocks]
  BY DEF Records
<1>2. ASSUME NEW k \in Lists, NEW l \in Lists, k # l, NEW b \in Blocks
      PROVE  ~(b \in list'[k] /\ b \in list'[l])
  <2>1. SUFFICES ASSUME b \in list'[k], b \in list'[l]
                 PROVE  FALSE
    OBVIOUS
  <2>2. PICK i \in Lists : b \in list[i] /\ f[b][i] = k
    BY <2>1
  <2>3. PICK j \in Lists : b \in list[j] /\ f[b][j] = l
    BY <2>1
  <2>4. i = j
    BY <2>2, <2>3 DEF Apart
  <2>. QED  BY <1>2, <2>2, <2>3, <2>4
<1>3. \A k, l \in Lists : k # l => list'[k] \cap list'[l] = {}
  BY <1>2
<1>4. \A u, v \in Threads :
        alloc'[u].block = alloc'[v].block /\ alloc'[u].block # NoBlock => u = v
  BY DEF Apart, Held
<1>5. ASSUME NEW l \in Lists, NEW u \in Threads
      PROVE  alloc'[u].block \notin list'[l]
  <2>1. alloc'[u].block = alloc[u].block
    BY DEF Held
  <2>2. \A k \in Lists : alloc[u].block \notin list[k]
    BY DEF Apart
  <2>. QED  BY <2>1, <2>2
<1>6. ASSUME NEW b \in Blocks
      PROVE  \/ \E l \in Lists : b \in list'[l]
             \/ \E u \in Threads : alloc'[u].block = b
  <2>1. CASE \E k \in Lists : b \in list[k]
    BY <2>1
  <2>2. CASE \E u \in Threads : alloc[u].block = b
    BY <2>2 DEF Held
  <2>. QED  BY <2>1, <2>2 DEF Apart
<1>. QED  BY <1>3, <1>4, <1>5, <1>6 DEF Apart

\* Blocks are to be swept, and the targets of an evacuation are empty blocks.
LEMMA StartIs ==
  ASSUME IInv, nofl_space_start_gc
  PROVE  /\ Apart' /\ list' \in [Lists -> SUBSET Blocks]
         /\ list'["partly_full"] = {}
         /\ kind = "compacting" => list'["targets"] = {}
<1>. DEFINE S == Sources(kind)
            moved == UNION {list[l] : l \in S}
            spare == list["empty"] \cup list["targets"]
            g == [k \in Lists |-> IF k \in S THEN "to_sweep"
                                  ELSE IF kind = "compacting" /\ k = "targets" THEN "empty"
                                  ELSE k]
            f == [b \in Blocks |-> g]
            started == [l \in Lists |-> IF l \in S THEN {}
                                        ELSE IF l = "to_sweep" THEN list[l] \cup moved
                                        ELSE list[l]]
<1>1. /\ Records /\ Apart /\ list \in [Lists -> SUBSET Blocks]
      /\ UNCHANGED <<pc, alloc>> /\ Threads' = Threads /\ Held
      /\ list' = IF kind = "compacting"
                 THEN [started EXCEPT !["empty"] = spare, !["targets"] = {}] ELSE started
  BY DEF IInv, Records, nofl_space_start_gc, Threads, Held
<1>2. /\ S \subseteq Lists \ {"empty", "to_sweep", "targets"} /\ "partly_full" \in S
      /\ {"empty", "to_sweep", "targets"} \subseteq Lists
  BY DEF Sources, Lists
<1>. HIDE DEF S
<1>3. /\ \A l \in Lists : started[l] = IF l \in S THEN {}
                                       ELSE IF l = "to_sweep" THEN list[l] \cup moved
                                       ELSE list[l]
      /\ started \in [Lists -> SUBSET Blocks]
  BY <1>1, <1>2
<1>. HIDE DEF started
<1>4. /\ list' \in [Lists -> SUBSET Blocks]
      /\ \A l \in Lists : list'[l] =
           IF l \in S \/ (kind = "compacting" /\ l = "targets") THEN {}
           ELSE IF l = "to_sweep" THEN list[l] \cup moved
           ELSE IF kind = "compacting" /\ l = "empty" THEN spare
           ELSE list[l]
  <2>1. CASE kind = "compacting"
    BY <1>1, <1>2, <1>3, <2>1
  <2>2. CASE kind # "compacting"
    BY <1>1, <1>2, <1>3, <2>2
  <2>. QED  BY <2>1, <2>2
<1>5. \A k \in Lists : /\ g[k] \in Lists
                       /\ g[k] = IF k \in S THEN "to_sweep"
                                 ELSE IF kind = "compacting" /\ k = "targets" THEN "empty"
                                 ELSE k
  BY <1>2
<1>6. \A b \in Blocks : f[b] = g
  OBVIOUS
<1>. HIDE DEF g, f
<1>7. ASSUME NEW b \in Blocks, NEW l \in Lists
      PROVE  b \in list'[l] <=> \E k \in Lists : b \in list[k] /\ g[k] = l
  <2>1. CASE l \in S \/ (kind = "compacting" /\ l = "targets")
    BY <1>2, <1>4, <1>5, <2>1
  <2>2. CASE l = "to_sweep"
    BY <1>2, <1>4, <1>5, <2>2
  <2>3. CASE kind = "compacting" /\ l = "empty"
    BY <1>2, <1>4, <1>5, <2>3
  <2>4. CASE /\ l \notin S /\ l # "to_sweep"
             /\ kind = "compacting" => l \notin {"targets", "empty"}
    BY <1>2, <1>4, <1>5, <2>4
  <2>. QED  BY <2>1, <2>2, <2>3, <2>4
<1>8. Apart'
  <2>1. \A b \in Blocks, k \in Lists : f[b][k] \in Lists
    BY <1>5, <1>6
  <2>2. \A b \in Blocks, l \in Lists :
          b \in list'[l] <=> \E k \in Lists : b \in list[k] /\ f[b][k] = l
    BY <1>6, <1>7
  <2>. QED  BY <1>1, <1>4, <2>1, <2>2, Sorts
<1>9. list'["partly_full"] = {} /\ (kind = "compacting" => list'["targets"] = {})
  BY <1>2, <1>4
<1>. QED  BY <1>4, <1>8, <1>9

LEMMA StartIInv ==
  ASSUME IInv, nofl_space_start_gc
  PROVE  IInv'
<1>1. /\ phase = "pinned" /\ phase' = "trace" /\ UNCHANGED <<pc, alloc, summary, collector>>
      /\ evacuating' => kind = "compacting" \/ evacuating
  BY DEF nofl_space_start_gc
<1>2. /\ Apart' /\ list' \in [Lists -> SUBSET Blocks]
      /\ list'["partly_full"] = {}
      /\ kind = "compacting" => list'["targets"] = {}
  BY StartIs
<1>3. Records /\ Phases
  BY DEF IInv
<1>4. Threads' = Threads /\ Mutators' = Mutators
  BY <1>1 DEF Threads, Mutators
<1>5. Records'
  BY <1>1, <1>2, <1>3, <1>4 DEF Records, Summaries
<1>6. Phases'
  BY <1>1, <1>2, <1>3, <1>4 DEF Phases
<1>7. ASSUME NEW m \in Mutators
      PROVE  MutatorInv(m)'
  <2>1. MutatorInv(m)
    BY DEF IInv
  <2>. QED  BY <1>1, <2>1 DEF MutatorInv
<1>8. ASSUME NEW w \in Workers
      PROVE  WorkerInv(w)'
  <2>1. WorkerInv(w)
    BY DEF IInv
  <2>. QED  BY <1>1, <2>1 DEF WorkerInv
<1>. QED  BY <1>2, <1>4, <1>5, <1>6, <1>7, <1>8 DEF IInv

\* Blocks in which nothing was marked are empty, or targets of the next evacuation.
LEMMA FinishIs ==
  ASSUME IInv, nofl_space_finish_gc
  PROVE  Apart' /\ list' \in [Lists -> SUBSET Blocks]
<1>. DEFINE dead == list["to_sweep"] \ marked
<1>1. PICK T \in TargetsAfter(dead) :
        list' = [list EXCEPT
          !["targets"] = T, !["empty"] = (@ \cup list["targets"] \cup dead) \ T,
          !["to_sweep"] = @ \cap marked, !["promoted"] = {}, !["old"] = @ \cup list["promoted"]]
  BY DEF nofl_space_finish_gc
<1>2. T \subseteq list["empty"] \cup list["targets"] \cup dead
  BY DEF TargetsAfter, kSubset
<1>3. /\ Records /\ Apart /\ Phases /\ list \in [Lists -> SUBSET Blocks]
      /\ alloc' = alloc /\ phase = "trace" /\ Rest(collector)
  BY DEF IInv, Records, nofl_space_finish_gc, Traced
<1>4. collector \in Threads
  BY <1>3 DEF Phases, Mutators
<1>5. Threads' = Threads /\ Held
  BY <1>3, <1>4, OneProcess, RestingIs DEF Rest, Held
<1>6. /\ {"empty", "to_sweep", "promoted", "old", "targets"} \subseteq Lists
      /\ list["to_sweep"] \subseteq Blocks /\ list["empty"] \subseteq Blocks
      /\ list["targets"] \subseteq Blocks /\ list["promoted"] \subseteq Blocks
  BY <1>3, ListIs
<1>7. /\ list' \in [Lists -> SUBSET Blocks]
      /\ \A l \in Lists : list'[l] =
           CASE l = "targets" -> T
             [] l = "empty" -> (list["empty"] \cup list["targets"] \cup dead) \ T
             [] l = "to_sweep" -> list[l] \cap marked
             [] l = "promoted" -> {}
             [] l = "old" -> list[l] \cup list["promoted"]
             [] OTHER -> list[l]
  BY <1>1, <1>2, <1>3, <1>6
<1>. DEFINE Spare(b, k) == k \in {"empty", "targets"} \/ (k = "to_sweep" /\ b \notin marked)
            f == [b \in Blocks |-> [k \in Lists |->
                    IF Spare(b, k) THEN IF b \in T THEN "targets" ELSE "empty"
                    ELSE IF k = "promoted" THEN "old" ELSE k]]
<1>8. \A b \in Blocks, k \in Lists :
        /\ f[b][k] \in Lists
        /\ f[b][k] = IF Spare(b, k) THEN IF b \in T THEN "targets" ELSE "empty"
                     ELSE IF k = "promoted" THEN "old" ELSE k
  BY <1>6
<1>. HIDE DEF f
<1>9. ASSUME NEW b \in Blocks, NEW l \in Lists
      PROVE  b \in list'[l] <=> \E k \in Lists : b \in list[k] /\ f[b][k] = l
  <2>1. CASE l = "targets"
    <3>1. list'[l] = T
      BY <1>7, <2>1
    <3>2. b \in T => \E k \in Lists : b \in list[k] /\ Spare(b, k)
      BY <1>2, <1>6
    <3>. QED  BY <1>8, <2>1, <3>1, <3>2
  <2>2. CASE l = "empty"
    <3>1. list'[l] = (list["empty"] \cup list["targets"] \cup dead) \ T
      BY <1>7, <2>2
    <3>. QED  BY <1>6, <1>8, <2>2, <3>1
  <2>3. CASE l = "to_sweep"
    <3>1. list'["to_sweep"] = list["to_sweep"] \cap marked
      BY <1>6, <1>7
    <3>2. \A k \in Lists : f[b][k] = "to_sweep" <=> k = "to_sweep" /\ b \in marked
      BY <1>8
    <3>. QED  BY <1>6, <2>3, <3>1, <3>2
  <2>4. CASE l \in {"promoted", "old"}
    BY <1>6, <1>7, <1>8, <2>4
  <2>5. CASE l \notin {"targets", "empty", "to_sweep", "promoted", "old"}
    <3>1. list'[l] = list[l]
      BY <1>7, <2>5
    <3>. QED  BY <1>6, <1>8, <2>5, <3>1
  <2>. QED  BY <2>1, <2>2, <2>3, <2>4, <2>5
<1>. QED  BY <1>3, <1>5, <1>7, <1>8, <1>9, Sorts

LEMMA FinishIInv ==
  ASSUME IInv, nofl_space_finish_gc
  PROVE  IInv'
<1>1. /\ phase = "trace" /\ phase' = "run" /\ collector' = NoOne /\ evacuating' = FALSE
      /\ UNCHANGED <<alloc, summary>> /\ pc' = [pc EXCEPT ![collector] = Resting]
      /\ \A w \in Workers : pc[w].at = "idle" /\ alloc[w].block = NoBlock
  BY DEF nofl_space_finish_gc, Traced, Rest, flag_vars
<1>2. Apart' /\ list' \in [Lists -> SUBSET Blocks]
  BY FinishIs
<1>3. Records /\ collector \in Threads \ Workers
  BY <1>1 DEF IInv, Phases, Mutators
<1>4. IsProcess(Resting) /\ Resting.at = "idle"
  BY RestingIs
<1>5. /\ Threads' = Threads /\ Mutators' = Mutators /\ pc'[collector] = Resting
      /\ pc' = [u \in Threads |-> pc'[u]]
      /\ \A u \in Threads : u # collector => pc'[u] = pc[u]
      /\ \A u \in Threads : IsProcess(pc'[u])
  BY <1>1, <1>3, <1>4, OneProcess
<1>6. Records'
  BY <1>1, <1>2, <1>3, <1>5 DEF Records, Summaries
<1>7. Phases'
  BY <1>1, <1>5 DEF Phases
<1>8. ASSUME NEW m \in Mutators
      PROVE  MutatorInv(m)'
  <2>1. MutatorInv(m) /\ m \in Threads /\ m # NoOne
    BY <1>3 DEF IInv, Records, Mutators
  <2>2. CASE m = collector
    BY <1>1, <1>4, <1>5, <2>1, <2>2 DEF MutatorInv
  <2>3. CASE m # collector
    BY <1>1, <1>5, <2>1, <2>3 DEF MutatorInv
  <2>. QED  BY <2>2, <2>3
<1>9. ASSUME NEW w \in Workers
      PROVE  WorkerInv(w)'
  <2>1. w \in Threads /\ w # collector
    BY <1>3 DEF Records
  <2>. QED  BY <1>1, <1>5, <2>1 DEF WorkerInv
<1>. QED  BY <1>2, <1>5, <1>6, <1>7, <1>8, <1>9 DEF IInv

--------------------------------------------------------------------------------
\* Every block has one owner.

LEMMA InitIInv == Init => IInv
<1>. SUFFICES ASSUME Init
              PROVE  IInv
  OBVIOUS
<1>. DEFINE none == [block |-> NoBlock, alloc |-> 0, sweep |-> 0, holes |-> {}]
            zeros == [holes |-> 0, pieces |-> 0, fragments |-> 0]
<1>1. PICK spare \in kSubset(MinReserve, Blocks), team \in Teams :
        /\ summary = [b \in Blocks |-> zeros]
        /\ list = [l \in Lists |-> CASE l = "empty" -> Blocks \ spare
                                     [] l = "targets" -> spare [] OTHER -> {}]
        /\ alloc = [t \in team \cup Workers |-> none]
        /\ pc = [t \in team \cup Workers |-> Resting]
        /\ phase = "run" /\ collector = NoOne /\ evacuating = FALSE
  BY DEF Init
<1>2. spare \subseteq Blocks /\ NoOne \notin team /\ NoBlock \notin Blocks
  BY NoflAssumption DEF kSubset
<1>3. IsAllocator(none) /\ none.block = NoBlock /\ IsSummary(zeros)
  BY DEF IsAllocator, IsSummary
<1>4. IsProcess(Resting) /\ Resting.at = "idle"
  BY RestingIs
<1>. HIDE DEF none, zeros
<1>5. Threads = team \cup Workers
  BY <1>1 DEF Threads
<1>6. /\ list \in [Lists -> SUBSET Blocks]
      /\ list["empty"] = Blocks \ spare /\ list["targets"] = spare
      /\ \A l \in Lists \ {"empty", "targets"} : list[l] = {}
      /\ {"empty", "targets", "to_sweep", "partly_full"} \subseteq Lists
  BY <1>1, <1>2, ListIs
<1>7. Summaries
  BY <1>1, <1>3 DEF Summaries
<1>8. \A t \in Threads : pc[t] = Resting /\ alloc[t] = none
  BY <1>1, <1>5
<1>9. Records
  BY <1>1, <1>2, <1>3, <1>4, <1>5, <1>6, <1>7, <1>8 DEF Records, Mutators
<1>10. Apart
  <2>1. \A k, l \in Lists : k # l => list[k] \cap list[l] = {}
    BY <1>6
  <2>2. \A b \in Blocks : \E l \in Lists : b \in list[l]
    BY <1>6
  <2>3. \A l \in Lists, t \in Threads : alloc[t].block \notin list[l]
    BY <1>2, <1>3, <1>6, <1>8
  <2>. QED  BY <1>3, <1>8, <2>1, <2>2, <2>3 DEF Apart
<1>11. Phases
  BY <1>1 DEF Phases
<1>12. \A m \in Mutators : MutatorInv(m)
  BY <1>1, <1>4, <1>8, <1>9 DEF MutatorInv, Records, Mutators
<1>13. \A w \in Workers : WorkerInv(w)
  BY <1>3, <1>4, <1>8, <1>9 DEF WorkerInv, Records
<1>. QED  BY <1>9, <1>10, <1>11, <1>12, <1>13 DEF IInv

LEMMA NextIInv == IInv /\ [Next]_vars => IInv'
<1>. SUFFICES ASSUME IInv, [Next]_vars
              PROVE  IInv'
  OBVIOUS
<1>1. ASSUME NEW m \in Mutators, NEW n \in Sizes, Allocate(m, n)
      PROVE  IInv'
  BY <1>1, AllocateIInv
<1>2. ASSUME NEW m \in Mutators,
             \/ nofl_allocate_bump_pointer(m) \/ SweepOn(m) \/ SecondChance(m)
             \/ Sweep(m) \/ PartlyFull(m) \/ Empty(m)
      PROVE  IInv'
  BY <1>2, BumpIInv, SweepOnIInv, SecondChanceIInv, SweepIInv, PartlyFullIInv, EmptyIInv
<1>3. ASSUME NEW m \in Mutators,
             ReleaseBlock(m) \/ ReleaseHoles(m) \/ Resume(m) \/ RequestStop(m)
      PROVE  IInv'
  BY <1>3, ReleaseBlockIInv, ReleaseHolesIInv, ResumeIInv, RequestStopIInv
<1>4. ASSUME NEW w \in Workers, NEW o \in held, MarkObject(w, o)
      PROVE  IInv'
  BY <1>4, MarkObjectIInv
<1>5. ASSUME NEW w \in Workers,
             \/ Copy(w) \/ ReleaseTarget(w) \/ PartlyFullTarget(w) \/ EmptyTarget(w)
             \/ FinishWorker(w)
      PROVE  IInv'
  BY <1>5, CopyIInv, ReleaseTargetIInv, PartlyFullTargetIInv, EmptyTargetIInv, FinishWorkerIInv
<1>6. ASSUME NEW o \in held, DropObject(o) \/ MarkPinned(o)
      PROVE  IInv'
  BY <1>6, QuietIInv DEF DropObject, MarkPinned, flag_vars, space_vars, gc_vars
<1>7. ASSUME NEW k \in Kinds, nofl_space_prepare_gc(k)
      PROVE  IInv'
  BY <1>7, PrepareIInv
<1>8. CASE nofl_space_start_gc
  BY <1>8, StartIInv
<1>9. CASE nofl_space_finish_gc
  BY <1>9, FinishIInv
<1>10. CASE UNCHANGED vars
  BY <1>10, QuietIInv DEF vars, flag_vars, space_vars, gc_vars
<1>. QED
  BY <1>1, <1>2, <1>3, <1>4, <1>5, <1>6, <1>7, <1>8, <1>9, <1>10
     DEF Next, Mutate, Evacuate, Collect

\* The invariant that blocks go by: nofl_block_list_push and _pop, the allocators of
\* mutators and workers, nofl_space_start_gc and nofl_space_finish_gc leave every block
\* in one place.
THEOREM InvariantHolds == Spec => []IInv
<1>. QED  BY InitIInv, NextIInv, PTL DEF Spec

\* What is in one of the places, and in no other, is counted once.
LEMMA CountedOnce ==
  ASSUME IInv, NEW b \in Blocks
  PROVE  Cardinality({l \in Lists : b \in list[l]})
           + Cardinality({t \in Threads : alloc[t].block = b}) = 1
<1>. DEFINE L == {l \in Lists : b \in list[l]}
            T == {t \in Threads : alloc[t].block = b}
<1>1. Apart /\ b # NoBlock
  BY NoflAssumption DEF IInv
<1>2. CASE \E l \in Lists : b \in list[l]
  <2>1. PICK l \in Lists : b \in list[l]
    BY <1>2
  <2>2. L = {l} /\ T = {}
    BY <1>1, <2>1 DEF Apart
  <2>. HIDE DEF L, T
  <2>3. Cardinality(L) = 1 /\ Cardinality(T) = 0
    BY <2>2, FS_EmptySet, FS_Singleton
  <2>. QED  BY <2>3 DEF L, T
<1>3. CASE \E t \in Threads : alloc[t].block = b
  <2>1. PICK t \in Threads : alloc[t].block = b
    BY <1>3
  <2>2. L = {} /\ T = {t}
    BY <1>1, <2>1 DEF Apart
  <2>. HIDE DEF L, T
  <2>3. Cardinality(L) = 0 /\ Cardinality(T) = 1
    BY <2>2, FS_EmptySet, FS_Singleton
  <2>. QED  BY <2>3 DEF L, T
<1>. QED  BY <1>1, <1>2, <1>3 DEF Apart

\* A block is in one list, or in the hands of one thread; nothing is left to sweep when a
\* collection starts, no target is left when an evacuation ends, and only blocks that
\* were empty are targets, as nofl-space.h asserts at 1361, 1394 and 664.
THEOREM OneOwnerHolds == Spec => []OneOwner
<1>1. IInv => OneOwner
  <2>. SUFFICES ASSUME IInv
                PROVE  OneOwner
    OBVIOUS
  <2>1. /\ phase = "pinned" => list["to_sweep"] = {}
        /\ evacuating => list["targets"] = {}
        /\ \A w \in Workers : alloc[w].block # NoBlock => summary[alloc[w].block].holes = G
    BY DEF IInv, Phases, WorkerInv
  <2>. QED  BY <2>1, CountedOnce DEF OneOwner
<1>. QED  BY <1>1, InvariantHolds, PTL DEF Spec
================================================================================
