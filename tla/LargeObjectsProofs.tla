------------------------- MODULE LargeObjectsProofs -------------------------
(***************************************************************************)
(* Proofs about LargeObjects, for every value of its constants.            *)
(*                                                                         *)
(* SpansAgree holds whatever words the stacks have.  What depends on       *)
(* marks being those of the objects that the program reaches, the counts   *)
(* of live pages among it, is proved without the stale words that make the *)
(* collector mark dead objects: LargeObjects has a run that shows them.    *)
(***************************************************************************)
EXTENDS LargeObjects, FiniteSetTheorems, FunctionTheorems, NaturalsInduction, TLAPS

\* The inductive invariant.

NodeRecords == [size : Nat \ {0}, is_live : BOOLEAN, mark : Marks,
                trace : {"precisely", "none", "conservatively"}, age : {0, 1}]

SpanIn(tree, a) == a .. a + tree[a].size - 1
DeadOf(tree, c) == {a \in DOMAIN tree : ~tree[a].is_live /\ size_class(tree[a].size) = c}

\* Nodes with disjoint spans that cover mem, of which the dead ones are in the lists of q.
Apart(tree, mem) ==
  /\ DOMAIN tree \subseteq Pages /\ \A a \in DOMAIN tree : SpanIn(tree, a) \subseteq Pages
  /\ \A a, b \in DOMAIN tree : a # b => SpanIn(tree, a) \cap SpanIn(tree, b) = {}
  /\ mem = {p \in Pages : \E a \in DOMAIN tree : p \in SpanIn(tree, a)}

InLists(tree, q) ==
  /\ q \in [Classes -> Seq(Pages)]
  /\ \A c \in Classes : IsInjective(q[c]) /\ ToSet(q[c]) = DeadOf(tree, c)

Shape(tree, q, mem) ==
  tree \in [DOMAIN tree -> NodeRecords] /\ Apart(tree, mem) /\ InLists(tree, q)

Tracers == [ref : Pages \cup {Null}, mark : Marks]

Counters ==
  /\ marked \in {MARK_0, MARK_1} /\ synchronous_release \in BOOLEAN
  /\ total_pages \in Nat /\ free_pages \in Int /\ live_pages \in Nat /\ allocated \in Nat
  /\ phase \in {"mutator", "minor", "major"} /\ count \in 0 .. MaxCount
  /\ phase # "mutator" => count < MaxCount
  /\ phase = "mutator" => total_pages - free_pages - live_pages = allocated

Space ==
  /\ Shape(object_tree, quarantine, mapped) /\ object_map = Nodes
  /\ \A a \in Nodes \ Live : object_tree[a].trace = "none"
  /\ nursery \subseteq Live /\ reused \subseteq nursery
  /\ extents = IF phase = "mutator" THEN {} ELSE {Span(a) : a \in Nodes}

Survivors == {a \in Live : is_survivor(a)}

\* ReachableFrom, in any graph.
Reach(f, start) ==
  LET all == start \cup ({f[a] : a \in DOMAIN f} \ {Null})
      closed == {S \in SUBSET all : \A a \in S \cap DOMAIN f : f[a] \in S \cup {Null}}
  IN {a \in all : \A S \in closed : start \subseteq S => a \in S}

\* What the next collection keeps, with what it refers to: unless stale words may keep
\* objects with fields that refer to dead ones, the survivors of the last.
InHandles == {root[r] : r \in Handles} \ {Null}
OnStack == {a \in Live : root[Stack] \in Span(a)}
Kept == InHandles \cup IF AnyWord THEN {} ELSE OnStack \cup Survivors
Reached == Reach(field, Kept)

Program ==
  /\ field \in [Live -> Pages \cup {Null}] /\ root \in [Roots -> Pages \cup {Null}]
  /\ \A a \in Live : object_tree[a].trace = "none" => field[a] = Null
  /\ Reached \subseteq Live

Barrier ==
  /\ remembered_edges = remembered_set /\ remembered_set \subseteq Pages
  /\ phase = "mutator" =>
       /\ remembered_set \subseteq Survivors
       /\ \A a \in Reached : is_survivor(a) /\ field[a] # Null /\ ~is_survivor(field[a])
                               => a \in remembered_set
  /\ phase # "major" => \A a \in Live : object_tree[a].mark \in {NURSERY, marked}

Seen(a) == is_survivor(a) \/ \E w \in Workers : pc[w].ref = a
Done(e) == e \in todo \/ \A a \in Referent(e) : Seen(a)

Tracing ==
  /\ pc \in [Workers -> Tracers] /\ todo \subseteq Roots \cup Live
  /\ \A w \in Workers : pc[w].ref \in Nodes \cup {Null}
  /\ IF phase = "mutator" THEN todo = {} /\ \A w \in Workers : pc[w] = Idle
     ELSE /\ \A w \in Workers : pc[w].ref # Null /\ pc[w].mark = marked
                                  => is_survivor(pc[w].ref)
          /\ \A e \in Roots : Done(e)
          /\ \A a \in Reached : is_survivor(a) => Done(a)

\* Where what a collection marks is reached from.
Source == InHandles \cup OnStack
            \cup IF phase = "minor" THEN Survivors \ reused ELSE {}
Refs == {pc[w].ref : w \in Workers} \ {Null}

surviving == [a \in Pages |-> IF a \in Live /\ is_survivor(a)
                              THEN object_tree[a].size ELSE 0]

Exact ==
  /\ root[Stack] # Null => \E a \in Live : root[Stack] \in Span(a)
  /\ \A a \in Nodes \ Live : object_tree[a].mark = NURSERY
  /\ phase = "mutator" => \A a \in reused : ~is_survivor(a)
  /\ phase # "mutator" => Survivors \cup Refs \cup (todo \cap Live) \subseteq Reach(field, Source)
  /\ live_pages = Total(surviving)

IInv == /\ Counters /\ Space /\ Program /\ Barrier /\ Tracing
        /\ ~AnyWord => Exact

--------------------------------------------------------------------------------
\* Lists.

LEMMA Positions ==
  ASSUME NEW S, NEW list \in Seq(S)
  PROVE  /\ DOMAIN list = 1 .. Len(list) /\ Len(list) \in Nat
         /\ \A i \in DOMAIN list : list[i] \in S
         /\ \A T : T \subseteq DOMAIN list => IsFiniteSet(T) /\ Cardinality(T) \in Nat
<1>1. DOMAIN list = 1 .. Len(list) /\ Len(list) \in Nat /\ \A i \in DOMAIN list : list[i] \in S
  OBVIOUS
<1>2. IsFiniteSet(DOMAIN list)
  BY <1>1, FS_Interval
<1>. QED  BY <1>1, <1>2, FS_Subset, FS_CardinalityType

\* The number of positions before one of them is its rank.
LEMMA Ranks ==
  ASSUME NEW left \in SUBSET Nat, IsFiniteSet(left), NEW n, n = Cardinality(left)
  PROVE  /\ n \in Nat
         /\ \A i \in left : Cardinality({k \in left : k < i}) \in 0 .. n - 1
         /\ \A i, j \in left : Cardinality({k \in left : k < i}) = Cardinality({k \in left : k < j})
                                 => i = j
         /\ \A j \in 1 .. n : \E i \in left : Cardinality({k \in left : k < i}) = j - 1
<1>. DEFINE B(i) == {k \in left : k < i}
            rank == [i \in left |-> Cardinality(B(i)) + 1]
<1>1. n \in Nat
  BY FS_CardinalityType
<1>2. ASSUME NEW i \in left
      PROVE  IsFiniteSet(B(i)) /\ Cardinality(B(i)) \in Nat /\ Cardinality(B(i)) <= n - 1
  <2>1. IsFiniteSet(B(i)) /\ Cardinality(B(i)) \in Nat
    BY FS_Subset, FS_CardinalityType
  <2>2. IsFiniteSet(left \ {i}) /\ Cardinality(left \ {i}) = n - 1
    BY FS_RemoveElement
  <2>3. B(i) \subseteq left \ {i}
    OBVIOUS
  <2>. HIDE DEF B
  <2>. QED  BY <2>1, <2>2, <2>3, FS_Subset
<1>3. ASSUME NEW i \in left, NEW j \in left, i < j
      PROVE  Cardinality(B(i)) < Cardinality(B(j))
  <2>1. /\ IsFiniteSet(B(j)) /\ Cardinality(B(j)) \in Nat /\ Cardinality(B(i)) \in Nat
        /\ IsFiniteSet(B(j) \ {i})
    BY <1>2, FS_RemoveElement
  <2>2. B(i) \subseteq B(j) \ {i} /\ i \in B(j)
    <3>1. i \in Nat /\ j \in Nat /\ \A k \in left : k \in Nat
      OBVIOUS
    <3>2. \A k \in left : k < i => k < j /\ k # i
      BY <1>3, <3>1
    <3>. QED  BY <1>3, <3>2
  <2>. HIDE DEF B
  <2>3. Cardinality(B(j) \ {i}) = Cardinality(B(j)) - 1
    BY <2>1, <2>2, FS_RemoveElement
  <2>4. Cardinality(B(i)) <= Cardinality(B(j) \ {i})
    BY <2>1, <2>2, FS_Subset
  <2>. QED  BY <2>1, <2>3, <2>4
<1>4. ASSUME NEW i \in left, NEW j \in left, Cardinality(B(i)) = Cardinality(B(j))
      PROVE  i = j
  <2>1. Cardinality(B(i)) \in Nat /\ i \in Nat /\ j \in Nat
    BY <1>2
  <2>2. ~(i < j) /\ ~(j < i)
    <3>. HIDE DEF B
    <3>. QED  BY <1>3, <1>4, <2>1
  <2>. QED  BY <2>1, <2>2
<1>5. rank \in [left -> 1 .. n]
  <2>. HIDE DEF B
  <2>. QED  BY <1>1, <1>2
<1>6. rank \in Injection(left, 1 .. n)
  <2>1. ASSUME NEW i \in left, NEW j \in left, rank[i] = rank[j]
        PROVE  i = j
    <3>. HIDE DEF B
    <3>1. Cardinality(B(i)) = Cardinality(B(j))
      BY <1>2, <2>1
    <3>. QED  BY <3>1, <1>4
  <2>. HIDE DEF rank
  <2>. QED  BY <1>5, <2>1, Fun_IsInj
<1>7. IsFiniteSet(1 .. n) /\ Cardinality(1 .. n) = n
  BY <1>1, FS_Interval
<1>8. rank \in Surjection(left, 1 .. n)
  <2>. HIDE DEF rank
  <2>. QED  BY <1>6, <1>7, FS_Injection
<1>9. ASSUME NEW j \in 1 .. n
      PROVE  \E i \in left : Cardinality(B(i)) = j - 1
  <2>1. \A k \in 1 .. n : \E i \in left : rank[i] = k
    <3>. DEFINE T == 1 .. n
    <3>. HIDE DEF rank, T
    <3>1. rank \in Surjection(left, T)
      BY <1>8 DEF T
    <3>2. \A k \in T : \E i \in left : rank[i] = k
      BY <3>1, Fun_SurjectionProperties
    <3>. QED  BY <3>2 DEF T
  <2>2. PICK i \in left : rank[i] = j
    <3>. HIDE DEF rank
    <3>. QED  BY <2>1
  <2>3. Cardinality(B(i)) + 1 = j /\ Cardinality(B(i)) \in Nat
    <3>. HIDE DEF B
    <3>. QED  BY <1>2, <2>2
  <2>4. Cardinality(B(i)) = j - 1
    <3>. HIDE DEF B
    <3>. QED  BY <1>1, <2>3
  <2>. QED  BY <2>4
<1>10. \A i \in left : Cardinality(B(i)) \in 0 .. n - 1
  <2>. HIDE DEF B
  <2>. QED  BY <1>1, <1>2
<1>. QED  BY <1>1, <1>4, <1>9, <1>10

\* Without keeps the other nodes of a list, each once if they were in it once.
LEMMA WithoutIs ==
  ASSUME NEW S, NEW list \in Seq(S), IsInjective(list), NEW gone
  PROVE  /\ Without(list, gone) \in Seq(S) /\ IsInjective(Without(list, gone))
         /\ ToSet(Without(list, gone)) = ToSet(list) \ gone
<1>. DEFINE left == {i \in DOMAIN list : list[i] \notin gone}
            before(i) == Cardinality({k \in left : k < i})
            n == Cardinality(left)
            at(j) == CHOOSE i \in left : before(i) = j - 1
            new == [j \in 1 .. n |-> list[at(j)]]
<1>1. Without(list, gone) = new
  BY DEF Without
<1>2. left \in SUBSET Nat /\ IsFiniteSet(left)
  BY Positions
<1>3. /\ n \in Nat
      /\ \A i \in left : before(i) \in 0 .. n - 1
      /\ \A i, j \in left : before(i) = before(j) => i = j
      /\ \A j \in 1 .. n : \E i \in left : before(i) = j - 1
  <2>. HIDE DEF left
  <2>. QED  BY <1>2, Ranks
<1>4. left \subseteq DOMAIN list /\ \A i \in DOMAIN list : i \in left <=> list[i] \notin gone
  OBVIOUS
<1>5. /\ \A i \in DOMAIN list : list[i] \in S
      /\ \A i, j \in DOMAIN list : list[i] = list[j] => i = j
  BY Positions DEF IsInjective
<1>. HIDE DEF left, before, n
<1>6. \A j \in 1 .. n : at(j) \in left /\ before(at(j)) = j - 1
  BY <1>3
<1>7. \A i \in left : before(i) + 1 \in 1 .. n /\ at(before(i) + 1) = i
  <2>1. ASSUME NEW i \in left
        PROVE  before(i) + 1 \in 1 .. n /\ before(i) + 1 - 1 = before(i)
    BY <1>3
  <2>. QED  BY <2>1, <1>3, <1>6
<1>. HIDE DEF at
<1>8. new \in Seq(S)
  <2>1. new \in [1 .. n -> S]
    BY <1>4, <1>5, <1>6
  <2>. QED  BY <2>1, <1>3
<1>9. DOMAIN new = 1 .. n /\ \A j \in 1 .. n : new[j] = list[at(j)]
  OBVIOUS
<1>. HIDE DEF new
<1>10. IsInjective(new)
  <2>1. ASSUME NEW i \in 1 .. n, NEW j \in 1 .. n, new[i] = new[j]
        PROVE  i = j
    <3>1. at(i) = at(j)
      BY <1>4, <1>5, <1>6, <1>9, <2>1
    <3>. QED  BY <3>1, <1>3, <1>6
  <2>. QED  BY <1>9, <2>1 DEF IsInjective
<1>11. ASSUME NEW x
       PROVE  x \in ToSet(new) <=> x \in ToSet(list) \ gone
  <2>1. ASSUME x \in ToSet(new) PROVE x \in ToSet(list) \ gone
    BY <1>4, <1>6, <1>9, <2>1 DEF ToSet
  <2>2. ASSUME x \in ToSet(list) \ gone PROVE x \in ToSet(new)
    <3>1. PICK i \in left : x = list[i]
      BY <1>4, <2>2 DEF ToSet
    <3>. QED  BY <1>7, <1>9, <3>1 DEF ToSet
  <2>. QED  BY <2>1, <2>2
<1>. QED  BY <1>1, <1>8, <1>10, <1>11

Joins(S, r, s, t) ==
  r \in Seq(S) /\ IsInjective(r) /\ ToSet(r) = ToSet(s) \cup ToSet(t)

\* One list before another that has nothing in common with it.
LEMMA JoinedIs ==
  ASSUME NEW S, NEW s \in Seq(S), NEW t \in Seq(S), IsInjective(s), IsInjective(t),
         ToSet(s) \cap ToSet(t) = {}
  PROVE  Joins(S, s \o t, s, t)
<1>. DEFINE m == Len(s)
            n == Len(t)
            new == s \o t
<1>1. /\ m \in Nat /\ n \in Nat /\ DOMAIN s = 1 .. m /\ DOMAIN t = 1 .. n
      /\ new \in Seq(S) /\ DOMAIN new = 1 .. m + n
      /\ \A i \in 1 .. m + n : new[i] = IF i <= m THEN s[i] ELSE t[i - m]
  OBVIOUS
<1>2. /\ \A i, j \in 1 .. m : s[i] = s[j] => i = j
      /\ \A i, j \in 1 .. n : t[i] = t[j] => i = j
      /\ \A i \in 1 .. m, j \in 1 .. n : s[i] # t[j]
  <2>1. \A i, j \in 1 .. m : s[i] = s[j] => i = j
    BY <1>1 DEF IsInjective
  <2>2. \A i, j \in 1 .. n : t[i] = t[j] => i = j
    BY <1>1 DEF IsInjective
  <2>3. ASSUME NEW i \in 1 .. m, NEW j \in 1 .. n PROVE s[i] # t[j]
    <3>1. s[i] \in ToSet(s) /\ t[j] \in ToSet(t)
      BY <1>1 DEF ToSet
    <3>. QED  BY <3>1
  <2>. QED  BY <2>1, <2>2, <2>3
<1>. HIDE DEF m, n, new
<1>3. ASSUME NEW i \in 1 .. m + n, NEW j \in 1 .. m + n, new[i] = new[j]
      PROVE  i = j
  <2>1. CASE i <= m /\ j <= m
    BY <1>1, <1>2, <1>3, <2>1
  <2>2. CASE i > m /\ j > m
    <3>1. i - m \in 1 .. n /\ j - m \in 1 .. n /\ t[i - m] = t[j - m]
      BY <1>1, <1>3, <2>2
    <3>2. i - m = j - m
      BY <1>2, <3>1
    <3>. QED  BY <1>1, <3>2
  <2>3. CASE i <= m /\ j > m
    <3>1. j - m \in 1 .. n /\ i \in 1 .. m /\ s[i] = t[j - m]
      BY <1>1, <1>3, <2>3
    <3>. QED  BY <1>2, <3>1
  <2>4. CASE i > m /\ j <= m
    <3>1. i - m \in 1 .. n /\ j \in 1 .. m /\ s[j] = t[i - m]
      BY <1>1, <1>3, <2>4
    <3>. QED  BY <1>2, <3>1
  <2>. QED  BY <1>1, <2>1, <2>2, <2>3, <2>4
<1>4. ASSUME NEW x
      PROVE  x \in ToSet(new) <=> x \in ToSet(s) \cup ToSet(t)
  <2>1. ASSUME x \in ToSet(new) PROVE x \in ToSet(s) \cup ToSet(t)
    <3>1. PICK i \in 1 .. m + n : x = new[i]
      BY <1>1, <2>1 DEF ToSet
    <3>2. CASE i <= m
      BY <1>1, <3>1, <3>2 DEF ToSet
    <3>3. CASE i > m
      <4>1. i - m \in 1 .. n /\ x = t[i - m]
        BY <1>1, <3>1, <3>3
      <4>. QED  BY <1>1, <4>1 DEF ToSet
    <3>. QED  BY <1>1, <3>2, <3>3
  <2>2. ASSUME x \in ToSet(s) PROVE x \in ToSet(new)
    <3>1. PICK i \in 1 .. m : x = s[i]
      BY <1>1, <2>2 DEF ToSet
    <3>2. i \in 1 .. m + n /\ new[i] = x
      BY <1>1, <3>1
    <3>. QED  BY <1>1, <3>2 DEF ToSet
  <2>3. ASSUME x \in ToSet(t) PROVE x \in ToSet(new)
    <3>1. PICK i \in 1 .. n : x = t[i]
      BY <1>1, <2>3 DEF ToSet
    <3>2. i + m \in 1 .. m + n /\ new[i + m] = x
      BY <1>1, <3>1
    <3>. QED  BY <1>1, <3>2 DEF ToSet
  <2>. QED  BY <2>1, <2>2, <2>3
<1>. QED  BY <1>1, <1>3, <1>4 DEF Joins, IsInjective, new

LEMMA OneIs ==
  ASSUME NEW S, NEW a \in S
  PROVE  <<a>> \in Seq(S) /\ IsInjective(<<a>>) /\ ToSet(<<a>>) = {a}
<1>1. <<a>> \in Seq(S) /\ DOMAIN <<a>> = {1} /\ <<a>>[1] = a
  OBVIOUS
<1>. QED  BY <1>1 DEF IsInjective, ToSet

--------------------------------------------------------------------------------
\* What is reached in a graph.

LEMMA ReachHas ==
  ASSUME NEW f, NEW start
  PROVE  /\ start \subseteq Reach(f, start)
         /\ \A a \in Reach(f, start) : a \in DOMAIN f => f[a] \in Reach(f, start) \cup {Null}
BY DEF Reach

LEMMA ReachLeast ==
  ASSUME NEW f, NEW start, NEW S, start \subseteq S,
         \A a \in S : a \in DOMAIN f => f[a] \in S \cup {Null}
  PROVE  Reach(f, start) \subseteq S
<1>. DEFINE all == start \cup ({f[a] : a \in DOMAIN f} \ {Null})
            T == S \cap all
<1>1. T \in SUBSET all /\ start \subseteq T
  OBVIOUS
<1>2. \A a \in T \cap DOMAIN f : f[a] \in T \cup {Null}
  OBVIOUS
<1>3. Reach(f, start) \subseteq T
  <2>. HIDE DEF T
  <2>. QED  BY <1>1, <1>2 DEF Reach
<1>. QED  BY <1>3

LEMMA ReachWithin ==
  ASSUME NEW f, NEW start, NEW other, start \subseteq Reach(f, other)
  PROVE  Reach(f, start) \subseteq Reach(f, other)
<1>. DEFINE S == Reach(f, other)
<1>1. \A a \in S : a \in DOMAIN f => f[a] \in S \cup {Null}
  BY ReachHas
<1>. HIDE DEF S
<1>2. start \subseteq S
  BY DEF S
<1>3. Reach(f, start) \subseteq S
  BY <1>1, <1>2, ReachLeast
<1>. QED  BY <1>3 DEF S

LEMMA ReachableIs ==
  ASSUME NEW start
  PROVE  /\ ReachableFrom(start) = Reach(field, start)
         /\ ReachableFrom(start)' = Reach(field', start')
BY DEF ReachableFrom, Reach

--------------------------------------------------------------------------------
\* Sums over pages.

LEMMA Least ==
  ASSUME NEW S \in SUBSET Nat, S # {}
  PROVE  \E n \in S : \A m \in S : n <= m
<1>1. PICK n \in S : \A m \in S : <<m, n>> \notin OpToRel(<, Nat)
  BY NatLessThanWellFounded, WFMin
<1>2. \A m \in S : ~(m < n)
  BY <1>1 DEF OpToRel
<1>. QED  BY <1>2

Pick(s) == CHOOSE x \in s : TRUE

\* h has the partial sums of f over sets of pages.
Sum(f, s, h) == IF s = {} THEN 0 ELSE f[Pick(s)] + h[s \ {Pick(s)}]
Sums(f, h) == h = [s \in SUBSET Pages |-> Sum(f, s, h)]

LEMMA PickIn ==
  ASSUME NEW s, s # {}
  PROVE  Pick(s) \in s
BY DEF Pick

LEMMA Rest ==
  ASSUME NEW s \in SUBSET Pages, s # {}
  PROVE  /\ s \ {Pick(s)} \in SUBSET Pages /\ Pick(s) \in Pages
         /\ Cardinality(s) \in Nat \ {0}
         /\ Cardinality(s \ {Pick(s)}) = Cardinality(s) - 1
<1>1. IsFiniteSet(s)
  BY FS_Subset, LargeObjectsAssumption
<1>2. Pick(s) \in s
  BY PickIn
<1>3. Cardinality(s) \in Nat /\ Cardinality(s) # 0
  BY <1>1, FS_CardinalityType, FS_EmptySet
<1>4. Cardinality(s \ {Pick(s)}) = Cardinality(s) - 1
  BY <1>1, <1>2, FS_RemoveElement
<1>. QED  BY <1>2, <1>3, <1>4

LEMMA Parts ==
  /\ Cardinality({}) = 0
  /\ \A s \in SUBSET Pages : Cardinality(s) \in Nat /\ Cardinality(s) <= Cardinality(Pages)
  /\ \A s \in SUBSET Pages : Cardinality(s) = 0 => s = {}
<1>1. Cardinality({}) = 0
  BY FS_EmptySet
<1>2. ASSUME NEW s \in SUBSET Pages
      PROVE  /\ Cardinality(s) \in Nat /\ Cardinality(s) <= Cardinality(Pages)
             /\ Cardinality(s) = 0 => s = {}
  <2>1. IsFiniteSet(s) /\ Cardinality(s) <= Cardinality(Pages)
    BY FS_Subset, LargeObjectsAssumption
  <2>. QED  BY <2>1, FS_CardinalityType, FS_EmptySet
<1>. QED  BY <1>1, <1>2

\* Sums over the sets of at most n pages.
Upto(f, n, h) ==
  \A s \in SUBSET Pages : Cardinality(s) <= n => h[s] = Sum(f, s, h)

LEMMA MoreSums ==
  ASSUME NEW f, NEW n \in Nat, NEW h, Upto(f, n, h)
  PROVE  \E g : Upto(f, n + 1, g)
<1>. DEFINE g == [s \in SUBSET Pages |-> IF Cardinality(s) <= n THEN h[s] ELSE Sum(f, s, h)]
<1>1. ASSUME NEW s \in SUBSET Pages, Cardinality(s) <= n + 1
      PROVE  g[s] = Sum(f, s, g)
  <2>1. g[s] = Sum(f, s, h)
    BY DEF Upto
  <2>2. CASE s = {}
    BY <2>1, <2>2 DEF Sum
  <2>3. CASE s # {}
    <3>1. /\ s \ {Pick(s)} \in SUBSET Pages
          /\ Cardinality(s \ {Pick(s)}) <= n
      BY <1>1, <2>3, Rest
    <3>2. g[s \ {Pick(s)}] = h[s \ {Pick(s)}]
      BY <3>1
    <3>. QED  BY <2>1, <3>2 DEF Sum
  <2>. QED  BY <2>2, <2>3
<1>. QED  BY <1>1 DEF Upto

LEMMA HaveSums ==
  ASSUME NEW f, NEW k \in Nat
  PROVE  \E h : Upto(f, k, h)
<1>. DEFINE Bad == {n \in Nat : ~\E h : Upto(f, n, h)}
<1>1. SUFFICES ASSUME Bad # {} PROVE FALSE
  OBVIOUS
<1>2. PICK n \in Bad : \A m \in Bad : n <= m
  BY <1>1, Least
<1>3. n # 0
  <2>. DEFINE h == [s \in SUBSET Pages |-> 0]
  <2>1. Upto(f, 0, h)
    BY Parts DEF Upto, Sum
  <2>. QED  BY <2>1
<1>4. n - 1 \in Nat /\ n - 1 \notin Bad
  BY <1>2, <1>3
<1>5. PICK h : Upto(f, n - 1, h)
  BY <1>4
<1>6. \E g : Upto(f, n - 1 + 1, g)
  BY <1>4, <1>5, MoreSums
<1>. QED  BY <1>2, <1>6

LEMMA TotalSums ==
  ASSUME NEW f
  PROVE  \E h : Sums(f, h) /\ Total(f) = h[Pages]
<1>1. Total(f) = (CHOOSE h : Sums(f, h))[Pages]
  BY DEF Total, MapThenSumSet, MapThenFoldSet, Pick, Sum, Sums
<1>2. PICK h : Upto(f, Cardinality(Pages), h)
  BY HaveSums, Parts
<1>. DEFINE g == [s \in SUBSET Pages |-> h[s]]
<1>3. ASSUME NEW s \in SUBSET Pages
      PROVE  h[s] = Sum(f, s, g)
  <2>1. h[s] = Sum(f, s, h)
    BY <1>2, Parts DEF Upto
  <2>2. CASE s = {}
    BY <2>1, <2>2 DEF Sum
  <2>3. CASE s # {}
    <3>1. s \ {Pick(s)} \in SUBSET Pages
      BY <2>3, Rest
    <3>. QED  BY <2>1, <3>1 DEF Sum
  <2>. QED  BY <2>2, <2>3
<1>4. Sums(f, g)
  BY <1>3 DEF Sums
<1>5. Sums(f, CHOOSE i : Sums(f, i))
  BY <1>4
<1>. QED  BY <1>1, <1>5

LEMMA TotalThen == Total(surviving)' = Total(surviving')
BY DEF Total, MapThenSumSet, MapThenFoldSet

Change(f, g, s, x) == IF x \in s THEN g[x] - f[x] ELSE 0

\* When the number of one page changes, the total changes by that.
LEMMA TotalChange ==
  ASSUME NEW f \in [Pages -> Nat], NEW g \in [Pages -> Nat], NEW x,
         \A a \in Pages : a # x => g[a] = f[a]
  PROVE  Total(f) \in Nat /\ Total(g) = Total(f) + Change(f, g, Pages, x)
<1>1. PICK h : Sums(f, h) /\ Total(f) = h[Pages]
  BY TotalSums
<1>2. PICK k : Sums(g, k) /\ Total(g) = k[Pages]
  BY TotalSums
<1>. DEFINE P(s) == h[s] \in Nat /\ k[s] = h[s] + Change(f, g, s, x)
            Bad == {Cardinality(s) : s \in {r \in SUBSET Pages : ~P(r)}}
<1>3. SUFFICES ASSUME Bad # {} PROVE FALSE
  <2>1. ~\E s \in SUBSET Pages : ~P(s)
    BY <1>3
  <2>. QED  BY <1>1, <1>2, <2>1
<1>4. Bad \in SUBSET Nat
  BY Parts
<1>5. PICK n \in Bad : \A m \in Bad : n <= m
  BY <1>3, <1>4, Least
<1>6. PICK s \in SUBSET Pages : ~P(s) /\ n = Cardinality(s)
  BY <1>5
<1>7. h[s] = Sum(f, s, h) /\ k[s] = Sum(g, s, k)
  BY <1>1, <1>2 DEF Sums
<1>8. s # {}
  BY <1>6, <1>7 DEF Sum, Change
<1>. DEFINE y == Pick(s)
            r == s \ {y}
<1>9. /\ r \in SUBSET Pages /\ y \in Pages /\ y \in s
      /\ Cardinality(r) < n /\ Cardinality(r) \in Nat /\ n \in Nat
  BY <1>6, <1>8, Rest, PickIn, Parts
<1>10. P(r)
  <2>1. ~(Cardinality(r) \in Bad)
    BY <1>5, <1>9
  <2>. QED  BY <1>9, <2>1
<1>11. h[s] = f[y] + h[r] /\ k[s] = g[y] + k[r]
  BY <1>7, <1>8 DEF Sum
<1>12. f[y] \in Nat /\ g[y] \in Nat
  BY <1>9
<1>13. Change(f, g, r, x) \in Int /\ Change(f, g, s, x) = Change(f, g, r, x) + g[y] - f[y]
  <2>1. CASE y = x
    BY <1>9, <1>12, <2>1 DEF Change
  <2>2. CASE y # x
    <3>1. g[y] = f[y]
      BY <1>9, <2>2
    <3>2. x \in s <=> x \in r
      BY <2>2
    <3>3. x \in s => g[x] \in Nat /\ f[x] \in Nat
      OBVIOUS
    <3>. QED  BY <1>12, <3>1, <3>2, <3>3 DEF Change
  <2>. QED  BY <2>1, <2>2
<1>14. P(s)
  <2>. HIDE DEF y, r
  <2>. QED  BY <1>10, <1>11, <1>12, <1>13
<1>. QED  BY <1>6, <1>14

LEMMA TotalNone ==
  ASSUME NEW f, \A a \in Pages : f[a] = 0
  PROVE  Total(f) = 0
<1>1. PICK h : Sums(f, h) /\ Total(f) = h[Pages]
  BY TotalSums
<1>. DEFINE Bad == {Cardinality(s) : s \in {r \in SUBSET Pages : h[r] # 0}}
<1>2. SUFFICES ASSUME Bad # {} PROVE FALSE
  BY <1>1
<1>3. Bad \in SUBSET Nat
  BY Parts
<1>4. PICK n \in Bad : \A m \in Bad : n <= m
  BY <1>2, <1>3, Least
<1>5. PICK s \in SUBSET Pages : h[s] # 0 /\ n = Cardinality(s)
  BY <1>4
<1>6. h[s] = Sum(f, s, h)
  BY <1>1 DEF Sums
<1>7. s # {}
  BY <1>5, <1>6 DEF Sum
<1>. DEFINE y == Pick(s)
            r == s \ {y}
<1>8. /\ r \in SUBSET Pages /\ y \in Pages
      /\ Cardinality(r) < n /\ Cardinality(r) \in Nat /\ n \in Nat
  BY <1>5, <1>7, Rest, Parts
<1>9. h[r] = 0
  BY <1>4, <1>8
<1>10. h[s] = f[y] + h[r]
  BY <1>6, <1>7 DEF Sum
<1>. QED  BY <1>5, <1>8, <1>9, <1>10

--------------------------------------------------------------------------------
\* Nodes and their spans.

LEMMA Node ==
  ASSUME NEW tree, tree \in [DOMAIN tree -> NodeRecords], NEW a \in DOMAIN tree
  PROVE  /\ tree[a].size \in Nat /\ tree[a].size > 0 /\ tree[a].is_live \in BOOLEAN
         /\ tree[a].mark \in Marks /\ tree[a].age \in {0, 1}
         /\ tree[a].trace \in {"precisely", "none", "conservatively"}
<1>1. tree[a] \in NodeRecords
  OBVIOUS
<1>. QED  BY <1>1 DEF NodeRecords

LEMMA PagesAre == \A p \in Pages : p \in Nat /\ p # Null /\ p \notin Roots
BY LargeObjectsAssumption DEF Roots

LEMMA SpanHas ==
  ASSUME NEW tree, NEW mem, tree \in [DOMAIN tree -> NodeRecords], Apart(tree, mem),
         NEW a \in DOMAIN tree
  PROVE  /\ a \in Pages /\ a \in SpanIn(tree, a) /\ SpanIn(tree, a) \subseteq Pages
         /\ ClassOf(tree, a) \in Classes
<1>1. a \in Pages /\ a \in Nat /\ SpanIn(tree, a) \subseteq Pages
  BY PagesAre DEF Apart
<1>. DEFINE s == tree[a].size
<1>2. s \in Nat /\ s > 0
  BY Node
<1>3. SpanIn(tree, a) = a .. a + s - 1
  BY DEF SpanIn
<1>. HIDE DEF s
<1>4. Cardinality(a .. a + s - 1) = s
  <2>. DEFINE e == a + s - 1
  <2>1. e \in Int /\ a \in Int /\ ~(a > e) /\ e - a + 1 = s
    BY <1>1, <1>2
  <2>. HIDE DEF e
  <2>2. Cardinality(a .. e) = e - a + 1
    BY <2>1, FS_Interval
  <2>. QED  BY <2>1, <2>2 DEF e
<1>5. Cardinality(Pages) \in Nat /\ s <= Cardinality(Pages)
  <2>1. IsFiniteSet(Pages)
    BY LargeObjectsAssumption
  <2>2. Cardinality(a .. a + s - 1) <= Cardinality(Pages)
    BY <1>1, <1>3, <2>1, FS_Subset
  <2>. QED  BY <1>4, <2>1, <2>2, FS_CardinalityType
<1>6. s \in 1 .. Cardinality(Pages)
  BY <1>2, <1>5
<1>7. size_class(s) \in Classes
  BY <1>6 DEF Classes
<1>8. a \in SpanIn(tree, a)
  BY <1>1, <1>2, <1>3
<1>. QED  BY <1>1, <1>7, <1>8 DEF ClassOf, s

\* Every dead node is in the list of its class, and only there.
LEMMA InItsList ==
  ASSUME NEW tree, NEW q, NEW mem, Shape(tree, q, mem)
  PROVE  /\ \A c \in Classes : q[c] \in Seq(Pages) /\ IsInjective(q[c])
         /\ \A c \in Classes : ToSet(q[c]) = DeadOf(tree, c)
         /\ \A a : a \in Listed(q) <=> a \in DOMAIN tree /\ ~tree[a].is_live
<1>1. /\ \A c \in Classes : q[c] \in Seq(Pages) /\ IsInjective(q[c])
      /\ \A c \in Classes : ToSet(q[c]) = DeadOf(tree, c)
  BY DEF Shape, InLists
<1>2. ASSUME NEW a
      PROVE  a \in Listed(q) <=> \E c \in Classes : a \in DeadOf(tree, c)
  BY <1>1 DEF Listed
<1>3. ASSUME NEW a, a \in DOMAIN tree, ~tree[a].is_live
      PROVE  \E c \in Classes : a \in DeadOf(tree, c)
  <2>1. size_class(tree[a].size) \in Classes
    BY <1>3, SpanHas DEF Shape, ClassOf
  <2>. QED  BY <1>3, <2>1 DEF DeadOf
<1>. QED  BY <1>1, <1>2, <1>3 DEF DeadOf

LEMMA Unchanged ==
  ASSUME NEW tree, NEW q, NEW mem, Shape(tree, q, mem),
         NEW new, new \in [DOMAIN tree -> NodeRecords],
         \A a \in DOMAIN tree : new[a].size = tree[a].size /\ new[a].is_live = tree[a].is_live
  PROVE  Shape(new, q, mem)
<1>1. DOMAIN new = DOMAIN tree /\ \A a \in DOMAIN tree : SpanIn(new, a) = SpanIn(tree, a)
  BY DEF SpanIn
<1>2. Apart(new, mem)
  BY <1>1 DEF Shape, Apart
<1>3. \A c \in Classes : DeadOf(new, c) = DeadOf(tree, c)
  BY <1>1 DEF DeadOf
<1>. QED  BY <1>1, <1>2, <1>3 DEF Shape, InLists

\* large_object_space_alloc from the quarantine.
Cut(tree, new, a, n, tail) ==
  /\ a \in DOMAIN tree /\ n \in Nat /\ n > 0 /\ n <= tree[a].size
  /\ tail = IF tree[a].size > n THEN {a + n} ELSE {}
  /\ new \in [DOMAIN tree \cup tail -> NodeRecords]
  /\ new[a].size = n /\ \A b \in tail : new[b].size = tree[a].size - n
  /\ \A b \in DOMAIN tree : b # a => new[b] = tree[b]

LEMMA CutApart ==
  ASSUME NEW tree, NEW mem, tree \in [DOMAIN tree -> NodeRecords], Apart(tree, mem),
         NEW new, NEW a, NEW n, NEW tail, Cut(tree, new, a, n, tail)
  PROVE  Apart(new, mem) /\ tail \cap DOMAIN tree = {} /\ a \notin tail /\ tail \subseteq Pages
<1>. USE DEF Cut
<1>. DEFINE s == tree[a].size
            S == SpanIn(tree, a)
<1>1. /\ a \in Pages /\ a \in Nat /\ S \subseteq Pages /\ s \in Nat /\ a \in S
      /\ S = a .. a + s - 1
  BY SpanHas, PagesAre, Node DEF SpanIn
<1>2. SpanIn(new, a) = a .. a + n - 1 /\ \A b \in tail : SpanIn(new, b) = b .. b + (s - n) - 1
  BY DEF SpanIn
<1>3. /\ SpanIn(new, a) \subseteq S
      /\ \A b \in tail : b \in S /\ b # a /\ SpanIn(new, b) \subseteq S
      /\ \A b \in tail : SpanIn(new, a) \cap SpanIn(new, b) = {}
      /\ \A p \in S : p \in SpanIn(new, a) \/ \E b \in tail : p \in SpanIn(new, b)
      /\ \A b, c \in tail : b = c
  <2>1. CASE s > n
    <3>1. tail = {a + n} /\ a + n + (s - n) - 1 = a + s - 1
      BY <1>1, <2>1
    <3>2. SpanIn(new, a + n) = a + n .. a + s - 1
      BY <1>2, <3>1
    <3>. HIDE DEF s, S
    <3>3. /\ a .. a + n - 1 \subseteq a .. a + s - 1
          /\ a + n .. a + s - 1 \subseteq a .. a + s - 1
          /\ (a .. a + n - 1) \cap (a + n .. a + s - 1) = {}
          /\ \A p \in a .. a + s - 1 : p \in a .. a + n - 1 \/ p \in a + n .. a + s - 1
          /\ a + n # a /\ a + n \in a .. a + s - 1
      BY <1>1, <2>1
    <3>. QED  BY <1>1, <1>2, <3>1, <3>2, <3>3
  <2>2. CASE ~(s > n)
    <3>1. tail = {} /\ s = n
      BY <1>1, <2>2
    <3>. HIDE DEF s, S
    <3>. QED  BY <1>1, <1>2, <3>1
  <2>. QED  BY <2>1, <2>2
<1>4. /\ \A b \in DOMAIN tree : b # a => SpanIn(new, b) = SpanIn(tree, b)
      /\ \A b \in DOMAIN tree : b # a => SpanIn(tree, b) \cap S = {} /\ b \in SpanIn(tree, b)
      /\ \A b \in DOMAIN tree : SpanIn(tree, b) \subseteq Pages
  BY SpanHas DEF SpanIn, Apart
<1>5. /\ DOMAIN tree \subseteq Pages
      /\ \A b, c \in DOMAIN tree : b # c => SpanIn(tree, b) \cap SpanIn(tree, c) = {}
      /\ mem = {p \in Pages : \E b \in DOMAIN tree : p \in SpanIn(tree, b)}
  BY DEF Apart
<1>. HIDE DEF S
<1>6. tail \cap DOMAIN tree = {} /\ a \notin tail /\ tail \subseteq Pages
  BY <1>1, <1>3, <1>4
<1>7. DOMAIN new = DOMAIN tree \cup tail
  OBVIOUS
<1>8. ASSUME NEW b \in DOMAIN new, NEW c \in DOMAIN new, b # c
      PROVE  SpanIn(new, b) \cap SpanIn(new, c) = {}
  <2>1. CASE b \in DOMAIN tree \ {a} /\ c \in DOMAIN tree \ {a}
    BY <1>4, <1>5, <1>8, <2>1
  <2>2. CASE b \in tail \cup {a} /\ c \in DOMAIN tree \ {a}
    BY <1>3, <1>4, <2>2
  <2>3. CASE b \in DOMAIN tree \ {a} /\ c \in tail \cup {a}
    BY <1>3, <1>4, <2>3
  <2>4. CASE b \in tail \cup {a} /\ c \in tail \cup {a}
    BY <1>3, <1>8, <2>4
  <2>. QED  BY <1>7, <1>8, <2>1, <2>2, <2>3, <2>4
<1>9. \A b \in DOMAIN new : SpanIn(new, b) \subseteq Pages
  BY <1>1, <1>3, <1>4, <1>7
<1>10. ASSUME NEW p \in Pages
       PROVE  (\E b \in DOMAIN tree : p \in SpanIn(tree, b))
                <=> \E b \in DOMAIN new : p \in SpanIn(new, b)
  <2>1. ASSUME NEW b \in DOMAIN tree, p \in SpanIn(tree, b)
        PROVE  \E c \in DOMAIN new : p \in SpanIn(new, c)
    <3>1. CASE b = a
      BY <1>3, <1>7, <2>1, <3>1 DEF S
    <3>2. CASE b # a
      BY <1>4, <1>7, <2>1, <3>2
    <3>. QED  BY <3>1, <3>2
  <2>2. ASSUME NEW b \in DOMAIN new, p \in SpanIn(new, b)
        PROVE  \E c \in DOMAIN tree : p \in SpanIn(tree, c)
    <3>1. CASE b \in tail \cup {a}
      BY <1>3, <2>2, <3>1 DEF S
    <3>2. CASE b \in DOMAIN tree \ {a}
      BY <1>4, <2>2, <3>2
    <3>. QED  BY <1>7, <3>1, <3>2
  <2>. QED  BY <2>1, <2>2
<1>11. mem = {p \in Pages : \E b \in DOMAIN new : p \in SpanIn(new, b)}
  BY <1>5, <1>10
<1>. QED  BY <1>5, <1>6, <1>7, <1>8, <1>9, <1>11 DEF Apart

Lists(q) == q \in [Classes -> Seq(Pages)] /\ \A c \in Classes : IsInjective(q[c])

\* r is q with a in, or without a in, the list of class d.
Added(r, q, d, a) ==
  Lists(r) /\ \A c \in Classes : ToSet(r[c]) = IF c = d THEN ToSet(q[c]) \cup {a} ELSE ToSet(q[c])
Removed(r, q, d, a) ==
  Lists(r) /\ \A c \in Classes : ToSet(r[c]) = IF c = d THEN ToSet(q[c]) \ {a} ELSE ToSet(q[c])

\* What was pushed, in front of what was there.
LEMMA PushedIs ==
  ASSUME NEW q, Lists(q), NEW tree, NEW a \in Pages, ClassOf(tree, a) \in Classes,
         \A c \in Classes : a \notin ToSet(q[c])
  PROVE  Added(Pushed(q, tree, a), q, ClassOf(tree, a), a)
<1>. DEFINE d == ClassOf(tree, a)
            new == Pushed(q, tree, a)
<1>1. new = [q EXCEPT ![d] = <<a>> \o q[d]]
  BY DEF Pushed
<1>2. <<a>> \in Seq(Pages) /\ IsInjective(<<a>>) /\ ToSet(<<a>>) = {a}
  BY OneIs
<1>3. q[d] \in Seq(Pages) /\ IsInjective(q[d]) /\ a \notin ToSet(q[d])
  BY DEF Lists
<1>. HIDE DEF d, new
<1>4. /\ <<a>> \o q[d] \in Seq(Pages) /\ IsInjective(<<a>> \o q[d])
      /\ ToSet(<<a>> \o q[d]) = {a} \cup ToSet(q[d])
  <2>. DEFINE s == <<a>>
              t == q[d]
  <2>1. ToSet(s) \cap ToSet(t) = {}
    BY <1>2, <1>3
  <2>2. s \in Seq(Pages) /\ t \in Seq(Pages) /\ IsInjective(s) /\ IsInjective(t)
    BY <1>2, <1>3
  <2>. HIDE DEF s, t
  <2>3. Joins(Pages, s \o t, s, t)
    BY <2>1, <2>2, JoinedIs
  <2>. QED  BY <1>2, <2>3 DEF Joins, s, t
<1>5. new \in [Classes -> Seq(Pages)]
  BY <1>1, <1>4 DEF Lists
<1>6. ASSUME NEW c \in Classes
      PROVE  /\ IsInjective(new[c])
             /\ ToSet(new[c]) = IF c = d THEN ToSet(q[c]) \cup {a} ELSE ToSet(q[c])
  <2>1. CASE c = d
    <3>1. new[c] = <<a>> \o q[d]
      BY <1>1, <2>1 DEF Lists
    <3>. QED  BY <1>4, <2>1, <3>1
  <2>2. CASE c # d
    <3>1. new[c] = q[c]
      BY <1>1, <2>2 DEF Lists
    <3>. QED  BY <2>2, <3>1 DEF Lists
  <2>. QED  BY <2>1, <2>2
<1>. QED  BY <1>5, <1>6 DEF Added, Lists, d, new

LEMMA UnlinkedIs ==
  ASSUME NEW q, Lists(q), NEW tree, NEW a, ClassOf(tree, a) \in Classes
  PROVE  Removed(Unlinked(q, tree, a), q, ClassOf(tree, a), a)
<1>. DEFINE d == ClassOf(tree, a)
            new == Unlinked(q, tree, a)
<1>1. new = [q EXCEPT ![d] = Without(q[d], {a})]
  BY DEF Unlinked
<1>2. q[d] \in Seq(Pages) /\ IsInjective(q[d])
  BY DEF Lists
<1>. HIDE DEF d, new
<1>3. /\ Without(q[d], {a}) \in Seq(Pages) /\ IsInjective(Without(q[d], {a}))
      /\ ToSet(Without(q[d], {a})) = ToSet(q[d]) \ {a}
  BY <1>2, WithoutIs
<1>4. new \in [Classes -> Seq(Pages)]
  BY <1>1, <1>3 DEF Lists
<1>5. ASSUME NEW c \in Classes
      PROVE  /\ IsInjective(new[c])
             /\ ToSet(new[c]) = IF c = d THEN ToSet(q[c]) \ {a} ELSE ToSet(q[c])
  <2>1. CASE c = d
    <3>1. new[c] = Without(q[d], {a})
      BY <1>1, <2>1 DEF Lists
    <3>. QED  BY <1>3, <2>1, <3>1
  <2>2. CASE c # d
    <3>1. new[c] = q[c]
      BY <1>1, <2>2 DEF Lists
    <3>. QED  BY <2>2, <3>1 DEF Lists
  <2>. QED  BY <2>1, <2>2
<1>. QED  BY <1>4, <1>5 DEF Removed, Lists, d, new

LEMMA CutShape ==
  ASSUME NEW tree, NEW q, NEW mem, Shape(tree, q, mem),
         NEW new, NEW a, NEW n, NEW tail, Cut(tree, new, a, n, tail),
         ~tree[a].is_live, new[a].is_live, \A b \in tail : ~new[b].is_live,
         NEW r, r = IF tail = {} THEN Unlinked(q, tree, a)
                    ELSE Pushed(Unlinked(q, tree, a), new, a + n)
  PROVE  Shape(new, r, mem) /\ tail \cap DOMAIN tree = {} /\ a \notin tail /\ tail \subseteq Pages
<1>1. tree \in [DOMAIN tree -> NodeRecords] /\ Apart(tree, mem)
  BY DEF Shape
<1>2. Apart(new, mem) /\ tail \cap DOMAIN tree = {} /\ a \notin tail /\ tail \subseteq Pages
  BY <1>1, CutApart
<1>. USE DEF Cut
<1>. DEFINE u == Unlinked(q, tree, a)
            d == ClassOf(tree, a)
<1>3. Lists(q) /\ \A c \in Classes : ToSet(q[c]) = DeadOf(tree, c)
  BY DEF Shape, InLists, Lists
<1>4. d \in Classes
  BY <1>1, SpanHas
<1>5. /\ Lists(u)
      /\ \A c \in Classes : ToSet(u[c]) = IF c = d THEN ToSet(q[c]) \ {a} ELSE ToSet(q[c])
  <2>1. Removed(u, q, d, a)
    BY <1>3, <1>4, UnlinkedIs
  <2>. QED  BY <2>1 DEF Removed
<1>. HIDE DEF u
<1>6. ASSUME NEW c \in Classes
      PROVE  ToSet(u[c]) = DeadOf(tree, c) \ {a}
  BY <1>3, <1>5 DEF DeadOf, ClassOf
<1>7. DOMAIN new = DOMAIN tree \cup tail
  OBVIOUS
<1>8. ASSUME NEW c \in Classes
      PROVE  DeadOf(new, c) = (DeadOf(tree, c) \ {a})
                                \cup {b \in tail : c = ClassOf(new, b)}
  <2>1. ASSUME NEW b
        PROVE  b \in DeadOf(new, c) <=> \/ b \in DeadOf(tree, c) \ {a}
                                        \/ b \in tail /\ c = ClassOf(new, b)
    <3>1. CASE b = a
      BY <1>2, <3>1 DEF DeadOf
    <3>2. CASE b \in DOMAIN tree /\ b # a
      BY <1>2, <1>7, <3>2 DEF DeadOf
    <3>3. CASE b \in tail
      BY <1>2, <1>7, <3>3 DEF DeadOf, ClassOf
    <3>4. CASE b \notin DOMAIN tree \cup tail
      BY <1>7, <3>4 DEF DeadOf
    <3>. QED  BY <3>1, <3>2, <3>3, <3>4
  <2>. QED  BY <2>1
<1>9. InLists(new, r)
  <2>1. CASE tail = {}
    BY <1>5, <1>6, <1>8, <2>1 DEF InLists, Lists, u
  <2>2. CASE tail # {}
    <3>1. tail = {a + n}
      BY <2>2
    <3>. DEFINE b == a + n
    <3>2. b \in tail /\ b \in Pages /\ b \in DOMAIN new /\ tail = {b}
      BY <1>2, <1>7, <3>1
    <3>3. r = Pushed(u, new, b)
      BY <2>2 DEF u
    <3>. HIDE DEF b
    <3>4. ClassOf(new, b) \in Classes
      BY <1>2, <1>7, <3>2, SpanHas
    <3>5. \A c \in Classes : b \notin ToSet(u[c])
      BY <1>2, <1>6, <3>2 DEF DeadOf
    <3>6. /\ Lists(Pushed(u, new, b))
          /\ \A c \in Classes :
              ToSet(Pushed(u, new, b)[c])
                   = IF c = ClassOf(new, b) THEN ToSet(u[c]) \cup {b} ELSE ToSet(u[c])
      <4>1. Added(Pushed(u, new, b), u, ClassOf(new, b), b)
        BY <1>5, <3>2, <3>4, <3>5, PushedIs
      <4>. QED  BY <4>1 DEF Added
    <3>7. ASSUME NEW c \in Classes
          PROVE  ToSet(r[c]) = DeadOf(new, c)
      <4>1. {x \in tail : c = ClassOf(new, x)} = IF c = ClassOf(new, b) THEN {b} ELSE {}
        BY <3>2
      <4>2. ToSet(u[c]) = DeadOf(tree, c) \ {a}
        BY <1>6
      <4>3. DeadOf(new, c) = ToSet(u[c]) \cup IF c = ClassOf(new, b) THEN {b} ELSE {}
        BY <1>8, <4>1, <4>2
      <4>4. ToSet(r[c]) = IF c = ClassOf(new, b) THEN ToSet(u[c]) \cup {b} ELSE ToSet(u[c])
        BY <3>3, <3>6
      <4>. QED  BY <4>3, <4>4
    <3>. HIDE DEF Cut
    <3>. QED  BY <3>3, <3>6, <3>7 DEF InLists, Lists
  <2>. QED  BY <2>1, <2>2
<1>. QED  BY <1>2, <1>7, <1>9 DEF Shape

\* large_object_space_alloc from the operating system.
Grown(tree, mem, new, a, span) ==
  /\ a \in Pages /\ new \in [DOMAIN tree \cup {a} -> NodeRecords]
  /\ span = a .. a + new[a].size - 1 /\ span \subseteq Pages \ mem
  /\ new[a].is_live /\ \A b \in DOMAIN tree : b # a => new[b] = tree[b]

LEMMA GrownShape ==
  ASSUME NEW tree, NEW q, NEW mem, Shape(tree, q, mem),
         NEW new, NEW a, NEW span, Grown(tree, mem, new, a, span)
  PROVE  Shape(new, q, mem \cup span) /\ a \notin DOMAIN tree
<1>. USE DEF Grown
<1>1. tree \in [DOMAIN tree -> NodeRecords] /\ Apart(tree, mem) /\ InLists(tree, q)
  BY DEF Shape
<1>2. /\ DOMAIN tree \subseteq Pages
      /\ \A b \in DOMAIN tree : SpanIn(tree, b) \subseteq Pages /\ b \in SpanIn(tree, b)
      /\ \A b, c \in DOMAIN tree : b # c => SpanIn(tree, b) \cap SpanIn(tree, c) = {}
      /\ mem = {p \in Pages : \E b \in DOMAIN tree : p \in SpanIn(tree, b)}
  BY <1>1, SpanHas DEF Apart
<1>3. a \in span
  <2>1. new[a].size \in Nat /\ new[a].size > 0 /\ a \in Nat
    <3>1. new \in [DOMAIN new -> NodeRecords] /\ a \in DOMAIN new
      OBVIOUS
    <3>. QED  BY <3>1, Node, PagesAre
  <2>. QED  BY <2>1
<1>4. \A b \in DOMAIN tree : SpanIn(tree, b) \subseteq mem
  BY <1>2
<1>5. a \notin DOMAIN tree
  BY <1>2, <1>3, <1>4
<1>6. /\ SpanIn(new, a) = span /\ DOMAIN new = DOMAIN tree \cup {a}
      /\ \A b \in DOMAIN tree : SpanIn(new, b) = SpanIn(tree, b)
  BY <1>5 DEF SpanIn
<1>7. Apart(new, mem \cup span)
  <2>1. DOMAIN new \subseteq Pages /\ \A b \in DOMAIN new : SpanIn(new, b) \subseteq Pages
    BY <1>2, <1>6
  <2>2. \A b, c \in DOMAIN new : b # c => SpanIn(new, b) \cap SpanIn(new, c) = {}
    BY <1>2, <1>4, <1>6
  <2>3. mem \cup span = {p \in Pages : \E b \in DOMAIN new : p \in SpanIn(new, b)}
    BY <1>2, <1>6
  <2>. QED  BY <2>1, <2>2, <2>3 DEF Apart
<1>8. \A c \in Classes : DeadOf(new, c) = DeadOf(tree, c)
  BY <1>5, <1>6 DEF DeadOf
<1>. QED  BY <1>1, <1>5, <1>6, <1>7, <1>8 DEF Shape, InLists

\* new is tree without some of its dead nodes, and with others older.
Trimmed(tree, new) ==
  /\ new \in [DOMAIN new -> NodeRecords] /\ DOMAIN new \subseteq DOMAIN tree
  /\ \A a \in DOMAIN tree : tree[a].is_live => a \in DOMAIN new
  /\ \A a \in DOMAIN new : /\ new[a].size = tree[a].size /\ new[a].is_live = tree[a].is_live
                           /\ new[a].mark = tree[a].mark /\ new[a].trace = tree[a].trace

LEMMA TrimmedShape ==
  ASSUME NEW tree, NEW q, NEW mem, Shape(tree, q, mem),
         NEW new, Trimmed(tree, new), NEW gone, gone = DOMAIN tree \ DOMAIN new,
         NEW r, r = [c \in Classes |-> Without(q[c], gone)],
         NEW left, left = mem \ UNION {SpanIn(tree, a) : a \in gone}
  PROVE  Shape(new, r, left)
<1>1. /\ tree \in [DOMAIN tree -> NodeRecords] /\ Apart(tree, mem)
      /\ new \in [DOMAIN new -> NodeRecords] /\ DOMAIN new \subseteq DOMAIN tree
      /\ \A a \in gone : a \in DOMAIN tree /\ ~tree[a].is_live
      /\ \A a \in DOMAIN tree : a \in DOMAIN new \/ a \in gone
  BY DEF Shape, Trimmed
<1>2. \A c \in Classes : q[c] \in Seq(Pages) /\ IsInjective(q[c]) /\ ToSet(q[c]) = DeadOf(tree, c)
  BY InItsList
<1>3. /\ DOMAIN tree \subseteq Pages
      /\ \A b \in DOMAIN tree : SpanIn(tree, b) \subseteq Pages
      /\ \A b, c \in DOMAIN tree : b # c => SpanIn(tree, b) \cap SpanIn(tree, c) = {}
      /\ mem = {p \in Pages : \E b \in DOMAIN tree : p \in SpanIn(tree, b)}
  BY <1>1 DEF Apart
<1>4. \A a \in DOMAIN new : SpanIn(new, a) = SpanIn(tree, a)
  BY DEF Trimmed, SpanIn
<1>5. Apart(new, left)
  <2>1. DOMAIN new \subseteq Pages /\ \A a \in DOMAIN new : SpanIn(new, a) \subseteq Pages
    BY <1>1, <1>3, <1>4
  <2>2. \A a, b \in DOMAIN new : a # b => SpanIn(new, a) \cap SpanIn(new, b) = {}
    BY <1>1, <1>3, <1>4
  <2>3. ASSUME NEW p
        PROVE  p \in left <=> p \in Pages /\ \E a \in DOMAIN new : p \in SpanIn(new, a)
    <3>1. p \in left <=> p \in mem /\ \A a \in gone : p \notin SpanIn(tree, a)
      OBVIOUS
    <3>2. ASSUME p \in left PROVE p \in Pages /\ \E a \in DOMAIN new : p \in SpanIn(new, a)
      <4>1. p \in Pages /\ \E a \in DOMAIN tree : p \in SpanIn(tree, a)
        BY <1>3, <3>1, <3>2
      <4>. QED  BY <1>1, <1>4, <3>1, <3>2, <4>1
    <3>3. ASSUME NEW a \in DOMAIN new, p \in Pages, p \in SpanIn(new, a) PROVE p \in left
      <4>1. p \in SpanIn(tree, a) /\ a \in DOMAIN tree
        BY <1>1, <1>4, <3>3
      <4>2. \A b \in gone : p \notin SpanIn(tree, b)
        BY <1>1, <1>3, <4>1
      <4>. QED  BY <1>3, <3>1, <3>3, <4>1, <4>2
    <3>. QED  BY <3>2, <3>3
  <2>. QED  BY <2>1, <2>2, <2>3 DEF Apart
<1>6. ASSUME NEW c \in Classes
      PROVE  r[c] \in Seq(Pages) /\ IsInjective(r[c]) /\ ToSet(r[c]) = DeadOf(new, c)
  <2>. DEFINE s == q[c]
  <2>1. s \in Seq(Pages) /\ IsInjective(s) /\ ToSet(s) = DeadOf(tree, c)
    BY <1>2
  <2>2. r[c] = Without(s, gone)
    OBVIOUS
  <2>. HIDE DEF s
  <2>3. /\ Without(s, gone) \in Seq(Pages) /\ IsInjective(Without(s, gone))
        /\ ToSet(Without(s, gone)) = ToSet(s) \ gone
    BY <2>1, WithoutIs
  <2>4. DeadOf(new, c) = DeadOf(tree, c) \ gone
    BY <1>1 DEF DeadOf, Trimmed
  <2>. QED  BY <2>1, <2>2, <2>3, <2>4
<1>7. InLists(new, r)
  BY <1>6 DEF InLists
<1>. QED  BY <1>1, <1>5, <1>7 DEF Shape

\* large_object_space_process_quarantine releases nodes and makes the others older.
LEMMA ProcessedIs ==
  ASSUME NEW tree, NEW q, Shape(tree, q, mapped), Processed(tree, q)
  PROVE  /\ Shape(object_tree', quarantine', mapped') /\ Trimmed(tree, object_tree')
         /\ object_map' = object_map \ (DOMAIN tree \ DOMAIN object_tree')
<1>. DEFINE gone == {a \in Listed(q) : Aged(tree[a])}
            new == [a \in DOMAIN tree \ gone |->
                      IF a \in Listed(q) THEN [tree[a] EXCEPT !.age = @ + 1] ELSE tree[a]]
<1>1. /\ object_tree' = new /\ quarantine' = [c \in Classes |-> Without(q[c], gone)]
      /\ object_map' = object_map \ gone
      /\ mapped' = mapped \ UNION {SpanIn(tree, a) : a \in gone}
  BY DEF Processed, SpanIn
<1>2. tree \in [DOMAIN tree -> NodeRecords]
  BY DEF Shape
<1>3. \A a : a \in Listed(q) <=> a \in DOMAIN tree /\ ~tree[a].is_live
  BY InItsList
<1>4. gone \subseteq DOMAIN tree /\ \A a \in gone : ~tree[a].is_live
  BY <1>3
<1>5. ASSUME NEW a \in DOMAIN tree \ gone
      PROVE  /\ new[a] \in NodeRecords
             /\ new[a].size = tree[a].size /\ new[a].is_live = tree[a].is_live
             /\ new[a].mark = tree[a].mark /\ new[a].trace = tree[a].trace
  <2>1. CASE a \in Listed(q)
    <3>1. new[a] = [tree[a] EXCEPT !.age = tree[a].age + 1]
      BY <2>1
    <3>2. ~Aged(tree[a]) /\ tree[a].age \in {0, 1}
      BY <1>2, <2>1, Node
    <3>3. tree[a].age + 1 \in {0, 1}
      BY <3>2 DEF Aged
    <3>4. tree[a] \in NodeRecords
      BY <1>2
    <3>. HIDE DEF new
    <3>. QED  BY <3>1, <3>3, <3>4 DEF NodeRecords
  <2>2. CASE a \notin Listed(q)
    <3>1. new[a] = tree[a]
      BY <2>2
    <3>. HIDE DEF new
    <3>. QED  BY <1>2, <3>1
  <2>. QED  BY <2>1, <2>2
<1>6. DOMAIN new = DOMAIN tree \ gone /\ new = [a \in DOMAIN new |-> new[a]]
  OBVIOUS
<1>. HIDE DEF gone, new
<1>7. Trimmed(tree, new)
  <2>1. new \in [DOMAIN new -> NodeRecords]
    BY <1>5, <1>6
  <2>. QED  BY <1>4, <1>5, <1>6, <2>1 DEF Trimmed
<1>8. gone = DOMAIN tree \ DOMAIN new
  BY <1>4, <1>6
<1>9. Shape(new, quarantine', mapped')
  <2>. DEFINE r == [c \in Classes |-> Without(q[c], gone)]
              left == mapped \ UNION {SpanIn(tree, a) : a \in gone}
  <2>1. /\ r = [c \in Classes |-> Without(q[c], gone)]
        /\ left = mapped \ UNION {SpanIn(tree, a) : a \in gone}
        /\ quarantine' = r /\ mapped' = left
    BY <1>1
  <2>. HIDE DEF r, left
  <2>2. Shape(new, r, left)
    BY <1>7, <1>8, <2>1, TrimmedShape
  <2>. QED  BY <2>1, <2>2
<1>. QED  BY <1>1, <1>7, <1>8, <1>9

\* large_object_space_sweep_one: nodes that were live are dead, and in front of the list
\* of their class.
LEMMA SweptShape ==
  ASSUME NEW tree, NEW q, NEW mem, Shape(tree, q, mem),
         NEW swept, swept \subseteq DOMAIN tree, \A a \in swept : tree[a].is_live,
         NEW new, new = [a \in DOMAIN tree |-> IF a \in swept THEN Dead(tree[a].size) ELSE tree[a]],
         NEW order \in [1 .. Cardinality(swept) -> swept], ToSet(order) = swept
  PROVE  Shape(new, AllPushed(q, new, order), mem)
<1>1. /\ tree \in [DOMAIN tree -> NodeRecords] /\ Apart(tree, mem)
      /\ \A c \in Classes : /\ q[c] \in Seq(Pages) /\ IsInjective(q[c])
                             /\ ToSet(q[c]) = DeadOf(tree, c)
  BY InItsList DEF Shape
<1>2. ASSUME NEW a \in DOMAIN tree
      PROVE  /\ new[a] \in NodeRecords /\ new[a].size = tree[a].size
             /\ new[a].is_live <=> tree[a].is_live /\ a \notin swept
  <2>1. CASE a \in swept
    <3>1. new[a] = Dead(tree[a].size)
      BY <2>1
    <3>2. tree[a].size \in Nat /\ tree[a].size > 0
      BY <1>1, Node
    <3>. QED  BY <2>1, <3>1, <3>2 DEF Dead, NodeRecords, Marks
  <2>2. CASE a \notin swept
    BY <1>1, <2>2
  <2>. QED  BY <2>1, <2>2
<1>3. DOMAIN new = DOMAIN tree /\ new \in [DOMAIN tree -> NodeRecords]
  BY <1>2
<1>4. /\ IsFiniteSet(swept) /\ order \in Seq(Pages) /\ IsInjective(order)
  <2>1. DOMAIN tree \subseteq Pages
    BY <1>1 DEF Apart
  <2>2. IsFiniteSet(swept) /\ Cardinality(swept) \in Nat
    BY <2>1, FS_Subset, FS_CardinalityType, LargeObjectsAssumption
  <2>. DEFINE n == Cardinality(swept)
              T == 1 .. n
  <2>3. order \in [T -> swept]
    OBVIOUS
  <2>4. IsFiniteSet(T) /\ Cardinality(T) = n
    BY <2>2, FS_Interval
  <2>5. order \in Surjection(T, swept)
    <3>1. \A t \in swept : \E s \in T : order[s] = t
      BY <2>3 DEF ToSet
    <3>. HIDE DEF T
    <3>. QED  BY <2>3, <3>1, Fun_IsSurj
  <2>6. order \in Injection(T, swept)
    <3>. HIDE DEF T
    <3>. QED  BY <2>4, <2>5, FS_SurjSameCardinalityImpliesInj
  <2>7. IsInjective(order)
    <3>. HIDE DEF T
    <3>1. \A i, j \in T : order[i] = order[j] => i = j
      BY <2>6, Fun_InjectionProperties
    <3>. QED  BY <2>3, <3>1 DEF IsInjective
  <2>8. order \in Seq(Pages)
    BY <2>1, <2>2, <2>3
  <2>. QED  BY <2>2, <2>7, <2>8
<1>5. ASSUME NEW c \in Classes
      PROVE  /\ AllPushed(q, new, order)[c] \in Seq(Pages)
             /\ IsInjective(AllPushed(q, new, order)[c])
             /\ ToSet(AllPushed(q, new, order)[c]) = DeadOf(new, c)
  <2>. DEFINE other == {a \in ToSet(order) : ClassOf(new, a) # c}
              s == Without(order, other)
              t == q[c]
  <2>1. AllPushed(q, new, order)[c] = s \o t
    BY DEF AllPushed
  <2>2. \A a : a \in ToSet(order) \ other <=> a \in swept /\ ClassOf(new, a) = c
    OBVIOUS
  <2>3. t \in Seq(Pages) /\ IsInjective(t) /\ ToSet(t) = DeadOf(tree, c)
    BY <1>1
  <2>. HIDE DEF other, t
  <2>4. s \in Seq(Pages) /\ IsInjective(s) /\ ToSet(s) = ToSet(order) \ other
    BY <1>4, WithoutIs
  <2>. HIDE DEF s
  <2>5. ToSet(s) \cap ToSet(t) = {}
    BY <2>2, <2>3, <2>4 DEF DeadOf
  <2>6. Joins(Pages, s \o t, s, t)
    BY <2>3, <2>4, <2>5, JoinedIs
  <2>7. ASSUME NEW a
        PROVE  a \in DeadOf(new, c) <=> a \in ToSet(s) \/ a \in ToSet(t)
    BY <1>2, <1>3, <2>2, <2>3, <2>4 DEF DeadOf, ClassOf
  <2>8. DeadOf(new, c) = ToSet(s) \cup ToSet(t)
    BY <2>7
  <2>. QED  BY <2>1, <2>6, <2>8 DEF Joins
<1>6. InLists(new, AllPushed(q, new, order))
  <2>1. AllPushed(q, new, order) \in [Classes -> Seq(Pages)]
    BY <1>5 DEF AllPushed
  <2>. QED  BY <1>5, <2>1 DEF InLists
<1>7. Apart(new, mem)
  <2>1. \A a \in DOMAIN tree : SpanIn(new, a) = SpanIn(tree, a)
    BY <1>2 DEF SpanIn
  <2>. QED  BY <1>1, <1>3, <2>1 DEF Apart
<1>. QED  BY <1>3, <1>6, <1>7 DEF Shape

--------------------------------------------------------------------------------
\* What the invariant says.

LEMMA Spans ==
  /\ \A a : Span(a) = SpanIn(object_tree, a)
  /\ \A a : Span(a)' = SpanIn(object_tree', a)
BY DEF Span, SpanIn

LEMMA Facts ==
  ASSUME IInv
  PROVE  /\ object_tree \in [Nodes -> NodeRecords] /\ Nodes \subseteq Pages
         /\ Live \subseteq Nodes /\ Null \notin Nodes /\ Nodes \cap Roots = {}
         /\ DOMAIN field = Live /\ Reached \subseteq Live
         /\ marked \in {MARK_0, MARK_1} /\ marked # NURSERY
<1>1. object_tree \in [Nodes -> NodeRecords] /\ Nodes \subseteq Pages
  BY DEF IInv, Space, Shape, Apart, Nodes
<1>2. DOMAIN field = Live /\ Reached \subseteq Live
  BY DEF IInv, Program
<1>3. marked \in {MARK_0, MARK_1} /\ marked # NURSERY
  BY DEF IInv, Counters, MARK_0, MARK_1, NURSERY
<1>. QED  BY <1>1, <1>2, <1>3, PagesAre DEF Live

LEMMA ReachedHas ==
  /\ Kept \subseteq Reached
  /\ \A a \in Reached : a \in DOMAIN field => field[a] \in Reached \cup {Null}
<1>. DEFINE k == Kept
<1>1. /\ k \subseteq Reach(field, k)
      /\ \A a \in Reach(field, k) : a \in DOMAIN field => field[a] \in Reach(field, k) \cup {Null}
  <2>. HIDE DEF k
  <2>. QED  BY ReachHas
<1>. QED  BY <1>1 DEF Reached

LEMMA ReachedWithin ==
  ASSUME NEW S, Kept' \subseteq S,
         \A a \in S : a \in DOMAIN field' => field'[a] \in S \cup {Null}
  PROVE  Reached' \subseteq S
<1>. DEFINE k == Kept'
            f == field'
<1>1. k \subseteq S /\ \A a \in S : a \in DOMAIN f => f[a] \in S \cup {Null}
  OBVIOUS
<1>2. Reached' = Reach(f, k)
  BY DEF Reached
<1>. HIDE DEF f, k
<1>. QED  BY <1>1, <1>2, ReachLeast

\* What a handle holds is live, and so is what its field refers to.
LEMMA Handled ==
  ASSUME IInv, NEW r \in Handles, root[r] # Null
  PROVE  /\ root[r] \in Reached /\ root[r] \in Live /\ root[r] \in Nodes /\ root[r] \in Pages
         /\ field[root[r]] \in Reached \cup {Null}
<1>1. root[r] \in Kept
  BY DEF Kept, InHandles
<1>2. root[r] \in Reached
  BY <1>1, ReachedHas
<1>. QED  BY <1>2, ReachedHas, Facts

LEMMA RootSet ==
  ASSUME root \in [Roots -> Pages \cup {Null}], NEW r \in Roots, NEW x \in Pages \cup {Null},
         root' = [root EXCEPT ![r] = x]
  PROVE  /\ root' \in [Roots -> Pages \cup {Null}]
         /\ InHandles' \subseteq InHandles \cup ({x} \ {Null})
         /\ r = Stack => InHandles' = InHandles /\ root'[Stack] = x
         /\ r \in Handles => root'[Stack] = root[Stack]
<1>1. Stack \notin Handles /\ Handles \subseteq Roots /\ Stack \in Roots
  BY LargeObjectsAssumption DEF Roots
<1>. QED  BY <1>1 DEF InHandles

\* Actions between collections leave the tracers alone.
LEMMA NoTracing ==
  ASSUME IInv, phase = "mutator", phase' = phase, UNCHANGED <<todo, pc>>
  PROVE  Tracing'
<1>1. pc \in [Workers -> Tracers] /\ todo = {} /\ \A w \in Workers : pc[w] = Idle
  BY DEF IInv, Tracing
<1>2. \A w \in Workers : pc[w].ref = Null
  BY <1>1 DEF Idle
<1>3. Workers' = Workers /\ Idle' = Idle
  BY DEF Workers, Idle
<1>. QED  BY <1>1, <1>2, <1>3 DEF Tracing, Tracers

LEMMA NewObjectIs ==
  ASSUME NEW n \in Nat, n > 0, NEW trace \in {"precisely", "none", "conservatively"}
  PROVE  /\ NewObject(n, trace) \in NodeRecords
         /\ NewObject(n, trace).size = n /\ NewObject(n, trace).is_live
         /\ NewObject(n, trace).mark = NURSERY /\ NewObject(n, trace).trace = trace
         /\ Dead(n) \in NodeRecords /\ Dead(n).size = n /\ ~Dead(n).is_live
         /\ Dead(n).mark = NURSERY /\ Dead(n).trace = "none"
<1>. DEFINE d == Dead(n)
            o == [d EXCEPT !.is_live = TRUE]
<1>1. /\ d \in NodeRecords /\ d.size = n /\ ~d.is_live /\ d.mark = NURSERY
      /\ d.trace = "none"
  BY DEF Dead, NodeRecords, Marks, NURSERY
<1>2. NewObject(n, trace) = [o EXCEPT !.trace = trace]
  BY DEF NewObject
<1>. HIDE DEF d
<1>3. o \in NodeRecords /\ o.size = n /\ o.is_live /\ o.mark = NURSERY
  BY <1>1 DEF NodeRecords
<1>. HIDE DEF o
<1>4. /\ [o EXCEPT !.trace = trace] \in NodeRecords
      /\ [o EXCEPT !.trace = trace].size = n /\ [o EXCEPT !.trace = trace].is_live
      /\ [o EXCEPT !.trace = trace].mark = NURSERY /\ [o EXCEPT !.trace = trace].trace = trace
  BY <1>3 DEF NodeRecords
<1>. QED  BY <1>1, <1>2, <1>4 DEF d

--------------------------------------------------------------------------------
\* Allocation.

\* The tree has one more live object, a new one, and other objects as they were.
Appears(a) ==
  /\ a \in Pages /\ a \notin Live /\ Live' = Live \cup {a}
  /\ \A b \in Live : object_tree'[b] = object_tree[b]
  /\ object_tree'[a].mark = NURSERY
  /\ \A b \in Nodes' \ Live' :
       \/ b \in Nodes \ Live /\ object_tree'[b].mark = object_tree[b].mark
       \/ object_tree'[b].mark = NURSERY

LEMMA AllocatedObjects ==
  ASSUME IInv, NEW a, NEW r \in Handles, NEW npages, phase = "mutator",
         Allocated(a, r, npages), Appears(a)
  PROVE  Program' /\ Barrier'
<1>. USE Facts
<1>1. /\ field' = [b \in DOMAIN field \cup {a} |-> IF b = a THEN Null ELSE field[b]]
      /\ root' = [root EXCEPT ![r] = a]
      /\ UNCHANGED <<marked, remembered_edges, remembered_set, phase>>
  BY DEF Allocated, mark_vars, remembered_vars, gc_vars
<1>2. /\ a \in Pages /\ a # Null /\ a \notin Live /\ Live' = Live \cup {a}
      /\ \A b \in Live : object_tree'[b] = object_tree[b]
      /\ object_tree'[a].mark = NURSERY
  BY PagesAre DEF Appears
<1>3. /\ DOMAIN field' = Live' /\ field'[a] = Null
      /\ \A b \in Live : field'[b] = field[b]
  BY <1>1, <1>2
<1>4. /\ field \in [Live -> Pages \cup {Null}] /\ root \in [Roots -> Pages \cup {Null}]
      /\ \A b \in Live : object_tree[b].trace = "none" => field[b] = Null
  BY DEF IInv, Program
<1>5. field' \in [Live' -> Pages \cup {Null}]
  <2>1. field' = [b \in Live' |-> field'[b]]
    BY <1>1, <1>2, <1>3
  <2>. QED  BY <1>2, <1>3, <1>4, <2>1
<1>6. /\ root' \in [Roots -> Pages \cup {Null}] /\ InHandles' \subseteq InHandles \cup {a}
      /\ root'[Stack] = root[Stack]
  <2>1. r \in Roots
    BY DEF Roots
  <2>. QED  BY <1>1, <1>2, <1>4, <2>1, RootSet
<1>7. Survivors' = Survivors
  BY <1>1, <1>2 DEF Survivors, is_survivor
<1>8. OnStack' \subseteq OnStack \cup {a}
  <2>1. \A b \in Live : SpanIn(object_tree', b) = SpanIn(object_tree, b)
    BY <1>2 DEF SpanIn
  <2>. QED  BY <1>2, <1>6, <2>1, Spans DEF OnStack
<1>9. Reached' \subseteq Reached \cup {a}
  <2>1. Kept' \subseteq Kept \cup {a}
    BY <1>6, <1>7, <1>8 DEF Kept
  <2>2. Kept' \subseteq Reached \cup {a}
    BY <2>1, ReachedHas
  <2>3. \A b \in Reached \cup {a} :
          b \in DOMAIN field' => field'[b] \in Reached \cup {a} \cup {Null}
    BY <1>2, <1>3, ReachedHas
  <2>. DEFINE S == Reached \cup {a}
  <2>4. Kept' \subseteq S /\ \A b \in S : b \in DOMAIN field' => field'[b] \in S \cup {Null}
    BY <2>2, <2>3
  <2>. HIDE DEF S
  <2>5. Reached' \subseteq S
    BY <2>4, ReachedWithin
  <2>. QED  BY <2>5 DEF S
<1>10. Program'
  <2>1. \A b \in Live' : object_tree'[b].trace = "none" => field'[b] = Null
    BY <1>2, <1>3, <1>4
  <2>2. Reached' \subseteq Live'
    BY <1>2, <1>9
  <2>. QED  BY <1>5, <1>6, <2>1, <2>2 DEF Program
<1>11. Barrier'
  <2>1. /\ remembered_edges = remembered_set /\ remembered_set \subseteq Pages
        /\ remembered_set \subseteq Survivors
        /\ \A b \in Reached : is_survivor(b) /\ field[b] # Null /\ ~is_survivor(field[b])
                                => b \in remembered_set
        /\ \A b \in Live : object_tree[b].mark \in {NURSERY, marked}
    BY DEF IInv, Barrier
  <2>2. ASSUME NEW b \in Reached', is_survivor(b)', field'[b] # Null, ~is_survivor(field[b])'
        PROVE  b \in remembered_set
    <3>1. b # a /\ b \in Reached /\ b \in Live
      BY <1>1, <1>2, <1>9, <2>2 DEF is_survivor
    <3>2. field'[b] = field[b] /\ field[b] \in Reached /\ field[b] \in Live
      BY <1>3, <2>2, <3>1, ReachedHas
    <3>3. is_survivor(b) /\ ~is_survivor(field[b])
      BY <1>1, <1>2, <2>2, <3>1, <3>2 DEF is_survivor
    <3>. QED  BY <2>1, <2>2, <3>1, <3>2, <3>3
  <2>3. \A b \in Live' : object_tree'[b].mark \in {NURSERY, marked}
    BY <1>2, <2>1
  <2>. QED  BY <1>1, <1>7, <2>1, <2>2, <2>3 DEF Barrier
<1>. QED  BY <1>10, <1>11

LEMMA AllocatedExact ==
  ASSUME IInv, ~AnyWord, NEW a, NEW r \in Handles, NEW npages, phase = "mutator",
         Allocated(a, r, npages), Appears(a), reused' \subseteq reused \cup {a},
         reused \subseteq Live
  PROVE  Exact'
<1>. USE Facts
<1>1. /\ root' = [root EXCEPT ![r] = a]
      /\ UNCHANGED <<marked, phase, live_pages>>
  BY DEF Allocated, mark_vars, gc_vars
<1>2. /\ a \in Pages /\ a # Null /\ a \notin Live /\ Live' = Live \cup {a}
      /\ \A b \in Live : object_tree'[b] = object_tree[b]
      /\ object_tree'[a].mark = NURSERY
      /\ \A b \in Nodes' \ Live' :
           \/ b \in Nodes \ Live /\ object_tree'[b].mark = object_tree[b].mark
           \/ object_tree'[b].mark = NURSERY
  BY PagesAre DEF Appears
<1>3. /\ root[Stack] # Null => \E b \in Live : root[Stack] \in Span(b)
      /\ \A b \in Nodes \ Live : object_tree[b].mark = NURSERY
      /\ \A b \in reused : ~is_survivor(b)
      /\ live_pages = Total(surviving)
  BY DEF IInv, Exact
<1>4. root'[Stack] = root[Stack]
  <2>1. r \in Roots /\ root \in [Roots -> Pages \cup {Null}]
    BY DEF IInv, Program, Roots
  <2>. QED  BY <1>1, <1>2, <2>1, RootSet
<1>5. root'[Stack] # Null => \E b \in Live' : root'[Stack] \in Span(b)'
  <2>1. \A b \in Live : SpanIn(object_tree', b) = SpanIn(object_tree, b)
    BY <1>2 DEF SpanIn
  <2>. QED  BY <1>2, <1>3, <1>4, <2>1, Spans
<1>6. \A b \in Nodes' \ Live' : object_tree'[b].mark = NURSERY
  BY <1>2, <1>3
<1>7. \A b \in reused' : ~is_survivor(b)'
  BY <1>1, <1>2, <1>3 DEF is_survivor
<1>8. surviving' = surviving
  BY <1>1, <1>2 DEF surviving, is_survivor
<1>9. (live_pages = Total(surviving))'
  BY <1>1, <1>3, <1>8, TotalThen
<1>. QED  BY <1>1, <1>5, <1>6, <1>7, <1>9 DEF Exact

LEMMA HolesAre ==
  ASSUME IInv, NEW n, NEW a \in Holes(n)
  PROVE  a \in Nodes \ Live /\ object_tree[a].size >= n
<1>1. PICK c \in Classes : \E i \in DOMAIN quarantine[c] :
        a = quarantine[c][i] /\ object_tree[quarantine[c][i]].size >= n
  BY DEF Holes
<1>2. a \in ToSet(quarantine[c]) /\ object_tree[a].size >= n
  BY <1>1 DEF ToSet
<1>3. Shape(object_tree, quarantine, mapped)
  BY DEF IInv, Space
<1>4. ToSet(quarantine[c]) = DeadOf(object_tree, c)
  BY <1>3, InItsList
<1>. QED  BY <1>2, <1>4 DEF DeadOf, Nodes, Live

LEMMA Asked ==
  ASSUME NEW npages \in Sizes, NEW trace \in Kinds
  PROVE  npages \in Nat /\ npages > 0 /\ trace \in {"precisely", "none", "conservatively"}
BY LargeObjectsAssumption

LEMMA SpaceParts ==
  ASSUME IInv
  PROVE  /\ Shape(object_tree, quarantine, mapped) /\ object_map = Nodes
         /\ \A a \in Nodes \ Live : object_tree[a].trace = "none"
         /\ nursery \subseteq Live /\ reused \subseteq nursery /\ reused \subseteq Live
         /\ phase = "mutator" => extents = {}
BY DEF IInv, Space

LEMMA ReuseKeeps ==
  ASSUME IInv, NEW npages \in Sizes, NEW trace \in Kinds, NEW r \in Handles,
         Reuse(npages, trace, r)
  PROVE  IInv'
<1>1. phase = "mutator"
  BY DEF Reuse, Running
<1>. DEFINE NewTree(a, tail) ==
              [b \in Nodes \cup tail |->
                IF b = a THEN NewObject(npages, trace)
                ELSE IF b \in tail THEN Dead(object_tree[a].size - npages)
                ELSE object_tree[b]]
<1>2. PICK a \in Holes(npages) :
        /\ object_tree' = NewTree(a, TailOf(a, npages))
        /\ object_map' = object_map \cup TailOf(a, npages)
        /\ quarantine' = IF TailOf(a, npages) = {} THEN Unlinked(quarantine, object_tree, a)
                         ELSE Pushed(Unlinked(quarantine, object_tree, a),
                                     NewTree(a, TailOf(a, npages)), a + npages)
        /\ nursery' = nursery \cup {a}
        /\ free_pages' = free_pages - npages /\ reused' = reused \cup {a}
        /\ UNCHANGED <<total_pages, mapped>>
        /\ Allocated(a, r, npages)
  BY DEF Reuse, AddToNursery
<1>. DEFINE tail == TailOf(a, npages)
            new == NewTree(a, tail)
<1>3. /\ a \in Nodes \ Live /\ a \in Nodes /\ object_tree[a].size >= npages
      /\ object_tree[a].size \in Nat /\ ~object_tree[a].is_live
      /\ npages \in Nat /\ npages > 0 /\ trace \in {"precisely", "none", "conservatively"}
  BY HolesAre, Facts, Node, Asked DEF Live
<1>4. tail = IF object_tree[a].size > npages THEN {a + npages} ELSE {}
  BY DEF TailOf
<1>5. /\ new[a] = NewObject(npages, trace)
      /\ \A b \in tail : b # a => new[b] = Dead(object_tree[a].size - npages)
      /\ \A b \in Nodes : b # a /\ b \notin tail => new[b] = object_tree[b]
      /\ DOMAIN new = Nodes \cup tail /\ new = [b \in Nodes \cup tail |-> new[b]]
  BY <1>3
<1>. HIDE DEF new, tail
<1>6. /\ NewObject(npages, trace) \in NodeRecords
      /\ NewObject(npages, trace).size = npages /\ NewObject(npages, trace).is_live
      /\ NewObject(npages, trace).mark = NURSERY
  BY <1>3, NewObjectIs
<1>7. tail # {} => LET d == Dead(object_tree[a].size - npages)
                   IN d \in NodeRecords /\ d.size = object_tree[a].size - npages /\ ~d.is_live
                      /\ d.mark = NURSERY /\ d.trace = "none"
  <2>1. ASSUME tail # {}
        PROVE  object_tree[a].size - npages \in Nat /\ object_tree[a].size - npages > 0
    BY <1>3, <1>4, <2>1
  <2>. QED  BY <1>3, <2>1, NewObjectIs
<1>8. a \notin tail /\ tail \cap Nodes = {}
  <2>1. /\ object_tree \in [DOMAIN object_tree -> NodeRecords] /\ Apart(object_tree, mapped)
    BY SpaceParts DEF Shape
  <2>2. a \notin tail
    BY <1>3, <1>4, Facts, PagesAre
  <2>3. \A b \in tail : b \in SpanIn(object_tree, a)
    BY <1>3, <1>4, Facts, PagesAre DEF SpanIn
  <2>4. \A b \in Nodes : b # a => SpanIn(object_tree, b) \cap SpanIn(object_tree, a) = {}
    BY <1>3, <2>1 DEF Apart, Nodes
  <2>5. \A b \in Nodes : b \in SpanIn(object_tree, b)
    BY <2>1, SpanHas DEF Nodes
  <2>. QED  BY <2>2, <2>3, <2>4, <2>5
<1>9. new \in [Nodes \cup tail -> NodeRecords]
  <2>1. ASSUME NEW b \in Nodes \cup tail PROVE new[b] \in NodeRecords
    BY <1>5, <1>6, <1>7, <1>8, Facts
  <2>. QED  BY <1>5, <2>1
<1>10. Cut(object_tree, new, a, npages, tail)
  BY <1>3, <1>4, <1>5, <1>6, <1>7, <1>8, <1>9 DEF Cut, Nodes
<1>11. /\ ~object_tree[a].is_live /\ new[a].is_live /\ \A b \in tail : ~new[b].is_live
       /\ \A b \in tail : new[b].mark = NURSERY /\ new[b].trace = "none"
  BY <1>3, <1>5, <1>6, <1>7, <1>8
<1>12. object_tree' = new /\ Nodes' = Nodes \cup tail
  BY <1>2, <1>5 DEF Nodes, new, tail
<1>13. Shape(new, quarantine', mapped) /\ tail \subseteq Pages
  <2>. DEFINE q == quarantine'
  <2>1. Shape(object_tree, quarantine, mapped)
    BY SpaceParts
  <2>2. q = IF tail = {} THEN Unlinked(quarantine, object_tree, a)
            ELSE Pushed(Unlinked(quarantine, object_tree, a), new, a + npages)
    BY <1>2 DEF new, tail
  <2>. HIDE DEF q
  <2>3. Shape(new, q, mapped) /\ tail \subseteq Pages
    BY <1>10, <1>11, <2>1, <2>2, CutShape
  <2>. QED  BY <2>3 DEF q
<1>14. Live' = Live \cup {a}
  BY <1>3, <1>5, <1>6, <1>8, <1>11, <1>12 DEF Live
<1>15. Space'
  <2>1. \A b \in Nodes' \ Live' : object_tree'[b].trace = "none"
    BY <1>5, <1>8, <1>11, <1>12, <1>14, SpaceParts
  <2>. QED  BY <1>1, <1>2, <1>12, <1>13, <1>14, <2>1, SpaceParts
            DEF Space, tail, Allocated, gc_vars, mark_vars
<1>16. Appears(a)
  BY <1>3, <1>5, <1>6, <1>8, <1>11, <1>12, <1>14, Facts DEF Appears, Live
<1>17. Program' /\ Barrier'
  BY <1>1, <1>2, <1>16, AllocatedObjects
<1>18. Counters'
  BY <1>1, <1>2, <1>3 DEF IInv, Counters, Allocated, mark_vars, gc_vars
<1>19. Tracing'
  BY <1>1, <1>2, NoTracing DEF Allocated, gc_vars
<1>20. ~AnyWord => Exact'
  BY <1>1, <1>2, <1>16, SpaceParts, AllocatedExact
<1>. QED  BY <1>15, <1>17, <1>18, <1>19, <1>20 DEF IInv

LEMMA AcquireKeeps ==
  ASSUME IInv, NEW npages \in Sizes, NEW trace \in Kinds, NEW r \in Handles,
         Acquire(npages, trace, r)
  PROVE  IInv'
<1>1. phase = "mutator"
  BY DEF Acquire, Running
<1>. DEFINE NewTree(a) == [b \in Nodes \cup {a} |-> IF b = a THEN NewObject(npages, trace)
                                                  ELSE object_tree[b]]
<1>2. PICK a \in Bases :
        /\ a .. a + npages - 1 \subseteq Pages \ mapped
        /\ mapped' = mapped \cup (a .. a + npages - 1)
        /\ object_tree' = NewTree(a)
        /\ object_map' = object_map \cup {a}
        /\ total_pages' = total_pages + npages
        /\ UNCHANGED <<nursery, quarantine, free_pages, reused>>
        /\ Allocated(a, r, npages)
  BY DEF Acquire
<1>. DEFINE new == NewTree(a)
            span == a .. a + npages - 1
<1>3. /\ a \in Pages /\ npages \in Nat /\ npages > 0
      /\ trace \in {"precisely", "none", "conservatively"}
  BY Asked, LargeObjectsAssumption
<1>4. /\ new[a] = NewObject(npages, trace)
      /\ \A b \in Nodes : b # a => new[b] = object_tree[b]
      /\ DOMAIN new = Nodes \cup {a} /\ new = [b \in Nodes \cup {a} |-> new[b]]
  OBVIOUS
<1>5. object_tree' = new /\ mapped' = mapped \cup span /\ span \subseteq Pages \ mapped
      /\ span = a .. a + npages - 1
  BY <1>2
<1>. HIDE DEF new, span
<1>6. /\ NewObject(npages, trace) \in NodeRecords
      /\ NewObject(npages, trace).size = npages /\ NewObject(npages, trace).is_live
      /\ NewObject(npages, trace).mark = NURSERY
  BY <1>3, NewObjectIs
<1>7. new \in [DOMAIN object_tree \cup {a} -> NodeRecords]
  <2>1. ASSUME NEW b \in Nodes \cup {a} PROVE new[b] \in NodeRecords
    BY <1>4, <1>6, Facts
  <2>. QED  BY <1>4, <2>1 DEF Nodes
<1>8. Shape(new, quarantine, mapped \cup span) /\ a \notin Nodes
  <2>1. /\ Shape(object_tree, quarantine, mapped)
        /\ new[a].size = npages /\ new[a].is_live
        /\ \A b \in DOMAIN object_tree : b # a => new[b] = object_tree[b]
    BY <1>4, <1>6, SpaceParts DEF Nodes
  <2>2. Grown(object_tree, mapped, new, a, span)
    BY <1>3, <1>5, <1>7, <2>1 DEF Grown
  <2>. QED  BY <2>1, <2>2, GrownShape DEF Nodes
<1>9. Nodes' = Nodes \cup {a} /\ Live' = Live \cup {a}
  BY <1>4, <1>5, <1>6, <1>8 DEF Nodes, Live
<1>10. Space'
  <2>1. \A b \in Nodes' \ Live' : object_tree'[b].trace = "none"
    BY <1>4, <1>5, <1>8, <1>9, SpaceParts
  <2>. QED  BY <1>1, <1>2, <1>5, <1>8, <1>9, <2>1, SpaceParts
            DEF Space, Allocated, gc_vars, mark_vars
<1>11. Appears(a)
  BY <1>3, <1>4, <1>5, <1>6, <1>8, <1>9, Facts DEF Appears, Live
<1>12. Program' /\ Barrier'
  BY <1>1, <1>2, <1>11, AllocatedObjects
<1>13. Counters'
  BY <1>1, <1>2, <1>3 DEF IInv, Counters, Allocated, mark_vars, gc_vars
<1>14. Tracing'
  BY <1>1, <1>2, NoTracing DEF Allocated, gc_vars
<1>15. ~AnyWord => Exact'
  BY <1>1, <1>2, <1>11, SpaceParts, AllocatedExact
<1>. QED  BY <1>10, <1>12, <1>13, <1>14, <1>15 DEF IInv

--------------------------------------------------------------------------------
\* What mutators do with references.

LEMMA WriteKeeps ==
  ASSUME IInv, NEW r \in Handles, NEW ref, Write(r, ref),
         ref = Null \/ \E v \in Handles : ref = root[v]
  PROVE  IInv'
<1>. DEFINE a == root[r]
            remember == /\ ref # Null /\ ~is_survivor(ref) /\ is_survivor(a)
                        /\ a \notin remembered_edges
<1>1. /\ phase = "mutator" /\ a # Null /\ object_tree[a].trace # "none"
      /\ field' = [field EXCEPT ![a] = ref]
      /\ remembered_edges' = IF remember THEN remembered_edges \cup {a} ELSE remembered_edges
      /\ remembered_set' = IF remember THEN remembered_set \cup {a} ELSE remembered_set
      /\ UNCHANGED <<space_vars, mark_vars, synchronous_release, root, gc_vars, program_vars>>
  BY DEF Write, Running
<1>. USE DEF space_vars, mark_vars, gc_vars, program_vars
<1>2. a \in Reached /\ a \in Live /\ a \in Pages
  BY <1>1, Handled
<1>3. ref \in Reached \cup {Null} /\ ref \in Live \cup {Null} /\ ref \in Pages \cup {Null}
  BY Handled
<1>. HIDE DEF a, remember
<1>4. /\ Nodes' = Nodes /\ Live' = Live /\ Survivors' = Survivors
      /\ \A b : is_survivor(b)' = is_survivor(b)
  BY <1>1 DEF Nodes, Live, Survivors, is_survivor
<1>5. Kept' = Kept
  BY <1>1, <1>4 DEF Kept, InHandles, OnStack, Span
<1>6. /\ field \in [Live -> Pages \cup {Null}] /\ root \in [Roots -> Pages \cup {Null}]
      /\ \A b \in Live : object_tree[b].trace = "none" => field[b] = Null
  BY DEF IInv, Program
<1>7. /\ field' \in [Live -> Pages \cup {Null}] /\ DOMAIN field' = Live /\ field'[a] = ref
      /\ \A b \in Live : b # a => field'[b] = field[b]
  BY <1>1, <1>2, <1>3, <1>6
<1>8. Reached' \subseteq Reached
  <2>1. Kept' \subseteq Reached
    BY <1>5, ReachedHas
  <2>2. \A b \in Reached : b \in DOMAIN field' => field'[b] \in Reached \cup {Null}
    BY <1>3, <1>6, <1>7, ReachedHas
  <2>. QED  BY <2>1, <2>2, ReachedWithin
<1>9. Program'
  <2>1. \A b \in Live' : object_tree'[b].trace = "none" => field'[b] = Null
    BY <1>1, <1>4, <1>6, <1>7
  <2>2. Reached' \subseteq Live'
    BY <1>4, <1>8, Facts
  <2>. QED  BY <1>1, <1>4, <1>6, <1>7, <2>1, <2>2 DEF Program
<1>10. Barrier'
  <2>1. /\ remembered_edges = remembered_set /\ remembered_set \subseteq Pages
        /\ remembered_set \subseteq Survivors
        /\ \A b \in Reached : is_survivor(b) /\ field[b] # Null /\ ~is_survivor(field[b])
                                => b \in remembered_set
        /\ \A b \in Live : object_tree[b].mark \in {NURSERY, marked}
    BY <1>1 DEF IInv, Barrier
  <2>2. /\ remembered_edges' = remembered_set' /\ remembered_set' \subseteq Pages
        /\ remembered_set \subseteq remembered_set'
    BY <1>1, <1>2, <2>1
  <2>3. remembered_set' \subseteq Survivors'
    BY <1>1, <1>2, <1>4, <2>1 DEF remember, Survivors
  <2>4. ASSUME NEW b \in Reached', is_survivor(b)', field'[b] # Null, ~is_survivor(field[b])'
        PROVE  b \in remembered_set'
    <3>1. b \in Reached /\ b \in Live /\ is_survivor(b)
      BY <1>4, <1>8, <2>4, Facts
    <3>2. ~is_survivor(field'[b])
      BY <1>1, <2>4 DEF is_survivor
    <3>3. CASE b = a
      BY <1>1, <1>7, <2>1, <2>4, <3>1, <3>2, <3>3 DEF remember
    <3>4. CASE b # a
      BY <1>7, <2>1, <2>2, <2>4, <3>1, <3>2, <3>4
    <3>. QED  BY <3>3, <3>4
  <2>5. \A b \in Live' : object_tree'[b].mark \in {NURSERY, marked'}
    BY <1>1, <1>4, <2>1
  <2>. QED  BY <1>1, <2>2, <2>3, <2>4, <2>5 DEF Barrier
<1>11. Counters'
  BY <1>1 DEF IInv, Counters
<1>12. Space'
  BY <1>1, <1>4, SpaceParts DEF Space
<1>13. Tracing'
  BY <1>1, NoTracing
<1>14. ASSUME ~AnyWord PROVE Exact'
  <2>1. Exact
    BY <1>14 DEF IInv
  <2>2. surviving' = surviving
    BY <1>1, <1>4 DEF surviving
  <2>3. (live_pages = Total(surviving))'
    BY <1>1, <2>1, <2>2, TotalThen DEF Exact
  <2>. QED  BY <1>1, <1>4, <2>1, <2>3, Spans DEF Exact
<1>. QED  BY <1>9, <1>10, <1>11, <1>12, <1>13, <1>14 DEF IInv

\* What a handle or the stack holds changes, and nothing else does.
LEMMA RootKeeps ==
  ASSUME IInv, phase = "mutator", NEW r \in Roots, NEW x \in Pages \cup {Null},
         root' = [root EXCEPT ![r] = x],
         UNCHANGED <<space_vars, mark_vars, remembered_vars, synchronous_release, field,
                     gc_vars, program_vars>>,
         Kept' \subseteq Reached,
         ~AnyWord /\ r = Stack /\ x # Null => \E b \in Live : x \in Span(b)
  PROVE  IInv'
<1>. USE DEF space_vars, mark_vars, remembered_vars, gc_vars, program_vars
<1>1. /\ Nodes' = Nodes /\ Live' = Live /\ Survivors' = Survivors
      /\ \A b : is_survivor(b)' = is_survivor(b)
  BY DEF Nodes, Live, Survivors, is_survivor
<1>2. /\ field \in [Live -> Pages \cup {Null}] /\ root \in [Roots -> Pages \cup {Null}]
      /\ \A b \in Live : object_tree[b].trace = "none" => field[b] = Null
  BY DEF IInv, Program
<1>3. /\ root' \in [Roots -> Pages \cup {Null}]
      /\ r = Stack => root'[Stack] = x
      /\ r \in Handles => root'[Stack] = root[Stack]
  BY <1>2, RootSet
<1>4. Reached' \subseteq Reached
  <2>1. \A b \in Reached : b \in DOMAIN field' => field'[b] \in Reached \cup {Null}
    BY ReachedHas
  <2>. QED  BY <2>1, ReachedWithin
<1>5. Program'
  <2>1. Reached' \subseteq Live'
    BY <1>1, <1>4, Facts
  <2>. QED  BY <1>1, <1>2, <1>3, <2>1 DEF Program
<1>6. Barrier'
  <2>1. Barrier
    BY DEF IInv
  <2>2. \A b : is_survivor(field[b])' = is_survivor(field[b])
    BY DEF is_survivor
  <2>. QED  BY <1>1, <1>4, <2>1, <2>2 DEF Barrier
<1>7. Counters'
  BY DEF IInv, Counters
<1>8. Space'
  BY <1>1, SpaceParts DEF Space
<1>9. Tracing'
  BY NoTracing
<1>10. ASSUME ~AnyWord PROVE Exact'
  <2>1. Exact
    BY <1>10 DEF IInv
  <2>2. surviving' = surviving
    BY <1>1 DEF surviving
  <2>3. (live_pages = Total(surviving))'
    BY <2>1, <2>2, TotalThen DEF Exact
  <2>4. \A b : Span(b)' = Span(b)
    BY Spans
  <2>5. root'[Stack] # Null => \E b \in Live' : root'[Stack] \in Span(b)'
    <3>1. CASE r = Stack
      BY <1>1, <1>3, <1>10, <2>4, <3>1
    <3>2. CASE r \in Handles
      BY <1>1, <1>3, <2>1, <2>4, <3>2 DEF Exact
    <3>. QED  BY <3>1, <3>2 DEF Roots
  <2>. QED  BY <1>1, <2>1, <2>3, <2>5 DEF Exact
<1>. QED  BY <1>5, <1>6, <1>7, <1>8, <1>9, <1>10 DEF IInv

LEMMA MoveKeeps ==
  ASSUME IInv, NEW r \in Handles, NEW ref, Move(r, ref)
  PROVE  IInv'
<1>1. /\ phase = "mutator" /\ root[r] # Null /\ ref \in {Null, field[root[r]]}
      /\ root' = [root EXCEPT ![r] = ref]
      /\ UNCHANGED <<space_vars, mark_vars, remembered_vars, synchronous_release, field,
                     gc_vars, program_vars>>
  BY DEF Move, Running
<1>2. ref \in Reached \cup {Null} /\ ref \in Pages \cup {Null} /\ r \in Roots
  BY <1>1, Handled, Facts DEF Roots
<1>3. root \in [Roots -> Pages \cup {Null}]
  BY DEF IInv, Program
<1>4. InHandles' \subseteq InHandles \cup ({ref} \ {Null}) /\ root'[Stack] = root[Stack]
  BY <1>1, <1>2, <1>3, RootSet
<1>5. Kept' \subseteq Kept \cup ({ref} \ {Null})
  BY <1>1, <1>4, Spans
     DEF Kept, OnStack, Survivors, is_survivor, Live, Nodes, space_vars, mark_vars
<1>6. Kept' \subseteq Reached
  BY <1>2, <1>5, ReachedHas
<1>7. r # Stack
  BY LargeObjectsAssumption
<1>. QED  BY <1>1, <1>2, <1>6, <1>7, RootKeeps

LEMMA PushKeeps ==
  ASSUME IInv, NEW word \in Words \cup {Null}, Push(word)
  PROVE  IInv'
<1>1. /\ phase = "mutator" /\ root' = [root EXCEPT ![Stack] = word]
      /\ AnyWord \/ word = Null \/ \E r \in Handles : root[r] # Null /\ word \in Span(root[r])
      /\ UNCHANGED <<space_vars, mark_vars, remembered_vars, synchronous_release, field,
                     gc_vars, program_vars>>
  BY DEF Push, Running
<1>2. word \in Pages \cup {Null} /\ Stack \in Roots
  BY LargeObjectsAssumption DEF Roots
<1>3. root \in [Roots -> Pages \cup {Null}]
  BY DEF IInv, Program
<1>4. InHandles' = InHandles /\ root'[Stack] = word
  BY <1>1, <1>2, <1>3, RootSet
<1>5. /\ Live' = Live /\ Survivors' = Survivors
      /\ \A b : Span(b)' = Span(b)
  BY <1>1, Spans DEF Survivors, is_survivor, Live, Nodes, space_vars, mark_vars
<1>6. Kept' \subseteq Reached
  <2>1. CASE AnyWord
    BY <1>4, <2>1, ReachedHas DEF Kept
  <2>2. CASE ~AnyWord
    <3>1. ASSUME NEW b \in Live, word \in Span(b) PROVE b \in InHandles
      <4>1. word # Null
        <5>1. SpanIn(object_tree, b) \subseteq Pages
          BY Facts, SpaceParts, SpanHas DEF Shape, Nodes
        <5>. QED  BY <3>1, <5>1, Spans, PagesAre
      <4>2. PICK r \in Handles : root[r] # Null /\ word \in Span(root[r])
        BY <1>1, <2>2, <4>1
      <4>3. root[r] \in Nodes /\ b \in Nodes
        BY <4>2, Handled, Facts
      <4>4. \A c, d \in Nodes : c # d => SpanIn(object_tree, c) \cap SpanIn(object_tree, d) = {}
        BY SpaceParts DEF Shape, Apart, Nodes
      <4>5. b = root[r]
        BY <3>1, <4>2, <4>3, <4>4, Spans
      <4>. QED  BY <4>2, <4>5 DEF InHandles
    <3>2. OnStack' \subseteq InHandles
      BY <1>4, <1>5, <3>1 DEF OnStack
    <3>3. InHandles \cup Survivors \subseteq Kept
      BY <2>2 DEF Kept
    <3>. QED  BY <1>4, <1>5, <3>2, <3>3, ReachedHas DEF Kept
  <2>. QED  BY <2>1, <2>2
<1>7. ~AnyWord /\ word # Null => \E b \in Live : word \in Span(b)
  BY <1>1, Handled
<1>. QED  BY <1>1, <1>2, <1>6, <1>7, RootKeeps

--------------------------------------------------------------------------------
\* The background task.

LEMMA ReleaseKeeps ==
  ASSUME IInv, large_object_space_process_quarantine
  PROVE  IInv'
<1>1. /\ phase = "mutator" /\ Processed(object_tree, quarantine)
      /\ UNCHANGED <<nursery, total_pages, free_pages, mark_vars, remembered_vars,
                     synchronous_release, field, root, gc_vars, program_vars>>
  BY DEF large_object_space_process_quarantine
<1>. USE DEF mark_vars, remembered_vars, gc_vars, program_vars
<1>2. /\ Shape(object_tree', quarantine', mapped') /\ Trimmed(object_tree, object_tree')
      /\ object_map' = object_map \ (Nodes \ Nodes')
  BY <1>1, SpaceParts, ProcessedIs DEF Nodes
<1>3. /\ Nodes' \subseteq Nodes /\ \A b \in Live : b \in Nodes'
      /\ \A b \in Nodes' : /\ object_tree'[b].size = object_tree[b].size
                           /\ object_tree'[b].is_live = object_tree[b].is_live
                           /\ object_tree'[b].mark = object_tree[b].mark
                           /\ object_tree'[b].trace = object_tree[b].trace
  BY <1>2 DEF Trimmed, Nodes, Live
<1>4. Live' = Live
  BY <1>3 DEF Live
<1>5. /\ \A b \in Live : is_survivor(b)' = is_survivor(b) /\ Span(b)' = Span(b)
      /\ Survivors' = Survivors
  BY <1>1, <1>3, <1>4 DEF Survivors, is_survivor, Span
<1>6. Kept' = Kept
  BY <1>1, <1>4, <1>5 DEF Kept, InHandles, OnStack
<1>7. Reached' = Reached
  BY <1>1, <1>6 DEF Reached
<1>8. Space'
  <2>1. \A b \in Nodes' \ Live' : object_tree'[b].trace = "none"
    BY <1>3, <1>4, SpaceParts
  <2>. QED  BY <1>1, <1>2, <1>3, <1>4, <2>1, SpaceParts DEF Space
<1>9. Program'
  BY <1>1, <1>3, <1>4, <1>7 DEF IInv, Program
<1>10. Barrier'
  <2>1. Barrier /\ Reached \subseteq Live
    BY Facts DEF IInv
  <2>2. \A b \in Reached : is_survivor(b)' = is_survivor(b)
    BY <1>5, <2>1
  <2>3. ASSUME NEW b \in Reached, field[b] # Null
        PROVE  is_survivor(field[b])' = is_survivor(field[b])
    <3>1. field[b] \in Live
      BY <2>1, <2>3, ReachedHas, Facts
    <3>. QED  BY <1>1, <1>3, <3>1 DEF is_survivor, Live
  <2>. QED  BY <1>1, <1>3, <1>4, <1>5, <1>7, <2>1, <2>2, <2>3 DEF Barrier
<1>11. Counters'
  BY <1>1 DEF IInv, Counters
<1>12. Tracing'
  BY <1>1, NoTracing
<1>13. ASSUME ~AnyWord PROVE Exact'
  <2>1. Exact
    BY <1>13 DEF IInv
  <2>2. surviving' = surviving
    BY <1>1, <1>3, <1>4, <1>5 DEF surviving, Live
  <2>3. (live_pages = Total(surviving))'
    BY <1>1, <2>1, <2>2, TotalThen DEF Exact
  <2>4. \A b \in Nodes' \ Live' : object_tree'[b].mark = NURSERY
    BY <1>3, <1>4, <2>1 DEF Exact
  <2>5. \A b \in reused' : ~is_survivor(b)'
    BY <1>1, <1>5, <2>1, SpaceParts DEF Exact
  <2>6. root'[Stack] # Null => \E b \in Live' : root'[Stack] \in Span(b)'
    BY <1>1, <1>4, <1>5, <2>1 DEF Exact
  <2>. QED  BY <1>1, <2>3, <2>4, <2>5, <2>6 DEF Exact
<1>. QED  BY <1>8, <1>9, <1>10, <1>11, <1>12, <1>13 DEF IInv

--------------------------------------------------------------------------------
\* A collection starts.

\* The field of an object refers to one object at most.
LEMMA FieldReferent ==
  ASSUME NEW e, e \notin Roots
  PROVE  /\ \A a \in Referent(e) : a = field[e] /\ field[e] # Null
         /\ \A a \in Referent(e)' : a = field'[e] /\ field'[e] # Null
<1>1. e # Stack
  BY DEF Roots
<1>. QED  BY <1>1 DEF Referent, lookup_conservative_ref

LEMMA NoReferent ==
  ASSUME NEW e \in Roots
  PROVE  /\ root[e] = Null => Referent(e) = {}
         /\ root'[e] = Null => Referent(e)' = {}
BY DEF Referent

LEMMA StartKeeps ==
  ASSUME IInv, NEW requested \in Requests, StartGC(requested)
  PROVE  IInv'
<1>. DEFINE kind == IF count = 0 THEN "major" ELSE requested
<1>1. /\ phase = "mutator" /\ count < MaxCount /\ phase' = kind
      /\ extents' = {Span(a) : a \in Nodes}
      /\ marked' = IF kind = "major" THEN (MARK_0 + MARK_1) - marked ELSE marked
      /\ live_pages' = IF kind = "major" THEN 0 ELSE live_pages
      /\ todo' = {r \in Roots : root[r] # Null}
                   \cup IF kind = "minor" THEN remembered_set ELSE {}
      /\ UNCHANGED <<space_vars, remembered_vars, synchronous_release, field, root, count,
                     pc, program_vars>>
  BY DEF StartGC, Running
<1>. USE DEF space_vars, remembered_vars, program_vars
<1>2. kind \in {"minor", "major"}
  BY LargeObjectsAssumption
<1>. HIDE DEF kind
<1>3. /\ Nodes' = Nodes /\ Live' = Live /\ \A a : Span(a)' = Span(a)
  BY <1>1 DEF Nodes, Live, Span
<1>4. /\ marked' \in {MARK_0, MARK_1} /\ marked' # NURSERY
      /\ kind = "major" => marked' # marked
      /\ kind = "minor" => marked' = marked
  BY <1>1, <1>2, Facts DEF MARK_0, MARK_1, NURSERY
<1>5. /\ remembered_edges = remembered_set /\ remembered_set \subseteq Pages
      /\ remembered_set \subseteq Survivors /\ Survivors \subseteq Live
      /\ \A a \in Reached : is_survivor(a) /\ field[a] # Null /\ ~is_survivor(field[a])
                              => a \in remembered_set
      /\ \A a \in Live : object_tree[a].mark \in {NURSERY, marked}
  BY <1>1 DEF IInv, Barrier, Survivors
<1>6. /\ kind = "minor" => Survivors' = Survivors
      /\ kind = "major" => Survivors' = {}
      /\ kind = "minor" => \A a : is_survivor(a)' = is_survivor(a)
  <2>1. CASE kind = "minor"
    BY <1>1, <1>2, <1>3, <1>4, <2>1 DEF Survivors, is_survivor
  <2>2. CASE kind = "major"
    <3>1. \A a \in Live : ~is_survivor(a)'
      BY <1>1, <1>4, <1>5, <2>2 DEF is_survivor
    <3>. QED  BY <1>2, <1>3, <2>2, <3>1 DEF Survivors
  <2>. QED  BY <1>2, <2>1, <2>2
<1>7. Kept' \subseteq Kept
  BY <1>1, <1>2, <1>3, <1>6 DEF Kept, InHandles, OnStack
<1>8. Reached' \subseteq Reached
  <2>1. Kept' \subseteq Reached
    BY <1>7, ReachedHas
  <2>2. \A b \in Reached : b \in DOMAIN field' => field'[b] \in Reached \cup {Null}
    BY <1>1, ReachedHas
  <2>. QED  BY <2>1, <2>2, ReachedWithin
<1>9. Counters'
  <2>1. Counters
    BY DEF IInv
  <2>2. /\ phase' # "mutator" /\ phase' \in {"mutator", "minor", "major"} /\ live_pages' \in Nat
    BY <1>1, <1>2, <2>1 DEF Counters
  <2>. QED  BY <1>1, <1>4, <2>1, <2>2 DEF Counters
<1>10. Space'
  BY <1>1, <1>2, <1>3, SpaceParts DEF Space
<1>11. Program'
  BY <1>1, <1>3, <1>8 DEF IInv, Program
<1>12. Barrier'
  BY <1>1, <1>2, <1>3, <1>4, <1>5 DEF Barrier
<1>13. Tracing'
  <2>1. pc \in [Workers -> Tracers] /\ \A w \in Workers : pc[w] = Idle
    BY <1>1 DEF IInv, Tracing
  <2>2. \A w \in Workers : pc[w].ref = Null
    BY <2>1 DEF Idle
  <2>3. Workers' = Workers /\ pc' = pc
    BY <1>1 DEF Workers
  <2>4. todo' \subseteq Roots \cup Live'
    BY <1>1, <1>3, <1>5
  <2>5. ASSUME NEW e \in Roots PROVE Done(e)'
    BY <1>1, <2>5, NoReferent DEF Done
  <2>6. ASSUME NEW a \in Reached', is_survivor(a)' PROVE Done(a)'
    <3>1. a \in Reached /\ a \in Live /\ a \notin Roots
      BY <1>8, Facts
    <3>2. kind = "minor"
      BY <1>2, <1>3, <1>6, <2>6, <3>1 DEF Survivors
    <3>3. CASE field[a] = Null
      BY <1>1, <3>1, <3>3, FieldReferent DEF Done
    <3>4. CASE field[a] # Null /\ is_survivor(field[a])
      <4>1. is_survivor(field[a])'
        BY <1>1, <1>4, <3>2, <3>4 DEF is_survivor
      <4>2. \A b \in Referent(a)' : is_survivor(b)'
        BY <3>1, <4>1, FieldReferent DEF is_survivor
      <4>. QED  BY <4>2 DEF Done, Seen
    <3>5. CASE field[a] # Null /\ ~is_survivor(field[a])
      <4>1. a \in remembered_set
        BY <1>5, <1>6, <2>6, <3>1, <3>2, <3>5
      <4>. QED  BY <1>1, <3>2, <4>1 DEF Done
    <3>. QED  BY <3>3, <3>4, <3>5
  <2>. QED  BY <1>1, <1>2, <2>1, <2>2, <2>3, <2>4, <2>5, <2>6 DEF Tracing, Tracers
<1>14. ASSUME ~AnyWord PROVE Exact'
  <2>1. Exact
    BY <1>14 DEF IInv
  <2>2. (live_pages = Total(surviving))'
    <3>1. CASE kind = "minor"
      <4>1. surviving' = surviving
        BY <1>1, <1>3, <1>6, <3>1 DEF surviving
      <4>. QED  BY <1>1, <2>1, <3>1, <4>1, TotalThen DEF Exact
    <3>2. CASE kind = "major"
      <4>1. \A a \in Pages : surviving'[a] = 0
        BY <1>6, <3>2 DEF surviving, Survivors
      <4>. DEFINE s == surviving'
      <4>2. \A a \in Pages : s[a] = 0
        BY <4>1
      <4>. HIDE DEF s
      <4>3. Total(s) = 0
        BY <4>2, TotalNone
      <4>4. Total(surviving)' = 0
        BY <4>3, TotalThen DEF s
      <4>. QED  BY <1>1, <3>2, <4>4
    <3>. QED  BY <1>2, <3>1, <3>2
  <2>3. Refs' = {}
    <3>1. \A w \in Workers : pc[w].ref = Null
      BY <1>1 DEF IInv, Tracing, Idle
    <3>. QED  BY <1>1, <3>1 DEF Refs, Workers
  <2>4. Survivors' \cup (todo' \cap Live') \subseteq Source'
    <3>1. CASE kind = "minor"
      <4>1. Survivors \cap reused = {}
        BY <1>1, <2>1 DEF Exact, Survivors
      <4>2. Survivors' \ reused' = Survivors'
        BY <1>1, <1>6, <3>1, <4>1
      <4>3. todo' \cap Live' \subseteq Survivors'
        BY <1>1, <1>3, <1>5, <1>6, <3>1, Facts
      <4>. QED  BY <1>1, <3>1, <4>2, <4>3 DEF Source
    <3>2. CASE kind = "major"
      <4>1. todo' \cap Live' = {}
        BY <1>1, <1>3, <3>2, Facts
      <4>. QED  BY <1>6, <3>2, <4>1
    <3>. QED  BY <1>2, <3>1, <3>2
  <2>5. (Survivors \cup Refs \cup (todo \cap Live) \subseteq Reach(field, Source))'
    <3>. DEFINE f == field'
                s == Source'
    <3>1. s \subseteq Reach(f, s)
      <4>. HIDE DEF f, s
      <4>. QED  BY ReachHas
    <3>. QED  BY <2>3, <2>4, <3>1
  <2>6. /\ root'[Stack] # Null => \E a \in Live' : root'[Stack] \in Span(a)'
        /\ \A a \in Nodes' \ Live' : object_tree'[a].mark = NURSERY
    BY <1>1, <1>3, <2>1 DEF Exact
  <2>. QED  BY <1>1, <1>2, <2>2, <2>5, <2>6 DEF Exact
<1>. QED  BY <1>9, <1>10, <1>11, <1>12, <1>13, <1>14 DEF IInv

--------------------------------------------------------------------------------
\* What the workers do.

LEMMA SpanStart ==
  ASSUME IInv, NEW a \in Nodes
  PROVE  Min(Span(a)) = a /\ a \in Span(a) /\ Span(a) \subseteq Pages
<1>1. a \in SpanIn(object_tree, a) /\ SpanIn(object_tree, a) \subseteq Pages /\ a \in Nat
  BY SpaceParts, SpanHas, Facts, PagesAre DEF Shape, Nodes
<1>. DEFINE s == object_tree[a].size
<1>2. s \in Nat /\ Span(a) = a .. a + s - 1
  BY Facts, Node DEF Span, Nodes
<1>3. \A x \in Span(a) : x \in Int /\ a <= x
  BY <1>1, <1>2
<1>4. a \in Span(a)
  BY <1>1, Spans
<1>5. ASSUME NEW x \in Span(a), \A y \in Span(a) : x <= y PROVE x = a
  BY <1>1, <1>3, <1>4, <1>5
<1>. QED  BY <1>1, <1>3, <1>4, <1>5, Spans DEF Min

LEMMA OneSpan ==
  ASSUME IInv, NEW a \in Nodes, NEW b \in Nodes, NEW p, p \in Span(a), p \in Span(b)
  PROVE  a = b
<1>1. \A c, d \in Nodes : c # d => SpanIn(object_tree, c) \cap SpanIn(object_tree, d) = {}
  BY SpaceParts DEF Shape, Apart, Nodes
<1>. QED  BY <1>1, Spans

\* Extents and tree find the same object, the one that the word points into.
LEMMA Lookup ==
  ASSUME IInv, phase # "mutator", NEW word, NEW interior \in BOOLEAN
  PROVE  \A a : a \in lookup_conservative_ref(word, interior)
                  <=> a \in Nodes /\ word \in Span(a) /\ (interior \/ a = word)
<1>1. extents = {Span(b) : b \in Nodes} /\ object_map = Nodes
  BY SpaceParts DEF IInv, Space
<1>. DEFINE starts == IF extents = {} THEN {word}
                      ELSE {Min(s) : s \in {t \in extents : word \in t}}
            found == {b \in starts : b \in object_map /\ (interior \/ b = word)}
<1>2. CASE Nodes = {}
  BY <1>1, <1>2 DEF lookup_conservative_ref
<1>3. CASE Nodes # {}
  <2>1. starts = {Min(s) : s \in {t \in extents : word \in t}}
    BY <1>1, <1>3
  <2>2. ASSUME NEW a
        PROVE  a \in starts <=> a \in Nodes /\ word \in Span(a)
    <3>1. ASSUME NEW b \in Nodes, word \in Span(b) PROVE b \in starts
      <4>1. Span(b) \in extents /\ Min(Span(b)) = b
        BY <1>1, SpanStart
      <4>. QED  BY <2>1, <3>1, <4>1
    <3>2. ASSUME a \in starts PROVE a \in Nodes /\ word \in Span(a)
      <4>1. PICK b \in Nodes : word \in Span(b) /\ a = Min(Span(b))
        BY <1>1, <2>1, <3>2
      <4>. QED  BY <4>1, SpanStart
    <3>. QED  BY <3>1, <3>2
  <2>. HIDE DEF starts
  <2>3. \A a : a \in found <=> a \in Nodes /\ word \in Span(a) /\ (interior \/ a = word)
    BY <1>1, <2>2
  <2>4. lookup_conservative_ref(word, interior)
          = IF found = {} /\ interior THEN {b \in Nodes : word \in Span(b)} ELSE found
    BY DEF lookup_conservative_ref, starts
  <2>. HIDE DEF found
  <2>5. CASE found = {} /\ interior
    BY <2>3, <2>4, <2>5
  <2>6. CASE ~(found = {} /\ interior)
    BY <2>3, <2>4, <2>6
  <2>. QED  BY <2>5, <2>6
<1>. QED  BY <1>2, <1>3

LEMMA Referents ==
  ASSUME IInv, phase # "mutator"
  PROVE  /\ \A r \in Handles : Referent(r) = {root[r]} \ {Null}
         /\ Referent(Stack) = OnStack
         /\ \A a \in Reached : Referent(a) = {field[a]} \ {Null}
         /\ \A e, a, b : a \in Referent(e) /\ b \in Referent(e) => a = b
         /\ \A e : Referent(e) \subseteq Nodes
<1>1. /\ \A a : a \in Roots => a \notin Nodes
      /\ Stack \in Roots /\ Stack \notin Handles /\ Handles \subseteq Roots
      /\ object_map = Nodes /\ Null \notin Nodes
  BY Facts, SpaceParts, LargeObjectsAssumption DEF Roots
<1>2. ASSUME NEW r \in Handles PROVE Referent(r) = {root[r]} \ {Null}
  <2>1. root[r] # Null => root[r] \in Nodes
    BY Handled
  <2>. QED  BY <1>1, <2>1 DEF Referent
<1>3. Referent(Stack) = OnStack
  <2>. DEFINE word == root[Stack]
  <2>1. CASE word = Null
    <3>1. \A a \in Live : Null \notin Span(a)
      BY Facts, SpanStart, PagesAre
    <3>. QED  BY <1>1, <2>1, <3>1 DEF Referent, OnStack
  <2>2. CASE word # Null
    <3>1. Referent(Stack) = {a \in lookup_conservative_ref(word, TRUE) : object_tree[a].is_live}
      BY <1>1, <2>2 DEF Referent
    <3>2. \A a : a \in lookup_conservative_ref(word, TRUE) <=> a \in Nodes /\ word \in Span(a)
      BY Lookup
    <3>. QED  BY <3>1, <3>2 DEF OnStack, Live
  <2>. QED  BY <2>1, <2>2
<1>4. ASSUME NEW a \in Reached PROVE Referent(a) = {field[a]} \ {Null}
  <2>1. a \in Live /\ a \in Nodes /\ a \notin Roots /\ a # Stack
    BY <1>1, Facts
  <2>2. field[a] # Null => field[a] \in Live /\ field[a] \in Nodes /\ object_tree[field[a]].is_live
    BY <2>1, ReachedHas, Facts DEF Live
  <2>3. field[a] # Null =>
          \A b : b \in lookup_conservative_ref(field[a], FALSE) <=> b = field[a]
    BY <2>2, Lookup, SpanStart
  <2>4. (a = Stack) = FALSE
    BY <2>1
  <2>5. CASE object_tree[a].trace = "conservatively" /\ field[a] # Null
    <3>1. Referent(a) = {b \in lookup_conservative_ref(field[a], FALSE) : object_tree[b].is_live}
      BY <2>1, <2>4, <2>5 DEF Referent
    <3>. DEFINE v == field[a]
    <3>2. v # Null /\ object_tree[v].is_live
      BY <2>2, <2>5
    <3>3. \A b : b \in lookup_conservative_ref(v, FALSE) <=> b = v
      BY <2>3, <2>5
    <3>4. Referent(a) = {b \in lookup_conservative_ref(v, FALSE) : object_tree[b].is_live}
      BY <3>1
    <3>. HIDE DEF v
    <3>5. \A b : b \in Referent(a) <=> b = v
      BY <3>2, <3>3, <3>4
    <3>6. Referent(a) = {v}
      BY <3>5
    <3>. QED  BY <3>2, <3>6 DEF v
  <2>6. CASE ~(object_tree[a].trace = "conservatively" /\ field[a] # Null)
    BY <1>1, <2>1, <2>2, <2>6 DEF Referent
  <2>. QED  BY <2>5, <2>6
<1>5. ASSUME NEW e, NEW a \in Referent(e), NEW b \in Referent(e) PROVE a = b
  <2>1. CASE e \in Handles
    BY <1>2, <2>1
  <2>2. CASE e = Stack
    BY <1>3, <2>2, OneSpan, Facts DEF OnStack
  <2>3. CASE e \notin Roots
    BY <2>3, FieldReferent
  <2>. QED  BY <2>1, <2>2, <2>3 DEF Roots
<1>6. ASSUME NEW e, NEW a \in Referent(e) PROVE a \in Nodes
  <2>1. \A word : \A interior \in BOOLEAN : lookup_conservative_ref(word, interior) \subseteq Nodes
    BY Lookup
  <2>. QED  BY <1>1, <2>1 DEF Referent
<1>. QED  BY <1>2, <1>3, <1>4, <1>5, <1>6

\* Marks and what the workers are at tell nothing of what edges refer to.
LEMMA SameReferent ==
  ASSUME IInv, NEW e, UNCHANGED <<root, field, extents, object_map>>, Nodes' = Nodes,
         e \in Roots \cup Nodes,
         \A b \in Nodes : /\ object_tree'[b].size = object_tree[b].size
                          /\ object_tree'[b].is_live = object_tree[b].is_live
                          /\ object_tree'[b].trace = object_tree[b].trace
  PROVE  Referent(e)' = Referent(e)
<1>1. object_map = Nodes
  BY SpaceParts
<1>2. \A b \in Nodes : Span(b)' = Span(b)
  BY DEF Span
<1>3. ASSUME NEW word, NEW interior
      PROVE  /\ lookup_conservative_ref(word, interior)' = lookup_conservative_ref(word, interior)
             /\ lookup_conservative_ref(word, interior) \subseteq Nodes
  BY <1>1, <1>2 DEF lookup_conservative_ref
<1>. DEFINE word == IF e \in Roots THEN root[e] ELSE field[e]
            interior == e = Stack
<1>4. (word)' = word /\ (interior)' = interior
  OBVIOUS
<1>5. {a \in lookup_conservative_ref(word, interior) : object_tree[a].is_live}'
        = {a \in lookup_conservative_ref(word, interior) : object_tree[a].is_live}
  <2>1. lookup_conservative_ref(word, interior)' = lookup_conservative_ref(word, interior)
    BY <1>3, <1>4
  <2>. QED  BY <1>3, <2>1
<1>6. e \notin Roots => object_tree'[e].trace = object_tree[e].trace
  OBVIOUS
<1>. QED  BY <1>4, <1>5, <1>6 DEF Referent


\* What holds while there is something to trace.
LEMMA InTracing ==
  ASSUME IInv, NEW w \in Workers, pc[w].ref # Null \/ todo # {}
  PROVE  /\ phase # "mutator" /\ pc \in [Workers -> Tracers] /\ todo \subseteq Roots \cup Live
         /\ \A v \in Workers : pc[v].ref \in Nodes \cup {Null}
         /\ \A v \in Workers : pc[v].ref # Null /\ pc[v].mark = marked => is_survivor(pc[v].ref)
         /\ \A e \in Roots : Done(e)
         /\ \A a \in Reached : is_survivor(a) => Done(a)
BY DEF IInv, Tracing, Idle

LEMMA VisitKeeps ==
  ASSUME IInv, NEW w \in Workers, NEW e \in todo, Visit(w, e)
  PROVE  IInv'
<1>1. /\ pc[w] = Idle /\ todo' = todo \ {e}
      /\ pc' = [pc EXCEPT ![w] = IF Referent(e) = {} THEN Idle
                                ELSE LET a == CHOOSE a \in Referent(e) : TRUE
                                     IN [ref |-> a, mark |-> object_tree[a].mark]]
      /\ UNCHANGED <<space_vars, mark_vars, remembered_vars, synchronous_release, field, root,
                     phase, count, program_vars>>
  BY DEF Visit
<1>. USE DEF space_vars, mark_vars, remembered_vars, program_vars
<1>2. /\ phase # "mutator" /\ pc \in [Workers -> Tracers] /\ todo \subseteq Roots \cup Live
      /\ \A v \in Workers : pc[v].ref \in Nodes \cup {Null}
      /\ \A v \in Workers : pc[v].ref # Null /\ pc[v].mark = marked => is_survivor(pc[v].ref)
      /\ \A d \in Roots : Done(d)
      /\ \A a \in Reached : is_survivor(a) => Done(a)
  BY InTracing
<1>3. /\ Nodes' = Nodes /\ Live' = Live /\ Workers' = Workers
      /\ \A a : Span(a)' = Span(a) /\ is_survivor(a)' = is_survivor(a)
      /\ Survivors' = Survivors
  <2>1. Workers' = Workers
    BY <1>1, <1>2 DEF Workers
  <2>. QED  BY <1>1, <2>1 DEF Nodes, Live, Span, is_survivor, Survivors
<1>4. OnStack' = OnStack /\ Kept' = Kept /\ Reached' = Reached /\ Source' = Source
  BY <1>1, <1>3 DEF OnStack, Kept, InHandles, Reached, Source
<1>5. \A d \in Roots \cup Nodes : Referent(d)' = Referent(d)
  BY <1>1, <1>3, SameReferent
<1>6. /\ \A d, a, b : a \in Referent(d) /\ b \in Referent(d) => a = b
      /\ Referent(e) \subseteq Nodes
  BY <1>2, Referents
<1>7. PICK next \in Tracers :
        /\ pc' = [pc EXCEPT ![w] = next]
        /\ next.ref # Null => next.ref \in Referent(e) /\ next.mark = object_tree[next.ref].mark
        /\ \A a \in Referent(e) : next.ref = a
  <2>1. CASE Referent(e) = {}
    BY <1>1, <1>2, <2>1 DEF Idle
  <2>2. CASE Referent(e) # {}
    <3>. DEFINE a == CHOOSE a \in Referent(e) : TRUE
    <3>1. a \in Referent(e) /\ pc' = [pc EXCEPT ![w] = [ref |-> a, mark |-> object_tree[a].mark]]
      BY <1>1, <2>2
    <3>. HIDE DEF a
    <3>2. a \in Pages /\ object_tree[a].mark \in Marks
      BY <1>6, <3>1, Facts, Node
    <3>. DEFINE n == [ref |-> a, mark |-> object_tree[a].mark]
    <3>3. n \in Tracers /\ n.ref = a /\ n.mark = object_tree[n.ref].mark
      BY <3>2 DEF Tracers
    <3>4. pc' = [pc EXCEPT ![w] = n] /\ \A b \in Referent(e) : n.ref = b
      BY <1>6, <3>1, <3>3
    <3>. HIDE DEF n
    <3>. QED  BY <3>1, <3>3, <3>4
  <2>. QED  BY <2>1, <2>2
<1>8. /\ pc' \in [Workers -> Tracers] /\ pc'[w] = next
      /\ \A v \in Workers : v # w => pc'[v] = pc[v]
  BY <1>2, <1>7
<1>9. /\ \A a \in Nodes : Seen(a) => Seen(a)'
      /\ \A a \in Referent(e) : Seen(a)'
  <2>1. \A a \in Nodes : a # pc[w].ref
    BY <1>1, Facts DEF Idle
  <2>. QED  BY <1>3, <1>7, <1>8, <2>1 DEF Seen
<1>10. ASSUME NEW d \in Roots \cup Nodes, Done(d) PROVE Done(d)'
  <2>1. CASE d = e
    BY <1>5, <1>9, <2>1 DEF Done
  <2>2. CASE d # e /\ d \in todo
    BY <1>1, <2>2 DEF Done
  <2>3. CASE d # e /\ d \notin todo
    <3>1. Referent(d) \subseteq Nodes
      BY <1>2, Referents
    <3>2. \A a \in Referent(d) : Seen(a)
      BY <1>10, <2>3 DEF Done
    <3>. QED  BY <1>5, <1>9, <3>1, <3>2 DEF Done
  <2>. QED  BY <2>1, <2>2, <2>3
<1>11. Tracing'
  <2>1. todo' \subseteq Roots \cup Live'
    BY <1>1, <1>2, <1>3
  <2>2. \A v \in Workers' : pc'[v].ref \in Nodes' \cup {Null}
    BY <1>2, <1>3, <1>6, <1>7, <1>8
  <2>3. \A v \in Workers' : pc'[v].ref # Null /\ pc'[v].mark = marked' => is_survivor(pc[v].ref)'
    BY <1>1, <1>2, <1>3, <1>7, <1>8 DEF is_survivor
  <2>4. \A d \in Roots : Done(d)'
    BY <1>2, <1>10
  <2>5. \A a \in Reached' : is_survivor(a)' => Done(a)'
    BY <1>2, <1>3, <1>4, <1>10, Facts
  <2>. QED  BY <1>1, <1>2, <1>3, <1>8, <2>1, <2>2, <2>3, <2>4, <2>5 DEF Tracing, Tracers
<1>12. Space' /\ Counters'
  BY <1>1, <1>3 DEF IInv, Space, Counters
<1>13. Program' /\ Barrier'
  BY <1>1, <1>3, <1>4 DEF IInv, Program, Barrier
<1>14. ASSUME ~AnyWord PROVE Exact'
  <2>1. Exact
    BY <1>14 DEF IInv
  <2>. DEFINE f == field
              s == Source
  <2>2. Survivors \cup Refs \cup (todo \cap Live) \subseteq Reach(f, s)
    BY <1>2, <2>1 DEF Exact
  <2>3. ASSUME NEW a \in Referent(e) PROVE a \in Reach(f, s)
    <3>1. CASE e \in Handles
      BY <1>2, <2>3, <3>1, Referents, ReachHas DEF Source, InHandles
    <3>2. CASE e = Stack
      BY <1>2, <2>3, <3>2, Referents, ReachHas DEF Source
    <3>3. CASE e \in Live /\ e \notin Roots
      <4>1. e \in Reach(f, s) /\ a = f[e] /\ a # Null /\ e \in DOMAIN f
        BY <2>2, <2>3, <3>3, FieldReferent, Facts
      <4>. HIDE DEF f, s
      <4>. QED  BY <4>1, ReachHas
    <3>. QED  BY <1>2, <3>1, <3>2, <3>3 DEF Roots
  <2>4. Refs' \subseteq Refs \cup Referent(e)
    BY <1>3, <1>7, <1>8 DEF Refs
  <2>5. (Survivors \cup Refs \cup (todo \cap Live))' \subseteq Reach(f, s)
    BY <1>1, <1>3, <2>2, <2>3, <2>4
  <2>6. (Survivors \cup Refs \cup (todo \cap Live) \subseteq Reach(field, Source))'
    BY <1>1, <1>4, <2>5
  <2>7. surviving' = surviving
    BY <1>1, <1>3 DEF surviving
  <2>8. (live_pages = Total(surviving))'
    BY <1>1, <2>1, <2>7, TotalThen DEF Exact
  <2>. QED  BY <1>1, <1>2, <1>3, <2>1, <2>6, <2>8 DEF Exact
<1>. QED  BY <1>11, <1>12, <1>13, <1>14 DEF IInv

\* The node, the edges and the worker after a worker was at node a.
Tried(w, a, next) ==
  /\ a = pc[w].ref /\ a \in Nodes
  /\ object_tree' \in [Nodes -> NodeRecords]
  /\ \A b \in Nodes : /\ object_tree'[b].size = object_tree[b].size
                      /\ object_tree'[b].is_live = object_tree[b].is_live
                      /\ object_tree'[b].trace = object_tree[b].trace
                      /\ b # a => object_tree'[b].mark = object_tree[b].mark
  /\ object_tree'[a].mark \in {object_tree[a].mark, marked}
  /\ todo \subseteq todo' /\ todo' \subseteq todo \cup {a}
  /\ a \in todo' \ todo => object_tree[a].trace # "none"
  /\ pc' = [pc EXCEPT ![w] = next] /\ next.ref \in {a, Null}
  /\ next.ref = Null \/ next.mark = marked => object_tree'[a].mark = marked
  /\ live_pages' \in Nat
  /\ IF object_tree'[a].mark = object_tree[a].mark THEN live_pages' = live_pages
     ELSE /\ live_pages' = live_pages + object_tree[a].size
          /\ object_tree[a].trace = "none" \/ a \in todo'
  /\ UNCHANGED <<object_map, nursery, quarantine, total_pages, free_pages, mapped,
                 marked, extents, remembered_vars, synchronous_release, field, root,
                 phase, count, program_vars>>

LEMMA MarkIs ==
  ASSUME IInv, NEW w \in Workers, Mark(w)
  PROVE  \E next \in Tracers : Tried(w, pc[w].ref, next)
<1>. DEFINE a == pc[w].ref
            m == pc[w].mark
<1>1. /\ a # Null
      /\ IF m # marked /\ object_tree[a].mark = m
         THEN /\ object_tree' = [object_tree EXCEPT ![a].mark = marked]
              /\ live_pages' = live_pages + object_tree[a].size
              /\ todo' = IF object_tree[a].trace = "none" THEN todo ELSE todo \cup {a}
         ELSE UNCHANGED <<object_tree, live_pages, todo>>
      /\ pc' = [pc EXCEPT ![w] = IF m = marked \/ object_tree[a].mark = m THEN Idle
                                 ELSE [@ EXCEPT !.mark = object_tree[a].mark]]
      /\ UNCHANGED <<object_map, nursery, quarantine, total_pages, free_pages, mapped,
                     marked, extents, remembered_vars, synchronous_release, field, root,
                     phase, count, program_vars>>
  BY DEF Mark, cmpxchg
<1>2. /\ a \in Nodes /\ pc \in [Workers -> Tracers] /\ pc[w] \in Tracers
      /\ m = marked => object_tree[a].mark = marked
  BY <1>1, InTracing DEF is_survivor
<1>3. /\ object_tree \in [Nodes -> NodeRecords] /\ marked \in {MARK_0, MARK_1}
      /\ live_pages \in Nat
      /\ object_tree[a].size \in Nat /\ object_tree[a].mark \in Marks
  BY <1>2, Facts, Node DEF IInv, Counters
<1>4. Idle \in Tracers /\ Idle.ref = Null
  BY DEF Idle, Tracers, Marks, NURSERY
<1>. HIDE DEF a, m
<1>5. CASE m # marked /\ object_tree[a].mark = m
  <2>. DEFINE o == [object_tree[a] EXCEPT !.mark = marked]
  <2>1. object_tree[a] \in NodeRecords
    BY <1>2, <1>3
  <2>2. /\ o \in NodeRecords /\ o.mark = marked /\ o.size = object_tree[a].size
        /\ o.is_live = object_tree[a].is_live /\ o.trace = object_tree[a].trace
    BY <1>3, <2>1 DEF NodeRecords, Marks
  <2>3. object_tree' = [object_tree EXCEPT ![a] = o]
    BY <1>1, <1>5
  <2>. HIDE DEF o
  <2>4. /\ object_tree' \in [Nodes -> NodeRecords] /\ object_tree'[a] = o
        /\ \A b \in Nodes : b # a => object_tree'[b] = object_tree[b]
    BY <1>2, <1>3, <2>2, <2>3
  <2>5. /\ live_pages' = live_pages + object_tree[a].size /\ live_pages' \in Nat
        /\ todo' = IF object_tree[a].trace = "none" THEN todo ELSE todo \cup {a}
        /\ pc' = [pc EXCEPT ![w] = Idle]
    BY <1>1, <1>3, <1>5
  <2>6. Tried(w, a, Idle)
    BY <1>1, <1>2, <1>4, <1>5, <2>2, <2>4, <2>5 DEF Tried, a
  <2>. QED  BY <1>4, <2>6 DEF a
<1>6. CASE m = marked
  <2>1. pc' = [pc EXCEPT ![w] = Idle] /\ UNCHANGED <<object_tree, live_pages, todo>>
    BY <1>1, <1>6
  <2>2. Tried(w, a, Idle)
    BY <1>1, <1>2, <1>3, <1>4, <1>6, <2>1 DEF Tried, a
  <2>. QED  BY <1>4, <2>2 DEF a
<1>7. CASE m # marked /\ object_tree[a].mark # m
  <2>. DEFINE n == [pc[w] EXCEPT !.mark = object_tree[a].mark]
  <2>1. n \in Tracers /\ n.ref = a /\ n.mark = object_tree[a].mark
    BY <1>2, <1>3 DEF Tracers, a
  <2>2. pc' = [pc EXCEPT ![w] = n] /\ UNCHANGED <<object_tree, live_pages, todo>>
    BY <1>1, <1>2, <1>7
  <2>. HIDE DEF n
  <2>3. n.ref # Null
    BY <1>1, <2>1
  <2>4. Tried(w, a, n)
    BY <1>1, <1>2, <1>3, <2>1, <2>2, <2>3 DEF Tried, a
  <2>. QED  BY <2>1, <2>4 DEF a
<1>. QED  BY <1>5, <1>6, <1>7

\* What is marked is reached from what the program holds.
LEMMA SourceKept ==
  ASSUME IInv, ~AnyWord, phase # "mutator"
  PROVE  /\ Reach(field, Source) \subseteq Reached
         /\ Survivors \cup Refs \cup (todo \cap Live) \subseteq Reach(field, Source)
<1>1. Source \subseteq Kept
  BY DEF Source, Kept
<1>. DEFINE s == Source
            k == Kept
            f == field
<1>2. s \subseteq Reach(f, k)
  <2>1. k \subseteq Reach(f, k)
    <3>. HIDE DEF k, f
    <3>. QED  BY ReachHas
  <2>. QED  BY <1>1, <2>1
<1>3. Reach(f, s) \subseteq Reach(f, k)
  <2>. HIDE DEF s, k, f
  <2>. QED  BY <1>2, ReachWithin
<1>. QED  BY <1>3 DEF Reached, IInv, Exact

LEMMA MarkKeeps ==
  ASSUME IInv, NEW w \in Workers, Mark(w)
  PROVE  IInv'
<1>b. PICK a : a = pc[w].ref
  OBVIOUS
<1>0. a # Null
  BY <1>b DEF Mark
<1>1. PICK next \in Tracers : Tried(w, a, next)
  BY <1>b, MarkIs
<1>2. /\ a = pc[w].ref /\ a \in Nodes
      /\ object_tree' \in [Nodes -> NodeRecords]
      /\ \A b \in Nodes : /\ object_tree'[b].size = object_tree[b].size
                          /\ object_tree'[b].is_live = object_tree[b].is_live
                          /\ object_tree'[b].trace = object_tree[b].trace
                          /\ b # a => object_tree'[b].mark = object_tree[b].mark
      /\ object_tree'[a].mark \in {object_tree[a].mark, marked}
      /\ todo \subseteq todo' /\ todo' \subseteq todo \cup {a}
      /\ a \in todo' \ todo => object_tree[a].trace # "none"
      /\ pc' = [pc EXCEPT ![w] = next] /\ next.ref \in {a, Null}
      /\ next.ref = Null \/ next.mark = marked => object_tree'[a].mark = marked
      /\ live_pages' \in Nat
      /\ IF object_tree'[a].mark = object_tree[a].mark THEN live_pages' = live_pages
         ELSE /\ live_pages' = live_pages + object_tree[a].size
              /\ object_tree[a].trace = "none" \/ a \in todo'
      /\ UNCHANGED <<object_map, nursery, quarantine, total_pages, free_pages, mapped,
                     marked, extents, remembered_vars, synchronous_release, field, root,
                     phase, count, program_vars>>
  BY <1>1 DEF Tried
<1>. USE DEF remembered_vars, program_vars
<1>3. /\ phase # "mutator" /\ pc \in [Workers -> Tracers] /\ todo \subseteq Roots \cup Live
      /\ \A v \in Workers : pc[v].ref \in Nodes \cup {Null}
      /\ \A v \in Workers : pc[v].ref # Null /\ pc[v].mark = marked => is_survivor(pc[v].ref)
      /\ \A d \in Roots : Done(d)
      /\ \A b \in Reached : is_survivor(b) => Done(b)
  BY <1>0, <1>2, InTracing
<1>4. /\ pc' \in [Workers -> Tracers] /\ pc'[w] = next /\ Workers' = Workers
      /\ \A v \in Workers : v # w => pc'[v] = pc[v]
  BY <1>2, <1>3 DEF Workers
<1>5. /\ Nodes' = Nodes /\ Live' = Live /\ \A b \in Nodes : Span(b)' = Span(b)
      /\ \A b \in Nodes : b # a => is_survivor(b)' = is_survivor(b)
      /\ is_survivor(a)' => is_survivor(a) \/ object_tree[a].trace = "none" \/ a \in todo'
      /\ \A b \in Nodes : is_survivor(b) => is_survivor(b)'
      /\ Survivors \subseteq Survivors' /\ Survivors' \subseteq Survivors \cup {a}
  <2>1. Nodes' = Nodes
    BY <1>2 DEF Nodes
  <2>2. Live' = Live
    BY <1>2, <2>1 DEF Live
  <2>3. \A b \in Nodes : Span(b)' = Span(b)
    BY <1>2 DEF Span
  <2>4. \A b \in Nodes : b # a => is_survivor(b)' = is_survivor(b)
    BY <1>2 DEF is_survivor
  <2>5. is_survivor(a)' => is_survivor(a) \/ object_tree[a].trace = "none" \/ a \in todo'
    BY <1>2 DEF is_survivor
  <2>6. \A b \in Nodes : is_survivor(b) => is_survivor(b)'
    BY <1>2 DEF is_survivor
  <2>. QED  BY <2>1, <2>2, <2>3, <2>4, <2>5, <2>6, Facts DEF Survivors
<1>6. \A d \in Roots \cup Nodes : Referent(d)' = Referent(d)
  BY <1>2, <1>5, SameReferent
<1>7. OnStack' = OnStack /\ InHandles' = InHandles /\ Source \subseteq Source'
  BY <1>2, <1>5, Facts DEF OnStack, InHandles, Source
<1>8. ~AnyWord => a \in Reached /\ a \in Live
  <2>1. a \in Refs
    BY <1>0, <1>2 DEF Refs
  <2>. QED  BY <1>3, <2>1, SourceKept, Facts
<1>9. Reached' \subseteq Reached
  <2>1. Kept' \subseteq Reached
    BY <1>5, <1>7, <1>8, ReachedHas DEF Kept
  <2>. QED  BY <1>2, <2>1, ReachedHas, ReachedWithin
<1>10. \A b \in Nodes : Seen(b) => Seen(b)'
  BY <1>2, <1>4, <1>5 DEF Seen, is_survivor
<1>11. ASSUME NEW d \in Roots \cup Nodes, Done(d) PROVE Done(d)'
  <2>1. CASE d \in todo
    BY <1>2, <2>1 DEF Done
  <2>2. CASE d \notin todo
    <3>1. Referent(d) \subseteq Nodes /\ \A b \in Referent(d) : Seen(b)
      BY <1>3, <1>11, <2>2, Referents DEF Done
    <3>. QED  BY <1>6, <1>10, <3>1 DEF Done
  <2>. QED  BY <2>1, <2>2
<1>12. Space'
  <2>1. Shape(object_tree', quarantine', mapped')
    BY <1>2, SpaceParts, Unchanged DEF Nodes
  <2>2. \A b \in Nodes' \ Live' : object_tree'[b].trace = "none"
    BY <1>2, <1>5, SpaceParts
  <2>. QED  BY <1>2, <1>3, <1>5, <2>1, <2>2 DEF IInv, Space
<1>13. Counters'
  BY <1>2, <1>3 DEF IInv, Counters
<1>14. Program'
  BY <1>2, <1>5, <1>9, Facts DEF IInv, Program
<1>15. Barrier'
  <2>1. phase' # "major" => \A b \in Live' : object_tree'[b].mark \in {NURSERY, marked'}
    BY <1>2, <1>5, Facts DEF IInv, Barrier
  <2>. QED  BY <1>2, <1>3, <2>1 DEF IInv, Barrier
<1>16. Tracing'
  <2>1. todo' \subseteq Roots \cup Live'
    <3>1. a \in todo' \ todo => a \in Live
      BY <1>2, SpaceParts
    <3>. QED  BY <1>2, <1>3, <1>5, <3>1
  <2>2. /\ \A v \in Workers' : pc'[v].ref \in Nodes' \cup {Null}
        /\ \A v \in Workers' : pc'[v].ref # Null /\ pc'[v].mark = marked' => is_survivor(pc[v].ref)'
    BY <1>2, <1>3, <1>4, <1>5 DEF is_survivor
  <2>3. \A d \in Roots : Done(d)'
    BY <1>3, <1>11
  <2>4. ASSUME NEW b \in Reached', is_survivor(b)' PROVE Done(b)'
    <3>1. b \in Reached /\ b \in Live /\ b \in Nodes
      BY <1>9, Facts
    <3>2. CASE is_survivor(b)
      BY <1>3, <1>11, <3>1, <3>2
    <3>3. CASE ~is_survivor(b) /\ b \in todo'
      BY <3>3 DEF Done
    <3>4. CASE ~is_survivor(b) /\ b \notin todo'
      <4>1. b = a /\ object_tree[b].trace = "none"
        BY <1>5, <2>4, <3>1, <3>4 DEF is_survivor
      <4>2. field[b] = Null
        BY <3>1, <4>1 DEF IInv, Program
      <4>3. Referent(b)' = {}
        BY <1>3, <1>6, <3>1, <4>2, Referents
      <4>. QED  BY <4>3 DEF Done
    <3>. QED  BY <3>2, <3>3, <3>4
  <2>. QED  BY <1>2, <1>3, <1>4, <1>5, <2>1, <2>2, <2>3, <2>4 DEF Tracing, Tracers
<1>17. ASSUME ~AnyWord PROVE Exact'
  <2>1. Exact /\ a \in Live
    BY <1>8, <1>17 DEF IInv
  <2>. DEFINE f == field
              s == Source
              t == Source'
  <2>2. (Survivors \cup Refs \cup (todo \cap Live))' \subseteq Reach(f, s)
    <3>1. Survivors \cup Refs \cup (todo \cap Live) \subseteq Reach(f, s)
      BY <1>3, <1>17, SourceKept
    <3>2. Refs' \subseteq Refs /\ a \in Refs
      BY <1>0, <1>2, <1>4 DEF Refs
    <3>. QED  BY <1>2, <1>5, <3>1, <3>2
  <2>3. Reach(f, s) \subseteq Reach(f, t)
    <3>1. s \subseteq t
      BY <1>7
    <3>. HIDE DEF f, s, t
    <3>2. s \subseteq Reach(f, t)
      BY <3>1, ReachHas
    <3>. QED  BY <3>2, ReachWithin
  <2>4. (Survivors \cup Refs \cup (todo \cap Live) \subseteq Reach(field, Source))'
    BY <1>2, <2>2, <2>3
  <2>5. (live_pages = Total(surviving))'
    <3>. DEFINE g == surviving
                h == surviving'
    <3>1. /\ g \in [Pages -> Nat] /\ h \in [Pages -> Nat]
          /\ \A b \in Pages : b # a => h[b] = g[b]
      <4>1. \A b \in Live : object_tree[b].size \in Nat /\ object_tree'[b].size \in Nat
        BY <1>2, Facts, Node
      <4>. QED  BY <1>2, <1>5, <4>1, Facts DEF surviving
    <3>2. a \in Pages /\ h[a] - g[a] = live_pages' - live_pages
      <4>1. a \in Pages /\ object_tree[a].size \in Nat /\ live_pages \in Nat
        BY <1>2, Facts, Node DEF IInv, Counters
      <4>2. g[a] = IF object_tree[a].mark = marked THEN object_tree[a].size ELSE 0
        BY <2>1, <4>1 DEF surviving, is_survivor
      <4>3. h[a] = IF object_tree'[a].mark = marked THEN object_tree[a].size ELSE 0
        BY <1>2, <1>5, <2>1, <4>1 DEF surviving, is_survivor
      <4>. HIDE DEF g, h
      <4>. QED  BY <1>2, <4>1, <4>2, <4>3
    <3>3. live_pages = Total(g) /\ live_pages \in Nat
      BY <2>1 DEF Exact, IInv, Counters
    <3>. HIDE DEF g, h
    <3>4. Total(g) \in Nat /\ Total(h) = Total(g) + (h[a] - g[a])
      <4>1. Total(h) = Total(g) + Change(g, h, Pages, a) /\ Total(g) \in Nat
        BY <3>1, TotalChange
      <4>. QED  BY <3>2, <4>1 DEF Change
    <3>5. live_pages' = Total(h)
      BY <1>2, <3>2, <3>3, <3>4
    <3>. QED  BY <3>5, TotalThen DEF h
  <2>6. /\ root'[Stack] # Null => \E b \in Live' : root'[Stack] \in Span(b)'
        /\ \A b \in Nodes' \ Live' : object_tree'[b].mark = NURSERY
    BY <1>2, <1>5, <2>1, Facts DEF Exact
  <2>. QED  BY <1>2, <1>3, <2>4, <2>5, <2>6 DEF Exact
<1>. QED  BY <1>12, <1>13, <1>14, <1>15, <1>16, <1>17 DEF IInv

--------------------------------------------------------------------------------
\* A collection ends.

\* What a collection has marked, when there is nothing left to trace, is what can be
\* reached, all of it and, without stale words, nothing else.
LEMMA Marked ==
  ASSUME IInv, phase # "mutator", todo = {}, \A w \in Workers : pc[w] = Idle
  PROVE  /\ Reached \subseteq Survivors
         /\ ~AnyWord => Survivors \subseteq Reach(field, Source)
<1>1. \A b \in Nodes : Seen(b) => is_survivor(b)
  BY Facts DEF Seen, Idle
<1>2. /\ \A e \in Roots : \A b \in Referent(e) : is_survivor(b)
      /\ \A a \in Reached : is_survivor(a) => \A b \in Referent(a) : is_survivor(b)
  BY <1>1, Referents DEF Done, IInv, Tracing
<1>3. InHandles \subseteq Survivors
  <2>1. ASSUME NEW r \in Handles, root[r] # Null PROVE root[r] \in Survivors
    <3>1. root[r] \in Referent(r) /\ r \in Roots /\ root[r] \in Live
      BY <2>1, Referents, Handled DEF Roots
    <3>. QED  BY <1>2, <3>1 DEF Survivors
  <2>. QED  BY <2>1 DEF InHandles
<1>4. OnStack \subseteq Survivors
  BY <1>2, Referents DEF OnStack, Survivors, Roots
<1>. DEFINE S == Reached \cap Survivors
            k == Kept
            f == field
<1>5. k \subseteq S
  BY <1>3, <1>4, ReachedHas DEF Kept
<1>6. \A a \in S : a \in DOMAIN f => f[a] \in S \cup {Null}
  <2>1. ASSUME NEW a \in S, f[a] # Null, a \in DOMAIN f PROVE f[a] \in S
    <3>1. f[a] \in Reached /\ f[a] \in Live /\ f[a] \in Referent(a)
      BY <2>1, ReachedHas, Referents, Facts
    <3>2. is_survivor(f[a])
      BY <1>2, <2>1, <3>1 DEF Survivors
    <3>. QED  BY <3>1, <3>2 DEF Survivors
  <2>. QED  BY <2>1
<1>7. Reach(f, k) \subseteq S
  <2>. HIDE DEF S, k, f
  <2>. QED  BY <1>5, <1>6, ReachLeast
<1>8. Reached \subseteq Survivors
  BY <1>7 DEF Reached
<1>9. ~AnyWord => Survivors \subseteq Reach(field, Source)
  BY SourceKept
<1>. QED  BY <1>8, <1>9

\* The space after a sweep of the objects swept.
SweptOut(swept) ==
  /\ Shape(object_tree', quarantine', mapped') /\ object_map' = Nodes'
  /\ Nodes' \subseteq Nodes /\ Live' = Live \ swept
  /\ \A b \in Nodes' : object_tree'[b].size = object_tree[b].size
  /\ \A b \in Live' : /\ object_tree'[b].mark = object_tree[b].mark
                      /\ object_tree'[b].trace = object_tree[b].trace
  /\ \A b \in Nodes' \ Live' :
       /\ object_tree'[b].trace = "none"
       /\ object_tree'[b].mark = IF b \in swept THEN NURSERY ELSE object_tree[b].mark

LEMMA SweepIs ==
  ASSUME IInv, NEW swept, swept \subseteq Live,
         NEW order \in [1 .. Cardinality(swept) -> swept], ToSet(order) = swept,
         NEW tree, tree = [a \in Nodes |-> IF a \in swept THEN Dead(object_tree[a].size)
                                           ELSE object_tree[a]],
         NEW q, q = AllPushed(quarantine, tree, order),
         IF synchronous_release THEN Processed(tree, q) ELSE Becomes(tree, q)
  PROVE  SweptOut(swept)
<1>1. Shape(object_tree, quarantine, mapped) /\ object_map = Nodes
  BY SpaceParts
<1>2. swept \subseteq Nodes /\ \A a \in swept : object_tree[a].is_live
  BY DEF Live
<1>3. Shape(tree, q, mapped)
  BY <1>1, <1>2, SweptShape DEF Nodes
<1>4. DOMAIN tree = Nodes /\ tree \in [DOMAIN tree -> NodeRecords]
  BY <1>3 DEF Shape
<1>5. /\ Shape(object_tree', quarantine', mapped') /\ Trimmed(tree, object_tree')
      /\ object_map' = object_map \ (DOMAIN tree \ DOMAIN object_tree')
  <2>1. CASE synchronous_release
    BY <1>3, <2>1, ProcessedIs
  <2>2. CASE ~synchronous_release
    <3>1. object_tree' = tree /\ quarantine' = q /\ object_map' = object_map /\ mapped' = mapped
      BY <2>2 DEF Becomes
    <3>. QED  BY <1>3, <1>4, <3>1 DEF Trimmed
  <2>. QED  BY <2>1, <2>2
<1>6. /\ \A b \in Nodes \ swept : tree[b] = object_tree[b]
      /\ \A b \in swept : /\ tree[b].size = object_tree[b].size /\ ~tree[b].is_live
                          /\ tree[b].mark = NURSERY /\ tree[b].trace = "none"
  <2>1. \A b \in swept : object_tree[b].size \in Nat /\ object_tree[b].size > 0
    BY <1>2, Facts, Node
  <2>2. \A b \in swept : tree[b] = Dead(object_tree[b].size)
    BY <1>2
  <2>. QED  BY <2>1, <2>2, NewObjectIs
<1>7. /\ Nodes' \subseteq Nodes /\ \A b \in Nodes : tree[b].is_live => b \in Nodes'
      /\ \A b \in Nodes' : /\ object_tree'[b].size = tree[b].size
                           /\ object_tree'[b].is_live = tree[b].is_live
                           /\ object_tree'[b].mark = tree[b].mark
                           /\ object_tree'[b].trace = tree[b].trace
  BY <1>4, <1>5 DEF Trimmed, Nodes
<1>8. object_map' = Nodes'
  BY <1>1, <1>4, <1>5, <1>7 DEF Nodes
<1>9. Live' = Live \ swept
  <2>1. ASSUME NEW b PROVE b \in Live' <=> b \in Live /\ b \notin swept
    BY <1>2, <1>6, <1>7 DEF Live
  <2>. QED  BY <2>1
<1>10. \A b \in Nodes' : object_tree'[b].size = object_tree[b].size
  BY <1>6, <1>7
<1>11. \A b \in Live' : /\ object_tree'[b].mark = object_tree[b].mark
                        /\ object_tree'[b].trace = object_tree[b].trace
  BY <1>6, <1>7, <1>9, Facts DEF Live
<1>12. ASSUME NEW b \in Nodes' \ Live'
       PROVE  /\ object_tree'[b].trace = "none"
              /\ object_tree'[b].mark = IF b \in swept THEN NURSERY ELSE object_tree[b].mark
  <2>1. CASE b \in swept
    BY <1>6, <1>7, <2>1
  <2>2. CASE b \notin swept
    <3>1. b \in Nodes \ Live
      BY <1>7, <1>9, <1>12, <2>2
    <3>. QED  BY <1>6, <1>7, <2>2, <3>1, SpaceParts
  <2>. QED  BY <2>1, <2>2
<1>. QED  BY <1>5, <1>7, <1>8, <1>9, <1>10, <1>11, <1>12 DEF SweptOut

\* The objects that a collection sweeps.
Unmarked == {a \in IF phase = "minor" THEN nursery ELSE object_map : ToSweep(a)}

LEMMA FinishIs ==
  ASSUME IInv, FinishGC
  PROVE  /\ phase # "mutator" /\ todo = {} /\ \A w \in Workers : pc[w] = Idle
         /\ SweptOut(Unmarked) /\ Unmarked \subseteq Live
         /\ Unmarked = IF phase = "minor" THEN nursery \ Survivors ELSE Live \ Survivors
         /\ nursery' = {} /\ extents' = {}
         /\ free_pages' = total_pages - live_pages
         /\ remembered_set' = {} /\ remembered_edges' = {}
         /\ field' = [a \in DOMAIN field \ Unmarked |-> field[a]]
         /\ count' = count + 1 /\ phase' = "mutator" /\ allocated' = 0 /\ reused' = {}
         /\ UNCHANGED <<total_pages, marked, live_pages, synchronous_release, root, todo, pc>>
<1>. DEFINE tree == [a \in Nodes |-> IF a \in Unmarked THEN Dead(object_tree[a].size)
                                     ELSE object_tree[a]]
<1>1. /\ phase # "mutator" /\ todo = {} /\ \A w \in Workers : pc[w] = Idle
      /\ \E order \in [1 .. Cardinality(Unmarked) -> Unmarked] :
           /\ ToSet(order) = Unmarked
           /\ LET q == AllPushed(quarantine, tree, order)
              IN IF synchronous_release THEN Processed(tree, q) ELSE Becomes(tree, q)
      /\ nursery' = {} /\ extents' = {}
      /\ free_pages' = total_pages - live_pages
      /\ remembered_set' = {} /\ remembered_edges' = {}
      /\ field' = [a \in DOMAIN field \ Unmarked |-> field[a]]
      /\ count' = count + 1 /\ phase' = "mutator" /\ allocated' = 0 /\ reused' = {}
      /\ UNCHANGED <<total_pages, marked, live_pages, synchronous_release, root, todo, pc>>
  BY DEF FinishGC, Cleared, Unmarked
<1>2. /\ Unmarked = IF phase = "minor" THEN nursery \ Survivors ELSE Live \ Survivors
      /\ Unmarked \subseteq Live
  <2>1. nursery \subseteq Live /\ object_map = Nodes
    BY SpaceParts
  <2>. QED  BY <2>1 DEF Unmarked, ToSweep, Survivors, is_survivor, Live
<1>3. SweptOut(Unmarked)
  <2>1. PICK order \in [1 .. Cardinality(Unmarked) -> Unmarked] :
          /\ ToSet(order) = Unmarked
          /\ IF synchronous_release THEN Processed(tree, AllPushed(quarantine, tree, order))
             ELSE Becomes(tree, AllPushed(quarantine, tree, order))
    BY <1>1
  <2>. DEFINE s == Unmarked
              q == AllPushed(quarantine, tree, order)
  <2>2. /\ order \in [1 .. Cardinality(s) -> s] /\ ToSet(order) = s /\ s \subseteq Live
        /\ tree = [a \in Nodes |-> IF a \in s THEN Dead(object_tree[a].size)
                                   ELSE object_tree[a]]
        /\ q = AllPushed(quarantine, tree, order)
        /\ IF synchronous_release THEN Processed(tree, q) ELSE Becomes(tree, q)
    BY <1>2, <2>1
  <2>. HIDE DEF s, q, tree
  <2>3. SweptOut(s)
    BY <2>2, SweepIs
  <2>. QED  BY <2>3 DEF s
<1>. QED  BY <1>1, <1>2, <1>3

LEMMA FinishKeeps ==
  ASSUME IInv, FinishGC
  PROVE  IInv'
<1>1. /\ phase # "mutator" /\ todo = {} /\ \A w \in Workers : pc[w] = Idle
      /\ SweptOut(Unmarked) /\ Unmarked \subseteq Live
      /\ Unmarked = IF phase = "minor" THEN nursery \ Survivors ELSE Live \ Survivors
      /\ nursery' = {} /\ extents' = {}
      /\ free_pages' = total_pages - live_pages
      /\ remembered_set' = {} /\ remembered_edges' = {}
      /\ field' = [a \in DOMAIN field \ Unmarked |-> field[a]]
      /\ count' = count + 1 /\ phase' = "mutator" /\ allocated' = 0 /\ reused' = {}
      /\ UNCHANGED <<total_pages, marked, live_pages, synchronous_release, root, todo, pc>>
  BY FinishIs
<1>2. /\ Shape(object_tree', quarantine', mapped') /\ object_map' = Nodes'
      /\ Nodes' \subseteq Nodes /\ Live' = Live \ Unmarked
      /\ \A b \in Nodes' : object_tree'[b].size = object_tree[b].size
      /\ \A b \in Live' : /\ object_tree'[b].mark = object_tree[b].mark
                          /\ object_tree'[b].trace = object_tree[b].trace
      /\ \A b \in Nodes' \ Live' :
           /\ object_tree'[b].trace = "none"
           /\ object_tree'[b].mark = IF b \in Unmarked THEN NURSERY ELSE object_tree[b].mark
  BY <1>1 DEF SweptOut
<1>3. /\ Reached \subseteq Survivors /\ Survivors \subseteq Live
      /\ Live' \subseteq Live /\ Live' \subseteq Nodes' /\ Survivors \subseteq Live'
      /\ phase = "major" => Live' = Survivors
  BY <1>1, <1>2, Marked DEF Survivors, Live
<1>4. /\ \A b \in Live' : is_survivor(b)' = is_survivor(b)
      /\ \A b \in Nodes' : Span(b)' = Span(b)
      /\ Survivors' = Survivors
  <2>1. \A b \in Live' : is_survivor(b)' = is_survivor(b)
    BY <1>1, <1>2 DEF is_survivor
  <2>2. \A b \in Nodes' : Span(b)' = Span(b)
    BY <1>2 DEF Span
  <2>3. \A b : b \in Survivors' <=> b \in Live' /\ is_survivor(b)
    BY <2>1 DEF Survivors, is_survivor
  <2>4. \A b : b \in Survivors <=> b \in Live /\ is_survivor(b)
    BY DEF Survivors
  <2>. QED  BY <1>3, <2>1, <2>2, <2>3, <2>4
<1>5. OnStack' \subseteq OnStack /\ InHandles' = InHandles /\ Kept' \subseteq Kept
  <2>1. OnStack' \subseteq OnStack
    BY <1>1, <1>3, <1>4 DEF OnStack
  <2>. QED  BY <1>1, <1>4, <2>1 DEF InHandles, Kept
<1>6. /\ DOMAIN field' = Live' /\ \A b \in Live' : field'[b] = field[b]
      /\ field' \in [Live' -> Pages \cup {Null}] /\ root' \in [Roots -> Pages \cup {Null}]
      /\ \A b \in Live' : object_tree'[b].trace = "none" => field'[b] = Null
  <2>1. /\ field \in [Live -> Pages \cup {Null}] /\ root \in [Roots -> Pages \cup {Null}]
        /\ \A b \in Live : object_tree[b].trace = "none" => field[b] = Null
    BY DEF IInv, Program
  <2>2. field' = [b \in Live' |-> field[b]]
    BY <1>1, <1>2, <2>1
  <2>. QED  BY <1>1, <1>2, <1>3, <2>1, <2>2
<1>7. Reached' \subseteq Reached
  <2>1. Kept' \subseteq Reached
    BY <1>5, ReachedHas
  <2>2. \A b \in Reached : b \in DOMAIN field' => field'[b] \in Reached \cup {Null}
    BY <1>3, <1>6, ReachedHas, Facts
  <2>. QED  BY <2>1, <2>2, ReachedWithin
<1>8. Counters'
  <2>1. Counters
    BY DEF IInv
  <2>2. /\ free_pages' \in Int /\ allocated' = 0
        /\ total_pages' - free_pages' - live_pages' = allocated'
    BY <1>1, <2>1 DEF Counters
  <2>3. MaxCount \in Nat /\ count' \in 0 .. MaxCount
    <3>1. MaxCount \in Nat
      BY LargeObjectsAssumption
    <3>. QED  BY <1>1, <2>1, <3>1 DEF Counters
  <2>. QED  BY <1>1, <2>1, <2>2, <2>3 DEF Counters
<1>9. Space'
  BY <1>1, <1>2 DEF Space
<1>10. Program'
  BY <1>3, <1>6, <1>7 DEF Program
<1>11. Barrier'
  <2>1. ASSUME NEW b \in Reached', field'[b] # Null PROVE is_survivor(field[b])'
    <3>1. b \in Reached /\ b \in Live' /\ field'[b] = field[b]
      BY <1>3, <1>6, <1>7
    <3>2. field[b] \in Reached
      BY <2>1, <3>1, <1>3, ReachedHas, Facts
    <3>3. field[b] \in Live' /\ is_survivor(field[b])
      BY <1>3, <3>2 DEF Survivors
    <3>4. object_tree'[field[b]].mark = marked'
      BY <1>1, <1>2, <3>3 DEF is_survivor
    <3>. QED  BY <3>1, <3>4 DEF is_survivor
  <2>2. \A b \in Live' : object_tree'[b].mark \in {NURSERY, marked'}
    <3>1. CASE phase = "major"
      BY <1>1, <1>2, <1>3, <3>1 DEF Survivors, is_survivor
    <3>2. CASE phase # "major"
      BY <1>1, <1>2, <1>3, <3>2 DEF IInv, Barrier
    <3>. QED  BY <3>1, <3>2
  <2>. QED  BY <1>1, <2>1, <2>2 DEF Barrier
<1>12. Tracing'
  <2>1. pc \in [Workers -> Tracers] /\ pc' = pc /\ Workers' = Workers
    BY <1>1 DEF IInv, Tracing, Workers
  <2>2. \A w \in Workers : pc[w].ref = Null
    BY <1>1 DEF Idle
  <2>. QED  BY <1>1, <2>1, <2>2 DEF Tracing, Tracers, Idle
<1>13. ASSUME ~AnyWord PROVE Exact'
  <2>1. Exact
    BY <1>13 DEF IInv
  <2>2. ASSUME root'[Stack] # Null PROVE \E b \in Live' : root'[Stack] \in Span(b)'
    <3>1. PICK b \in Live : root[Stack] \in Span(b)
      BY <1>1, <2>1, <2>2 DEF Exact
    <3>2. b \in Kept
      BY <1>13, <3>1 DEF Kept, OnStack
    <3>3. b \in Live'
      BY <1>3, <3>2, ReachedHas
    <3>. QED  BY <1>1, <1>3, <1>4, <3>1, <3>3
  <2>3. \A b \in Nodes' \ Live' : object_tree'[b].mark = NURSERY
    BY <1>2, <2>1 DEF Exact
  <2>4. surviving' = surviving
    <3>1. \A b : b \in Live' /\ is_survivor(b)' <=> b \in Live /\ is_survivor(b)
      <4>1. \A b : b \in Survivors' <=> b \in Live' /\ is_survivor(b)'
        BY DEF Survivors
      <4>. QED  BY <1>4, <4>1 DEF Survivors
    <3>2. \A b \in Live' : object_tree'[b].size = object_tree[b].size
      BY <1>2, <1>3
    <3>. QED  BY <3>1, <3>2 DEF surviving
  <2>5. (live_pages = Total(surviving))'
    BY <1>1, <2>1, <2>4, TotalThen DEF Exact
  <2>. QED  BY <1>1, <2>2, <2>3, <2>5 DEF Exact
<1>. QED  BY <1>8, <1>9, <1>10, <1>11, <1>12, <1>13 DEF IInv

--------------------------------------------------------------------------------
\* Every step.

LEMMA InitIs == Init => IInv
<1>1. SUFFICES ASSUME Init PROVE IInv
  OBVIOUS
<1>2. /\ object_tree = << >> /\ object_map = {} /\ nursery = {}
      /\ quarantine = [c \in Classes |-> << >>]
      /\ marked = MARK_0 /\ extents = {}
      /\ total_pages = 0 /\ free_pages = 0 /\ live_pages = 0
      /\ remembered_edges = {} /\ remembered_set = {}
      /\ synchronous_release \in BOOLEAN
      /\ mapped = {} /\ field = << >> /\ root = [r \in Roots |-> Null]
      /\ phase = "mutator" /\ count = 0 /\ todo = {}
      /\ \E crew \in Crews : pc = [w \in crew |-> Idle]
      /\ allocated = 0 /\ reused = {}
  BY <1>1 DEF Init
<1>3. /\ Nodes = {} /\ Live = {} /\ DOMAIN field = {} /\ DOMAIN object_tree = {}
      /\ object_tree = [a \in {} |-> object_tree[a]] /\ field = [a \in {} |-> field[a]]
  BY <1>2 DEF Nodes, Live
<1>4. Counters
  BY <1>2, LargeObjectsAssumption DEF Counters
<1>5. Space
  <2>1. Apart(object_tree, mapped)
    BY <1>2, <1>3 DEF Apart
  <2>2. InLists(object_tree, quarantine)
    <3>1. << >> \in Seq(Pages) /\ IsInjective(<< >>) /\ ToSet(<< >>) = {}
      BY DEF IsInjective, ToSet
    <3>2. \A c \in Classes : DeadOf(object_tree, c) = {}
      BY <1>3 DEF DeadOf
    <3>. QED  BY <1>2, <3>1, <3>2 DEF InLists
  <2>3. object_tree \in [DOMAIN object_tree -> NodeRecords]
    BY <1>3
  <2>. QED  BY <1>2, <1>3, <2>1, <2>2, <2>3 DEF Space, Shape
<1>6. Survivors = {} /\ InHandles = {} /\ OnStack = {} /\ Kept = {} /\ Reached = {}
  <2>1. Survivors = {} /\ OnStack = {}
    BY <1>3 DEF Survivors, OnStack
  <2>2. InHandles = {}
    BY <1>2 DEF InHandles, Roots
  <2>3. Kept = {}
    BY <2>1, <2>2 DEF Kept
  <2>. DEFINE k == Kept
              f == field
  <2>4. k = {} /\ DOMAIN f = {}
    BY <1>3, <2>3
  <2>. HIDE DEF k, f
  <2>5. Reach(f, k) \subseteq {}
    BY <2>4, ReachLeast
  <2>. QED  BY <2>1, <2>2, <2>3, <2>5 DEF Reached, k, f
<1>7. Program
  <2>1. field \in [Live -> Pages \cup {Null}]
    BY <1>3
  <2>. QED  BY <1>2, <1>3, <1>6, <2>1 DEF Program
<1>8. Barrier
  BY <1>2, <1>3, <1>6 DEF Barrier
<1>9. Tracing
  <2>1. PICK crew \in Crews : pc = [w \in crew |-> Idle]
    BY <1>2
  <2>2. Idle \in Tracers /\ Idle.ref = Null
    BY DEF Idle, Tracers, Marks, NURSERY
  <2>. QED  BY <1>2, <2>1, <2>2 DEF Tracing, Workers
<1>10. Exact
  <2>1. root[Stack] = Null
    BY <1>2 DEF Roots
  <2>. DEFINE s == surviving
  <2>2. \A a \in Pages : s[a] = 0
    BY <1>3 DEF surviving
  <2>. HIDE DEF s
  <2>3. Total(s) = 0
    BY <2>2, TotalNone
  <2>. QED  BY <1>2, <1>3, <2>1, <2>3 DEF Exact, s
<1>. QED  BY <1>4, <1>5, <1>7, <1>8, <1>9, <1>10 DEF IInv

LEMMA StutterKeeps ==
  ASSUME IInv, UNCHANGED vars
  PROVE  IInv'
<1>. USE DEF vars, space_vars, mark_vars, remembered_vars, gc_vars, program_vars
<1>1. /\ Nodes' = Nodes /\ Live' = Live /\ Workers' = Workers /\ Survivors' = Survivors
      /\ \A a : Span(a)' = Span(a) /\ is_survivor(a)' = is_survivor(a)
  BY DEF Nodes, Live, Workers, Survivors, Span, is_survivor
<1>2. /\ InHandles' = InHandles /\ OnStack' = OnStack /\ Kept' = Kept
      /\ Reached' = Reached /\ Source' = Source /\ Refs' = Refs /\ surviving' = surviving
  BY <1>1 DEF InHandles, OnStack, Kept, Reached, Source, Refs, surviving
<1>3. Counters' /\ Space' /\ Program' /\ Barrier'
  BY <1>1, <1>2 DEF IInv, Counters, Space, Program, Barrier
<1>4. \A e \in Roots \cup Nodes : Done(e) => Done(e)'
  <2>1. \A e \in Roots \cup Nodes : Referent(e)' = Referent(e)
    BY <1>1, SameReferent
  <2>. QED  BY <1>1, <2>1 DEF Done, Seen
<1>5. Tracing'
  BY <1>1, <1>2, <1>4, Facts DEF IInv, Tracing, Tracers, Idle
<1>6. ~AnyWord => Exact'
  <2>1. ASSUME ~AnyWord PROVE Exact'
    <3>1. Exact
      BY <2>1 DEF IInv
    <3>2. (live_pages = Total(surviving))'
      BY <1>2, <3>1, TotalThen DEF Exact
    <3>. QED  BY <1>1, <1>2, <3>1, <3>2 DEF Exact
  <2>. QED  BY <2>1
<1>. QED  BY <1>3, <1>5, <1>6 DEF IInv

LEMMA StepKeeps == IInv /\ [Next]_vars => IInv'
<1>1. SUFFICES ASSUME IInv, [Next]_vars PROVE IInv'
  OBVIOUS
<1>2. ASSUME NEW npages \in Sizes, NEW trace \in Kinds, NEW r \in Handles,
             Reuse(npages, trace, r)
      PROVE  IInv'
  BY <1>1, <1>2, ReuseKeeps
<1>3. ASSUME NEW npages \in Sizes, NEW trace \in Kinds, NEW r \in Handles,
             Acquire(npages, trace, r)
      PROVE  IInv'
  BY <1>1, <1>3, AcquireKeeps
<1>4. ASSUME NEW r \in Handles, NEW v \in Handles \cup {Null},
             Write(r, IF v = Null THEN Null ELSE root[v])
      PROVE  IInv'
  <2>. DEFINE ref == IF v = Null THEN Null ELSE root[v]
  <2>1. ref = Null \/ \E h \in Handles : ref = root[h]
    BY <1>4
  <2>2. Write(r, ref)
    BY <1>4
  <2>. HIDE DEF ref
  <2>. QED  BY <1>1, <2>1, <2>2, WriteKeeps
<1>5. ASSUME NEW r \in Handles, NEW ref, Move(r, ref) PROVE IInv'
  BY <1>1, <1>5, MoveKeeps
<1>6. ASSUME NEW word \in Words \cup {Null}, Push(word) PROVE IInv'
  BY <1>1, <1>6, PushKeeps
<1>7. CASE Mutate
  BY <1>2, <1>3, <1>4, <1>5, <1>6, <1>7 DEF Mutate
<1>8. CASE large_object_space_process_quarantine
  BY <1>1, <1>8, ReleaseKeeps
<1>9. ASSUME NEW kind \in Requests, StartGC(kind) PROVE IInv'
  BY <1>1, <1>9, StartKeeps
<1>10. CASE Trace
  <2>1. ASSUME NEW w \in Workers, NEW e \in todo, Visit(w, e) PROVE IInv'
    BY <1>1, <2>1, VisitKeeps
  <2>2. ASSUME NEW w \in Workers, Mark(w) PROVE IInv'
    BY <1>1, <2>2, MarkKeeps
  <2>. QED  BY <1>10, <2>1, <2>2 DEF Trace
<1>11. CASE FinishGC
  BY <1>1, <1>11, FinishKeeps
<1>12. CASE UNCHANGED vars
  BY <1>1, <1>12, StutterKeeps
<1>. QED  BY <1>1, <1>7, <1>8, <1>9, <1>10, <1>11, <1>12 DEF Next, Finished

\* The inductive invariant, for any words on the stacks: the space is in order at each step
\* of allocation, collection and the background task of large-object-space.h.
THEOREM InvariantHolds == Spec => []IInv
<1>1. Init => IInv
  BY InitIs
<1>2. IInv /\ [Next]_vars => IInv'
  BY StepKeeps
<1>. QED  BY <1>1, <1>2, PTL DEF Spec

--------------------------------------------------------------------------------
\* What the invariant gives.

LEMMA ProgramHolds ==
  ASSUME IInv
  PROVE  /\ field \in [Live -> Pages \cup {Null}] /\ root \in [Roots -> Pages \cup {Null}]
         /\ remembered_edges \subseteq Pages /\ remembered_set \subseteq Pages
         /\ pc \in [Workers -> Tracers] /\ todo \subseteq Roots \cup Pages
<1>1. Program /\ Barrier /\ Tracing
  BY DEF IInv
<1>2. todo \subseteq Roots \cup Pages
  BY <1>1, Facts DEF Tracing
<1>. QED  BY <1>1, <1>2 DEF Program, Barrier, Tracing

LEMMA SpansInv == IInv => SpansAgree
<1>1. SUFFICES ASSUME IInv PROVE SpansAgree
  OBVIOUS
<1>2. /\ Shape(object_tree, quarantine, mapped) /\ object_map = Nodes
      /\ nursery \subseteq Live /\ reused \subseteq Live /\ Counters
      /\ extents = IF phase = "mutator" THEN {} ELSE {Span(a) : a \in Nodes}
  BY <1>1, SpaceParts DEF IInv, Space
<1>3. /\ Nodes \subseteq Pages /\ Live \subseteq Nodes
      /\ object_tree \in [Nodes -> NodeRecords]
  BY <1>1, Facts
<1>4. /\ \A a \in Nodes : Span(a) \subseteq Pages
      /\ \A a, b \in Nodes : a # b => Span(a) \cap Span(b) = {}
      /\ mapped = {p \in Pages : \E a \in Nodes : p \in Span(a)}
  BY <1>2, Spans DEF Shape, Apart, Nodes
<1>5. UNION {Span(a) : a \in Nodes} = mapped
  <2>1. ASSUME NEW p PROVE p \in UNION {Span(a) : a \in Nodes} <=> p \in mapped
    BY <1>4
  <2>. QED  BY <2>1
<1>6. \A c \in Classes :
        /\ quarantine[c] \in Seq(Pages) /\ IsInjective(quarantine[c])
        /\ ToSet(quarantine[c]) = {a \in Nodes \ Live : size_class(object_tree[a].size) = c}
  <2>1. \A c \in Classes : DeadOf(object_tree, c)
                             = {a \in Nodes \ Live : size_class(object_tree[a].size) = c}
    BY DEF DeadOf, Nodes, Live
  <2>. QED  BY <1>2, <2>1, InItsList
<1>7. TypeOK
  <2>1. \A a \in Nodes :
          object_tree[a] \in [size : Nat \ {0}, is_live : BOOLEAN, mark : Marks,
                              trace : {"precisely", "none", "conservatively"}, age : {0, 1}]
    BY <1>3 DEF NodeRecords
  <2>2. extents \subseteq SUBSET Pages
    BY <1>2, <1>4
  <2>3. mapped \subseteq Pages
    BY <1>4
  <2>4. \A w \in Workers : pc[w] \in [ref : Pages \cup {Null}, mark : Marks]
    BY <1>1, ProgramHolds DEF Tracers
  <2>. QED  BY <1>1, <1>2, <1>3, <1>6, <2>1, <2>2, <2>3, <2>4, ProgramHolds DEF TypeOK, Counters
<1>. QED  BY <1>2, <1>4, <1>5, <1>6, <1>7 DEF SpansAgree

\* The nodes of large_object_space_alloc and large_object_space_process_quarantine are
\* disjoint and cover what the space has mapped, tree, object_map and, in a collection,
\* extents have the same, and every dead one is on the list of its size class, once.
\* This holds with any words on the stacks.
THEOREM SpansAgreeHolds == Spec => []SpansAgree
BY SpansInv, InvariantHolds, PTL

\* What large_object_space_finish_gc sweeps is never reachable through precise roots and
\* fields, during a collection as between two, whatever words the stacks have: marks that
\* stale words cause are too many, never too few.
THEOREM HandlesKept == Spec => [](ReachableFrom(InHandles) \subseteq Live)
<1>1. IInv => ReachableFrom(InHandles) \subseteq Live
  <2>1. SUFFICES ASSUME IInv PROVE ReachableFrom(InHandles) \subseteq Live
    OBVIOUS
  <2>. DEFINE h == InHandles
              k == Kept
              f == field
  <2>2. h \subseteq k
    BY DEF Kept
  <2>3. ReachableFrom(h) = Reach(f, h)
    <3>. HIDE DEF h
    <3>. QED  BY ReachableIs
  <2>4. Reach(f, h) \subseteq Reach(f, k)
    <3>. HIDE DEF f, h, k
    <3>1. h \subseteq Reach(f, k)
      BY <2>2, ReachHas
    <3>. QED  BY <3>1, ReachWithin
  <2>. QED  BY <2>1, <2>3, <2>4, Facts DEF Reached
<1>. QED  BY <1>1, InvariantHolds, PTL

--------------------------------------------------------------------------------
\* Without stale words on the stacks.

LEMMA HeldIs == Held = InHandles \cup OnStack
BY DEF Held, InHandles, OnStack

LEMMA KeepsInv == IInv /\ ~AnyWord => KeepsReachable
<1>1. SUFFICES ASSUME IInv, ~AnyWord, phase = "mutator" PROVE KeepsReachable
  BY DEF KeepsReachable
<1>2. /\ Exact /\ Barrier
      /\ root[Stack] # Null => \E a \in Live : root[Stack] \in Span(a)
  BY <1>1 DEF IInv, Exact
<1>3. Kept = InHandles \cup OnStack \cup Survivors
  BY <1>1 DEF Kept
<1>4. ReachableFrom(Held) \subseteq Live
  <2>. DEFINE h == Held
              k == Kept
              f == field
  <2>1. h \subseteq k
    BY <1>3, HeldIs
  <2>2. Reach(f, h) \subseteq Reach(f, k)
    <3>. HIDE DEF f, h, k
    <3>1. h \subseteq Reach(f, k)
      BY <2>1, ReachHas
    <3>. QED  BY <3>1, ReachWithin
  <2>3. ReachableFrom(h) = Reach(f, h)
    <3>. HIDE DEF h
    <3>. QED  BY ReachableIs
  <2>. QED  BY <1>1, <2>2, <2>3, Facts DEF Reached
<1>5. ASSUME NEW a \in Live, is_survivor(a), field[a] # Null, ~is_survivor(field[a])
      PROVE  a \in remembered_set
  <2>1. a \in Reached
    BY <1>3, <1>5, ReachedHas DEF Survivors
  <2>. QED  BY <1>1, <1>2, <1>5, <2>1 DEF Barrier
<1>6. remembered_edges = remembered_set
  BY <1>2 DEF Barrier
<1>. QED  BY <1>2, <1>4, <1>5, <1>6 DEF KeepsReachable

\* What the program can reach is live between collections, as the write barrier has what
\* a minor collection cannot see: gc_write_barrier_slow and the marks that the next minor
\* collection takes for those of old objects agree.
THEOREM KeepsReachableHolds ==
  ASSUME AnyWord = FALSE
  PROVE  Spec => []KeepsReachable
<1>1. IInv => KeepsReachable
  BY KeepsInv
<1>. QED  BY <1>1, InvariantHolds, PTL

\* The counters of large_object_space_add_to_allocation_counter give the pages allocated
\* since the last collection, and large_object_space_mark, in which workers race for the
\* same object, has counted the pages of each survivor once.
THEOREM AccountingHolds ==
  ASSUME AnyWord = FALSE
  PROVE  Spec => []Accounting
<1>1. IInv => Accounting
  <2>1. SUFFICES ASSUME IInv, phase = "mutator" PROVE Accounting
    BY DEF Accounting
  <2>2. Counters /\ Exact
    BY <2>1 DEF IInv
  <2>3. surviving = [a \in Pages |-> IF a \in Live /\ is_survivor(a)
                                     THEN object_tree[a].size ELSE 0]
    BY DEF surviving
  <2>. QED  BY <2>1, <2>2, <2>3 DEF Accounting, Counters, Exact
<1>. QED  BY <1>1, InvariantHolds, PTL

\* large_object_space_mark asserts that what it marks is live, which holds of what the
\* program reaches; the run StaleWord has a word that makes the assertion fail.
THEOREM MarksLiveHolds ==
  ASSUME AnyWord = FALSE
  PROVE  Spec => []MarksLive
<1>1. IInv => MarksLive
  <2>1. SUFFICES ASSUME IInv, NEW w \in Workers, pc[w].ref # Null
                 PROVE  object_tree[pc[w].ref].is_live
    BY DEF MarksLive
  <2>2. phase # "mutator" /\ pc[w].ref \in Refs
    BY <2>1, InTracing DEF Refs
  <2>3. pc[w].ref \in Live
    BY <2>1, <2>2, SourceKept, Facts
  <2>. QED  BY <2>3 DEF Live
<1>. QED  BY <1>1, InvariantHolds, PTL

\* Only FinishGC lets mutators run.
LEMMA OnlyFinish ==
  ASSUME [Next]_vars, phase # "mutator", phase' = "mutator"
  PROVE  FinishGC
<1>1. ASSUME Mutate PROVE FALSE
  <2>1. ASSUME NEW a, NEW r, NEW npages, Allocated(a, r, npages) PROVE phase' = phase
    BY <2>1 DEF Allocated, gc_vars
  <2>2. ASSUME NEW npages, NEW trace, NEW r, Reuse(npages, trace, r) PROVE phase' = phase
    BY <2>1, <2>2 DEF Reuse
  <2>3. ASSUME NEW npages, NEW trace, NEW r, Acquire(npages, trace, r) PROVE phase' = phase
    BY <2>1, <2>3 DEF Acquire
  <2>4. ASSUME NEW r, NEW ref, Write(r, ref) \/ Move(r, ref) PROVE phase' = phase
    BY <2>4 DEF Write, Move, gc_vars
  <2>5. ASSUME NEW word, Push(word) PROVE phase' = phase
    BY <2>5 DEF Push, gc_vars
  <2>. QED  BY <1>1, <2>2, <2>3, <2>4, <2>5 DEF Mutate
<1>2. ASSUME large_object_space_process_quarantine PROVE FALSE
  BY <1>2 DEF large_object_space_process_quarantine
<1>3. ASSUME NEW kind \in Requests, StartGC(kind) PROVE FALSE
  BY <1>3 DEF StartGC, Running
<1>4. ASSUME Trace PROVE FALSE
  BY <1>4 DEF Trace, Visit, Mark
<1>5. ASSUME UNCHANGED vars PROVE FALSE
  BY <1>5 DEF vars, gc_vars
<1>. QED  BY <1>1, <1>2, <1>3, <1>4, <1>5 DEF Next, Finished

\* large_object_space_finish_gc leaves no object that the program cannot reach after a
\* major collection, and after a minor one none of those that were allocated from the
\* quarantine, which it finds in the nursery, unless an older object leads to it.
THEOREM ReclaimsHolds ==
  ASSUME AnyWord = FALSE
  PROVE  Spec => Reclaims
<1>. DEFINE old == {a \in Live \ reused : is_survivor(a)}
            R == phase # "mutator" /\ phase' = "mutator" =>
                   IF phase = "major" THEN Live' = ReachableFrom(Held)
                   ELSE Live' \cap reused \subseteq ReachableFrom(Held \cup old)
<1>1. IInv /\ [Next]_vars => R
  <2>1. SUFFICES ASSUME IInv, [Next]_vars, phase # "mutator", phase' = "mutator" PROVE R
    OBVIOUS
  <2>2. FinishGC
    BY <2>1, OnlyFinish
  <2>3. /\ todo = {} /\ \A w \in Workers : pc[w] = Idle
        /\ Unmarked = IF phase = "minor" THEN nursery \ Survivors ELSE Live \ Survivors
        /\ Live' = Live \ Unmarked
    BY <2>1, <2>2, FinishIs DEF SweptOut
  <2>4. Reached \subseteq Survivors /\ Survivors \subseteq Reach(field, Source)
    BY <2>1, <2>3, Marked
  <2>5. /\ phase \in {"minor", "major"} /\ reused \subseteq nursery /\ Survivors \subseteq Live
        /\ old = Survivors \ reused
    BY <2>1 DEF IInv, Counters, Space, Survivors
  <2>. DEFINE h == Held
              o == Held \cup old
              f == field
              s == Source
  <2>6. ReachableFrom(h) = Reach(f, h) /\ ReachableFrom(o) = Reach(f, o)
    <3>. HIDE DEF h, o
    <3>. QED  BY ReachableIs
  <2>7. CASE phase = "major"
    <3>1. s = h
      BY <2>7, HeldIs DEF Source
    <3>2. Reach(f, h) \subseteq Survivors
      <4>1. s \subseteq Kept /\ Reach(f, s) \subseteq Reached
        BY <2>1, SourceKept DEF Source, Kept
      <4>. QED  BY <2>4, <3>1, <4>1
    <3>3. Survivors = Reach(f, h)
      BY <2>4, <3>1, <3>2
    <3>. QED  BY <2>3, <2>5, <2>6, <2>7, <3>3
  <2>8. CASE phase = "minor"
    <3>1. s = o
      BY <2>5, <2>8, HeldIs DEF Source
    <3>2. Live' \cap reused \subseteq Survivors
      BY <2>3, <2>5, <2>8
    <3>. QED  BY <2>4, <2>6, <2>8, <3>1, <3>2
  <2>. QED  BY <2>5, <2>7, <2>8
<1>. QED  BY <1>1, InvariantHolds, PTL DEF Spec, Reclaims
================================================================================
