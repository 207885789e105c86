--------------------------- MODULE HeapBudgetProofs ---------------------------
(***************************************************************************)
(* Proofs about HeapBudget.                                                *)
(***************************************************************************)
EXTENDS HeapBudget, WellFoundedInduction, FiniteSetTheorems, TLAPS

--------------------------------------------------------------------------------
\* Arithmetic.

LEMMA Times ==
  ASSUME NEW a \in Int, NEW b \in Int, NEW c \in Int
  PROVE  /\ a * b \in Int /\ a * b = b * a
         /\ (a + b) * c = a * c + b * c /\ (a - b) * c = a * c - b * c
         /\ 0 * c = 0 /\ 1 * c = c
BY SMT

LEMMA TimesMonotone ==
  ASSUME NEW a \in Int, NEW b \in Int, NEW c \in Nat, a <= b
  PROVE  a * c <= b * c
BY SMT

LEMMA CeilDivIs ==
  ASSUME NEW a \in Nat, NEW b \in Nat \ {0}
  PROVE  CeilDiv(a, b) \in Nat /\ a <= CeilDiv(a, b) * b
BY SMT DEF CeilDiv

LEMMA MinimumIs ==
  ASSUME NEW a \in Nat
  PROVE  Minimum(a) \in Nat /\ Minimum(a) <= a
<1>. DEFINE n == a * MinimumPercent
<1>1. n \in Nat /\ n <= 100 * a
  <2>1. MinimumPercent \in Nat /\ MinimumPercent <= 100
    BY BudgetAssumption
  <2>2. n = MinimumPercent * a /\ n \in Nat
    BY <2>1, Times
  <2>. QED  BY <2>1, <2>2, TimesMonotone
<1>. HIDE DEF n
<1>2. (n + 100 - 1) \div 100 \in Nat /\ (n + 100 - 1) \div 100 <= a
  BY <1>1
<1>. QED  BY <1>2 DEF n, Minimum, ReserveOf, CeilDiv

LEMMA MinimumMonotone ==
  ASSUME NEW a \in Nat, NEW b \in Nat, a <= b
  PROVE  Minimum(a) <= Minimum(b)
<1>. DEFINE m == a * MinimumPercent
            n == b * MinimumPercent
<1>1. m \in Int /\ n \in Int /\ m <= n
  BY BudgetAssumption, TimesMonotone
<1>. HIDE DEF m, n
<1>2. (m + 100 - 1) \div 100 <= (n + 100 - 1) \div 100
  BY <1>1
<1>. QED  BY <1>2 DEF m, n, Minimum, ReserveOf, CeilDiv

LEMMA MinIs ==
  ASSUME NEW a \in Int, NEW b \in Int
  PROVE  Min({a, b}) = IF a <= b THEN a ELSE b
BY DEF Min

LEMMA MaxIs ==
  ASSUME NEW a \in Int, NEW b \in Int
  PROVE  Max({a, b}) = IF a >= b THEN a ELSE b
BY DEF Max

LEMMA InitialBlocks ==
  /\ InitialSlabs \in Nat /\ InitiallyOut \in Nat
  /\ InitiallyActive \in Nat
  /\ InitiallyActive = InitialSlabs * (SlabBlocks - MetaBlocks) - InitiallyOut
<1>. DEFINE c == CeilDiv(InitialSize, BlockSize)
            n == InitialSlabs
            d == SlabBlocks - MetaBlocks
<1>1. c \in Nat /\ BlockSize \in Nat \ {0} /\ SlabBlocks \in Nat \ {0} /\ d \in Nat \ {0}
  BY BudgetAssumption, CeilDivIs
<1>2. BlockSize * c \in Nat /\ SlabBlocks * BlockSize \in Nat \ {0}
  BY <1>1
<1>3. n \in Nat /\ BlockSize * c <= n * (SlabBlocks * BlockSize)
  BY <1>2, CeilDivIs DEF InitialSlabs, align_up
<1>4. n * SlabBlocks \in Nat /\ n * d \in Nat
  BY <1>1, <1>3
<1>5. c <= n * SlabBlocks
  <2>. HIDE DEF n, c
  <2>1. n * (SlabBlocks * BlockSize) = (n * SlabBlocks) * BlockSize
    BY <1>1, <1>3
  <2>2. SUFFICES ASSUME n * SlabBlocks + 1 <= c PROVE FALSE
    BY <1>1, <1>4
  <2>3. (n * SlabBlocks + 1) * BlockSize <= c * BlockSize
    BY <1>1, <1>4, <2>2, TimesMonotone
  <2>. QED  BY <1>1, <1>3, <1>4, <2>1, <2>3
<1>6. InitiallyOut = Min({n * SlabBlocks - c, n * d})
  BY DEF InitiallyOut
<1>. HIDE DEF n, c, d
<1>7. InitiallyOut \in Nat /\ InitiallyOut <= n * d
  BY <1>1, <1>4, <1>5, <1>6, MinIs
<1>8. InitiallyActive = n * d - InitiallyOut
  BY DEF InitiallyActive, n, d
<1>. QED  BY <1>3, <1>4, <1>7, <1>8 DEF n, d

--------------------------------------------------------------------------------
\* The sum of what the mutators ask for.

LEMMA Least ==
  ASSUME NEW S \in SUBSET Nat, S # {}
  PROVE  \E n \in S : \A m \in S : n <= m
<1>1. PICK n \in S : \A m \in S : <<m, n>> \notin OpToRel(<, Nat)
  BY NatLessThanWellFounded, WFMin
<1>2. \A m \in S : ~(m < n)
  BY <1>1 DEF OpToRel
<1>. QED  BY <1>2

Pick(s) == CHOOSE x \in s : TRUE

\* h has the partial sums of what the threads of a set want.
Sum(p, s, h) == IF s = {} THEN 0 ELSE p[Pick(s)].want + h[s \ {Pick(s)}]
Sums(p, h) == h = [s \in SUBSET Mutators |-> Sum(p, s, h)]

LEMMA PickIn ==
  ASSUME NEW s, s # {}
  PROVE  Pick(s) \in s
BY DEF Pick

LEMMA Rest ==
  ASSUME NEW s \in SUBSET Mutators, s # {}
  PROVE  /\ s \ {Pick(s)} \in SUBSET Mutators /\ Pick(s) \in Mutators
         /\ Cardinality(s) \in Nat \ {0}
         /\ Cardinality(s \ {Pick(s)}) = Cardinality(s) - 1
<1>1. IsFiniteSet(s)
  BY FS_Subset, BudgetAssumption
<1>2. Pick(s) \in s
  BY PickIn
<1>3. Cardinality(s) \in Nat /\ Cardinality(s) # 0
  BY <1>1, FS_CardinalityType, FS_EmptySet
<1>4. Cardinality(s \ {Pick(s)}) = Cardinality(s) - 1
  BY <1>1, <1>2, FS_RemoveElement
<1>. QED  BY <1>2, <1>3, <1>4

LEMMA NoRest ==
  /\ Cardinality({}) = 0
  /\ \A s \in SUBSET Mutators : Cardinality(s) \in Nat /\ Cardinality(s) <= Cardinality(Mutators)
  /\ \A s \in SUBSET Mutators : Cardinality(s) = 0 => s = {}
<1>1. Cardinality({}) = 0
  BY FS_EmptySet
<1>2. ASSUME NEW s \in SUBSET Mutators
      PROVE  /\ Cardinality(s) \in Nat /\ Cardinality(s) <= Cardinality(Mutators)
             /\ Cardinality(s) = 0 => s = {}
  <2>1. IsFiniteSet(s) /\ Cardinality(s) <= Cardinality(Mutators)
    BY FS_Subset, BudgetAssumption
  <2>. QED  BY <2>1, FS_CardinalityType, FS_EmptySet
<1>. QED  BY <1>1, <1>2

\* Sums of the sets of at most n threads.
Upto(p, n, h) ==
  \A s \in SUBSET Mutators : Cardinality(s) <= n => h[s] = Sum(p, s, h)

LEMMA MoreSums ==
  ASSUME NEW p, NEW n \in Nat, NEW h, Upto(p, n, h)
  PROVE  \E g : Upto(p, n + 1, g)
<1>. DEFINE g == [s \in SUBSET Mutators |-> IF Cardinality(s) <= n THEN h[s] ELSE Sum(p, s, h)]
<1>1. ASSUME NEW s \in SUBSET Mutators, Cardinality(s) <= n + 1
      PROVE  g[s] = Sum(p, s, g)
  <2>1. g[s] = Sum(p, s, h)
    BY DEF Upto
  <2>2. CASE s = {}
    BY <2>1, <2>2 DEF Sum
  <2>3. CASE s # {}
    <3>1. /\ s \ {Pick(s)} \in SUBSET Mutators
          /\ Cardinality(s \ {Pick(s)}) <= n
      BY <1>1, <2>3, Rest
    <3>2. g[s \ {Pick(s)}] = h[s \ {Pick(s)}]
      BY <3>1
    <3>. QED  BY <2>1, <3>2 DEF Sum
  <2>. QED  BY <2>2, <2>3
<1>. QED  BY <1>1 DEF Upto

LEMMA HaveSums ==
  ASSUME NEW p, NEW k \in Nat
  PROVE  \E h : Upto(p, k, h)
<1>. DEFINE Bad == {n \in Nat : ~\E h : Upto(p, n, h)}
<1>1. SUFFICES ASSUME Bad # {} PROVE FALSE
  OBVIOUS
<1>2. PICK n \in Bad : \A m \in Bad : n <= m
  BY <1>1, Least
<1>3. n # 0
  <2>. DEFINE h == [s \in SUBSET Mutators |-> 0]
  <2>1. Upto(p, 0, h)
    BY NoRest DEF Upto, Sum
  <2>. QED  BY <2>1
<1>4. n - 1 \in Nat /\ n - 1 \notin Bad
  BY <1>2, <1>3
<1>5. PICK h : Upto(p, n - 1, h)
  BY <1>4
<1>6. \E g : Upto(p, n - 1 + 1, g)
  BY <1>4, <1>5, MoreSums
<1>. QED  BY <1>2, <1>6

LEMMA AskedSums ==
  ASSUME NEW p
  PROVE  \E h : Sums(p, h) /\ Asked(p) = h[Mutators]
<1>1. Asked(p) = (CHOOSE h : Sums(p, h))[Mutators]
  BY DEF Asked, MapThenSumSet, MapThenFoldSet, Pick, Sum, Sums
<1>2. PICK h : Upto(p, Cardinality(Mutators), h)
  BY HaveSums, NoRest
<1>. DEFINE g == [s \in SUBSET Mutators |-> h[s]]
<1>3. ASSUME NEW s \in SUBSET Mutators
      PROVE  h[s] = Sum(p, s, g)
  <2>1. h[s] = Sum(p, s, h)
    BY <1>2, NoRest DEF Upto
  <2>2. CASE s = {}
    BY <2>1, <2>2 DEF Sum
  <2>3. CASE s # {}
    <3>1. s \ {Pick(s)} \in SUBSET Mutators
      BY <2>3, Rest
    <3>. QED  BY <2>1, <3>1 DEF Sum
  <2>. QED  BY <2>2, <2>3
<1>4. Sums(p, g)
  BY <1>3 DEF Sums
<1>5. Sums(p, CHOOSE f : Sums(p, f))
  BY <1>4
<1>. QED  BY <1>1, <1>5

Wanted(p) == \A n \in Mutators : p[n].want \in Nat
Keeps(p, q, m) == \A n \in Mutators : n # m => q[n].want = p[n].want
Change(p, q, s, m) == IF m \in s THEN q[m].want - p[m].want ELSE 0

\* When one mutator asks for more or less, the sum changes by that.
LEMMA AskedChange ==
  ASSUME NEW p, NEW q, NEW m, Wanted(p), Wanted(q), Keeps(p, q, m)
  PROVE  Asked(p) \in Nat /\ Asked(q) = Asked(p) + Change(p, q, Mutators, m)
<1>1. PICK g : Sums(p, g) /\ Asked(p) = g[Mutators]
  BY AskedSums
<1>2. PICK h : Sums(q, h) /\ Asked(q) = h[Mutators]
  BY AskedSums
<1>. DEFINE P(s) == g[s] \in Nat /\ h[s] = g[s] + Change(p, q, s, m)
            Bad == {Cardinality(s) : s \in {r \in SUBSET Mutators : ~P(r)}}
<1>3. SUFFICES ASSUME Bad # {} PROVE FALSE
  <2>1. ~\E s \in SUBSET Mutators : ~P(s)
    BY <1>3
  <2>. QED  BY <1>1, <1>2, <2>1
<1>4. Bad \in SUBSET Nat
  BY NoRest
<1>5. PICK n \in Bad : \A k \in Bad : n <= k
  BY <1>3, <1>4, Least
<1>6. PICK s \in SUBSET Mutators : ~P(s) /\ n = Cardinality(s)
  BY <1>5
<1>7. g[s] = Sum(p, s, g) /\ h[s] = Sum(q, s, h)
  BY <1>1, <1>2 DEF Sums
<1>8. s # {}
  BY <1>6, <1>7 DEF Sum, Change
<1>. DEFINE x == Pick(s)
            r == s \ {x}
<1>9. /\ r \in SUBSET Mutators /\ x \in Mutators /\ x \in s
      /\ Cardinality(r) < n /\ Cardinality(r) \in Nat /\ n \in Nat
  BY <1>6, <1>8, Rest, PickIn, NoRest
<1>10. P(r)
  <2>1. ~(Cardinality(r) \in Bad)
    BY <1>5, <1>9
  <2>. QED  BY <1>9, <2>1
<1>11. g[s] = p[x].want + g[r] /\ h[s] = q[x].want + h[r]
  BY <1>7, <1>8 DEF Sum
<1>12. p[x].want \in Nat /\ q[x].want \in Nat
  BY <1>9 DEF Wanted
<1>13. Change(p, q, r, m) \in Int /\ Change(p, q, s, m) = Change(p, q, r, m) + q[x].want - p[x].want
  <2>1. CASE x = m
    BY <1>9, <1>12, <2>1 DEF Change
  <2>2. CASE x # m
    <3>1. q[x].want = p[x].want
      BY <1>9, <2>2 DEF Keeps
    <3>2. m \in s <=> m \in r
      BY <2>2
    <3>3. m \in s => q[m].want \in Nat /\ p[m].want \in Nat
      BY DEF Wanted
    <3>. QED  BY <1>12, <3>1, <3>2, <3>3 DEF Change
  <2>. QED  BY <2>1, <2>2
<1>14. P(s)
  <2>. HIDE DEF x, r
  <2>. QED  BY <1>10, <1>11, <1>12, <1>13
<1>. QED  BY <1>6, <1>14

--------------------------------------------------------------------------------
\* The inductive invariant.

ShrinkLabels == {"shrink", "empties", "targets"}
ExpandLabels == {"expand", "reacquire", "slabs", "push"}
CallLabels == ShrinkLabels \cup ExpandLabels
HeldLabels == {"resized", "sizer", "grow", "headroom", "restart"}
FreeLabels == {"idle", "large", "trigger", "wait", "grew"}
Labels == CallLabels \cup HeldLabels \cup FreeLabels

Processes ==
  [at : Labels,
   next : {"idle", "large", "sizer", "headroom", "resized"},
   after : {"idle", "grew", "grow", "restart"},
   bytes : Nat, pending : Int, keep : Int, new : Nat, again : BOOLEAN, want : Nat,
   success : BOOLEAN, progress : BOOLEAN]

Types ==
  /\ {empty, evacuation_targets, used, unavailable, nslabs, size, large, lost} \subseteq Nat
  /\ pending \in Int /\ policy \in Policies
  /\ heap_lock \in Threads \cup {NoOne} /\ lock \in Threads \cup {NoOne}
  /\ grown \in BOOLEAN /\ collected \in BOOLEAN /\ stopped \in BOOLEAN
  /\ requests \in 0 .. MaxRequests /\ resizes \in 0 .. MaxResizes
  /\ pc \in [Threads -> Processes]

\* What a thread that is at a place may return to.
Returns(p) ==
  /\ p.at \in ShrinkLabels => p.next \in {"large", "headroom", "resized"}
  /\ p.at \in ExpandLabels => p.next \in {"sizer", "resized"}
  /\ p.at \notin CallLabels => p.next = "idle"

\* It is in resize_heap, or in the steps of a collection that hold the heap's lock.
Resizes(p) == p.at = "resized" \/ p.next = "resized"
Collects(p) == p.at \in HeldLabels \ {"resized"} \/ p.next \in {"sizer", "headroom"}
Holds(p) == Resizes(p) \/ Collects(p)

\* Where a thread is, and what it has asked for.
Place(t, p, stop) ==
  /\ Returns(p)
  /\ Resizes(p) => p.after \in IF stop THEN {"grow", "restart"}
                               ELSE IF t = Background THEN {"idle"} ELSE {"grew"}
  /\ ~Resizes(p) => p.after = "idle"
  /\ Collects(p) => stop
  /\ p.at = "idle" => p.want = 0
  /\ t = Background => /\ p.want = 0
                       /\ p.at \in CallLabels \cup {"idle", "resized"}
                       /\ p.next \in {"idle", "resized"}

\* The bytes of a call of nofl_space_shrink or nofl_space_expand in a heap of size s.
Bytes(p, s) ==
  /\ p.at = "shrink" /\ p.next # "resized" => p.bytes = 0
  /\ p.at = "shrink" /\ p.next = "resized" => p.bytes = s - p.new
  /\ p.at = "expand" /\ p.next = "resized" => p.bytes = p.new - s
  /\ p.at = "slabs" => p.pending + BlockSize <= 0

Places == \A t \in Threads : Place(t, pc[t], stopped) /\ Bytes(pc[t], size)

\* Who holds the heap's lock, and who waits for whom.
Owners ==
  /\ \A t \in Threads : heap_lock = t <=> Holds(pc[t])
  /\ stopped => /\ heap_lock \in Mutators
                /\ \A t \in Threads \ {heap_lock} : pc[t].at \in {"idle", "wait"}

\* Blocks of new slabs that are in no list yet, and those in a list.
Fresh(p) == IF p.at = "push" THEN p.bytes * (SlabBlocks - MetaBlocks) ELSE 0
Unlisted == IF heap_lock = NoOne THEN 0 ELSE Fresh(pc[heap_lock])
Blocks == empty + evacuation_targets + used
Lists == Active = Blocks + Unlisted

\* What the holder of the heap's lock has done of a resize, less what it has to do.
Due(p, s) ==
  IF p.at = "expand" THEN IF p.next = "sizer" THEN -p.bytes ELSE 0
  ELSE (IF p.at # "shrink" /\ Resizes(p) THEN p.new - s ELSE 0) + Fresh(p) * BlockSize
Outstanding == IF heap_lock = NoOne THEN 0 ELSE Due(pc[heap_lock], size)

Debt ==
  Active * BlockSize - pending
    = size - InitialSize + InitiallyActive * BlockSize - large - Asked(pc) - lost
      + Outstanding

\* What a thread that takes from the reserve keeps is enough still.
Reserve ==
  \A t \in Threads : pc[t].at = "targets" => lock = t /\ pc[t].keep >= Minimum(Blocks)

NotOwed == unavailable > 0 => pending > -BlockSize

\* What the collector p knows of the debt.
Room(p) ==
  /\ p.at \in {"empties", "targets", "reacquire", "slabs", "headroom"} => p.pending = pending
  /\ p.at = "shrink" /\ unavailable > 0 => pending + p.bytes > -BlockSize
  /\ p.at \in {"empties", "targets"} \cup HeldLabels => NotOwed
  /\ p.at \in {"slabs", "push"} => pending + BlockSize <= 0
  /\ p.after = "restart" =>
       /\ p.at \in ExpandLabels \cup {"resized"}
       /\ p.at = "expand" => pending - p.bytes <= Takeable * BlockSize
       /\ p.at # "expand" => pending <= Takeable * BlockSize
  /\ p.at = "restart" /\ policy # Fixed => pending <= Takeable * BlockSize
RoomInv == stopped => Room(pc[heap_lock])

IInv == Types /\ Places /\ Owners /\ Lists /\ Debt /\ Reserve /\ RoomInv

--------------------------------------------------------------------------------
\* A step of thread t.  It may let others go on that wait for a collection.

Moves(t) ==
  /\ pc' \in [Threads -> Processes]
  /\ \A u \in Threads \ {t} :
       \/ pc'[u] = pc[u]
       \/ ~stopped' /\ u \in Mutators /\ pc[u].at = "wait" /\ pc'[u] = Retry(pc[u])

Locks(t) ==
  /\ heap_lock' = IF Holds(pc'[t]) THEN t ELSE IF Holds(pc[t]) THEN NoOne ELSE heap_lock
  /\ Holds(pc'[t]) => heap_lock \in {NoOne, t}
  /\ stopped /\ ~stopped' => heap_lock = t
  /\ stopped' => /\ t \in Mutators /\ heap_lock' = t
                 /\ stopped \/ \A u \in Threads \ {t} : pc[u].at \in {"idle", "wait"}

Lands(t) ==
  /\ Place(t, pc'[t], stopped') /\ Bytes(pc'[t], size')
  /\ size' = size \/ heap_lock = t

Balances(t) ==
  /\ Active' - Blocks' - Fresh(pc'[t]) = Active - Blocks - Fresh(pc[t])
  /\ Active' * BlockSize - pending' - size' + large' + lost' + pc'[t].want - Due(pc'[t], size')
       = Active * BlockSize - pending - size + large + lost + pc[t].want - Due(pc[t], size)

Guards(t) ==
  /\ \/ lock' = lock /\ Blocks' = Blocks
     \/ lock \in {NoOne, t}
     \/ stopped'
  /\ pc'[t].at = "targets" => lock' = t /\ pc'[t].keep >= Minimum(Blocks')

Rooms(t) == stopped' => Room(pc[t])'

Step(t) == Moves(t) /\ Locks(t) /\ Lands(t) /\ Balances(t) /\ Guards(t) /\ Rooms(t)

LEMMA Threading ==
  /\ NoOne \notin Threads /\ Mutators \subseteq Threads /\ Background \in Threads
  /\ Background \notin Mutators /\ BlockSize \in Nat \ {0}
  /\ SlabBlocks - MetaBlocks \in Nat \ {0}
  /\ \A t \in Threads : t # Background => t \in Mutators
BY BudgetAssumption DEF Threads

LEMMA RetryIs ==
  ASSUME NEW p \in Processes
  PROVE  LET q == Retry(p) IN
         /\ q.want = p.want /\ q \in Processes /\ ~Holds(q)
         /\ q.at \in {"idle", "shrink"} /\ q.after = "idle"
         /\ q.at = "shrink" => q.next = "large" /\ q.bytes = 0
         /\ q.at = "idle" => q.next = "idle" /\ q.want = 0
<1>1. p.want \in Nat
  BY DEF Processes
<1>2. Resting \in Processes /\ ~Holds(Resting)
  BY DEF Resting, Processes, Labels, FreeLabels, Holds, Resizes, Collects, HeldLabels
<1>3. CASE p.want > 0
  <2>. DEFINE c == Call(Resting, "shrink", 0, "large")
              r == [c EXCEPT !.want = p.want]
  <2>1. /\ c \in Processes /\ c.at = "shrink" /\ c.next = "large" /\ c.bytes = 0
        /\ c.after = "idle"
    BY <1>2 DEF Call, Resting, Processes, Labels, CallLabels, ShrinkLabels
  <2>. HIDE DEF c
  <2>2. /\ r \in Processes /\ r.at = "shrink" /\ r.next = "large" /\ r.bytes = 0
        /\ r.after = "idle" /\ r.want = p.want
    BY <1>1, <2>1 DEF Processes
  <2>3. Retry(p) = r
    BY <1>3 DEF Retry, c
  <2>. HIDE DEF r
  <2>4. ~Holds(r)
    BY <2>2 DEF Holds, Resizes, Collects, HeldLabels
  <2>. QED  BY <2>2, <2>3, <2>4
<1>4. CASE ~(p.want > 0)
  <2>1. Retry(p) = Resting /\ p.want = 0
    BY <1>1, <1>4 DEF Retry
  <2>. QED  BY <1>2, <2>1 DEF Resting
<1>. QED  BY <1>3, <1>4

\* A thread that does not hold the heap's lock has no part in the accounts.
LEMMA FreeIs ==
  ASSUME NEW t, NEW p \in Processes, NEW stop, NEW s \in Int, Place(t, p, stop), ~Holds(p)
  PROVE  Fresh(p) = 0 /\ Due(p, s) = 0
<1>1. p.at # "push" /\ p.at # "expand"
  BY DEF Place, Returns, Holds, Resizes, Collects, ExpandLabels
<1>2. Fresh(p) = 0
  BY <1>1 DEF Fresh
<1>3. ~Resizes(p)
  BY DEF Holds
<1>4. Due(p, s) = 0 + 0 * BlockSize
  BY <1>1, <1>2, <1>3 DEF Due
<1>. QED  BY <1>2, <1>4, Threading

LEMMA FreshIs ==
  ASSUME NEW p \in Processes, NEW s \in Int
  PROVE  Fresh(p) \in Nat /\ Due(p, s) \in Int
<1>1. p.bytes * (SlabBlocks - MetaBlocks) \in Nat
  BY Threading DEF Processes
<1>2. Fresh(p) \in Nat
  BY <1>1 DEF Fresh
<1>3. Fresh(p) * BlockSize \in Int
  BY <1>2, Threading
<1>. QED  BY <1>2, <1>3 DEF Due, Processes

\* One that waits is where it was for all that another does.
LEMMA WaitingPlace ==
  ASSUME NEW t, NEW p \in Processes, NEW stop, NEW stop1, Place(t, p, stop),
         p.at \in {"idle", "wait"}
  PROVE  Place(t, p, stop1) /\ ~Holds(p)
BY DEF Place, Returns, Holds, Resizes, Collects, CallLabels, ShrinkLabels, ExpandLabels,
       HeldLabels

LEMMA RetryPlace ==
  ASSUME NEW t \in Mutators, NEW p \in Processes, NEW stop, NEW s
  PROVE  Place(t, Retry(p), stop) /\ Bytes(Retry(p), s)
<1>. DEFINE q == Retry(p)
<1>1. /\ q.want = p.want /\ q \in Processes /\ ~Holds(q)
      /\ q.at \in {"idle", "shrink"} /\ q.after = "idle"
      /\ q.at = "shrink" => q.next = "large" /\ q.bytes = 0
      /\ q.at = "idle" => q.next = "idle" /\ q.want = 0
  BY RetryIs
<1>. HIDE DEF q
<1>2. Returns(q) /\ ~Resizes(q) /\ ~Collects(q)
  BY <1>1 DEF Holds, Returns, CallLabels, ShrinkLabels, ExpandLabels
<1>3. Place(t, q, stop)
  BY <1>1, <1>2, Threading DEF Place
<1>4. Bytes(q, s)
  BY <1>1 DEF Bytes
<1>. QED  BY <1>3, <1>4 DEF q

\* What thread t leaves of the places, and of the lock.
LEMMA StepPlaces ==
  ASSUME IInv, NEW t \in Threads, Types', Moves(t), Locks(t), Lands(t)
  PROVE  Places' /\ Owners'
<1>1. Types /\ Places /\ Owners
  BY DEF IInv
<1>2. ASSUME NEW u \in Threads, u # t
      PROVE  /\ Place(u, pc'[u], stopped') /\ Bytes(pc'[u], size')
             /\ Holds(pc'[u]) <=> Holds(pc[u])
             /\ pc[u].at \in {"idle", "wait"} /\ stopped' => pc'[u].at \in {"idle", "wait"}
  <2>1. /\ Place(u, pc[u], stopped) /\ Bytes(pc[u], size) /\ pc[u] \in Processes
        /\ heap_lock = u <=> Holds(pc[u])
    BY <1>1 DEF Places, Owners, Types
  <2>2. CASE pc'[u] = pc[u]
    <3>1. Place(u, pc[u], stopped')
      <4>1. CASE stopped' = stopped
        BY <2>1, <4>1
      <4>2. CASE stopped' # stopped
        <5>1. pc[u].at \in {"idle", "wait"}
          BY <1>1, <1>2, <4>2 DEF Locks, Owners, Types
        <5>. QED  BY <2>1, <5>1, WaitingPlace
      <4>. QED  BY <4>1, <4>2
    <3>2. Bytes(pc[u], size')
      <4>1. CASE size' = size
        BY <2>1, <4>1
      <4>2. CASE heap_lock = t
        <5>1. pc[u].next # "resized"
          BY <1>2, <2>1, <4>2 DEF Holds, Resizes
        <5>. QED  BY <2>1, <5>1 DEF Bytes
      <4>. QED  BY <4>1, <4>2 DEF Lands
    <3>. QED  BY <2>2, <3>1, <3>2
  <2>3. CASE ~stopped' /\ u \in Mutators /\ pc[u].at = "wait" /\ pc'[u] = Retry(pc[u])
    <3>1. Place(u, Retry(pc[u]), stopped') /\ Bytes(Retry(pc[u]), size')
      BY <2>1, <2>3, RetryPlace
    <3>2. ~Holds(Retry(pc[u]))
      BY <2>1, RetryIs
    <3>3. ~Holds(pc[u])
      BY <2>1, <2>3, WaitingPlace
    <3>. QED  BY <2>3, <3>1, <3>2, <3>3
  <2>. QED  BY <1>2, <2>2, <2>3 DEF Moves
<1>3. Places'
  BY <1>2 DEF Lands, Places
<1>4. ASSUME NEW u \in Threads
      PROVE  heap_lock' = u <=> Holds(pc'[u])
  <2>1. /\ heap_lock = u <=> Holds(pc[u])
        /\ heap_lock = t <=> Holds(pc[t])
        /\ t # NoOne /\ u # NoOne
    BY <1>1, Threading DEF Owners
  <2>2. CASE u = t
    BY <2>1, <2>2 DEF Locks
  <2>3. CASE u # t
    BY <1>2, <2>1, <2>3 DEF Locks
  <2>. QED  BY <2>2, <2>3
<1>5. ASSUME stopped', NEW u \in Threads, u # t
      PROVE  pc'[u].at \in {"idle", "wait"}
  <2>1. pc[u].at \in {"idle", "wait"}
    <3>1. CASE stopped
      <4>1. heap_lock = t
        <5>1. heap_lock # NoOne /\ heap_lock' = t
          BY <1>1, <1>5, <3>1, Threading DEF Owners, Locks
        <5>2. t # NoOne
          BY Threading
        <5>. QED  BY <1>5, <5>1, <5>2 DEF Locks
      <4>. QED  BY <1>1, <1>5, <3>1, <4>1 DEF Owners
    <3>2. CASE ~stopped
      BY <1>5, <3>2 DEF Locks
    <3>. QED  BY <3>1, <3>2
  <2>. QED  BY <1>2, <1>5, <2>1
<1>6. stopped' => heap_lock' = t /\ t \in Mutators
  BY DEF Locks
<1>. QED  BY <1>3, <1>4, <1>5, <1>6 DEF Owners

LEMMA StepAsked ==
  ASSUME IInv, NEW t \in Threads, Types', Places', Moves(t)
  PROVE  Asked(pc) \in Nat /\ Asked(pc') = Asked(pc) + pc'[t].want - pc[t].want
<1>1. Types /\ Places
  BY DEF IInv
<1>2. Wanted(pc) /\ Wanted(pc)'
  BY <1>1, Threading DEF Types, Processes, Wanted
<1>3. Keeps(pc, pc', t)
  <2>1. ASSUME NEW u \in Mutators, u # t
        PROVE  pc'[u].want = pc[u].want
    BY <1>1, <2>1, RetryIs, Threading DEF Moves, Types
  <2>. QED  BY <2>1 DEF Keeps
<1>4. /\ Asked(pc) \in Nat
      /\ Asked(pc') = Asked(pc) + Change(pc, pc', Mutators, t)
  BY <1>2, <1>3, AskedChange DEF Wanted
<1>5. pc'[t].want \in Nat /\ pc[t].want \in Nat
  BY <1>1 DEF Types, Processes
<1>6. CASE t \in Mutators
  BY <1>4, <1>5, <1>6 DEF Change
<1>7. CASE t = Background
  <2>1. pc[t].want = 0 /\ pc'[t].want = 0
    BY <1>1, <1>7 DEF Places, Place
  <2>. QED  BY <1>4, <1>7, <2>1, Threading DEF Change
<1>. QED  BY <1>6, <1>7, Threading

\* What thread t leaves of the accounts.
LEMMA StepDebt ==
  ASSUME IInv, NEW t \in Threads, Types', Places', Owners',
         Moves(t), Locks(t), Lands(t), Balances(t)
  PROVE  Lists' /\ Debt'
<1>1. Types /\ Places /\ Owners /\ Lists /\ Debt
  BY DEF IInv
<1>2. ASSUME NEW u \in Threads, NEW p \in Processes, p = pc[u]
      PROVE  ~Holds(p) => Fresh(p) = 0 /\ Due(p, size) = 0
  BY <1>1, <1>2, FreeIs DEF Places, Types
<1>3. ASSUME NEW u \in Threads, NEW p \in Processes, p = pc'[u]
      PROVE  ~Holds(p) => Fresh(p) = 0 /\ Due(p, size') = 0
  BY <1>1, <1>3, FreeIs DEF Places, Types
<1>4. /\ pc[t] \in Processes /\ pc'[t] \in Processes /\ t # NoOne
      /\ heap_lock = t <=> Holds(pc[t])
      /\ heap_lock' = t <=> Holds(pc'[t])
      /\ heap_lock \in Threads \cup {NoOne} /\ NoOne \notin Threads
  BY <1>1, Threading DEF Types, Owners
<1>5. Unlisted' - Fresh(pc'[t]) = Unlisted - Fresh(pc[t])
      /\ Outstanding' - Due(pc'[t], size') = Outstanding - Due(pc[t], size)
  <2>1. CASE heap_lock \in {NoOne, t}
    <3>1. heap_lock' \in {NoOne, t}
      BY <2>1 DEF Locks
    <3>2. Unlisted = Fresh(pc[t]) /\ Outstanding = Due(pc[t], size)
      BY <1>2, <1>4, <2>1 DEF Unlisted, Outstanding
    <3>3. Unlisted' = Fresh(pc'[t]) /\ Outstanding' = Due(pc'[t], size')
      BY <1>3, <1>4, <3>1 DEF Unlisted, Outstanding
    <3>4. /\ Fresh(pc[t]) \in Int /\ Fresh(pc'[t]) \in Int
          /\ Due(pc[t], size) \in Int /\ Due(pc'[t], size') \in Int
      <4>1. size \in Int /\ size' \in Int
        BY <1>1 DEF Types
      <4>. QED  BY <1>4, <4>1, FreshIs
    <3>. QED  BY <3>2, <3>3, <3>4
  <2>2. CASE heap_lock \notin {NoOne, t}
    <3>. DEFINE h == heap_lock
    <3>1. h \in Threads /\ h # t /\ h # NoOne /\ heap_lock' = h /\ size' = size
      BY <1>4, <2>2 DEF Locks, Lands
    <3>2. pc'[h] = pc[h]
      <4>1. Holds(pc[h]) /\ pc[h] \in Processes /\ Place(h, pc[h], stopped)
        BY <1>1, <3>1 DEF Owners, Types, Places
      <4>2. pc[h].at # "wait"
        BY <4>1, WaitingPlace
      <4>. QED  BY <3>1, <4>2 DEF Moves
    <3>3. Unlisted' = Unlisted /\ Outstanding' = Outstanding
      BY <3>1, <3>2 DEF Unlisted, Outstanding
    <3>4. Fresh(pc[t]) = 0 /\ Due(pc[t], size) = 0
      BY <1>2, <1>4, <2>2
    <3>5. Fresh(pc'[t]) = 0 /\ Due(pc'[t], size') = 0
      BY <1>3, <1>4, <3>1
    <3>. QED  BY <3>3, <3>4, <3>5
  <2>. QED  BY <2>1, <2>2
<1>6. /\ Unlisted \in Int /\ Unlisted' \in Int /\ Outstanding \in Int /\ Outstanding' \in Int
      /\ Fresh(pc[t]) \in Int /\ Fresh(pc'[t]) \in Int
      /\ Due(pc[t], size) \in Int /\ Due(pc'[t], size') \in Int
      /\ Active \in Int /\ Active' \in Int /\ Blocks \in Int /\ Blocks' \in Int
      /\ Active * BlockSize \in Int /\ Active' * BlockSize \in Int
      /\ InitiallyActive * BlockSize \in Int /\ InitialSize \in Int
      /\ pending \in Int /\ pending' \in Int /\ size \in Int /\ size' \in Int
      /\ large \in Int /\ large' \in Int /\ lost \in Int /\ lost' \in Int
      /\ pc[t].want \in Int /\ pc'[t].want \in Int
      /\ Asked(pc) \in Int
  <2>1. Active \in Int /\ Active' \in Int /\ Blocks \in Int /\ Blocks' \in Int
    BY <1>1, Threading DEF Types, Active, Blocks
  <2>2. size \in Int /\ size' \in Int /\ pending \in Int /\ pending' \in Int
        /\ large \in Int /\ large' \in Int /\ lost \in Int /\ lost' \in Int
    BY <1>1 DEF Types
  <2>3. /\ Fresh(pc[t]) \in Int /\ Fresh(pc'[t]) \in Int
        /\ Due(pc[t], size) \in Int /\ Due(pc'[t], size') \in Int
    BY <1>4, <2>2, FreshIs
  <2>4. Unlisted \in Int /\ Outstanding \in Int
    <3>1. CASE heap_lock = NoOne
      BY <3>1 DEF Unlisted, Outstanding
    <3>2. CASE heap_lock # NoOne
      <4>1. pc[heap_lock] \in Processes
        BY <1>1, <1>4, <3>2 DEF Types
      <4>. QED  BY <2>2, <3>2, <4>1, FreshIs DEF Unlisted, Outstanding
    <3>. QED  BY <3>1, <3>2
  <2>5. Unlisted' \in Int /\ Outstanding' \in Int
    <3>1. CASE heap_lock' = NoOne
      BY <3>1 DEF Unlisted, Outstanding
    <3>2. CASE heap_lock' # NoOne
      <4>1. pc'[heap_lock'] \in Processes
        BY <1>1, <3>2 DEF Types
      <4>. QED  BY <2>2, <3>2, <4>1, FreshIs DEF Unlisted, Outstanding
    <3>. QED  BY <3>1, <3>2
  <2>6. pc[t].want \in Int /\ pc'[t].want \in Int
    BY <1>4 DEF Processes
  <2>7. InitiallyActive * BlockSize \in Int /\ InitialSize \in Int
    BY InitialBlocks, BudgetAssumption
  <2>8. Active * BlockSize \in Int /\ Active' * BlockSize \in Int
    BY <2>1, Threading
  <2>9. Asked(pc) \in Int
    BY StepAsked
  <2>. QED  BY <2>1, <2>2, <2>3, <2>4, <2>5, <2>6, <2>7, <2>8, <2>9
<1>7. Asked(pc') = Asked(pc) + pc'[t].want - pc[t].want
  BY StepAsked
<1>8. PICK f, f1, d, d1, u, u1, o, o1 \in Int :
        /\ f = Fresh(pc[t]) /\ f1 = Fresh(pc'[t])
        /\ d = Due(pc[t], size) /\ d1 = Due(pc'[t], size')
        /\ u = Unlisted /\ u1 = Unlisted' /\ o = Outstanding /\ o1 = Outstanding'
  BY <1>6
<1>9. u1 - f1 = u - f /\ o1 - d1 = o - d
  BY <1>5, <1>8
<1>10. Lists'
  <2>1. PICK a, a1, b, b1 \in Int :
          a = Active /\ a1 = Active' /\ b = Blocks /\ b1 = Blocks'
    BY <1>6
  <2>2. a1 - b1 - f1 = a - b - f
    BY <1>8, <2>1 DEF Balances
  <2>3. a = b + u
    BY <1>1, <1>8, <2>1 DEF Lists
  <2>4. a1 = b1 + u1
    BY <1>9, <2>2, <2>3
  <2>. QED  BY <1>8, <2>1, <2>4 DEF Lists
<1>11. Debt'
  <2>1. PICK x, x1, c, p, p1, w, w1, k, k1 \in Int :
          /\ x = Active * BlockSize /\ x1 = Active' * BlockSize
          /\ c = InitiallyActive * BlockSize
          /\ p = pending /\ p1 = pending' /\ w = pc[t].want /\ w1 = pc'[t].want
          /\ k = Asked(pc) /\ k1 = Asked(pc')
    <3>1. Asked(pc') \in Int
      BY <1>6, <1>7
    <3>. QED  BY <1>6, <3>1
  <2>2. PICK s, s1, l, l1, n, n1, i \in Int :
          /\ s = size /\ s1 = size' /\ l = large /\ l1 = large'
          /\ n = lost /\ n1 = lost' /\ i = InitialSize
    BY <1>6
  <2>3. x1 - p1 - s1 + l1 + n1 + w1 - d1 = x - p - s + l + n + w - d
    BY <1>8, <2>1, <2>2 DEF Balances
  <2>4. x - p = s - i + c - l - k - n + o
    BY <1>1, <1>8, <2>1, <2>2 DEF Debt
  <2>5. k1 = k + w1 - w
    BY <1>7, <2>1
  <2>6. x1 - p1 = s1 - i + c - l1 - k1 - n1 + o1
    BY <1>9, <2>3, <2>4, <2>5
  <2>. QED  BY <1>8, <2>1, <2>2, <2>6 DEF Debt
<1>. QED  BY <1>10, <1>11

LEMMA StepInv ==
  ASSUME IInv, NEW t \in Threads, Types', Step(t)
  PROVE  IInv'
<1>1. Types /\ Places /\ Owners /\ Reserve
  BY DEF IInv
<1>2. Moves(t) /\ Locks(t) /\ Lands(t) /\ Balances(t) /\ Guards(t) /\ Rooms(t)
  BY DEF Step
<1>3. Places' /\ Owners'
  BY <1>2, StepPlaces
<1>4. Lists' /\ Debt'
  BY <1>2, <1>3, StepDebt
<1>5. Reserve'
  <2>1. ASSUME NEW u \in Threads, u # t, pc'[u].at = "targets"
        PROVE  lock' = u /\ pc'[u].keep >= Minimum(Blocks')
    <3>1. pc'[u] = pc[u]
      <4>1. pc'[u] # Retry(pc[u])
        BY <1>1, <2>1, RetryIs DEF Types
      <4>. QED  BY <1>2, <2>1, <4>1 DEF Moves
    <3>2. lock = u /\ pc[u].keep >= Minimum(Blocks)
      BY <1>1, <2>1, <3>1 DEF Reserve
    <3>3. ~stopped'
      BY <1>2, <1>3, <2>1 DEF Owners, Locks
    <3>4. lock' = lock /\ Blocks' = Blocks
      BY <1>2, <2>1, <3>2, <3>3, Threading DEF Guards
    <3>. QED  BY <3>1, <3>2, <3>4
  <2>. QED  BY <1>2, <2>1 DEF Guards, Reserve
<1>6. RoomInv'
  BY <1>2 DEF Rooms, RoomInv, Locks
<1>. QED  BY <1>3, <1>4, <1>5, <1>6 DEF IInv

--------------------------------------------------------------------------------
\* Facts that the steps share.

LEMMA Numbers ==
  ASSUME Types
  PROVE  /\ empty \in Nat /\ evacuation_targets \in Nat /\ used \in Nat /\ unavailable \in Nat
         /\ nslabs \in Nat /\ size \in Nat /\ large \in Nat /\ lost \in Nat /\ pending \in Int
         /\ Blocks \in Nat /\ Active \in Int
         /\ Active = nslabs * (SlabBlocks - MetaBlocks) - unavailable
         /\ nslabs * (SlabBlocks - MetaBlocks) \in Nat
         /\ Active * BlockSize \in Int
<1>1. /\ empty \in Nat /\ evacuation_targets \in Nat /\ used \in Nat /\ unavailable \in Nat
      /\ nslabs \in Nat /\ size \in Nat /\ large \in Nat /\ lost \in Nat /\ pending \in Int
  BY DEF Types
<1>2. nslabs * (SlabBlocks - MetaBlocks) \in Nat
  BY <1>1, Threading
<1>3. Active \in Int
  BY <1>1, <1>2 DEF Active
<1>4. Active * BlockSize \in Int
  BY <1>3, Threading
<1>. QED  BY <1>1, <1>2, <1>3, <1>4 DEF Active, Blocks

\* What the invariant says of one thread.
LEMMA ThreadIs ==
  ASSUME IInv, NEW t \in Threads
  PROVE  /\ Types /\ pc[t] \in Processes
         /\ Place(t, pc[t], stopped) /\ Bytes(pc[t], size)
         /\ heap_lock = t <=> Holds(pc[t])
         /\ t # NoOne
         /\ pc[t].at = "targets" => lock = t /\ pc[t].keep >= Minimum(Blocks)
         /\ stopped /\ pc[t].at \notin {"idle", "wait"} =>
              heap_lock = t /\ t \in Mutators /\ Room(pc[t])
<1>1. Types /\ Places /\ Owners /\ Reserve /\ RoomInv
  BY DEF IInv
<1>2. pc[t] \in Processes /\ t # NoOne
  BY <1>1, Threading DEF Types
<1>3. stopped /\ pc[t].at \notin {"idle", "wait"} => heap_lock = t /\ t \in Mutators
  BY <1>1 DEF Owners
<1>. QED  BY <1>1, <1>2, <1>3 DEF Places, Owners, Reserve, RoomInv

\* Only thread t is elsewhere.
Only(t) ==
  /\ pc' \in [Threads -> Processes]
  /\ \A u \in Threads \ {t} : pc'[u] = pc[u]

LEMMA LabelsAre ==
  /\ ShrinkLabels \subseteq Labels /\ ExpandLabels \subseteq Labels
  /\ CallLabels \subseteq Labels /\ HeldLabels \subseteq Labels /\ FreeLabels \subseteq Labels
  /\ {"idle", "large", "sizer", "headroom", "resized"} \subseteq Labels
  /\ {"idle", "grew", "grow", "restart"} \subseteq Labels
BY DEF Labels, CallLabels, ShrinkLabels, ExpandLabels, HeldLabels, FreeLabels

LEMMA OnlyIs ==
  ASSUME Types, NEW t \in Threads, NEW q \in Processes, pc' = [pc EXCEPT ![t] = q]
  PROVE  Only(t) /\ pc'[t] = q
BY DEF Types, Only

\* A step that neither takes nor releases the heap's lock.
Within(t) ==
  /\ Only(t) /\ UNCHANGED <<heap_lock, stopped, size>>
  /\ pc[t].at \notin {"idle", "wait"}
  /\ Holds(pc'[t]) <=> Holds(pc[t])

LEMMA WithinStep ==
  ASSUME IInv, NEW t \in Threads, Within(t),
         Place(t, pc'[t], stopped), Bytes(pc'[t], size)
  PROVE  Moves(t) /\ Locks(t) /\ Lands(t)
<1>1. /\ heap_lock = t <=> Holds(pc[t])
      /\ stopped => heap_lock = t /\ t \in Mutators
  BY ThreadIs DEF Within
<1>2. Moves(t)
  BY DEF Within, Only, Moves
<1>3. Locks(t)
  BY <1>1 DEF Within, Locks
<1>4. Lands(t)
  BY DEF Within, Lands
<1>. QED  BY <1>2, <1>3, <1>4

\* It goes on in nofl_space_shrink or nofl_space_expand,
LEMMA PlaceCall ==
  ASSUME NEW t, NEW p \in Processes, NEW q \in Processes, NEW stop, Place(t, p, stop),
         q.next = p.next, q.after = p.after, q.want = p.want,
         \/ p.at \in ShrinkLabels /\ q.at \in ShrinkLabels
         \/ p.at \in ExpandLabels /\ q.at \in ExpandLabels
  PROVE  /\ Place(t, q, stop) /\ (Holds(q) <=> Holds(p))
         /\ p.at \notin {"idle", "wait"} \cup HeldLabels
         /\ q.at \notin {"idle", "wait"} \cup HeldLabels
         /\ (Resizes(p) <=> p.next = "resized") /\ (Resizes(q) <=> Resizes(p))
         /\ p.at \in ExpandLabels => Holds(p)
BY DEF Place, Returns, Holds, Resizes, Collects, CallLabels, ShrinkLabels, ExpandLabels,
       HeldLabels

\* or returns.
LEMMA PlaceReturn ==
  ASSUME NEW t, NEW p \in Processes, NEW q \in Processes, NEW stop, NEW s, Place(t, p, stop),
         p.at \in CallLabels,
         q.at = p.next, q.next = "idle", q.after = p.after, q.want = p.want
  PROVE  /\ Place(t, q, stop) /\ (Holds(q) <=> Holds(p)) /\ Bytes(q, s)
         /\ p.at \notin {"idle", "wait"} \cup HeldLabels
         /\ q.at \in {"large", "headroom", "resized", "sizer"}
         /\ (Resizes(p) <=> p.next = "resized") /\ (Resizes(q) <=> Resizes(p))
         /\ p.at \in ExpandLabels => q.at \in {"resized", "sizer"}
         /\ p.at \in ShrinkLabels => q.at \in {"resized", "headroom", "large"}
<1>1. p.next \in {"large", "headroom", "resized", "sizer"}
  BY DEF Place, Returns, CallLabels
<1>2. /\ (Holds(q) <=> Holds(p)) /\ (Resizes(q) <=> Resizes(p)) /\ Resizes(p) = (p.next = "resized")
      /\ (Collects(q) <=> Collects(p))
  BY <1>1 DEF Holds, Resizes, Collects, CallLabels, ShrinkLabels, ExpandLabels, HeldLabels
<1>3. Place(t, q, stop)
  BY <1>1, <1>2 DEF Place, Returns, CallLabels, ShrinkLabels, ExpandLabels
<1>4. Bytes(q, s)
  BY <1>1 DEF Bytes
<1>. QED  BY <1>1, <1>2, <1>3, <1>4
          DEF Place, Returns, CallLabels, ShrinkLabels, ExpandLabels, HeldLabels

\* What is due at each place.
LEMMA DueIs ==
  ASSUME NEW p \in Processes, NEW s \in Int
  PROVE  /\ Fresh(p) \in Int /\ Due(p, s) \in Int
         /\ p.at # "push" => Fresh(p) = 0
         /\ p.at = "push" => Fresh(p) = p.bytes * (SlabBlocks - MetaBlocks)
         /\ p.at = "shrink" => Due(p, s) = 0
         /\ p.at = "expand" => Due(p, s) = IF p.next = "sizer" THEN -p.bytes ELSE 0
         /\ p.at \notin {"shrink", "expand", "push"} =>
              Due(p, s) = IF Resizes(p) THEN p.new - s ELSE 0
         /\ p.at = "push" =>
              Due(p, s) = (IF Resizes(p) THEN p.new - s ELSE 0) + Fresh(p) * BlockSize
<1>1. Fresh(p) \in Int /\ Due(p, s) \in Int
  BY FreshIs
<1>2. p.at # "push" => Fresh(p) = 0
  BY DEF Fresh
<1>3. 0 * BlockSize = 0
  BY Threading
<1>4. p.bytes \in Int /\ p.new \in Int
  BY DEF Processes
<1>. QED  BY <1>1, <1>2, <1>3, <1>4 DEF Fresh, Due

\* A thread that goes on in the middle of a resize, or ends it.
LEMMA DueSame ==
  ASSUME NEW p \in Processes, NEW q \in Processes, NEW s \in Int,
         p.at \notin {"shrink", "expand", "push"}, q.at \notin {"shrink", "expand", "push"},
         Resizes(q) <=> Resizes(p), q.new = p.new
  PROVE  Fresh(p) = 0 /\ Fresh(q) = 0 /\ Due(p, s) \in Int /\ Due(q, s) = Due(p, s)
<1>1. Fresh(p) = 0 /\ Fresh(q) = 0 /\ Due(p, s) \in Int
  BY DueIs
<1>2. Due(p, s) = IF Resizes(p) THEN p.new - s ELSE 0
  BY DueIs
<1>3. Due(q, s) = IF Resizes(q) THEN q.new - s ELSE 0
  BY DueIs
<1>. QED  BY <1>1, <1>2, <1>3

LEMMA ActiveIs ==
  ASSUME IInv
  PROVE  Active \in Nat /\ Blocks \in Nat /\ Blocks <= Active
<1>1. Types /\ Lists
  BY DEF IInv
<1>2. Blocks \in Nat
  BY <1>1, Numbers
<1>3. Unlisted \in Nat
  <2>1. CASE heap_lock = NoOne
    BY <2>1 DEF Unlisted
  <2>2. CASE heap_lock # NoOne
    <3>1. pc[heap_lock] \in Processes
      BY <1>1, <2>2 DEF Types
    <3>. QED  BY <2>2, <3>1, FreshIs, BudgetAssumption DEF Unlisted
  <2>. QED  BY <2>1, <2>2
<1>. QED  BY <1>1, <1>2, <1>3 DEF Lists

LEMMA ReturnIs ==
  ASSUME NEW t, pc[t] \in Processes
  PROVE  LET q == Return(t) IN
         /\ q \in Processes /\ q.at = pc[t].next /\ q.next = "idle"
         /\ q.after = pc[t].after /\ q.want = pc[t].want /\ q.new = pc[t].new
         /\ q.at = "headroom" => q.pending = pc[t].pending
<1>. DEFINE p == pc[t]
<1>1. p.next \in Labels /\ p.pending \in Int
  BY LabelsAre DEF Processes
<1>. DEFINE d == IF p.next \in {"large", "headroom"} THEN p.pending ELSE 0
            a == [p EXCEPT !.at = p.next, !.next = "idle"]
            b == [a EXCEPT !.keep = 0]
            c == [b EXCEPT !.bytes = 0]
            e == [c EXCEPT !.again = FALSE, !.pending = d]
<1>2. d \in Int /\ p \in Processes /\ (p.next = "headroom" => d = p.pending)
  BY <1>1
<1>3. Return(t) = e
  BY DEF Return
<1>. HIDE DEF d, p
<1>4. /\ a \in Processes /\ a.at = p.next /\ a.next = "idle" /\ a.after = p.after
      /\ a.want = p.want /\ a.new = p.new
  BY <1>1, <1>2 DEF Processes
<1>. HIDE DEF a
<1>5. /\ b \in Processes /\ b.at = a.at /\ b.next = a.next /\ b.after = a.after
      /\ b.want = a.want /\ b.new = a.new
  BY <1>4 DEF Processes
<1>. HIDE DEF b
<1>6. /\ c \in Processes /\ c.at = b.at /\ c.next = b.next /\ c.after = b.after
      /\ c.want = b.want /\ c.new = b.new
  BY <1>5 DEF Processes
<1>. HIDE DEF c
<1>7. /\ e \in Processes /\ e.at = c.at /\ e.next = c.next /\ e.after = c.after
      /\ e.want = c.want /\ e.new = c.new /\ e.pending = d
  BY <1>2, <1>6 DEF Processes
<1>. HIDE DEF e
<1>. QED  BY <1>2, <1>3, <1>4, <1>5, <1>6, <1>7 DEF p

LEMMA MinimumInt ==
  ASSUME NEW a \in Int
  PROVE  Minimum(a) \in Int
<1>. DEFINE n == a * MinimumPercent
<1>1. n \in Int
  BY BudgetAssumption
<1>. HIDE DEF n
<1>2. (n + 100 - 1) \div 100 \in Int
  BY <1>1
<1>. QED  BY <1>2 DEF n, Minimum, ReserveOf, CeilDiv

\* What can be taken is enough for no debt.
LEMMA TakeableIs ==
  ASSUME NEW e \in Nat, NEW r \in Nat, NEW a \in Int, NEW x, x = e + Max({0, r - Minimum(a)})
  PROVE  x \in Nat /\ x >= e + r - Minimum(a) /\ x * BlockSize \in Nat
<1>1. Minimum(a) \in Int
  BY MinimumInt
<1>2. Max({0, r - Minimum(a)}) = IF 0 >= r - Minimum(a) THEN 0 ELSE r - Minimum(a)
  BY <1>1, MaxIs
<1>3. x \in Nat /\ x >= e + r - Minimum(a)
  BY <1>1, <1>2
<1>4. x * BlockSize \in Nat
  BY <1>3, Threading
<1>. QED  BY <1>3, <1>4

LEMMA SlabsForIs ==
  ASSUME NEW n \in Nat
  PROVE  SlabsFor(n) \in Nat
<1>1. MetaBlocks \in Nat /\ SlabBlocks \in Nat \ {0} /\ BlockSize \in Nat \ {0}
  BY BudgetAssumption
<1>2. n * MetaBlocks \in Nat
  BY <1>1
<1>3. (n * MetaBlocks) \div SlabBlocks \in Nat
  BY <1>1, <1>2
<1>4. n + (n * MetaBlocks) \div SlabBlocks \in Nat /\ SlabBlocks * BlockSize \in Nat \ {0}
  BY <1>1, <1>3
<1>. QED  BY <1>4, CeilDivIs DEF SlabsFor

LEMMA CallIs ==
  ASSUME NEW p \in Processes, NEW what \in Labels, NEW n, n \in Nat,
         NEW next \in {"large", "sizer", "headroom", "resized"}
  PROVE  LET q == Call(p, what, n, next) IN
         /\ q \in Processes /\ q.at = what /\ q.bytes = n /\ q.next = next
         /\ q.after = p.after /\ q.want = p.want /\ q.new = p.new /\ q.pending = p.pending
<1>. DEFINE r == [p EXCEPT !.at = what]
            s == [r EXCEPT !.bytes = n]
            q == [s EXCEPT !.next = next]
<1>1. Call(p, what, n, next) = q
  BY DEF Call
<1>2. /\ r \in Processes /\ r.at = what /\ r.after = p.after /\ r.want = p.want
      /\ r.new = p.new /\ r.pending = p.pending
  BY DEF Processes
<1>. HIDE DEF r
<1>3. /\ s \in Processes /\ s.at = what /\ s.after = p.after /\ s.want = p.want
      /\ s.new = p.new /\ s.pending = p.pending /\ s.bytes = n
  BY <1>2 DEF Processes
<1>. HIDE DEF s
<1>4. /\ q \in Processes /\ q.at = what /\ q.after = p.after /\ q.want = p.want
      /\ q.new = p.new /\ q.pending = p.pending /\ q.bytes = n /\ q.next = next
  BY <1>3 DEF Processes
<1>. HIDE DEF q
<1>. QED  BY <1>1, <1>4

\* A thread outside of resize_heap has nothing outstanding.
LEMMA DueNone ==
  ASSUME NEW t, NEW p \in Processes, NEW stop, NEW s \in Int, Place(t, p, stop),
         p.at \notin CallLabels \cup {"resized"}
  PROVE  Fresh(p) = 0 /\ Due(p, s) = 0 /\ p.next = "idle" /\ ~Resizes(p) /\ p.after = "idle"
<1>1. p.next = "idle" /\ ~Resizes(p)
  BY DEF Place, Returns, Resizes
<1>2. p.at \notin {"shrink", "expand", "push"}
  BY DEF CallLabels, ShrinkLabels, ExpandLabels
<1>. QED  BY <1>1, <1>2, DueIs DEF Place

--------------------------------------------------------------------------------
\* Shrinking and expanding.

LEMMA RequestReleaseInv ==
  ASSUME IInv, NEW t \in Threads, RequestRelease(t)
  PROVE  IInv'
<1>. DEFINE p == pc[t]
<1>1. /\ Types /\ p \in Processes /\ Place(t, p, stopped) /\ Bytes(p, size)
      /\ stopped => Room(p)
      /\ p.at = "shrink" /\ pending' = pending + p.bytes
      /\ UNCHANGED <<block_vars, heap_vars, lock, bound_vars>>
  BY ThreadIs DEF RequestRelease
<1>2. /\ pending \in Int /\ size \in Int /\ p.bytes \in Nat /\ p.new \in Nat /\ p.want \in Nat
      /\ Active * BlockSize \in Int /\ large \in Int /\ lost \in Int
      /\ Active \in Int /\ Blocks \in Int
  BY <1>1, Numbers DEF Processes
<1>. DEFINE q == [p EXCEPT !.at = "empties", !.pending = pending']
<1>3. Only(t) /\ p' \in Processes /\ p' = q
  <2>1. q \in Processes
    <3>1. "empties" \in Labels /\ pending' \in Int
      BY <1>1, <1>2, LabelsAre DEF ShrinkLabels
    <3>. QED  BY <1>1, <3>1 DEF Processes
  <2>2. pc' = [pc EXCEPT ![t] = q]
    BY <1>1 DEF RequestRelease, Types
  <2>. HIDE DEF q
  <2>. QED  BY <1>1, <2>1, <2>2, OnlyIs DEF Types
<1>4. /\ p'.at = "empties" /\ p'.pending = pending' /\ p'.next = p.next
      /\ p'.after = p.after /\ p'.want = p.want /\ p'.new = p.new
  BY <1>3 DEF Processes
<1>5. Types'
  BY <1>1, <1>2, <1>3 DEF Types, Only, block_vars, heap_vars, bound_vars
<1>6. /\ Place(t, p', stopped) /\ (Holds(p') <=> Holds(p))
      /\ (Resizes(p) <=> p.next = "resized") /\ (Resizes(p') <=> Resizes(p))
  BY <1>1, <1>3, <1>4, PlaceCall DEF ShrinkLabels
<1>7. Moves(t) /\ Locks(t) /\ Lands(t)
  BY <1>1, <1>3, <1>4, <1>6, WithinStep DEF Within, Bytes, heap_vars
<1>8. Balances(t)
  <2>1. Active' = Active /\ Blocks' = Blocks
    BY <1>1 DEF Active, Blocks, block_vars
  <2>2. /\ Fresh(p) = 0 /\ Fresh(p') = 0 /\ Due(p, size) = 0
        /\ Due(p', size) = IF Resizes(p) THEN p.new - size ELSE 0
    BY <1>1, <1>2, <1>3, <1>4, <1>6, DueIs
  <2>3. p.bytes = IF Resizes(p) THEN size - p.new ELSE 0
    BY <1>1, <1>6 DEF Bytes
  <2>. QED  BY <1>1, <1>2, <1>4, <2>1, <2>2, <2>3 DEF Balances, heap_vars, bound_vars
<1>9. Guards(t)
  BY <1>1, <1>4 DEF Guards, Blocks, block_vars
<1>10. Rooms(t)
  <2>1. ASSUME stopped PROVE Room(p)'
    <3>1. p'.after # "restart"
      BY <1>1, <1>4, <2>1 DEF Room, ExpandLabels
    <3>2. NotOwed'
      BY <1>1, <1>2, <2>1 DEF Room, NotOwed, block_vars
    <3>. QED  BY <1>4, <3>1, <3>2 DEF Room
  <2>. QED  BY <1>1, <2>1 DEF Rooms, heap_vars
<1>. QED  BY <1>5, <1>7, <1>8, <1>9, <1>10, StepInv DEF Step

\* nofl_space_shrink and nofl_space_expand return.
LEMMA ReturnInv ==
  ASSUME IInv, NEW t \in Threads,
         pc[t].at \in {"empties", "targets", "reacquire"},
         UNCHANGED <<block_vars, pending, heap_vars, bound_vars>>,
         lock \in {NoOne, t}, lock' = NoOne, pc' = [pc EXCEPT ![t] = Return(t)],
         stopped /\ pc[t].at = "reacquire" => NotOwed
  PROVE  IInv'
<1>. DEFINE p == pc[t]
<1>1. /\ Types /\ p \in Processes /\ Place(t, p, stopped)
      /\ stopped => Room(p)
      /\ p.at \in CallLabels
  BY ThreadIs DEF CallLabels, ShrinkLabels, ExpandLabels
<1>2. /\ Only(t) /\ p' \in Processes
      /\ p'.at = p.next /\ p'.next = "idle" /\ p'.after = p.after /\ p'.want = p.want
      /\ p'.new = p.new /\ (p'.at = "headroom" => p'.pending = p.pending)
  <2>. DEFINE q == Return(t)
  <2>1. /\ q \in Processes /\ q.at = p.next /\ q.next = "idle" /\ q.after = p.after
        /\ q.want = p.want /\ q.new = p.new
        /\ q.at = "headroom" => q.pending = p.pending
    BY <1>1, ReturnIs
  <2>2. pc' = [pc EXCEPT ![t] = q]
    OBVIOUS
  <2>. HIDE DEF q
  <2>3. Only(t) /\ p' = q
    BY <1>1, <2>1, <2>2, OnlyIs
  <2>. QED  BY <2>1, <2>3
<1>3. Types'
  BY <1>1, <1>2 DEF Types, Only, block_vars, heap_vars, bound_vars
<1>4. /\ Place(t, p', stopped) /\ (Holds(p') <=> Holds(p)) /\ Bytes(p', size)
      /\ p'.at \in {"large", "headroom", "resized", "sizer"}
      /\ (Resizes(p') <=> Resizes(p))
      /\ p.at \in ExpandLabels => p'.at \in {"resized", "sizer"}
      /\ p.at \in ShrinkLabels => p'.at \in {"resized", "headroom", "large"}
      /\ (Resizes(p) <=> p.next = "resized")
  BY <1>1, <1>2, PlaceReturn
<1>5. Moves(t) /\ Locks(t) /\ Lands(t)
  <2>1. Within(t)
    BY <1>2, <1>4 DEF Within, heap_vars
  <2>. QED  BY <1>4, <2>1, WithinStep
<1>6. Active' = Active /\ Blocks' = Blocks /\ Takeable' = Takeable
  BY DEF Active, Blocks, Takeable, Minimum, block_vars
<1>7. Balances(t)
  <2>1. /\ size \in Int /\ p.at \notin {"shrink", "expand", "push"}
        /\ p'.at \notin {"shrink", "expand", "push"}
    BY <1>1, <1>4, Numbers
  <2>2. Fresh(p) = 0 /\ Fresh(p') = 0 /\ Due(p', size) = Due(p, size)
    BY <1>1, <1>2, <1>4, <2>1, DueSame
  <2>. QED  BY <1>2, <1>6, <2>2 DEF Balances, heap_vars, bound_vars
<1>8. Guards(t)
  BY <1>4, <1>6 DEF Guards
<1>9. Rooms(t)
  <2>1. ASSUME stopped PROVE Room(p)'
    <3>1. NotOwed'
      <4>1. NotOwed
        BY <1>1, <2>1 DEF Room
      <4>. QED  BY <4>1 DEF NotOwed, block_vars
    <3>2. p'.at = "headroom" => p'.pending = pending'
      <4>1. p'.at = "headroom" => p.at \in {"empties", "targets"}
        BY <1>4 DEF ExpandLabels
      <4>. QED  BY <1>1, <1>2, <2>1, <4>1 DEF Room
    <3>3. p'.after = "restart" => p'.at = "resized" /\ pending' <= Takeable' * BlockSize
      <4>1. ASSUME p.after = "restart"
            PROVE  p.at \in ExpandLabels /\ p.at # "expand" /\ pending <= Takeable * BlockSize
        BY <1>1, <2>1, <4>1 DEF Room
      <4>2. p.after = "restart" => p.next = "resized"
        BY <1>1, <1>4 DEF Place
      <4>. QED  BY <1>2, <1>4, <1>6, <4>1, <4>2
    <3>. QED  BY <1>4, <3>1, <3>2, <3>3 DEF Room
  <2>. QED  BY <1>1, <2>1 DEF Rooms, heap_vars
<1>. QED  BY <1>3, <1>5, <1>7, <1>8, <1>9, StepInv DEF Step

\* Shrinking makes a block unavailable.
LEMMA ShrinkOneInv ==
  ASSUME IInv, NEW t \in Threads,
         pc[t].at \in {"empties", "targets"}, pc[t].pending > 0,
         lock \in {NoOne, t}, lock' = t, Repay(t),
         empty' \in Nat, evacuation_targets' \in Nat,
         empty' + evacuation_targets' = empty + evacuation_targets - 1,
         unavailable' = unavailable + 1,
         UNCHANGED <<used, nslabs, heap_vars, bound_vars>>
  PROVE  IInv'
<1>. DEFINE p == pc[t]
            q == [p EXCEPT !.pending = pending']
<1>1. /\ Types /\ p \in Processes /\ Place(t, p, stopped) /\ Bytes(p, size)
      /\ stopped => Room(p)
      /\ p.at = "targets" => p.keep >= Minimum(Blocks)
      /\ p.at \in ShrinkLabels
  BY ThreadIs DEF ShrinkLabels
<1>2. /\ empty \in Nat /\ evacuation_targets \in Nat /\ used \in Nat /\ unavailable \in Nat
      /\ nslabs \in Nat /\ size \in Nat /\ pending \in Int
      /\ Blocks \in Nat /\ Active \in Int /\ BlockSize \in Nat \ {0}
      /\ Active = nslabs * (SlabBlocks - MetaBlocks) - unavailable
      /\ nslabs * (SlabBlocks - MetaBlocks) \in Nat
      /\ pending' = pending - BlockSize /\ pc' = [pc EXCEPT ![t].pending = pending']
  BY <1>1, Numbers, Threading DEF Repay
<1>3. pending' \in Int
  BY <1>2
<1>4. /\ Only(t) /\ p' \in Processes /\ p'.at = p.at /\ p'.pending = pending'
      /\ p'.next = p.next /\ p'.after = p.after /\ p'.want = p.want /\ p'.new = p.new
      /\ p'.keep = p.keep
  <2>1. /\ q \in Processes /\ q.at = p.at /\ q.pending = pending' /\ q.next = p.next
        /\ q.after = p.after /\ q.want = p.want /\ q.new = p.new /\ q.keep = p.keep
    BY <1>1, <1>3 DEF Processes
  <2>2. pc' = [pc EXCEPT ![t] = q]
    BY <1>2
  <2>. HIDE DEF q
  <2>3. Only(t) /\ p' = q
    BY <1>1, <2>1, <2>2, OnlyIs
  <2>. QED  BY <2>1, <2>3
<1>5. Types'
  BY <1>1, <1>2, <1>3, <1>4 DEF Types, Only, heap_vars, bound_vars
<1>6. /\ Place(t, p', stopped) /\ (Holds(p') <=> Holds(p))
      /\ (Resizes(p') <=> Resizes(p)) /\ p.at \notin {"idle", "wait"}
  BY <1>1, <1>4, PlaceCall
<1>7. Moves(t) /\ Locks(t) /\ Lands(t)
  <2>1. Within(t)
    BY <1>4, <1>6 DEF Within, heap_vars
  <2>2. Bytes(p', size)
    BY <1>4 DEF Bytes
  <2>. QED  BY <1>6, <2>1, <2>2, WithinStep
<1>8. Active' = Active - 1 /\ Blocks' = Blocks - 1 /\ Blocks' \in Nat
  <2>1. Blocks' = Blocks - 1 /\ Blocks' \in Nat
    BY <1>2 DEF Blocks
  <2>2. Active' = Active - 1
    BY <1>2 DEF Active
  <2>. QED  BY <2>1, <2>2
<1>9. Balances(t)
  <2>1. Fresh(p) = 0 /\ Fresh(p') = 0 /\ Due(p', size) = Due(p, size) /\ Due(p, size) \in Int
    <3>1. p.at \notin {"shrink", "expand", "push"} /\ size \in Int
      BY <1>2
    <3>. QED  BY <1>1, <1>4, <1>6, <3>1, DueSame
  <2>2. Active' * BlockSize = Active * BlockSize - BlockSize /\ Active * BlockSize \in Int
    <3>1. (Active - 1) * BlockSize = Active * BlockSize - 1 * BlockSize
      BY <1>2, Times
    <3>. QED  BY <1>2, <1>8, <3>1
  <2>3. large \in Int /\ lost \in Int /\ p.want \in Int
    BY <1>1, Numbers DEF Processes
  <2>4. Active' - Blocks' - Fresh(p') = Active - Blocks - Fresh(p)
    BY <1>2, <1>8, <2>1
  <2>5. /\ Active' * BlockSize - pending' = Active * BlockSize - pending
        /\ Due(p', size') = Due(p, size) /\ UNCHANGED <<size, large, lost>>
    BY <1>2, <2>1, <2>2 DEF heap_vars, bound_vars
  <2>. QED  BY <1>4, <2>4, <2>5 DEF Balances
<1>10. Guards(t)
  <2>1. ASSUME p.at = "targets" PROVE p.keep >= Minimum(Blocks')
    <3>1. Minimum(Blocks') <= Minimum(Blocks)
      BY <1>2, <1>8, MinimumMonotone
    <3>2. Minimum(Blocks) \in Nat /\ Minimum(Blocks') \in Nat /\ p.keep \in Int
      BY <1>1, <1>2, <1>8, MinimumIs DEF Processes
    <3>. QED  BY <1>1, <2>1, <3>1, <3>2
  <2>. QED  BY <1>4, <2>1 DEF Guards
<1>11. Rooms(t)
  <2>1. ASSUME stopped PROVE Room(p)'
    <3>1. p'.after # "restart"
      BY <1>1, <1>4, <2>1 DEF Room, ExpandLabels
    <3>2. pending' > -BlockSize
      BY <1>1, <1>2, <2>1 DEF Room
    <3>. QED  BY <1>4, <3>1, <3>2 DEF Room, NotOwed
  <2>. QED  BY <1>1, <2>1 DEF Rooms, heap_vars
<1>. QED  BY <1>5, <1>7, <1>9, <1>10, <1>11, StepInv DEF Step

LEMMA ShrinkEmptiesInv ==
  ASSUME IInv, NEW t \in Threads, ShrinkEmpties(t)
  PROVE  IInv'
<1>. DEFINE p == pc[t]
<1>1. /\ Types /\ p \in Processes /\ Place(t, p, stopped) /\ Bytes(p, size)
      /\ stopped => Room(p)
      /\ p.at = "empties" /\ lock \in {NoOne, t}
      /\ UNCHANGED <<evacuation_targets, used, nslabs, heap_vars, bound_vars>>
  BY ThreadIs DEF ShrinkEmpties
<1>2. /\ empty \in Nat /\ evacuation_targets \in Nat /\ size \in Nat
      /\ Active \in Nat /\ Blocks \in Nat /\ Blocks <= Active
  BY <1>1, Numbers, ActiveIs
<1>3. CASE /\ p.pending > 0 /\ empty > 0 /\ lock' = t
           /\ empty' = empty - 1 /\ unavailable' = unavailable + 1
           /\ Repay(t)
  BY <1>1, <1>2, <1>3, ShrinkOneInv
<1>4. CASE /\ p.pending > 0 /\ empty = 0 /\ lock' = t
           /\ pc' = [pc EXCEPT ![t].at = "targets", ![t].keep = Minimum(Active)]
           /\ UNCHANGED <<empty, unavailable, pending>>
  <2>. DEFINE r == [p EXCEPT !.at = "targets"]
              q == [r EXCEPT !.keep = Minimum(Active)]
  <2>1. Minimum(Active) \in Nat /\ "targets" \in Labels
    BY <1>2, MinimumIs, LabelsAre DEF ShrinkLabels
  <2>2. /\ Only(t) /\ p' \in Processes /\ p'.at = "targets" /\ p'.keep = Minimum(Active)
        /\ p'.next = p.next /\ p'.after = p.after /\ p'.want = p.want /\ p'.new = p.new
        /\ p'.pending = p.pending
    <3>1. /\ q \in Processes /\ q.at = "targets" /\ q.keep = Minimum(Active)
          /\ q.next = p.next /\ q.after = p.after /\ q.want = p.want /\ q.new = p.new
          /\ q.pending = p.pending
      <4>1. /\ r \in Processes /\ r.at = "targets" /\ r.next = p.next /\ r.after = p.after
            /\ r.want = p.want /\ r.new = p.new /\ r.pending = p.pending
        BY <1>1, <2>1 DEF Processes
      <4>. HIDE DEF r
      <4>. QED  BY <2>1, <4>1 DEF Processes
    <3>2. pc' = [pc EXCEPT ![t] = q]
      BY <1>4
    <3>. HIDE DEF q
    <3>3. Only(t) /\ p' = q
      BY <1>1, <3>1, <3>2, OnlyIs
    <3>. QED  BY <3>1, <3>3
  <2>3. Types'
    BY <1>1, <1>4, <2>2 DEF Types, Only, heap_vars, bound_vars
  <2>4. /\ Place(t, p', stopped) /\ (Holds(p') <=> Holds(p)) /\ (Resizes(p') <=> Resizes(p))
    BY <1>1, <2>2, PlaceCall DEF ShrinkLabels
  <2>5. Moves(t) /\ Locks(t) /\ Lands(t)
    <3>1. Within(t)
      BY <1>1, <2>2, <2>4 DEF Within, heap_vars
    <3>2. Bytes(p', size)
      BY <2>2 DEF Bytes
    <3>. QED  BY <2>4, <3>1, <3>2, WithinStep
  <2>6. Active' = Active /\ Blocks' = Blocks /\ UNCHANGED <<size, large, lost>>
    BY <1>1, <1>4 DEF Active, Blocks, heap_vars, bound_vars
  <2>7. Balances(t)
    <3>1. Fresh(p) = 0 /\ Fresh(p') = 0 /\ Due(p', size) = Due(p, size)
      BY <1>1, <1>2, <2>2, <2>4, DueSame
    <3>. QED  BY <1>4, <2>2, <2>6, <3>1 DEF Balances
  <2>8. Guards(t)
    <3>1. Minimum(Blocks) <= Minimum(Active) /\ Minimum(Blocks) \in Nat
      BY <1>2, MinimumMonotone, MinimumIs
    <3>. QED  BY <1>1, <1>4, <2>1, <2>2, <2>6, <3>1 DEF Guards
  <2>9. Rooms(t)
    <3>1. ASSUME stopped PROVE Room(p)'
      <4>1. p'.after # "restart"
        BY <1>1, <2>2, <3>1 DEF Room, ExpandLabels
      <4>2. NotOwed' /\ p'.pending = pending'
        BY <1>1, <1>4, <2>2, <3>1 DEF Room, NotOwed
      <4>. QED  BY <2>2, <4>1, <4>2 DEF Room
    <3>. QED  BY <1>1, <3>1 DEF Rooms, heap_vars
  <2>. QED  BY <2>3, <2>5, <2>7, <2>8, <2>9, StepInv DEF Step
<1>5. CASE /\ p.pending <= 0 /\ lock' = NoOne /\ pc' = [pc EXCEPT ![t] = Return(t)]
           /\ UNCHANGED <<empty, unavailable, pending>>
  BY <1>1, <1>5, ReturnInv DEF block_vars
<1>. QED  BY <1>3, <1>4, <1>5 DEF ShrinkEmpties

LEMMA ShrinkTargetsInv ==
  ASSUME IInv, NEW t \in Threads, ShrinkTargets(t)
  PROVE  IInv'
<1>. DEFINE p == pc[t]
<1>1. /\ Types /\ p \in Processes
      /\ p.at = "targets" /\ lock = t /\ p.keep >= Minimum(Blocks)
      /\ UNCHANGED <<empty, used, nslabs, heap_vars, bound_vars>>
  BY ThreadIs DEF ShrinkTargets
<1>2. /\ empty \in Nat /\ evacuation_targets \in Nat /\ p.keep \in Int
      /\ Minimum(Blocks) \in Nat
  BY <1>1, Numbers, MinimumIs DEF Processes
<1>3. CASE p.pending > 0 /\ SpareTarget(t)
  <2>1. evacuation_targets > 0
    BY <1>1, <1>2, <1>3 DEF SpareTarget
  <2>2. /\ evacuation_targets' = evacuation_targets - 1
        /\ unavailable' = unavailable + 1
        /\ Repay(t) /\ UNCHANGED lock
    BY <1>3 DEF ShrinkTargets
  <2>3. /\ evacuation_targets' \in Nat /\ empty' \in Nat
        /\ empty' + evacuation_targets' = empty + evacuation_targets - 1
    BY <1>1, <1>2, <2>1, <2>2
  <2>. QED  BY <1>1, <1>3, <2>2, <2>3, ShrinkOneInv
<1>4. CASE ~(p.pending > 0 /\ SpareTarget(t))
  <2>1. /\ lock' = NoOne /\ pc' = [pc EXCEPT ![t] = Return(t)]
        /\ UNCHANGED <<evacuation_targets, unavailable, pending>>
    BY <1>4 DEF ShrinkTargets
  <2>. QED  BY <1>1, <2>1, ReturnInv DEF block_vars
<1>. QED  BY <1>3, <1>4

LEMMA ExpandInv ==
  ASSUME IInv, NEW t \in Threads, Expand(t)
  PROVE  IInv'
<1>. DEFINE p == pc[t]
            q == [p EXCEPT !.at = "reacquire", !.pending = pending']
<1>1. /\ Types /\ p \in Processes /\ Place(t, p, stopped) /\ Bytes(p, size)
      /\ stopped => Room(p)
      /\ p.at = "expand" /\ pending' = pending - p.bytes
      /\ pc' = [pc EXCEPT ![t] = q]
      /\ UNCHANGED <<block_vars, heap_vars, lock, bound_vars>>
  BY ThreadIs DEF Expand
<1>2. /\ pending \in Int /\ size \in Int /\ p.bytes \in Nat /\ p.new \in Nat /\ p.want \in Nat
      /\ Active * BlockSize \in Int /\ large \in Int /\ lost \in Int
      /\ "reacquire" \in Labels
  BY <1>1, Numbers, LabelsAre DEF Processes, ExpandLabels
<1>3. pending' \in Int
  BY <1>1, <1>2
<1>4. /\ Only(t) /\ p' \in Processes /\ p'.at = "reacquire" /\ p'.pending = pending'
      /\ p'.next = p.next /\ p'.after = p.after /\ p'.want = p.want /\ p'.new = p.new
  <2>1. /\ q \in Processes /\ q.at = "reacquire" /\ q.pending = pending'
        /\ q.next = p.next /\ q.after = p.after /\ q.want = p.want /\ q.new = p.new
    BY <1>1, <1>2, <1>3 DEF Processes
  <2>. HIDE DEF q
  <2>2. Only(t) /\ p' = q
    BY <1>1, <2>1, OnlyIs
  <2>. QED  BY <2>1, <2>2
<1>5. Types'
  BY <1>1, <1>3, <1>4 DEF Types, Only, block_vars, heap_vars, bound_vars
<1>6. /\ Place(t, p', stopped) /\ (Holds(p') <=> Holds(p))
      /\ (Resizes(p) <=> p.next = "resized") /\ (Resizes(p') <=> Resizes(p))
  BY <1>1, <1>4, PlaceCall DEF ExpandLabels
<1>7. Moves(t) /\ Locks(t) /\ Lands(t)
  <2>1. Within(t)
    BY <1>1, <1>4, <1>6 DEF Within, heap_vars
  <2>2. Bytes(p', size)
    BY <1>4 DEF Bytes
  <2>. QED  BY <1>6, <2>1, <2>2, WithinStep
<1>8. Balances(t)
  <2>1. Active' = Active /\ Blocks' = Blocks /\ UNCHANGED <<size, large, lost>>
    BY <1>1 DEF Active, Blocks, block_vars, heap_vars, bound_vars
  <2>2. Fresh(p) = 0 /\ Fresh(p') = 0
    BY <1>1, <1>2, <1>4, DueIs
  <2>3. Due(p, size) = IF p.next = "sizer" THEN -p.bytes ELSE 0
    BY <1>1, <1>2, DueIs
  <2>4. Due(p', size) = IF Resizes(p') THEN p'.new - size ELSE 0
    BY <1>2, <1>4, DueIs
  <2>5. p.next \in {"sizer", "resized"}
    BY <1>1 DEF Place, Returns, ExpandLabels
  <2>6. Due(p', size) = Due(p, size) + p.bytes
    <3>1. CASE p.next = "sizer"
      BY <1>2, <1>6, <2>3, <2>4, <3>1
    <3>2. CASE p.next = "resized"
      <4>1. p.bytes = p.new - size
        BY <1>1, <3>2 DEF Bytes
      <4>. QED  BY <1>2, <1>4, <1>6, <2>3, <2>4, <3>2, <4>1
    <3>. QED  BY <2>5, <3>1, <3>2
  <2>7. Due(p, size) \in Int
    BY <1>1, <1>2, DueIs
  <2>. QED  BY <1>1, <1>2, <1>4, <2>1, <2>2, <2>6, <2>7 DEF Balances
<1>9. Guards(t)
  BY <1>1, <1>4 DEF Guards, Blocks, block_vars
<1>10. Rooms(t)
  <2>1. ASSUME stopped PROVE Room(p)'
    <3>1. Takeable' = Takeable
      BY <1>1 DEF Takeable, Active, Minimum, block_vars
    <3>2. p.after = "restart" => pending - p.bytes <= Takeable * BlockSize
      BY <1>1, <2>1 DEF Room
    <3>. QED  BY <1>1, <1>4, <3>1, <3>2 DEF Room, ExpandLabels, HeldLabels
  <2>. QED  BY <1>1, <2>1 DEF Rooms, heap_vars
<1>. QED  BY <1>5, <1>7, <1>8, <1>9, <1>10, StepInv DEF Step

\* A block becomes available again.
LEMMA ReacquireOneInv ==
  ASSUME IInv, NEW t \in Threads,
         pc[t].at = "reacquire", OwedABlock(t), unavailable > 0, lock \in {NoOne, t},
         unavailable' = unavailable - 1, PushAvailable, lock' = t,
         pending' = pending + BlockSize, pc' = [pc EXCEPT ![t].pending = pending'],
         UNCHANGED <<used, nslabs, heap_vars, bound_vars>>
  PROVE  IInv'
<1>. DEFINE p == pc[t]
            q == [p EXCEPT !.pending = pending']
<1>1. /\ Types /\ p \in Processes /\ Place(t, p, stopped) /\ Bytes(p, size)
      /\ stopped => Room(p)
      /\ pc' = [pc EXCEPT ![t] = q]
  BY ThreadIs
<1>2. /\ empty \in Nat /\ evacuation_targets \in Nat /\ used \in Nat /\ unavailable \in Nat
      /\ nslabs \in Nat /\ size \in Nat /\ pending \in Int
      /\ Blocks \in Nat /\ Active \in Int /\ BlockSize \in Nat \ {0}
      /\ Active = nslabs * (SlabBlocks - MetaBlocks) - unavailable
      /\ nslabs * (SlabBlocks - MetaBlocks) \in Nat
  BY <1>1, Numbers, Threading
<1>3. pending' \in Int
  BY <1>2
<1>4. /\ Only(t) /\ p' \in Processes /\ p'.at = "reacquire" /\ p'.pending = pending'
      /\ p'.next = p.next /\ p'.after = p.after /\ p'.want = p.want /\ p'.new = p.new
  <2>1. /\ q \in Processes /\ q.at = "reacquire" /\ q.pending = pending' /\ q.next = p.next
        /\ q.after = p.after /\ q.want = p.want /\ q.new = p.new
    BY <1>1, <1>3 DEF Processes
  <2>. HIDE DEF q
  <2>2. Only(t) /\ p' = q
    BY <1>1, <2>1, OnlyIs
  <2>. QED  BY <2>1, <2>2
<1>5. /\ empty' \in Nat /\ evacuation_targets' \in Nat
      /\ empty' + evacuation_targets' = empty + evacuation_targets + 1
  BY <1>2 DEF PushAvailable
<1>6. Types'
  BY <1>1, <1>2, <1>3, <1>4, <1>5 DEF Types, Only, heap_vars, bound_vars
<1>7. /\ Place(t, p', stopped) /\ (Holds(p') <=> Holds(p)) /\ (Resizes(p') <=> Resizes(p))
      /\ p.at \notin {"idle", "wait"}
  BY <1>1, <1>4, PlaceCall DEF ExpandLabels
<1>8. Moves(t) /\ Locks(t) /\ Lands(t)
  <2>1. Within(t)
    BY <1>4, <1>7 DEF Within, heap_vars
  <2>2. Bytes(p', size)
    BY <1>4 DEF Bytes
  <2>. QED  BY <1>7, <2>1, <2>2, WithinStep
<1>9. Active' = Active + 1 /\ Blocks' = Blocks + 1
  <2>1. Blocks' = Blocks + 1
    BY <1>2, <1>5 DEF Blocks
  <2>2. Active' = Active + 1
    BY <1>2 DEF Active
  <2>. QED  BY <2>1, <2>2
<1>10. Balances(t)
  <2>1. Fresh(p) = 0 /\ Fresh(p') = 0 /\ Due(p', size) = Due(p, size)
    <3>1. p.at \notin {"shrink", "expand", "push"} /\ size \in Int
      BY <1>2
    <3>. QED  BY <1>1, <1>4, <1>7, <3>1, DueSame
  <2>2. Active' * BlockSize = Active * BlockSize + BlockSize /\ Active * BlockSize \in Int
    <3>1. (Active + 1) * BlockSize = Active * BlockSize + 1 * BlockSize
      BY <1>2, Times
    <3>. QED  BY <1>2, <1>9, <3>1
  <2>3. Active' - Blocks' - Fresh(p') = Active - Blocks - Fresh(p)
    BY <1>2, <1>9, <2>1
  <2>4. /\ Active' * BlockSize - pending' = Active * BlockSize - pending
        /\ Due(p', size') = Due(p, size) /\ UNCHANGED <<size, large, lost>>
    BY <1>2, <2>1, <2>2 DEF heap_vars, bound_vars
  <2>. QED  BY <1>4, <2>3, <2>4 DEF Balances
<1>11. Guards(t)
  BY <1>4 DEF Guards
<1>12. Rooms(t)
  <2>1. ASSUME stopped PROVE Room(p)'
    <3>1. pending' <= 0
      <4>1. p.pending = pending
        BY <1>1, <2>1 DEF Room
      <4>. QED  BY <1>2, <4>1 DEF OwedABlock
    <3>2. Takeable' * BlockSize \in Nat
      <4>1. Active' \in Int
        BY <1>2, <1>9
      <4>2. Takeable' = empty' + Max({0, evacuation_targets' - Minimum(Active')})
        BY DEF Takeable
      <4>. QED  BY <1>5, <4>1, <4>2, TakeableIs
    <3>3. pending' <= Takeable' * BlockSize
      BY <1>3, <3>1, <3>2
    <3>. QED  BY <1>4, <3>3 DEF Room, ExpandLabels, HeldLabels
  <2>. QED  BY <1>1, <2>1 DEF Rooms, heap_vars
<1>. QED  BY <1>6, <1>8, <1>10, <1>11, <1>12, StepInv DEF Step

LEMMA ReacquireInv ==
  ASSUME IInv, NEW t \in Threads, Reacquire(t)
  PROVE  IInv'
<1>. DEFINE p == pc[t]
            q == [p EXCEPT !.at = "slabs"]
<1>1. /\ Types /\ p \in Processes /\ Place(t, p, stopped)
      /\ stopped => Room(p)
      /\ p.at = "reacquire" /\ lock \in {NoOne, t}
      /\ UNCHANGED <<used, nslabs, heap_vars, bound_vars>>
  BY ThreadIs DEF Reacquire
<1>2. pending \in Int /\ size \in Int /\ BlockSize \in Nat /\ p.pending \in Int
  BY <1>1, Numbers, Threading DEF Processes
<1>3. CASE OwedABlock(t) /\ unavailable > 0
  BY <1>1, <1>3, ReacquireOneInv DEF Reacquire
<1>4. CASE ~(OwedABlock(t) /\ unavailable > 0) /\ (p.again \/ ~OwedABlock(t))
  <2>1. /\ lock' = NoOne /\ pc' = [pc EXCEPT ![t] = Return(t)]
        /\ UNCHANGED <<block_vars, pending, heap_vars, bound_vars>>
    BY <1>1, <1>4 DEF Reacquire, block_vars
  <2>2. ASSUME stopped PROVE NotOwed
    <3>1. p.pending = pending
      BY <1>1, <2>2 DEF Room
    <3>. QED  BY <1>2, <1>4, <3>1 DEF OwedABlock, NotOwed
  <2>. QED  BY <1>1, <2>1, <2>2, ReturnInv
<1>5. CASE ~(OwedABlock(t) /\ unavailable > 0) /\ ~(p.again \/ ~OwedABlock(t))
  <2>1. /\ lock' = NoOne /\ pc' = [pc EXCEPT ![t] = q]
        /\ UNCHANGED <<block_vars, pending, heap_vars, bound_vars>>
    BY <1>1, <1>5 DEF Reacquire, block_vars
  <2>2. /\ Only(t) /\ p' \in Processes /\ p'.at = "slabs" /\ p'.pending = p.pending
        /\ p'.next = p.next /\ p'.after = p.after /\ p'.want = p.want /\ p'.new = p.new
    <3>1. "slabs" \in Labels
      BY LabelsAre DEF ExpandLabels
    <3>2. /\ q \in Processes /\ q.at = "slabs" /\ q.pending = p.pending
          /\ q.next = p.next /\ q.after = p.after /\ q.want = p.want /\ q.new = p.new
      BY <1>1, <3>1 DEF Processes
    <3>. HIDE DEF q
    <3>3. Only(t) /\ p' = q
      BY <1>1, <2>1, <3>2, OnlyIs
    <3>. QED  BY <3>2, <3>3
  <2>3. Types'
    BY <1>1, <2>1, <2>2 DEF Types, Only, block_vars, heap_vars, bound_vars
  <2>4. /\ Place(t, p', stopped) /\ (Holds(p') <=> Holds(p)) /\ (Resizes(p') <=> Resizes(p))
    BY <1>1, <2>2, PlaceCall DEF ExpandLabels
  <2>5. Moves(t) /\ Locks(t) /\ Lands(t)
    <3>1. Within(t)
      BY <1>1, <2>2, <2>4 DEF Within, heap_vars
    <3>2. Bytes(p', size)
      BY <1>5, <2>2 DEF Bytes, OwedABlock
    <3>. QED  BY <2>4, <3>1, <3>2, WithinStep
  <2>6. /\ Active' = Active /\ Blocks' = Blocks /\ Takeable' = Takeable
        /\ UNCHANGED <<size, large, lost, pending>>
    BY <2>1 DEF Active, Blocks, Takeable, Minimum, block_vars, heap_vars, bound_vars
  <2>7. Balances(t)
    <3>1. Fresh(p) = 0 /\ Fresh(p') = 0 /\ Due(p', size) = Due(p, size)
      BY <1>1, <1>2, <2>2, <2>4, DueSame
    <3>. QED  BY <2>2, <2>6, <3>1 DEF Balances
  <2>8. Guards(t)
    BY <1>1, <2>2 DEF Guards
  <2>9. Rooms(t)
    <3>1. ASSUME stopped PROVE Room(p)'
      <4>1. p.pending = pending /\ (p.after = "restart" => pending <= Takeable * BlockSize)
        BY <1>1, <3>1 DEF Room
      <4>2. pending + BlockSize <= 0
        BY <1>5, <4>1 DEF OwedABlock
      <4>. QED  BY <2>2, <2>6, <4>1, <4>2 DEF Room, ExpandLabels, HeldLabels
    <3>. QED  BY <1>1, <3>1 DEF Rooms, heap_vars
  <2>. QED  BY <2>3, <2>5, <2>7, <2>8, <2>9, StepInv DEF Step
<1>. QED  BY <1>3, <1>4, <1>5

LEMMA AddSlabsInv ==
  ASSUME IInv, NEW t \in Threads, AddSlabs(t)
  PROVE  IInv'
<1>. DEFINE p == pc[t]
            n == SlabsFor(-p.pending)
            r == [p EXCEPT !.at = "push"]
            q == [r EXCEPT !.bytes = n]
            f == n * (SlabBlocks - MetaBlocks)
<1>1. /\ Types /\ p \in Processes /\ Place(t, p, stopped) /\ Bytes(p, size)
      /\ stopped => Room(p)
      /\ p.at = "slabs" /\ nslabs' = nslabs + n /\ pc' = [pc EXCEPT ![t] = q]
      /\ UNCHANGED <<empty, evacuation_targets, used, unavailable, pending, heap_vars, lock,
                     bound_vars>>
  BY ThreadIs DEF AddSlabs
<1>2. /\ pending \in Int /\ size \in Int /\ p.pending \in Int /\ p.new \in Int /\ p.want \in Int
      /\ large \in Int /\ lost \in Int /\ Blocks \in Int /\ Active \in Int /\ nslabs \in Nat
      /\ unavailable \in Nat /\ empty \in Nat /\ evacuation_targets \in Nat
      /\ BlockSize \in Nat \ {0} /\ SlabBlocks - MetaBlocks \in Nat
      /\ Active = nslabs * (SlabBlocks - MetaBlocks) - unavailable
      /\ nslabs * (SlabBlocks - MetaBlocks) \in Nat
      /\ "push" \in Labels
  BY <1>1, Numbers, Threading, LabelsAre DEF Processes, ExpandLabels
<1>3. n \in Nat
  <2>1. -p.pending \in Nat
    BY <1>1, <1>2 DEF Bytes
  <2>. QED  BY <2>1, SlabsForIs
<1>. HIDE DEF n
<1>4. /\ Only(t) /\ p' \in Processes /\ p'.at = "push" /\ p'.bytes = n
      /\ p'.next = p.next /\ p'.after = p.after /\ p'.want = p.want /\ p'.new = p.new
  <2>1. /\ r \in Processes /\ r.next = p.next /\ r.after = p.after /\ r.want = p.want
        /\ r.new = p.new /\ r.at = "push"
    BY <1>1, <1>2 DEF Processes
  <2>2. pc' = [pc EXCEPT ![t] = q]
    BY <1>1
  <2>. HIDE DEF r
  <2>3. /\ q \in Processes /\ q.at = "push" /\ q.bytes = n
        /\ q.next = p.next /\ q.after = p.after /\ q.want = p.want /\ q.new = p.new
    BY <1>3, <2>1 DEF Processes
  <2>. HIDE DEF q
  <2>4. Only(t) /\ p' = q
    BY <1>1, <2>2, <2>3, OnlyIs
  <2>. QED  BY <2>3, <2>4
<1>5. Types'
  BY <1>1, <1>2, <1>3, <1>4 DEF Types, Only, heap_vars, bound_vars
<1>6. /\ Place(t, p', stopped) /\ (Holds(p') <=> Holds(p)) /\ (Resizes(p') <=> Resizes(p))
  BY <1>1, <1>4, PlaceCall DEF ExpandLabels
<1>7. Moves(t) /\ Locks(t) /\ Lands(t)
  <2>1. Within(t)
    BY <1>1, <1>4, <1>6 DEF Within, heap_vars
  <2>2. Bytes(p', size)
    BY <1>4 DEF Bytes
  <2>. QED  BY <1>6, <2>1, <2>2, WithinStep
<1>8. Blocks' = Blocks /\ Active' = Active + f /\ f \in Nat
  <2>1. f \in Nat /\ (nslabs + n) * (SlabBlocks - MetaBlocks)
                       = nslabs * (SlabBlocks - MetaBlocks) + f
    BY <1>2, <1>3, Times
  <2>2. Active' = (nslabs + n) * (SlabBlocks - MetaBlocks) - unavailable
    BY <1>1 DEF Active
  <2>. QED  BY <1>1, <1>2, <2>1, <2>2 DEF Blocks
<1>9. Balances(t)
  <2>1. Fresh(p) = 0 /\ Fresh(p') = f
    BY <1>1, <1>2, <1>4, DueIs
  <2>2. PICK d \in Int : d = IF Resizes(p) THEN p.new - size ELSE 0
    BY <1>2
  <2>3. Due(p, size) = d
    BY <1>1, <1>2, <2>2, DueIs
  <2>4. Due(p', size) = d + f * BlockSize
    <3>1. Due(p', size) = (IF Resizes(p') THEN p'.new - size ELSE 0) + Fresh(p') * BlockSize
      BY <1>2, <1>4, DueIs
    <3>. QED  BY <1>4, <1>6, <2>1, <2>2, <3>1
  <2>5. Active' * BlockSize = Active * BlockSize + f * BlockSize
        /\ f * BlockSize \in Int /\ Active * BlockSize \in Int
    BY <1>2, <1>8, Times
  <2>6. Active' - Blocks' - Fresh(p') = Active - Blocks - Fresh(p)
    BY <1>2, <1>8, <2>1
  <2>7. Active' * BlockSize - Due(p', size') = Active * BlockSize - Due(p, size)
        /\ UNCHANGED <<size, large, lost, pending>>
    BY <1>1, <2>3, <2>4, <2>5 DEF heap_vars, bound_vars
  <2>8. /\ Due(p, size) \in Int /\ Due(p', size') \in Int /\ Active' * BlockSize \in Int
    BY <2>3, <2>4, <2>5, <2>7
  <2>9. PICK x, x1, e, e1 \in Int :
          /\ x = Active * BlockSize /\ x1 = Active' * BlockSize
          /\ e = Due(p, size) /\ e1 = Due(p', size') /\ x1 - e1 = x - e
    BY <2>5, <2>7, <2>8
  <2>10. PICK y, z, l, o, w \in Int :
           y = pending /\ z = size /\ l = large /\ o = lost /\ w = p.want
    BY <1>2
  <2>11. x1 - y - z + l + o + w - e1 = x - y - z + l + o + w - e
    BY <2>9
  <2>. QED  BY <1>4, <2>6, <2>7, <2>9, <2>10, <2>11 DEF Balances
<1>10. Guards(t)
  BY <1>1, <1>4, <1>8 DEF Guards
<1>11. Rooms(t)
  <2>1. ASSUME stopped PROVE Room(p)'
    <3>1. pending + BlockSize <= 0
      BY <1>1, <2>1 DEF Room
    <3>2. Takeable' * BlockSize \in Nat
      <4>1. Active' \in Int
        BY <1>2, <1>8
      <4>2. Takeable' = empty + Max({0, evacuation_targets - Minimum(Active')})
        BY <1>1 DEF Takeable
      <4>. QED  BY <1>2, <4>1, <4>2, TakeableIs
    <3>3. pending <= Takeable' * BlockSize
      BY <1>2, <3>1, <3>2
    <3>. QED  BY <1>1, <1>4, <3>1, <3>3 DEF Room, ExpandLabels, HeldLabels
  <2>. QED  BY <1>1, <2>1 DEF Rooms, heap_vars
<1>. QED  BY <1>5, <1>7, <1>9, <1>10, <1>11, StepInv DEF Step

LEMMA PushSlabsInv ==
  ASSUME IInv, NEW t \in Threads, PushSlabs(t)
  PROVE  IInv'
<1>. DEFINE p == pc[t]
            r == [p EXCEPT !.at = "reacquire", !.again = TRUE]
            s == [r EXCEPT !.bytes = 0]
            q == [s EXCEPT !.pending = pending]
            f == p.bytes * (SlabBlocks - MetaBlocks)
<1>1. /\ Types /\ p \in Processes /\ Place(t, p, stopped)
      /\ stopped => Room(p)
      /\ p.at = "push" /\ unavailable' = unavailable + f /\ pc' = [pc EXCEPT ![t] = q]
      /\ UNCHANGED <<empty, evacuation_targets, used, nslabs, pending, heap_vars, lock, bound_vars>>
  BY ThreadIs DEF PushSlabs
<1>2. /\ pending \in Int /\ size \in Int /\ p.new \in Int /\ p.want \in Int
      /\ large \in Int /\ lost \in Int /\ Blocks \in Int /\ Active \in Int
      /\ unavailable \in Nat /\ empty \in Nat /\ evacuation_targets \in Nat
      /\ BlockSize \in Nat \ {0} /\ SlabBlocks - MetaBlocks \in Nat /\ p.bytes \in Nat
      /\ Active = nslabs * (SlabBlocks - MetaBlocks) - unavailable
      /\ nslabs * (SlabBlocks - MetaBlocks) \in Nat
      /\ "reacquire" \in Labels
  BY <1>1, Numbers, Threading, LabelsAre DEF Processes, ExpandLabels
<1>3. f \in Nat
  BY <1>2
<1>. HIDE DEF f
<1>4. /\ Only(t) /\ p' \in Processes /\ p'.at = "reacquire" /\ p'.pending = pending
      /\ p'.next = p.next /\ p'.after = p.after /\ p'.want = p.want /\ p'.new = p.new
  <2>1. /\ r \in Processes /\ r.next = p.next /\ r.after = p.after /\ r.want = p.want
        /\ r.new = p.new /\ r.at = "reacquire"
    BY <1>1, <1>2 DEF Processes
  <2>2. pc' = [pc EXCEPT ![t] = q]
    BY <1>1
  <2>. HIDE DEF r
  <2>3. /\ s \in Processes /\ s.next = p.next /\ s.after = p.after /\ s.want = p.want
        /\ s.new = p.new /\ s.at = "reacquire"
    BY <2>1 DEF Processes
  <2>. HIDE DEF s
  <2>4. /\ q \in Processes /\ q.at = "reacquire" /\ q.pending = pending
        /\ q.next = p.next /\ q.after = p.after /\ q.want = p.want /\ q.new = p.new
    BY <1>2, <2>3 DEF Processes
  <2>. HIDE DEF q
  <2>5. Only(t) /\ p' = q
    BY <1>1, <2>2, <2>4, OnlyIs
  <2>. QED  BY <2>4, <2>5
<1>5. Types'
  <2>1. unavailable' \in Nat
    BY <1>1, <1>2, <1>3
  <2>. QED  BY <1>1, <1>4, <2>1 DEF Types, Only, heap_vars, bound_vars
<1>6. /\ Place(t, p', stopped) /\ (Holds(p') <=> Holds(p)) /\ (Resizes(p') <=> Resizes(p))
  BY <1>1, <1>4, PlaceCall DEF ExpandLabels
<1>7. Moves(t) /\ Locks(t) /\ Lands(t)
  <2>1. Within(t)
    BY <1>1, <1>4, <1>6 DEF Within, heap_vars
  <2>2. Bytes(p', size)
    BY <1>4 DEF Bytes
  <2>. QED  BY <1>6, <2>1, <2>2, WithinStep
<1>8. Blocks' = Blocks /\ Active' = Active - f
  BY <1>1, <1>2, <1>3 DEF Active, Blocks
<1>9. Balances(t)
  <2>1. Fresh(p) = f /\ Fresh(p') = 0
    BY <1>1, <1>2, <1>4, DueIs DEF f
  <2>2. PICK d \in Int : d = IF Resizes(p) THEN p.new - size ELSE 0
    BY <1>2
  <2>3. Due(p, size) = d + f * BlockSize
    BY <1>1, <1>2, <2>1, <2>2, DueIs
  <2>4. Due(p', size) = d
    <3>1. Due(p', size) = IF Resizes(p') THEN p'.new - size ELSE 0
      BY <1>2, <1>4, DueIs
    <3>. QED  BY <1>4, <1>6, <2>2, <3>1
  <2>5. Active' * BlockSize = Active * BlockSize - f * BlockSize
        /\ f * BlockSize \in Int /\ Active * BlockSize \in Int
    BY <1>2, <1>3, <1>8, Times
  <2>6. Active' - Blocks' - Fresh(p') = Active - Blocks - Fresh(p)
    BY <1>2, <1>3, <1>8, <2>1
  <2>7. Active' * BlockSize - Due(p', size') = Active * BlockSize - Due(p, size)
        /\ UNCHANGED <<size, large, lost, pending>>
    BY <1>1, <2>3, <2>4, <2>5 DEF heap_vars, bound_vars
  <2>8. /\ Due(p, size) \in Int /\ Due(p', size') \in Int /\ Active' * BlockSize \in Int
    BY <2>3, <2>4, <2>5, <2>7
  <2>9. PICK x, x1, e, e1 \in Int :
          /\ x = Active * BlockSize /\ x1 = Active' * BlockSize
          /\ e = Due(p, size) /\ e1 = Due(p', size') /\ x1 - e1 = x - e
    BY <2>5, <2>7, <2>8
  <2>10. PICK y, z, l, o, w \in Int :
           y = pending /\ z = size /\ l = large /\ o = lost /\ w = p.want
    BY <1>2
  <2>11. x1 - y - z + l + o + w - e1 = x - y - z + l + o + w - e
    BY <2>9
  <2>. QED  BY <1>4, <2>6, <2>7, <2>9, <2>10, <2>11 DEF Balances
<1>10. Guards(t)
  BY <1>1, <1>4, <1>8 DEF Guards
<1>11. Rooms(t)
  <2>1. ASSUME stopped PROVE Room(p)'
    <3>1. pending + BlockSize <= 0
      BY <1>1, <2>1 DEF Room
    <3>2. Takeable' * BlockSize \in Nat
      <4>1. Active' \in Int
        BY <1>2, <1>3, <1>8
      <4>2. Takeable' = empty + Max({0, evacuation_targets - Minimum(Active')})
        BY <1>1 DEF Takeable
      <4>. QED  BY <1>2, <4>1, <4>2, TakeableIs
    <3>3. pending <= Takeable' * BlockSize
      BY <1>2, <3>1, <3>2
    <3>. QED  BY <1>1, <1>4, <3>1, <3>3 DEF Room, ExpandLabels, HeldLabels
  <2>. QED  BY <1>1, <2>1 DEF Rooms, heap_vars
<1>. QED  BY <1>5, <1>7, <1>9, <1>10, <1>11, StepInv DEF Step

\* The beginning of resize_heap.
LEMMA ResizeHeapIs ==
  ASSUME Types, NEW t \in Threads, NEW new \in Nat,
         NEW after \in {"idle", "grew", "grow", "restart"}, resize_heap(t, new, after)
  PROVE  LET p == pc[t] IN
         /\ Only(t) /\ p' \in Processes
         /\ p'.new = new /\ p'.after = after /\ p'.want = p.want
         /\ new < size => p'.at = "shrink" /\ p'.next = "resized" /\ p'.bytes = size - new
         /\ new > size => p'.at = "expand" /\ p'.next = "resized" /\ p'.bytes = new - size
         /\ new = size => p'.at = "resized" /\ p'.next = p.next
<1>. DEFINE p == pc[t]
            r == [p EXCEPT !.new = new, !.after = after]
            shrunk == Call(r, "shrink", size - new, "resized")
            grew == Call(r, "expand", new - size, "resized")
            same == [r EXCEPT !.at = "resized"]
            q == IF new < size THEN shrunk ELSE IF new > size THEN grew ELSE same
<1>1. p \in Processes /\ size \in Nat
  BY Numbers DEF Types
<1>2. r \in Processes /\ r.new = new /\ r.after = after /\ r.want = p.want /\ r.next = p.next
  BY <1>1 DEF Processes
<1>3. pc' = [pc EXCEPT ![t] = q]
  BY DEF resize_heap
<1>4. {"shrink", "expand", "resized"} \subseteq Labels
  BY LabelsAre DEF ShrinkLabels, ExpandLabels
<1>. HIDE DEF r
<1>5. CASE new < size
  <2>1. size - new \in Nat
    BY <1>1, <1>5
  <2>2. /\ shrunk \in Processes /\ shrunk.at = "shrink" /\ shrunk.bytes = size - new
        /\ shrunk.next = "resized" /\ shrunk.after = after /\ shrunk.want = p.want
        /\ shrunk.new = new
    <3>. DEFINE d == size - new
                l == "shrink"
                x == "resized"
    <3>1. d \in Nat /\ l \in Labels /\ x \in {"large", "sizer", "headroom", "resized"}
      BY <1>4, <2>1
    <3>. HIDE DEF d, l, x
    <3>2. LET c == Call(r, l, d, x) IN
          /\ c \in Processes /\ c.at = l /\ c.bytes = d /\ c.next = x
          /\ c.after = r.after /\ c.want = r.want /\ c.new = r.new
      BY <1>2, <3>1, CallIs
    <3>. QED  BY <1>2, <3>2 DEF d, l, x
  <2>. HIDE DEF shrunk
  <2>3. pc' = [pc EXCEPT ![t] = shrunk]
    BY <1>3, <1>5
  <2>4. Only(t) /\ p' = shrunk
    BY <2>2, <2>3, OnlyIs
  <2>. QED  BY <1>1, <1>5, <2>2, <2>4
<1>6. CASE new > size
  <2>1. new - size \in Nat /\ ~(new < size)
    BY <1>1, <1>6
  <2>2. /\ grew \in Processes /\ grew.at = "expand" /\ grew.bytes = new - size
        /\ grew.next = "resized" /\ grew.after = after /\ grew.want = p.want
        /\ grew.new = new
    <3>. DEFINE d == new - size
                l == "expand"
                x == "resized"
    <3>1. d \in Nat /\ l \in Labels /\ x \in {"large", "sizer", "headroom", "resized"}
      BY <1>4, <2>1
    <3>. HIDE DEF d, l, x
    <3>2. LET c == Call(r, l, d, x) IN
          /\ c \in Processes /\ c.at = l /\ c.bytes = d /\ c.next = x
          /\ c.after = r.after /\ c.want = r.want /\ c.new = r.new
      BY <1>2, <3>1, CallIs
    <3>. QED  BY <1>2, <3>2 DEF d, l, x
  <2>. HIDE DEF grew
  <2>3. pc' = [pc EXCEPT ![t] = grew]
    BY <1>3, <1>6, <2>1
  <2>4. Only(t) /\ p' = grew
    BY <2>2, <2>3, OnlyIs
  <2>. QED  BY <1>1, <1>6, <2>1, <2>2, <2>4
<1>7. CASE new = size
  <2>1. ~(new < size) /\ ~(new > size)
    BY <1>1, <1>7
  <2>2. /\ same \in Processes /\ same.at = "resized" /\ same.after = after
        /\ same.want = p.want /\ same.new = new /\ same.next = p.next
    BY <1>2, <1>4 DEF Processes
  <2>. HIDE DEF same
  <2>3. pc' = [pc EXCEPT ![t] = same]
    BY <1>3, <2>1
  <2>4. Only(t) /\ p' = same
    BY <2>2, <2>3, OnlyIs
  <2>. QED  BY <2>1, <2>2, <2>4
<1>. QED  BY <1>1, <1>5, <1>6, <1>7

LEMMA ResizeHeapInv ==
  ASSUME IInv, NEW t \in Threads, NEW new \in Nat,
         NEW after \in {"idle", "grew", "grow", "restart"}, resize_heap(t, new, after),
         pc[t].at \in {"idle", "trigger", "sizer", "headroom"},
         UNCHANGED <<block_vars, pending, size, large, policy, collected, stopped, lock, lost>>,
         requests' \in 0 .. MaxRequests, resizes' \in 0 .. MaxResizes,
         heap_lock' = t, heap_lock = IF stopped THEN t ELSE NoOne,
         after \in IF stopped THEN {"grow", "restart"}
                   ELSE IF t = Background THEN {"idle"} ELSE {"grew"},
         after = "restart" => new > size /\ pending - (new - size) <= Takeable * BlockSize
  PROVE  IInv'
<1>. DEFINE p == pc[t]
<1>1. /\ Types /\ p \in Processes /\ Place(t, p, stopped)
      /\ heap_lock = t <=> Holds(p)
      /\ t # NoOne /\ size \in Nat /\ pending \in Int
  BY ThreadIs, Numbers
<1>2. /\ Fresh(p) = 0 /\ Due(p, size) = 0 /\ p.next = "idle"
  <2>1. p.at \notin CallLabels \cup {"resized"}
    BY DEF CallLabels, ShrinkLabels, ExpandLabels
  <2>. QED  BY <1>1, <2>1, DueNone
<1>3. /\ Only(t) /\ p' \in Processes
      /\ p'.new = new /\ p'.after = after /\ p'.want = p.want
      /\ new < size => p'.at = "shrink" /\ p'.next = "resized" /\ p'.bytes = size - new
      /\ new > size => p'.at = "expand" /\ p'.next = "resized" /\ p'.bytes = new - size
      /\ new = size => p'.at = "resized" /\ p'.next = "idle"
  BY <1>1, <1>2, ResizeHeapIs
<1>4. /\ p'.at \in {"shrink", "expand", "resized"}
      /\ p'.at # "resized" => p'.next = "resized"
      /\ p'.at = "resized" => p'.next = "idle" /\ new = size
  BY <1>1, <1>3
<1>5. Resizes(p') /\ Holds(p') /\ ~Collects(p')
  BY <1>4 DEF Holds, Resizes, Collects, HeldLabels
<1>6. Types'
  <2>1. grown' \in BOOLEAN
    BY DEF resize_heap
  <2>. QED  BY <1>1, <1>3, <2>1 DEF Types, Only, block_vars
<1>7. Place(t, p', stopped) /\ Bytes(p', size)
  <2>1. Returns(p')
    BY <1>4 DEF Returns, CallLabels, ShrinkLabels, ExpandLabels
  <2>2. Place(t, p', stopped)
    <3>1. t = Background => p'.want = 0
      BY <1>1, <1>3 DEF Place
    <3>2. p'.at \in CallLabels \cup {"idle", "resized"} /\ p'.next \in {"idle", "resized"}
      BY <1>4 DEF CallLabels, ShrinkLabels, ExpandLabels
    <3>. QED  BY <1>3, <1>4, <1>5, <2>1, <3>1, <3>2 DEF Place
  <2>3. Bytes(p', size)
    BY <1>1, <1>3, <1>4 DEF Bytes
  <2>. QED  BY <2>2, <2>3
<1>8. stopped => t \in Mutators
  BY <1>1 DEF IInv, Owners
<1>9. Moves(t)
  BY <1>3 DEF Moves, Only
<1>10. Locks(t)
  BY <1>5, <1>8 DEF Locks
<1>11. Lands(t)
  BY <1>7 DEF Lands
<1>12. Active' = Active /\ Blocks' = Blocks /\ Takeable' = Takeable
  BY DEF Active, Blocks, Takeable, Minimum, block_vars
<1>13. Balances(t)
  <2>1. Fresh(p') = 0 /\ Due(p', size) = 0
    <3>1. Fresh(p') = 0
      BY <1>3, <1>4, DueIs
    <3>2. CASE p'.at = "resized"
      BY <1>1, <1>3, <1>4, <3>2, DueIs
    <3>3. CASE p'.at # "resized"
      BY <1>1, <1>3, <1>4, <3>3, DueIs
    <3>. QED  BY <3>1, <3>2, <3>3
  <2>. QED  BY <1>2, <1>3, <1>12, <2>1 DEF Balances
<1>14. Guards(t)
  BY <1>4, <1>12 DEF Guards
<1>15. Rooms(t)
  <2>1. ASSUME stopped PROVE Room(p)'
    <3>1. NotOwed
      <4>1. Holds(p) /\ Room(p)
        BY <1>1, <2>1 DEF IInv, RoomInv
      <4>2. p.at \in {"sizer", "headroom"}
        BY <1>2, <4>1 DEF Holds, Resizes, Collects, HeldLabels
      <4>. QED  BY <4>1, <4>2 DEF Room, HeldLabels
    <3>2. NotOwed'
      BY <3>1 DEF NotOwed, block_vars
    <3>3. p'.at = "shrink" /\ unavailable' > 0 => pending' + p'.bytes > -BlockSize
      BY <1>1, <1>3, <3>1, Threading DEF NotOwed, block_vars, Processes
    <3>4. p'.after = "restart" => p'.at = "expand" /\ pending' - p'.bytes <= Takeable' * BlockSize
      BY <1>1, <1>3, <1>12
    <3>. QED  BY <1>4, <3>2, <3>3, <3>4 DEF Room, ExpandLabels
  <2>. QED  BY <2>1 DEF Rooms
<1>. QED  BY <1>6, <1>9, <1>10, <1>11, <1>13, <1>14, <1>15, StepInv DEF Step

LEMMA ResizedInv ==
  ASSUME IInv, NEW t \in Threads, Resized(t)
  PROVE  IInv'
<1>. DEFINE p == pc[t]
            r == [p EXCEPT !.at = p.after, !.after = "idle"]
            q == [r EXCEPT !.new = 0]
<1>1. /\ Types /\ p \in Processes /\ Place(t, p, stopped)
      /\ heap_lock = t <=> Holds(p)
      /\ stopped => Room(p) /\ t \in Mutators
      /\ p.at = "resized" /\ size' = p.new /\ pc' = [pc EXCEPT ![t] = q]
      /\ heap_lock' = IF stopped THEN heap_lock ELSE NoOne
      /\ UNCHANGED <<block_vars, pending, large, policy, grown, collected, stopped, lock,
                     bound_vars>>
  BY ThreadIs DEF Resized
<1>2. Resizes(p) /\ heap_lock = t /\ p.next = "idle"
  BY <1>1 DEF Holds, Resizes, Place, Returns, CallLabels, ShrinkLabels, ExpandLabels
<1>3. /\ p.after \in IF stopped THEN {"grow", "restart"}
                     ELSE IF t = Background THEN {"idle"} ELSE {"grew"}
      /\ t = Background => p.want = 0
      /\ p.after \in Labels /\ p.new \in Nat
  BY <1>1, <1>2, LabelsAre DEF Place, Processes
<1>4. /\ Only(t) /\ p' \in Processes /\ p'.at = p.after /\ p'.after = "idle"
      /\ p'.next = "idle" /\ p'.want = p.want
  <2>1. /\ r \in Processes /\ r.at = p.after /\ r.after = "idle" /\ r.next = p.next
        /\ r.want = p.want
    BY <1>1, <1>3 DEF Processes
  <2>2. pc' = [pc EXCEPT ![t] = q]
    BY <1>1
  <2>. HIDE DEF r
  <2>3. /\ q \in Processes /\ q.at = p.after /\ q.after = "idle" /\ q.next = p.next
        /\ q.want = p.want
    BY <2>1 DEF Processes
  <2>. HIDE DEF q
  <2>4. Only(t) /\ p' = q
    BY <1>1, <2>2, <2>3, OnlyIs
  <2>. QED  BY <1>2, <2>3, <2>4
<1>5. Types'
  <2>1. heap_lock' \in Threads \cup {NoOne} /\ size' \in Nat
    BY <1>1, <1>2, <1>3
  <2>. QED  BY <1>1, <1>4, <2>1 DEF Types, Only, block_vars, bound_vars
<1>6. Holds(p') <=> stopped
  BY <1>3, <1>4 DEF Holds, Resizes, Collects, HeldLabels
<1>7. ~Resizes(p') /\ (Collects(p') => stopped)
  BY <1>3, <1>4 DEF Resizes, Collects, HeldLabels
<1>8. p'.at \notin CallLabels \cup {"resized"}
  BY <1>3, <1>4 DEF CallLabels, ShrinkLabels, ExpandLabels
<1>9. Place(t, p', stopped)
  <2>1. Returns(p')
    BY <1>4, <1>8 DEF Returns, CallLabels
  <2>2. p'.at = "idle" => t = Background
    BY <1>3, <1>4
  <2>3. t = Background => p'.at = "idle"
    BY <1>1, <1>3, <1>4, Threading
  <2>. QED  BY <1>3, <1>4, <1>7, <2>1, <2>2, <2>3 DEF Place
<1>10. Moves(t) /\ Locks(t) /\ Lands(t)
  <2>1. Moves(t)
    BY <1>4 DEF Moves, Only
  <2>2. Locks(t)
    BY <1>1, <1>2, <1>6 DEF Locks, Holds
  <2>3. Bytes(p', size')
    BY <1>8 DEF Bytes, CallLabels, ShrinkLabels, ExpandLabels
  <2>4. Lands(t)
    BY <1>1, <1>2, <1>9, <2>3 DEF Lands
  <2>. QED  BY <2>1, <2>2, <2>4
<1>11. Active' = Active /\ Blocks' = Blocks /\ Takeable' = Takeable
  BY <1>1 DEF Active, Blocks, Takeable, Minimum, block_vars
<1>12. Balances(t)
  <2>1. size \in Int /\ size' \in Int /\ p.new \in Int
    BY <1>1, <1>3, Numbers
  <2>2. Fresh(p) = 0 /\ Due(p, size) = p.new - size
    BY <1>1, <1>2, <2>1, DueIs
  <2>3. Fresh(p') = 0 /\ Due(p', size') = 0
    BY <1>4, <1>8, <1>9, <2>1, DueNone
  <2>4. -size' - Due(p', size') = -size - Due(p, size) /\ large' = large /\ lost' = lost
        /\ pending' = pending
    BY <1>1, <2>1, <2>2, <2>3 DEF bound_vars
  <2>5. /\ large \in Int /\ lost \in Int /\ pending \in Int /\ p.want \in Int
        /\ Active * BlockSize \in Int
    BY <1>1, Numbers DEF Processes
  <2>6. PICK x, l, o, d, w, s, s1 \in Int :
          /\ x = Active * BlockSize /\ l = large /\ o = lost /\ d = pending /\ w = p.want
          /\ s = size /\ s1 = size'
    BY <2>1, <2>5
  <2>7. x - d - s1 + l + o + w - 0 = x - d - s + l + o + w - (s1 - s)
    BY <2>6
  <2>. QED  BY <1>1, <1>4, <1>11, <2>2, <2>3, <2>4, <2>6, <2>7 DEF Balances
<1>13. Guards(t)
  BY <1>1, <1>4, <1>8, <1>11 DEF Guards, CallLabels, ShrinkLabels
<1>14. Rooms(t)
  <2>1. ASSUME stopped PROVE Room(p)'
    <3>1. NotOwed'
      BY <1>1, <2>1 DEF Room, NotOwed, HeldLabels, block_vars
    <3>2. p'.at = "restart" => pending' <= Takeable' * BlockSize
      BY <1>1, <1>4, <1>11, <2>1 DEF Room
    <3>. QED  BY <1>3, <1>4, <2>1, <3>1, <3>2 DEF Room
  <2>. QED  BY <1>1, <2>1 DEF Rooms
<1>. QED  BY <1>5, <1>10, <1>12, <1>13, <1>14, StepInv DEF Step

\* A thread goes elsewhere, and does nothing else.
LEMMA GotoInv ==
  ASSUME IInv, NEW t \in Threads, NEW l \in Labels, Goto(t, l),
         pc[t].at \in {"idle", "large", "trigger", "sizer", "headroom"},
         IF pc[t].at \in {"sizer", "headroom"} THEN l \in {"grow", "restart"}
         ELSE l \in {"trigger", "wait"} /\ ~stopped /\ t \in Mutators,
         l = "restart" => policy = Fixed \/ pending <= Takeable * BlockSize,
         UNCHANGED <<block_vars, pending, heap_vars, lock, lost>>,
         requests' \in 0 .. MaxRequests, resizes' \in 0 .. MaxResizes
  PROVE  IInv'
<1>. DEFINE p == pc[t]
            q == [p EXCEPT !.at = l]
<1>1. /\ Types /\ p \in Processes /\ Place(t, p, stopped)
      /\ heap_lock = t <=> Holds(p)
      /\ stopped => Room(p) /\ heap_lock = t /\ t \in Mutators
      /\ pc' = [pc EXCEPT ![t] = q]
  <2>1. stopped => p.at \notin {"idle", "wait"}
    OBVIOUS
  <2>. QED  BY <2>1, ThreadIs DEF Goto
<1>2. p.at \notin CallLabels \cup {"resized"}
  BY DEF CallLabels, ShrinkLabels, ExpandLabels
<1>3. /\ size \in Int /\ Fresh(p) = 0 /\ Due(p, size) = 0 /\ p.next = "idle" /\ ~Resizes(p)
      /\ p.after = "idle"
  BY <1>1, <1>2, DueNone, Numbers
<1>4. /\ Only(t) /\ p' \in Processes /\ p'.at = l /\ p'.after = p.after
      /\ p'.next = "idle" /\ p'.want = p.want
  <2>1. /\ q \in Processes /\ q.at = l /\ q.after = p.after /\ q.next = p.next
        /\ q.want = p.want
    BY <1>1 DEF Processes
  <2>. HIDE DEF q
  <2>2. Only(t) /\ p' = q
    BY <1>1, <2>1, OnlyIs
  <2>. QED  BY <1>3, <2>1, <2>2
<1>5. Types'
  BY <1>1, <1>4 DEF Types, Only, block_vars, heap_vars
<1>6. l \notin CallLabels \cup {"resized", "idle"}
  BY DEF CallLabels, ShrinkLabels, ExpandLabels
<1>7. ~Resizes(p') /\ (Holds(p') <=> Holds(p)) /\ (Collects(p') <=> Collects(p))
  BY <1>3, <1>4 DEF Holds, Resizes, Collects, HeldLabels
<1>8. Place(t, p', stopped)
  <2>1. Returns(p')
    BY <1>4, <1>6 DEF Returns, CallLabels
  <2>2. t # Background
    <3>1. Background \notin Mutators
      BY Threading
    <3>2. p.at \in {"sizer", "headroom"} => p.at \notin CallLabels \cup {"idle", "resized"}
      BY <1>2
    <3>. QED  BY <1>1, <3>1, <3>2 DEF Place
  <2>. QED  BY <1>1, <1>3, <1>4, <1>6, <1>7, <2>1, <2>2 DEF Place
<1>9. Moves(t) /\ Locks(t) /\ Lands(t)
  <2>1. Moves(t)
    BY <1>4 DEF Moves, Only
  <2>2. Locks(t)
    BY <1>1, <1>7 DEF Locks, heap_vars
  <2>3. Bytes(p', size)
    BY <1>4, <1>6 DEF Bytes, CallLabels, ShrinkLabels, ExpandLabels
  <2>4. Lands(t)
    BY <1>8, <2>3 DEF Lands, heap_vars
  <2>. QED  BY <2>1, <2>2, <2>4
<1>10. Active' = Active /\ Blocks' = Blocks /\ Takeable' = Takeable
  BY DEF Active, Blocks, Takeable, Minimum, block_vars
<1>11. Balances(t)
  <2>1. Fresh(p') = 0 /\ Due(p', size) = 0
    BY <1>3, <1>4, <1>6, <1>8, DueNone
  <2>. QED  BY <1>3, <1>4, <1>10, <2>1 DEF Balances, heap_vars
<1>12. Guards(t)
  BY <1>4, <1>6, <1>10 DEF Guards, CallLabels, ShrinkLabels
<1>13. Rooms(t)
  <2>1. ASSUME stopped PROVE Room(p)'
    <3>1. p.at \in {"sizer", "headroom"} /\ p'.at \in {"grow", "restart"}
      BY <1>4, <2>1
    <3>2. NotOwed'
      BY <1>1, <2>1, <3>1 DEF Room, NotOwed, HeldLabels, block_vars
    <3>3. p'.at = "restart" /\ policy' # Fixed => pending' <= Takeable' * BlockSize
      BY <1>4, <1>10 DEF heap_vars
    <3>. QED  BY <1>3, <1>4, <3>1, <3>2, <3>3 DEF Room
  <2>. QED  BY <1>1, <2>1 DEF Rooms, heap_vars
<1>. QED  BY <1>5, <1>9, <1>11, <1>12, <1>13, StepInv DEF Step

--------------------------------------------------------------------------------
\* The steps of the mutators.

LEMMA RestingIs ==
  ASSUME NEW t, NEW stop, NEW s
  PROVE  /\ Resting \in Processes /\ Resting.at = "idle" /\ Resting.want = 0
         /\ Place(t, Resting, stop) /\ Bytes(Resting, s) /\ ~Holds(Resting)
<1>1. /\ Resting \in Processes /\ Resting.at = "idle" /\ Resting.next = "idle"
      /\ Resting.after = "idle" /\ Resting.want = 0
  BY DEF Resting, Processes, Labels, FreeLabels
<1>. DEFINE p == Resting
<1>. HIDE DEF p
<1>2. Returns(p) /\ ~Resizes(p) /\ ~Collects(p)
  BY <1>1 DEF Returns, Resizes, Collects, CallLabels, ShrinkLabels, ExpandLabels, HeldLabels, p
<1>3. Place(t, p, stop)
  BY <1>1, <1>2 DEF Place, p
<1>4. Bytes(p, s)
  BY <1>1 DEF Bytes, p
<1>. QED  BY <1>1, <1>2, <1>3, <1>4 DEF Holds, p

\* A mutator goes on that neither holds the heap's lock nor takes it.
LEMMA FreeInv ==
  ASSUME IInv, NEW m \in Mutators, ~stopped, ~Holds(pc[m]),
         NEW q \in Processes, pc' = [pc EXCEPT ![m] = q],
         ~Holds(q), Place(m, q, stopped), Bytes(q, size), q.at # "targets",
         UNCHANGED <<evacuation_targets, unavailable, nslabs, size, policy, grown, collected,
                     heap_lock, stopped, lock, lost, resizes>>,
         empty' \in Nat, used' \in Nat, large' \in Nat, pending' \in Int,
         requests' \in 0 .. MaxRequests, empty' + used' = empty + used,
         large' - pending' + q.want = large - pending + pc[m].want
  PROVE  IInv'
<1>. DEFINE p == pc[m]
<1>1. /\ m \in Threads /\ Types /\ p \in Processes /\ Place(m, p, stopped)
  BY Threading, ThreadIs
<1>2. Only(m) /\ p' = q
  BY <1>1, OnlyIs
<1>3. Types'
  BY <1>1, <1>2 DEF Types, Only
<1>4. Moves(m) /\ Locks(m) /\ Lands(m)
  BY <1>2 DEF Moves, Only, Locks, Lands
<1>5. Active' = Active /\ Blocks' = Blocks /\ Blocks \in Int /\ Active * BlockSize \in Int
  <2>1. Active' = Active
    BY DEF Active
  <2>2. Blocks' = Blocks
    BY <1>1, Numbers DEF Blocks
  <2>. QED  BY <1>1, <2>1, <2>2, Numbers
<1>6. Balances(m)
  <2>1. size \in Int /\ lost \in Int /\ pending \in Int /\ large \in Int /\ p.want \in Int
        /\ q.want \in Int /\ pending' \in Int /\ large' \in Int
    BY <1>1, Numbers DEF Processes
  <2>2. Fresh(p) = 0 /\ Due(p, size) = 0 /\ Fresh(q) = 0 /\ Due(q, size) = 0
    BY <1>1, <2>1, FreeIs
  <2>3. PICK x, s, o \in Int : x = Active * BlockSize /\ s = size /\ o = lost
    BY <1>5, <2>1
  <2>4. PICK d, d1, l, l1, w, w1 \in Int :
          /\ d = pending /\ d1 = pending' /\ l = large /\ l1 = large'
          /\ w = p.want /\ w1 = q.want
    BY <2>1
  <2>5. l1 - d1 + w1 = l - d + w
    BY <2>4
  <2>6. x - d1 - s + l1 + o + w1 - 0 = x - d - s + l + o + w - 0
    BY <2>5
  <2>. QED  BY <1>2, <1>5, <2>2, <2>3, <2>4, <2>6 DEF Balances
<1>7. Guards(m)
  BY <1>2, <1>5 DEF Guards
<1>8. Rooms(m)
  BY DEF Rooms
<1>. QED  BY <1>1, <1>3, <1>4, <1>6, <1>7, <1>8, StepInv DEF Step

LEMMA RunningIs ==
  ASSUME IInv, NEW m \in Mutators, pc[m].at \in {"idle", "large", "trigger", "wait", "grew"}
  PROVE  /\ m \in Threads /\ Types /\ pc[m] \in Processes /\ ~Holds(pc[m])
         /\ Place(m, pc[m], stopped) /\ Bytes(pc[m], size)
         /\ pc[m].at \notin {"idle", "wait"} => ~stopped
         /\ pc[m].at = "idle" => pc[m].want = 0
<1>1. /\ m \in Threads /\ Types /\ pc[m] \in Processes
      /\ Place(m, pc[m], stopped) /\ Bytes(pc[m], size)
      /\ heap_lock = m <=> Holds(pc[m])
      /\ stopped /\ pc[m].at \notin {"idle", "wait"} => heap_lock = m
  BY Threading, ThreadIs
<1>2. pc[m].next = "idle"
  BY <1>1 DEF Place, Returns, CallLabels, ShrinkLabels, ExpandLabels
<1>3. ~Holds(pc[m])
  BY <1>2 DEF Holds, Resizes, Collects, HeldLabels
<1>. QED  BY <1>1, <1>3 DEF Place

LEMMA Bounds ==
  ASSUME Types
  PROVE  /\ requests \in 0 .. MaxRequests /\ resizes \in 0 .. MaxResizes
         /\ requests < MaxRequests => requests + 1 \in 0 .. MaxRequests
         /\ resizes < MaxResizes => resizes + 1 \in 0 .. MaxResizes
<1>1. MaxRequests \in Nat /\ MaxResizes \in Nat
  BY BudgetAssumption
<1>2. requests \in 0 .. MaxRequests /\ resizes \in 0 .. MaxResizes
  BY DEF Types
<1>. QED  BY <1>1, <1>2

LEMMA AllocateSmallInv ==
  ASSUME IInv, NEW m \in Mutators, AllocateSmall(m)
  PROVE  IInv'
<1>1. /\ Running(m) /\ lock = NoOne
      /\ UNCHANGED <<evacuation_targets, unavailable, nslabs, pending, heap_vars, lock, bound_vars>>
  BY DEF AllocateSmall
<1>2. ~stopped /\ pc[m].at = "idle"
  BY <1>1 DEF Running
<1>3. /\ m \in Threads /\ Types /\ pc[m] \in Processes /\ ~Holds(pc[m])
      /\ Place(m, pc[m], stopped) /\ Bytes(pc[m], size)
  BY <1>2, RunningIs
<1>4. CASE empty > 0
  <2>1. empty' = empty - 1 /\ used' = used + 1 /\ pc' = pc
    BY <1>4 DEF AllocateSmall
  <2>2. empty \in Nat /\ used \in Nat /\ large \in Nat /\ pending \in Int
    BY <1>3, Numbers
  <2>3. empty' \in Nat /\ used' \in Nat /\ empty' + used' = empty + used
    BY <1>4, <2>1, <2>2
  <2>4. pc' = [pc EXCEPT ![m] = pc[m]]
    BY <1>3, <2>1 DEF Types
  <2>5. requests' \in 0 .. MaxRequests
    BY <1>1, <1>3, Bounds DEF bound_vars
  <2>6. large' - pending' + pc[m].want = large - pending + pc[m].want
    BY <1>1 DEF heap_vars
  <2>7. UNCHANGED <<evacuation_targets, unavailable, nslabs, size, policy, grown, collected,
                    heap_lock, stopped, lock, lost, resizes>>
    BY <1>1 DEF heap_vars, bound_vars
  <2>8. large' \in Nat /\ pending' \in Int
    BY <1>1, <2>2 DEF heap_vars
  <2>. QED  BY <1>2, <1>3, <2>3, <2>4, <2>5, <2>6, <2>7, <2>8, FreeInv
<1>5. CASE ~(empty > 0)
  <2>1. Goto(m, "trigger") /\ UNCHANGED <<empty, used>>
    BY <1>5 DEF AllocateSmall
  <2>2. UNCHANGED <<block_vars, pending, heap_vars, lock, lost>>
    BY <1>1, <2>1 DEF block_vars, bound_vars
  <2>3. requests' \in 0 .. MaxRequests /\ resizes' \in 0 .. MaxResizes
    BY <1>1, <1>3, Bounds DEF bound_vars
  <2>4. "trigger" \in Labels
    BY DEF Labels, FreeLabels
  <2>. QED  BY <1>2, <1>3, <2>1, <2>2, <2>3, <2>4, GotoInv
<1>. QED  BY <1>4, <1>5

LEMMA AllocateLargeInv ==
  ASSUME IInv, NEW m \in Mutators, NEW n \in Requests, allocate_large(m, n)
  PROVE  IInv'
<1>. DEFINE r == [pc[m] EXCEPT !.want = n]
            q == Retry(r)
<1>1. /\ ~stopped /\ pc[m].at = "idle" /\ requests < MaxRequests /\ requests' = requests + 1
      /\ pending' = pending + n
      /\ UNCHANGED <<block_vars, heap_vars, lock, lost, resizes>>
  BY DEF allocate_large, Running
<1>2. /\ Types /\ pc[m] \in Processes /\ ~Holds(pc[m]) /\ pc[m].want = 0
      /\ n \in Nat /\ n > 0
  BY <1>1, RunningIs, BudgetAssumption
<1>3. r \in Processes /\ r.want = n
  BY <1>2 DEF Processes
<1>4. pc' = [pc EXCEPT ![m] = q]
  <2>1. q = [Call(Resting, "shrink", 0, "large") EXCEPT !.want = n]
    BY <1>2, <1>3 DEF Retry
  <2>. QED  BY <2>1 DEF allocate_large
<1>. HIDE DEF r
<1>5. /\ q \in Processes /\ ~Holds(q) /\ q.want = n /\ q.at # "targets"
      /\ Place(m, q, stopped) /\ Bytes(q, size)
  <2>1. q \in Processes /\ ~Holds(q) /\ q.want = n /\ q.at \in {"idle", "shrink"}
    BY <1>3, RetryIs
  <2>. QED  BY <1>3, <2>1, RetryPlace
<1>. HIDE DEF q
<1>6. /\ empty' \in Nat /\ used' \in Nat /\ large' \in Nat /\ pending' \in Int
      /\ empty' + used' = empty + used
      /\ large' - pending' + q.want = large - pending + pc[m].want
  <2>1. /\ empty \in Nat /\ used \in Nat /\ large \in Nat /\ pending \in Int
        /\ empty' = empty /\ used' = used /\ large' = large
    BY <1>1, <1>2, Numbers DEF block_vars, heap_vars
  <2>2. large - (pending + n) + n = large - pending + 0
    BY <1>2, <2>1
  <2>. QED  BY <1>1, <1>2, <1>5, <2>1, <2>2
<1>7. UNCHANGED <<evacuation_targets, unavailable, nslabs, size, policy, grown, collected,
                  heap_lock, stopped, lock, lost, resizes>>
  BY <1>1 DEF block_vars, heap_vars
<1>8. requests' \in 0 .. MaxRequests
  BY <1>1, <1>2, Bounds
<1>. QED  BY <1>1, <1>2, <1>4, <1>5, <1>6, <1>7, <1>8, FreeInv

LEMMA LargeInv ==
  ASSUME IInv, NEW m \in Mutators, Large(m)
  PROVE  IInv'
<1>1. /\ pc[m].at = "large"
      /\ UNCHANGED <<block_vars, pending, size, policy, grown, collected, heap_lock, stopped,
                     lock, bound_vars>>
  BY DEF Large
<1>2. Types /\ pc[m] \in Processes /\ ~Holds(pc[m]) /\ ~stopped
  BY <1>1, RunningIs
<1>3. requests' \in 0 .. MaxRequests /\ resizes' \in 0 .. MaxResizes
  BY <1>1, <1>2, Bounds DEF bound_vars
<1>4. CASE pc[m].pending <= 0
  <2>1. large' = large + pc[m].want /\ pc' = [pc EXCEPT ![m] = Resting]
    BY <1>4 DEF Large
  <2>. DEFINE q == Resting
  <2>2. /\ q \in Processes /\ ~Holds(q) /\ q.want = 0 /\ q.at # "targets"
        /\ Place(m, q, stopped) /\ Bytes(q, size)
    BY RestingIs
  <2>3. pc' = [pc EXCEPT ![m] = q]
    BY <2>1
  <2>. HIDE DEF q
  <2>4. /\ empty \in Nat /\ used \in Nat /\ large \in Nat /\ pending \in Int
        /\ pc[m].want \in Nat /\ empty' = empty /\ used' = used /\ pending' = pending
    BY <1>1, <1>2, Numbers DEF block_vars, Processes
  <2>5. large' - pending' + q.want = large - pending + pc[m].want
    BY <2>1, <2>2, <2>4
  <2>6. /\ empty' \in Nat /\ used' \in Nat /\ large' \in Nat /\ pending' \in Int
        /\ empty' + used' = empty + used
    BY <2>1, <2>4
  <2>7. UNCHANGED <<evacuation_targets, unavailable, nslabs, size, policy, grown, collected,
                    heap_lock, stopped, lock, lost, resizes>>
    BY <1>1 DEF block_vars, bound_vars
  <2>. QED  BY <1>2, <1>3, <2>2, <2>3, <2>5, <2>6, <2>7, FreeInv
<1>5. CASE ~(pc[m].pending <= 0)
  <2>1. Goto(m, "trigger") /\ UNCHANGED large
    BY <1>5 DEF Large
  <2>2. UNCHANGED <<block_vars, pending, heap_vars, lock, lost>>
    BY <1>1, <2>1 DEF heap_vars, bound_vars
  <2>3. "trigger" \in Labels /\ m \in Threads
    BY Threading DEF Labels, FreeLabels
  <2>. QED  BY <1>1, <1>2, <1>3, <2>1, <2>2, <2>3, GotoInv
<1>. QED  BY <1>4, <1>5

LEMMA GrewInv ==
  ASSUME IInv, NEW m \in Mutators, Grew(m)
  PROVE  IInv'
<1>. DEFINE q == Retry(pc[m])
<1>1. /\ pc[m].at = "grew" /\ pc' = [pc EXCEPT ![m] = q]
      /\ UNCHANGED <<block_vars, pending, heap_vars, lock, bound_vars>>
  BY DEF Grew
<1>2. Types /\ pc[m] \in Processes /\ ~Holds(pc[m]) /\ ~stopped
  BY <1>1, RunningIs
<1>3. requests' \in 0 .. MaxRequests
  BY <1>1, <1>2, Bounds DEF bound_vars
<1>4. /\ q \in Processes /\ ~Holds(q) /\ q.want = pc[m].want /\ q.at # "targets"
      /\ Place(m, q, stopped) /\ Bytes(q, size)
  <2>1. /\ q \in Processes /\ ~Holds(q) /\ q.want = pc[m].want /\ q.at \in {"idle", "shrink"}
    BY <1>2, RetryIs
  <2>. QED  BY <1>2, <2>1, RetryPlace
<1>. HIDE DEF q
<1>5. /\ empty' \in Nat /\ used' \in Nat /\ large' \in Nat /\ pending' \in Int
      /\ empty' + used' = empty + used
      /\ large' - pending' + q.want = large - pending + pc[m].want
  <2>1. /\ empty \in Nat /\ used \in Nat /\ large \in Nat /\ pending \in Int
        /\ empty' = empty /\ used' = used /\ large' = large /\ pending' = pending
    BY <1>1, <1>2, Numbers DEF block_vars, heap_vars
  <2>. QED  BY <1>4, <2>1
<1>6. UNCHANGED <<evacuation_targets, unavailable, nslabs, size, policy, grown, collected,
                  heap_lock, stopped, lock, lost, resizes>>
  BY <1>1 DEF block_vars, heap_vars, bound_vars
<1>. QED  BY <1>1, <1>2, <1>3, <1>4, <1>5, <1>6, FreeInv

LEMMA GcCollectInv ==
  ASSUME IInv, NEW m \in Mutators, gc_collect(m)
  PROVE  IInv'
<1>1. /\ ~stopped /\ pc[m].at = "idle" /\ requests < MaxRequests /\ requests' = requests + 1
      /\ Goto(m, "wait") /\ UNCHANGED <<block_vars, pending, heap_vars, lock, lost, resizes>>
  BY DEF gc_collect, Running
<1>2. requests' \in 0 .. MaxRequests /\ resizes' \in 0 .. MaxResizes
  BY <1>1, Bounds DEF IInv
<1>3. "wait" \in Labels /\ m \in Threads
  BY Threading DEF Labels, FreeLabels
<1>. QED  BY <1>1, <1>2, <1>3, GotoInv

LEMMA MaybeGrowInv ==
  ASSUME IInv, NEW m \in Mutators, MaybeGrow(m)
  PROVE  IInv'
<1>1. /\ pc[m].at = "trigger" /\ heap_lock = NoOne
      /\ UNCHANGED <<block_vars, pending, size, large, policy, collected, stopped, lock,
                     bound_vars>>
  BY DEF MaybeGrow
<1>2. m \in Threads /\ Types /\ ~stopped /\ m # Background
  BY <1>1, RunningIs, Threading
<1>3. requests' \in 0 .. MaxRequests /\ resizes' \in 0 .. MaxResizes /\ lost' = lost
  BY <1>1, <1>2, Bounds DEF bound_vars
<1>4. ASSUME NEW target \in Targets, resize_heap(m, align_up(target, BlockSize), "grew"),
             heap_lock' = m
      PROVE  IInv'
  <2>. DEFINE new == align_up(target, BlockSize)
              after == "grew"
  <2>1. new \in Nat
    <3>1. target \in Nat /\ BlockSize \in Nat \ {0}
      BY BudgetAssumption
    <3>2. CeilDiv(target, BlockSize) \in Nat
      BY <3>1, CeilDivIs
    <3>. QED  BY <3>1, <3>2 DEF align_up
  <2>2. resize_heap(m, new, after)
    BY <1>4
  <2>3. /\ after \in {"idle", "grew", "grow", "restart"} /\ after # "restart"
        /\ after \in IF stopped THEN {"grow", "restart"}
                     ELSE IF m = Background THEN {"idle"} ELSE {"grew"}
    BY <1>2
  <2>4. heap_lock = IF stopped THEN m ELSE NoOne
    BY <1>1, <1>2
  <2>. HIDE DEF new, after
  <2>. QED  BY <1>1, <1>2, <1>3, <1>4, <2>1, <2>2, <2>3, <2>4, ResizeHeapInv
<1>5. CASE Goto(m, "wait") /\ UNCHANGED <<grown, heap_lock>>
  <2>1. "wait" \in Labels
    BY DEF Labels, FreeLabels
  <2>2. UNCHANGED <<block_vars, pending, heap_vars, lock, lost>>
    BY <1>1, <1>3, <1>5 DEF heap_vars
  <2>. QED  BY <1>1, <1>2, <1>3, <1>5, <2>1, <2>2, GotoInv
<1>. QED  BY <1>4, <1>5 DEF MaybeGrow

--------------------------------------------------------------------------------
\* The steps of the collector.

LEMMA CollectorIs ==
  ASSUME IInv, NEW m \in Mutators, pc[m].at \in {"sizer", "grow", "headroom", "restart"}
  PROVE  /\ m \in Threads /\ m # Background /\ Types /\ pc[m] \in Processes
         /\ Place(m, pc[m], stopped) /\ Bytes(pc[m], size)
         /\ stopped /\ heap_lock = m /\ Holds(pc[m]) /\ Room(pc[m]) /\ NotOwed
<1>1. /\ m \in Threads /\ m # Background /\ Types /\ pc[m] \in Processes
      /\ Place(m, pc[m], stopped) /\ Bytes(pc[m], size)
      /\ heap_lock = m <=> Holds(pc[m])
      /\ stopped /\ pc[m].at \notin {"idle", "wait"} => heap_lock = m /\ Room(pc[m])
  BY Threading, ThreadIs
<1>2. Collects(pc[m]) /\ pc[m].at \in HeldLabels
  BY DEF Collects, HeldLabels
<1>3. stopped /\ Holds(pc[m])
  BY <1>1, <1>2 DEF Holds, Place
<1>4. Room(pc[m])
  BY <1>1, <1>3
<1>5. NotOwed
  BY <1>2, <1>4 DEF Room
<1>. QED  BY <1>1, <1>3, <1>4, <1>5

LEMMA SizerOnGCInv ==
  ASSUME IInv, NEW m \in Mutators, SizerOnGC(m)
  PROVE  IInv'
<1>1. /\ pc[m].at = "sizer"
      /\ UNCHANGED <<block_vars, pending, size, large, policy, collected, heap_lock, stopped,
                     lock, bound_vars>>
  BY DEF SizerOnGC
<1>2. m \in Threads /\ Types /\ stopped /\ heap_lock = m
  BY <1>1, CollectorIs
<1>3. requests' \in 0 .. MaxRequests /\ resizes' \in 0 .. MaxResizes /\ lost' = lost
  BY <1>1, <1>2, Bounds DEF bound_vars
<1>4. CASE UNCHANGED grown /\ \/ policy = Fixed /\ Goto(m, "restart")
                              \/ policy = "growable" /\ Goto(m, "grow")
  <2>1. UNCHANGED <<block_vars, pending, heap_vars, lock, lost>>
    BY <1>1, <1>3, <1>4 DEF heap_vars
  <2>2. "restart" \in Labels /\ "grow" \in Labels
    BY LabelsAre
  <2>3. CASE policy = Fixed /\ Goto(m, "restart")
    BY <1>1, <1>2, <1>3, <2>1, <2>2, <2>3, GotoInv
  <2>4. CASE Goto(m, "grow")
    BY <1>1, <1>2, <1>3, <2>1, <2>2, <2>4, GotoInv
  <2>. QED  BY <1>4, <2>3, <2>4
<1>5. ASSUME NEW target \in Targets, resize_heap(m, target, "grow")
      PROVE  IInv'
  <2>. DEFINE after == "grow"
  <2>1. target \in Nat
    BY BudgetAssumption
  <2>2. resize_heap(m, target, after)
    BY <1>5
  <2>3. /\ after \in {"idle", "grew", "grow", "restart"} /\ after # "restart"
        /\ after \in IF stopped THEN {"grow", "restart"}
                     ELSE IF m = Background THEN {"idle"} ELSE {"grew"}
    BY <1>2
  <2>4. heap_lock' = m /\ heap_lock = IF stopped THEN m ELSE NoOne
    BY <1>1, <1>2
  <2>. HIDE DEF after
  <2>. QED  BY <1>1, <1>2, <1>3, <2>1, <2>2, <2>3, <2>4, ResizeHeapInv
<1>. QED  BY <1>4, <1>5 DEF SizerOnGC

LEMMA GrowHeapInv ==
  ASSUME IInv, NEW m \in Mutators, GrowHeap(m)
  PROVE  IInv'
<1>. DEFINE p == pc[m]
            q == Call(p, "shrink", 0, "headroom")
<1>1. /\ p.at = "grow" /\ pc' = [pc EXCEPT ![m] = q]
      /\ UNCHANGED <<block_vars, pending, heap_vars, lock, bound_vars>>
  BY DEF GrowHeap
<1>2. /\ m \in Threads /\ m # Background /\ Types /\ p \in Processes
      /\ Place(m, p, stopped) /\ stopped /\ Holds(p) /\ NotOwed
  BY <1>1, CollectorIs
<1>3. /\ size \in Int /\ Fresh(p) = 0 /\ Due(p, size) = 0 /\ p.after = "idle"
  <2>1. p.at \notin CallLabels \cup {"resized"}
    BY <1>1 DEF CallLabels, ShrinkLabels, ExpandLabels
  <2>2. size \in Int
    BY <1>2, Numbers
  <2>. QED  BY <1>2, <2>1, <2>2, DueNone
<1>4. /\ q \in Processes /\ q.at = "shrink" /\ q.bytes = 0 /\ q.next = "headroom"
      /\ q.after = "idle" /\ q.want = p.want
  <2>. DEFINE n == 0
  <2>1. n \in Nat /\ "shrink" \in Labels
    BY LabelsAre DEF ShrinkLabels
  <2>. HIDE DEF n
  <2>2. LET c == Call(p, "shrink", n, "headroom") IN
        /\ c \in Processes /\ c.at = "shrink" /\ c.bytes = n /\ c.next = "headroom"
        /\ c.after = p.after /\ c.want = p.want
    BY <1>2, <2>1, CallIs
  <2>. QED  BY <1>3, <2>2 DEF n
<1>. HIDE DEF q
<1>5. Only(m) /\ p' = q
  BY <1>1, <1>2, <1>4, OnlyIs
<1>6. Types'
  BY <1>1, <1>2, <1>5 DEF Types, Only, block_vars, heap_vars, bound_vars
<1>7. /\ Place(m, q, stopped) /\ Bytes(q, size) /\ Holds(q) /\ ~Resizes(q)
  <2>1. Returns(q) /\ ~Resizes(q) /\ Collects(q)
    BY <1>4 DEF Returns, Resizes, Collects, CallLabels, ShrinkLabels, ExpandLabels
  <2>2. Place(m, q, stopped)
    BY <1>2, <1>4, <2>1 DEF Place
  <2>3. Bytes(q, size)
    BY <1>4 DEF Bytes
  <2>. QED  BY <2>1, <2>2, <2>3 DEF Holds
<1>8. Moves(m) /\ Locks(m) /\ Lands(m)
  <2>1. Within(m)
    BY <1>1, <1>2, <1>5, <1>7 DEF Within, heap_vars
  <2>. QED  BY <1>2, <1>5, <1>7, <2>1, WithinStep
<1>9. Active' = Active /\ Blocks' = Blocks
  BY <1>1 DEF Active, Blocks, block_vars
<1>10. Balances(m)
  <2>1. Fresh(q) = 0 /\ Due(q, size) = 0
    BY <1>3, <1>4, DueIs
  <2>. QED  BY <1>1, <1>3, <1>4, <1>5, <1>9, <2>1 DEF Balances, heap_vars, bound_vars
<1>11. Guards(m)
  BY <1>1, <1>4, <1>5, <1>9 DEF Guards
<1>12. Rooms(m)
  <2>1. unavailable' > 0 => pending' + p'.bytes > -BlockSize
    <3>1. pending \in Int
      BY <1>2, Numbers
    <3>. QED  BY <1>1, <1>2, <1>4, <1>5, <3>1, Threading DEF NotOwed, block_vars
  <2>2. Room(p)'
    BY <1>4, <1>5, <2>1 DEF Room, HeldLabels
  <2>. QED  BY <2>2 DEF Rooms
<1>. QED  BY <1>2, <1>6, <1>8, <1>10, <1>11, <1>12, StepInv DEF Step

\* What is needed leaves the minimum of the reserve in place, whatever the debt.
LEMMA NeededIs ==
  ASSUME IInv, NEW m \in Threads
  PROVE  LET least == Minimum(Active) * BlockSize
             needed == NeededHeadroom(m)
             headroom == (empty + evacuation_targets) * BlockSize IN
         /\ least \in Nat /\ needed \in Nat /\ headroom \in Nat
         /\ needed >= least + pc[m].pending
         /\ headroom - least <= Takeable * BlockSize /\ Takeable * BlockSize \in Nat
<1>. DEFINE least == Minimum(Active) * BlockSize
            headroom == (empty + evacuation_targets) * BlockSize
            debt == Max({0, pc[m].pending})
            slack == IF AmbiguousEdges /\ ~pc[m].progress THEN (Active * BlockSize) \div 4 ELSE 0
<1>1. Types /\ pc[m] \in Processes
  BY ThreadIs
<1>2. /\ Active \in Nat /\ empty \in Nat /\ evacuation_targets \in Nat
      /\ BlockSize \in Nat \ {0} /\ pc[m].pending \in Int
  BY <1>1, ActiveIs, Numbers, Threading DEF Processes
<1>3. Minimum(Active) \in Nat
  BY <1>2, MinimumIs
<1>4. least \in Nat /\ headroom \in Nat
  BY <1>2, <1>3
<1>5. debt \in Nat /\ debt >= pc[m].pending
  <2>1. debt = IF 0 >= pc[m].pending THEN 0 ELSE pc[m].pending
    BY <1>2, MaxIs
  <2>. QED  BY <1>2, <2>1
<1>6. slack \in Nat
  <2>. DEFINE n == Active * BlockSize
  <2>1. n \in Nat
    BY <1>2
  <2>. HIDE DEF n
  <2>2. n \div 4 \in Nat
    BY <2>1
  <2>. QED  BY <2>2 DEF n
<1>7. NeededHeadroom(m) = least + debt + slack
  BY DEF NeededHeadroom
<1>8. headroom - least <= Takeable * BlockSize /\ Takeable * BlockSize \in Nat
  <2>1. PICK a \in Int : a = Active
    BY <1>2
  <2>2. PICK e, r \in Nat : e = empty /\ r = evacuation_targets
    BY <1>2
  <2>3. PICK k \in Int : k = Minimum(a)
    BY MinimumInt
  <2>4. PICK x : x = Takeable
    OBVIOUS
  <2>5. x = e + Max({0, r - Minimum(a)})
    BY <2>1, <2>2, <2>4 DEF Takeable
  <2>6. x \in Nat /\ x >= e + r - k /\ x * BlockSize \in Nat
    BY <2>3, <2>5, TakeableIs
  <2>. DEFINE f == e + r
              d == f - k
  <2>7. headroom = f * BlockSize /\ least = k * BlockSize
    BY <2>1, <2>2, <2>3
  <2>8. f \in Int /\ d \in Int /\ d <= x
    BY <2>2, <2>3, <2>6
  <2>9. d * BlockSize = f * BlockSize - k * BlockSize
    <3>. HIDE DEF f
    <3>. QED  BY <1>2, <2>3, <2>8, Times
  <2>. HIDE DEF d, f
  <2>10. d * BlockSize <= x * BlockSize
    BY <1>2, <2>6, <2>8, TimesMonotone
  <2>. QED  BY <2>4, <2>6, <2>7, <2>9, <2>10
<1>. HIDE DEF least, headroom, debt, slack
<1>9. NeededHeadroom(m) \in Nat /\ NeededHeadroom(m) >= least + pc[m].pending
  BY <1>2, <1>4, <1>5, <1>6, <1>7
<1>. QED  BY <1>4, <1>8, <1>9 DEF least, headroom

LEMMA HeadroomInv ==
  ASSUME IInv, NEW m \in Mutators, Headroom(m)
  PROVE  IInv'
<1>. DEFINE least == Minimum(Active) * BlockSize
            needed == NeededHeadroom(m)
            headroom == (empty + evacuation_targets) * BlockSize
            room == Takeable * BlockSize
            new == size - headroom + needed
            after == "restart"
<1>1. /\ pc[m].at = "headroom"
      /\ IF headroom < needed THEN resize_heap(m, new, after)
         ELSE Goto(m, after) /\ UNCHANGED grown
      /\ UNCHANGED <<block_vars, pending, size, large, policy, collected, heap_lock, stopped,
                     lock, bound_vars>>
  BY DEF Headroom
<1>2. /\ m \in Threads /\ Types /\ stopped /\ heap_lock = m /\ Room(pc[m])
  BY <1>1, CollectorIs
<1>3. requests' \in 0 .. MaxRequests /\ resizes' \in 0 .. MaxResizes /\ lost' = lost
  BY <1>1, <1>2, Bounds DEF bound_vars
<1>4. pc[m].pending = pending /\ pending \in Int /\ size \in Nat
  BY <1>1, <1>2, Numbers DEF Room
<1>5. /\ least \in Nat /\ needed \in Nat /\ headroom \in Nat /\ room \in Nat
      /\ needed >= least + pending /\ headroom - least <= room
  BY <1>2, <1>4, NeededIs
<1>. HIDE DEF least, needed, headroom, room
<1>6. CASE headroom < needed
  <2>1. new \in Nat /\ new > size /\ pending - (new - size) <= room
    BY <1>4, <1>5, <1>6
  <2>2. resize_heap(m, new, after)
    BY <1>1, <1>6
  <2>3. /\ after \in {"idle", "grew", "grow", "restart"}
        /\ after \in IF stopped THEN {"grow", "restart"}
                     ELSE IF m = Background THEN {"idle"} ELSE {"grew"}
    BY <1>2
  <2>4. heap_lock' = m /\ heap_lock = IF stopped THEN m ELSE NoOne
    BY <1>1, <1>2
  <2>5. after = "restart" => new > size /\ pending - (new - size) <= Takeable * BlockSize
    BY <2>1 DEF room
  <2>6. pc[m].at \in {"idle", "trigger", "sizer", "headroom"}
    BY <1>1
  <2>7. UNCHANGED <<block_vars, pending, size, large, policy, collected, stopped, lock, lost>>
    BY <1>1, <1>3
  <2>. HIDE DEF new, after
  <2>. QED  BY <1>2, <1>3, <2>1, <2>2, <2>3, <2>4, <2>5, <2>6, <2>7, ResizeHeapInv
<1>7. CASE ~(headroom < needed)
  <2>1. pending <= room
    BY <1>4, <1>5, <1>7
  <2>2. Goto(m, "restart")
    BY <1>1, <1>7
  <2>3. UNCHANGED <<block_vars, pending, heap_vars, lock, lost>>
    BY <1>1, <1>3, <1>7 DEF heap_vars
  <2>4. "restart" \in Labels
    BY LabelsAre
  <2>5. pending <= Takeable * BlockSize
    BY <2>1 DEF room
  <2>. QED  BY <1>1, <1>2, <1>3, <2>2, <2>3, <2>4, <2>5, GotoInv
<1>. QED  BY <1>6, <1>7

LEMMA SizerTaskInv ==
  ASSUME IInv, SizerTask
  PROVE  IInv'
<1>. DEFINE after == "idle"
<1>1. /\ pc[Background].at = "idle" /\ heap_lock = NoOne /\ heap_lock' = Background
      /\ resizes < MaxResizes /\ resizes' = resizes + 1
      /\ UNCHANGED <<block_vars, pending, size, large, policy, collected, stopped, lock, lost,
                     requests>>
  BY DEF SizerTask, TryLock
<1>2. Background \in Threads /\ NoOne \notin Mutators /\ Types /\ ~stopped
  BY <1>1, Threading DEF IInv, Owners
<1>3. requests' \in 0 .. MaxRequests /\ resizes' \in 0 .. MaxResizes
  BY <1>1, <1>2, Bounds
<1>4. PICK target \in Targets : resize_heap(Background, target, after)
  BY DEF SizerTask
<1>5. target \in Nat
  BY BudgetAssumption
<1>6. /\ after \in {"idle", "grew", "grow", "restart"} /\ after # "restart"
      /\ after \in IF stopped THEN {"grow", "restart"}
                   ELSE IF Background = Background THEN {"idle"} ELSE {"grew"}
      /\ heap_lock = IF stopped THEN Background ELSE NoOne
  BY <1>1, <1>2
<1>. HIDE DEF after
<1>. QED  BY <1>1, <1>2, <1>3, <1>4, <1>5, <1>6, ResizeHeapInv

LEMMA RestartInv ==
  ASSUME IInv, NEW m \in Mutators, Restart(m)
  PROVE  IInv'
<1>. DEFINE p == pc[m]
            q == IF p.success THEN Retry(p) ELSE Resting
<1>1. /\ p.at = "restart" /\ heap_lock' = NoOne /\ ~stopped'
      /\ lost' = (IF p.success THEN lost ELSE lost + p.want)
      /\ stopped' \in BOOLEAN
      /\ UNCHANGED <<block_vars, pending, size, large, policy, grown, collected, lock, requests,
                     resizes>>
  BY DEF Restart
<1>2. /\ m \in Threads /\ m # NoOne /\ Types /\ p \in Processes
      /\ Place(m, p, stopped) /\ heap_lock = m /\ Holds(p)
  BY <1>1, CollectorIs, Threading
<1>3. PICK content \in SUBSET {n \in Mutators \ {m} : pc[n].at = "wait"} :
        pc' = [n \in Threads |-> IF n \in content THEN Retry(pc[n])
                                 ELSE IF n # m THEN pc[n]
                                 ELSE IF p.success THEN Retry(pc[m]) ELSE Resting]
  BY DEF Restart
<1>4. p' = q
  BY <1>2, <1>3
<1>5. /\ q \in Processes /\ ~Holds(q) /\ q.at \in {"idle", "shrink"}
      /\ Place(m, q, FALSE) /\ Bytes(q, size)
      /\ q.want = IF p.success THEN p.want ELSE 0
  <2>1. CASE p.success
    BY <1>2, <2>1, RetryIs, RetryPlace
  <2>2. CASE ~p.success
    BY <2>2, RestingIs
  <2>. QED  BY <2>1, <2>2
<1>. HIDE DEF q
<1>6. /\ pc' \in [Threads -> Processes]
      /\ \A u \in Threads \ {m} : \/ pc'[u] = pc[u]
                                  \/ u \in Mutators /\ pc[u].at = "wait" /\ pc'[u] = Retry(pc[u])
  <2>1. ASSUME NEW u \in Threads, u # m
        PROVE  /\ pc'[u] \in Processes
               /\ \/ pc'[u] = pc[u]
                  \/ u \in Mutators /\ pc[u].at = "wait" /\ pc'[u] = Retry(pc[u])
    <3>1. pc[u] \in Processes
      BY <1>2 DEF Types
    <3>2. Retry(pc[u]) \in Processes
      BY <3>1, RetryIs
    <3>. QED  BY <1>3, <2>1, <3>1, <3>2
  <2>2. \A u \in Threads : pc'[u] \in Processes
    BY <1>4, <1>5, <2>1
  <2>3. pc' \in [Threads -> Processes]
    BY <1>3, <2>2
  <2>. QED  BY <2>1, <2>3
<1>7. lost' \in Nat /\ lost \in Nat /\ p.want \in Nat
  BY <1>1, <1>2, Numbers DEF Processes
<1>8. Types'
  BY <1>1, <1>2, <1>6, <1>7 DEF Types, block_vars
<1>9. Moves(m)
  BY <1>1, <1>6 DEF Moves
<1>10. Locks(m)
  BY <1>1, <1>2, <1>4, <1>5 DEF Locks
<1>11. Lands(m)
  <2>1. stopped' = FALSE
    BY <1>1
  <2>. QED  BY <1>1, <1>4, <1>5, <2>1 DEF Lands
<1>12. Active' = Active /\ Blocks' = Blocks
  BY <1>1 DEF Active, Blocks, block_vars
<1>13. Balances(m)
  <2>1. p.at \notin CallLabels \cup {"resized"} /\ size \in Int
    BY <1>1, <1>2, Numbers DEF CallLabels, ShrinkLabels, ExpandLabels
  <2>2. Fresh(p) = 0 /\ Due(p, size) = 0
    BY <1>2, <2>1, DueNone
  <2>3. Fresh(q) = 0 /\ Due(q, size) = 0
    BY <1>5, <2>1, FreeIs
  <2>4. lost' + q.want = lost + p.want
    BY <1>1, <1>5, <1>7
  <2>5. Active * BlockSize \in Int /\ pending \in Int /\ large \in Int /\ q.want \in Nat
    BY <1>2, <1>5, Numbers DEF Processes
  <2>6. PICK x \in Int : x = Active * BlockSize - pending - size + large
    BY <2>1, <2>5
  <2>7. x + lost' + q.want - 0 = x + lost + p.want - 0
    BY <1>7, <2>4, <2>5
  <2>. QED  BY <1>1, <1>4, <1>12, <2>2, <2>3, <2>6, <2>7 DEF Balances
<1>14. Guards(m)
  BY <1>1, <1>4, <1>5, <1>12 DEF Guards
<1>15. Rooms(m)
  BY <1>1 DEF Rooms
<1>. QED  BY <1>2, <1>8, <1>9, <1>10, <1>11, <1>13, <1>14, <1>15, StepInv DEF Step

\* A collection keeps as many blocks as there were.
LEMMA TraceIs ==
  ASSUME IInv, NEW kind, NEW copied \in 0 .. empty + evacuation_targets, NEW dead \in 0 .. used,
         Trace(kind, copied, dead)
  PROVE  /\ empty' \in Nat /\ evacuation_targets' \in Nat /\ used' \in Nat
         /\ Blocks' = Blocks
<1>. DEFINE spare == empty + evacuation_targets
            evacuating == kind = "compacting" /\ spare > 0
            left == IF evacuating THEN spare - copied ELSE evacuation_targets
            kept == Min({Minimum(Active), left})
            wanted == IF evacuating THEN ReserveOf(Active, 50) ELSE Minimum(Active)
            more == Min({dead, Max({0, wanted - kept})})
<1>1. /\ copied > 0 => evacuating
      /\ evacuation_targets' = kept + more
      /\ empty' = spare - copied + dead - evacuation_targets'
      /\ used' = used + copied - dead
  BY DEF Trace
<1>2. /\ empty \in Nat /\ evacuation_targets \in Nat /\ used \in Nat /\ Active \in Nat
      /\ Minimum(Active) \in Nat
  BY ActiveIs, Numbers, MinimumIs DEF IInv
<1>3. /\ spare \in Nat /\ copied \in Nat /\ copied <= spare /\ dead \in Nat /\ dead <= used
  BY <1>2
<1>4. left \in Nat /\ left <= spare - copied
  BY <1>1, <1>2, <1>3
<1>5. wanted \in Int
  <2>1. ReserveOf(Active, 50) \in Int
    BY <1>2 DEF ReserveOf, CeilDiv
  <2>. QED  BY <1>2, <2>1
<1>. HIDE DEF spare, evacuating, left, wanted
<1>6. kept \in Nat /\ kept <= left
  <2>1. kept = IF Minimum(Active) <= left THEN Minimum(Active) ELSE left
    BY <1>2, <1>4, MinIs
  <2>. QED  BY <1>2, <1>4, <2>1
<1>. HIDE DEF kept
<1>7. more \in Nat /\ more <= dead
  <2>. DEFINE lack == wanted - kept
              most == Max({0, lack})
  <2>1. lack \in Int
    BY <1>5, <1>6
  <2>2. most = IF 0 >= lack THEN 0 ELSE lack
    <3>. HIDE DEF lack
    <3>. QED  BY <2>1, MaxIs
  <2>. HIDE DEF lack
  <2>3. most \in Nat
    BY <2>1, <2>2
  <2>. HIDE DEF most
  <2>4. more = IF dead <= most THEN dead ELSE most
    BY <1>3, <2>3, MinIs DEF most, lack
  <2>. QED  BY <1>3, <2>3, <2>4
<1>. HIDE DEF more
<1>8. /\ empty' \in Nat /\ evacuation_targets' \in Nat /\ used' \in Nat
  BY <1>1, <1>2, <1>3, <1>4, <1>6, <1>7
<1>9. Blocks' = Blocks
  BY <1>1, <1>2, <1>3, <1>8 DEF Blocks, spare
<1>. QED  BY <1>8, <1>9

LEMMA CollectInv ==
  ASSUME IInv, NEW m \in Mutators, Collect(m)
  PROVE  IInv'
<1>. DEFINE p == pc[m]
<1>1. /\ p.at = "wait" /\ ~stopped /\ heap_lock = NoOne
      /\ \A n \in Mutators : pc[n].at \in {"idle", "wait"}
      /\ heap_lock' = m /\ stopped' = TRUE /\ grown' = FALSE /\ collected' = TRUE
      /\ UNCHANGED <<unavailable, nslabs, pending, size, policy, lock, bound_vars>>
  BY DEF Collect
<1>2. /\ \E live : large' = live /\ live \in 0 .. large
      /\ empty' \in Nat /\ evacuation_targets' \in Nat /\ used' \in Nat /\ Blocks' = Blocks
      /\ \E a, b \in BOOLEAN :
           pc' = [pc EXCEPT ![m] = [Call(p, "expand", large - large', "sizer") EXCEPT
                                     !.progress = a, !.success = b]]
  <2>1. PICK kind \in Kinds(m), copied \in 0 .. empty + evacuation_targets, dead \in 0 .. used,
             live \in 0 .. large, progress \in BOOLEAN :
          /\ Trace(kind, copied, dead)
          /\ AmbiguousEdges /\ ~progress => size <= MaxSize
          /\ large' = live
          /\ pc' = [pc EXCEPT ![m] = [Call(@, "expand", FreedPages(live), "sizer") EXCEPT
                                       !.progress = progress \/ ~AmbiguousEdges,
                                       !.success = progress \/ kind = "minor" \/ policy # Fixed]]
    BY Zenon DEF Collect
  <2>2. /\ empty' \in Nat /\ evacuation_targets' \in Nat /\ used' \in Nat /\ Blocks' = Blocks
    BY <2>1, TraceIs
  <2>. DEFINE a == progress \/ ~AmbiguousEdges
              b == progress \/ kind = "minor" \/ policy # Fixed
  <2>3. a \in BOOLEAN /\ b \in BOOLEAN
    OBVIOUS
  <2>4. pc' = [pc EXCEPT ![m] = [Call(p, "expand", large - large', "sizer") EXCEPT
                                  !.progress = a, !.success = b]]
    <3>. HIDE DEF a, b
    <3>1. FreedPages(live) = large - large'
      BY <2>1 DEF FreedPages
    <3>2. m \in DOMAIN pc
      BY Threading DEF IInv, Types
    <3>. QED  BY <2>1, <3>1, <3>2 DEF a, b
  <2>. HIDE DEF a, b
  <2>. QED  BY <2>1, <2>2, <2>3, <2>4
<1>3. /\ m \in Threads /\ m # Background /\ Types /\ p \in Processes /\ ~Holds(p)
      /\ Place(m, p, stopped)
  BY <1>1, RunningIs, Threading
<1>4. /\ large \in Nat /\ large' \in Nat /\ large' <= large /\ size \in Int /\ lost \in Int
      /\ pending \in Int /\ Active * BlockSize \in Int
  BY <1>2, <1>3, Numbers
<1>. DEFINE freed == large - large'
<1>5. freed \in Nat
  <2>1. PICK k \in Nat : k = large
    BY <1>4
  <2>2. PICK l \in 0 .. k : l = large'
    BY <1>2, <2>1
  <2>3. k - l \in Nat
    OBVIOUS
  <2>. QED  BY <2>1, <2>2, <2>3
<1>6. PICK a, b \in BOOLEAN :
        pc' = [pc EXCEPT ![m] = [Call(p, "expand", freed, "sizer") EXCEPT
                                  !.progress = a, !.success = b]]
  BY <1>2
<1>. DEFINE c == Call(p, "expand", freed, "sizer")
            d == [c EXCEPT !.progress = a]
            q == [d EXCEPT !.success = b]
<1>7. a \in BOOLEAN /\ b \in BOOLEAN
  OBVIOUS
<1>8. pc' = [pc EXCEPT ![m] = q]
  BY <1>6
<1>9. p.next = "idle" /\ ~Resizes(p) /\ p.after = "idle" /\ Fresh(p) = 0 /\ Due(p, size) = 0
  <2>1. p.at \notin CallLabels \cup {"resized"}
    BY <1>1 DEF CallLabels, ShrinkLabels, ExpandLabels
  <2>. QED  BY <1>3, <1>4, <2>1, DueNone
<1>. HIDE DEF freed
<1>10. /\ q \in Processes /\ q.at = "expand" /\ q.bytes = freed /\ q.next = "sizer"
       /\ q.after = "idle" /\ q.want = p.want
  <2>1. /\ c \in Processes /\ c.at = "expand" /\ c.bytes = freed /\ c.next = "sizer"
        /\ c.after = "idle" /\ c.want = p.want
    <3>1. "expand" \in Labels
      BY LabelsAre DEF ExpandLabels
    <3>. QED  BY <1>3, <1>5, <1>9, <3>1, CallIs
  <2>. HIDE DEF c
  <2>2. /\ d \in Processes /\ d.at = "expand" /\ d.bytes = freed /\ d.next = "sizer"
        /\ d.after = "idle" /\ d.want = p.want
    BY <1>7, <2>1 DEF Processes
  <2>. HIDE DEF d
  <2>. QED  BY <1>7, <2>2 DEF Processes
<1>. HIDE DEF q
<1>11. Only(m) /\ p' = q
  BY <1>3, <1>8, <1>10, OnlyIs
<1>12. Types'
  BY <1>1, <1>2, <1>3, <1>4, <1>11 DEF Types, Only, bound_vars
<1>13. Returns(q) /\ ~Resizes(q) /\ Collects(q) /\ Holds(q)
  BY <1>10 DEF Returns, Resizes, Collects, Holds, CallLabels, ShrinkLabels, ExpandLabels
<1>14. Place(m, q, TRUE) /\ Bytes(q, size)
  <2>1. Place(m, q, TRUE)
    BY <1>3, <1>10, <1>13 DEF Place
  <2>2. Bytes(q, size)
    BY <1>10 DEF Bytes
  <2>. QED  BY <2>1, <2>2
<1>15. \A u \in Threads : pc[u].at \in {"idle", "wait"}
  <2>. DEFINE r == pc[Background]
  <2>1. Background \in Threads /\ NoOne \notin Threads
    BY Threading
  <2>2. Place(Background, r, stopped) /\ ~Holds(r)
    BY <1>1, <2>1, ThreadIs
  <2>3. r.at = "idle"
    <3>1. r.at \in CallLabels => r.next = "resized"
      BY <2>2 DEF Place, Returns, CallLabels, ShrinkLabels, ExpandLabels
    <3>. QED  BY <2>2, <3>1 DEF Place, Holds, Resizes
  <2>. QED  BY <1>1, <2>3, Threading
<1>16. Moves(m)
  BY <1>11 DEF Moves, Only
<1>17. Locks(m)
  BY <1>1, <1>11, <1>13, <1>15 DEF Locks
<1>18. Lands(m)
  BY <1>1, <1>11, <1>14 DEF Lands
<1>19. Balances(m)
  <2>1. Active' = Active
    BY <1>1 DEF Active
  <2>2. Fresh(q) = 0 /\ Due(q, size) = -freed
    BY <1>4, <1>10, DueIs
  <2>3. p.want \in Int
    BY <1>3 DEF Processes
  <2>4. PICK x \in Int : x = Active * BlockSize - pending - size
    BY <1>4
  <2>5. x + large' + lost + p.want - (-freed) = x + large + lost + p.want - 0
    BY <1>4, <2>3 DEF freed
  <2>. QED  BY <1>1, <1>2, <1>9, <1>10, <1>11, <2>1, <2>2, <2>4, <2>5 DEF Balances, bound_vars
<1>20. Guards(m)
  BY <1>1, <1>10, <1>11 DEF Guards
<1>21. Rooms(m)
  <2>1. Room(p)'
    BY <1>10, <1>11 DEF Room, HeldLabels
  <2>. QED  BY <2>1 DEF Rooms
<1>. QED  BY <1>3, <1>12, <1>16, <1>17, <1>18, <1>19, <1>20, <1>21, StepInv DEF Step

--------------------------------------------------------------------------------
\* The initial state.

\* Nobody asks for anything: the sum is nothing.
LEMMA AskedNone ==
  ASSUME NEW p, \A n \in Mutators : p[n].want = 0
  PROVE  Asked(p) = 0
<1>1. PICK g : Sums(p, g) /\ Asked(p) = g[Mutators]
  BY AskedSums
<1>. DEFINE Bad == {Cardinality(s) : s \in {r \in SUBSET Mutators : g[r] # 0}}
<1>2. SUFFICES ASSUME Bad # {} PROVE FALSE
  <2>1. ~\E s \in SUBSET Mutators : g[s] # 0
    BY <1>2
  <2>. QED  BY <1>1, <2>1
<1>3. Bad \in SUBSET Nat
  BY NoRest
<1>4. PICK n \in Bad : \A k \in Bad : n <= k
  BY <1>2, <1>3, Least
<1>5. PICK s \in SUBSET Mutators : g[s] # 0 /\ n = Cardinality(s)
  BY <1>4
<1>6. g[s] = Sum(p, s, g)
  BY <1>1 DEF Sums
<1>7. s # {}
  BY <1>5, <1>6 DEF Sum
<1>. DEFINE x == Pick(s)
            r == s \ {x}
<1>8. /\ r \in SUBSET Mutators /\ x \in Mutators
      /\ Cardinality(r) < n /\ Cardinality(r) \in Nat /\ n \in Nat
  BY <1>5, <1>7, Rest, PickIn, NoRest
<1>9. g[r] = 0
  <2>1. ~(Cardinality(r) \in Bad)
    BY <1>4, <1>8
  <2>. QED  BY <1>8, <2>1
<1>10. g[s] = p[x].want + g[r]
  BY <1>6, <1>7 DEF Sum
<1>11. p[x].want = 0
  BY <1>8
<1>12. g[s] = 0
  <2>. HIDE DEF x, r
  <2>. QED  BY <1>9, <1>10, <1>11
<1>. QED  BY <1>5, <1>12

\* What is asked for is a number.
LEMMA AskedIs ==
  ASSUME IInv
  PROVE  Asked(pc) \in Int
<1>1. Wanted(pc)
  BY Threading DEF IInv, Types, Processes, Wanted
<1>2. Keeps(pc, pc, Background)
  BY DEF Keeps
<1>. QED  BY <1>1, <1>2, AskedChange

LEMMA InitIInv ==
  ASSUME Init
  PROVE  IInv
<1>1. /\ nslabs = InitialSlabs /\ unavailable = InitiallyOut
      /\ evacuation_targets = Minimum(InitiallyActive)
      /\ empty = InitiallyActive - evacuation_targets
      /\ used = 0 /\ pending = 0 /\ size = InitialSize /\ large = 0
      /\ policy \in Policies /\ grown = TRUE /\ collected = FALSE
      /\ heap_lock = NoOne /\ lock = NoOne /\ stopped = FALSE
      /\ pc = [t \in Threads |-> Resting]
      /\ lost = 0 /\ requests = 0 /\ resizes = 0
  BY DEF Init
<1>2. /\ InitialSlabs \in Nat /\ InitiallyOut \in Nat /\ InitiallyActive \in Nat
      /\ InitiallyActive = InitialSlabs * (SlabBlocks - MetaBlocks) - InitiallyOut
      /\ Minimum(InitiallyActive) \in Nat /\ Minimum(InitiallyActive) <= InitiallyActive
  BY InitialBlocks, MinimumIs
<1>3. \A t \in Threads : pc[t] = Resting
  BY <1>1
<1>4. Types
  <2>1. pc \in [Threads -> Processes]
    BY <1>1, RestingIs
  <2>2. empty \in Nat /\ InitialSize \in Nat /\ MaxRequests \in Nat /\ MaxResizes \in Nat
    BY <1>1, <1>2, BudgetAssumption
  <2>3. 0 \in 0 .. MaxRequests /\ 0 \in 0 .. MaxResizes
    BY <2>2
  <2>4. {empty, evacuation_targets, used, unavailable, nslabs, size, large, lost} \subseteq Nat
    BY <1>1, <1>2, <2>2
  <2>5. requests \in 0 .. MaxRequests /\ resizes \in 0 .. MaxResizes
    BY <1>1, <2>3
  <2>6. pending \in Int
    BY <1>1
  <2>7. heap_lock \in Threads \cup {NoOne} /\ lock \in Threads \cup {NoOne}
    BY <1>1
  <2>8. grown \in BOOLEAN /\ collected \in BOOLEAN /\ stopped \in BOOLEAN
    BY <1>1
  <2>. QED  BY <1>1, <2>1, <2>4, <2>5, <2>6, <2>7, <2>8 DEF Types
<1>5. Places
  BY <1>3, RestingIs DEF Places
<1>6. Owners
  BY <1>1, <1>3, RestingIs, Threading DEF Owners
<1>7. Active = InitiallyActive
  BY <1>1, <1>2 DEF Active
<1>8. Lists
  BY <1>1, <1>2, <1>7 DEF Lists, Blocks, Unlisted
<1>9. Debt
  <2>1. \A n \in Mutators : pc[n].want = 0
    BY <1>3, RestingIs, Threading
  <2>2. Asked(pc) = 0
    BY <2>1, AskedNone
  <2>3. PICK x, i \in Int : x = InitiallyActive * BlockSize /\ i = InitialSize
    BY <1>2, Threading, BudgetAssumption
  <2>4. x - 0 = i - i + x - 0 - 0 - 0 + 0
    BY <2>3
  <2>. QED  BY <1>1, <1>7, <2>2, <2>3, <2>4 DEF Debt, Outstanding
<1>10. Reserve
  BY <1>3, RestingIs DEF Reserve
<1>11. RoomInv
  BY <1>1 DEF RoomInv
<1>. QED  BY <1>4, <1>5, <1>6, <1>8, <1>9, <1>10, <1>11 DEF IInv

LEMMA StutterInv ==
  ASSUME IInv, UNCHANGED vars
  PROVE  IInv'
<1>1. /\ Types /\ Places /\ Owners /\ Lists /\ Debt /\ Reserve /\ RoomInv
  BY DEF IInv
<1>2. UNCHANGED <<block_vars, pending, heap_vars, lock, pc, bound_vars>>
  BY DEF vars
<1>3. Types'
  BY <1>1, <1>2 DEF Types, block_vars, heap_vars, bound_vars
<1>4. Places' /\ Owners'
  BY <1>1, <1>2 DEF Places, Owners, heap_vars
<1>5. Active' = Active /\ Blocks' = Blocks /\ Takeable' = Takeable
  BY <1>2 DEF Active, Blocks, Takeable, Minimum, block_vars
<1>6. Lists' /\ Debt'
  BY <1>1, <1>2, <1>5 DEF Lists, Unlisted, Debt, Outstanding, heap_vars, bound_vars
<1>7. Reserve'
  BY <1>1, <1>2, <1>5 DEF Reserve
<1>8. NotOwed' <=> NotOwed
  BY <1>2 DEF NotOwed, block_vars
<1>9. RoomInv'
  BY <1>1, <1>2, <1>5, <1>8 DEF RoomInv, Room, block_vars, heap_vars
<1>. QED  BY <1>3, <1>4, <1>6, <1>7, <1>9 DEF IInv

--------------------------------------------------------------------------------
\* The theorems.

LEMMA NextInv ==
  ASSUME IInv, [Next]_vars
  PROVE  IInv'
<1>1. CASE UNCHANGED vars
  BY <1>1, StutterInv
<1>2. ASSUME NEW t \in Threads, Resize(t)
      PROVE  IInv'
  <2>1. CASE RequestRelease(t)
    BY <2>1, RequestReleaseInv
  <2>2. CASE ShrinkEmpties(t)
    BY <2>2, ShrinkEmptiesInv
  <2>3. CASE ShrinkTargets(t)
    BY <2>3, ShrinkTargetsInv
  <2>4. CASE Expand(t)
    BY <2>4, ExpandInv
  <2>5. CASE Reacquire(t)
    BY <2>5, ReacquireInv
  <2>6. CASE AddSlabs(t)
    BY <2>6, AddSlabsInv
  <2>7. CASE PushSlabs(t)
    BY <2>7, PushSlabsInv
  <2>8. CASE Resized(t)
    BY <2>8, ResizedInv
  <2>. QED  BY <1>2, <2>1, <2>2, <2>3, <2>4, <2>5, <2>6, <2>7, <2>8 DEF Resize
<1>3. ASSUME NEW m \in Mutators, Begin(m)
      PROVE  IInv'
  <2>1. CASE AllocateSmall(m)
    BY <2>1, AllocateSmallInv
  <2>2. CASE \E n \in Requests : allocate_large(m, n)
    BY <2>2, AllocateLargeInv
  <2>3. CASE gc_collect(m)
    BY <2>3, GcCollectInv
  <2>. QED  BY <1>3, <2>1, <2>2, <2>3 DEF Begin
<1>4. ASSUME NEW m \in Mutators, Proceed(m)
      PROVE  IInv'
  <2>1. CASE Resize(m)
    BY <1>2, <2>1, Threading
  <2>2. CASE Large(m)
    BY <2>2, LargeInv
  <2>3. CASE MaybeGrow(m)
    BY <2>3, MaybeGrowInv
  <2>4. CASE Grew(m)
    BY <2>4, GrewInv
  <2>5. CASE SizerOnGC(m)
    BY <2>5, SizerOnGCInv
  <2>6. CASE GrowHeap(m)
    BY <2>6, GrowHeapInv
  <2>7. CASE Headroom(m)
    BY <2>7, HeadroomInv
  <2>8. CASE Restart(m)
    BY <2>8, RestartInv
  <2>. QED  BY <1>4, <2>1, <2>2, <2>3, <2>4, <2>5, <2>6, <2>7, <2>8 DEF Proceed
<1>5. CASE SizerTask
  BY <1>5, SizerTaskInv
<1>6. ASSUME NEW m \in Mutators, Collect(m)
      PROVE  IInv'
  BY <1>6, CollectInv
<1>. QED  BY <1>1, <1>2, <1>3, <1>4, <1>5, <1>6, Threading DEF Next

\* The invariant is one: every thread is where it can be, the heap's lock is held by
\* the one that resizes or collects, and the accounts are right at each of its steps.
THEOREM InvariantHolds == Spec => []IInv
<1>1. Init => IInv
  BY InitIInv
<1>2. IInv /\ [Next]_vars => IInv'
  BY NextInv
<1>. QED  BY <1>1, <1>2, PTL DEF Spec

\* Whenever nobody holds the heap's lock, the blocks that can be used less the debt
\* are what the size of the heap leaves beside the large objects, whatever the
\* mutators, the collections and the heap sizers did (pending_unavailable_bytes).
THEOREM BudgetKept == Spec => []Budget
<1>1. IInv => Budget
  <2>. SUFFICES ASSUME IInv PROVE Budget
    OBVIOUS
  <2>1. Types /\ Debt
    BY DEF IInv
  <2>2. TypeOK
    BY <2>1 DEF Types, TypeOK, Processes
  <2>3. ASSUME heap_lock = NoOne
        PROVE  Active * BlockSize - pending
                 = size - InitialSize + InitiallyActive * BlockSize - large - Asked(pc) - lost
    <3>1. Active * BlockSize - pending
            = size - InitialSize + InitiallyActive * BlockSize - large - Asked(pc) - lost + 0
      BY <2>1, <2>3 DEF Debt, Outstanding
    <3>2. size \in Int /\ large \in Int /\ lost \in Int /\ InitialSize \in Int
      BY <2>1, Numbers, BudgetAssumption
    <3>3. Asked(pc) \in Int
      BY AskedIs
    <3>4. InitiallyActive * BlockSize \in Int
      BY InitialBlocks, Threading
    <3>5. PICK x \in Int :
            x = size - InitialSize + InitiallyActive * BlockSize - large - Asked(pc) - lost
      BY <3>2, <3>3, <3>4
    <3>. QED  BY <3>1, <3>5
  <2>. QED  BY <2>2, <2>3 DEF Budget
<1>. QED  BY <1>1, InvariantHolds, PTL

\* Shrinking leaves the reserve its minimum: what it decided to keep under the lock
\* of the space is enough still when it takes a block, since only those who hold the
\* lock, or stop the mutators, change the number of blocks (nofl_space_shrink).
THEOREM ReserveIsKept == Spec => ReserveKept
<1>1. ASSUME IInv, Next, stopped' = stopped, evacuation_targets' < evacuation_targets
      PROVE  evacuation_targets' >= Minimum(empty' + evacuation_targets' + used')
  <2>1. Types
    BY <1>1 DEF IInv
  <2>2. evacuation_targets \in Nat /\ empty \in Nat /\ used \in Nat
    BY <2>1, Numbers
  <2>3. evacuation_targets' # evacuation_targets
    BY <1>1, <2>2
  <2>4. ASSUME NEW t \in Threads, ShrinkTargets(t)
        PROVE  evacuation_targets' >= Minimum(empty' + evacuation_targets' + used')
    <3>1. /\ pc[t].at = "targets" /\ evacuation_targets > pc[t].keep
          /\ evacuation_targets' = evacuation_targets - 1 /\ empty' = empty /\ used' = used
      BY <2>3, <2>4 DEF ShrinkTargets, SpareTarget
    <3>2. pc[t] \in Processes /\ pc[t].keep >= Minimum(Blocks)
      BY <1>1, <3>1, ThreadIs
    <3>3. IInv'
      BY <1>1, NextInv
    <3>4. Types'
      BY <3>3 DEF IInv
    <3>5. evacuation_targets' \in Nat
      BY <3>4 DEF Types
    <3>6. PICK b, c \in Nat : b = Blocks /\ c = empty' + evacuation_targets' + used' /\ c <= b
      BY <2>2, <3>1, <3>5 DEF Blocks
    <3>7. Minimum(c) <= Minimum(b) /\ Minimum(c) \in Nat /\ Minimum(b) \in Nat
      BY <3>6, MinimumMonotone, MinimumIs
    <3>8. evacuation_targets' >= Minimum(c)
      <4>1. PICK k \in Int : k = pc[t].keep
        BY <3>2 DEF Processes
      <4>2. k >= Minimum(b) /\ evacuation_targets - 1 >= k
        BY <2>2, <3>1, <3>2, <3>6, <4>1
      <4>. QED  BY <2>2, <3>1, <3>7, <4>1, <4>2
    <3>. QED  BY <3>6, <3>8
  <2>5. ASSUME NEW t \in Threads, Reacquire(t)
        PROVE  FALSE
    <3>1. evacuation_targets' = evacuation_targets + 1
      BY <2>3, <2>5 DEF Reacquire, PushAvailable
    <3>. QED  BY <1>1, <2>2, <3>1
  <2>6. ASSUME NEW m \in Mutators, Collect(m)
        PROVE  FALSE
    BY <1>1, <2>6 DEF Collect
  <2>7. ASSUME NEW t \in Threads, Resize(t)
        PROVE  ShrinkTargets(t) \/ Reacquire(t)
    BY <2>3, <2>7 DEF Resize, RequestRelease, ShrinkEmpties, Expand, AddSlabs, PushSlabs, Resized,
                      block_vars
  <2>8. ASSUME NEW m \in Mutators, Begin(m)
        PROVE  FALSE
    BY <2>3, <2>8 DEF Begin, AllocateSmall, allocate_large, gc_collect, block_vars
  <2>9. ASSUME NEW m \in Mutators, Proceed(m)
        PROVE  Resize(m)
    BY <2>3, <2>9 DEF Proceed, Large, MaybeGrow, Grew, SizerOnGC, GrowHeap, Headroom, Restart,
                      block_vars
  <2>10. ~SizerTask
    BY <2>3 DEF SizerTask, block_vars
  <2>11. PICK t \in Threads : Resize(t)
    BY <1>1, <2>6, <2>8, <2>9, <2>10, Threading DEF Next
  <2>. QED  BY <2>4, <2>5, <2>7, <2>11
<1>2. IInv /\ [Next]_vars =>
        [stopped' = stopped /\ evacuation_targets' < evacuation_targets =>
           evacuation_targets' >= Minimum(empty' + evacuation_targets' + used')]_vars
  BY <1>1
<1>. QED  BY <1>2, InvariantHolds, PTL DEF Spec, ReserveKept

\* When the mutators restart in a heap that may grow, the blocks that can be taken
\* pay the debt; and in any heap no block stays unavailable that the size allows for
\* (grow_heap_if_necessary).
THEOREM RestartsWithRoom == Spec => []RoomToRestart
<1>1. IInv => RoomToRestart
  <2>. SUFFICES ASSUME IInv, NEW m \in Mutators, pc[m].at = "restart"
                PROVE  /\ policy # Fixed => pending <= Takeable * BlockSize
                       /\ unavailable > 0 => pending > -BlockSize
    BY DEF RoomToRestart
  <2>1. Room(pc[m]) /\ NotOwed
    BY CollectorIs
  <2>. QED  BY <2>1 DEF Room, NotOwed
<1>. QED  BY <1>1, InvariantHolds, PTL

================================================================================
