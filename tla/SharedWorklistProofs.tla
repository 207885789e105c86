------------------------ MODULE SharedWorklistProofs ------------------------
(***************************************************************************)
(* The shared worklist proved for any number of thieves, any buffer sizes  *)
(* and any length of run: what goes in comes out once, in the order of a   *)
(* deque, and an answer of null tells the truth.                           *)
(***************************************************************************)
EXTENDS SharedWorklist, SequenceTheorems, TLAPS

\* What a view holds for index i: in buffer k, and in the active one.
Slot(v, k, i) == shared_worklist_buf_get(v, k, i)
Ref(v, i) == Slot(v, v.active, i)

--------------------------------------------------------------------------------
\* Division with a remainder.
LEMMA DivMod ==
  ASSUME NEW a \in Int, NEW m \in Nat \ {0}
  PROVE  /\ a \div m \in Int
         /\ a % m \in 0 .. m - 1
         /\ a = m * (a \div m) + (a % m)
OBVIOUS

\* The remainder is the only one there is.
LEMMA ModIs ==
  ASSUME NEW a \in Int, NEW m \in Nat \ {0}, NEW q \in Int, NEW r \in 0 .. m - 1,
         a = m * q + r
  PROVE  a % m = r
<1>. DEFINE p == a \div m
            s == a % m
<1>1. p \in Int /\ s \in 0 .. m - 1 /\ a = m * p + s
  BY DivMod
<1>. HIDE DEF p, s
<1>2. m * (p - q) = r - s
  BY <1>1
<1>3. CASE p - q > 0
  <2>1. m * (p - q) >= m
    BY <1>1, <1>3
  <2>. QED  BY <1>1, <1>2, <2>1
<1>4. CASE p - q < 0
  <2>1. m * (p - q) <= -m
    BY <1>1, <1>4
  <2>. QED  BY <1>1, <1>2, <2>1
<1>5. CASE p - q = 0
  BY <1>1, <1>2, <1>5
<1>6. r = s
  BY <1>1, <1>3, <1>4, <1>5
<1>. QED  BY <1>6 DEF s

\* Taking a remainder first does not change the remainder of a difference.
LEMMA ModMinus ==
  ASSUME NEW i \in Int, NEW b \in Int, NEW m \in Nat \ {0}
  PROVE  ((i % m) - b) % m = (i - b) % m
<1>. DEFINE q == i \div m
            x == i % m
            p == (x - b) \div m
            y == (x - b) % m
<1>1. q \in Int /\ x \in 0 .. m - 1 /\ i = m * q + x
  BY DivMod
<1>2. p \in Int /\ y \in 0 .. m - 1 /\ x - b = m * p + y
  <2>. HIDE DEF x
  <2>. QED  BY <1>1, DivMod
<1>. HIDE DEF q, x, p, y
<1>3. i - b = m * (q + p) + y
  BY <1>1, <1>2
<1>4. (i - b) % m = y
  BY <1>1, <1>2, <1>3, ModIs
<1>. QED  BY <1>4 DEF x, y

--------------------------------------------------------------------------------
\* What the deque's memory can be.
Word == Refs \cup {Null}
Buffer(k) == [0 .. BufSize(k) - 1 -> Word]
Cells == {c \in [Bufs -> UNION {Buffer(k) : k \in Bufs}] :
            \A k \in Bufs : c[k] \in Buffer(k)}
Views == [bottom : Int, active : Bufs, pushed : 0 .. MaxPush, cells : Cells]

LEMMA SlotType ==
  ASSUME NEW v \in Views, NEW k \in Bufs, NEW i \in Int
  PROVE  Slot(v, k, i) \in Word
<1>1. BufSize(k) \in Nat \ {0}
  BY WorklistAssumption
<1>2. i % BufSize(k) \in 0 .. BufSize(k) - 1
  BY <1>1, DivMod
<1>3. v.cells[k] \in Buffer(k)
  BY DEF Views, Cells
<1>. QED  BY <1>2, <1>3 DEF Buffer, Slot, shared_worklist_buf_get

\* Changing the active buffer, and one buffer, of a view.
WithCells(v, a, k, c) == [v EXCEPT !.active = a, !.cells[k] = c]

LEMMA CellsExcept ==
  ASSUME NEW v \in Views, NEW a \in Bufs, NEW k \in Bufs,
         NEW c \in Buffer(k)
  PROVE  /\ WithCells(v, a, k, c) \in Views
         /\ WithCells(v, a, k, c).bottom = v.bottom
         /\ WithCells(v, a, k, c).pushed = v.pushed
         /\ WithCells(v, a, k, c).active = a
         /\ \A i \in Int : Slot(WithCells(v, a, k, c), k, i) = c[i % BufSize(k)]
         /\ \A j \in Bufs \ {k}, i \in Int :
              Slot(WithCells(v, a, k, c), j, i) = Slot(v, j, i)
<1>. DEFINE d == [v.cells EXCEPT ![k] = c]
            w == WithCells(v, a, k, c)
<1>1. v.cells \in Cells
  BY DEF Views
<1>2. d \in Cells /\ d[k] = c /\ \A j \in Bufs \ {k} : d[j] = v.cells[j]
  BY <1>1 DEF Cells
<1>3. w = [v EXCEPT !.active = a, !.cells = d]
  BY DEF Views, WithCells
<1>. HIDE DEF d, w
<1>4. /\ w \in Views /\ w.bottom = v.bottom /\ w.pushed = v.pushed /\ w.active = a
      /\ \A i \in Int : Slot(w, k, i) = c[i % BufSize(k)]
      /\ \A j \in Bufs \ {k}, i \in Int : Slot(w, j, i) = Slot(v, j, i)
  BY <1>2, <1>3 DEF Views, Slot, shared_worklist_buf_get
<1>. QED  BY <1>4 DEF w

\* Storing bottom, with or without a count of references.
WithBottom(v, b, p) == [v EXCEPT !.bottom = b, !.pushed = p]

LEMMA BottomStored ==
  ASSUME NEW v \in Views, NEW b \in Int, NEW p \in 0 .. MaxPush
  PROVE  /\ WithBottom(v, b, p) \in Views
         /\ WithBottom(v, b, p).bottom = b
         /\ WithBottom(v, b, p).pushed = p
         /\ WithBottom(v, b, p).active = v.active
         /\ \A k, i : Slot(WithBottom(v, b, p), k, i) = Slot(v, k, i)
BY DEF WithBottom, Views, Slot, shared_worklist_buf_get

\* What push stores: n references from bottom on, as long as they fit, next to
\* what is already there.
LEMMA BufPut ==
  ASSUME NEW v \in Views, NEW n \in Nat, v.pushed + n <= MaxPush,
         NEW t \in Int, v.bottom - t <= BufSize(v.active) - n
  PROVE  LET w == shared_worklist_buf_put(v, n)
         IN  /\ w \in Views
             /\ w.bottom = v.bottom /\ w.pushed = v.pushed /\ w.active = v.active
             /\ \A k \in Bufs, i \in t .. v.bottom - 1 : Slot(w, k, i) = Slot(v, k, i)
             /\ t <= v.bottom =>
                  \A j \in 0 .. n - 1 : Ref(w, v.bottom + j) = v.pushed + j + 1
<1>. DEFINE a == v.active
            m == BufSize(a)
            b == v.bottom
            c == [x \in 0 .. m - 1 |->
                    IF (x - b) % m < n THEN v.pushed + ((x - b) % m) + 1
                    ELSE v.cells[a][x]]
            w == shared_worklist_buf_put(v, n)
<1>1. a \in Bufs /\ b \in Int /\ v.pushed \in Nat /\ m \in Nat \ {0} /\ MaxPush \in Nat
  BY WorklistAssumption DEF Views
<1>2. v.cells[a] \in Buffer(a)
  BY DEF Views, Cells
<1>3. c \in Buffer(a)
  <2>. SUFFICES ASSUME NEW x \in 0 .. m - 1, (x - b) % m < n
                PROVE  v.pushed + ((x - b) % m) + 1 \in Refs
    BY <1>2 DEF Buffer, Word
  <2>. HIDE DEF b, m
  <2>1. (x - b) % m \in 0 .. m - 1
    BY <1>1, DivMod
  <2>. QED  BY <1>1, <2>1 DEF Refs
<1>4. w = WithCells(v, a, a, c)
  BY DEF shared_worklist_buf_put, Views, WithCells
<1>5. /\ w \in Views /\ w.bottom = b /\ w.pushed = v.pushed /\ w.active = a
      /\ \A i \in Int : Slot(w, a, i) = c[i % m]
      /\ \A k \in Bufs \ {a}, i \in Int : Slot(w, k, i) = Slot(v, k, i)
  <2>. HIDE DEF a, c, w
  <2>. DEFINE u == WithCells(v, a, a, c)
  <2>1. /\ u \in Views /\ u.bottom = b /\ u.pushed = v.pushed /\ u.active = a
        /\ \A i \in Int : Slot(u, a, i) = c[i % m]
        /\ \A k \in Bufs \ {a}, i \in Int : Slot(u, k, i) = Slot(v, k, i)
    BY <1>1, <1>3, CellsExcept
  <2>. QED  BY <1>4, <2>1
<1>6. ASSUME NEW i \in Int
      PROVE  Slot(w, a, i) = IF (i - b) % m < n THEN v.pushed + ((i - b) % m) + 1
                             ELSE Slot(v, a, i)
  <2>1. i % m \in 0 .. m - 1
    BY <1>1, DivMod
  <2>2. ((i % m) - b) % m = (i - b) % m
    BY <1>1, ModMinus
  <2>3. Slot(v, a, i) = v.cells[a][i % m]
    BY DEF Slot, shared_worklist_buf_get
  <2>. HIDE DEF w, m, b, a
  <2>. QED  BY <1>5, <2>1, <2>2, <2>3
<1>. HIDE DEF a, m, b, c, w
<1>7. ASSUME NEW k \in Bufs, NEW i \in t .. b - 1
      PROVE  Slot(w, k, i) = Slot(v, k, i)
  <2>1. i - b + m \in 0 .. m - 1 /\ i - b + m >= n /\ i - b = m * (-1) + (i - b + m)
    BY <1>1 DEF m, b, a
  <2>2. i - b \in Int /\ -1 \in Int
    BY <1>1
  <2>3. (i - b) % m = i - b + m
    BY <1>1, <2>1, <2>2, ModIs
  <2>. QED  BY <1>1, <1>5, <1>6, <2>1, <2>3
<1>8. ASSUME t <= b, NEW j \in 0 .. n - 1
      PROVE  Slot(w, a, b + j) = v.pushed + j + 1
  <2>1. j \in 0 .. m - 1 /\ (b + j) - b = m * 0 + j
    BY <1>1, <1>8 DEF m, b, a
  <2>2. ((b + j) - b) % m = j
    BY <1>1, <2>1, ModIs
  <2>. QED  BY <1>1, <1>6, <2>2
<1>. QED  BY <1>1, <1>5, <1>7, <1>8 DEF a, b, w, Ref

\* What a thief may rely on from view v to view w, for an index below b: the
\* reference stays, and a buffer that holds it goes on to hold it.
Keeps(v, w, t, b) ==
  \A i \in t .. b - 1 :
    /\ Ref(w, i) = Ref(v, i)
    /\ \A k \in Bufs : Slot(v, k, i) = Ref(v, i) => Slot(w, k, i) = Ref(w, i)

\* The next buffer gets what is in the deque.
LEMMA Grow ==
  ASSUME NEW v \in Views, NEW k \in Bufs, k # v.active,
         NEW t \in Int, v.bottom - t <= BufSize(k)
  PROVE  LET w == shared_worklist_grow(v, t, k)
         IN  /\ w \in Views
             /\ w.bottom = v.bottom /\ w.pushed = v.pushed /\ w.active = k
             /\ Keeps(v, w, t, v.bottom)
<1>. DEFINE m == BufSize(k)
            b == v.bottom
            a == v.active
            Index(x) == t + ((x - t) % m)
            c == [x \in 0 .. m - 1 |-> IF Index(x) < b THEN Slot(v, a, Index(x))
                                       ELSE v.cells[k][x]]
            w == shared_worklist_grow(v, t, k)
<1>1. a \in Bufs /\ b \in Int /\ m \in Nat \ {0}
  BY WorklistAssumption DEF Views
<1>2. v.cells[k] \in Buffer(k)
  BY DEF Views, Cells
<1>3. c \in Buffer(k)
  <2>1. ASSUME NEW x \in 0 .. m - 1
        PROVE  Slot(v, a, Index(x)) \in Word
    <3>. HIDE DEF m
    <3>1. x - t \in Int
      BY <1>1
    <3>2. Index(x) \in Int
      BY <1>1, <3>1, DivMod
    <3>. HIDE DEF Index
    <3>. QED  BY <1>1, <3>2, SlotType
  <2>2. ASSUME NEW x \in 0 .. m - 1
        PROVE  v.cells[k][x] \in Word
    BY <1>2 DEF Buffer
  <2>. HIDE DEF Index
  <2>. QED  BY <2>1, <2>2 DEF Buffer
<1>4. w = WithCells(v, k, k, c)
  BY DEF shared_worklist_grow, Views, WithCells, Slot
<1>5. /\ w \in Views /\ w.bottom = b /\ w.pushed = v.pushed /\ w.active = k
      /\ \A i \in Int : Slot(w, k, i) = c[i % m]
      /\ \A j \in Bufs \ {k}, i \in Int : Slot(w, j, i) = Slot(v, j, i)
  <2>. HIDE DEF c, w
  <2>. DEFINE u == WithCells(v, k, k, c)
  <2>1. /\ u \in Views /\ u.bottom = b /\ u.pushed = v.pushed /\ u.active = k
        /\ \A i \in Int : Slot(u, k, i) = c[i % m]
        /\ \A j \in Bufs \ {k}, i \in Int : Slot(u, j, i) = Slot(v, j, i)
    BY <1>3, CellsExcept
  <2>. QED  BY <1>4, <2>1
<1>6. ASSUME NEW i \in t .. b - 1
      PROVE  Slot(w, k, i) = Ref(v, i)
  <2>. HIDE DEF m, w
  <2>1. i \in Int /\ i % m \in 0 .. m - 1
    BY <1>1, DivMod
  <2>2. ((i % m) - t) % m = (i - t) % m
    BY <1>1, <2>1, ModMinus
  <2>3. i - t \in Int /\ i - t \in 0 .. m - 1 /\ i - t = m * 0 + (i - t)
    BY <1>1 DEF m
  <2>4. (i - t) % m = i - t
    BY <1>1, <2>3, ModIs
  <2>5. Index(i % m) = i
    BY <1>1, <2>1, <2>2, <2>4
  <2>6. c[i % m] = Slot(v, a, i)
    <3>. HIDE DEF Index, a
    <3>. QED  BY <1>1, <2>1, <2>5
  <2>. HIDE DEF c, a
  <2>. QED  BY <1>5, <2>1, <2>6 DEF Ref, a
<1>. HIDE DEF m, b, a, c, w
<1>. QED  BY <1>1, <1>5, <1>6 DEF Keeps, Ref, b, w

\* The stores of a push, from the owner's view v on.  (The owner's own top may be
\* old; t is the one it loaded.)
Pushes(v, new, count, t) ==
  LET p == Len(new)
      b == v.bottom
  IN  /\ new \in Seq(Views) /\ p > 0
      /\ \A n \in 1 .. p - 1 : new[n].bottom = b /\ new[n].pushed = v.pushed
      /\ new[p].bottom = b + count /\ new[p].pushed = v.pushed + count
      /\ \A j \in 1 .. count : Ref(new[p], b + j - 1) = v.pushed + j
      /\ \A n \in 1 .. p : Keeps(v, new[n], t, b)
      /\ \A m, n \in 1 .. p : m < n => Keeps(new[m], new[n], t, b)

\* Without growth.
LEMMA Stores ==
  ASSUME NEW v \in Views, NEW count \in Nat \ {0}, v.pushed + count <= MaxPush,
         NEW t \in Int, t <= v.bottom, v.bottom - t <= BufSize(v.active) - count
  PROVE  LET new == PushStores(v, count)
         IN  /\ Pushes(v, new, count, t)
             /\ \A n \in 1 .. Len(new), k \in Bufs, i \in t .. v.bottom - 1 :
                  Slot(new[n], k, i) = Slot(v, k, i)
             /\ \A n \in 1 .. Len(new) : new[n].active = v.active
<1>. DEFINE b == v.bottom
            new == PushStores(v, count)
            put(n) == shared_worklist_buf_put(v, n)
            last == [put(count) EXCEPT !.bottom = @ + count, !.pushed = @ + count]
<1>1. v.active \in Bufs /\ b \in Int /\ v.pushed \in Nat /\ MaxPush \in Nat
  BY WorklistAssumption DEF Views
<1>2. ASSUME NEW n \in 1 .. count
      PROVE  /\ put(n) \in Views
             /\ put(n).bottom = b /\ put(n).pushed = v.pushed
             /\ put(n).active = v.active
             /\ \A k \in Bufs, i \in t .. b - 1 : Slot(put(n), k, i) = Slot(v, k, i)
             /\ \A j \in 0 .. n - 1 : Ref(put(n), b + j) = v.pushed + j + 1
  <2>1. BufSize(v.active) \in Nat
    BY <1>1, WorklistAssumption
  <2>2. n \in Nat /\ v.pushed + n <= MaxPush /\ b - t <= BufSize(v.active) - n
    BY <1>1, <2>1
  <2>. HIDE DEF b
  <2>. QED  BY <1>1, <2>2, BufPut DEF b
<1>3. count \in 1 .. count
  OBVIOUS
<1>. HIDE DEF put
<1>4. last = WithBottom(put(count), b + count, v.pushed + count)
  BY <1>2, <1>3 DEF WithBottom
<1>5. /\ last \in Views
      /\ last.bottom = b + count /\ last.pushed = v.pushed + count
      /\ last.active = v.active
      /\ \A k, i : Slot(last, k, i) = Slot(put(count), k, i)
  <2>1. b + count \in Int /\ v.pushed + count \in 0 .. MaxPush
    BY <1>1
  <2>. HIDE DEF last, b
  <2>. QED  BY <1>2, <1>3, <1>4, <2>1, BottomStored
<1>. HIDE DEF last
<1>6. new = [n \in 1 .. count + 1 |-> IF n <= count THEN put(n) ELSE last]
  BY DEF PushStores, put, last
<1>. HIDE DEF new
<1>7. new \in Seq(Views) /\ Len(new) = count + 1
  BY <1>2, <1>5, <1>6
<1>8. /\ \A n \in 1 .. count : new[n] = put(n)
      /\ new[count + 1] = last
  BY <1>6
<1>9. ASSUME NEW n \in 1 .. count + 1
      PROVE  /\ new[n].active = v.active
             /\ \A k \in Bufs, i \in t .. b - 1 : Slot(new[n], k, i) = Slot(v, k, i)
  <2>1. CASE n <= count
    BY <1>2, <1>8, <2>1
  <2>2. CASE n = count + 1
    BY <1>2, <1>3, <1>5, <1>8, <2>2
  <2>. QED  BY <2>1, <2>2
<1>10. \A n \in 1 .. count + 1 : Keeps(v, new[n], t, b)
  BY <1>1, <1>9 DEF Keeps, Ref
<1>11. \A m, n \in 1 .. count + 1 : Keeps(new[m], new[n], t, b)
  BY <1>1, <1>9 DEF Keeps, Ref
<1>12. ASSUME NEW j \in 1 .. count
       PROVE  Ref(last, b + j - 1) = v.pushed + j
  <2>1. Ref(put(count), b + (j - 1)) = v.pushed + (j - 1) + 1
    BY <1>2, <1>3
  <2>2. Ref(last, b + j - 1) = Ref(put(count), b + j - 1)
    BY <1>2, <1>3, <1>5 DEF Ref
  <2>. QED  BY <1>1, <2>1, <2>2
<1>13. Pushes(v, new, count, t)
  BY <1>2, <1>5, <1>7, <1>8, <1>10, <1>11, <1>12 DEF Pushes
<1>. QED  BY <1>7, <1>9, <1>13 DEF new, b

\* With growth.
LEMMA GrowStores ==
  ASSUME NEW v \in Views, NEW count \in Nat \ {0}, v.pushed + count <= MaxPush,
         NEW k \in Bufs, k # v.active,
         NEW t \in Int, t <= v.bottom, v.bottom - t <= BufSize(k) - count
  PROVE  LET grown == shared_worklist_grow(v, t, k)
         IN  Pushes(v, <<grown>> \o PushStores(grown, count), count, t)
<1>. DEFINE g == shared_worklist_grow(v, t, k)
            b == v.bottom
            s == PushStores(g, count)
            new == <<g>> \o s
<1>1. b \in Int /\ v.pushed \in Nat /\ BufSize(k) \in Nat
  BY WorklistAssumption DEF Views
<1>2. /\ g \in Views /\ g.bottom = b /\ g.pushed = v.pushed /\ g.active = k
      /\ Keeps(v, g, t, b)
  <2>1. b - t <= BufSize(k)
    BY <1>1
  <2>. QED  BY <2>1, Grow
<1>. HIDE DEF g
<1>3. /\ Pushes(g, s, count, t)
      /\ \A n \in 1 .. Len(s), j \in Bufs, i \in t .. b - 1 :
           Slot(s[n], j, i) = Slot(g, j, i)
      /\ \A n \in 1 .. Len(s) : s[n].active = k
  BY <1>2, Stores
<1>. HIDE DEF s
<1>4. s \in Seq(Views) /\ Len(s) \in Nat \ {0}
  BY <1>3 DEF Pushes
<1>5. /\ new \in Seq(Views) /\ Len(new) = Len(s) + 1
      /\ new[1] = g
      /\ \A n \in 2 .. Len(new) : n - 1 \in 1 .. Len(s) /\ new[n] = s[n - 1]
  BY <1>2, <1>4
<1>. HIDE DEF new
<1>6. ASSUME NEW n \in 1 .. Len(new)
      PROVE  /\ new[n].active = k
             /\ \A j \in Bufs, i \in t .. b - 1 : Slot(new[n], j, i) = Slot(g, j, i)
  <2>1. CASE n = 1
    BY <1>2, <1>5, <2>1
  <2>2. CASE n # 1
    <3>1. n \in 2 .. Len(new)
      BY <1>5, <1>4, <2>2
    <3>. QED  BY <1>3, <1>5, <3>1
  <2>. QED  BY <2>1, <2>2
<1>7. \A n \in 1 .. Len(new) : Keeps(v, new[n], t, b)
  BY <1>2, <1>6 DEF Keeps, Ref
<1>8. \A m, n \in 1 .. Len(new) : Keeps(new[m], new[n], t, b)
  BY <1>6 DEF Keeps, Ref
<1>9. ASSUME NEW n \in 1 .. Len(new) - 1
      PROVE  new[n].bottom = b /\ new[n].pushed = v.pushed
  <2>1. CASE n = 1
    BY <1>2, <1>5, <2>1
  <2>2. CASE n # 1
    <3>1. n \in 2 .. Len(new) /\ n - 1 \in 1 .. Len(s) - 1
      BY <1>4, <1>5, <2>2
    <3>. QED  BY <1>2, <1>3, <1>5, <3>1 DEF Pushes
  <2>. QED  BY <2>1, <2>2
<1>10. new[Len(new)] = s[Len(s)]
  BY <1>4, <1>5
<1>11. /\ new[Len(new)].bottom = b + count
       /\ new[Len(new)].pushed = v.pushed + count
       /\ \A j \in 1 .. count : Ref(new[Len(new)], b + j - 1) = v.pushed + j
  BY <1>2, <1>3, <1>10 DEF Pushes
<1>12. Pushes(v, new, count, t)
  BY <1>4, <1>5, <1>7, <1>8, <1>9, <1>11 DEF Pushes
<1>. QED  BY <1>12 DEF new, s, g

--------------------------------------------------------------------------------
TypeOK ==
  /\ views \in Seq(Views) /\ views # <<>>
  /\ top \in Nat
  /\ owner \in [at : {"idle", "fence", "cas", "crash"}, t : Nat]
  /\ thief \in [Thieves -> [at : {"idle", "bottom", "active", "get", "cas", "retry"},
                            t : Nat, active : Bufs, ref : Word]]
  /\ taken \in [Refs -> Nat]

\* Where the deque ends in a view: a slot that the owner claims, and may yet give
\* back or lose, is in it.
Bottom(n) == IF n = Len(views) /\ owner.at \in {"fence", "cas"}
             THEN views[n].bottom + 1 ELSE views[n].bottom

\* From view to view, the deque's end does not go back, nor is it below top: a
\* store of bottom that takes a claim back says what was so before.
EndInv ==
  /\ \A m, n \in 1 .. Len(views) : m < n => Bottom(m) <= Bottom(n)
  /\ top <= Bottom(Len(views))

\* What one view has on the one before: nothing new, references, a claim, or the
\* end of a claim on a slot that turned out to be gone.
Same(v, w) == w.bottom = v.bottom /\ w.pushed = v.pushed
Pushed(v, w) ==
  /\ top <= v.bottom /\ w.pushed > v.pushed
  /\ w.bottom - v.bottom = w.pushed - v.pushed
  /\ \A j \in 1 .. w.bottom - v.bottom : Ref(w, v.bottom + j - 1) = v.pushed + j
Claim(v, w) == w.bottom = v.bottom - 1 /\ w.pushed = v.pushed
Back(v, w) == w.bottom = v.bottom + 1 /\ w.bottom <= top /\ w.pushed = v.pushed

StepInv ==
  \A n \in 1 .. Len(views) - 1 :
    /\ IF n + 1 = Len(views) /\ owner.at = "fence" THEN Claim(views[n], views[n + 1])
       ELSE \/ Same(views[n], views[n + 1])
            \/ Pushed(views[n], views[n + 1])
            \/ Back(views[n], views[n + 1])
    /\ Keeps(views[n], views[n + 1], top, views[n].bottom)

\* The owner races for one reference, with all its stores visible.
OwnerInv ==
  owner.at = "cas" => Fenced /\ owner.t <= top /\ Bottom(1) = owner.t + 1

\* A thief whose top is still right will take the reference that is there.
ThiefInv ==
  \A w \in Thieves :
    LET h == thief[w]
    IN  /\ h.t <= top
        /\ h.t = top /\ h.at \in {"active", "get", "cas"} =>
             /\ top < Bottom(1)
             /\ h.at = "get" => Slot(Shared, h.active, top) = Ref(Shared, top)
             /\ h.at = "cas" => h.ref = Ref(Shared, top)

IInv == TypeOK /\ EndInv /\ StepInv /\ OwnerInv /\ ThiefInv

--------------------------------------------------------------------------------
\* What every state has.
LEMMA Typed ==
  ASSUME TypeOK
  PROVE  /\ Len(views) \in Nat \ {0}
         /\ \A n \in 1 .. Len(views) :
              /\ views[n] \in Views
              /\ views[n].bottom \in Int
              /\ views[n].pushed \in Nat /\ views[n].pushed <= MaxPush
              /\ views[n].active \in Bufs
              /\ Bottom(n) \in Int
         /\ Shared = views[1] /\ Owned = views[Len(views)]
<1>1. views \in Seq(Views) /\ Len(views) \in Nat \ {0}
  BY DEF TypeOK
<1>2. ASSUME NEW v \in Views
      PROVE  /\ v.bottom \in Int /\ v.pushed \in Nat /\ v.pushed <= MaxPush
             /\ v.active \in Bufs
  BY WorklistAssumption DEF Views
<1>. QED  BY <1>1, <1>2 DEF Bottom, Shared, Owned

LEMMA KeepsMore ==
  ASSUME NEW v, NEW w, NEW t \in Int, NEW u \in Int, t <= u, NEW b \in Int,
         Keeps(v, w, t, b)
  PROVE  Keeps(v, w, u, b)
BY DEF Keeps

LEMMA InitIInv == Init => IInv
<1>. SUFFICES ASSUME Init PROVE IInv
  OBVIOUS
<1>1. 0 \in Bufs /\ MaxPush \in Nat
  BY WorklistAssumption DEF Bufs
<1>. DEFINE c == [k \in Bufs |-> [i \in 0 .. BufSize(k) - 1 |-> Null]]
<1>2. \A k \in Bufs : [i \in 0 .. BufSize(k) - 1 |-> Null] \in Buffer(k)
  BY DEF Buffer, Word
<1>3. c \in Cells
  BY <1>2 DEF Cells
<1>4. views[1].bottom = 0 /\ Len(views) = 1 /\ views[1] \in Views
      /\ views \in Seq(Views)
  <2>. HIDE DEF c
  <2>1. views = <<[bottom |-> 0, active |-> 0, pushed |-> 0, cells |-> c]>>
    BY DEF Init, c
  <2>. QED  BY <1>1, <1>3, <2>1 DEF Views
<1>5. TypeOK
  BY <1>1, <1>4 DEF Init, TypeOK, Idle, OwnerIdle, Word
<1>6. EndInv /\ StepInv /\ OwnerInv /\ ThiefInv
  BY <1>1, <1>4 DEF Init, EndInv, StepInv, OwnerInv, ThiefInv, Bottom, Idle, OwnerIdle
<1>. QED  BY <1>5, <1>6 DEF IInv

\* One push: the owner's view is followed by new ones, the last with more in it.
LEMMA PushStep ==
  ASSUME IInv, NEW count \in 1 .. MaxBatch, Push(count), owner'.at # "crash"
  PROVE  /\ UNCHANGED <<top, owner, thief, taken>> /\ owner.at = "idle"
         /\ Owned.pushed + count <= MaxPush
         /\ \E new : views' = views \o new /\ Pushes(Owned, new, count, top)
<1>. DEFINE b == Owned.bottom
            fits == {k \in Owned.active .. BufMaxLogSize - BufMinLogSize :
                       ~Full(b - top, k, count)}
<1>1. /\ owner.at = "idle" /\ Owned.pushed + count <= MaxPush
      /\ UNCHANGED <<top, thief, taken>>
  BY DEF Push
<1>2. /\ Owned \in Views /\ b \in Int /\ Owned.active \in Bufs
      /\ top \in Int /\ top <= b
  <2>1. TypeOK /\ EndInv
    BY DEF IInv
  <2>2. Bottom(Len(views)) = b
    BY <1>1 DEF Bottom, Owned
  <2>. QED  BY <2>1, <2>2, Typed DEF EndInv, TypeOK
<1>3. owner \in [at : {"idle", "fence", "cas", "crash"}, t : Nat]
  BY DEF IInv, TypeOK
<1>4. count \in Nat \ {0} /\ BufMinLogSize \in Nat /\ BufMaxLogSize \in Nat
  BY WorklistAssumption
<1>5. PICK k \in fits :
        /\ views' = IF k = Owned.active
                    THEN views \o PushStores(Owned, count)
                    ELSE LET grown == shared_worklist_grow(Owned, top, k)
                         IN  views \o (<<grown>> \o PushStores(grown, count))
        /\ UNCHANGED owner
  BY <1>3 DEF Push
<1>6. k \in Bufs /\ b - top <= BufSize(k) - count
  <2>1. k \in Bufs
    BY <1>2, <1>4 DEF Bufs
  <2>2. BufSize(k) \in Nat
    BY <2>1, WorklistAssumption
  <2>. QED  BY <1>2, <1>4, <2>1, <2>2 DEF Full
<1>7. CASE k = Owned.active
  <2>1. Pushes(Owned, PushStores(Owned, count), count, top)
    BY <1>1, <1>2, <1>4, <1>6, <1>7, Stores
  <2>. QED  BY <1>1, <1>5, <1>7, <2>1
<1>8. CASE k # Owned.active
  <2>. DEFINE grown == shared_worklist_grow(Owned, top, k)
  <2>1. Pushes(Owned, <<grown>> \o PushStores(grown, count), count, top)
    BY <1>1, <1>2, <1>4, <1>6, <1>8, GrowStores
  <2>. QED  BY <1>1, <1>5, <1>8, <2>1
<1>. QED  BY <1>7, <1>8

LEMMA Concat ==
  ASSUME NEW S, NEW s \in Seq(S), NEW t \in Seq(S)
  PROVE  /\ s \o t \in Seq(S) /\ Len(s \o t) = Len(s) + Len(t)
         /\ \A n \in 1 .. Len(s) : (s \o t)[n] = s[n]
         /\ \A n \in 1 .. Len(t) : (s \o t)[Len(s) + n] = t[n]
OBVIOUS

LEMMA PushIInv ==
  ASSUME IInv, NEW count \in 1 .. MaxBatch, Push(count), owner'.at # "crash"
  PROVE  IInv'
<1>1. /\ \E n \in Nat \ {0} : n = Len(views)
      /\ \E v : v = Owned
  BY Typed DEF IInv
<1>2. PICK N \in Nat \ {0} : N = Len(views)
  BY <1>1
<1>3. PICK o : o = Owned
  BY <1>1
<1>. DEFINE b == o.bottom
            q == o.pushed
<1>4. /\ UNCHANGED <<top, owner, thief, taken>> /\ owner.at = "idle"
      /\ Owned.pushed + count <= MaxPush
  BY PushStep
<1>5. PICK new : views' = views \o new /\ Pushes(Owned, new, count, top)
  BY PushStep
<1>6. PICK p : p = Len(new)
  OBVIOUS
<1>7. TypeOK /\ EndInv /\ StepInv /\ OwnerInv /\ ThiefInv
  BY DEF IInv
<1>8. /\ N \in Nat \ {0} /\ views \in Seq(Views) /\ top \in Nat
      /\ o = views[N] /\ b \in Int /\ q \in Nat /\ top <= b
      /\ count \in Nat \ {0}
      /\ \A n \in 1 .. N : views[n].bottom \in Int /\ Bottom(n) = views[n].bottom
      /\ \A n \in 1 .. N : Bottom(n) <= b
  <2>1. \A n \in 1 .. N : Bottom(n) = views[n].bottom
    BY <1>4 DEF Bottom
  <2>2. \A n \in 1 .. N : Bottom(n) <= Bottom(N)
    BY <1>2, <1>7, Typed DEF EndInv
  <2>. QED  BY <1>2, <1>3, <1>7, <2>1, <2>2, Typed, WorklistAssumption DEF EndInv, TypeOK
<1>9. /\ p \in Nat \ {0} /\ new \in Seq(Views)
      /\ \A n \in 1 .. p - 1 : new[n].bottom = b /\ new[n].pushed = q
      /\ new[p].bottom = b + count /\ new[p].pushed = q + count
      /\ \A i \in 1 .. count : Ref(new[p], b + i - 1) = q + i
      /\ \A n \in 1 .. p : Keeps(o, new[n], top, b)
      /\ \A m, n \in 1 .. p : m < n => Keeps(new[m], new[n], top, b)
  BY <1>3, <1>6, <1>5 DEF Pushes
<1>10. /\ views' \in Seq(Views) /\ Len(views') = N + p /\ views' # <<>>
       /\ \A n \in 1 .. N : views'[n] = views[n]
       /\ \A n \in 1 .. p : views'[N + n] = new[n]
       /\ Len(views) = N
  BY <1>2, <1>6, <1>5, <1>8, <1>9, Concat
<1>11. /\ p \in Nat \ {0} /\ count \in Nat \ {0} /\ b \in Int /\ top \in Nat
       /\ q \in Nat /\ top <= b
  BY <1>8, <1>9
<1>. HIDE DEF b, q
<1>12. ASSUME NEW n \in 1 .. N + p
      PROVE  /\ Bottom(n)' = views'[n].bottom
             /\ n <= N => Bottom(n)' = Bottom(n)
             /\ n > N /\ n < N + p => Bottom(n)' = b
             /\ n = N + p => Bottom(n)' = b + count
  <2>1. Bottom(n)' = views'[n].bottom
    BY <1>4 DEF Bottom
  <2>2. CASE n <= N
    <3>1. n \in 1 .. N
      BY <2>2
    <3>2. views'[n] = views[n] /\ Bottom(n) = views[n].bottom
      BY <1>8, <1>10, <3>1
    <3>3. Bottom(n)' = Bottom(n)
      BY <2>1, <3>2
    <3>4. ~(n > N) /\ n # N + p
      BY <1>11, <2>2
    <3>. QED  BY <2>1, <3>3, <3>4
  <2>3. CASE n > N
    <3>1. PICK j \in 1 .. p : n = N + j
      <4>1. n - N \in 1 .. p /\ n = N + (n - N)
        BY <1>9, <2>3
      <4>. QED  BY <4>1
    <3>2. Bottom(n)' = new[j].bottom
      BY <1>10, <2>1, <3>1
    <3>3. CASE n < N + p
      <4>1. j \in 1 .. p - 1
        BY <1>9, <3>1, <3>3
      <4>. QED  BY <1>9, <2>1, <2>3, <3>2, <3>3, <4>1
    <3>4. CASE n = N + p
      <4>1. j = p
        BY <1>9, <3>1, <3>4
      <4>. QED  BY <1>9, <2>1, <2>3, <3>2, <3>4, <4>1
    <3>5. n < N + p \/ n = N + p
      BY <1>11
    <3>. QED  BY <3>3, <3>4, <3>5
  <2>. QED  BY <2>2, <2>3
<1>13. TypeOK'
  BY <1>4, <1>7, <1>10 DEF TypeOK
<1>14. EndInv'
  <2>1. ASSUME NEW m \in 1 .. N + p, NEW n \in 1 .. N + p, m < n
        PROVE  Bottom(m)' <= Bottom(n)'
    <3>1. CASE n <= N
      <4>1. m \in 1 .. N /\ n \in 1 .. N /\ m <= N
        BY <2>1, <3>1
      <4>2. Bottom(m) <= Bottom(n)
        <5>1. \A i, j \in 1 .. Len(views) : i < j => Bottom(i) <= Bottom(j)
          BY <1>7 DEF EndInv
        <5>. QED  BY <1>2, <2>1, <4>1, <5>1
      <4>3. Bottom(m)' = Bottom(m)
        BY <1>12, <4>1
      <4>4. Bottom(n)' = Bottom(n)
        BY <1>12, <3>1
      <4>. QED  BY <4>2, <4>3, <4>4
    <3>2. CASE n > N
      <4>1. Bottom(n)' \in Int /\ Bottom(n)' >= b
        <5>1. n < N + p \/ n = N + p
          BY <1>11
        <5>2. Bottom(n)' = b \/ Bottom(n)' = b + count
          BY <1>12, <3>2, <5>1
        <5>. QED  BY <1>11, <5>2
      <4>2. CASE m <= N
        <5>1. m \in 1 .. N
          BY <4>2
        <5>2. Bottom(m)' \in Int /\ Bottom(m)' <= b
          BY <1>8, <1>12, <4>2, <5>1
        <5>. QED  BY <1>8, <4>1, <5>2
      <4>3. CASE m > N
        <5>1. m > N /\ m < N + p
          BY <1>9, <2>1, <4>3
        <5>2. Bottom(m)' = b
          BY <1>12, <5>1
        <5>. QED  BY <4>1, <5>2
      <4>. QED  BY <4>2, <4>3
    <3>. QED  BY <3>1, <3>2
  <2>2. top <= Bottom(N + p)'
    <3>1. N + p \in 1 .. N + p
      BY <1>9
    <3>2. \A n : n = N + p => Bottom(n)' = b + count
      BY <1>12, <3>1
    <3>. QED  BY <1>8, <3>2
  <2>. QED  BY <1>4, <1>10, <2>1, <2>2 DEF EndInv
<1>15. StepInv'
  <2>. DEFINE Link(n) == \/ Same(views[n], views[n + 1])
                         \/ Pushed(views[n], views[n + 1])
                         \/ Back(views[n], views[n + 1])
              Kept(n) == Keeps(views[n], views[n + 1], top, views[n].bottom)
  <2>1. ASSUME NEW n \in 1 .. N + p - 1, n < N
        PROVE  Link(n)' /\ Kept(n)'
    <3>1. n \in 1 .. N - 1 /\ n + 1 \in 1 .. N /\ n \in 1 .. N
      BY <2>1
    <3>2. n \in 1 .. Len(views) - 1
      BY <1>2, <3>1
    <3>3. Link(n) /\ Kept(n)
      BY <1>4, <1>7, <3>2 DEF StepInv
    <3>4. views'[n] = views[n] /\ views'[n + 1] = views[n + 1]
      BY <1>10, <3>1
    <3>5. Kept(n)'
      BY <1>4, <3>3, <3>4
    <3>6. Link(n)'
      BY <1>4, <3>3, <3>4 DEF Pushed, Back
    <3>. QED  BY <3>5, <3>6
  <2>2. ASSUME NEW v, v.bottom = b, v.pushed = q
        PROVE  Pushed(v, new[p])'
    <3>. DEFINE w == new[p]
    <3>1. /\ w.bottom = b + count /\ w.pushed = q + count
          /\ \A i \in 1 .. count : Ref(w, b + i - 1) = q + i
      BY <1>9
    <3>. HIDE DEF w
    <3>2. w.bottom - v.bottom = count /\ w.pushed - v.pushed = count
          /\ w.pushed > v.pushed
      BY <1>11, <2>2, <3>1
    <3>3. Pushed(v, w)'
      BY <1>4, <1>11, <2>2, <3>1, <3>2 DEF Pushed
    <3>. QED  BY <3>3 DEF w
  <2>3. ASSUME NEW n \in 1 .. N + p - 1, n = N
        PROVE  Link(n)' /\ Kept(n)'
    <3>1. 1 \in 1 .. p /\ N \in 1 .. N
      BY <1>11
    <3>2. views'[n] = o /\ views'[n + 1] = new[1]
      BY <1>3, <1>8, <1>10, <2>3, <3>1
    <3>3. Kept(n)'
      BY <1>4, <1>9, <3>1, <3>2 DEF b
    <3>4. CASE p = 1
      <4>1. Pushed(o, new[1])'
        BY <2>2, <3>2, <3>4 DEF b, q
      <4>. QED  BY <3>2, <3>3, <4>1
    <3>5. CASE p # 1
      <4>1. 1 \in 1 .. p - 1
        BY <1>11, <3>5
      <4>. QED  BY <1>9, <3>2, <3>3, <4>1 DEF Same, b, q
    <3>. QED  BY <3>4, <3>5
  <2>4. ASSUME NEW n \in 1 .. N + p - 1, NEW j \in 1 .. p - 1, n = N + j
        PROVE  Link(n)' /\ Kept(n)'
    <3>1. /\ j \in 1 .. p /\ j + 1 \in 1 .. p /\ j < j + 1
          /\ n + 1 = N + (j + 1)
      BY <1>11, <2>4
    <3>2. views'[n] = new[j] /\ views'[n + 1] = new[j + 1]
      BY <1>10, <2>4, <3>1
    <3>3. new[j].bottom = b /\ new[j].pushed = q
          /\ Keeps(new[j], new[j + 1], top, b)
      BY <1>9, <3>1
    <3>4. Kept(n)'
      BY <1>4, <3>2, <3>3
    <3>5. CASE j + 1 = p
      <4>1. Pushed(new[j], new[j + 1])'
        BY <1>9, <2>2, <3>1, <3>3, <3>5
      <4>. QED  BY <3>2, <3>4, <4>1
    <3>6. CASE j + 1 # p
      <4>1. j + 1 \in 1 .. p - 1
        BY <1>11, <3>1, <3>6
      <4>. QED  BY <1>9, <3>2, <3>3, <3>4, <4>1 DEF Same
    <3>. QED  BY <3>5, <3>6
  <2>5. ASSUME NEW n \in 1 .. N + p - 1
        PROVE  Link(n)' /\ Kept(n)'
    <3>1. CASE n > N
      <4>1. n - N \in 1 .. p - 1 /\ n = N + (n - N)
        BY <1>11, <3>1
      <4>. QED  BY <2>4, <4>1
    <3>. QED  BY <2>1, <2>3, <3>1
  <2>6. ASSUME NEW n \in 1 .. Len(views)' - 1
        PROVE  Link(n)' /\ Kept(n)'
    <3>1. n \in 1 .. N + p - 1
      BY <1>10, <1>11
    <3>. QED  BY <2>5, <3>1
  <2>. QED  BY <1>4, <2>6 DEF StepInv
<1>16. OwnerInv'
  BY <1>4 DEF OwnerInv
<1>17. ThiefInv'
  <2>1. 1 \in 1 .. N /\ 1 \in 1 .. N + p /\ 1 <= N
    BY <1>11
  <2>2. Bottom(1)' = Bottom(1)
    BY <1>12, <2>1
  <2>3. Shared' = Shared
    BY <1>8, <1>10, <2>1 DEF Shared
  <2>. QED  BY <1>4, <1>7, <2>2, <2>3 DEF ThiefInv
<1>. QED  BY <1>13, <1>14, <1>15, <1>16, <1>17 DEF IInv

\* A store of bottom changes bottom only.
LEMMA StoreBottomStep ==
  ASSUME TypeOK, NEW b \in Int, StoreBottom(b)
  PROVE  \E w \in Views :
           /\ views' = Append(views, w)
           /\ w.bottom = b /\ w.pushed = Owned.pushed
           /\ \A t, c : Keeps(Owned, w, t, c)
<1>. DEFINE w == WithBottom(Owned, b, Owned.pushed)
<1>1. Owned \in Views /\ Owned.pushed \in 0 .. MaxPush
  BY Typed DEF Views
<1>2. views' = Append(views, w)
  BY <1>1 DEF StoreBottom, WithBottom, Views
<1>3. /\ w \in Views /\ w.bottom = b /\ w.pushed = Owned.pushed
      /\ w.active = Owned.active
      /\ \A k, i : Slot(w, k, i) = Slot(Owned, k, i)
  BY <1>1, BottomStored
<1>. HIDE DEF w
<1>4. \A t, c : Keeps(Owned, w, t, c)
  BY <1>3 DEF Keeps, Ref
<1>. QED  BY <1>2, <1>3, <1>4

LEMMA Second ==
  ASSUME NEW S, NEW s \in Seq(S), Len(s) = 1, NEW x \in S
  PROVE  /\ Append(s, x) \in Seq(S) /\ Len(Append(s, x)) = 2
         /\ Append(s, x) # <<>>
         /\ Append(s, x)[1] = s[1] /\ Append(s, x)[2] = x
<1>. DEFINE a == Append(s, x)
<1>1. a \in Seq(S) /\ a # <<>>
  BY AppendProperties
<1>2. Len(a) = Len(s) + 1
  BY AppendProperties
<1>3. \A i \in 1 .. Len(s) : a[i] = s[i]
  BY AppendProperties
<1>4. a[Len(s) + 1] = x
  BY AppendProperties
<1>. HIDE DEF a
<1>5. Len(a) = 2 /\ a[1] = s[1] /\ a[2] = x
  BY <1>1, <1>2, <1>3, <1>4
<1>. QED  BY <1>1, <1>5 DEF a

LEMMA TryPopIInv ==
  ASSUME IInv, TryPop
  PROVE  IInv'
<1>1. TypeOK /\ EndInv /\ StepInv /\ OwnerInv /\ ThiefInv
  BY DEF IInv
<1>2. PICK N \in Nat \ {0} : N = Len(views)
  BY <1>1, Typed
<1>3. /\ owner.at = "idle" /\ owner'.at = "fence" /\ owner' \in [at : {"fence"}, t : Nat]
      /\ UNCHANGED <<top, thief, taken>>
      /\ StoreBottom(Owned.bottom - 1)
  BY <1>1 DEF TryPop, TypeOK
<1>4. /\ views \in Seq(Views) /\ Owned = views[N]
      /\ \A n \in 1 .. N : /\ views[n].bottom \in Int
                           /\ Bottom(n) = views[n].bottom
  BY <1>1, <1>2, <1>3, Typed DEF TypeOK, Bottom
<1>5. PICK w \in Views : /\ views' = Append(views, w)
                         /\ w.bottom = Owned.bottom - 1 /\ w.pushed = Owned.pushed
                         /\ \A t, c : Keeps(Owned, w, t, c)
  BY <1>1, <1>3, <1>4, StoreBottomStep
<1>6. /\ views' \in Seq(Views) /\ Len(views') = N + 1 /\ views' # <<>>
      /\ \A n \in 1 .. N : views'[n] = views[n]
      /\ views'[N + 1] = w
  BY <1>2, <1>4, <1>5
<1>7. ASSUME NEW n \in 1 .. N + 1
      PROVE  Bottom(n)' = IF n <= N THEN Bottom(n) ELSE Bottom(N)
  <2>1. CASE n <= N
    BY <1>3, <1>4, <1>6, <2>1 DEF Bottom
  <2>2. CASE n = N + 1
    BY <1>3, <1>4, <1>5, <1>6, <2>2 DEF Bottom
  <2>. QED  BY <2>1, <2>2
<1>8. TypeOK'
  BY <1>1, <1>3, <1>6 DEF TypeOK
<1>9. EndInv'
  <2>1. \A n \in 1 .. N : Bottom(n) \in Int /\ Bottom(n) <= Bottom(N)
    BY <1>1, <1>2, <1>4 DEF EndInv
  <2>2. ASSUME NEW m \in 1 .. N + 1, NEW n \in 1 .. N + 1, m < n
        PROVE  Bottom(m)' <= Bottom(n)'
    <3>1. m \in 1 .. N
      BY <2>2
    <3>2. CASE n <= N
      BY <1>1, <1>2, <1>7, <2>2, <3>1, <3>2 DEF EndInv
    <3>3. CASE n = N + 1
      BY <1>7, <2>1, <3>1, <3>3
    <3>. QED  BY <3>2, <3>3
  <2>3. top <= Bottom(N)
    BY <1>1, <1>2 DEF EndInv
  <2>4. N + 1 \in 1 .. N + 1
    OBVIOUS
  <2>5. \A n : n = N + 1 => Bottom(n)' = Bottom(N)
    BY <1>7, <2>4
  <2>. QED  BY <1>3, <1>6, <2>2, <2>3, <2>5 DEF EndInv
<1>10. StepInv'
  <2>1. ASSUME NEW n \in 1 .. N
        PROVE  /\ IF n + 1 = Len(views)' /\ (owner.at = "fence")'
                  THEN Claim(views[n], views[n + 1])'
                  ELSE \/ Same(views[n], views[n + 1])'
                       \/ Pushed(views[n], views[n + 1])'
                       \/ Back(views[n], views[n + 1])'
               /\ Keeps(views[n], views[n + 1], top, views[n].bottom)'
    <3>1. CASE n < N
      <4>1. n \in 1 .. N - 1 /\ n + 1 \in 1 .. N
        BY <3>1
      <4>2. views'[n] = views[n] /\ views'[n + 1] = views[n + 1]
        BY <1>6, <4>1
      <4>3. /\ \/ Same(views[n], views[n + 1])
               \/ Pushed(views[n], views[n + 1])
               \/ Back(views[n], views[n + 1])
            /\ Keeps(views[n], views[n + 1], top, views[n].bottom)
        BY <1>1, <1>2, <1>3, <4>1 DEF StepInv
      <4>4. n + 1 # Len(views)'
        BY <1>6, <3>1
      <4>. QED  BY <1>3, <4>2, <4>3, <4>4 DEF Pushed, Back
    <3>2. CASE n = N
      <4>1. views'[n] = Owned /\ views'[n + 1] = w /\ n + 1 = Len(views)'
        BY <1>4, <1>6, <3>2
      <4>. QED  BY <1>3, <1>5, <4>1 DEF Claim
    <3>. QED  BY <3>1, <3>2
  <2>2. Len(views)' - 1 = N
    BY <1>6
  <2>. QED  BY <2>1, <2>2 DEF StepInv
<1>11. OwnerInv'
  BY <1>3 DEF OwnerInv
<1>12. ThiefInv'
  <2>1. 1 \in 1 .. N /\ 1 \in 1 .. N + 1 /\ 1 <= N
    OBVIOUS
  <2>2. Bottom(1)' = Bottom(1)
    BY <1>7, <2>1
  <2>3. Shared' = Shared
    BY <1>4, <1>6, <2>1 DEF Shared
  <2>. QED  BY <1>1, <1>3, <2>2, <2>3 DEF ThiefInv
<1>. QED  BY <1>8, <1>9, <1>10, <1>11, <1>12 DEF IInv

\* Taking one reference more.
LEMMA TakeType ==
  ASSUME taken \in [Refs -> Nat], NEW r, Take(r)
  PROVE  taken' \in [Refs -> Nat]
<1>. DEFINE R == Refs
<1>1. taken' = [taken EXCEPT ![r] = taken[r] + 1] /\ taken \in [R -> Nat]
  BY DEF Take
<1>. HIDE DEF R
<1>. SUFFICES taken' \in [R -> Nat]
  BY DEF R
<1>2. CASE r \in R
  BY <1>1, <1>2
<1>3. CASE r \notin R
  BY <1>1, <1>3
<1>. QED  BY <1>2, <1>3

\* The end of a claim: the deque is empty.
LEMMA GiveBackIInv ==
  ASSUME IInv, Fenced, owner.at \in {"fence", "cas"}, GiveBack(Bottom(1)),
         owner' = OwnerIdle, top' = Bottom(1), top <= top', thief' = thief,
         \A w \in Thieves : top' = top => thief[w].t # top \/
                                 thief[w].at \notin {"active", "get", "cas"},
         taken' \in [Refs -> Nat]
  PROVE  IInv'
<1>1. TypeOK /\ EndInv /\ StepInv /\ OwnerInv /\ ThiefInv
  BY DEF IInv
<1>2. /\ Len(views) = 1 /\ views \in Seq(Views) /\ Owned = views[1]
      /\ views[1].bottom \in Int /\ Bottom(1) = views[1].bottom + 1
      /\ Bottom(1) \in Int /\ top \in Nat
  BY <1>1, Typed DEF TypeOK, Fenced, Bottom
<1>3. PICK w \in Views : /\ views' = Append(views, w)
                         /\ w.bottom = Bottom(1) /\ w.pushed = Owned.pushed
                         /\ \A t, c : Keeps(Owned, w, t, c)
  BY <1>1, <1>2, StoreBottomStep DEF GiveBack
<1>4. /\ views' \in Seq(Views) /\ Len(views') = 2 /\ views' # <<>>
      /\ views'[1] = views[1] /\ views'[2] = w
  BY <1>2, <1>3, Second
<1>5. owner'.at = "idle" /\ owner' \in [at : {"idle"}, t : Nat]
  BY DEF OwnerIdle
<1>6. Bottom(1)' = views[1].bottom /\ Bottom(2)' = Bottom(1)
  BY <1>3, <1>4, <1>5 DEF Bottom
<1>7. TypeOK'
  BY <1>1, <1>2, <1>4, <1>5 DEF TypeOK
<1>8. EndInv'
  BY <1>2, <1>4, <1>6 DEF EndInv
<1>9. StepInv'
  <2>1. Back(views[1], views[2])'
    BY <1>2, <1>3, <1>4 DEF Back
  <2>2. Keeps(views[1], views[2], top, views[1].bottom)'
    BY <1>2, <1>3, <1>4
  <2>. QED  BY <1>4, <1>5, <2>1, <2>2 DEF StepInv
<1>10. OwnerInv'
  BY <1>5 DEF OwnerInv
<1>11. ThiefInv'
  <2>. SUFFICES ASSUME NEW h \in Thieves
                PROVE  /\ thief[h].t <= top'
                       /\ thief[h].t # top' \/
                          thief[h].at \notin {"active", "get", "cas"}
    BY DEF ThiefInv
  <2>1. thief[h].t <= top /\ thief[h].t \in Nat
    BY <1>1 DEF ThiefInv, TypeOK
  <2>. QED  BY <1>2, <2>1
<1>. QED  BY <1>7, <1>8, <1>9, <1>10, <1>11 DEF IInv

LEMMA PopIInv ==
  ASSUME IInv, Pop
  PROVE  IInv'
<1>. DEFINE b == Owned.bottom + 1
<1>1. TypeOK /\ EndInv /\ StepInv /\ OwnerInv /\ ThiefInv
  BY DEF IInv
<1>2. owner.at = "fence" /\ Fenced /\ UNCHANGED <<top, thief>>
  BY DEF Pop, Fence
<1>3. /\ Len(views) = 1 /\ Owned = views[1] /\ Shared = views[1]
      /\ views[1].bottom \in Int /\ Bottom(1) = b
      /\ b \in Int /\ top \in Nat /\ top <= b
      /\ taken \in [Refs -> Nat]
  BY <1>1, <1>2, Typed DEF TypeOK, Fenced, Bottom, EndInv
<1>. HIDE DEF b
<1>4. CASE /\ b - top > 1
           /\ Take(shared_worklist_buf_get(Owned, Owned.active, b - 1))
           /\ owner' = OwnerIdle
           /\ UNCHANGED views
  <2>1. owner'.at = "idle" /\ owner' \in [at : {"idle"}, t : Nat]
    BY <1>4 DEF OwnerIdle
  <2>2. Bottom(1)' = b - 1 /\ top < b - 1
    BY <1>3, <1>4, <2>1 DEF Bottom, b
  <2>3. TypeOK'
    BY <1>1, <1>2, <1>4, <2>1, TakeType DEF TypeOK
  <2>4. EndInv' /\ StepInv'
    <3>1. Len(views)' = 1
      BY <1>3, <1>4
    <3>2. top' <= Bottom(1)'
      BY <1>2, <1>3, <2>2
    <3>. QED  BY <3>1, <3>2 DEF EndInv, StepInv
  <2>6. OwnerInv'
    BY <2>1 DEF OwnerInv
  <2>7. ThiefInv'
    <3>1. Shared' = Shared
      BY <1>4 DEF Shared
    <3>. QED  BY <1>1, <1>2, <2>2, <3>1 DEF ThiefInv
  <2>. QED  BY <2>3, <2>4, <2>6, <2>7 DEF IInv
<1>5. CASE /\ b - top = 1
           /\ owner' = [at |-> "cas", t |-> top]
           /\ UNCHANGED <<views, taken>>
  <2>1. Bottom(1)' = b /\ b = top + 1
    BY <1>3, <1>5 DEF Bottom, b
  <2>2. TypeOK'
    BY <1>1, <1>2, <1>3, <1>5 DEF TypeOK
  <2>3. EndInv' /\ StepInv'
    <3>1. Len(views)' = 1
      BY <1>3, <1>5
    <3>2. top' <= Bottom(1)'
      BY <1>2, <1>3, <2>1
    <3>. QED  BY <3>1, <3>2 DEF EndInv, StepInv
  <2>5. OwnerInv'
    BY <1>2, <1>3, <1>5, <2>1 DEF OwnerInv, Fenced
  <2>6. ThiefInv'
    <3>1. Shared' = Shared
      BY <1>5 DEF Shared
    <3>. QED  BY <1>1, <1>2, <1>3, <2>1, <3>1 DEF ThiefInv
  <2>. QED  BY <2>2, <2>3, <2>5, <2>6 DEF IInv
<1>6. CASE b - top <= 0 /\ GiveBack(b) /\ owner' = OwnerIdle /\ UNCHANGED taken
  <2>1. b = top
    BY <1>3, <1>6
  <2>2. \A w \in Thieves : thief[w].t # top \/ thief[w].at \notin {"active", "get", "cas"}
    BY <1>1, <1>3, <2>1 DEF ThiefInv
  <2>. QED  BY <1>2, <1>3, <1>6, <2>1, <2>2, GiveBackIInv
<1>. QED  BY <1>4, <1>5, <1>6 DEF Pop, b

LEMMA PopLastIInv ==
  ASSUME IInv, PopLast
  PROVE  IInv'
<1>1. TypeOK /\ EndInv /\ StepInv /\ OwnerInv /\ ThiefInv
  BY DEF IInv
<1>2. /\ owner.at = "cas" /\ owner' = OwnerIdle /\ UNCHANGED thief
      /\ GiveBack(Owned.bottom + 1)
  BY DEF PopLast
<1>3. /\ Fenced /\ Owned.bottom + 1 = Bottom(1)
      /\ Bottom(1) = owner.t + 1 /\ owner.t <= top /\ owner.t \in Nat
      /\ top \in Nat /\ top <= Bottom(1)
  BY <1>1, <1>2, Typed DEF OwnerInv, Fenced, Bottom, EndInv, TypeOK
<1>4. taken' \in [Refs -> Nat]
  BY <1>1, TakeType DEF PopLast, TypeOK
<1>5. CASE top = owner.t /\ top' = top + 1
  BY <1>2, <1>3, <1>4, <1>5, GiveBackIInv
<1>6. CASE top # owner.t /\ UNCHANGED top
  <2>1. top = Bottom(1)
    BY <1>3, <1>6
  <2>2. \A w \in Thieves : thief[w].t # top \/ thief[w].at \notin {"active", "get", "cas"}
    BY <1>1, <1>3, <2>1 DEF ThiefInv
  <2>. QED  BY <1>2, <1>3, <1>4, <1>6, <2>1, <2>2, GiveBackIInv
<1>. QED  BY <1>5, <1>6 DEF PopLast

LEMMA ReleaseIInv ==
  ASSUME IInv, Release
  PROVE  IInv'
<1>1. TypeOK /\ EndInv /\ StepInv /\ OwnerInv /\ ThiefInv
  BY DEF IInv
<1>2. /\ owner.at = "idle" /\ Len(views) = 1 /\ Owned.bottom = top
      /\ UNCHANGED <<top, owner, thief, taken>>
      /\ \A w \in Thieves : thief[w].at = "idle"
  BY DEF Release, Fenced
<1>. DEFINE c == [k \in Bufs |-> [i \in DOMAIN Owned.cells[k] |-> Null]]
            w == [Owned EXCEPT !.cells = c]
<1>3. Owned \in Views
  BY <1>1, Typed
<1>4. c \in Cells
  <2>1. \A k \in Bufs : [i \in DOMAIN Owned.cells[k] |-> Null] \in Buffer(k)
    BY <1>3 DEF Views, Cells, Buffer, Word
  <2>. QED  BY <2>1 DEF Cells
<1>5. w \in Views /\ w.bottom = Owned.bottom
  <2>. HIDE DEF c
  <2>. QED  BY <1>3, <1>4 DEF Views
<1>6. views' = <<w>>
  BY DEF Release
<1>. HIDE DEF w
<1>7. /\ views' \in Seq(Views) /\ Len(views') = 1 /\ views' # <<>>
      /\ views'[1] = w
  BY <1>5, <1>6
<1>8. TypeOK'
  BY <1>1, <1>2, <1>7 DEF TypeOK
<1>9. EndInv' /\ StepInv'
  <2>1. Bottom(1)' = top'
    BY <1>2, <1>5, <1>7 DEF Bottom
  <2>. QED  BY <1>1, <1>2, <1>7, <2>1 DEF EndInv, StepInv, TypeOK
<1>10. OwnerInv' /\ ThiefInv'
  BY <1>1, <1>2 DEF OwnerInv, ThiefInv
<1>. QED  BY <1>8, <1>9, <1>10 DEF IInv

LEMMA Rest ==
  ASSUME NEW S, NEW s \in Seq(S), Len(s) > 1
  PROVE  /\ Tail(s) \in Seq(S) /\ Len(Tail(s)) = Len(s) - 1 /\ Tail(s) # <<>>
         /\ \A n \in 1 .. Len(s) - 1 : Tail(s)[n] = s[n + 1]
<1>1. Len(s) \in Nat /\ s # <<>>
  OBVIOUS
<1>2. /\ Tail(s) \in Seq(S) /\ Len(Tail(s)) = Len(s) - 1
      /\ \A i \in 1 .. Len(Tail(s)) : Tail(s)[i] = s[i + 1]
  BY <1>1, HeadTailProperties
<1>3. Tail(s) # <<>>
  <2>1. Len(Tail(s)) # 0
    BY <1>1, <1>2
  <2>2. Len(<<>>) = 0
    OBVIOUS
  <2>. QED  BY <2>1, <2>2, Zenon
<1>. QED  BY <1>2, <1>3

\* A store becomes visible: for a thief, what it will take stays the same.
LEMMA FlushIInv ==
  ASSUME IInv, Flush
  PROVE  IInv'
<1>1. TypeOK /\ EndInv /\ StepInv /\ OwnerInv /\ ThiefInv
  BY DEF IInv
<1>2. PICK N \in Nat \ {0} : N = Len(views)
  BY <1>1, Typed
<1>3. /\ views \in Seq(Views) /\ N > 1 /\ views' = Tail(views)
      /\ UNCHANGED <<top, owner, thief, taken>>
  BY <1>1, <1>2 DEF Flush, Fenced, TypeOK
<1>4. /\ views' \in Seq(Views) /\ Len(views') = N - 1 /\ views' # <<>>
      /\ \A n \in 1 .. N - 1 : views'[n] = views[n + 1]
  BY <1>2, <1>3, Rest
<1>5. ASSUME NEW n \in 1 .. N - 1
      PROVE  Bottom(n)' = Bottom(n + 1)
  BY <1>2, <1>3, <1>4 DEF Bottom
<1>6. TypeOK'
  BY <1>1, <1>3, <1>4 DEF TypeOK
<1>7. EndInv'
  <2>1. ASSUME NEW m \in 1 .. N - 1, NEW n \in 1 .. N - 1, m < n
        PROVE  Bottom(m)' <= Bottom(n)'
    <3>1. m + 1 \in 1 .. N /\ n + 1 \in 1 .. N /\ m + 1 < n + 1
      BY <2>1
    <3>2. Bottom(m + 1) <= Bottom(n + 1)
      BY <1>1, <1>2, <3>1 DEF EndInv
    <3>. QED  BY <1>5, <3>2
  <2>2. \A n : n = N - 1 => Bottom(n)' = Bottom(n + 1)
    BY <1>3, <1>5
  <2>3. top <= Bottom(N)
    BY <1>1, <1>2 DEF EndInv
  <2>4. \A n : n = N - 1 => top <= Bottom(n)'
    <3>. SUFFICES ASSUME NEW n, n = N - 1 PROVE top <= Bottom(n)'
      OBVIOUS
    <3>1. n + 1 = N
      OBVIOUS
    <3>. QED  BY <2>2, <2>3, <3>1
  <2>. QED  BY <1>3, <1>4, <2>1, <2>4 DEF EndInv
<1>8. StepInv'
  <2>1. ASSUME NEW n \in 1 .. N - 2
        PROVE  /\ IF n + 1 = Len(views)' /\ (owner.at = "fence")'
                  THEN Claim(views[n], views[n + 1])'
                  ELSE \/ Same(views[n], views[n + 1])'
                       \/ Pushed(views[n], views[n + 1])'
                       \/ Back(views[n], views[n + 1])'
               /\ Keeps(views[n], views[n + 1], top, views[n].bottom)'
    <3>1. n + 1 \in 1 .. N - 1 /\ n \in 1 .. N - 1
      OBVIOUS
    <3>2. views'[n] = views[n + 1] /\ views'[n + 1] = views[(n + 1) + 1]
      BY <1>4, <3>1
    <3>3. /\ IF (n + 1) + 1 = Len(views) /\ owner.at = "fence"
             THEN Claim(views[n + 1], views[(n + 1) + 1])
             ELSE \/ Same(views[n + 1], views[(n + 1) + 1])
                  \/ Pushed(views[n + 1], views[(n + 1) + 1])
                  \/ Back(views[n + 1], views[(n + 1) + 1])
          /\ Keeps(views[n + 1], views[(n + 1) + 1], top, views[n + 1].bottom)
      BY <1>1, <1>2, <3>1 DEF StepInv
    <3>4. n + 1 = Len(views)' <=> (n + 1) + 1 = Len(views)
      BY <1>2, <1>4
    <3>. QED  BY <1>3, <3>2, <3>3, <3>4 DEF Claim, Pushed, Back
  <2>2. Len(views)' - 1 = N - 2
    BY <1>4
  <2>. QED  BY <2>1, <2>2 DEF StepInv
<1>9. OwnerInv'
  <2>1. owner.at # "cas"
    <3>1. ~Fenced
      BY DEF Flush
    <3>. QED  BY <1>1, <3>1 DEF OwnerInv
  <2>. QED  BY <1>3, <2>1 DEF OwnerInv
<1>10. ThiefInv'
  <2>1. 1 \in 1 .. N - 1 /\ 1 \in 1 .. N /\ 2 \in 1 .. N /\ 1 + 1 = 2
    BY <1>3
  <2>2. Bottom(1)' = Bottom(2) /\ Bottom(1) <= Bottom(2)
        /\ Bottom(1) = views[1].bottom /\ Bottom(1) \in Int /\ Bottom(2) \in Int
    <3>1. \A n : n = 1 => Bottom(n)' = Bottom(n + 1)
      BY <1>5, <2>1
    <3>. QED  BY <1>1, <1>2, <1>3, <2>1, <3>1, Typed DEF EndInv, Bottom
  <2>3. Shared = views[1] /\ Shared' = views[2]
    BY <1>1, <1>3, <1>4, <2>1, Typed DEF Shared
  <2>4. Keeps(views[1], views[2], top, Bottom(1))
    BY <1>1, <1>2, <2>1, <2>2 DEF StepInv
  <2>5. ASSUME NEW w \in Thieves, thief[w].t = top,
               thief[w].at \in {"active", "get", "cas"}
        PROVE  /\ top < Bottom(1)'
               /\ thief[w].at = "get" =>
                    Slot(views[2], thief[w].active, top) = Ref(views[2], top)
               /\ thief[w].at = "cas" => thief[w].ref = Ref(views[2], top)
    <3>1. /\ top < Bottom(1)
          /\ thief[w].at = "get" =>
               Slot(views[1], thief[w].active, top) = Ref(views[1], top)
          /\ thief[w].at = "cas" => thief[w].ref = Ref(views[1], top)
      BY <1>1, <2>3, <2>5 DEF ThiefInv
    <3>2. top \in top .. Bottom(1) - 1 /\ top \in Nat /\ thief[w].active \in Bufs
      BY <1>1, <2>2, <3>1 DEF TypeOK
    <3>. QED  BY <2>2, <2>4, <3>1, <3>2 DEF Keeps
  <2>. QED  BY <1>1, <1>3, <2>3, <2>5 DEF ThiefInv
<1>. QED  BY <1>6, <1>7, <1>8, <1>9, <1>10 DEF IInv

\* A thief's loads.
LEMMA LoadIInv ==
  ASSUME IInv, NEW w \in Thieves,
         LoadTop(w) \/ LoadBottom(w) \/ LoadActive(w) \/ Get(w)
  PROVE  IInv'
<1>1. TypeOK /\ EndInv /\ StepInv /\ OwnerInv /\ ThiefInv
  BY DEF IInv
<1>2. UNCHANGED <<views, top, owner, taken>>
  BY DEF LoadTop, LoadBottom, LoadActive, Get
<1>3. /\ Shared = views[1] /\ Shared \in Views
      /\ Shared.bottom \in Int /\ Shared.active \in Bufs
      /\ Bottom(1) \in Int /\ Shared.bottom <= Bottom(1)
      /\ top \in Nat
  BY <1>1, Typed DEF TypeOK, Bottom
<1>4. thief[w] \in [at : {"idle", "bottom", "active", "get", "cas", "retry"},
                     t : Nat, active : Bufs, ref : Word]
  BY <1>1 DEF TypeOK
<1>5. 0 \in Bufs /\ Null \in Word
  BY WorklistAssumption DEF Bufs, Word
<1>6. PICK s : /\ Goes(w, s)
               /\ s \in [at : {"idle", "bottom", "active", "get", "cas", "retry"},
                         t : Nat, active : Bufs, ref : Word]
               /\ s.t <= top
               /\ s.t = top /\ s.at \in {"active", "get", "cas"} =>
                    /\ top < Bottom(1)
                    /\ s.at = "get" => Slot(Shared, s.active, top) = Ref(Shared, top)
                    /\ s.at = "cas" => s.ref = Ref(Shared, top)
  <2>. DEFINE OK(s) == /\ Goes(w, s)
                       /\ s \in [at : {"idle", "bottom", "active", "get", "cas", "retry"},
                                 t : Nat, active : Bufs, ref : Word]
                       /\ s.t <= top
                       /\ s.t = top /\ s.at \in {"active", "get", "cas"} =>
                            /\ top < Bottom(1)
                            /\ s.at = "get" => Slot(Shared, s.active, top) = Ref(Shared, top)
                            /\ s.at = "cas" => s.ref = Ref(Shared, top)
  <2>. SUFFICES \E s : OK(s)
    OBVIOUS
  <2>1. CASE LoadTop(w)
    <3>. DEFINE x == [Idle EXCEPT !.at = "bottom", !.t = top]
    <3>1. x.at = "bottom" /\ x.t = top
      BY DEF Idle
    <3>2. x \in [at : {"idle", "bottom", "active", "get", "cas", "retry"},
                t : Nat, active : Bufs, ref : Word]
      BY <1>3, <1>5 DEF Idle
    <3>3. Goes(w, x)
      BY <2>1 DEF LoadTop
    <3>. HIDE DEF x
    <3>. QED  BY <1>3, <3>1, <3>2, <3>3
  <2>2. CASE LoadBottom(w)
    <3>1. CASE Shared.bottom - thief[w].t <= 0
      <4>1. OK(Idle)
        BY <1>3, <1>5, <2>2, <3>1 DEF LoadBottom, Idle
      <4>. QED  BY <4>1
    <3>2. CASE ~(Shared.bottom - thief[w].t <= 0)
      <4>1. OK([thief[w] EXCEPT !.at = "active"])
        BY <1>1, <1>3, <1>4, <2>2, <3>2 DEF LoadBottom, ThiefInv
      <4>. QED  BY <4>1
    <3>. QED  BY <3>1, <3>2
  <2>3. CASE LoadActive(w)
    <3>1. OK([thief[w] EXCEPT !.at = "get", !.active = Shared.active])
      BY <1>1, <1>3, <1>4, <2>3 DEF LoadActive, At, ThiefInv, Ref
    <3>. QED  BY <3>1
  <2>4. CASE Get(w)
    <3>. DEFINE ref == Slot(Shared, thief[w].active, thief[w].t)
    <3>1. ref \in Word
      BY <1>3, <1>4, SlotType
    <3>2. thief[w].t = top => top < Bottom(1) /\ ref = Ref(Shared, top)
      BY <1>1, <2>4 DEF Get, At, ThiefInv
    <3>3. Goes(w, [thief[w] EXCEPT !.at = "cas", !.ref = ref])
      BY <2>4 DEF Get, Slot
    <3>. HIDE DEF ref
    <3>4. OK([thief[w] EXCEPT !.at = "cas", !.ref = ref])
      BY <1>1, <1>4, <3>1, <3>2, <3>3 DEF ThiefInv
    <3>. QED  BY <3>4
  <2>. QED  BY <2>1, <2>2, <2>3, <2>4
<1>7. thief' = [thief EXCEPT ![w] = s]
  BY <1>6 DEF Goes
<1>8. TypeOK'
  BY <1>1, <1>2, <1>6, <1>7 DEF TypeOK
<1>9. EndInv' /\ StepInv' /\ OwnerInv'
  BY <1>1, <1>2 DEF EndInv, StepInv, OwnerInv, Bottom, Fenced, Pushed, Back
<1>10. ThiefInv'
  <2>1. Shared' = Shared /\ Bottom(1)' = Bottom(1)
    BY <1>2 DEF Shared, Bottom
  <2>2. ASSUME NEW v \in Thieves
        PROVE  thief'[v] = IF v = w THEN s ELSE thief[v]
    BY <1>1, <1>7 DEF TypeOK
  <2>. QED  BY <1>1, <1>2, <1>6, <2>1, <2>2 DEF ThiefInv
<1>. QED  BY <1>8, <1>9, <1>10 DEF IInv

LEMMA CompareAndSwapIInv ==
  ASSUME IInv, NEW w \in Thieves, CompareAndSwap(w)
  PROVE  IInv'
<1>1. TypeOK /\ EndInv /\ StepInv /\ OwnerInv /\ ThiefInv
  BY DEF IInv
<1>2. UNCHANGED <<views, owner>> /\ thief[w].at = "cas"
  BY DEF CompareAndSwap, At
<1>3. taken' \in [Refs -> Nat]
  BY <1>1, TakeType DEF CompareAndSwap, TypeOK
<1>4. PICK s : /\ thief' = [thief EXCEPT ![w] = s]
               /\ s \in [at : {"idle", "retry"}, t : {0}, active : Bufs, ref : Word]
  BY WorklistAssumption DEF CompareAndSwap, Goes, Idle, Bufs, Word
<1>5. top \in Nat /\ (top' = top \/ (top' = top + 1 /\ thief[w].t = top))
  BY <1>1 DEF CompareAndSwap, TypeOK
<1>6. Len(views) \in Nat \ {0} /\ \A n \in 1 .. Len(views) : Bottom(n) \in Int
  BY <1>1, Typed
<1>7. \A n \in 1 .. Len(views) : Bottom(1) <= Bottom(n)
  BY <1>1, <1>6 DEF EndInv
<1>8. top' = top + 1 => \A n \in 1 .. Len(views) : top' <= Bottom(n)
  <2>1. top' = top + 1 => top < Bottom(1)
    BY <1>1, <1>2, <1>5 DEF ThiefInv
  <2>. QED  BY <1>5, <1>6, <1>7, <2>1
<1>9. \A n : Bottom(n)' = Bottom(n)
  BY <1>2 DEF Bottom
<1>10. TypeOK'
  BY <1>1, <1>2, <1>3, <1>4, <1>5 DEF TypeOK
<1>11. EndInv'
  BY <1>1, <1>2, <1>5, <1>6, <1>8, <1>9 DEF EndInv
<1>12. StepInv'
  <2>1. ASSUME NEW n \in 1 .. Len(views) - 1
        PROVE  /\ IF n + 1 = Len(views) /\ owner.at = "fence"
                  THEN Claim(views[n], views[n + 1])
                  ELSE \/ Same(views[n], views[n + 1])
                       \/ Pushed(views[n], views[n + 1])'
                       \/ Back(views[n], views[n + 1])'
               /\ Keeps(views[n], views[n + 1], top', views[n].bottom)
    <3>1. n \in 1 .. Len(views) /\ n + 1 \in 1 .. Len(views)
      BY <1>6
    <3>2. views[n].bottom \in Int /\ views[n + 1].bottom \in Int
          /\ Bottom(n) = views[n].bottom
      BY <1>1, <1>6, <3>1, Typed DEF Bottom
    <3>3. top' <= views[n].bottom \/ top' = top
      BY <1>5, <1>8, <3>1, <3>2
    <3>4. Pushed(views[n], views[n + 1]) => Pushed(views[n], views[n + 1])'
      BY <1>2, <3>3 DEF Pushed
    <3>5. Back(views[n], views[n + 1]) => Back(views[n], views[n + 1])'
      BY <1>2, <1>5, <3>2 DEF Back
    <3>6. Keeps(views[n], views[n + 1], top', views[n].bottom)
      BY <1>1, <1>5, <3>2, KeepsMore DEF StepInv
    <3>. QED  BY <1>1, <3>4, <3>5, <3>6 DEF StepInv
  <2>. QED  BY <1>2, <2>1 DEF StepInv, Claim, Same
<1>13. OwnerInv'
  <2>1. owner \in [at : {"idle", "fence", "cas", "crash"}, t : Nat]
    BY <1>1 DEF TypeOK
  <2>. QED  BY <1>1, <1>2, <1>5, <1>9, <2>1 DEF OwnerInv, Fenced
<1>14. ThiefInv'
  <2>1. Shared' = Shared /\ Bottom(1)' = Bottom(1)
    BY <1>2, <1>9 DEF Shared
  <2>2. ASSUME NEW v \in Thieves
        PROVE  thief'[v] = IF v = w THEN s ELSE thief[v]
    BY <1>1, <1>4 DEF TypeOK
  <2>3. \A v \in Thieves : thief[v].t \in Nat /\ thief[v].t <= top
    BY <1>1 DEF ThiefInv, TypeOK
  <2>4. s.t <= top' /\ s.at \notin {"active", "get", "cas"}
    BY <1>4, <1>5
  <2>5. CASE top' = top
    BY <1>1, <2>1, <2>2, <2>4, <2>5 DEF ThiefInv
  <2>6. CASE top' = top + 1
    <3>1. \A v \in Thieves : thief[v].t <= top' /\ thief[v].t # top'
      BY <1>5, <2>3, <2>6
    <3>. QED  BY <2>2, <2>4, <3>1 DEF ThiefInv
  <2>. QED  BY <1>5, <2>5, <2>6
<1>. QED  BY <1>10, <1>11, <1>12, <1>13, <1>14 DEF IInv

\* A push that cannot be done ends the program.
LEMMA CrashStep ==
  ASSUME IInv, NEW count \in 1 .. MaxBatch, Push(count), owner'.at = "crash"
  PROVE  /\ UNCHANGED <<views, top, thief, taken>> /\ owner.at = "idle"
         /\ owner' \in [at : {"crash"}, t : Nat]
<1>1. owner \in [at : {"idle", "fence", "cas", "crash"}, t : Nat]
  BY DEF IInv, TypeOK
<1>2. owner.at = "idle" /\ owner' # owner
  BY DEF Push
<1>. QED  BY <1>1, <1>2 DEF Push

LEMMA CrashIInv ==
  ASSUME IInv, NEW count \in 1 .. MaxBatch, Push(count), owner'.at = "crash"
  PROVE  IInv'
<1>1. TypeOK /\ EndInv /\ StepInv /\ OwnerInv /\ ThiefInv
  BY DEF IInv
<1>2. /\ UNCHANGED <<views, top, thief, taken>> /\ owner.at = "idle"
      /\ owner' \in [at : {"crash"}, t : Nat]
  BY CrashStep
<1>3. \A n : Bottom(n)' = Bottom(n)
  BY <1>2 DEF Bottom
<1>4. TypeOK'
  BY <1>1, <1>2 DEF TypeOK
<1>5. EndInv' /\ StepInv' /\ OwnerInv'
  BY <1>1, <1>2, <1>3 DEF EndInv, StepInv, OwnerInv, Pushed, Back
<1>6. ThiefInv'
  BY <1>1, <1>2, <1>3 DEF ThiefInv, Shared
<1>. QED  BY <1>4, <1>5, <1>6 DEF IInv

LEMMA StutterIInv ==
  ASSUME IInv, UNCHANGED vars
  PROVE  IInv'
BY DEF vars, IInv, TypeOK, EndInv, StepInv, OwnerInv, ThiefInv, Bottom, Pushed, Back,
       Shared, Fenced

LEMMA NextIInv == IInv /\ [Next]_vars => IInv'
<1>. SUFFICES ASSUME IInv, [Next]_vars PROVE IInv'
  OBVIOUS
<1>1. ASSUME NEW count \in 1 .. MaxBatch, Push(count) PROVE IInv'
  <2>1. CASE owner'.at = "crash"
    BY <1>1, <2>1, CrashIInv
  <2>2. CASE owner'.at # "crash"
    BY <1>1, <2>2, PushIInv
  <2>. QED  BY <2>1, <2>2
<1>2. CASE TryPop
  BY <1>2, TryPopIInv
<1>3. CASE Pop
  BY <1>3, PopIInv
<1>4. CASE PopLast
  BY <1>4, PopLastIInv
<1>5. CASE Release
  BY <1>5, ReleaseIInv
<1>6. CASE Flush
  BY <1>6, FlushIInv
<1>7. ASSUME NEW w \in Thieves,
             \/ LoadTop(w) \/ LoadBottom(w) \/ LoadActive(w)
             \/ Get(w) \/ CompareAndSwap(w)
      PROVE  IInv'
  BY <1>7, LoadIInv, CompareAndSwapIInv
<1>8. CASE UNCHANGED vars
  BY <1>8, StutterIInv
<1>. QED  BY <1>1, <1>2, <1>3, <1>4, <1>5, <1>6, <1>7, <1>8 DEF Next

\* The deque's memory has its type, the owner and the thieves are where they can
\* be, and each of them may rely on what it has loaded.
THEOREM InvariantHolds == Spec => []IInv
BY InitIInv, NextIInv, PTL DEF Spec
--------------------------------------------------------------------------------
\* What is between two indices of a view.
Window(v, b, t) == [i \in 1 .. b - t |-> Ref(v, t + i - 1)]

LEMMA WindowSeq ==
  ASSUME NEW v \in Views, NEW b \in Int, NEW t \in Int
  PROVE  /\ t <= b => /\ Window(v, b, t) \in Seq(Word)
                      /\ Len(Window(v, b, t)) = b - t
                      /\ \A i \in 1 .. b - t : Window(v, b, t)[i] = Ref(v, t + i - 1)
         /\ b <= t => Window(v, b, t) = <<>>
<1>1. ASSUME t <= b
      PROVE  /\ Window(v, b, t) \in Seq(Word) /\ Len(Window(v, b, t)) = b - t
             /\ \A i \in 1 .. b - t : Window(v, b, t)[i] = Ref(v, t + i - 1)
  <2>1. b - t \in Nat
    BY <1>1
  <2>2. \A i \in 1 .. b - t : Ref(v, t + i - 1) \in Word
    BY SlotType DEF Views, Ref
  <2>. QED  BY <2>1, <2>2 DEF Window
<1>2. ASSUME b <= t
      PROVE  Window(v, b, t) = <<>>
  <2>1. 1 .. b - t = {}
    BY <1>2
  <2>. QED  BY <2>1 DEF Window
<1>. QED  BY <1>1, <1>2

\* Two sequences with the same elements are the same.
LEMMA SameElements ==
  ASSUME NEW S, NEW s \in Seq(S), NEW t \in Seq(S), Len(s) = Len(t),
         \A i \in 1 .. Len(s) : s[i] = t[i]
  PROVE  s = t
OBVIOUS

LEMMA WiderSeq ==
  ASSUME NEW S, NEW T, S \subseteq T, NEW s \in Seq(S)
  PROVE  s \in Seq(T)
<1>1. \A i \in 1 .. Len(s) : s[i] \in T
  OBVIOUS
<1>2. s = [i \in 1 .. Len(s) |-> s[i]] /\ Len(s) \in Nat
  OBVIOUS
<1>. QED  BY <1>1, <1>2

LEMMA WindowPop ==
  ASSUME NEW v \in Views, NEW b \in Int, NEW t \in Int, t < b
  PROVE  LET c == Window(v, b, t)
         IN  /\ c # <<>> /\ c[Len(c)] = Ref(v, b - 1)
             /\ Window(v, b - 1, t) = SubSeq(c, 1, Len(c) - 1)
<1>. DEFINE c == Window(v, b, t)
            d == Window(v, b - 1, t)
            e == SubSeq(c, 1, Len(c) - 1)
<1>1. /\ c \in Seq(Word) /\ Len(c) = b - t
      /\ \A i \in 1 .. b - t : c[i] = Ref(v, t + i - 1)
  BY WindowSeq
<1>2. /\ d \in Seq(Word) /\ Len(d) = b - t - 1
      /\ \A i \in 1 .. b - t - 1 : d[i] = Ref(v, t + i - 1)
  <2>1. b - 1 \in Int /\ t <= b - 1 /\ (b - 1) - t = b - t - 1
    OBVIOUS
  <2>2. /\ d \in Seq(Word) /\ Len(d) = (b - 1) - t
        /\ \A i \in 1 .. (b - 1) - t : d[i] = Ref(v, t + i - 1)
    BY <2>1, WindowSeq
  <2>. QED  BY <2>1, <2>2
<1>. HIDE DEF c, d
<1>3. /\ e \in Seq(Word) /\ Len(e) = b - t - 1
      /\ \A i \in 1 .. b - t - 1 : e[i] = c[i]
  BY <1>1
<1>. HIDE DEF e
<1>4. d = e
  BY <1>1, <1>2, <1>3, SameElements
<1>5. c # <<>> /\ c[Len(c)] = Ref(v, b - 1)
  <2>1. b - t \in 1 .. b - t /\ t + (b - t) - 1 = b - 1
    OBVIOUS
  <2>. QED  BY <1>1, <2>1
<1>. QED  BY <1>4, <1>5 DEF c, d, e

LEMMA WindowSteal ==
  ASSUME NEW v \in Views, NEW b \in Int, NEW t \in Int, t < b
  PROVE  LET c == Window(v, b, t)
         IN  /\ c # <<>> /\ Head(c) = Ref(v, t)
             /\ Window(v, b, t + 1) = Tail(c)
<1>. DEFINE c == Window(v, b, t)
            d == Window(v, b, t + 1)
            e == Tail(c)
<1>1. /\ c \in Seq(Word) /\ Len(c) = b - t
      /\ \A i \in 1 .. b - t : c[i] = Ref(v, t + i - 1)
  BY WindowSeq
<1>2. /\ d \in Seq(Word) /\ Len(d) = b - t - 1
      /\ \A i \in 1 .. b - t - 1 : d[i] = Ref(v, t + i)
  <2>1. t + 1 \in Int /\ t + 1 <= b /\ b - (t + 1) = b - t - 1
    OBVIOUS
  <2>2. \A i \in Int : (t + 1) + i - 1 = t + i
    OBVIOUS
  <2>. QED  BY <2>1, <2>2, WindowSeq
<1>. HIDE DEF c, d
<1>3. /\ e \in Seq(Word) /\ Len(e) = b - t - 1
      /\ \A i \in 1 .. b - t - 1 : e[i] = c[i + 1]
  BY <1>1
<1>. HIDE DEF e
<1>4. \A i \in 1 .. b - t - 1 : c[i + 1] = Ref(v, t + i)
  <2>1. \A i \in 1 .. b - t - 1 : i + 1 \in 1 .. b - t /\ t + (i + 1) - 1 = t + i
    OBVIOUS
  <2>. QED  BY <1>1, <2>1
<1>5. d = e
  BY <1>2, <1>3, <1>4, SameElements
<1>6. c # <<>> /\ Head(c) = Ref(v, t)
  <2>1. 1 \in 1 .. b - t /\ t + 1 - 1 = t
    OBVIOUS
  <2>. QED  BY <1>1, <2>1
<1>. QED  BY <1>5, <1>6 DEF c, d, e

\* The references that a push adds, and a view that has them.
Fresh(p, count) == [i \in 1 .. count |-> p + i]
Holds(w, b, p, count) == \A j \in 1 .. count : Ref(w, b + j - 1) = p + j

LEMMA WindowPush ==
  ASSUME NEW v \in Views, NEW w \in Views, NEW b \in Int, NEW t \in Int, t <= b,
         NEW count \in Nat, NEW p \in Nat, Keeps(v, w, t, b), Holds(w, b, p, count)
  PROVE  Window(w, b + count, t) = Window(v, b, t) \o Fresh(p, count)
<1>. DEFINE c == Window(v, b, t)
            d == Window(w, b + count, t)
            r == Fresh(p, count)
            e == c \o r
<1>1. /\ c \in Seq(Word) /\ Len(c) = b - t
      /\ \A i \in 1 .. b - t : c[i] = Ref(v, t + i - 1)
  BY WindowSeq
<1>2. /\ d \in Seq(Word) /\ Len(d) = b + count - t
      /\ \A i \in 1 .. b + count - t : d[i] = Ref(w, t + i - 1)
  <2>1. b + count \in Int /\ t <= b + count
    OBVIOUS
  <2>. QED  BY <2>1, WindowSeq
<1>3. r \in Seq(Nat) /\ Len(r) = count /\ \A i \in 1 .. count : r[i] = p + i
  BY DEF Fresh
<1>. HIDE DEF c, d, r
<1>. DEFINE S == Word \cup Nat
<1>4. c \in Seq(S) /\ r \in Seq(S) /\ d \in Seq(S)
  BY <1>1, <1>2, <1>3, WiderSeq
<1>. HIDE DEF S
<1>5. /\ e \in Seq(S) /\ Len(e) = Len(c) + Len(r)
      /\ \A n \in 1 .. Len(c) : e[n] = c[n]
      /\ \A n \in 1 .. Len(r) : e[Len(c) + n] = r[n]
  BY <1>4, Concat
<1>. HIDE DEF e
<1>6. ASSUME NEW i \in 1 .. b + count - t
      PROVE  d[i] = e[i]
  <2>1. CASE i <= b - t
    <3>1. i \in 1 .. b - t /\ t + i - 1 \in t .. b - 1
      BY <2>1
    <3>. QED  BY <1>1, <1>2, <1>5, <3>1 DEF Keeps
  <2>2. CASE i > b - t
    <3>1. PICK j \in 1 .. count : i = (b - t) + j
      <4>1. i - (b - t) \in 1 .. count /\ i = (b - t) + (i - (b - t))
        BY <2>2
      <4>. QED  BY <4>1
    <3>2. t + i - 1 = b + j - 1
      BY <3>1
    <3>3. d[i] = p + j
      BY <1>2, <3>1, <3>2 DEF Holds
    <3>4. e[i] = p + j
      BY <1>1, <1>3, <1>5, <3>1
    <3>. QED  BY <3>3, <3>4
  <2>. QED  BY <2>1, <2>2
<1>7. Len(d) = Len(e)
  BY <1>1, <1>2, <1>3, <1>5
<1>8. d = e
  BY <1>2, <1>4, <1>5, <1>6, <1>7, SameElements
<1>. QED  BY <1>8 DEF c, d, r, e

LEMMA WindowKeeps ==
  ASSUME NEW v, NEW w, NEW b, NEW t \in Int, NEW c \in Int,
         b = c, Keeps(v, w, t, c)
  PROVE  Window(w, b, t) = Window(v, b, t)
<1>1. \A i \in 1 .. b - t : t + i - 1 \in t .. b - 1
  OBVIOUS
<1>. QED  BY <1>1 DEF Window, Keeps
--------------------------------------------------------------------------------
\* The sequence that the deque stands for, now and after a step.
LEMMA ContentsNow ==
  ASSUME IInv
  PROVE  Contents = Window(Shared, Bottom(1), top)
<1>1. Shared = views[1]
  BY Typed DEF IInv
<1>. QED  BY <1>1 DEF Contents, Window, Ref, Slot, Undecided, Bottom, Fenced

LEMMA ContentsNext ==
  ASSUME IInv'
  PROVE  Contents' = Window(Shared, Bottom(1), top)'
<1>1. Shared' = views'[1]
  BY DEF IInv, TypeOK, Shared
<1>. QED  BY <1>1 DEF Contents, Window, Ref, Slot, Undecided, Bottom, Fenced

\* A step after which it is the same sequence, as far as the abstract deque goes.
LEMMA SameDeque ==
  ASSUME Contents' = Contents, Shared'.pushed = Shared.pushed, taken' = taken
  PROVE  UNCHANGED Deque!deque_vars
BY DEF Deque!deque_vars

\* The oldest view is the one that there is, or stays the oldest.
LEMMA Appending ==
  ASSUME IInv, IInv', NEW new \in Seq(Views), Len(new) > 0, views' = views \o new
  PROVE  /\ Shared' = Shared
         /\ Bottom(1)' = views[1].bottom
<1>1. views \in Seq(Views) /\ Len(views) \in Nat \ {0} /\ Shared = views[1]
      /\ 1 \in 1 .. Len(views)
  BY Typed DEF IInv, TypeOK
<1>2. views'[1] = views[1] /\ Len(views') > 1 /\ views' \in Seq(Views)
  BY <1>1, Concat
<1>3. Shared' = views'[1]
  BY <1>2 DEF Shared
<1>. QED  BY <1>1, <1>2, <1>3 DEF Bottom

LEMMA PushRefines ==
  ASSUME IInv, IInv', NEW count \in 1 .. MaxBatch, Push(count), owner'.at # "crash"
  PROVE  UNCHANGED Deque!deque_vars
<1>1. UNCHANGED <<top, taken>> /\ owner.at = "idle"
  BY PushStep
<1>2. PICK new : views' = views \o new /\ Pushes(Owned, new, count, top)
  BY PushStep
<1>3. new \in Seq(Views) /\ Len(new) > 0
  BY <1>2 DEF Pushes
<1>4. Shared' = Shared /\ Bottom(1)' = views[1].bottom
  BY <1>2, <1>3, Appending
<1>5. Bottom(1)' = Bottom(1)
  BY <1>1, <1>4 DEF Bottom
<1>. QED  BY <1>1, <1>4, <1>5, ContentsNow, ContentsNext, SameDeque DEF Window

LEMMA TryPopRefines ==
  ASSUME IInv, IInv', TryPop
  PROVE  UNCHANGED Deque!deque_vars
<1>1. UNCHANGED <<top, taken>> /\ owner.at = "idle"
  BY DEF TryPop
<1>2. TypeOK /\ Owned.bottom - 1 \in Int
  BY Typed DEF IInv
<1>3. PICK w \in Views : views' = Append(views, w)
  BY <1>2, StoreBottomStep DEF TryPop
<1>4. views' = views \o <<w>> /\ <<w>> \in Seq(Views) /\ Len(<<w>>) > 0
  BY <1>2, <1>3 DEF TypeOK
<1>5. Shared' = Shared /\ Bottom(1)' = views[1].bottom
  BY <1>4, Appending
<1>6. Bottom(1)' = Bottom(1)
  BY <1>1, <1>5 DEF Bottom
<1>. QED  BY <1>1, <1>5, <1>6, ContentsNow, ContentsNext, SameDeque DEF Window

\* Giving the claim back leaves the view that shows it the oldest.
LEMMA GiveBackShared ==
  ASSUME IInv, IInv', Fenced, NEW b \in Int, GiveBack(b)
  PROVE  Shared' = Shared /\ Bottom(1)' = Shared.bottom
<1>1. TypeOK /\ Shared = views[1]
  BY Typed DEF IInv
<1>2. PICK w \in Views : views' = Append(views, w)
  BY <1>1, StoreBottomStep DEF GiveBack
<1>3. views' = views \o <<w>> /\ <<w>> \in Seq(Views) /\ Len(<<w>>) > 0
  BY <1>1, <1>2 DEF TypeOK
<1>. QED  BY <1>1, <1>3, Appending

\* With all stores visible there is one view, and a claim makes it one longer.
LEMMA OneView ==
  ASSUME IInv, Fenced, owner.at \in {"fence", "cas"}
  PROVE  /\ Len(views) = 1 /\ Owned = Shared /\ Shared = views[1]
         /\ Shared \in Views /\ Shared.bottom \in Int
         /\ Bottom(1) = Shared.bottom + 1
         /\ top \in Nat /\ top <= Bottom(1)
<1>1. TypeOK /\ EndInv /\ Len(views) = 1
  BY DEF IInv, Fenced
<1>2. Owned = Shared /\ Shared = views[1] /\ Shared \in Views
      /\ Shared.bottom \in Int
  BY <1>1, Typed
<1>3. Bottom(1) = Shared.bottom + 1
  BY <1>1, <1>2 DEF Bottom
<1>. QED  BY <1>1, <1>2, <1>3 DEF TypeOK, EndInv

LEMMA PopRefines ==
  ASSUME IInv, IInv', Pop
  PROVE  Deque!PopBottom \/ UNCHANGED Deque!deque_vars
<1>. DEFINE b == Owned.bottom + 1
<1>2. owner.at = "fence" /\ Fenced /\ UNCHANGED <<top, thief>>
  BY DEF Pop, Fence
<1>3. /\ Len(views) = 1 /\ Owned = Shared /\ Shared = views[1]
      /\ Shared \in Views /\ Shared.bottom \in Int /\ Bottom(1) = b
      /\ b \in Int /\ top \in Nat /\ top <= b /\ b - 1 = Shared.bottom
  BY <1>2, OneView
<1>. HIDE DEF b
<1>4. CASE /\ b - top > 1
           /\ Take(shared_worklist_buf_get(Owned, Owned.active, b - 1))
           /\ owner' = OwnerIdle
           /\ UNCHANGED views
  <2>1. Shared' = Shared /\ Bottom(1)' = b - 1
    BY <1>3, <1>4 DEF Shared, Bottom, OwnerIdle
  <2>2. Contents' = Window(Shared, b - 1, top) /\ Contents = Window(Shared, b, top)
    BY <1>2, <1>3, <2>1, ContentsNow, ContentsNext DEF Window
  <2>3. /\ Contents # <<>> /\ Contents[Len(Contents)] = Ref(Shared, b - 1)
        /\ Contents' = SubSeq(Contents, 1, Len(Contents) - 1)
    BY <1>3, <1>4, <2>2, WindowPop
  <2>4. Take(Ref(Shared, b - 1))
    BY <1>3, <1>4 DEF Ref, Slot
  <2>. QED  BY <2>1, <2>3, <2>4 DEF Deque!PopBottom, Deque!Take, Take
<1>5. CASE /\ b - top = 1
           /\ owner' = [at |-> "cas", t |-> top]
           /\ UNCHANGED <<views, taken>>
  <2>1. Shared' = Shared /\ Bottom(1)' = Bottom(1)
    BY <1>2, <1>5 DEF Shared, Bottom
  <2>. QED  BY <1>2, <1>5, <2>1, ContentsNow, ContentsNext, SameDeque DEF Window
<1>6. CASE b - top <= 0 /\ GiveBack(b) /\ owner' = OwnerIdle /\ UNCHANGED taken
  <2>1. Shared' = Shared /\ Bottom(1)' = b - 1
    BY <1>2, <1>3, <1>6, GiveBackShared
  <2>2. Contents' = Window(Shared, b - 1, top) /\ Contents = Window(Shared, b, top)
    BY <1>2, <1>3, <2>1, ContentsNow, ContentsNext DEF Window
  <2>3. b <= top /\ b - 1 <= top /\ b - 1 \in Int
    BY <1>3, <1>6
  <2>4. Contents' = <<>> /\ Contents = <<>>
    BY <1>3, <2>2, <2>3, WindowSeq
  <2>. QED  BY <1>6, <2>1, <2>4, SameDeque
<1>. QED  BY <1>4, <1>5, <1>6 DEF Pop, b

LEMMA PopLastRefines ==
  ASSUME IInv, IInv', PopLast
  PROVE  Deque!PopBottom \/ UNCHANGED Deque!deque_vars
<1>. DEFINE b == Owned.bottom + 1
<1>1. TypeOK /\ OwnerInv
  BY DEF IInv
<1>2. owner.at = "cas" /\ GiveBack(b) /\ UNCHANGED thief
  BY DEF PopLast
<1>3. /\ Fenced /\ Owned = Shared /\ Shared = views[1]
      /\ Shared \in Views /\ Shared.bottom \in Int /\ Bottom(1) = b
      /\ b \in Int /\ top \in Nat /\ top <= b /\ b - 1 = Shared.bottom
      /\ owner.t \in Nat /\ owner.t <= top /\ b = owner.t + 1
  <2>1. Fenced /\ owner.t <= top /\ Bottom(1) = owner.t + 1 /\ owner.t \in Nat
    BY <1>1, <1>2 DEF OwnerInv, TypeOK
  <2>. QED  BY <1>2, <2>1, OneView
<1>. HIDE DEF b
<1>4. Shared' = Shared /\ Bottom(1)' = b - 1
  BY <1>2, <1>3, GiveBackShared
<1>5. Contents = Window(Shared, b, top) /\ Contents' = Window(Shared, b - 1, top')
  BY <1>3, <1>4, ContentsNow, ContentsNext DEF Window
<1>6. CASE /\ top = owner.t /\ top' = top + 1
           /\ Take(shared_worklist_buf_get(Owned, Owned.active, b - 1))
  <2>1. /\ top \in Int /\ top' \in Int /\ b \in Int /\ b - 1 \in Int
        /\ top < b /\ b - 1 <= top' /\ b - 1 <= top
    BY <1>3, <1>6
  <2>2. /\ Contents # <<>> /\ Contents[Len(Contents)] = Ref(Shared, b - 1)
        /\ SubSeq(Contents, 1, Len(Contents) - 1) = Window(Shared, b - 1, top)
    BY <1>3, <1>5, <2>1, WindowPop
  <2>3. Contents' = <<>> /\ Window(Shared, b - 1, top) = <<>>
    BY <1>3, <1>5, <1>6, <2>1, WindowSeq
  <2>4. Take(Ref(Shared, b - 1))
    BY <1>3, <1>6 DEF Ref, Slot
  <2>. QED  BY <1>4, <2>2, <2>3, <2>4 DEF Deque!PopBottom, Deque!Take, Take
<1>7. CASE top # owner.t /\ UNCHANGED <<top, taken>>
  <2>1. b <= top /\ b - 1 <= top /\ b - 1 \in Int
    BY <1>3, <1>7
  <2>2. Contents' = <<>> /\ Contents = <<>>
    BY <1>3, <1>5, <1>7, <2>1, WindowSeq
  <2>. QED  BY <1>4, <1>7, <2>2, SameDeque
<1>. QED  BY <1>6, <1>7 DEF PopLast, b

LEMMA ReleaseRefines ==
  ASSUME IInv, IInv', Release
  PROVE  UNCHANGED Deque!deque_vars
<1>1. /\ UNCHANGED <<top, owner, taken>> /\ owner.at = "idle"
      /\ Len(views) = 1 /\ Owned.bottom = top
  BY DEF Release, Fenced
<1>2. Owned \in Views /\ Owned = Shared /\ Shared = views[1] /\ top \in Nat
  BY <1>1, Typed DEF IInv, TypeOK
<1>. DEFINE c == [k \in Bufs |-> [i \in DOMAIN Owned.cells[k] |-> Null]]
            w == [Owned EXCEPT !.cells = c]
<1>3. w.bottom = Owned.bottom /\ w.pushed = Owned.pushed
  <2>. HIDE DEF c
  <2>. QED  BY <1>2 DEF Views
<1>4. views' = <<w>>
  BY DEF Release
<1>. HIDE DEF w
<1>5. Shared' = w /\ Bottom(1)' = w.bottom
  BY <1>1, <1>4 DEF Shared, Bottom
<1>6. Bottom(1) = top
  BY <1>1, <1>2 DEF Bottom
<1>7. Shared' \in Views
  BY Typed DEF IInv, TypeOK, Shared
<1>8. Contents = <<>>
  BY <1>2, <1>6, ContentsNow, WindowSeq
<1>9. Contents' = Window(w, top, top)
  BY <1>1, <1>3, <1>5, ContentsNow, ContentsNext DEF Window
<1>10. Window(w, top, top) = <<>>
  <2>1. 1 .. top - top = {}
    BY <1>2
  <2>. QED  BY <2>1 DEF Window
<1>. QED  BY <1>1, <1>2, <1>3, <1>5, <1>8, <1>9, <1>10, SameDeque

\* When a store of bottom becomes visible, so do the references before it; when
\* a claim does, nothing changes, as a claim counts as long as it is pending.
LEMMA FlushRefines ==
  ASSUME IInv, IInv', Flush
  PROVE  Deque!PushBottom \/ UNCHANGED Deque!deque_vars
<1>. DEFINE v == views[1]
            w == views[2]
<1>1. TypeOK /\ StepInv /\ OwnerInv /\ top \in Nat /\ top \in Int
  BY DEF IInv, TypeOK
<1>2. /\ Len(views) \in Nat /\ Len(views) > 1 /\ views \in Seq(Views)
      /\ ~Fenced
      /\ views' = Tail(views) /\ UNCHANGED <<top, owner, taken>>
  <2>1. PICK N \in Nat \ {0} : N = Len(views)
    BY <1>1, Typed
  <2>2. views \in Seq(Views)
    BY <1>1 DEF TypeOK
  <2>3. ~Fenced
    BY DEF Flush
  <2>4. views' = Tail(views) /\ UNCHANGED <<top, owner, taken>>
    BY DEF Flush
  <2>5. Len(views) > 1
    BY <2>1, <2>3 DEF Fenced
  <2>. QED  BY <2>1, <2>2, <2>3, <2>4, <2>5
<1>3. /\ v \in Views /\ w \in Views
      /\ v.bottom \in Int /\ w.bottom \in Int
      /\ v.pushed \in Nat /\ w.pushed \in Nat
  <2>1. 1 \in 1 .. Len(views) /\ 2 \in 1 .. Len(views)
    BY <1>2
  <2>. QED  BY <1>1, <2>1, Typed
<1>4. Shared = v /\ Bottom(1) = v.bottom
  BY <1>1, <1>2, Typed DEF Bottom
<1>5. Shared' = w
  <2>1. views' \in Seq(Views) /\ views'[1] = views[1 + 1] /\ views' # <<>>
    <3>1. 1 \in 1 .. Len(views) - 1
      BY <1>2
    <3>. QED  BY <1>2, <3>1, Rest
  <2>. QED  BY <2>1 DEF Shared
<1>6. owner.at # "cas"
  BY <1>1, <1>2 DEF OwnerInv
<1>7. Bottom(1)' = IF Len(views) = 2 /\ owner.at = "fence" THEN w.bottom + 1
                   ELSE w.bottom
  <2>1. Len(views)' = Len(views) - 1 /\ views'[1] = w
    <3>1. 1 \in 1 .. Len(views) - 1 /\ 1 + 1 = 2
      BY <1>2
    <3>. QED  BY <1>2, <3>1, Rest
  <2>2. 1 = Len(views)' <=> Len(views) = 2
    BY <1>2, <2>1
  <2>. QED  BY <1>2, <1>6, <2>1, <2>2 DEF Bottom
<1>8. /\ IF Len(views) = 2 /\ owner.at = "fence" THEN Claim(v, w)
         ELSE Same(v, w) \/ Pushed(v, w) \/ Back(v, w)
      /\ Keeps(v, w, top, v.bottom)
  <2>1. 1 \in 1 .. Len(views) - 1 /\ 1 + 1 = 2
    BY <1>2
  <2>. QED  BY <1>1, <2>1 DEF StepInv
<1>9. Contents = Window(v, v.bottom, top) /\ Contents' = Window(w, Bottom(1)', top)
  BY <1>2, <1>4, <1>5, ContentsNow, ContentsNext DEF Window
<1>. HIDE DEF v, w
<1>10. CASE Bottom(1)' = v.bottom /\ w.pushed = v.pushed
  <2>1. Contents' = Contents
    BY <1>1, <1>3, <1>8, <1>9, <1>10, WindowKeeps
  <2>. QED  BY <1>2, <1>4, <1>5, <1>10, <2>1, SameDeque
<1>11. CASE Bottom(1)' = w.bottom /\ Back(v, w)
  <2>1. w.bottom <= top /\ v.bottom <= top /\ w.pushed = v.pushed
    BY <1>1, <1>3, <1>11 DEF Back
  <2>2. Contents' = <<>> /\ Contents = <<>>
    BY <1>1, <1>3, <1>9, <1>11, <2>1, WindowSeq
  <2>. QED  BY <1>2, <1>4, <1>5, <2>1, <2>2, SameDeque
<1>12. CASE Bottom(1)' = w.bottom /\ Pushed(v, w)
  <2>. DEFINE d == w.pushed - v.pushed
  <2>1. /\ d \in Nat /\ w.bottom = v.bottom + d /\ top <= v.bottom
        /\ w.pushed > v.pushed
        /\ Holds(w, v.bottom, v.pushed, d)
    BY <1>3, <1>12 DEF Pushed, Holds
  <2>. HIDE DEF d
  <2>2. Contents' = Window(w, v.bottom + d, top)
    BY <1>9, <1>12, <2>1
  <2>3. Window(w, v.bottom + d, top)
          = Window(v, v.bottom, top) \o Fresh(v.pushed, d)
    <3>1. Keeps(v, w, top, v.bottom)
      BY <1>8
    <3>2. v \in Views /\ w \in Views /\ v.bottom \in Int /\ v.pushed \in Nat
      BY <1>1, <1>3
    <3>3. PICK b \in Int, p \in Nat : b = v.bottom /\ p = v.pushed
      BY <3>2
    <3>4. Keeps(v, w, top, b) /\ Holds(w, b, p, d) /\ top <= b
      BY <2>1, <3>1, <3>3
    <3>5. Window(w, b + d, top) = Window(v, b, top) \o Fresh(p, d)
      BY <1>1, <1>3, <2>1, <3>2, <3>4, WindowPush
    <3>. QED  BY <3>3, <3>5
  <2>4. Contents' = Contents \o Fresh(v.pushed, d)
    BY <1>9, <2>2, <2>3
  <2>. QED  BY <1>2, <1>4, <1>5, <2>1, <2>4 DEF Deque!PushBottom, d, Fresh
<1>13. Same(v, w) => w.bottom = v.bottom /\ w.pushed = v.pushed
  BY DEF Same
<1>14. Claim(v, w) => w.bottom + 1 = v.bottom /\ w.pushed = v.pushed
  BY <1>3 DEF Claim
<1>. QED  BY <1>7, <1>8, <1>10, <1>11, <1>12, <1>13, <1>14

LEMMA StillRefines ==
  ASSUME UNCHANGED <<views, top, taken>>,
         Undecided' = Undecided
  PROVE  UNCHANGED Deque!deque_vars
BY DEF Deque!deque_vars, Contents, Shared

LEMMA CompareAndSwapRefines ==
  ASSUME IInv, IInv', NEW w \in Thieves, CompareAndSwap(w)
  PROVE  Deque!StealTop \/ UNCHANGED Deque!deque_vars
<1>1. thief[w].at = "cas" /\ UNCHANGED <<views, owner>>
  BY DEF CompareAndSwap, At
<1>2. /\ Shared \in Views /\ Bottom(1) \in Int /\ top \in Int
      /\ Shared' = Shared /\ Bottom(1)' = Bottom(1)
  BY <1>1, Typed DEF IInv, TypeOK, Shared, Bottom
<1>3. CASE top = thief[w].t /\ top' = top + 1 /\ Take(thief[w].ref)
  <2>1. top < Bottom(1) /\ thief[w].ref = Ref(Shared, top)
    BY <1>1, <1>3 DEF IInv, ThiefInv
  <2>2. /\ Contents = Window(Shared, Bottom(1), top)
        /\ Contents' = Window(Shared, Bottom(1), top + 1)
    BY <1>2, <1>3, ContentsNow, ContentsNext DEF Window
  <2>3. Contents # <<>> /\ Head(Contents) = Ref(Shared, top) /\ Contents' = Tail(Contents)
    BY <1>2, <2>1, <2>2, WindowSteal
  <2>. QED  BY <1>2, <1>3, <2>1, <2>3 DEF Deque!StealTop, Deque!Take, Take
<1>4. CASE UNCHANGED <<top, taken>>
  <2>1. Contents' = Contents
    BY <1>2, <1>4, ContentsNow, ContentsNext DEF Window
  <2>. QED  BY <1>2, <1>4, <2>1, SameDeque
<1>. QED  BY <1>3, <1>4 DEF CompareAndSwap

LEMMA StepRefines ==
  ASSUME IInv, IInv', [Next]_vars
  PROVE  [\/ Deque!PushBottom \/ Deque!PopBottom \/ Deque!StealTop]_(Deque!deque_vars)
<1>1. ASSUME NEW count \in 1 .. MaxBatch, Push(count)
      PROVE  UNCHANGED Deque!deque_vars
  <2>1. CASE owner'.at = "crash"
    <3>1. UNCHANGED <<views, top, taken>> /\ owner.at = "idle"
      BY <1>1, <2>1, CrashStep
    <3>. QED  BY <2>1, <3>1, StillRefines DEF Undecided
  <2>2. CASE owner'.at # "crash"
    BY <1>1, <2>2, PushRefines
  <2>. QED  BY <2>1, <2>2
<1>2. CASE TryPop
  BY <1>2, TryPopRefines
<1>3. CASE Pop
  BY <1>3, PopRefines
<1>4. CASE PopLast
  BY <1>4, PopLastRefines
<1>5. CASE Release
  BY <1>5, ReleaseRefines
<1>6. CASE Flush
  BY <1>6, FlushRefines
<1>7. ASSUME NEW w \in Thieves, LoadTop(w) \/ LoadBottom(w) \/ LoadActive(w) \/ Get(w)
      PROVE  UNCHANGED Deque!deque_vars
  <2>1. UNCHANGED <<views, top, owner, taken>>
    BY <1>7 DEF LoadTop, LoadBottom, LoadActive, Get
  <2>. QED  BY <2>1, StillRefines DEF Undecided, Fenced
<1>8. ASSUME NEW w \in Thieves, CompareAndSwap(w)
      PROVE  Deque!StealTop \/ UNCHANGED Deque!deque_vars
  BY <1>8, CompareAndSwapRefines
<1>9. CASE UNCHANGED vars
  BY <1>9, StillRefines DEF vars, Undecided, Fenced
<1>. QED  BY <1>1, <1>2, <1>3, <1>4, <1>5, <1>6, <1>7, <1>8, <1>9 DEF Next

LEMMA InitDeque ==
  ASSUME Init
  PROVE  Contents = <<>> /\ Shared.pushed = 0
<1>1. top = 0 /\ Len(views) = 1 /\ views[1].bottom = 0 /\ views[1].pushed = 0
      /\ Shared = views[1] /\ owner.at = "idle"
  BY DEF Init, Shared, OwnerIdle
<1>2. Bottom(1) = 0
  BY <1>1 DEF Bottom
<1>3. Shared \in Views
  BY <1>1, InitIInv, Typed DEF IInv
<1>. QED  BY <1>1, <1>2, <1>3, InitIInv, ContentsNow, WindowSeq

\* The shared worklist implements module WorkDeque, whatever the owner and the
\* thieves do and in whatever order their loads and the owner's stores are seen:
\* a reference goes in at the bottom, and comes out once, at the bottom for the
\* owner and at the top for a thief.
THEOREM DequeImplemented == Spec => ImplementsDeque
<1>1. Init => Deque!DequeInit
  <2>1. Init => taken = [r \in DOMAIN taken |-> 0]
    BY DEF Init
  <2>. QED  BY <2>1, InitDeque DEF Deque!DequeInit
<1>. QED  BY <1>1, StepRefines, InvariantHolds, PTL
          DEF Spec, ImplementsDeque, Deque!DequeSpec
--------------------------------------------------------------------------------
\* What a deque is for: what has been pushed is in it, or has been taken once.
Accounted(c, p, tk) ==
  /\ c \in Seq(Refs) /\ p \in Nat /\ tk \in [Refs -> Nat]
  /\ \A i \in 1 .. Len(c) : c[i] <= p /\ tk[c[i]] = 0
  /\ \A i, j \in 1 .. Len(c) : i # j => c[i] # c[j]
  /\ \A r \in Refs : tk[r] <= 1
  /\ \A r \in Refs : r <= p /\ tk[r] = 0 => \E i \in 1 .. Len(c) : c[i] = r
  /\ \A r \in Refs : r > p => tk[r] = 0

LEMMA AccountedPush ==
  ASSUME NEW c, NEW p, NEW tk, Accounted(c, p, tk),
         NEW q \in Nat, q > p, q <= MaxPush
  PROVE  Accounted(c \o [i \in 1 .. q - p |-> p + i], q, tk)
<1>. DEFINE f == [i \in 1 .. q - p |-> p + i]
            d == c \o f
<1>1. c \in Seq(Refs) /\ p \in Nat /\ tk \in [Refs -> Nat] /\ MaxPush \in Nat
  BY WorklistAssumption DEF Accounted
<1>2. f \in Seq(Refs) /\ Len(f) = q - p /\ \A i \in 1 .. q - p : f[i] = p + i
  BY <1>1 DEF Refs
<1>. HIDE DEF f
<1>3. /\ d \in Seq(Refs) /\ Len(d) = Len(c) + (q - p)
      /\ \A i \in 1 .. Len(c) : d[i] = c[i]
      /\ \A i \in 1 .. q - p : d[Len(c) + i] = p + i
  <2>1. /\ d \in Seq(Refs) /\ Len(d) = Len(c) + Len(f)
        /\ \A i \in 1 .. Len(c) : d[i] = c[i]
        /\ \A i \in 1 .. Len(f) : d[Len(c) + i] = f[i]
    <3>1. c \in Seq(Refs) /\ f \in Seq(Refs)
      BY <1>1, <1>2
    <3>2. /\ d \in Seq(Refs) /\ Len(d) = Len(c) + Len(f)
      BY <3>1, Concat
    <3>3. \A i \in 1 .. Len(c) : d[i] = c[i]
      BY <3>1, Concat
    <3>4. \A i \in 1 .. Len(f) : d[Len(c) + i] = f[i]
      BY <3>1, Concat
    <3>. QED  BY <3>2, <3>3, <3>4
  <2>. QED  BY <1>2, <2>1
<1>4. \A i \in 1 .. Len(d) : \/ i \in 1 .. Len(c) /\ d[i] = c[i]
                             \/ i > Len(c) /\ d[i] = p + (i - Len(c))
  <2>. SUFFICES ASSUME NEW i \in 1 .. Len(d), i > Len(c)
                PROVE  d[i] = p + (i - Len(c))
    BY <1>1, <1>3
  <2>1. i - Len(c) \in 1 .. q - p /\ Len(c) + (i - Len(c)) = i
    BY <1>1, <1>3
  <2>. QED  BY <1>3, <2>1
<1>. HIDE DEF d
<1>. DEFINE Old(i) == i \in 1 .. Len(c) /\ d[i] = c[i] /\ d[i] <= p /\ tk[d[i]] = 0
            New(i) == i > Len(c) /\ d[i] = p + (i - Len(c)) /\ d[i] > p
                      /\ d[i] <= q /\ tk[d[i]] = 0
<1>5. \A i \in 1 .. Len(d) : Old(i) \/ New(i)
  <2>. TAKE i \in 1 .. Len(d)
  <2>1. CASE i \in 1 .. Len(c) /\ d[i] = c[i]
    BY <2>1 DEF Accounted
  <2>2. CASE i > Len(c) /\ d[i] = p + (i - Len(c))
    <3>1. d[i] > p /\ d[i] <= q /\ d[i] \in Refs
      BY <1>1, <1>3, <2>2 DEF Refs
    <3>. QED  BY <2>2, <3>1 DEF Accounted
  <2>. QED  BY <1>4, <2>1, <2>2
<1>6. /\ \A i \in 1 .. Len(d) : d[i] <= q /\ tk[d[i]] = 0
      /\ \A i, j \in 1 .. Len(d) : i # j => d[i] # d[j]
  <2>1. ASSUME NEW i \in 1 .. Len(d) PROVE d[i] <= q /\ tk[d[i]] = 0
    <3>1. d[i] \in Refs
      BY <1>3
    <3>. QED  BY <1>1, <1>5, <3>1 DEF Refs
  <2>2. ASSUME NEW i \in 1 .. Len(d), NEW j \in 1 .. Len(d), i # j
        PROVE  d[i] # d[j]
    <3>1. CASE Old(i) /\ Old(j)
      BY <2>2, <3>1 DEF Accounted
    <3>2. CASE (Old(i) /\ New(j)) \/ (New(i) /\ Old(j))
      <4>1. d[i] \in Refs /\ d[j] \in Refs
        BY <1>3
      <4>. QED  BY <1>1, <3>2, <4>1 DEF Refs
    <3>3. CASE New(i) /\ New(j)
      BY <1>1, <2>2, <3>3
    <3>. HIDE DEF Old, New
    <3>. QED  BY <1>5, <3>1, <3>2, <3>3
  <2>. QED  BY <2>1, <2>2
<1>7. ASSUME NEW r \in Refs, r <= q, tk[r] = 0
      PROVE  \E i \in 1 .. Len(d) : d[i] = r
  <2>1. CASE r <= p
    <3>1. PICK i \in 1 .. Len(c) : c[i] = r
      BY <1>7, <2>1 DEF Accounted
    <3>2. i \in 1 .. Len(d) /\ d[i] = r
      BY <1>1, <1>3, <3>1
    <3>. QED  BY <3>2
  <2>2. CASE r > p
    <3>1. /\ r - p \in 1 .. q - p /\ p + (r - p) = r
          /\ Len(c) + (r - p) \in 1 .. Len(d)
      BY <1>1, <1>3, <1>7, <2>2 DEF Refs
    <3>. QED  BY <1>3, <3>1
  <2>. QED  BY <1>1, <2>1, <2>2 DEF Refs
<1>8. \A r \in Refs : tk[r] <= 1 /\ (r > q => tk[r] = 0)
  BY <1>1 DEF Accounted, Refs
<1>9. Accounted(d, q, tk)
  BY <1>1, <1>3, <1>6, <1>7, <1>8 DEF Accounted
<1>. QED  BY <1>9 DEF d, f

\* The n-th of a deque is taken; what is left is the rest, in some order.
Without(c, n, d) ==
  /\ \A i \in 1 .. Len(d) : \E j \in 1 .. Len(c) : j # n /\ d[i] = c[j]
  /\ \A i, j \in 1 .. Len(d) : i # j => d[i] # d[j]
  /\ \A j \in 1 .. Len(c) : j # n => \E i \in 1 .. Len(d) : d[i] = c[j]

LEMMA AccountedTake ==
  ASSUME NEW c, NEW p, NEW tk, Accounted(c, p, tk), NEW n \in 1 .. Len(c),
         NEW d \in Seq(Refs), Without(c, n, d)
  PROVE  Accounted(d, p, [tk EXCEPT ![c[n]] = @ + 1])
<1>. DEFINE t2 == [tk EXCEPT ![c[n]] = @ + 1]
<1>1. c \in Seq(Refs) /\ p \in Nat /\ tk \in [Refs -> Nat]
      /\ c[n] \in Refs /\ c[n] <= p /\ tk[c[n]] = 0
  BY DEF Accounted
<1>2. /\ t2 \in [Refs -> Nat] /\ t2[c[n]] = 1
      /\ \A r \in Refs : r # c[n] => t2[r] = tk[r]
  BY <1>1
<1>. HIDE DEF t2
<1>3. \A i \in 1 .. Len(d) : d[i] <= p /\ t2[d[i]] = 0
  <2>. TAKE i \in 1 .. Len(d)
  <2>1. PICK j \in 1 .. Len(c) : j # n /\ d[i] = c[j]
    BY DEF Without
  <2>2. c[j] \in Refs /\ c[j] # c[n] /\ c[j] <= p /\ tk[c[j]] = 0
    BY <1>1, <2>1 DEF Accounted
  <2>. QED  BY <1>2, <2>1, <2>2
<1>4. \A r \in Refs : t2[r] <= 1
  <2>. SUFFICES ASSUME NEW r \in Refs PROVE t2[r] <= 1
    OBVIOUS
  <2>1. tk[r] <= 1
    BY DEF Accounted
  <2>2. CASE r = c[n]
    BY <1>2, <2>2
  <2>3. CASE r # c[n]
    BY <1>2, <2>1, <2>3
  <2>. QED  BY <2>2, <2>3
<1>5. ASSUME NEW r \in Refs, r <= p, t2[r] = 0
      PROVE  \E i \in 1 .. Len(d) : d[i] = r
  <2>1. r # c[n] /\ tk[r] = 0
    BY <1>1, <1>2, <1>5
  <2>2. PICK j \in 1 .. Len(c) : c[j] = r
    BY <1>5, <2>1 DEF Accounted
  <2>. QED  BY <2>1, <2>2 DEF Without
<1>6. \A r \in Refs : r > p => t2[r] = 0
  <2>. SUFFICES ASSUME NEW r \in Refs, r > p PROVE t2[r] = 0
    OBVIOUS
  <2>1. tk[r] = 0 /\ r # c[n]
    BY <1>1 DEF Accounted, Refs
  <2>. QED  BY <1>2, <2>1
<1>7. \A i, j \in 1 .. Len(d) : i # j => d[i] # d[j]
  BY DEF Without
<1>. QED  BY <1>1, <1>2, <1>3, <1>4, <1>5, <1>6, <1>7 DEF Accounted, t2

LEMMA Front ==
  ASSUME NEW S, NEW s \in Seq(S), s # <<>>
  PROVE  LET t == SubSeq(s, 1, Len(s) - 1)
         IN  /\ t \in Seq(S) /\ Len(t) = Len(s) - 1
             /\ \A i \in 1 .. Len(s) - 1 : t[i] = s[i]
<1>1. PICK n \in Nat : Len(s) = n + 1
  <2>1. Len(s) - 1 \in Nat /\ Len(s) = (Len(s) - 1) + 1
    OBVIOUS
  <2>. QED  BY <2>1, Zenon
<1>. QED  BY <1>1

LEMMA AccountedPop ==
  ASSUME NEW c, NEW p, NEW tk, Accounted(c, p, tk), c # <<>>
  PROVE  Accounted(SubSeq(c, 1, Len(c) - 1), p, [tk EXCEPT ![c[Len(c)]] = @ + 1])
<1>. DEFINE d == SubSeq(c, 1, Len(c) - 1)
            n == Len(c)
<1>1. c \in Seq(Refs) /\ n \in Nat /\ n \in 1 .. n
  BY DEF Accounted
<1>2. d \in Seq(Refs) /\ Len(d) = n - 1 /\ \A i \in 1 .. n - 1 : d[i] = c[i]
  BY <1>1, Front
<1>. HIDE DEF d
<1>3. \A i \in 1 .. Len(d) : \E j \in 1 .. n : j # n /\ d[i] = c[j]
  BY <1>1, <1>2
<1>4. \A i, j \in 1 .. Len(d) : i # j => d[i] # d[j]
  <2>. TAKE i, j \in 1 .. Len(d)
  <2>1. i \in 1 .. n /\ j \in 1 .. n /\ d[i] = c[i] /\ d[j] = c[j]
    BY <1>1, <1>2
  <2>. QED  BY <2>1 DEF Accounted
<1>5. \A j \in 1 .. n : j # n => \E i \in 1 .. Len(d) : d[i] = c[j]
  BY <1>1, <1>2
<1>6. Without(c, n, d)
  BY <1>3, <1>4, <1>5 DEF Without
<1>7. Accounted(d, p, [tk EXCEPT ![c[n]] = @ + 1])
  BY <1>1, <1>2, <1>6, AccountedTake
<1>. QED  BY <1>7 DEF d

LEMMA AccountedSteal ==
  ASSUME NEW c, NEW p, NEW tk, Accounted(c, p, tk), c # <<>>
  PROVE  Accounted(Tail(c), p, [tk EXCEPT ![Head(c)] = @ + 1])
<1>. DEFINE d == Tail(c)
<1>1. c \in Seq(Refs) /\ Len(c) \in Nat /\ 1 \in 1 .. Len(c) /\ Head(c) = c[1]
  BY DEF Accounted
<1>2. d \in Seq(Refs) /\ Len(d) = Len(c) - 1
      /\ \A i \in 1 .. Len(c) - 1 : d[i] = c[i + 1]
  BY <1>1
<1>. HIDE DEF d
<1>3. \A i \in 1 .. Len(d) : \E j \in 1 .. Len(c) : j # 1 /\ d[i] = c[j]
  <2>. TAKE i \in 1 .. Len(d)
  <2>1. i + 1 \in 1 .. Len(c) /\ i + 1 # 1 /\ d[i] = c[i + 1]
    BY <1>1, <1>2
  <2>. QED  BY <2>1
<1>4. \A i, j \in 1 .. Len(d) : i # j => d[i] # d[j]
  <2>. TAKE i, j \in 1 .. Len(d)
  <2>1. i + 1 \in 1 .. Len(c) /\ j + 1 \in 1 .. Len(c) /\ (i # j => i + 1 # j + 1)
        /\ d[i] = c[i + 1] /\ d[j] = c[j + 1]
    BY <1>1, <1>2
  <2>. QED  BY <2>1 DEF Accounted
<1>5. \A j \in 1 .. Len(c) : j # 1 => \E i \in 1 .. Len(d) : d[i] = c[j]
  <2>. SUFFICES ASSUME NEW j \in 1 .. Len(c), j # 1
                PROVE  \E i \in 1 .. Len(d) : d[i] = c[j]
    OBVIOUS
  <2>1. j - 1 \in 1 .. Len(d) /\ (j - 1) + 1 = j /\ j - 1 \in 1 .. Len(c) - 1
    BY <1>1, <1>2
  <2>2. j - 1 \in 1 .. Len(d) /\ d[j - 1] = c[j]
    BY <1>2, <2>1
  <2>. QED  BY <2>2
<1>6. Without(c, 1, d)
  BY <1>3, <1>4, <1>5 DEF Without
<1>7. Accounted(d, p, [tk EXCEPT ![c[1]] = @ + 1])
  BY <1>1, <1>2, <1>6, AccountedTake
<1>. QED  BY <1>1, <1>7 DEF d

TakenInv == Accounted(Contents, Shared.pushed, taken)

LEMMA TakenInvStep ==
  ASSUME IInv, IInv', TakenInv, [Next]_vars
  PROVE  TakenInv'
<1>1. Shared'.pushed \in Nat /\ Shared'.pushed <= MaxPush
  <2>1. Shared \in Views
    BY Typed DEF IInv
  <2>2. Shared' \in Views
    BY DEF IInv, TypeOK, Shared
  <2>. QED  BY <2>2, WorklistAssumption DEF Views
<1>2. CASE Deque!PushBottom
  BY <1>1, <1>2, AccountedPush DEF TakenInv, Deque!PushBottom
<1>3. CASE Deque!PopBottom
  BY <1>3, AccountedPop DEF TakenInv, Deque!PopBottom, Deque!Take
<1>4. CASE Deque!StealTop
  BY <1>4, AccountedSteal DEF TakenInv, Deque!StealTop, Deque!Take
<1>5. CASE UNCHANGED Deque!deque_vars
  BY <1>5 DEF TakenInv, Deque!deque_vars
<1>. QED  BY <1>2, <1>3, <1>4, <1>5, StepRefines

LEMMA TakenInvHolds == Spec => []TakenInv
<1>1. Init => TakenInv
  <2>. SUFFICES ASSUME Init PROVE TakenInv
    OBVIOUS
  <2>1. Contents = <<>> /\ Shared.pushed = 0
    BY InitDeque
  <2>2. taken = [r \in Refs |-> 0]
    BY DEF Init
  <2>. QED  BY <2>1, <2>2 DEF TakenInv, Accounted, Refs
<1>. QED  BY <1>1, TakenInvStep, InvariantHolds, PTL DEF Spec

\* A reference that is pushed is returned to one of those who pop and steal, once.
THEOREM TakenOnce == Spec => [](\A r \in Refs : taken[r] <= 1)
<1>1. TakenInv => \A r \in Refs : taken[r] <= 1
  BY DEF TakenInv, Accounted
<1>. QED  BY <1>1, TakenInvHolds, PTL

--------------------------------------------------------------------------------
\* Taking what is in the deque shows.
LEMMA TakeShows ==
  ASSUME TakenInv, NEW i \in 1 .. Len(Contents), Take(Contents[i])
  PROVE  taken' # taken
<1>1. Contents[i] \in Refs /\ taken \in [Refs -> Nat]
  BY DEF TakenInv, Accounted
<1>2. taken'[Contents[i]] = taken[Contents[i]] + 1 /\ taken[Contents[i]] \in Nat
  BY <1>1 DEF Take
<1>. QED  BY <1>2

LEMMA AllTaken ==
  ASSUME IInv, TakenInv, Contents = <<>>, Owned = Shared
  PROVE  \A r \in 1 .. Owned.pushed : taken[r] = 1
<1>1. Shared.pushed \in Nat /\ Shared.pushed <= MaxPush /\ MaxPush \in Nat
  BY Typed, WorklistAssumption DEF IInv
<1>2. /\ taken \in [Refs -> Nat]
      /\ \A r \in Refs : taken[r] <= 1
      /\ \A r \in Refs : r <= Shared.pushed => taken[r] # 0
  BY DEF TakenInv, Accounted
<1>. SUFFICES ASSUME NEW r \in 1 .. Owned.pushed PROVE taken[r] = 1
  OBVIOUS
<1>3. r \in Refs /\ r <= Shared.pushed
  BY <1>1 DEF Refs
<1>4. taken[r] \in Nat /\ taken[r] <= 1 /\ taken[r] # 0
  BY <1>2, <1>3
<1>. QED  BY <1>4

LEMMA PopNull ==
  ASSUME IInv, TakenInv, Pop, owner'.at = "idle", taken' = taken
  PROVE  \A r \in 1 .. Owned.pushed : taken[r] = 1
<1>. DEFINE b == Owned.bottom + 1
<1>1. owner.at = "fence" /\ Fenced
  BY DEF Pop, Fence
<1>2. /\ Owned = Shared /\ Shared \in Views
      /\ Bottom(1) = b /\ b \in Int /\ top \in Int
  BY <1>1, OneView
<1>. HIDE DEF b
<1>3. Contents = Window(Shared, b, top)
  BY <1>2, ContentsNow
<1>4. ~(b - top > 1 /\ Take(shared_worklist_buf_get(Owned, Owned.active, b - 1)))
  <2>. SUFFICES ASSUME b - top > 1,
                       Take(shared_worklist_buf_get(Owned, Owned.active, b - 1))
                PROVE  FALSE
    OBVIOUS
  <2>1. Contents # <<>> /\ Contents[Len(Contents)] = Ref(Shared, b - 1)
    BY <1>2, <1>3, WindowPop
  <2>2. Take(Contents[Len(Contents)])
    BY <1>2, <2>1 DEF Ref, Slot
  <2>3. Len(Contents) \in 1 .. Len(Contents)
    BY <2>1 DEF TakenInv, Accounted
  <2>. QED  BY <2>2, <2>3, TakeShows
<1>5. b - top <= 0
  BY <1>2, <1>4 DEF Pop, b
<1>6. Contents = <<>>
  BY <1>2, <1>3, <1>5, WindowSeq
<1>. QED  BY <1>2, <1>6, AllTaken

LEMMA PopLastNull ==
  ASSUME IInv, TakenInv, PopLast, taken' = taken
  PROVE  \A r \in 1 .. Owned.pushed : taken[r] = 1
<1>. DEFINE b == Owned.bottom + 1
<1>1. owner.at = "cas" /\ OwnerInv /\ TypeOK
  BY DEF PopLast, IInv
<1>2. Fenced /\ owner.t <= top /\ Bottom(1) = owner.t + 1 /\ owner.t \in Nat
  BY <1>1 DEF OwnerInv, TypeOK
<1>3. /\ Owned = Shared /\ Shared \in Views
      /\ Bottom(1) = b /\ b \in Int /\ top \in Int
  BY <1>1, <1>2, OneView
<1>. HIDE DEF b
<1>4. Contents = Window(Shared, b, top)
  BY <1>3, ContentsNow
<1>5. ~(top = owner.t /\ Take(shared_worklist_buf_get(Owned, Owned.active, b - 1)))
  <2>. SUFFICES ASSUME top = owner.t,
                       Take(shared_worklist_buf_get(Owned, Owned.active, b - 1))
                PROVE  FALSE
    OBVIOUS
  <2>1. top < b
    BY <1>2, <1>3
  <2>2. Contents # <<>> /\ Contents[Len(Contents)] = Ref(Shared, b - 1)
    BY <1>3, <1>4, <2>1, WindowPop
  <2>3. Take(Contents[Len(Contents)])
    BY <1>3, <2>2 DEF Ref, Slot
  <2>4. Len(Contents) \in 1 .. Len(Contents)
    BY <2>2 DEF TakenInv, Accounted
  <2>. QED  BY <2>3, <2>4, TakeShows
<1>6. top # owner.t
  BY <1>5 DEF PopLast, b
<1>7. b <= top
  BY <1>2, <1>3, <1>6
<1>8. Contents = <<>>
  BY <1>3, <1>4, <1>7, WindowSeq
<1>. QED  BY <1>3, <1>8, AllTaken

\* A thief that sees no more than it has seen taken: what there may be beyond is a
\* claim of the owner's.
LEMMA StealNull ==
  ASSUME IInv, NEW w \in Thieves, LoadBottom(w), At(w, "bottom"), thief'[w].at = "idle"
  PROVE  Len(Contents) <= IF Undecided THEN 1 ELSE 0
<1>1. TypeOK /\ ThiefInv
  BY DEF IInv
<1>2. /\ thief[w].t \in Nat /\ thief[w].t <= top /\ top \in Nat
      /\ Shared.bottom \in Int /\ Shared \in Views /\ Shared = views[1]
      /\ Len(views) \in Nat \ {0}
  <2>1. 1 \in 1 .. Len(views)
    BY <1>1, Typed
  <2>2. thief[w].t <= top
    BY <1>1 DEF ThiefInv
  <2>. QED  BY <1>1, <2>1, <2>2, Typed DEF TypeOK
<1>3. Shared.bottom - thief[w].t <= 0
  <2>1. CASE ~(Shared.bottom - thief[w].t <= 0)
    <3>1. thief' = [thief EXCEPT ![w] = [thief[w] EXCEPT !.at = "active"]]
      BY <2>1 DEF LoadBottom, Goes
    <3>2. thief'[w].at = "active"
      BY <1>1, <3>1 DEF TypeOK
    <3>. QED  BY <3>2
  <2>. QED  BY <2>1
<1>4. Shared.bottom <= top
  BY <1>2, <1>3
<1>5. /\ Contents = Window(Shared, Bottom(1), top)
      /\ Bottom(1) = IF Undecided THEN Shared.bottom + 1 ELSE Shared.bottom
  BY <1>2, ContentsNow DEF Bottom, Undecided, Fenced
<1>6. Bottom(1) \in Int /\ top \in Int
  BY <1>2, <1>5
<1>7. CASE Bottom(1) <= top
  BY <1>2, <1>5, <1>6, <1>7, WindowSeq
<1>8. CASE Bottom(1) > top
  <2>1. Undecided /\ Bottom(1) = top + 1
    BY <1>2, <1>4, <1>5, <1>8
  <2>2. PICK b \in Int : b = Bottom(1)
    BY <1>6
  <2>3. Len(Window(Shared, b, top)) = b - top
    BY <1>2, <1>6, <1>8, <2>2, WindowSeq
  <2>. QED  BY <1>5, <1>6, <2>1, <2>2, <2>3
<1>. QED  BY <1>6, <1>7, <1>8

\* When try_pop returns null, everything that was pushed has been taken, and when
\* steal returns null, there is nothing but what the owner is about to take: the
\* tracer, which stops when all its workers have found nothing, may believe both.
THEOREM NullIsEmpty == Spec => NullMeansEmpty
<1>. DEFINE Null1 == owner.at \in {"fence", "cas"} /\ owner'.at = "idle"
                     /\ taken' = taken
                       => \A r \in 1 .. Owned.pushed : taken[r] = 1
            Null2 == \A w \in Thieves : At(w, "bottom") /\ thief'[w].at = "idle" =>
                       Len(Contents) <= IF Undecided THEN 1 ELSE 0
<1>1. ASSUME IInv, TakenInv, Next PROVE Null1
  <2>. SUFFICES ASSUME owner.at \in {"fence", "cas"}, owner'.at = "idle",
                       taken' = taken
                PROVE  \A r \in 1 .. Owned.pushed : taken[r] = 1
    OBVIOUS
  <2>1. CASE Pop
    BY <1>1, <2>1, PopNull
  <2>2. CASE PopLast
    BY <1>1, <2>2, PopLastNull
  <2>3. CASE \/ \E count \in 1 .. MaxBatch : Push(count)
             \/ TryPop \/ Release
    BY <2>3 DEF Push, TryPop, Release
  <2>4. CASE \/ Flush
             \/ \E w \in Thieves : \/ LoadTop(w) \/ LoadBottom(w) \/ LoadActive(w)
                                   \/ Get(w) \/ CompareAndSwap(w)
    BY <2>4 DEF Flush, LoadTop, LoadBottom, LoadActive, Get, CompareAndSwap
  <2>. QED  BY <1>1, <2>1, <2>2, <2>3, <2>4 DEF Next
<1>2. ASSUME IInv, Next PROVE Null2
  <2>. SUFFICES ASSUME NEW w \in Thieves, At(w, "bottom"), thief'[w].at = "idle"
                PROVE  Len(Contents) <= IF Undecided THEN 1 ELSE 0
    OBVIOUS
  <2>1. thief[w].at = "bottom" /\ thief = [x \in Thieves |-> thief[x]]
    BY <1>2 DEF At, IInv, TypeOK
  <2>2. CASE LoadBottom(w)
    BY <1>2, <2>2, StealNull
  <2>3. CASE UNCHANGED thief
    BY <2>1, <2>3
  <2>4. ASSUME NEW u \in Thieves, u # w,
               \/ LoadTop(u) \/ LoadBottom(u) \/ LoadActive(u)
               \/ Get(u) \/ CompareAndSwap(u)
        PROVE  FALSE
    <3>1. \E s : thief' = [thief EXCEPT ![u] = s]
      BY <2>4 DEF LoadTop, LoadBottom, LoadActive, Get, CompareAndSwap, Goes
    <3>2. thief'[w] = thief[w]
      BY <2>1, <2>4, <3>1
    <3>. QED  BY <2>1, <3>2
  <2>5. ASSUME LoadTop(w) \/ LoadActive(w) \/ Get(w) \/ CompareAndSwap(w)
        PROVE  FALSE
    BY <2>1, <2>5 DEF LoadTop, LoadActive, Get, CompareAndSwap, At
  <2>6. \/ UNCHANGED thief
        \/ \E u \in Thieves : \/ LoadTop(u) \/ LoadBottom(u) \/ LoadActive(u)
                              \/ Get(u) \/ CompareAndSwap(u)
    BY <1>2 DEF Next, Push, TryPop, Pop, PopLast, Release, Flush
  <2>. QED  BY <2>2, <2>3, <2>4, <2>5, <2>6
<1>3. ASSUME IInv, TakenInv, [Next]_vars PROVE [Null1 /\ Null2]_vars
  <2>1. CASE Next
    BY <1>1, <1>2, <1>3, <2>1
  <2>. QED  BY <1>3, <2>1
<1>. QED  BY <1>3, InvariantHolds, TakenInvHolds, PTL DEF Spec, NullMeansEmpty
=============================================================================
