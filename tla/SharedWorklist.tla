--------------------------- MODULE SharedWorklist ---------------------------
(***************************************************************************)
(* The work-stealing deque of a trace worker (shared-worklist.h).          *)
(*                                                                         *)
(* Only the owner stores to bottom, active and the buffers, so memory is   *)
(* modelled as a queue of the owner's views: it sees the last one, having  *)
(* made all its stores, and everyone else sees the first one.  A store     *)
(* appends a view; Flush makes the oldest pending store visible.  That is  *)
(* the order the release fences of push and the acquire loads of steal     *)
(* keep; a sequentially consistent fence waits until nothing is pending.   *)
(*                                                                         *)
(* bottom and top are size_t.  Their values stay far from 2^63, and only   *)
(* differences, read as signed, are compared: they are integers here, and  *)
(* the bottom of an empty deque being popped may be -1.                    *)
(***************************************************************************)
EXTENDS Integers, Sequences, FiniteSets

CONSTANTS Thieves,
          BufMinLogSize,   \* shared_worklist_buf_min_log_size
          BufMaxLogSize,   \* shared_worklist_buf_max_log_size
          MaxBatch,        \* bound on the count given to push_many
          MaxPush,         \* bound on the references pushed
          Null

Refs == 1 .. MaxPush
Bufs == 0 .. BufMaxLogSize - BufMinLogSize
BufSize(k) == 2 ^ (BufMinLogSize + k)

\* push_many compares sizes as unsigned numbers: its count must fit the smallest
\* buffer.  (That powers of two are positive is a fact that the provers do not know.)
ASSUME WorklistAssumption ==
  /\ BufMinLogSize \in Nat
  /\ BufMaxLogSize \in Nat
  /\ BufMinLogSize <= BufMaxLogSize
  /\ \A k \in Bufs : BufSize(k) \in Nat \ {0}
  /\ MaxBatch \in Nat \ {0}
  /\ MaxBatch <= BufSize(0)
  /\ MaxPush \in Nat
  /\ Null \notin Nat

VARIABLES
  views,    \* the owner's stores to the deque, the oldest visible one first
  top,      \* q->top
  owner,    \* where the owner is: [at, t] in try_pop
  thief,    \* where each thief is: [at, t, active, ref] in steal
  taken     \* history: how often each reference was returned

vars == <<views, top, owner, thief, taken>>

Shared == Head(views)
Owned == views[Len(views)]
Fenced == Len(views) = 1

shared_worklist_buf_get(view, k, i) == view.cells[k][i % BufSize(k)]

Idle == [at |-> "idle", t |-> 0, active |-> 0, ref |-> Null]
OwnerIdle == [at |-> "idle", t |-> 0]

Init ==
  /\ views = <<[bottom |-> 0, active |-> 0, pushed |-> 0,
                cells |-> [k \in Bufs |-> [i \in 0 .. BufSize(k) - 1 |-> Null]]]>>
  /\ top = 0
  /\ owner = OwnerIdle
  /\ thief = [w \in Thieves |-> Idle]
  /\ taken = [r \in Refs |-> 0]

Take(r) == taken' = [taken EXCEPT ![r] = @ + 1]

Flush ==
  /\ ~Fenced
  /\ views' = Tail(views)
  /\ UNCHANGED <<top, owner, thief, taken>>

--------------------------------------------------------------------------------
\* The owner.

\* Must the buffer grow before count more references go in?
Full(size, k, count) == size > BufSize(k) - count

\* shared_worklist_grow: copy what is between top and bottom to the next buffer.
\* The copies are nobody's business until active is stored.
shared_worklist_grow(view, t, k) ==
  [view EXCEPT
     !.active = k,
     !.cells[k] = [i \in 0 .. BufSize(k) - 1 |->
                     LET j == t + ((i - t) % BufSize(k))
                     IN  IF j < view.bottom
                         THEN shared_worklist_buf_get(view, view.active, j) ELSE @[i]]]

\* The view when the first n of count references are stored, from slot bottom on.
shared_worklist_buf_put(view, n) ==
  [view EXCEPT
     !.cells[view.active] = [i \in 0 .. BufSize(view.active) - 1 |->
                               LET j == (i - view.bottom) % BufSize(view.active)
                               IN  IF j < n THEN view.pushed + j + 1 ELSE @[i]]]

\* The stores of the references, one by one, and then of bottom.
PushStores(view, count) ==
  [n \in 1 .. count + 1 |->
     IF n <= count THEN shared_worklist_buf_put(view, n)
     ELSE [shared_worklist_buf_put(view, count)
             EXCEPT !.bottom = @ + count, !.pushed = @ + count]]

\* shared_worklist_push (count = 1) and push_many.  Apart from the load of top
\* everything is the owner's own.  The next buffer always has room; if there is
\* none, or no memory for it, the program crashes.
Push(count) ==
  LET size == Owned.bottom - top
      fits == {k \in Owned.active .. BufMaxLogSize - BufMinLogSize :
                 ~Full(size, k, count)}
  IN  /\ owner.at = "idle"
      /\ Owned.pushed + count <= MaxPush
      /\ \/ /\ Owned.active \notin fits
            /\ owner' = [owner EXCEPT !.at = "crash"]
            /\ UNCHANGED views
         \/ \E k \in fits :
              /\ \A j \in fits : k <= j
              /\ views' = IF k = Owned.active
                          THEN views \o PushStores(Owned, count)
                          ELSE LET grown == shared_worklist_grow(Owned, top, k)
                               IN  views \o (<<grown>> \o PushStores(grown, count))
              /\ UNCHANGED owner
      /\ UNCHANGED <<top, thief, taken>>

StoreBottom(b) == views' = Append(views, [Owned EXCEPT !.bottom = b])

\* shared_worklist_try_pop: claim the last slot.
TryPop ==
  /\ owner.at = "idle"
  /\ StoreBottom(Owned.bottom - 1)
  /\ owner' = [owner EXCEPT !.at = "fence"]
  /\ UNCHANGED <<top, thief, taken>>

\* Mutant: no fence between the store of bottom and the load of top.
NoFence == TRUE

\* atomic_thread_fence(memory_order_seq_cst): all stores are visible.
Fence == Fenced

GiveBack(b) == StoreBottom(b)

\* After the fence, with top loaded: the slot is ours, is contended, or empty.
Pop ==
  LET b == Owned.bottom + 1
      size == b - top
  IN  /\ owner.at = "fence" /\ Fence
      /\ \/ /\ size > 1
            /\ Take(shared_worklist_buf_get(Owned, Owned.active, b - 1))
            /\ owner' = OwnerIdle
            /\ UNCHANGED views
         \/ /\ size = 1
            /\ owner' = [at |-> "cas", t |-> top]
            /\ UNCHANGED <<views, taken>>
         \/ /\ size <= 0
            /\ GiveBack(b)
            /\ owner' = OwnerIdle
            /\ UNCHANGED taken
      /\ UNCHANGED <<top, thief>>

\* The race for the last reference.
PopLast ==
  LET b == Owned.bottom + 1
  IN  /\ owner.at = "cas"
      /\ \/ /\ top = owner.t
            /\ top' = top + 1
            /\ Take(shared_worklist_buf_get(Owned, Owned.active, b - 1))
         \/ /\ top # owner.t
            /\ UNCHANGED <<top, taken>>
      /\ GiveBack(b)
      /\ owner' = OwnerIdle
      /\ UNCHANGED thief

\* shared_worklist_release, between traces: the buffers' pages are discarded.
\* (The code keeps small buffers; what is in them does not matter either.)
Release ==
  /\ owner.at = "idle" /\ Fenced
  /\ \A w \in Thieves : thief[w].at = "idle"
  /\ Owned.bottom = top
  /\ views' = <<[Owned EXCEPT !.cells =
                   [k \in Bufs |-> [i \in DOMAIN Owned.cells[k] |-> Null]]]>>
  /\ UNCHANGED <<top, owner, thief, taken>>

--------------------------------------------------------------------------------
\* A thief: shared_worklist_steal, one step per load.

At(w, l) == thief[w].at = l
Goes(w, s) == thief' = [thief EXCEPT ![w] = s]

LoadTop(w) ==
  /\ At(w, "idle") \/ At(w, "retry")
  /\ Goes(w, [Idle EXCEPT !.at = "bottom", !.t = top])
  /\ UNCHANGED <<views, top, owner, taken>>

\* Mutant: give up on a single reference.
LoadBottomTimid(w) ==
  /\ At(w, "bottom")
  /\ Goes(w, IF Shared.bottom - thief[w].t <= 1 THEN Idle
             ELSE [thief[w] EXCEPT !.at = "active"])
  /\ UNCHANGED <<views, top, owner, taken>>

\* Nothing to steal: return null.
LoadBottom(w) ==
  /\ At(w, "bottom")
  /\ Goes(w, IF Shared.bottom - thief[w].t <= 0 THEN Idle
             ELSE [thief[w] EXCEPT !.at = "active"])
  /\ UNCHANGED <<views, top, owner, taken>>

LoadActive(w) ==
  /\ At(w, "active")
  /\ Goes(w, [thief[w] EXCEPT !.at = "get", !.active = Shared.active])
  /\ UNCHANGED <<views, top, owner, taken>>

Get(w) ==
  /\ At(w, "get")
  /\ LET ref == shared_worklist_buf_get(Shared, thief[w].active, thief[w].t)
     IN  Goes(w, [thief[w] EXCEPT !.at = "cas", !.ref = ref])
  /\ UNCHANGED <<views, top, owner, taken>>

\* Take the reference, or start again.
CompareAndSwap(w) ==
  /\ At(w, "cas")
  /\ \/ /\ top = thief[w].t
        /\ top' = top + 1
        /\ Take(thief[w].ref)
        /\ Goes(w, Idle)
     \/ /\ top # thief[w].t
        /\ Goes(w, [Idle EXCEPT !.at = "retry"])
        /\ UNCHANGED <<top, taken>>
  /\ UNCHANGED <<views, owner>>

--------------------------------------------------------------------------------
Next ==
  \/ \E count \in 1 .. MaxBatch : Push(count)
  \/ TryPop \/ Pop \/ PopLast \/ Release \/ Flush
  \/ \E w \in Thieves : \/ LoadTop(w) \/ LoadBottom(w) \/ LoadActive(w)
                        \/ Get(w) \/ CompareAndSwap(w)

Spec == Init /\ [][Next]_vars

--------------------------------------------------------------------------------
\* While the owner is between claiming the last slot and finding out whether it
\* was there to be claimed, the slot still counts as full.
Undecided == owner.at \in {"fence", "cas"} /\ Fenced

Contents ==
  LET b == IF Undecided THEN Shared.bottom + 1 ELSE Shared.bottom
  IN  [i \in 1 .. b - top |->
         shared_worklist_buf_get(Shared, Shared.active, top + i - 1)]

\* The deque is a deque: references come out once each, at the bottom for the
\* owner and at the top for thieves, through growth and wrap-around.
Deque == INSTANCE WorkDeque WITH contents <- Contents, pushed <- Shared.pushed
ImplementsDeque == Deque!DequeSpec

\* try_pop answers null only when every reference pushed has been taken, and
\* steal only when there is nothing to take but what the owner is about to take.
\* Termination detection of the tracer rests on both.
NullMeansEmpty ==
  [][ /\ owner.at \in {"fence", "cas"} /\ owner'.at = "idle" /\ taken' = taken =>
           \A r \in 1 .. Owned.pushed : taken[r] = 1
      /\ \A w \in Thieves : At(w, "bottom") /\ thief'[w].at = "idle" =>
           Len(Contents) <= IF Undecided THEN 1 ELSE 0 ]_vars
================================================================================
