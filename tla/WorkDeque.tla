----------------------------- MODULE WorkDeque -----------------------------
(***************************************************************************)
(* What the tracer relies on when it uses a shared worklist: a sequence    *)
(* that its owner appends to and takes from at one end and that thieves    *)
(* take from at the other; what is put in comes out once.  The references  *)
(* are named by the order in which they are pushed.                        *)
(***************************************************************************)
EXTENDS Integers, Sequences

VARIABLES contents,   \* what can be taken, the oldest first
          pushed,     \* how many references have been pushed
          taken       \* taken[r]: how often r has been taken

deque_vars == <<contents, pushed, taken>>

Take(r) == taken' = [taken EXCEPT ![r] = @ + 1]

DequeInit ==
  /\ contents = <<>>
  /\ pushed = 0
  /\ taken = [r \in DOMAIN taken |-> 0]

PushBottom ==
  /\ pushed' > pushed
  /\ contents' = contents \o [i \in 1 .. pushed' - pushed |-> pushed + i]
  /\ UNCHANGED taken

PopBottom ==
  /\ contents # <<>>
  /\ Take(contents[Len(contents)])
  /\ contents' = SubSeq(contents, 1, Len(contents) - 1)
  /\ UNCHANGED pushed

StealTop ==
  /\ contents # <<>>
  /\ Take(Head(contents))
  /\ contents' = Tail(contents)
  /\ UNCHANGED pushed

DequeSpec ==
  DequeInit /\ [][PushBottom \/ PopBottom \/ StealTop]_deque_vars
=============================================================================
