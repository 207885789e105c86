----------------------------- MODULE PageOutQueue -----------------------------
(***************************************************************************)
(* What becomes of the blocks that the nofl space does not need            *)
(* (nofl-space.h).  They wait in a queue of four ages; the background      *)
(* thread is to age them once a second and to return those that reach the  *)
(* end to the operating system, so that a block which is soon needed again *)
(* keeps its memory.  When blocks become unavailable and are reacquired is *)
(* the matter of HeapBudget, and left open here.  Every operation holds    *)
(* the lock of the space.                                                  *)
(***************************************************************************)
EXTENDS Integers, FiniteSetsExt

CONSTANT Blocks

VARIABLES empty, used,  \* blocks that are available
          paged_out,    \* unavailable blocks, by age
          flagged,      \* blocks with NOFL_BLOCK_PAGED_OUT
          task          \* the task that the background thread runs next

vars == <<empty, used, paged_out, flagged, task>>

Ages == 0 .. 3
Last == 3

\* nofl_space_init: all memory is fresh from the operating system.
Init ==
  /\ empty = Blocks /\ used = {} /\ flagged = Blocks
  /\ paged_out = [age \in Ages |-> {}]
  /\ task = "advance"

\* nofl_allocator_acquire_empty_block
Acquire(b) ==
  /\ b \in empty
  /\ empty' = empty \ {b} /\ used' = used \cup {b} /\ flagged' = flagged \ {b}
  /\ UNCHANGED <<paged_out, task>>

\* A collection finds the block empty.
Release(b) ==
  /\ b \in used
  /\ used' = used \ {b} /\ empty' = empty \cup {b}
  /\ UNCHANGED <<paged_out, flagged, task>>

\* nofl_push_unavailable_block
PushUnavailable(b) ==
  LET age == IF b \in flagged THEN Last ELSE 0 IN
  /\ b \in empty /\ empty' = empty \ {b}
  /\ paged_out' = [paged_out EXCEPT ![age] = @ \cup {b}]
  /\ UNCHANGED <<used, flagged, task>>

\* nofl_pop_unavailable_block takes one of the youngest.
PopUnavailable(b) ==
  LET youngest == Min({age \in Ages : paged_out[age] # {}}) IN
  /\ \E age \in Ages : b \in paged_out[age]
  /\ b \in paged_out[youngest]
  /\ paged_out' = [paged_out EXCEPT ![youngest] = @ \ {b}]
  /\ empty' = empty \cup {b}
  /\ UNCHANGED <<used, flagged, task>>

\* One block of this age gets older.
Older(queue, age, b) == [queue EXCEPT ![age] = @ \ {b}, ![age + 1] = @ \cup {b}]

\* nofl_space_advance_page_out_queue: from the oldest age but two down, until an age is
\* empty.
Aged ==
  IF paged_out[Last - 2] = {} THEN {paged_out}
  ELSE UNION {IF paged_out[0] = {} THEN {Older(paged_out, Last - 2, b)}
              ELSE {Older(Older(paged_out, Last - 2, b), 0, c) : c \in paged_out[0]}
              : b \in paged_out[Last - 2]}

AdvancePageOutQueue ==
  /\ task = "advance" /\ task' = "page_out"
  /\ paged_out' \in Aged
  /\ UNCHANGED <<empty, used, flagged>>

\* nofl_space_page_out_blocks
PageOutBlocks ==
  /\ task = "page_out" /\ task' = "advance"
  /\ flagged' = flagged \cup paged_out[Last - 1]
  /\ paged_out' = [paged_out EXCEPT ![Last - 1] = {}, ![Last] = @ \cup paged_out[Last - 1]]
  /\ UNCHANGED <<empty, used>>

Next ==
  \/ \E b \in Blocks : Acquire(b) \/ Release(b) \/ PushUnavailable(b) \/ PopUnavailable(b)
  \/ AdvancePageOutQueue \/ PageOutBlocks

\* The background thread wakes up every second.
Spec == Init /\ [][Next]_vars /\ WF_vars(AdvancePageOutQueue \/ PageOutBlocks)

\* nofl-space.h:2082-2086 says that "Every second, the background thread will age the
\* queue, moving all blocks from index 0 to index 1, and so on.  When a block reaches
\* the end of the queue it is paged out".  So no block stays at index 0.
PagedOutInTime ==
  \A b \in Blocks : b \in paged_out[0] ~> b \notin paged_out[0]
================================================================================
