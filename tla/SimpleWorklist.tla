--------------------------- MODULE SimpleWorklist ---------------------------
(***************************************************************************)
(* The queue of the serial tracer (simple-worklist.h): a ring buffer of a  *)
(* power of two of slots, with indices that only grow.  Memory that the    *)
(* operating system gives out is zero: Null.                               *)
(***************************************************************************)
EXTENDS Integers

CONSTANT Null

Buffer(n) == [i \in 0 .. n - 1 |-> Null]

worklist_init(n) == [size |-> n, read |-> 0, write |-> 0, buf |-> Buffer(n)]

\* Mutant: the contents are copied as they lie in the old buffer.
copy_in_place(q) ==
  [q EXCEPT !.size = 2 * q.size,
            !.buf = [i \in 0 .. 2 * q.size - 1 |-> IF i < q.size THEN q.buf[i] ELSE Null]]

\* The index i of what is in the buffer goes from i % size to i % (2 * size).
worklist_grow(q) ==
  LET n == 2 * q.size
      Index(s) == {i \in q.read .. q.write - 1 : i % n = s}
  IN [q EXCEPT !.size = n,
               !.buf = [s \in 0 .. n - 1 |->
                          IF Index(s) = {} THEN Null
                          ELSE q.buf[(CHOOSE i \in Index(s) : TRUE) % q.size]]]

worklist_push(q, x) ==
  LET r == IF q.write - q.read = q.size THEN worklist_grow(q) ELSE q IN
  [r EXCEPT !.write = @ + 1, !.buf[r.write % r.size] = x]

\* The object that a pop returns, and the queue that it leaves.
worklist_first(q) == IF q.read = q.write THEN Null ELSE q.buf[q.read % q.size]
worklist_pop(q) == IF q.read = q.write THEN q ELSE [q EXCEPT !.read = @ + 1]
================================================================================
