------------------------------- MODULE Extents -------------------------------
(***************************************************************************)
(* The sorted arrays of address ranges of extents.h, which tell whether an *)
(* address is in a space, and where the object or slab it is in starts.    *)
(***************************************************************************)
EXTENDS Integers, FiniteSetsExt, SequencesExt

extents_allocate(n) == [capacity |-> n, ranges |-> <<>>]

RangeOf(addr, size) == [lo_addr |-> addr, hi_addr |-> addr + size]

\* Binary search; lo and hi are indices from 0.
RECURSIVE Search(_, _, _, _)
Search(ranges, addr, lo, hi) ==
  LET mid == (lo + hi) \div 2
      range == ranges[mid + 1]
  IN IF lo = hi THEN 0
     ELSE CASE addr < range.lo_addr -> Search(ranges, addr, lo, mid)
            [] addr >= range.lo_addr /\ addr < range.hi_addr -> range.lo_addr
            [] OTHER -> Search(ranges, addr, mid + 1, hi)

extents_contain_addr(e, addr) == Search(e.ranges, addr, 0, Len(e.ranges))

extents_insert(e, i, range) ==
  [capacity |-> IF Len(e.ranges) < e.capacity THEN e.capacity ELSE 2 * e.capacity + 1,
   ranges |-> InsertAt(e.ranges, i, range)]

\* The first range that begins after the new one, or that it touches.
Neighbour(e, range) ==
  Min({Len(e.ranges) + 1} \cup
      {i \in DOMAIN e.ranges : \/ range.hi_addr <= e.ranges[i].lo_addr
                               \/ range.lo_addr = e.ranges[i].hi_addr})

extents_adjoin(e, addr, size) ==
  LET range == RangeOf(addr, size)
      i == Neighbour(e, range)
      known == i \in DOMAIN e.ranges
  IN CASE known /\ range.hi_addr = e.ranges[i].lo_addr ->
            [e EXCEPT !.ranges[i].lo_addr = range.lo_addr]
       [] known /\ range.lo_addr = e.ranges[i].hi_addr ->
            [e EXCEPT !.ranges[i].hi_addr = range.hi_addr]
       [] OTHER -> extents_insert(e, i, range)

extents_clear(e) == [e EXCEPT !.ranges = <<>>]

extents_prepare(e, n) ==
  IF n <= Len(e.ranges) THEN extents_clear(e)
  ELSE extents_allocate(IF 2 * Len(e.ranges) < n THEN n ELSE 2 * Len(e.ranges))

extents_append(e, addr, size) == [e EXCEPT !.ranges = Append(@, RangeOf(addr, size))]
================================================================================
