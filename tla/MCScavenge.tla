---------------------------- MODULE MCScavenge ----------------------------
\* One worker and three collections of at most two objects, with a finalizer; another
\* and two collections of at most three; two workers that race for the blocks of a new
\* space that runs out of them.
EXTENDS Scavenge
CONSTANTS w1, w2, x1, x2, x3, n1, n2
MCCrews == {{w1}, {w2}, {w1, w2}}
ByCrew(long, wide, race) ==
  [crew \in MCCrews |-> IF crew = {w1} THEN long ELSE IF crew = {w2} THEN wide ELSE race]
MCSize == [x \in Ids |-> IF x = x1 THEN 2 ELSE 1]
MCReserves == ByCrew({{}}, {{n2}}, {{}})
MCFinalizers == ByCrew({x1}, {}, {})
MCMaxCount == ByCrew(3, 2, 2)
MCMaxObjects == ByCrew(2, 3, 2)
Symmetry == Permutations(Ids \ {x1}) \cup Permutations(OldBlocks) \cup Permutations(Handles)
================================================================================
