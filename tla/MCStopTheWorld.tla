--------------------------- MODULE MCStopTheWorld ---------------------------
\* TLC instances of StopTheWorld.
EXTENDS StopTheWorld, TLC

Symmetry == Permutations(Mutators)
================================================================================
