---------------------------- MODULE MCLargeObjects ----------------------------
\* Runs of nine pages, of which objects of eight and nine pages, in one size class, and
\* of one page are allocated.
EXTENDS LargeObjects
CONSTANTS w1, w2
MCPages == 0 .. 17
MCBases == {0, 9}
Symmetry == Permutations({w1, w2}) \cup Permutations(Handles)
================================================================================
