-------------------------- MODULE MCSharedWorklist --------------------------
\* TLC instance of SharedWorklist: interchangeable thieves.
EXTENDS SharedWorklist, TLC

ThiefSymmetry == Permutations(Thieves)
================================================================================
