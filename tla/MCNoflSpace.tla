---------------------------- MODULE MCNoflSpace ----------------------------
(***************************************************************************)
(* The nofl space with a few blocks of a few granules.                     *)
(***************************************************************************)
EXTENDS NoflSpace, TLC

CONSTANTS m1, m2, w1, w2

\* One mutator alone for long enough that a mark comes round again, two that share
\* blocks for long enough to meet what a collection leaves behind.
MCTeams == {{m1}, {m2}, {m1, m2}}
MCMaxCount == <<4, 1>>
MCMaxAlloc == <<2, 4>>

Symmetry == Permutations({m1, m2}) \cup Permutations(Workers) \cup Permutations(Blocks)
================================================================================
