-------------------------- MODULE MCDataStructures --------------------------
\* Hashes that collide at home 0, 7 and 1 of eight slots, and fill a table of eight;
\* large objects on six pages; slabs on nine; five objects, two of which refer to
\* several others, from two slots of worklist; two words of metadata.
EXTENDS DataStructures
CONSTANTS o1, o2, o3, o4, o5
MCKeys == {0, 8, 16, 1, 9, 6, 7, 15, 3}
MCUpdates == {<<0, 2>>, <<16, 2>>}
MCSpans == {s \in {[addr |-> p, size |-> n] : p \in 1 .. 6, n \in 1 .. 3} : s.addr + s.size <= 7}
MCSlabSpans == {[addr |-> p, size |-> n] : p \in 1 .. 9, n \in 1 .. 2}
MCFields == (o1 :> <<o2, o3, o4>>) @@ (o2 :> <<o3, o5>>) @@ (o3 :> <<o1>>) @@ (o4 :> <<>>) @@ (o5 :> <<>>)
MCMemory == 0 .. 15
================================================================================
