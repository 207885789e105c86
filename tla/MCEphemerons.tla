---------------------------- MODULE MCEphemerons ----------------------------
(***************************************************************************)
(* A heap for Ephemerons.  The root table holds e1: k1 => inner.  The      *)
(* value inner is itself a table: it refers to k2, and holds e2:           *)
(* k2 => k3 and e3: k3 => k1.  All keys share a bucket.                    *)
(***************************************************************************)
EXTENDS Ephemerons

CONSTANTS w1, w2, table, inner, k1, k2, k3, e1, e2, e3, f1, f2

MCEdges == [o \in Plain |-> IF o = inner THEN {k2} ELSE {}]
MCKey == [e \in Ephemerons |-> CASE e = e1 -> k1 [] e = e2 -> k2 [] e = e3 -> k3]
MCValue == [e \in Ephemerons |-> CASE e = e1 -> inner [] e = e2 -> k3 [] e = e3 -> k1]
MCTable == [e \in Ephemerons |-> IF e = e1 THEN table ELSE inner]
MCBucket == [o \in Objects |-> 0]
MCObject == [f \in Finalizers |-> IF f = f1 THEN k1 ELSE inner]
MCPriority == [f \in Finalizers |-> IF f = f1 THEN 0 ELSE 1]

\* Races are about one collection, what a collection leaves behind is about two.
MCCrews == {{w1}, {w1, w2}}
MCMaxCount == <<2, 1>>
MCMaxRoots == <<1, 2>>
MCMaxDead == <<1, 0>>
================================================================================
