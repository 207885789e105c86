-------------------------- MODULE MCParallelTracer --------------------------
\* TLC instance of ParallelTracer: two traces, a shared object, objects that the second
\* trace finds traced already, and one that no root reaches.
EXTENDS ParallelTracer, TLC

CONSTANTS a, b, c, d

MCEdges == (a :> {b}) @@ (b :> {}) @@ (c :> {a}) @@ (d :> {a})
MCRootBatches == <<<<{a}, {b}>>, <<{c}>>>>
================================================================================
