------------------------------ MODULE Tracing ------------------------------
(***************************************************************************)
(* What the collector relies on when it calls gc_tracer_trace or           *)
(* gc_tracer_trace_roots: between the call and the return objects are      *)
(* marked one by one, never one that the roots do not reach; when a full   *)
(* trace returns everything they reach is marked; when a roots-only trace  *)
(* returns the objects the roots name are, and nothing beyond them was     *)
(* followed.                                                               *)
(***************************************************************************)
CONSTANTS Objects,   \* heap objects
          Edges      \* Edges[o]: the objects that o refers to

VARIABLES marked,    \* objects marked in this collection
          rooted,    \* objects named by the roots added so far
          running    \* "no", or the trace under way: "roots" or "full"

tracing_vars == <<marked, rooted, running>>

TracingInit == marked = {} /\ rooted = {} /\ running = "no"

StartTrace(R, kind) ==
  /\ running = "no"
  /\ running' = kind
  /\ rooted' = rooted \cup R
  /\ UNCHANGED marked

Mark(o) ==
  /\ running # "no"
  /\ o \in rooted \/ (running = "full" /\ \E p \in marked : o \in Edges[p])
  /\ marked' = marked \cup {o}
  /\ UNCHANGED <<rooted, running>>

Closed(S) == \A p \in S : Edges[p] \subseteq S

FinishTrace ==
  /\ running # "no"
  /\ rooted \subseteq marked
  /\ running = "full" => Closed(marked)
  /\ running' = "no"
  /\ UNCHANGED <<marked, rooted>>

TracingNext ==
  \/ \E R \in SUBSET Objects, kind \in {"roots", "full"} : StartTrace(R, kind)
  \/ \E o \in Objects : Mark(o)
  \/ FinishTrace

TracingSpec == TracingInit /\ [][TracingNext]_tracing_vars
================================================================================
