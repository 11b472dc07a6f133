--------------------------- MODULE MCKernelObjects ---------------------------
(***************************************************************************)
(* Instance of KernelObjects for TLC with three processes, the least for a *)
(* parent that does not hold every capability.                             *)
(***************************************************************************)
EXTENDS KernelObjects

CONSTANTS loader, service

\* The third process is there for capabilities alone: it exists only after the
\* second, and then no memory object is handled or mapped.
ThirdProcessBound ==
  parent[service] # None =>
    /\ parent[loader] # None
    /\ mappings = {}
    /\ \A h \in handles : h.object \notin Objects
=============================================================================
