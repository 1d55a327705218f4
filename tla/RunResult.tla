----------------------------- MODULE RunResult -----------------------------
(***************************************************************************)
(* What investigate() hands to the request around it: the fields of its    *)
(* result that the request lifecycle acts on.  Module QueryLifecycle       *)
(* starts from these results, module InvestigationRefinement shows that    *)
(* the loop produces no other.                                             *)
(***************************************************************************)

Failed(exit) == [status |-> "failed", exit |-> exit, band |-> "escalate",
                 uninspected |-> FALSE]

\* What a completed graph run returns.  Without a cluster it has no evidence.
\* uninspected: the primary claim cites evidence whose inspection failed open.
GraphResults ==
  {[status |-> "done", exit |-> "loop", band |-> b, uninspected |-> u] :
      b \in {"auto", "review", "escalate"}, u \in BOOLEAN}
  \cup {[status |-> "done", exit |-> "cluster_unresolved",
         band |-> "escalate", uninspected |-> FALSE]}

Results == GraphResults \cup {Failed(e) : e \in {"no_query", "exception"}}
=============================================================================
