-------------------------- MODULE MCQueryLifecycle --------------------------
(* Small instances of QueryLifecycle. *)
EXTENDS QueryLifecycleRefinement, TLC

CONSTANTS r1, r2, r3, v1, v2, prod, lab, oom, oomKilled

TwoRuns      == {r1, r2}
ThreeRuns    == {r1, r2, r3}
TwoReviewers == {v1, v2}

\* "incident_type=OOM" is a substring of "incident_type=OOMKilled".
Prefixes == {<<i, i>> : i \in Incidents} \cup ({<<oom, oomKilled>>} \cap (Incidents \X Incidents))

\* Runs and reviewers are interchangeable: no definition names one.
ReviewSymmetry == Permutations(TwoRuns) \cup Permutations(TwoReviewers)
=============================================================================
