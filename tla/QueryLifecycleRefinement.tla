---------------------- MODULE QueryLifecycleRefinement ----------------------
(***************************************************************************)
(* The requests, reviewers and stores of QueryLifecycle seen as a trusted  *)
(* memory: what each run's conclusion counts for, and what each request    *)
(* was shown.                                                              *)
(***************************************************************************)
EXTENDS QueryLifecycle

\* The result of a run in one of these phases does not change any more.
Settled == {"dedup", "create", "save", "trim", "assign", "sanitize", "done",
            "dropped"}

Recorded(r)  == \E m \in bank : m.run = r
Withdrawn(r) == \E v \in Reviewers : /\ reviewing[v].phase = "deleted"
                                     /\ reviewing[v].record.run = r

\* What the conclusion of a run counts for by itself, without a record.
Conclusion(r) ==
  IF phase[r] \notin Settled THEN "open"
  ELSE IF ~Sound(r) THEN "unfit"
  ELSE IF phase[r] \in {"dedup", "create"} THEN "candidate"
  ELSE "closed"

Standing(r) ==
  IF Recorded(r) THEN (CHOOSE m \in bank : m.run = r).status
  ELSE IF Withdrawn(r) THEN "withdrawn"
  ELSE Conclusion(r)

Shown(r) ==
  [from |-> IF context[r].answer = "approved" THEN "bank"
            ELSE IF context[r].of # {} THEN "list"
            ELSE "nothing",
   runs |-> context[r].of]

Trust == INSTANCE TrustedMemory WITH
  scope    <- [r \in Runs |-> Scope(r)],
  standing <- [r \in Runs |-> Standing(r)],
  known    <- [r \in Runs |-> Shown(r)]

\* What requests recall and what reviewers do to the records is what the
\* trusted memory allows, in every interleaving and through restarts.
ImplementsTrustedMemory == Trust!Spec
=============================================================================
