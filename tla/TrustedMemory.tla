--------------------------- MODULE TrustedMemory ---------------------------
(***************************************************************************)
(* What the agent's memory promises, without saying how: a run's           *)
(* conclusion is judged fit or unfit once; a fit one may become a record,  *)
(* which reviewers take out and put back under a verdict; a request is     *)
(* shown, once and before it has a conclusion of its own, a few fit        *)
(* conclusions of its own scope - from Memory Bank only approved ones.     *)
(* QueryLifecycle implements it.                                           *)
(***************************************************************************)
EXTENDS Naturals, FiniteSets

CONSTANTS
  Runs,        \* investigations
  Scopes,      \* what a memory is about: a cluster and a namespace
  MaxRecalled  \* memories shown to one request

VARIABLES
  scope,     \* scope[r]: what r asks about
  standing,  \* standing[r]: what r's conclusion counts for
  known      \* known[r]: what r was shown of other runs

vars == <<scope, standing, known>>

\* A run whose record is in Memory Bank has its status for a standing.
Records  == {"pending_review", "approved", "rejected", "revoked"}
Verdicts == Records \ {"pending_review"}

\* candidate: may become a record.  withdrawn: its record is taken out, to be
\* put back.  closed: has no record, and never will have one (again).
Fit       == Records \cup {"candidate", "withdrawn", "closed"}
Standings == Fit \cup {"open", "unfit"}

Nothing == [from |-> "nothing", runs |-> {}]

Init ==
  /\ scope \in [Runs -> Scopes]
  /\ standing = [r \in Runs |-> "open"]
  /\ known = [r \in Runs |-> Nothing]

-----------------------------------------------------------------------------
\* A request is shown conclusions while its own is open, and only once.
Recall(r, from, fit) ==
  /\ standing[r] = "open"
  /\ known[r] = Nothing
  /\ \E shown \in SUBSET {o \in Runs : standing[o] \in fit /\ scope[o] = scope[r]} :
       /\ Cardinality(shown) <= MaxRecalled
       /\ known' = [known EXCEPT ![r] = [from |-> from, runs |-> shown]]
  /\ UNCHANGED <<scope, standing>>

RecallBank(r) == Recall(r, "bank", {"approved"})
RecallList(r) == Recall(r, "list", Fit)

Moves(r, from, to) ==
  /\ standing[r] \in from
  /\ \E s \in to : standing' = [standing EXCEPT ![r] = s]
  /\ UNCHANGED <<scope, known>>

Conclude(r)  == Moves(r, {"open"}, {"unfit", "candidate", "closed"})
File(r)      == Moves(r, {"candidate"}, {"pending_review", "closed"})
Withdraw(r)  == Moves(r, Records, {"withdrawn"})
Reinstate(r) == Moves(r, {"withdrawn"}, Verdicts)
Lose(r)      == Moves(r, {"withdrawn"}, {"closed"})

\* The container goes away, and with it what was on its way to a record.
Restart ==
  /\ standing' \in [Runs -> Standings]
  /\ \A r \in Runs :
       \/ standing'[r] = standing[r]
       \/ standing[r] = "open" /\ standing'[r] \in {"unfit", "closed"}
       \/ standing[r] = "candidate" /\ standing'[r] = "closed"
  /\ UNCHANGED <<scope, known>>

Next ==
  \/ \E r \in Runs : \/ RecallBank(r) \/ RecallList(r)
                     \/ Conclude(r) \/ File(r)
                     \/ Withdraw(r) \/ Reinstate(r) \/ Lose(r)
  \/ Restart

Spec == Init /\ [][Next]_vars

-----------------------------------------------------------------------------
(* What follows from the promise.                                          *)

\* Nobody is shown an unfit conclusion, one of another scope, or too many.
OnlyFitShown ==
  \A r \in Runs : \A o \in known[r].runs :
    standing[o] \in Fit /\ scope[o] = scope[r]

\* No two runs vouch for each other: what a run was shown had been concluded
\* without knowing of it.
NotCircular ==
  \A r \in Runs : \A o \in known[r].runs : r \notin known[o].runs
=============================================================================
