---------------------- MODULE InvestigationRefinement ----------------------
(***************************************************************************)
(* The investigation loop seen from outside.  As a round budget: the phase *)
(* a run is in, the rounds and calls it has behind it, and the reason it   *)
(* will stop for.  As a call of investigate(): what a run returns.         *)
(***************************************************************************)
EXTENDS Investigation, RunResult

Phase ==
  CASE pc \in {"input_normalizer", "context_resolver"} -> "accepting"
    [] pc \in LoopNodes        -> "gathering"
    [] pc = "rca_builder"      -> "concluding"
    [] pc = "end"              -> "reported"
    [] OTHER                   -> "aborted"

Budget == INSTANCE RoundBudget WITH
  MaxRounds <- MaxSteps, Verdicts <- ExitReasons, Open <- None,
  phase <- Phase, rounds <- currentStep, calls <- Len(history),
  verdict <- exitReason

\* Every behaviour of the loop is one the round budget allows, and it ends as
\* the round budget's do.
ImplementsRoundBudget == Budget!Spec

\* The safety part alone.
KeepsRoundBudget == Budget!Safety

-----------------------------------------------------------------------------
\* Whether evidence passed uninspected is not the loop's to know, but only
\* usable evidence can be cited.
MayBeUninspected == IF UsableIds = {} THEN {FALSE} ELSE BOOLEAN

\* What investigate() returns of an ended run.
Returned(uninspected) ==
  IF pc = "end"
    THEN [status |-> status,
          exit   |-> IF exitReason = "cluster_unresolved" THEN exitReason ELSE "loop",
          band   |-> report.band,
          uninspected |-> uninspected]
    ELSE Failed("exception")

\* However a run ends, the request around it receives one of the results its
\* memory gates are written for.  In particular a run that found no cluster,
\* which rca_builder reports as "done" like any other, still carries that
\* reason and neither a conclusion nor evidence.
ReturnsRunResult ==
  pc \in Ended => \A u \in MayBeUninspected : Returned(u) \in Results

-----------------------------------------------------------------------------
\* The reporting node, which is one step of the loop and a module of its own
\* in RootCause.  The contract between the two leaves out the run's status.
Contract == INSTANCE ReportContract WITH
  MaxAnswered <- MaxUsage, usable <- UsableIds # {}, raised <- pc = "crashed",
  spent <- tokens, session <- sessionTokens

\* What the loop lets rca_builder answer ...
RcaAnswers ==
  {[outcome |-> o, band |-> Band(o), review |-> Band(o) # "auto" \/ UsableIds = {}] :
     o \in UNION {OutcomesFor(primary) : primary \in PrimaryClaims}}

\* ... and what the contract does.
ContractAnswers ==
  {[outcome |-> o, band |-> Contract!Band(o),
    review |-> Contract!Band(o) # "auto" \/ UsableIds = {}] :
     o \in Contract!Conclusions(UsableIds # {})}
=============================================================================
