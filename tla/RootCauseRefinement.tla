------------------------ MODULE RootCauseRefinement ------------------------
(***************************************************************************)
(* RootCause implements ReportContract: what goes on inside the node is    *)
(* seen only when it ends.                                                 *)
(***************************************************************************)
EXTENDS RootCause

Ended == pc \in {"done", "crashed"}

Contract == INSTANCE ReportContract WITH
  usable  <- Usable # {},
  report  <- IF report = None THEN None
             ELSE [outcome |-> report.outcome, band |-> report.band,
                   review |-> report.review],
  raised  <- pc = "crashed",
  spent   <- spent,
  session <- IF Ended THEN session ELSE 0

\* rca_builder's reads, sizings and two model calls, with all their failures,
\* are together the one step of the contract.
ImplementsReportContract == Contract!Spec
=============================================================================
