--------------------------- MODULE ReportContract ---------------------------
(***************************************************************************)
(* What the rest of the agent may rely on in rca_builder, and what module  *)
(* Investigation takes it to be: one step that reports an outcome, with no *)
(* conclusion unless some evidence is usable, adds its calls to the totals *)
(* and counts no call twice - or an exception.                             *)
(***************************************************************************)
EXTENDS Integers

CONSTANTS None, MaxAnswered

VARIABLES
  usable,   \* some tool call brought usable evidence
  report,   \* None, or the outcome with its band
  raised,   \* the node ended with an exception
  spent,    \* answered calls in the investigation's totals
  session   \* answered calls the adapter has counted

vars == <<usable, report, raised, spent, session>>

Init ==
  /\ usable \in BOOLEAN
  /\ report = None /\ raised = FALSE
  /\ spent = 0 /\ session = 0

Conclusions(established) ==
  IF established
    THEN {"confirmed", "probable", "possible", "insufficient_evidence",
          "conflicting_evidence"}
    ELSE {"insufficient_evidence"}

Band(outcome) == IF outcome = "confirmed" THEN "auto"
                 ELSE IF outcome = "probable" THEN "review"
                 ELSE "escalate"

\* u: the RCA call's usage, v: the verifier's, lost: what a verifier that
\* raised had been answered.
Report ==
  /\ report = None /\ ~ raised
  /\ \E outcome \in Conclusions(usable) :
       report' = [outcome |-> outcome, band |-> Band(outcome),
                  review |-> Band(outcome) # "auto" \/ ~ usable]
  /\ \E u \in 1 .. MaxAnswered, v \in 0 .. MaxAnswered, lost \in 0 .. MaxAnswered :
       /\ v = 0 \/ lost = 0
       /\ ~ usable => v = 0 /\ lost = 0
       /\ spent' = spent + u + v
       /\ session' = session + u + v + lost
  /\ UNCHANGED <<usable, raised>>

Raise ==
  /\ report = None /\ ~ raised
  /\ raised' = TRUE
  /\ session' \in session .. session + MaxAnswered
  /\ UNCHANGED <<usable, report, spent>>

Next == Report \/ Raise

Spec == Init /\ [][Next]_vars
=============================================================================
