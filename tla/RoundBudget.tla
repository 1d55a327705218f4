---------------------------- MODULE RoundBudget ----------------------------
(***************************************************************************)
(* What the investigation loop promises, without saying how: a bounded     *)
(* number of rounds with at most one tool call each, one verdict that,     *)
(* once reached, admits no further call, and a report or an abort at the   *)
(* end.  Investigation implements it.                                      *)
(***************************************************************************)
EXTENDS Naturals

CONSTANTS
  MaxRounds,   \* rounds a run may take, at least one
  Verdicts,    \* the reasons a run may stop for
  Open         \* no verdict yet

VARIABLES phase, rounds, calls, verdict

vars == <<phase, rounds, calls, verdict>>

Init ==
  /\ phase = "accepting"
  /\ rounds = 0
  /\ calls = 0
  /\ verdict = Open

\* The request names something that can be investigated.
Begin ==
  /\ phase = "accepting"
  /\ phase' = "gathering"
  /\ UNCHANGED <<rounds, calls, verdict>>

\* It does not: report without a single call.
Refuse ==
  /\ phase = "accepting"
  /\ phase' = "concluding"
  /\ verdict' \in Verdicts \cup {Open}
  /\ UNCHANGED <<rounds, calls>>

\* At most one call per round, and none after the verdict.
Call ==
  /\ phase = "gathering"
  /\ verdict = Open
  /\ calls <= rounds
  /\ calls' = calls + 1
  /\ UNCHANGED <<phase, rounds, verdict>>

\* A verdict in the middle of a round; the round still ends.
Condemn ==
  /\ phase = "gathering"
  /\ verdict = Open
  /\ verdict' \in Verdicts
  /\ UNCHANGED <<phase, rounds, calls>>

\* Only an open verdict and a remaining round let the run go on.
EndRound ==
  /\ phase = "gathering"
  /\ rounds' = rounds + 1
  /\ \/ /\ verdict = Open
        /\ rounds' < MaxRounds
        /\ UNCHANGED <<phase, verdict>>
     \/ /\ phase' = "concluding"
        /\ verdict' \in IF verdict = Open THEN Verdicts ELSE {verdict}
  /\ UNCHANGED calls

Conclude ==
  /\ phase = "concluding"
  /\ phase' = "reported"
  /\ UNCHANGED <<rounds, calls, verdict>>

Abort ==
  /\ phase \in {"accepting", "gathering", "concluding"}
  /\ phase' = "aborted"
  /\ UNCHANGED <<rounds, calls, verdict>>

Next == Begin \/ Refuse \/ Call \/ Condemn \/ EndRound \/ Conclude \/ Abort

Safety == Init /\ [][Next]_vars

Spec == Safety /\ WF_vars(Next)
=============================================================================
