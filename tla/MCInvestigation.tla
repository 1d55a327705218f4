-------------------------- MODULE MCInvestigation --------------------------
(* Instances of Investigation for TLC.                                     *)
EXTENDS InvestigationRefinement

CONSTANTS eventsOfPod, events, logs, prometheus

\* A GKE cluster with one name-scoped events lookup, its unscoped form and a
\* log read; the incident type requires events and logs.
GkeCalls    == {eventsOfPod, events, logs}
GkeScoped   == {eventsOfPod}
GkeBroad    == [c \in GkeScoped |-> events]
CallDomain  == [c \in GkeCalls |-> IF c = logs THEN "logs" ELSE "events"]
BothDomains == {"events", "logs"}

\* An on-prem cluster: no broadened retry.
OnpremCalls == {events, logs}
NoBroad     == [c \in {} |-> events]
=============================================================================
