------------------------ MODULE InvestigationProofs ------------------------
(***************************************************************************)
(* Proofs about Investigation, for every value of its constants that its   *)
(* assumptions allow.                                                      *)
(*                                                                         *)
(* TypeOK is not inductive alone: what the executor records is typed only  *)
(* because the router planned something, and an additional-source call     *)
(* only because a loop node never runs in round MaxSteps or later.         *)
(* TypeInv adds both; the other invariants are proved on top of it.        *)
(***************************************************************************)
EXTENDS Investigation, TLAPS

\* Where the run is bounds the rounds and the supersteps it has behind it.
RoundsBounded ==
  /\ currentStep <= MaxSteps
  /\ pc \in LoopNodes => currentStep < MaxSteps
  /\ pc = "input_normalizer"   => nodeSteps = 0 /\ currentStep = 0
  /\ pc = "context_resolver"   => nodeSteps = 1 /\ currentStep = 0
  /\ pc = "task_planner"       => nodeSteps <= 6 * currentStep + 2
  /\ pc = "mcp_router"         => nodeSteps <= 6 * currentStep + 3
  /\ pc = "tool_executor"      => nodeSteps <= 6 * currentStep + 4
  /\ pc = "evidence_extractor" => nodeSteps <= 6 * currentStep + 5
  /\ pc = "task_evaluator"     => nodeSteps <= 6 * currentStep + 6
  /\ pc = "loop_controller"    => nodeSteps <= 6 * currentStep + 7
  /\ pc = "rca_builder"        => nodeSteps <= 6 * MaxSteps + 2
  /\ pc # "recursion_error"

\* The executor runs on a plan, and the extractor after a call.
PlanExists ==
  /\ pc = "tool_executor" => action # None
  /\ pc = "evidence_extractor" => history # << >>

TypeInv == TypeOK /\ RoundsBounded /\ PlanExists

USE DEF controlVars, verdictVars, tokenVars, envVars, evidenceVars

-----------------------------------------------------------------------------
(* What the operators return.                                              *)

\* loop_controller's decision is an exit reason or None, and never None once
\* the step budget is used up, whatever the evaluator and the detectors say.
LEMMA LoopExitDecides ==
  ASSUME NEW step \in Nat
  PROVE  /\ LoopExit(step) \in ExitReasons \cup {None}
         /\ LoopExit(step) = None => step < MaxSteps
  BY NoneAssumption, StepsAssumption, SMT
  DEF LoopExit, HardLimit, DetectedPattern, ExitReasons, AbnormalExits

\* The loop goes on only while a round is left.
LEMMA RunningHasRounds ==
  ASSUME TypeOK, LoopController, status' = "running"
  PROVE  currentStep + 1 < MaxSteps
  BY LoopExitDecides DEF TypeOK, LoopController, StatusAfter

\* The router always leaves a plan, be it "done".
LEMMA RouterPlans ==
  ASSUME TypeInv, McpRouter
  PROVE  action' \in AllCalls \cup {Done}
<1>1. CASE McpRouterSource
  <2>1. currentStep \in 0 .. MaxSteps - 1
    BY <1>1, StepsAssumption
    DEF TypeInv, TypeOK, RoundsBounded, McpRouterSource, RouterReads, Goto,
        LoopNodes
  <2>2. QED
    BY <1>1, <2>1 DEF McpRouterSource, AllCalls, SourceCalls
<1>2. CASE McpRouterPlans
  BY <1>2 DEF McpRouterPlans, AllCalls
<1>3. CASE McpRouterSafeStop \/ McpRouterDone \/ McpRouterFails
  BY <1>3 DEF McpRouterSafeStop, McpRouterDone, McpRouterFails
<1>4. QED
  BY <1>1, <1>2, <1>3 DEF McpRouter

\* Every record call_tool leaves is well formed when a call was planned.
LEMMA CallToolType ==
  ASSUME action \in AllCalls, NEW r \in CallTool
  PROVE  r \in CallRecord
<1>1. PICK call \in {action} \cup {Broad[c] : c \in {x \in Scoped : x = action /\ ClusterType = "gke"}},
           ok \in BOOLEAN : r = Executed(call, ok)
  BY DEF CallTool
<1>2. call \in AllCalls
  BY CallsAssumption DEF AllCalls
<1>3. QED
  BY <1>1, <1>2 DEF Executed, CallRecord

\* What the executor commits: one record, and a result that says how it went.
LEMMA ToolExecutorCommits ==
  ASSUME TypeInv, ToolExecutor, action # Done
  PROVE  \E r \in CallTool :
           /\ r \in CallRecord
           /\ history' = Append(history, r)
           /\ latest' = IF r.ok THEN "ok" ELSE "failed"
           /\ errors' \subseteq errors \cup {"tool_failed"}
           /\ errors \subseteq errors'
<1>1. action \in AllCalls
  BY DEF TypeInv, TypeOK, PlanExists, ToolExecutor, Goto
<1>2. PICK r \in CallTool : /\ history' = Append(history, r)
                            /\ latest' = IF r.ok THEN "ok" ELSE "failed"
                            /\ errors' = IF r.ok THEN errors
                                         ELSE errors \cup {"tool_failed"}
  BY DEF ToolExecutor
<1>3. errors' \subseteq errors \cup {"tool_failed"} /\ errors \subseteq errors'
  BY <1>2
<1>4. QED
  BY <1>1, <1>2, <1>3, CallToolType

\* The extractor appends one slot, attributed to the last executed call.
LEMMA EvidenceExtractorCommits ==
  ASSUME TypeInv, EvidenceExtractor
  PROVE  /\ LastCall \in AllCalls
         /\ \E ok, facts \in BOOLEAN :
              /\ evidence' = Append(evidence,
                               [call |-> LastCall, ok |-> ok, facts |-> facts])
              /\ ok => latest = "ok"
<1>1. history \in Seq(CallRecord) /\ history # << >>
  BY DEF TypeInv, TypeOK, PlanExists, EvidenceExtractor, Goto
<1>2. history[Len(history)] \in CallRecord
  BY <1>1
<1>3. LastCall \in AllCalls
  BY <1>2 DEF LastCall, CallRecord
<1>4. QED
  BY <1>3 DEF EvidenceExtractor

\* The report is well formed.
LEMMA RcaBuilderReports ==
  ASSUME RcaBuilder
  PROVE  report' \in Report
<1> DEFINE Built(outcome) == [outcome |-> outcome,
                              band    |-> Band(outcome),
                              review  |-> Band(outcome) # "auto" \/ UsableIds = {},
                              status  |-> DeriveStatus("storage_failed" \in errors)]
<1>1. PICK primary \in PrimaryClaims :
        \E outcome \in OutcomesFor(primary) : report' = Built(outcome)
  BY DEF RcaBuilder
<1>2. PICK outcome \in OutcomesFor(primary) : report' = Built(outcome)
  BY <1>1
<1>3. outcome \in Outcomes
  BY DEF OutcomesFor, Outcomes
<1>4. Band(outcome) \in Bands
  BY DEF Band, Bands
<1>5. DeriveStatus("storage_failed" \in errors) \in {"success", "error"}
  BY DEF DeriveStatus
<1>6. ASSUME NEW review \in BOOLEAN, NEW st \in {"success", "error"}
      PROVE  [outcome |-> outcome, band |-> Band(outcome), review |-> review,
              status |-> st] \in Report
  BY <1>3, <1>4 DEF Report
<1>7. QED
  BY <1>2, <1>5, <1>6

-----------------------------------------------------------------------------
(* TypeInv is inductive.                                                   *)

LEMMA TypeInit == Init => TypeInv
<1> SUFFICES ASSUME Init PROVE TypeInv
  OBVIOUS
<1>1. history \in Seq(CallRecord) /\ evidence \in Seq(EvidenceEntry)
  BY DEF Init
<1>2. pc \in Nodes \cup Ended
  BY DEF Init, Nodes
<1>3. /\ status \in {"running", "failed", "done"}
      /\ exitReason \in ExitReasons \cup {None}
      /\ latest \in {None, "ok", "failed"}
      /\ report \in Report \cup {None}
  BY DEF Init
<1>4. TypeOK
  BY <1>1, <1>2, <1>3 DEF Init, TypeOK
<1>5. RoundsBounded
  BY StepsAssumption DEF Init, RoundsBounded, LoopNodes
<1>6. QED
  BY <1>4, <1>5 DEF Init, TypeInv, PlanExists

LEMMA TypeStep == TypeInv /\ [Next]_vars => TypeOK'
<1> SUFFICES ASSUME TypeInv, [Next]_vars PROVE TypeOK'
  OBVIOUS
<1> USE DEF TypeInv, Goto, Nodes, LoopNodes, Ended
<1>1. CASE InputNormalizer
  <2>1. tokens' \in Nat /\ sessionTokens' \in Nat
    BY <1>1, TokensAssumption DEF TypeOK, InputNormalizer, Accumulate
  <2>2. errors' \subseteq ErrorKinds
    BY <1>1 DEF TypeOK, InputNormalizer, ErrorKinds
  <2>3. status' \in {"running", "failed", "done"}
    BY <1>1 DEF TypeOK, InputNormalizer
  <2>4. pc' \in Nodes \cup Ended /\ nodeSteps' \in Nat
    BY <1>1 DEF TypeOK, InputNormalizer
  <2>5. QED
    BY <1>1, <2>1, <2>2, <2>3, <2>4 DEF TypeOK, InputNormalizer
<1>2. CASE ContextResolver
  <2>1. errors' \subseteq ErrorKinds
    BY <1>2 DEF TypeOK, ContextResolver, ErrorKinds
  <2>2. /\ status' \in {"running", "failed", "done"}
        /\ exitReason' \in ExitReasons \cup {None}
    BY <1>2 DEF TypeOK, ContextResolver, ExitReasons
  <2>3. pc' \in Nodes \cup Ended /\ nodeSteps' \in Nat
    BY <1>2 DEF TypeOK, ContextResolver
  <2>4. QED
    BY <1>2, <2>1, <2>2, <2>3 DEF TypeOK, ContextResolver
<1>3. CASE TaskPlanner
  BY <1>3, TokensAssumption DEF TypeOK, TaskPlanner, Accumulate
<1>4. CASE McpRouterSafeStop
  BY <1>4 DEF TypeOK, McpRouterSafeStop, ErrorKinds
<1>5. CASE McpRouterSource
  <2>1. action' \in AllCalls \cup {Done}
    BY <1>5, RouterPlans DEF McpRouter
  <2>2. QED
    BY <1>5, <2>1, TokensAssumption
    DEF TypeOK, McpRouterSource, RouterReads, Accumulate
<1>6. CASE McpRouterPlans
  BY <1>6, TokensAssumption
  DEF TypeOK, McpRouterPlans, RouterReads, LostUsages, AllCalls
<1>7. CASE McpRouterDone
  BY <1>7, TokensAssumption
  DEF TypeOK, McpRouterDone, RouterReads, DropUsage, LostUsages
<1>8. CASE McpRouterFails
  BY <1>8, TokensAssumption
  DEF TypeOK, McpRouterFails, RouterReads, DropUsage, LostUsages,
      ExitReasons, ErrorKinds
<1>9. CASE ToolExecutor
  <2>1. CASE action = Done
    BY <1>9, <2>1 DEF TypeOK, ToolExecutor, AfterTool
  <2>2. CASE action # Done
    <3>1. PICK r \in CallRecord :
            /\ history' = Append(history, r)
            /\ latest' = IF r.ok THEN "ok" ELSE "failed"
            /\ errors' \subseteq errors \cup {"tool_failed"}
      BY <1>9, <2>2, ToolExecutorCommits
    <3>2. history' \in Seq(CallRecord) /\ latest' \in {"ok", "failed"}
      BY <3>1 DEF TypeOK
    <3>3. errors' \subseteq ErrorKinds
      BY <3>1 DEF TypeOK, ErrorKinds
    <3>4. QED
      BY <1>9, <2>2, <3>2, <3>3 DEF TypeOK, ToolExecutor, AfterTool
  <2>3. QED
    BY <2>1, <2>2
<1>10. CASE EvidenceExtractor
  <2>1. PICK ok \in BOOLEAN, facts \in BOOLEAN :
          evidence' = Append(evidence,
                             [call |-> LastCall, ok |-> ok, facts |-> facts])
    BY <1>10, EvidenceExtractorCommits
  <2>2. [call |-> LastCall, ok |-> ok, facts |-> facts] \in EvidenceEntry
    BY <1>10, EvidenceExtractorCommits DEF EvidenceEntry
  <2>3. evidence' \in Seq(EvidenceEntry)
    BY <2>1, <2>2 DEF TypeOK
  <2>4. errors' \subseteq ErrorKinds
    BY <1>10 DEF TypeOK, EvidenceExtractor, StorageErrors, ErrorKinds
  <2>5. tokens' \in Nat /\ sessionTokens' \in Nat
    BY <1>10, TokensAssumption DEF TypeOK, EvidenceExtractor, Accumulate
  <2>6. QED
    BY <1>10, <2>3, <2>4, <2>5 DEF TypeOK, EvidenceExtractor
<1>11. CASE TaskEvaluator
  <2>1. missing' \subseteq Required
    BY <1>11 DEF TaskEvaluator, Completeness, MissingDomains
  <2>2. tokens' \in Nat /\ sessionTokens' \in Nat
    BY <1>11, TokensAssumption DEF TypeOK, TaskEvaluator, Accumulate
  <2>3. enough' \in BOOLEAN
    BY <1>11 DEF TaskEvaluator
  <2>4. QED
    BY <1>11, <2>1, <2>2, <2>3 DEF TypeOK, TaskEvaluator
<1>12. CASE LoopController
  <2>1. LoopExit(currentStep + 1) \in ExitReasons \cup {None}
    BY LoopExitDecides DEF TypeOK
  <2>2. exitReason' \in ExitReasons \cup {None}
    BY <1>12, <2>1 DEF TypeOK, LoopController, ReasonKept
  <2>3. status' \in {"running", "failed", "done"}
    BY <1>12 DEF LoopController, StatusAfter
  <2>4. errors' \subseteq ErrorKinds
    BY <1>12 DEF TypeOK, LoopController, ErrorKinds
  <2>5. QED
    BY <1>12, <2>2, <2>3, <2>4 DEF TypeOK, LoopController, AfterLoop
<1>13. CASE RcaBuilder
  <2>1. report' \in Report
    BY <1>13, RcaBuilderReports
  <2>2. tokens' \in Nat /\ sessionTokens' \in Nat
    BY <1>13, TokensAssumption
    DEF TypeOK, RcaBuilder, PrimaryClaims, VerifierUsages, UncountedUsages
  <2>3. QED
    BY <1>13, <2>1, <2>2 DEF TypeOK, RcaBuilder
<1>14. CASE NodeRaises
  BY <1>14 DEF TypeOK, NodeRaises
<1>15. CASE Tick
  BY <1>15, ClockAssumption DEF TypeOK, Tick
<1>16. CASE RegistryChanges
  BY <1>16 DEF TypeOK, RegistryChanges
<1>17. CASE UNCHANGED vars
  BY <1>17 DEF TypeOK, vars
<1>18. QED
  BY <1>1, <1>2, <1>3, <1>4, <1>5, <1>6, <1>7, <1>8, <1>9, <1>10, <1>11,
     <1>12, <1>13, <1>14, <1>15, <1>16, <1>17
  DEF Next, RunNode, McpRouter, Terminated

LEMMA RoundsStep == TypeInv /\ [Next]_vars => RoundsBounded'
<1> SUFFICES ASSUME TypeInv, [Next]_vars PROVE RoundsBounded'
  OBVIOUS
<1>a. MaxSteps \in Nat /\ GraphRecursionLimit \in Nat /\ 6 * MaxSteps + 3 <= GraphRecursionLimit
  BY StepsAssumption, RecursionLimitAssumption
<1>b. nodeSteps \in Nat /\ currentStep \in Nat /\ RoundsBounded
  BY DEF TypeInv, TypeOK
<1> USE DEF Goto, LoopNodes
<1>1. CASE InputNormalizer
  BY <1>1, <1>a, <1>b, StepsAssumption DEF RoundsBounded, InputNormalizer
<1>2. CASE ContextResolver
  BY <1>2, <1>a, <1>b, StepsAssumption DEF RoundsBounded, ContextResolver
<1>3. CASE TaskPlanner
  BY <1>3, <1>a, <1>b DEF RoundsBounded, TaskPlanner
<1>4. CASE McpRouter
  BY <1>4, <1>a, <1>b
  DEF RoundsBounded, McpRouter, McpRouterSafeStop, McpRouterSource,
      McpRouterPlans, McpRouterDone, McpRouterFails, RouterReads
<1>5. CASE ToolExecutor
  BY <1>5, <1>a, <1>b DEF RoundsBounded, ToolExecutor, AfterTool
<1>6. CASE EvidenceExtractor
  BY <1>6, <1>a, <1>b DEF RoundsBounded, EvidenceExtractor
<1>7. CASE TaskEvaluator
  BY <1>7, <1>a, <1>b DEF RoundsBounded, TaskEvaluator
<1>8. CASE LoopController
  <2>1. CASE status' = "running"
    BY <1>8, <2>1, <1>a, <1>b, RunningHasRounds
    DEF RoundsBounded, TypeInv, LoopController, AfterLoop
  <2>2. CASE status' # "running"
    BY <1>8, <2>2, <1>a, <1>b DEF RoundsBounded, LoopController, AfterLoop
  <2>3. QED
    BY <2>1, <2>2
<1>9. CASE RcaBuilder
  BY <1>9, <1>b DEF RoundsBounded, RcaBuilder
<1>10. CASE NodeRaises
  BY <1>10, <1>b DEF RoundsBounded, NodeRaises
<1>11. CASE Tick \/ RegistryChanges \/ UNCHANGED vars
  BY <1>11, <1>b DEF RoundsBounded, Tick, RegistryChanges, vars
<1>12. QED
  BY <1>1, <1>2, <1>3, <1>4, <1>5, <1>6, <1>7, <1>8, <1>9, <1>10, <1>11
  DEF Next, RunNode, Terminated

LEMMA PlanStep == TypeInv /\ [Next]_vars => PlanExists'
<1> SUFFICES ASSUME TypeInv, [Next]_vars PROVE PlanExists'
  OBVIOUS
<1> USE DEF PlanExists, Goto
<1>1. CASE InputNormalizer \/ ContextResolver \/ TaskPlanner
  BY <1>1 DEF InputNormalizer, ContextResolver, TaskPlanner
<1>2. CASE McpRouter
  <2>1. action' # None
    BY <1>2, RouterPlans, NoneAssumption
  <2>2. pc' # "evidence_extractor"
    BY <1>2
    DEF McpRouter, McpRouterSafeStop, McpRouterSource, McpRouterPlans,
        McpRouterDone, McpRouterFails, RouterReads
  <2>3. QED
    BY <2>1, <2>2
<1>3. CASE ToolExecutor
  <2>1. CASE action = Done
    <3>1. pc' = "evidence_extractor" => FALSE
      BY <1>3, <2>1 DEF ToolExecutor, AfterTool
    <3>2. QED
      BY <1>3, <2>1, <3>1 DEF ToolExecutor, AfterTool
  <2>2. CASE action # Done
    <3>1. \E r \in CallRecord : history' = Append(history, r)
      BY <1>3, <2>2, ToolExecutorCommits
    <3>2. history' # << >>
      BY <3>1 DEF TypeInv, TypeOK
    <3>3. pc' # "tool_executor"
      BY <1>3 DEF ToolExecutor, AfterTool
    <3>4. QED
      BY <3>2, <3>3
  <2>3. QED
    BY <2>1, <2>2
<1>4. CASE EvidenceExtractor \/ TaskEvaluator \/ LoopController \/ RcaBuilder
  BY <1>4
  DEF EvidenceExtractor, TaskEvaluator, LoopController, RcaBuilder, AfterLoop
<1>5. CASE NodeRaises \/ Tick \/ RegistryChanges \/ UNCHANGED vars
  BY <1>5 DEF TypeInv, NodeRaises, Tick, RegistryChanges, vars
<1>6. QED
  BY <1>1, <1>2, <1>3, <1>4, <1>5 DEF Next, RunNode, Terminated

\* The strengthened type invariant holds of every investigation.
THEOREM TypeInvariant == Spec => []TypeInv
<1>1. TypeInv /\ [Next]_vars => TypeInv'
  BY TypeStep, RoundsStep, PlanStep DEF TypeInv
<1>2. QED
  BY TypeInit, <1>1, PTL DEF Spec

\* Every variable keeps to the values the nodes give it.
THEOREM TypeCorrect == Spec => []TypeOK
<1>1. TypeInv => TypeOK
  BY DEF TypeInv
<1>2. QED
  BY TypeInvariant, <1>1, PTL

\* No run ends in GraphRecursionError, for any step budget the recursion limit
\* covers: every branch of loop_controller that goes on has a round left, and
\* a round is at most six supersteps.
THEOREM RecursionLimitNeverHit == Spec => []NoRecursionError
<1>1. TypeInv => NoRecursionError
  BY DEF TypeInv, RoundsBounded, NoRecursionError
<1>2. QED
  BY TypeInvariant, <1>1, PTL

-----------------------------------------------------------------------------
(* EvidenceFollowsHistory is inductive on top of TypeInv.                  *)

LEMMA EvidenceStep ==
  TypeInv /\ EvidenceFollowsHistory /\ [Next]_vars => EvidenceFollowsHistory'
<1> SUFFICES ASSUME TypeInv, EvidenceFollowsHistory, [Next]_vars
             PROVE  EvidenceFollowsHistory'
  OBVIOUS
<1>a. history \in Seq(CallRecord) /\ evidence \in Seq(EvidenceEntry)
  BY DEF TypeInv, TypeOK
<1>b. "ok" # None /\ "failed" # None
  BY NoneAssumption
<1> USE DEF EvidenceFollowsHistory, Goto, Nodes, LoopNodes
<1>1. CASE InputNormalizer
  BY <1>1 DEF InputNormalizer
<1>2. CASE ContextResolver
  BY <1>2 DEF ContextResolver
<1>3. CASE TaskPlanner
  BY <1>3 DEF TaskPlanner
<1>4. CASE McpRouter
  <2>1. /\ UNCHANGED <<latest, history, evidence>>
        /\ pc = "mcp_router" /\ pc' \in {"tool_executor", "recursion_error"}
    BY <1>4
    DEF McpRouter, McpRouterSafeStop, McpRouterSource, McpRouterPlans,
        McpRouterDone, McpRouterFails, RouterReads
  <2>2. QED
    BY <2>1
<1>5. CASE ToolExecutor
  <2>1. CASE action = Done
    BY <1>5, <2>1 DEF ToolExecutor, AfterTool
  <2>2. CASE action # Done
    <3>1. PICK r \in CallRecord : /\ history' = Append(history, r)
                                  /\ latest' = IF r.ok THEN "ok" ELSE "failed"
      BY <1>5, <2>2, ToolExecutorCommits
    <3>2. /\ evidence' = evidence
          /\ pc = "tool_executor"
          /\ pc' \in {"evidence_extractor", "recursion_error"}
      BY <1>5, <2>2, <3>1, <1>b DEF ToolExecutor, AfterTool
    <3>3. Len(evidence) = Len(history)
      BY <3>2
    <3>4. /\ Len(history') = Len(history) + 1
          /\ history'[Len(history')] = r
          /\ \A i \in DOMAIN history : i \in DOMAIN history' /\ history'[i] = history[i]
      BY <3>1, <1>a
    <3>5. QED
      BY <3>1, <3>2, <3>3, <3>4, <1>a
  <2>3. QED
    BY <2>1, <2>2
<1>6. CASE EvidenceExtractor
  <2>1. PICK ok \in BOOLEAN, facts \in BOOLEAN :
          /\ evidence' = Append(evidence,
                             [call |-> LastCall, ok |-> ok, facts |-> facts])
          /\ ok => latest = "ok"
    BY <1>6, EvidenceExtractorCommits
  <2>2. /\ latest' = None /\ history' = history
        /\ pc = "evidence_extractor"
        /\ pc' \in {"task_evaluator", "recursion_error"}
    BY <1>6 DEF EvidenceExtractor
  <2>3. /\ Len(history) = Len(evidence) + 1
        /\ ok => history[Len(history)].ok
    BY <2>1, <2>2
  <2>4. /\ Len(evidence') = Len(evidence) + 1
        /\ evidence'[Len(evidence')].call = history[Len(history)].call
        /\ evidence'[Len(evidence')].ok = ok
        /\ \A i \in DOMAIN evidence : evidence'[i] = evidence[i]
    BY <2>1, <1>a DEF LastCall
  <2>5. QED
    BY <2>2, <2>3, <2>4, <1>a
<1>7. CASE TaskEvaluator
  BY <1>7 DEF TaskEvaluator
<1>8. CASE LoopController
  BY <1>8 DEF LoopController, AfterLoop
<1>9. CASE RcaBuilder
  BY <1>9 DEF RcaBuilder
<1>10. CASE NodeRaises
  BY <1>10 DEF NodeRaises
<1>11. CASE Tick \/ RegistryChanges \/ UNCHANGED vars
  BY <1>11 DEF Tick, RegistryChanges, vars
<1>12. QED
  BY <1>1, <1>2, <1>3, <1>4, <1>5, <1>6, <1>7, <1>8, <1>9, <1>10, <1>11
  DEF Next, RunNode, Terminated

\* Evidence slots follow the executed calls one to one and in order, for runs
\* of any length: no result is attributed to another call's arguments, used
\* twice or dropped, and none of a failed call becomes usable.
THEOREM EvidenceOrder == Spec => []EvidenceFollowsHistory
<1>1. Init => EvidenceFollowsHistory
  BY DEF Init, EvidenceFollowsHistory
<1>2. QED
  BY <1>1, TypeInvariant, EvidenceStep, PTL DEF Spec

-----------------------------------------------------------------------------
(* Repetition.  A planned cluster call is new when it is planned, and stays *)
(* new until the executor runs; an additional-source call carries the       *)
(* number of its round, which no recorded call has yet.                     *)

NewCall(c) == ~IsDuplicate(c)

PlanIsNew ==
  pc = "tool_executor" /\ action # Done =>
    \/ action \in Calls /\ NewCall(action)
    \/ action \in SourceCalls /\ action.at = currentStep

RoundsMarked ==
  \A i \in DOMAIN history :
    history[i].call \in SourceCalls =>
      /\ history[i].call.at <= currentStep
      /\ pc \in {"input_normalizer", "context_resolver", "task_planner",
                 "mcp_router", "tool_executor"} =>
           history[i].call.at < currentStep

RepeatInv == PlanIsNew /\ RoundsMarked /\ RepeatOnlyByBroadening

\* The call the executor records under the name it was asked for is not one
\* that already succeeded.
LEMMA ExecutedIsNew ==
  ASSUME TypeInv, RepeatInv, ToolExecutor, action # Done,
         NEW r \in CallTool, r.call = r.asked
  PROVE  \A i \in DOMAIN history : history[i].ok => history[i].call # r.call
<1>1. r.asked = action
  BY DEF CallTool, Executed
<1>2. CASE action \in Calls /\ NewCall(action)
  BY <1>1, <1>2 DEF NewCall, IsDuplicate
<1>3. CASE action \in SourceCalls /\ action.at = currentStep
  <2>1. \A i \in DOMAIN history :
          history[i].call \in SourceCalls => history[i].call.at < currentStep
    BY DEF RepeatInv, RoundsMarked, ToolExecutor, Goto
  <2>2. currentStep \in Nat
    BY DEF TypeInv, TypeOK
  <2>3. QED
    BY <1>1, <1>3, <2>1, <2>2
<1>4. QED
  BY <1>2, <1>3 DEF RepeatInv, PlanIsNew, ToolExecutor, Goto

\* Whatever call_tool runs of an additional-source call carries this round.
LEMMA SourceCallAsAsked ==
  ASSUME TypeInv, RepeatInv, ToolExecutor, action # Done,
         NEW r \in CallTool, r.call \in SourceCalls
  PROVE  r.call.at = currentStep
<1>1. CASE r.call = action
  <2>1. action \notin Calls
    BY <1>1, NoneAssumption
  <2>2. QED
    BY <1>1, <2>1 DEF RepeatInv, PlanIsNew, ToolExecutor, Goto
<1>2. CASE r.call # action
  <2>1. r.call \in Calls
    BY <1>2, CallsAssumption DEF CallTool, Executed
  <2>2. QED
    BY <2>1, NoneAssumption
<1>3. QED
  BY <1>1, <1>2

LEMMA RepeatStep == TypeInv /\ RepeatInv /\ [Next]_vars => RepeatInv'
<1> SUFFICES ASSUME TypeInv, RepeatInv, [Next]_vars PROVE RepeatInv'
  OBVIOUS
<1>a. /\ history \in Seq(CallRecord)
      /\ currentStep \in Nat
  BY DEF TypeInv, TypeOK
<1>b. \A i \in DOMAIN history :
        history[i].call \in SourceCalls => history[i].call.at \in Int
  BY StepsAssumption DEF SourceCalls
<1> USE DEF Goto
<1>1. CASE /\ UNCHANGED <<history, currentStep>>
           /\ pc' # "tool_executor"
           /\ pc' \in {"input_normalizer", "context_resolver", "task_planner",
                       "mcp_router", "tool_executor"} =>
                pc \in {"input_normalizer", "context_resolver", "task_planner",
                        "mcp_router", "tool_executor"}
  BY <1>1 DEF RepeatInv, PlanIsNew, RoundsMarked, RepeatOnlyByBroadening
<1>2. CASE InputNormalizer
  BY <1>1, <1>2 DEF InputNormalizer
<1>3. CASE ContextResolver
  BY <1>1, <1>3 DEF ContextResolver
<1>4. CASE TaskPlanner
  BY <1>1, <1>4 DEF TaskPlanner
<1>5. CASE McpRouter
  <2>1. UNCHANGED <<history, currentStep>> /\ pc = "mcp_router"
    BY <1>5
    DEF McpRouter, McpRouterSafeStop, McpRouterSource, McpRouterPlans,
        McpRouterDone, McpRouterFails, RouterReads
  <2>2. RoundsMarked' /\ RepeatOnlyByBroadening'
    BY <2>1 DEF RepeatInv, RoundsMarked, RepeatOnlyByBroadening
  <2>3. PlanIsNew'
    <3>1. CASE McpRouterPlans
      BY <2>1, <3>1 DEF McpRouterPlans, PlanIsNew, NewCall, IsDuplicate
    <3>2. CASE McpRouterSource
      <4>1. currentStep \in 0 .. MaxSteps - 1
        BY <1>a, <2>1, StepsAssumption DEF TypeInv, RoundsBounded, LoopNodes
      <4>2. QED
        BY <2>1, <3>2, <4>1 DEF McpRouterSource, PlanIsNew, SourceCalls
    <3>3. CASE action' = Done
      BY <3>3 DEF PlanIsNew
    <3>4. QED
      BY <1>5, <3>1, <3>2, <3>3
      DEF McpRouter, McpRouterSafeStop, McpRouterDone, McpRouterFails
  <2>4. QED
    BY <2>2, <2>3 DEF RepeatInv
<1>6. CASE ToolExecutor /\ action = Done
  BY <1>1, <1>6 DEF ToolExecutor, AfterTool
<1>7. CASE ToolExecutor /\ action # Done
  <2>1. PICK r \in CallTool : r \in CallRecord /\ history' = Append(history, r)
    BY <1>7, ToolExecutorCommits
  <2>2. /\ pc = "tool_executor" /\ currentStep' = currentStep
        /\ pc' \in {"evidence_extractor", "task_evaluator", "recursion_error"}
    BY <1>7 DEF ToolExecutor, AfterTool
  <2>3. r.call = r.asked =>
          \A i \in DOMAIN history : history[i].ok => history[i].call # r.call
    BY <1>7, <2>1, ExecutedIsNew
  <2>4. r.call \in SourceCalls => r.call.at = currentStep
    BY <1>7, <2>1, SourceCallAsAsked
  <2>5. /\ DOMAIN history' = 1 .. Len(history) + 1
        /\ DOMAIN history = 1 .. Len(history)
        /\ Len(history) \in Nat
        /\ history'[Len(history) + 1] = r
        /\ \A i \in DOMAIN history : history'[i] = history[i]
    BY <2>1, <1>a
  <2>6. RepeatOnlyByBroadening'
    BY <2>3, <2>5 DEF RepeatInv, RepeatOnlyByBroadening
  <2>7. RoundsMarked'
    BY <2>2, <2>4, <2>5, <1>a DEF RepeatInv, RoundsMarked
  <2>8. QED
    BY <2>2, <2>6, <2>7 DEF RepeatInv, PlanIsNew
<1>8. CASE EvidenceExtractor \/ TaskEvaluator
  BY <1>1, <1>8 DEF EvidenceExtractor, TaskEvaluator
<1>9. CASE LoopController
  <2>1. /\ history' = history
        /\ currentStep' = currentStep + 1
        /\ pc' # "tool_executor"
    BY <1>9 DEF LoopController, AfterLoop
  <2>2. QED
    BY <2>1, <1>a, <1>b
    DEF RepeatInv, PlanIsNew, RoundsMarked, RepeatOnlyByBroadening
<1>10. CASE RcaBuilder
  BY <1>1, <1>10 DEF RcaBuilder
<1>11. CASE NodeRaises
  BY <1>1, <1>11 DEF NodeRaises
<1>12. CASE Tick \/ RegistryChanges \/ UNCHANGED vars
  BY <1>12
  DEF Tick, RegistryChanges, vars, RepeatInv, PlanIsNew, NewCall, IsDuplicate,
      RoundsMarked, RepeatOnlyByBroadening
<1>13. QED
  BY <1>2, <1>3, <1>4, <1>5, <1>6, <1>7, <1>8, <1>9, <1>10, <1>11, <1>12
  DEF Next, RunNode, Terminated

\* However many rounds a run has and whatever fails in between, a call that
\* succeeded is repeated only as the unscoped retry of another one.
THEOREM NoSilentRepeat == Spec => []RepeatOnlyByBroadening
<1>1. Init => RepeatInv
  BY DEF Init, RepeatInv, PlanIsNew, RoundsMarked, RepeatOnlyByBroadening
<1>2. RepeatInv => RepeatOnlyByBroadening
  BY DEF RepeatInv
<1>3. QED
  BY <1>1, <1>2, TypeInvariant, RepeatStep, PTL DEF Spec
=============================================================================
