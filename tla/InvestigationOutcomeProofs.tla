--------------------- MODULE InvestigationOutcomeProofs ---------------------
(***************************************************************************)
(* Proofs about how an investigation ends: what it may cost, which reason  *)
(* it reports and what a success or a conclusion rests on; and that it     *)
(* implements the round budget, by a step simulation under the mapping of  *)
(* InvestigationRefinement.                                                *)
(***************************************************************************)
EXTENDS InvestigationRefinement, InvestigationProofs

USE DEF controlVars, verdictVars, tokenVars, envVars, evidenceVars

-----------------------------------------------------------------------------
(* Tokens.  The cap is looked at once per round, so the bound of the whole *)
(* run is the cap and what each node of one round and rca_builder may add. *)

TokensByNode ==
  /\ tokens <= sessionTokens
  /\ MaxTokens > 0 =>
       /\ tokens <= MaxTokens + 6 * MaxUsage
       /\ pc = "input_normalizer" => tokens = 0
       /\ pc \in {"context_resolver", "task_planner"} => tokens <= MaxTokens
       /\ pc = "mcp_router" => tokens <= MaxTokens + MaxUsage
       /\ pc \in {"tool_executor", "evidence_extractor"} =>
            tokens <= MaxTokens + 2 * MaxUsage
       /\ pc = "task_evaluator" => tokens <= MaxTokens + 3 * MaxUsage
       /\ pc \in {"loop_controller", "rca_builder"} =>
            tokens <= MaxTokens + 4 * MaxUsage

\* The loop goes on only below the cap.
LEMMA RunningBelowCap ==
  ASSUME TypeInv, LoopController, status' = "running", MaxTokens > 0
  PROVE  tokens <= MaxTokens
<1>1. LoopExit(currentStep + 1) = None
  BY DEF LoopController, StatusAfter
<1>2. HardLimit = None
  BY <1>1 DEF LoopExit
<1>3. ~TokenBudgetExceeded
  BY <1>2, NoneAssumption DEF HardLimit, ExitReasons, AbnormalExits
<1>4. QED
  BY <1>3, TokensAssumption DEF TokenBudgetExceeded, TypeInv, TypeOK

LEMMA TokensStep == TypeInv /\ TokensByNode /\ [Next]_vars => TokensByNode'
<1> SUFFICES ASSUME TypeInv, TokensByNode, [Next]_vars PROVE TokensByNode'
  OBVIOUS
<1>a. /\ tokens \in Nat /\ sessionTokens \in Nat
      /\ MaxTokens \in Nat /\ MaxUsage \in Nat
      /\ Usages \subseteq 0 .. MaxUsage
      /\ MaxTokens > 0 => MaxUsage <= MaxTokens
  BY TokensAssumption DEF TypeInv, TypeOK
<1> USE DEF TokensByNode, Goto
<1>1. CASE InputNormalizer
  <2>1. \/ UNCHANGED <<tokens, sessionTokens>>
        \/ \E u \in Usages : tokens' = tokens + u /\ sessionTokens' = sessionTokens + u
    BY <1>1 DEF InputNormalizer, Accumulate
  <2>2. /\ pc = "input_normalizer"
        /\ pc' \in {"context_resolver", "rca_builder", "recursion_error"}
    BY <1>1 DEF InputNormalizer
  <2>3. QED
    BY <2>1, <2>2, <1>a
<1>2. CASE ContextResolver
  <2>1. /\ UNCHANGED <<tokens, sessionTokens>>
        /\ pc = "context_resolver"
        /\ pc' \in {"task_planner", "rca_builder", "recursion_error"}
    BY <1>2 DEF ContextResolver
  <2>2. QED
    BY <2>1, <1>a
<1>3. CASE TaskPlanner
  <2>1. PICK u \in Usages : tokens' = tokens + u /\ sessionTokens' = sessionTokens + u
    BY <1>3 DEF TaskPlanner, Accumulate
  <2>2. pc = "task_planner" /\ pc' \in {"mcp_router", "recursion_error"}
    BY <1>3 DEF TaskPlanner
  <2>3. QED
    BY <2>1, <2>2, <1>a
<1>4. CASE McpRouter
  <2>1. \E u \in 0 .. MaxUsage, lost \in Nat :
          tokens' = tokens + u /\ sessionTokens' = sessionTokens + lost + u
    <3>1. CASE McpRouterSafeStop
      BY <3>1, <1>a DEF McpRouterSafeStop
    <3>2. CASE McpRouterSource
      BY <3>2, <1>a DEF McpRouterSource, Accumulate
    <3>3. CASE McpRouterPlans
      BY <3>3, <1>a DEF McpRouterPlans, LostUsages
    <3>4. CASE McpRouterDone \/ McpRouterFails
      <4>1. PICK u \in Usages, lost \in LostUsages : DropUsage(lost + u)
        BY <3>4 DEF McpRouterDone, McpRouterFails
      <4>2. u \in Nat /\ lost \in Nat
        BY <1>a DEF LostUsages
      <4>3. tokens' = tokens + 0 /\ sessionTokens' = sessionTokens + (lost + u) + 0
        BY <4>1, <4>2, <1>a DEF DropUsage
      <4>4. QED
        BY <4>2, <4>3, <1>a
    <3>5. QED
      BY <1>4, <3>1, <3>2, <3>3, <3>4 DEF McpRouter
  <2>2. pc = "mcp_router" /\ pc' \in {"tool_executor", "recursion_error"}
    BY <1>4
    DEF McpRouter, McpRouterSafeStop, McpRouterSource, McpRouterPlans,
        McpRouterDone, McpRouterFails, RouterReads
  <2>3. QED
    BY <2>1, <2>2, <1>a
<1>5. CASE ToolExecutor
  <2>1. /\ UNCHANGED <<tokens, sessionTokens>>
        /\ pc = "tool_executor"
        /\ pc' \in {"evidence_extractor", "task_evaluator", "recursion_error"}
    BY <1>5 DEF ToolExecutor, AfterTool
  <2>2. QED
    BY <2>1, <1>a
<1>6. CASE EvidenceExtractor
  <2>1. \/ UNCHANGED <<tokens, sessionTokens>>
        \/ \E u \in Usages : tokens' = tokens + u /\ sessionTokens' = sessionTokens + u
    BY <1>6 DEF EvidenceExtractor, Accumulate
  <2>2. /\ pc = "evidence_extractor"
        /\ pc' \in {"task_evaluator", "recursion_error"}
    BY <1>6 DEF EvidenceExtractor
  <2>3. QED
    BY <2>1, <2>2, <1>a
<1>7. CASE TaskEvaluator
  <2>1. \/ UNCHANGED <<tokens, sessionTokens>>
        \/ \E u \in Usages : tokens' = tokens + u /\ sessionTokens' = sessionTokens + u
    BY <1>7 DEF TaskEvaluator, Accumulate
  <2>2. pc = "task_evaluator" /\ pc' \in {"loop_controller", "recursion_error"}
    BY <1>7 DEF TaskEvaluator
  <2>3. QED
    BY <2>1, <2>2, <1>a
<1>8. CASE LoopController
  <2>1. /\ UNCHANGED <<tokens, sessionTokens>>
        /\ pc = "loop_controller"
        /\ pc' \in {"task_planner", "rca_builder", "recursion_error"}
        /\ pc' = "task_planner" => status' = "running"
    BY <1>8 DEF LoopController, AfterLoop
  <2>2. pc' = "task_planner" /\ MaxTokens > 0 => tokens <= MaxTokens
    BY <1>8, <2>1, RunningBelowCap
  <2>3. QED
    BY <2>1, <2>2, <1>a
<1>9. CASE RcaBuilder
  <2>1. \E u, v, lost \in 0 .. MaxUsage :
          /\ tokens' = tokens + (u + v)
          /\ sessionTokens' = sessionTokens + (u + v) + lost
    BY <1>9, <1>a DEF RcaBuilder, VerifierUsages, UncountedUsages
  <2>2. pc = "rca_builder" /\ pc' = "end"
    BY <1>9 DEF RcaBuilder
  <2>3. QED
    BY <2>1, <2>2, <1>a
<1>10. CASE NodeRaises
  BY <1>10 DEF NodeRaises
<1>11. CASE Tick \/ RegistryChanges \/ UNCHANGED vars
  BY <1>11 DEF Tick, RegistryChanges, vars
<1>12. QED
  BY <1>1, <1>2, <1>3, <1>4, <1>5, <1>6, <1>7, <1>8, <1>9, <1>10, <1>11
  DEF Next, RunNode, Terminated

\* A run never costs more than its cap and the six model calls that can
\* follow the last check, and never more than the adapter itself counted.
THEOREM TokenBound == Spec => []TokenOvershootBounded
<1>1. Init => TokensByNode
  BY TokensAssumption DEF Init, TokensByNode
<1>2. TokensByNode => TokenOvershootBounded
  BY DEF TokensByNode, TokenOvershootBounded
<1>3. QED
  BY <1>1, <1>2, TypeInvariant, TokensStep, PTL DEF Spec

-----------------------------------------------------------------------------
(* Failures and reasons.  Inside the loop a reason can only be the one the *)
(* router gave, and every declared failure is still in force when          *)
(* rca_builder reads the status.                                           *)

UpstreamFailures == {"no_query", "cluster_unresolved", "router_failed"}

FailureInForce ==
  /\ pc \in Nodes /\ errors \cap UpstreamFailures # {} => status = "failed"
  /\ pc \in {"input_normalizer", "context_resolver", "task_planner", "mcp_router"} =>
       status = "running"
  /\ pc \in LoopNodes => status # "done"
  /\ pc \in LoopNodes /\ status = "failed" => exitReason = "router_failed"
  /\ status = "failed" /\ pc = "tool_executor" => action = Done

ReasonsInOrder ==
  /\ "router_failed" \in errors <=> exitReason = "router_failed"
  /\ pc \in Nodes \ {"rca_builder"} => exitReason \in {None, "router_failed"}
  /\ "loop_exited_early" \in errors => exitReason \in AbnormalExits

SuccessIsClean ==
  /\ report # None => pc = "end"
  /\ CleanSuccess

ReportInv == FailureInForce /\ ReasonsInOrder /\ SuccessIsClean

\* The loop controller never takes a router failure away or invents one.
LEMMA ReasonsStepLoop ==
  ASSUME TypeInv, ReportInv, LoopController
  PROVE  /\ "router_failed" \in errors' <=> exitReason' = "router_failed"
         /\ "loop_exited_early" \in errors' => exitReason' \in AbnormalExits
         /\ status = "failed" => status' = "failed"
         /\ status' = "running" => exitReason' = None
         /\ errors' \cap UpstreamFailures = errors \cap UpstreamFailures
<1> DEFINE exit == LoopExit(currentStep + 1)
<1>1. exit # "router_failed"
  BY NoneAssumption
  DEF LoopExit, HardLimit, DetectedPattern, ExitReasons, AbnormalExits
<1>2. /\ exitReason \in {None, "router_failed"}
      /\ "loop_exited_early" \in errors => exitReason \in AbnormalExits
      /\ "router_failed" \in errors <=> exitReason = "router_failed"
      /\ exitReason = "router_failed" => status = "failed"
  BY DEF ReportInv, ReasonsInOrder, FailureInForce, UpstreamFailures,
         LoopController, Goto, Nodes, LoopNodes
<1>3. None \notin AbnormalExits \cup {"router_failed"}
  BY NoneAssumption DEF ExitReasons
<1>4. exitReason' = IF exitReason = "router_failed" THEN exitReason ELSE exit
  BY <1>2, <1>3 DEF LoopController, ReasonKept
<1>5. /\ errors \subseteq errors'
      /\ errors' \subseteq errors \cup {"loop_exited_early", "inconclusive"}
      /\ "loop_exited_early" \in errors' \ errors => exitReason' \in AbnormalExits
  BY DEF LoopController
<1>6. "loop_exited_early" \notin errors
  BY <1>2, <1>3 DEF AbnormalExits
<1>7. "router_failed" \in errors' <=> exitReason' = "router_failed"
  BY <1>1, <1>2, <1>3, <1>4, <1>5
<1>8. /\ status = "failed" => status' = "failed"
      /\ status' = "running" => exitReason' = None
  BY <1>2, <1>4 DEF LoopController, StatusAfter
<1>9. errors' \cap UpstreamFailures = errors \cap UpstreamFailures
  BY <1>5 DEF UpstreamFailures
<1>10. QED
  BY <1>5, <1>6, <1>7, <1>8, <1>9

LEMMA FailureStep == TypeInv /\ ReportInv /\ [Next]_vars => FailureInForce'
<1> SUFFICES ASSUME TypeInv, ReportInv, [Next]_vars PROVE FailureInForce'
  OBVIOUS
<1>a. FailureInForce
  BY DEF ReportInv
<1> USE DEF FailureInForce, UpstreamFailures, Goto, Nodes, LoopNodes
<1>1. CASE InputNormalizer
  BY <1>1, <1>a DEF InputNormalizer
<1>2. CASE ContextResolver
  BY <1>2, <1>a DEF ContextResolver
<1>3. CASE TaskPlanner
  BY <1>3, <1>a DEF TaskPlanner
<1>4. CASE McpRouterFails
  BY <1>4, <1>a DEF McpRouterFails, RouterReads
<1>5. CASE McpRouter /\ ~McpRouterFails
  <2>1. /\ pc = "mcp_router" /\ pc' \in {"tool_executor", "recursion_error"}
        /\ status' = status
        /\ errors' \subseteq errors \cup {"unroutable"}
    BY <1>5
    DEF McpRouter, McpRouterSafeStop, McpRouterSource, McpRouterPlans,
        McpRouterDone, RouterReads
  <2>2. QED
    BY <2>1, <1>a
<1>6. CASE ToolExecutor
  <2>1. /\ pc = "tool_executor"
        /\ pc' \in {"evidence_extractor", "task_evaluator", "recursion_error"}
        /\ UNCHANGED <<status, exitReason, action>>
        /\ errors' \subseteq errors \cup {"tool_failed"}
    BY <1>6 DEF ToolExecutor, AfterTool
  <2>2. QED
    BY <2>1, <1>a
<1>7. CASE EvidenceExtractor
  <2>1. /\ pc = "evidence_extractor"
        /\ pc' \in {"task_evaluator", "recursion_error"}
        /\ UNCHANGED <<status, exitReason, action>>
        /\ errors' \subseteq errors \cup {"storage_failed", "extraction_failed"}
    BY <1>7 DEF EvidenceExtractor, StorageErrors
  <2>2. QED
    BY <2>1, <1>a
<1>8. CASE TaskEvaluator
  BY <1>8, <1>a DEF TaskEvaluator
<1>9. CASE LoopController
  <2>1. /\ pc = "loop_controller"
        /\ pc' \in {"task_planner", "rca_builder", "recursion_error"}
        /\ pc' = "task_planner" => status' = "running"
    BY <1>9 DEF LoopController, AfterLoop
  <2>2. /\ status = "failed" => status' = "failed"
        /\ errors' \cap UpstreamFailures = errors \cap UpstreamFailures
    BY <1>9, ReasonsStepLoop
  <2>3. QED
    BY <2>1, <2>2, <1>a
<1>10. CASE RcaBuilder
  BY <1>10, <1>a DEF RcaBuilder
<1>11. CASE NodeRaises
  BY <1>11, <1>a DEF NodeRaises
<1>12. CASE Tick \/ RegistryChanges \/ UNCHANGED vars
  BY <1>12, <1>a DEF Tick, RegistryChanges, vars
<1>13. QED
  BY <1>1, <1>2, <1>3, <1>4, <1>5, <1>6, <1>7, <1>8, <1>9, <1>10, <1>11, <1>12
  DEF Next, RunNode, Terminated

LEMMA ReasonsStep == TypeInv /\ ReportInv /\ [Next]_vars => ReasonsInOrder'
<1> SUFFICES ASSUME TypeInv, ReportInv, [Next]_vars PROVE ReasonsInOrder'
  OBVIOUS
<1>a. /\ ReasonsInOrder
      /\ "cluster_unresolved" \notin AbnormalExits
      /\ None \notin AbnormalExits \cup {"router_failed", "cluster_unresolved"}
  BY NoneAssumption DEF ReportInv, ExitReasons, AbnormalExits
<1> USE DEF ReasonsInOrder, Goto, Nodes, LoopNodes
<1>1. CASE InputNormalizer
  BY <1>1, <1>a DEF InputNormalizer
<1>2. CASE ContextResolver
  <2>1. /\ pc = "context_resolver" /\ status = "running"
        /\ exitReason \in {None, "router_failed"}
    BY <1>2, <1>a DEF ContextResolver, ReportInv, FailureInForce
  <2>2. exitReason # "router_failed"
    BY <2>1, <1>a
    DEF ReportInv, FailureInForce, UpstreamFailures, LoopNodes
  <2>3. QED
    BY <1>2, <2>1, <2>2, <1>a DEF ContextResolver
<1>3. CASE TaskPlanner
  BY <1>3, <1>a DEF TaskPlanner
<1>4. CASE McpRouterFails
  <2>1. exitReason # "router_failed"
    BY <1>4, <1>a
    DEF ReportInv, FailureInForce, UpstreamFailures, McpRouterFails, RouterReads
  <2>2. "loop_exited_early" \notin errors
    BY <1>4, <1>a DEF McpRouterFails, RouterReads, AbnormalExits
  <2>3. QED
    BY <1>4, <2>1, <2>2, <1>a DEF McpRouterFails, RouterReads
<1>5. CASE McpRouter /\ ~McpRouterFails
  <2>1. /\ pc = "mcp_router" /\ pc' \in {"tool_executor", "recursion_error"}
        /\ exitReason' = exitReason
        /\ errors' \in {errors, errors \cup {"unroutable"}}
    BY <1>5
    DEF McpRouter, McpRouterSafeStop, McpRouterSource, McpRouterPlans,
        McpRouterDone, RouterReads
  <2>2. QED
    BY <2>1, <1>a
<1>6. CASE ToolExecutor
  <2>1. /\ pc = "tool_executor"
        /\ pc' \in {"evidence_extractor", "task_evaluator", "recursion_error"}
        /\ exitReason' = exitReason
        /\ errors' \in {errors, errors \cup {"tool_failed"}}
    BY <1>6 DEF ToolExecutor, AfterTool
  <2>2. QED
    BY <2>1, <1>a
<1>7. CASE EvidenceExtractor
  <2>1. /\ pc = "evidence_extractor"
        /\ pc' \in {"task_evaluator", "recursion_error"}
        /\ exitReason' = exitReason
        /\ errors \subseteq errors'
        /\ errors' \subseteq errors \cup {"storage_failed", "extraction_failed"}
    BY <1>7 DEF EvidenceExtractor, StorageErrors
  <2>2. QED
    BY <2>1, <1>a
<1>8. CASE TaskEvaluator
  BY <1>8, <1>a DEF TaskEvaluator
<1>9. CASE LoopController
  <2>1. /\ pc' \in {"task_planner", "rca_builder", "recursion_error"}
        /\ pc' = "task_planner" => status' = "running"
    BY <1>9 DEF LoopController, AfterLoop
  <2>2. /\ "router_failed" \in errors' <=> exitReason' = "router_failed"
        /\ "loop_exited_early" \in errors' => exitReason' \in AbnormalExits
        /\ status' = "running" => exitReason' = None
    BY <1>9, ReasonsStepLoop
  <2>3. QED
    BY <2>1, <2>2
<1>10. CASE RcaBuilder
  BY <1>10, <1>a DEF RcaBuilder
<1>11. CASE NodeRaises
  BY <1>11, <1>a DEF NodeRaises
<1>12. CASE Tick \/ RegistryChanges \/ UNCHANGED vars
  BY <1>12, <1>a DEF Tick, RegistryChanges, vars
<1>13. QED
  BY <1>1, <1>2, <1>3, <1>4, <1>5, <1>6, <1>7, <1>8, <1>9, <1>10, <1>11, <1>12
  DEF Next, RunNode, Terminated

\* What rca_builder reports as a success had no failure to hide.
LEMMA RcaBuilderTruthful ==
  ASSUME TypeInv, ReportInv, RcaBuilder, report'.status = "success"
  PROVE  errors \cap {"no_query", "cluster_unresolved", "router_failed",
                      "storage_failed", "loop_exited_early"} = {}
<1>1. report'.status = DeriveStatus("storage_failed" \in errors)
  BY DEF RcaBuilder
<1>2. /\ status # "failed"
      /\ exitReason \notin AbnormalExits
      /\ "storage_failed" \notin errors
  BY <1>1 DEF DeriveStatus
<1>3. errors \cap UpstreamFailures = {}
  BY <1>2 DEF ReportInv, FailureInForce, RcaBuilder, Goto, Nodes
<1>4. "loop_exited_early" \notin errors
  BY <1>2 DEF ReportInv, ReasonsInOrder
<1>5. QED
  BY <1>2, <1>3, <1>4 DEF UpstreamFailures

LEMMA SuccessStep == TypeInv /\ ReportInv /\ [Next]_vars => SuccessIsClean'
<1> SUFFICES ASSUME TypeInv, ReportInv, [Next]_vars PROVE SuccessIsClean'
  OBVIOUS
<1>a. SuccessIsClean
  BY DEF ReportInv
<1> USE DEF SuccessIsClean, CleanSuccess, Goto
<1>1. CASE pc # "end" /\ UNCHANGED report
  BY <1>1, <1>a
<1>2. CASE InputNormalizer \/ ContextResolver \/ TaskPlanner
  BY <1>1, <1>2 DEF InputNormalizer, ContextResolver, TaskPlanner
<1>3. CASE McpRouter
  BY <1>1, <1>3
  DEF McpRouter, McpRouterSafeStop, McpRouterSource, McpRouterPlans,
      McpRouterDone, McpRouterFails, RouterReads
<1>4. CASE ToolExecutor \/ EvidenceExtractor \/ TaskEvaluator \/ LoopController
  BY <1>1, <1>4
  DEF ToolExecutor, EvidenceExtractor, TaskEvaluator, LoopController
<1>5. CASE RcaBuilder
  <2>1. pc' = "end" /\ errors' = errors
    BY <1>5 DEF RcaBuilder
  <2>2. QED
    BY <1>5, <2>1, RcaBuilderTruthful
<1>6. CASE NodeRaises
  BY <1>1, <1>6 DEF NodeRaises, CallsOut
<1>7. CASE Tick \/ RegistryChanges \/ UNCHANGED vars
  BY <1>7, <1>a DEF Tick, RegistryChanges, vars
<1>8. QED
  BY <1>2, <1>3, <1>4, <1>5, <1>6, <1>7 DEF Next, RunNode, Terminated

LEMMA ReportInit == Init => ReportInv
  BY NoneAssumption
  DEF Init, ReportInv, FailureInForce, UpstreamFailures, ReasonsInOrder,
      SuccessIsClean, CleanSuccess, LoopNodes, ExitReasons

THEOREM ReportInvariant == Spec => []ReportInv
<1>1. TypeInv /\ ReportInv /\ [Next]_vars => ReportInv'
  BY FailureStep, ReasonsStep, SuccessStep DEF ReportInv
<1>2. QED
  BY <1>1, ReportInit, TypeInvariant, PTL DEF Spec

\* A router that could not plan is what the run reports, and only then.
THEOREM RouterFailureKept == Spec => []RouterFailureReported
<1>1. ReportInv => RouterFailureReported
  BY DEF ReportInv, ReasonsInOrder, RouterFailureReported
<1>2. QED
  BY <1>1, ReportInvariant, PTL

\* A success hides no upstream failure, abnormal exit or lost evidence write.
THEOREM SuccessTruthful == Spec => []CleanSuccess
<1>1. ReportInv => CleanSuccess
  BY DEF ReportInv, SuccessIsClean
<1>2. QED
  BY <1>1, ReportInvariant, PTL

\* Once declared failed, a run executes no tool and stays failed until the
\* report is built.
THEOREM FailureStaysFinal == Spec => FailureIsFinal
<1> DEFINE Final == status = "failed" =>
                      /\ UNCHANGED history
                      /\ status' # "failed" => pc = "rca_builder"
<1>1. TypeInv /\ ReportInv /\ [Next]_vars => [Final]_vars
  <2> SUFFICES ASSUME TypeInv, ReportInv, [Next]_vars, status = "failed"
               PROVE  /\ UNCHANGED history
                      /\ status' # "failed" => pc = "rca_builder"
    OBVIOUS
  <2>a. FailureInForce
    BY DEF ReportInv
  <2> USE DEF FailureInForce, Goto
  <2>1. CASE InputNormalizer \/ ContextResolver \/ TaskPlanner
    BY <2>1, <2>a DEF InputNormalizer, ContextResolver, TaskPlanner
  <2>2. CASE McpRouter
    BY <2>2, <2>a
    DEF McpRouter, McpRouterSafeStop, McpRouterSource, McpRouterPlans,
        McpRouterDone, McpRouterFails, RouterReads
  <2>3. CASE ToolExecutor
    BY <2>3, <2>a DEF ToolExecutor
  <2>4. CASE EvidenceExtractor \/ TaskEvaluator \/ RcaBuilder
    BY <2>4 DEF EvidenceExtractor, TaskEvaluator, RcaBuilder
  <2>5. CASE LoopController
    BY <2>5 DEF LoopController, StatusAfter
  <2>6. CASE NodeRaises \/ Tick \/ RegistryChanges \/ UNCHANGED vars
    BY <2>6 DEF NodeRaises, Tick, RegistryChanges, vars
  <2>7. QED
    BY <2>1, <2>2, <2>3, <2>4, <2>5, <2>6 DEF Next, RunNode, Terminated
<1>2. QED
  BY <1>1, TypeInvariant, ReportInvariant, PTL DEF Spec, FailureIsFinal

-----------------------------------------------------------------------------
(* What a verdict and a conclusion rest on.                                *)

\* loop_controller reads a verdict the evaluator gave for the evidence, the
\* step and the budget that are still current.
VerdictFresh ==
  pc = "loop_controller" =>
    /\ missing = MissingDomains
    /\ enough => AsksModel

ConclusionBacked ==
  /\ report # None => pc = "end"
  /\ NoEvidenceNoConclusion

VerdictInv == VerdictFresh /\ SufficientIsEarned /\ ConclusionBacked

\* "confidence_sufficient" is decided only on a fresh verdict, within the
\* token budget and with every domain covered or the last step taken.
LEMMA SufficientDecided ==
  ASSUME TypeInv, VerdictFresh, ReportInv, LoopController,
         exitReason' = "confidence_sufficient"
  PROVE  /\ UsableIds # {} /\ currentStep' > MinSteps /\ ~TokenBudgetExceeded
         /\ MissingDomains # {} => currentStep' = MaxSteps
<1>1. LoopExit(currentStep + 1) = "confidence_sufficient"
  BY NoneAssumption
  DEF LoopController, ReasonKept, ReportInv, ReasonsInOrder, Goto, Nodes,
      LoopNodes, ExitReasons
<1>2. /\ HardLimit = None
      /\ enough
      /\ missing # {} => ~(currentStep + 1 < MaxSteps)
  BY <1>1, NoneAssumption
  DEF LoopExit, HardLimit, DetectedPattern, ExitReasons, AbnormalExits
<1>3. ~TokenBudgetExceeded
  BY <1>2, NoneAssumption DEF HardLimit, ExitReasons, AbnormalExits
<1>4. /\ missing = MissingDomains
      /\ UsableIds # {} /\ currentStep >= MinSteps
  BY <1>2 DEF VerdictFresh, AsksModel, LoopController, Goto
<1>5. /\ currentStep' = currentStep + 1
      /\ currentStep \in Nat /\ currentStep < MaxSteps
  BY DEF LoopController, TypeInv, TypeOK, RoundsBounded, Goto, LoopNodes
<1>6. QED
  BY <1>2, <1>3, <1>4, <1>5, StepsAssumption

\* Without usable evidence the report escalates for review.
LEMMA NoUsableEscalates ==
  ASSUME RcaBuilder, UsableIds = {}
  PROVE  report'.band = "escalate" /\ report'.review
<1> DEFINE Built(outcome) == [outcome |-> outcome,
                              band    |-> Band(outcome),
                              review  |-> Band(outcome) # "auto" \/ UsableIds = {},
                              status  |-> DeriveStatus("storage_failed" \in errors)]
<1>1. PICK primary \in PrimaryClaims :
        \E outcome \in OutcomesFor(primary) : report' = Built(outcome)
  BY DEF RcaBuilder
<1>2. primary = FALSE
  BY DEF PrimaryClaims
<1>3. report' = Built("insufficient_evidence")
  BY <1>1, <1>2 DEF OutcomesFor
<1>4. QED
  BY <1>3 DEF Band

LEMMA VerdictStep ==
  TypeInv /\ EvidenceFollowsHistory /\ ReportInv /\ VerdictInv /\ [Next]_vars
    => VerdictInv'
<1> SUFFICES ASSUME TypeInv, EvidenceFollowsHistory, ReportInv, VerdictInv,
                    [Next]_vars
             PROVE  VerdictInv'
  OBVIOUS
<1>a. VerdictFresh /\ SufficientIsEarned /\ ConclusionBacked
  BY DEF VerdictInv
<1> USE DEF Goto
<1>1. CASE /\ pc # "end" /\ UNCHANGED report
           /\ pc' \notin {"loop_controller", "rca_builder"}
  BY <1>1, <1>a
  DEF VerdictInv, VerdictFresh, SufficientIsEarned, ConclusionBacked,
      NoEvidenceNoConclusion
<1>2. CASE InputNormalizer \/ ContextResolver
  <2>1. /\ pc # "end" /\ report' = report
        /\ pc' # "loop_controller"
    BY <1>2 DEF InputNormalizer, ContextResolver
  <2>2. exitReason' # "confidence_sufficient"
    BY <1>2, NoneAssumption
    DEF InputNormalizer, ContextResolver, ReportInv, ReasonsInOrder, Nodes,
        LoopNodes, ExitReasons
  <2>3. QED
    BY <2>1, <2>2, <1>a
    DEF VerdictInv, VerdictFresh, SufficientIsEarned, ConclusionBacked,
        NoEvidenceNoConclusion
<1>3. CASE TaskPlanner \/ EvidenceExtractor
  BY <1>1, <1>3 DEF TaskPlanner, EvidenceExtractor
<1>4. CASE McpRouter
  BY <1>1, <1>4
  DEF McpRouter, McpRouterSafeStop, McpRouterSource, McpRouterPlans,
      McpRouterDone, McpRouterFails, RouterReads
<1>5. CASE ToolExecutor
  BY <1>1, <1>5 DEF ToolExecutor, AfterTool
<1>6. CASE TaskEvaluator
  <2>1. /\ pc # "end" /\ report' = report
        /\ pc' # "rca_builder"
    BY <1>6 DEF TaskEvaluator
  <2>2. /\ UNCHANGED <<evidence, currentStep>>
        /\ missing' = MissingDomains
        /\ enough' => AsksModel
    BY <1>6 DEF TaskEvaluator, Completeness
  <2>3. VerdictFresh'
    BY <2>2 DEF VerdictFresh, MissingDomains, AsksModel, UsableIds
  <2>4. QED
    BY <2>1, <2>3, <1>a
    DEF VerdictInv, SufficientIsEarned, ConclusionBacked, NoEvidenceNoConclusion
<1>7. CASE LoopController
  <2>1. /\ pc # "end" /\ report' = report
        /\ pc' # "loop_controller"
        /\ UNCHANGED <<evidence, tokens>>
    BY <1>7 DEF LoopController, AfterLoop
  <2>2. SufficientIsEarned'
    BY <1>7, <1>a, <2>1, SufficientDecided
    DEF SufficientIsEarned, UsableIds, MissingDomains, TokenBudgetExceeded
  <2>3. QED
    BY <2>1, <2>2, <1>a
    DEF VerdictInv, VerdictFresh, ConclusionBacked, NoEvidenceNoConclusion
<1>8. CASE RcaBuilder
  <2>1. pc' = "end" /\ UNCHANGED <<evidence, history>>
    BY <1>8 DEF RcaBuilder
  <2>2. CASE UsableIds = {}
    BY <1>8, <2>1, <2>2, NoUsableEscalates
    DEF VerdictInv, VerdictFresh, SufficientIsEarned, ConclusionBacked,
        NoEvidenceNoConclusion
  <2>3. CASE UsableIds # {}
    <3>1. PICK i \in DOMAIN evidence : evidence[i].ok
      BY <2>3 DEF UsableIds
    <3>2. history[i].ok
      BY <3>1 DEF EvidenceFollowsHistory
    <3>3. QED
      BY <2>1, <3>1, <3>2
      DEF VerdictInv, VerdictFresh, SufficientIsEarned, ConclusionBacked,
          NoEvidenceNoConclusion
  <2>4. QED
    BY <2>2, <2>3
<1>9. CASE NodeRaises
  BY <1>1, <1>9 DEF NodeRaises, CallsOut
<1>10. CASE Tick \/ RegistryChanges \/ UNCHANGED vars
  BY <1>10, <1>a
  DEF Tick, RegistryChanges, vars, VerdictInv, VerdictFresh, AsksModel,
      SufficientIsEarned, ConclusionBacked, NoEvidenceNoConclusion,
      UsableIds, MissingDomains, TokenBudgetExceeded
<1>11. QED
  BY <1>2, <1>3, <1>4, <1>5, <1>6, <1>7, <1>8, <1>9, <1>10
  DEF Next, RunNode, Terminated

THEOREM VerdictInvariant == Spec => []VerdictInv
<1>1. Init => VerdictInv
  BY DEF Init, VerdictInv, VerdictFresh, SufficientIsEarned, ConclusionBacked,
         NoEvidenceNoConclusion
<1>2. QED
  BY <1>1, TypeInvariant, EvidenceOrder, ReportInvariant, VerdictStep, PTL
  DEF Spec

\* "confidence_sufficient" is never the model's word alone.
THEOREM SufficientEarned == Spec => []SufficientIsEarned
<1>1. VerdictInv => SufficientIsEarned
  BY DEF VerdictInv
<1>2. QED
  BY <1>1, VerdictInvariant, PTL

\* Only a run that extracted data from a successful call may conclude anything
\* without escalating to review.
THEOREM ConclusionNeedsEvidence == Spec => []NoEvidenceNoConclusion
<1>1. VerdictInv => NoEvidenceNoConclusion
  BY DEF VerdictInv, ConclusionBacked
<1>2. QED
  BY <1>1, VerdictInvariant, PTL

-----------------------------------------------------------------------------
(* What investigate() returns.                                             *)

\* A run without a cluster has read nothing, and whatever a run reports
\* without usable evidence escalates.
ReturnInv ==
  /\ pc \in {"input_normalizer", "context_resolver"} => evidence = << >>
  /\ exitReason = "cluster_unresolved" => evidence = << >>
  /\ pc = "end" =>
       /\ status = "done"
       /\ report \in Report
       /\ UsableIds = {} => report.band = "escalate"

\* Only context_resolver finds that there is no cluster.
LEMMA ControllerHasCluster ==
  ASSUME TypeInv, ReportInv, LoopController
  PROVE  exitReason' # "cluster_unresolved"
<1>1. LoopExit(currentStep + 1) # "cluster_unresolved"
  BY NoneAssumption
  DEF LoopExit, HardLimit, DetectedPattern, ExitReasons, AbnormalExits
<1>2. exitReason # "cluster_unresolved"
  BY NoneAssumption
  DEF ReportInv, ReasonsInOrder, LoopController, Goto, Nodes, LoopNodes,
      ExitReasons
<1>3. QED
  BY <1>1, <1>2 DEF LoopController, ReasonKept

LEMMA ReturnStep == TypeInv /\ ReportInv /\ ReturnInv /\ [Next]_vars => ReturnInv'
<1> SUFFICES ASSUME TypeInv, ReportInv, ReturnInv, [Next]_vars PROVE ReturnInv'
  OBVIOUS
<1>a. /\ pc \in Nodes \ {"rca_builder"} => exitReason # "cluster_unresolved"
      /\ None # "cluster_unresolved"
  BY NoneAssumption DEF ReportInv, ReasonsInOrder, ExitReasons
<1> USE DEF ReturnInv, Goto
<1>1. CASE InputNormalizer
  BY <1>1 DEF InputNormalizer
<1>2. CASE ContextResolver
  BY <1>2 DEF ContextResolver
<1>3. CASE TaskPlanner
  BY <1>3 DEF TaskPlanner
<1>4. CASE McpRouter
  BY <1>4, <1>a
  DEF McpRouter, McpRouterSafeStop, McpRouterSource, McpRouterPlans,
      McpRouterDone, McpRouterFails, RouterReads, Nodes, LoopNodes
<1>5. CASE ToolExecutor
  BY <1>5 DEF ToolExecutor, AfterTool
<1>6. CASE EvidenceExtractor
  <2>1. pc = "evidence_extractor" /\ pc' \in {"task_evaluator", "recursion_error"}
        /\ exitReason' = exitReason
    BY <1>6 DEF EvidenceExtractor
  <2>2. QED
    BY <2>1, <1>a DEF Nodes, LoopNodes
<1>7. CASE TaskEvaluator
  BY <1>7 DEF TaskEvaluator
<1>8. CASE LoopController
  <2>1. pc' \in {"task_planner", "rca_builder", "recursion_error"}
    BY <1>8 DEF LoopController, AfterLoop
  <2>2. QED
    BY <1>8, <2>1, ControllerHasCluster
<1>9. CASE RcaBuilder
  <2>1. /\ pc' = "end" /\ status' = "done"
        /\ UNCHANGED <<evidence, exitReason>>
    BY <1>9 DEF RcaBuilder
  <2>2. report' \in Report
    BY <1>9, RcaBuilderReports
  <2>3. UsableIds' = UsableIds
    BY <2>1 DEF UsableIds
  <2>4. UsableIds = {} => report'.band = "escalate"
    BY <1>9, NoUsableEscalates
  <2>5. QED
    BY <2>1, <2>2, <2>3, <2>4
<1>10. CASE NodeRaises
  BY <1>10 DEF NodeRaises, CallsOut
<1>11. CASE Tick \/ RegistryChanges \/ UNCHANGED vars
  BY <1>11 DEF Tick, RegistryChanges, vars, UsableIds
<1>12. QED
  BY <1>1, <1>2, <1>3, <1>4, <1>5, <1>6, <1>7, <1>8, <1>9, <1>10, <1>11
  DEF Next, RunNode, Terminated

LEMMA ReturnsResult == TypeInv /\ ReturnInv => ReturnsRunResult
<1> SUFFICES ASSUME TypeInv, ReturnInv, pc \in Ended, NEW u \in MayBeUninspected
             PROVE  Returned(u) \in Results
  BY DEF ReturnsRunResult
<1>1. CASE pc # "end"
  BY <1>1 DEF Returned, Results
<1>2. CASE pc = "end"
  <2>1. u \in BOOLEAN /\ report.band \in {"auto", "review", "escalate"}
    BY <1>2 DEF MayBeUninspected, ReturnInv, Report, Bands
  <2>2. CASE exitReason = "cluster_unresolved"
    <3>1. UsableIds = {}
      BY <2>2 DEF ReturnInv, UsableIds
    <3>2. u = FALSE /\ report.band = "escalate" /\ status = "done"
      BY <3>1, <1>2 DEF MayBeUninspected, ReturnInv
    <3>3. Returned(u) = [status |-> "done", exit |-> "cluster_unresolved",
                         band |-> "escalate", uninspected |-> FALSE]
      BY <1>2, <2>2, <3>2 DEF Returned
    <3>4. QED
      BY <3>3 DEF Results, GraphResults
  <2>3. CASE exitReason # "cluster_unresolved"
    <3>1. Returned(u) = [status |-> "done", exit |-> "loop",
                         band |-> report.band, uninspected |-> u]
      BY <1>2, <2>3 DEF Returned, ReturnInv
    <3>2. QED
      BY <3>1, <2>1 DEF Results, GraphResults
  <2>4. QED
    BY <2>2, <2>3
<1>3. QED
  BY <1>1, <1>2

\* Every ended run is, to the request around it, one of the results module
\* QueryLifecycle starts from.
THEOREM LoopReturnsResult == Spec => []ReturnsRunResult
<1>1. Init => ReturnInv
  BY NoneAssumption DEF Init, ReturnInv, ExitReasons
<1>2. QED
  BY <1>1, TypeInvariant, ReportInvariant, ReturnStep, ReturnsResult, PTL
  DEF Spec

-----------------------------------------------------------------------------
(* The reporting node.                                                     *)

\* The loop takes from rca_builder exactly what the contract lets it answer,
\* which RootCauseProofs shows the node's own model to keep: nothing the node
\* may report is unknown to the loop, and nothing the loop is checked for is
\* a report the contract rules out.
THEOREM ReportsAgree ==
  /\ RcaAnswers = ContractAnswers
  /\ RcaBuilder => [outcome |-> report'.outcome, band |-> report'.band,
                    review |-> report'.review] \in ContractAnswers
<1>1. \A o : Contract!Band(o) = Band(o)
  BY DEF Contract!Band, Band
<1>2. UNION {OutcomesFor(primary) : primary \in PrimaryClaims}
        = Contract!Conclusions(UsableIds # {})
  <2>1. CASE UsableIds = {}
    BY <2>1 DEF PrimaryClaims, OutcomesFor, Contract!Conclusions
  <2>2. CASE UsableIds # {}
    BY <2>2 DEF PrimaryClaims, OutcomesFor, Outcomes, Contract!Conclusions
  <2>3. QED
    BY <2>1, <2>2
<1>3. RcaAnswers = ContractAnswers
  BY <1>1, <1>2 DEF RcaAnswers, ContractAnswers
<1>4. ASSUME RcaBuilder
      PROVE  [outcome |-> report'.outcome, band |-> report'.band,
              review |-> report'.review] \in RcaAnswers
  <2> DEFINE Built(o) == [outcome |-> o,
                          band    |-> Band(o),
                          review  |-> Band(o) # "auto" \/ UsableIds = {},
                          status  |-> DeriveStatus("storage_failed" \in errors)]
  <2>0. PICK primary \in PrimaryClaims :
          \E o \in OutcomesFor(primary) : report' = Built(o)
    BY <1>4 DEF RcaBuilder
  <2>1. PICK outcome \in OutcomesFor(primary) : report' = Built(outcome)
    BY <2>0
  <2>2. outcome \in UNION {OutcomesFor(p) : p \in PrimaryClaims}
    BY <2>1
  <2>3. QED
    BY <2>1, <2>2 DEF RcaAnswers
<1>5. QED
  BY <1>3, <1>4

-----------------------------------------------------------------------------
(* Termination but for fairness: a run has a fixed number of supersteps.   *)

StepsLeft == 6 * MaxSteps + 3 - nodeSteps

RunsDown ==
  [][RunNode => pc' = "crashed" \/ (StepsLeft > 0 /\ StepsLeft' = StepsLeft - 1)]_vars

\* A node that runs ends the run or uses up one of a fixed number of
\* supersteps, whatever the model answers, the tools return and the registry
\* does meanwhile: the forced extra rounds, the rounds below min_steps and the
\* safe-stops included.  So a run ends wherever its nodes do, which is the
\* fairness TLC's check of Termination assumes.
THEOREM RoundsRunOut == Spec => RunsDown
<1>1. TypeInv /\ [Next]_vars =>
        [RunNode => pc' = "crashed" \/ (StepsLeft > 0 /\ StepsLeft' = StepsLeft - 1)]_vars
  <2> SUFFICES ASSUME TypeInv, RunNode, pc' # "crashed"
               PROVE  StepsLeft > 0 /\ StepsLeft' = StepsLeft - 1
    OBVIOUS
  <2>1. pc \in Nodes /\ nodeSteps' = nodeSteps + 1
    BY DEF RunNode, NodeRaises, InputNormalizer, ContextResolver, TaskPlanner,
           McpRouter, McpRouterSafeStop, McpRouterSource, McpRouterPlans,
           McpRouterDone, McpRouterFails, RouterReads, ToolExecutor,
           EvidenceExtractor, TaskEvaluator, LoopController, RcaBuilder, Goto,
           Nodes, LoopNodes
  <2>2. /\ nodeSteps \in Nat /\ currentStep \in Nat /\ MaxSteps \in Nat \ {0}
        /\ RoundsBounded
    BY StepsAssumption DEF TypeInv, TypeOK
  <2>3. nodeSteps <= 6 * MaxSteps + 2
    BY <2>1, <2>2 DEF RoundsBounded, Nodes, LoopNodes
  <2>4. QED
    BY <2>1, <2>2, <2>3 DEF StepsLeft
<1>2. QED
  BY <1>1, TypeInvariant, PTL DEF Spec, RunsDown

-----------------------------------------------------------------------------
(* What is left of "never guess an MCP destination".                       *)

\* The registry holds still between mcp_router's look at it and the call.
Calm == [][pc = "tool_executor" => registry' = registry]_vars

RoutedInv ==
  /\ pc = "tool_executor" /\ action \in Calls => registry = "enabled"
  /\ NeverGuessDestination

LEMMA RoutedStep ==
  ASSUME TypeInv, RoutedInv, [Next]_vars,
         [pc = "tool_executor" => registry' = registry]_vars
  PROVE  RoutedInv'
<1> USE DEF RoutedInv, NeverGuessDestination, Goto
<1>a. Done \notin Calls /\ history \in Seq(CallRecord)
  BY NoneAssumption DEF AllCalls, TypeInv, TypeOK
<1>1. CASE InputNormalizer \/ ContextResolver \/ TaskPlanner
  BY <1>1 DEF InputNormalizer, ContextResolver, TaskPlanner
<1>2. CASE McpRouter
  BY <1>2, <1>a
  DEF McpRouter, McpRouterSafeStop, McpRouterSource, McpRouterPlans,
      McpRouterDone, McpRouterFails, RouterReads
<1>3. CASE ToolExecutor /\ action = Done
  BY <1>3 DEF ToolExecutor, AfterTool
<1>4. CASE ToolExecutor /\ action # Done
  <2>1. PICK r \in CallTool : history' = Append(history, r)
    BY <1>4 DEF ToolExecutor
  <2>2. pc = "tool_executor" /\ pc' # "tool_executor"
    BY <1>4 DEF ToolExecutor, AfterTool
  <2>3. r.registered
    <3>1. PICK call, ok : r = Executed(call, ok)
      BY <2>1, SMT DEF CallTool
    <3>2. r.registered = (action \in Calls => registry # "missing")
      BY <3>1, Zenon DEF Executed
    <3>3. action \in Calls => registry # "missing"
      BY <2>2
    <3>4. QED
      BY <3>2, <3>3, Zenon
  <2>4. QED
    BY <2>1, <2>2, <2>3, <1>a
<1>5. CASE EvidenceExtractor \/ TaskEvaluator
  BY <1>5 DEF EvidenceExtractor, TaskEvaluator
<1>6. CASE LoopController \/ RcaBuilder
  BY <1>6 DEF LoopController, AfterLoop, RcaBuilder
<1>7. CASE NodeRaises \/ Tick \/ RegistryChanges \/ UNCHANGED vars
  BY <1>7 DEF NodeRaises, Tick, RegistryChanges, vars
<1>8. QED
  BY <1>1, <1>2, <1>3, <1>4, <1>5, <1>6, <1>7 DEF Next, RunNode, Terminated

\* The finding on NeverGuessDestination goes no further than one window: a
\* cluster's call goes to a default project and region only when the entry was
\* lost after mcp_router had seen it enabled, in the same round.  Changes at
\* any other time, in earlier rounds too, end as safe-stops.
THEOREM GuessesOnlyInTheWindow == Spec /\ Calm => []NeverGuessDestination
<1>1. Init => RoutedInv
  BY DEF Init, RoutedInv, NeverGuessDestination
<1>2. RoutedInv => NeverGuessDestination
  BY DEF RoutedInv
<1>3. TypeInv /\ RoutedInv /\ [Next]_vars
        /\ [pc = "tool_executor" => registry' = registry]_vars => RoutedInv'
  BY RoutedStep
<1>4. QED
  BY <1>1, <1>2, <1>3, TypeInvariant, PTL DEF Spec, Calm

-----------------------------------------------------------------------------
(* The round budget.                                                       *)

\* At most one call per round.
OneCallPerRound ==
  /\ Len(history) <= currentStep + 1
  /\ pc \in {"input_normalizer", "context_resolver", "task_planner",
             "mcp_router", "tool_executor"} => Len(history) <= currentStep

LEMMA OneCallStep == TypeInv /\ OneCallPerRound /\ [Next]_vars => OneCallPerRound'
<1> SUFFICES ASSUME TypeInv, OneCallPerRound, [Next]_vars PROVE OneCallPerRound'
  OBVIOUS
<1>a. history \in Seq(CallRecord) /\ currentStep \in Nat
  BY DEF TypeInv, TypeOK
<1> USE DEF OneCallPerRound, Goto
<1>1. CASE InputNormalizer \/ ContextResolver \/ TaskPlanner
  BY <1>1 DEF InputNormalizer, ContextResolver, TaskPlanner
<1>2. CASE McpRouter
  BY <1>2
  DEF McpRouter, McpRouterSafeStop, McpRouterSource, McpRouterPlans,
      McpRouterDone, McpRouterFails, RouterReads
<1>3. CASE ToolExecutor /\ action = Done
  BY <1>3 DEF ToolExecutor, AfterTool
<1>4. CASE ToolExecutor /\ action # Done
  <2>1. PICK r \in CallRecord : history' = Append(history, r)
    BY <1>4, ToolExecutorCommits
  <2>2. /\ pc = "tool_executor" /\ currentStep' = currentStep
        /\ pc' \in {"evidence_extractor", "task_evaluator", "recursion_error"}
    BY <1>4 DEF ToolExecutor, AfterTool
  <2>3. QED
    BY <2>1, <2>2, <1>a
<1>5. CASE EvidenceExtractor \/ TaskEvaluator \/ RcaBuilder
  BY <1>5 DEF EvidenceExtractor, TaskEvaluator, RcaBuilder
<1>6. CASE LoopController
  <2>1. history' = history /\ currentStep' = currentStep + 1
    BY <1>6 DEF LoopController
  <2>2. QED
    BY <2>1, <1>a
<1>7. CASE NodeRaises \/ Tick \/ RegistryChanges \/ UNCHANGED vars
  BY <1>7 DEF NodeRaises, Tick, RegistryChanges, vars
<1>8. QED
  BY <1>1, <1>2, <1>3, <1>4, <1>5, <1>6, <1>7 DEF Next, RunNode, Terminated

LEMMA InitSimulates == Init => Budget!Init
<1> SUFFICES ASSUME Init PROVE Budget!Init
  OBVIOUS
<1>1. Phase = "accepting"
  BY DEF Init, Phase, LoopNodes
<1>2. Len(history) = 0
  BY DEF Init
<1>3. QED
  BY <1>1, <1>2 DEF Init, Budget!Init

\* Each node is a step of the round budget, or none.
LEMMA StepSimulates ==
  TypeInv /\ TypeInv' /\ ReportInv /\ OneCallPerRound /\ [Next]_vars
    => [Budget!Next]_(Budget!vars)
<1> SUFFICES ASSUME TypeInv, TypeInv', ReportInv, OneCallPerRound, [Next]_vars
             PROVE  Budget!Next \/ UNCHANGED <<Phase, currentStep, Len(history), exitReason>>
  BY DEF Budget!vars
<1>a. /\ history \in Seq(CallRecord) /\ currentStep \in Nat
      /\ pc' # "recursion_error"
  BY DEF TypeInv, TypeOK, RoundsBounded
<1>b. FailureInForce /\ ReasonsInOrder
  BY DEF ReportInv
<1> USE DEF Goto, Phase, LoopNodes, Nodes
<1>1. CASE InputNormalizer
  <2>1. pc = "input_normalizer" /\ UNCHANGED <<currentStep, history, exitReason>>
    BY <1>1 DEF InputNormalizer
  <2>2. CASE pc' = "context_resolver"
    BY <2>1, <2>2
  <2>3. CASE pc' = "rca_builder"
    <3>1. exitReason' \in ExitReasons \cup {None}
      BY DEF TypeInv, TypeOK
    <3>2. QED
      BY <2>1, <2>3, <3>1 DEF Budget!Next, Budget!Refuse
  <2>4. QED
    BY <1>1, <1>a, <2>2, <2>3 DEF InputNormalizer
<1>2. CASE ContextResolver
  BY <1>2, <1>a
  DEF ContextResolver, Budget!Next, Budget!Begin, Budget!Refuse, ExitReasons
<1>3. CASE TaskPlanner \/ EvidenceExtractor \/ TaskEvaluator
  BY <1>3, <1>a DEF TaskPlanner, EvidenceExtractor, TaskEvaluator
<1>4. CASE McpRouterFails
  <2>1. exitReason = None
    BY <1>4, <1>b
    DEF McpRouterFails, RouterReads, FailureInForce, UpstreamFailures,
        ReasonsInOrder
  <2>2. QED
    BY <1>4, <1>a, <2>1
    DEF McpRouterFails, RouterReads, Budget!Next, Budget!Condemn, ExitReasons
<1>5. CASE McpRouter /\ ~McpRouterFails
  BY <1>5, <1>a
  DEF McpRouter, McpRouterSafeStop, McpRouterSource, McpRouterPlans,
      McpRouterDone, RouterReads
<1>6. CASE ToolExecutor /\ action = Done
  BY <1>6, <1>a DEF ToolExecutor, AfterTool
<1>7. CASE ToolExecutor /\ action # Done
  <2>1. PICK r \in CallRecord : history' = Append(history, r)
    BY <1>7, ToolExecutorCommits
  <2>2. Len(history') = Len(history) + 1
    BY <2>1, <1>a
  <2>3. /\ pc = "tool_executor"
        /\ UNCHANGED <<currentStep, exitReason>>
        /\ pc' \in {"evidence_extractor", "task_evaluator"}
    BY <1>7, <1>a DEF ToolExecutor, AfterTool
  <2>4. exitReason = None
    BY <1>7, <2>3, <1>b
    DEF FailureInForce, UpstreamFailures, ReasonsInOrder
  <2>5. QED
    BY <2>2, <2>3, <2>4 DEF OneCallPerRound, Budget!Next, Budget!Call
<1>8. CASE LoopController
  <2>1. /\ pc = "loop_controller" /\ history' = history
        /\ currentStep' = currentStep + 1
        /\ pc' = IF status' = "running" THEN "task_planner" ELSE "rca_builder"
    BY <1>8, <1>a DEF LoopController, AfterLoop
  <2>2. exitReason \in {None, "router_failed"}
    BY <2>1, <1>b DEF ReasonsInOrder
  <2>3. CASE status' = "running"
    <3>1. exitReason' = None /\ currentStep' < MaxSteps
      BY <1>8, <2>1, <2>3, ReasonsStepLoop, RunningHasRounds DEF TypeInv
    <3>2. exitReason = None
      BY <1>8, <2>1, <2>2, <2>3, <1>b, ReasonsStepLoop
      DEF FailureInForce, UpstreamFailures, ReasonsInOrder
    <3>3. QED
      BY <2>1, <2>3, <3>1, <3>2 DEF Budget!Next, Budget!EndRound
  <2>4. CASE status' # "running"
    <3>1. exitReason' \in ExitReasons
      <4>1. CASE status = "failed"
        BY <1>8, <2>1, <4>1, <1>b, NoneAssumption
        DEF FailureInForce, LoopController, ReasonKept, ExitReasons
      <4>2. CASE status # "failed"
        BY <1>8, <2>4, <4>2, <1>a, LoopExitDecides, NoneAssumption
        DEF LoopController, StatusAfter, ReasonKept
      <4>3. QED
        BY <4>1, <4>2
    <3>2. exitReason # None => exitReason' = exitReason
      BY <1>8, <2>1, <2>2, <1>b, NoneAssumption
      DEF FailureInForce, UpstreamFailures, ReasonsInOrder, LoopController,
          ReasonKept
    <3>3. QED
      BY <2>1, <2>4, <3>1, <3>2 DEF Budget!Next, Budget!EndRound
  <2>5. QED
    BY <2>3, <2>4
<1>9. CASE RcaBuilder
  BY <1>9 DEF RcaBuilder, Budget!Next, Budget!Conclude
<1>10. CASE NodeRaises
  BY <1>10 DEF NodeRaises, CallsOut, Budget!Next, Budget!Abort
<1>11. CASE Tick \/ RegistryChanges \/ UNCHANGED vars
  BY <1>11 DEF Tick, RegistryChanges, vars
<1>12. QED
  BY <1>1, <1>2, <1>3, <1>4, <1>5, <1>6, <1>7, <1>8, <1>9, <1>10, <1>11
  DEF Next, RunNode, Terminated

\* Whatever the model answers and the tools return, an investigation is a
\* bounded number of rounds with at most one call each, executes nothing after
\* a verdict, and keeps the first verdict it reached.
THEOREM InvestigationKeepsRoundBudget == Spec => KeepsRoundBudget
<1>1. Init => OneCallPerRound
  BY DEF Init, OneCallPerRound
<1>2. QED
  BY <1>1, InitSimulates, StepSimulates, OneCallStep, TypeInvariant,
     ReportInvariant, PTL
  DEF Spec, KeepsRoundBudget, Budget!Safety
=============================================================================
