--------------------------- MODULE Investigation ---------------------------
(***************************************************************************)
(* The investigation loop of the SRE agent: the LangGraph state machine    *)
(* that agent/graph.py compiles from the nine nodes in agent/nodes/.       *)
(* One node is one action: LangGraph commits a node's returned update      *)
(* before the next node runs, so a node is atomic towards the other nodes. *)
(* Two things do change under a running investigation: the wall clock and  *)
(* the cluster registry, which other requests refresh and operators edit.  *)
(*                                                                         *)
(* What the language model answers is a nondeterministic choice among the  *)
(* answers the node distinguishes.                                         *)
(***************************************************************************)
EXTENDS Integers, Sequences, FiniteSets

CONSTANTS
  None,           \* Python's None
  Done,           \* the action whose tool is "done"
  Calls,          \* (tool, arguments) pairs on the cluster's own MCP source
  Scoped,         \* the calls list_k8s_events(name = ...), retried unscoped
  Broad,          \* Broad[c]: the same call without name / pod_name / pod
  Sources,        \* enabled additional sources ({} in the shipped catalog)
  Domain,         \* Domain[c]: evidence domain of c (classify_tool)
  Required,       \* domains the incident type requires (policy.required_now)
  ClusterType,    \* "gke" or "onprem", from the registry entry
  MaxSteps,       \* investigation.max_steps (5)
  MinSteps,       \* investigation.min_steps (2)
  SafetyBudget,   \* SAFETY_BUDGET_SECONDS (200)
  MaxDuration,    \* investigation.max_duration_seconds (540)
  TimeCap,        \* bound of the modelled clock
  RegistryStates, \* bound: states of the cluster's registry entry considered
  MaxTokens,      \* MAX_TOKENS_PER_RUN (100000); 0 disables the cap
  Usages,         \* token totals one model call may report
  MaxUsage,       \* an upper bound of Usages
  GraphRecursionLimit  \* supersteps LangGraph allows (60)

ASSUME CallsAssumption ==
  /\ Scoped \subseteq Calls
  /\ Broad \in [Scoped -> Calls \ Scoped]
  /\ Required \subseteq {Domain[c] : c \in Calls}
  /\ ClusterType \in {"gke", "onprem"}

ASSUME StepsAssumption ==
  /\ MaxSteps \in Nat \ {0}
  /\ MinSteps \in 0 .. MaxSteps
  /\ GraphRecursionLimit \in Nat

\* Two nodes before the loop, six in each round and rca_builder: 33 for the
\* shipped five rounds, against a limit of 60.
ASSUME RecursionLimitAssumption == 6 * MaxSteps + 3 <= GraphRecursionLimit

\* An override may only lower the safety budget below its 200 s maximum, and
\* max_duration_seconds is 540.
ASSUME ClockAssumption ==
  /\ SafetyBudget \in Nat \ {0}
  /\ MaxDuration \in Nat
  /\ SafetyBudget <= MaxDuration
  /\ TimeCap \in Nat
  /\ RegistryStates \subseteq {"enabled", "disabled", "missing"}

ASSUME TokensAssumption ==
  /\ MaxTokens \in Nat
  /\ MaxUsage \in Nat
  /\ Usages \subseteq 0 .. MaxUsage
  /\ MaxTokens = 0 \/ MaxUsage <= MaxTokens

VARIABLES
  pc,            \* the node LangGraph runs next, or how the run ended
  nodeSteps,     \* supersteps executed so far
  status,        \* investigation.status
  currentStep,   \* investigation.current_step
  enough,        \* investigation.enough_evidence
  exitReason,    \* investigation.loop_exit_reason
  missing,       \* completeness.missing_required_domains
  tokens,        \* investigation.tokens_total
  sessionTokens, \* the adapter's own session total
  elapsed,       \* now - started_at_monotonic
  registry,      \* the cluster's registry entry as the next reader sees it
  action,        \* current_action
  latest,        \* latest_tool_result
  history,       \* tool_history
  evidence,      \* evidence_store, in evidence_ids order
  errors,        \* kinds of entries in state.errors, those a property reads
  report         \* final_summary

tokenVars    == <<tokens, sessionTokens>>
verdictVars  == <<enough, missing>>
controlVars  == <<status, currentStep, exitReason>>
evidenceVars == <<latest, history, evidence>>
envVars      == <<elapsed, registry>>
vars == <<pc, nodeSteps, controlVars, verdictVars, tokenVars, envVars,
          action, evidenceVars, errors, report>>

-----------------------------------------------------------------------------
(* Values.                                                                 *)

LoopNodes == {"task_planner", "mcp_router", "tool_executor",
              "evidence_extractor", "task_evaluator", "loop_controller"}
Nodes == LoopNodes \cup {"input_normalizer", "context_resolver", "rca_builder"}
Ended == {"end", "crashed", "recursion_error"}

\* start_ts / end_ts make every additional-source call a call of its own.
SourceCalls == [source : Sources, at : 0 .. MaxSteps - 1]
AllCalls == Calls \cup SourceCalls

AbnormalExits ==
  {"stuck_detected", "zero_new_facts", "oscillation_detected", "timeout",
   "consecutive_tool_failures", "token_budget_exceeded",
   "safety_budget_exceeded"}
ExitReasons == AbnormalExits \cup
  {"confidence_sufficient", "max_iterations", "tool_signaled_done",
   "router_failed", "cluster_unresolved"}
ErrorKinds ==
  {"no_query", "cluster_unresolved", "unroutable", "router_failed",
   "tool_failed", "storage_failed", "extraction_failed",
   "loop_exited_early", "inconclusive"}

Outcomes == {"confirmed", "probable", "possible", "conflicting_evidence",
             "insufficient_evidence"}
Bands == {"auto", "review", "escalate"}

\* A tool call as recorded: asked is what mcp_router planned, call what ran.
CallRecord == [asked : AllCalls, call : AllCalls, ok : BOOLEAN,
               registered : BOOLEAN]
\* An evidence entry: ok is the flag every consumer filters on.
EvidenceEntry == [call : AllCalls, ok : BOOLEAN, facts : BOOLEAN]
Report == [outcome : Outcomes, band : Bands, review : BOOLEAN,
           status : {"success", "error"}]

ASSUME NoneAssumption ==
  /\ None \notin ExitReasons \cup Report \cup {"ok", "failed"}
  /\ Done # None
  /\ {None, Done} \cap AllCalls = {}
  /\ Calls \cap SourceCalls = {}

-----------------------------------------------------------------------------
(* LangGraph: committing a node's update and moving along an edge.  The    *)
(* engine raises GraphRecursionError when recursion_limit supersteps have  *)
(* run and a node is still to come.                                        *)

Goto(node, next) ==
  /\ pc = node
  /\ nodeSteps' = nodeSteps + 1
  /\ pc' = IF next # "end" /\ nodeSteps + 1 >= GraphRecursionLimit
             THEN "recursion_error"
             ELSE next

AfterLoop(st) == IF st = "running" THEN "task_planner" ELSE "rca_builder"

AfterTool(act, result) ==
  IF act = Done \/ result = None THEN "task_evaluator" ELSE "evidence_extractor"

\* One model call whose usage the node folds into the investigation.
Accumulate(u) ==
  /\ tokens' = tokens + u
  /\ sessionTokens' = sessionTokens + u

\* One model call whose usage the node returns without folding it in.
DropUsage(u) ==
  /\ sessionTokens' = sessionTokens + u
  /\ UNCHANGED tokens

-----------------------------------------------------------------------------
(* What the nodes read from the state.                                     *)

IsOk(r) == r.ok

\* usable_evidence_ids: slots that carry data.
UsableIds == {i \in DOMAIN evidence : evidence[i].ok}

\* Required domains no usable evidence covers.  Additional sources serve
\* metrics, which no incident type requires.
MissingDomains ==
  Required \ {Domain[evidence[i].call] :
                i \in {j \in UsableIds : evidence[j].call \in Calls}}

\* Defect: only the previous call is compared.
IsDuplicate_LastOnly(c) ==
  /\ history # << >>
  /\ history[Len(history)].ok /\ history[Len(history)].call = c

IsDuplicate(c) == \E i \in DOMAIN history : history[i].ok /\ history[i].call = c

LastTwo(s, P(_)) ==
  /\ Len(s) >= 2
  /\ P(s[Len(s)])
  /\ P(s[Len(s) - 1])

IsFailed(r) == ~r.ok
NoFacts(e)  == ~e.facts

IsStuck ==
  /\ LastTwo(history, IsOk)
  /\ history[Len(history)].call = history[Len(history) - 1].call

IsOscillating ==
  LET h == SelectSeq(history, IsOk)
      n == Len(h)
  IN /\ n >= 4
     /\ h[n - 3].call = h[n - 1].call
     /\ h[n - 2].call = h[n].call
     /\ h[n - 3].call # h[n - 2].call

ConsecutiveToolFailures == LastTwo(history, IsFailed)
ZeroNewFacts            == LastTwo(SelectSeq(evidence, IsOk), NoFacts)
TokenBudgetExceeded     == MaxTokens > 0 /\ tokens > MaxTokens

-----------------------------------------------------------------------------
Init ==
  /\ pc = "input_normalizer"
  /\ nodeSteps = 0
  /\ status = "running"
  /\ currentStep = 0
  /\ enough = FALSE
  /\ exitReason = None
  /\ missing = {}
  /\ tokens = 0
  /\ sessionTokens = 0
  /\ elapsed = 0
  /\ registry \in RegistryStates
  /\ action = None
  /\ latest = None
  /\ history = << >>
  /\ evidence = << >>
  /\ errors = {}
  /\ report = None

-----------------------------------------------------------------------------
(* The world around the run.                                               *)

\* time.monotonic() advances while nodes wait on the model and on tools.
Tick ==
  /\ pc \notin Ended
  /\ elapsed < TimeCap
  /\ elapsed' = elapsed + 1
  /\ UNCHANGED <<pc, nodeSteps, controlVars, verdictVars, tokenVars, registry,
                 action, evidenceVars, errors, report>>

\* The registry is reloaded on its own schedule; an entry can be disabled or
\* removed, or lost to a failed reload.
RegistryChanges ==
  /\ pc \notin Ended
  /\ registry' \in RegistryStates \ {registry}
  /\ UNCHANGED <<pc, nodeSteps, controlVars, verdictVars, tokenVars, elapsed,
                 action, evidenceVars, errors, report>>

-----------------------------------------------------------------------------
(* input_normalizer and context_resolver.                                  *)

InputNormalizer ==
  \/ /\ Goto("input_normalizer", "context_resolver")
     /\ \E u \in Usages : Accumulate(u)
     /\ UNCHANGED <<controlVars, verdictVars, envVars, action, evidenceVars,
                    errors, report>>
  \/ /\ Goto("input_normalizer", "rca_builder")      \* no user_query
     /\ status' = "failed"
     /\ errors' = errors \cup {"no_query"}
     /\ UNCHANGED <<currentStep, exitReason, verdictVars, tokenVars, envVars,
                    action, evidenceVars, report>>

\* Routing may fail on any registry; it resolves to an enabled entry only.
ContextResolver ==
  \/ /\ Goto("context_resolver", "task_planner")
     /\ registry = "enabled"
     /\ UNCHANGED <<controlVars, verdictVars, tokenVars, envVars, action,
                    evidenceVars, errors, report>>
  \/ /\ Goto("context_resolver", "rca_builder")
     /\ status' = "failed"
     /\ exitReason' = "cluster_unresolved"
     /\ errors' = errors \cup {"cluster_unresolved"}
     /\ UNCHANGED <<currentStep, verdictVars, tokenVars, envVars, action,
                    evidenceVars, report>>

-----------------------------------------------------------------------------
(* task_planner: the plan only steers the model's next answers.            *)

TaskPlanner ==
  /\ Goto("task_planner", "mcp_router")
  /\ \E u \in Usages : Accumulate(u)
  /\ UNCHANGED <<controlVars, verdictVars, envVars, action, evidenceVars,
                 errors, report>>

-----------------------------------------------------------------------------
(* mcp_router.                                                             *)

\* Usage of an additional-source query the model failed to construct: the
\* node falls through to Kubernetes routing and forgets it.
LostUsages == IF Sources = {} THEN {0} ELSE {0} \cup Usages

RouterReads == /\ Goto("mcp_router", "tool_executor")
               /\ registry = "enabled"
               /\ UNCHANGED <<currentStep, verdictVars, envVars, evidenceVars,
                              report>>

McpRouterSafeStop ==
  /\ Goto("mcp_router", "tool_executor")
  /\ registry # "enabled"
  /\ action' = Done
  /\ errors' = errors \cup {"unroutable"}
  /\ UNCHANGED <<controlVars, verdictVars, tokenVars, envVars, evidenceVars,
                 report>>

McpRouterSource ==
  /\ RouterReads
  /\ \E u \in Usages : Accumulate(u)
  /\ \E s \in Sources : action' = [source |-> s, at |-> currentStep]
  /\ UNCHANGED <<status, exitReason, errors>>

McpRouterPlans ==
  /\ RouterReads
  /\ \E u \in Usages, lost \in LostUsages :
       /\ tokens' = tokens + u
       /\ sessionTokens' = sessionTokens + lost + u
  /\ \E c \in Calls : ~IsDuplicate(c) /\ action' = c
  /\ UNCHANGED <<status, exitReason, errors>>

\* The model signals done, repeats a successful call, or names a tool or a
\* namespace the node refuses: every one of them ends as "done".
McpRouterDone ==
  /\ RouterReads
  /\ \E u \in Usages, lost \in LostUsages : DropUsage(lost + u)
  /\ action' = Done
  /\ UNCHANGED <<status, exitReason, errors>>

McpRouterFails ==
  /\ RouterReads
  /\ \E u \in Usages, lost \in LostUsages : DropUsage(lost + u)
  /\ action' = Done
  /\ status' = "failed"
  /\ exitReason' = "router_failed"
  /\ errors' = errors \cup {"router_failed"}

McpRouter == \/ McpRouterSafeStop \/ McpRouterSource \/ McpRouterPlans
             \/ McpRouterDone \/ McpRouterFails

-----------------------------------------------------------------------------
(* tool_executor, and call_tool under it.                                  *)

\* The record tool_executor commits.  call_tool looks the cluster up again:
\* without an entry a GKE call goes to the default project and region.
Executed(call, ok) ==
  [asked |-> action, call |-> call, ok |-> ok,
   registered |-> action \in Calls => registry # "missing"]

\* A name-scoped events lookup that answers NotFound is repeated once without
\* the name, and recorded with the arguments that ran.
CallTool ==
  {Executed(call, ok) :
     call \in {action} \cup {Broad[c] : c \in {x \in Scoped : x = action /\ ClusterType = "gke"}},
     ok \in BOOLEAN}

ToolExecutor ==
  \/ /\ action = Done
     /\ Goto("tool_executor", AfterTool(action, latest))
     /\ UNCHANGED <<controlVars, verdictVars, tokenVars, envVars, action,
                    evidenceVars, errors, report>>
  \/ /\ action # Done
     /\ \E r \in CallTool :
          /\ history' = Append(history, r)
          /\ latest' = IF r.ok THEN "ok" ELSE "failed"
          /\ errors' = IF r.ok THEN errors ELSE errors \cup {"tool_failed"}
     /\ Goto("tool_executor", AfterTool(action, latest'))
     /\ UNCHANGED <<controlVars, verdictVars, tokenVars, envVars, action,
                    evidence, report>>

-----------------------------------------------------------------------------
(* evidence_extractor: one slot per executed call, usable or not.          *)

\* write_evidence gives up after two attempts and the run goes on.
StorageErrors == {{}, {"storage_failed"}}

\* Defect: the planned arguments are attributed to a broadened call.
LastCall_Asked == history[Len(history)].asked

LastCall == history[Len(history)].call

EvidenceExtractor ==
  /\ Goto("evidence_extractor", "task_evaluator")
  /\ latest' = None
  /\ \/ /\ latest = "failed"
        /\ evidence' = Append(evidence,
                              [call |-> LastCall, ok |-> FALSE, facts |-> FALSE])
        /\ \E s \in StorageErrors : errors' = errors \cup s
        /\ UNCHANGED tokenVars
     \/ /\ latest = "ok"
        /\ \E ok, facts \in BOOLEAN, s \in StorageErrors :
             /\ facts => ok
             /\ evidence' = Append(evidence,
                                   [call |-> LastCall, ok |-> ok, facts |-> facts])
             /\ errors' = errors \cup s
                          \cup IF ok THEN {} ELSE {"extraction_failed"}
        /\ \E u \in Usages : Accumulate(u)
  /\ UNCHANGED <<controlVars, verdictVars, envVars, action, history, report>>

-----------------------------------------------------------------------------
(* task_evaluator.  Completeness is recomputed on every pass; the model is *)
(* asked only with usable evidence and after min_steps rounds.             *)

Completeness == missing' = MissingDomains

\* Defect: slots are counted instead of usable evidence.
AsksModel_Slots == evidence # << >> /\ currentStep >= MinSteps

AsksModel == UsableIds # {} /\ currentStep >= MinSteps

TaskEvaluator ==
  /\ Goto("task_evaluator", "loop_controller")
  /\ Completeness
  /\ \/ ~AsksModel /\ enough' = FALSE /\ UNCHANGED tokenVars
     \/ AsksModel /\ enough' \in BOOLEAN /\ \E u \in Usages : Accumulate(u)
  /\ UNCHANGED <<controlVars, envVars, action, evidenceVars, errors, report>>

-----------------------------------------------------------------------------
(* loop_controller: hard limits first, then the evaluator's verdict, then  *)
(* the step budget, the router's own signal and the pattern detectors.     *)

HardLimit ==
  IF elapsed > SafetyBudget THEN "safety_budget_exceeded"
  ELSE IF elapsed > MaxDuration THEN "timeout"
  ELSE IF TokenBudgetExceeded THEN "token_budget_exceeded"
  ELSE None

DetectedPattern(step) ==
  IF ConsecutiveToolFailures /\ step >= MinSteps THEN "consecutive_tool_failures"
  ELSE IF IsOscillating THEN "oscillation_detected"
  ELSE IF IsStuck THEN "stuck_detected"
  ELSE IF ZeroNewFacts THEN "zero_new_facts"
  ELSE None

\* Defect: a missing domain forces another round even after the last one.
LoopExit_ForceUncapped(step) ==
  IF HardLimit # None THEN HardLimit
  ELSE IF enough /\ missing # {} THEN None
  ELSE IF enough THEN "confidence_sufficient"
  ELSE IF step >= MaxSteps THEN "max_iterations"
  ELSE IF action = Done /\ step >= MinSteps THEN "tool_signaled_done"
  ELSE None

\* Defect: the evaluator's verdict is looked at before the hard limits.
LoopExit_VerdictFirst(step) ==
  IF enough /\ missing # {} /\ step < MaxSteps THEN None
  ELSE IF enough THEN "confidence_sufficient"
  ELSE IF HardLimit # None THEN HardLimit
  ELSE IF step >= MaxSteps THEN "max_iterations"
  ELSE IF action = Done /\ step >= MinSteps THEN "tool_signaled_done"
  ELSE None

LoopExit(step) ==
  IF HardLimit # None THEN HardLimit
  ELSE IF enough /\ missing # {} /\ step < MaxSteps THEN None
  ELSE IF enough THEN "confidence_sufficient"
  ELSE IF step >= MaxSteps THEN "max_iterations"
  ELSE IF action = Done
         THEN IF step >= MinSteps THEN "tool_signaled_done" ELSE None
  ELSE DetectedPattern(step)

\* Defect: the node's own verdict overwrites an upstream failure.
StatusAfter_Overwrites(exit) == IF exit # None THEN "done" ELSE "running"

\* An upstream failure outlives the node's own verdict ...
StatusAfter(exit) == IF status = "failed" THEN "failed"
                     ELSE IF exit # None THEN "done"
                     ELSE "running"

\* Defect: the reason an upstream node gave is replaced.
ReasonKept_Replaced(exit) == exit

\* ... and so does the reason it gave.
ReasonKept(exit) == IF status = "failed" /\ exitReason # None
                      THEN exitReason ELSE exit

LoopController ==
  LET step == currentStep + 1
      exit == LoopExit(step)
  IN /\ currentStep' = step
     /\ status' = StatusAfter(exit)
     /\ exitReason' = ReasonKept(exit)
     /\ errors' = errors
          \cup (IF exitReason' \in AbnormalExits THEN {"loop_exited_early"} ELSE {})
          \cup (IF step >= MaxSteps /\ ~enough THEN {"inconclusive"} ELSE {})
     /\ Goto("loop_controller", AfterLoop(status'))
     /\ UNCHANGED <<verdictVars, tokenVars, envVars, action, evidenceVars,
                    report>>

-----------------------------------------------------------------------------
(* rca_builder.                                                            *)

\* confidence_band_from_scores.
Band(outcome) == IF outcome = "confirmed" THEN "auto"
                 ELSE IF outcome = "probable" THEN "review"
                 ELSE "escalate"

\* Defect: investigation.status is reported as it stands.
DeriveStatus_Raw(failedWrites) == status

\* Defect: a status rca_builder overwrites anyway is not looked at.
DeriveStatus_AfterDone(failedWrites) ==
  IF exitReason \in AbnormalExits \/ failedWrites THEN "error" ELSE "success"

\* _derive_status, read before this node overwrites investigation.status.
DeriveStatus(failedWrites) ==
  IF \/ status = "failed"
     \/ exitReason \in AbnormalExits
     \/ failedWrites
  THEN "error" ELSE "success"

\* Defect: the no-evidence gate counts slots.
PrimaryClaims_Slots == IF evidence = << >> THEN {FALSE} ELSE BOOLEAN

\* select_primary_causal_claim accepts a claim that cites usable evidence
\* only; the no-evidence gate empties the claims altogether.
PrimaryClaims == IF UsableIds = {} THEN {FALSE} ELSE BOOLEAN

\* Defect: an outcome is derived from the model's word alone.
OutcomesFor_Unverified(primary) == Outcomes

\* derive_outcome: nothing verified means insufficient evidence.
OutcomesFor(primary) == IF primary THEN Outcomes ELSE {"insufficient_evidence"}

\* The verifier may fail before it reports any usage; an answer without text
\* has then been counted by the adapter alone.
VerifierUsages(primary) == IF primary THEN {0} \cup Usages ELSE {0}
UncountedUsages(primary, v) == IF v = 0 THEN VerifierUsages(primary) ELSE {0}

RcaBuilder ==
  /\ Goto("rca_builder", "end")
  /\ \E primary \in PrimaryClaims :
       /\ \E outcome \in OutcomesFor(primary) :
            report' = [outcome |-> outcome,
                       band    |-> Band(outcome),
                       review  |-> Band(outcome) # "auto" \/ UsableIds = {},
                       status  |-> DeriveStatus("storage_failed" \in errors)]
       /\ \E u \in Usages, v \in VerifierUsages(primary) :
            \E lost \in UncountedUsages(primary, v) :
              /\ tokens' = tokens + (u + v)
              /\ sessionTokens' = sessionTokens + (u + v) + lost
  /\ status' = "done"
  /\ UNCHANGED <<currentStep, exitReason, verdictVars, envVars, action,
                 evidenceVars, errors>>

-----------------------------------------------------------------------------
(* An exception no node catches: the model client raises after its retries,*)
(* or a token cannot be fetched before the tool call's own try block.      *)

CallsOut ==
  \/ pc \in {"input_normalizer", "task_planner", "rca_builder"}
  \/ pc = "mcp_router" /\ registry = "enabled"
  \/ pc = "tool_executor" /\ action # Done
  \/ pc = "evidence_extractor" /\ latest = "ok"
  \/ pc = "task_evaluator" /\ AsksModel

NodeRaises ==
  /\ CallsOut
  /\ pc' = "crashed"
  /\ UNCHANGED <<nodeSteps, controlVars, verdictVars, tokenVars, envVars,
                 action, evidenceVars, errors, report>>

Terminated == pc \in Ended /\ UNCHANGED vars

-----------------------------------------------------------------------------
RunNode ==
  \/ InputNormalizer \/ ContextResolver \/ TaskPlanner \/ McpRouter
  \/ ToolExecutor \/ EvidenceExtractor \/ TaskEvaluator \/ LoopController
  \/ RcaBuilder \/ NodeRaises

Next == RunNode \/ Tick \/ RegistryChanges \/ Terminated

\* LangGraph runs the next node as soon as one commits.  A tool call times
\* out after 30 s and a model call is tried at most three times; that a model
\* call answers or raises at all is assumed (its client sets no timeout).
Fairness == WF_vars(RunNode)

Spec == Init /\ [][Next]_vars /\ Fairness

-----------------------------------------------------------------------------
(* Safety.                                                                 *)

\* Every variable has the values the nodes give it.
TypeOK ==
  /\ pc \in Nodes \cup Ended
  /\ nodeSteps \in Nat
  /\ status \in {"running", "failed", "done"}
  /\ currentStep \in Nat
  /\ enough \in BOOLEAN
  /\ exitReason \in ExitReasons \cup {None}
  /\ missing \subseteq Required
  /\ tokens \in Nat /\ sessionTokens \in Nat
  /\ elapsed \in Nat
  /\ registry \in RegistryStates
  /\ action \in AllCalls \cup {Done, None}
  /\ latest \in {None, "ok", "failed"}
  /\ history \in Seq(CallRecord)
  /\ evidence \in Seq(EvidenceEntry)
  /\ errors \subseteq ErrorKinds
  /\ report \in Report \cup {None}

\* The step cap always ends the loop before LangGraph's recursion limit does
\* (graph.py sizes GRAPH_RECURSION_LIMIT for max_steps rounds): no branch of
\* loop_controller, the forced extra rounds included, can run the engine into
\* GraphRecursionError, which would lose the report.
NoRecursionError == pc # "recursion_error"

\* Evidence slots and executed calls stay one to one and in order, so the
\* arguments evidence_extractor takes from tool_history[-1] are those of the
\* call that produced the slot; a result is consumed exactly once, and a
\* failed call never becomes usable evidence.
EvidenceFollowsHistory ==
  /\ \A i \in DOMAIN evidence :
       /\ i \in DOMAIN history
       /\ evidence[i].call = history[i].call
       /\ evidence[i].ok => history[i].ok
  /\ pc \in Nodes \ {"evidence_extractor"} =>
       latest = None /\ Len(evidence) = Len(history)
  /\ pc = "evidence_extractor" =>
       /\ Len(history) = Len(evidence) + 1
       /\ latest = IF history[Len(history)].ok THEN "ok" ELSE "failed"

\* A call that already succeeded runs again only as the unscoped retry of a
\* different, name-scoped call: the router's deduplication admits no other
\* way, across any number of rounds and failures in between.  The stuck and
\* oscillation detectors, which compare executed calls, see only those repeats.
RepeatOnlyByBroadening ==
  \A i, j \in DOMAIN history :
    /\ i < j
    /\ history[i].ok /\ history[j].ok
    /\ history[i].call = history[j].call
    => history[j].asked # history[j].call

\* "confidence_sufficient" is never reported on the model's word alone: the
\* run has usable evidence and more than min_steps rounds, it has not spent
\* its token budget, and unless the last step is used up the evidence it
\* really holds (not a stale completeness) covers every required domain.
SufficientIsEarned ==
  pc = "rca_builder" /\ exitReason = "confidence_sufficient" =>
    /\ UsableIds # {}
    /\ currentStep > MinSteps
    /\ ~TokenBudgetExceeded
    /\ MissingDomains # {} => currentStep = MaxSteps

\* A router that could not plan is reported as such, whatever limit or
\* pattern loop_controller also sees in that round, and nothing else is.
RouterFailureReported ==
  pc \in {"rca_builder", "end"} =>
    ("router_failed" \in errors <=> exitReason = "router_failed")

\* A run counts as a success only if no upstream failure, abnormal exit or
\* lost evidence write happened in any of its rounds, although rca_builder
\* itself overwrites investigation.status.
CleanSuccess ==
  report # None /\ report.status = "success" =>
    errors \cap {"no_query", "cluster_unresolved", "router_failed",
                 "storage_failed", "loop_exited_early"} = {}

\* No conclusion is offered for less than human review unless some executed
\* call really returned data that was extracted.
NoEvidenceNoConclusion ==
  report # None /\ (report.band # "escalate" \/ ~report.review) =>
    \E i \in DOMAIN evidence : evidence[i].ok /\ history[i].ok

\* The token cap is checked once per round, so a run may exceed it, but by no
\* more than the model calls of one round and of the report.
TokenOvershootBounded ==
  /\ tokens <= sessionTokens
  /\ MaxTokens > 0 => tokens <= MaxTokens + 6 * MaxUsage

-----------------------------------------------------------------------------
(* Action and liveness properties.                                         *)

\* Once a node has declared the run failed, no node turns that into a running
\* or a normal completion before the report is built, and no tool runs.
FailureIsFinal ==
  [][status = "failed" =>
       /\ UNCHANGED history
       /\ status' # "failed" => pc = "rca_builder"]_vars

\* Every investigation ends in a report or in an exception its caller sees.
Termination == <>(pc \in {"end", "crashed"})

-----------------------------------------------------------------------------
(* Statements of the code's own texts that the loop does not keep.         *)

\* mcp_router.py: "Never guess an MCP destination."
NeverGuessDestination == \A i \in DOMAIN history : history[i].registered
=============================================================================
