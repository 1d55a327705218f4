# Verification of the SRE agent gateway

TLA+ specifications of the agent in `agent/`, the review script in `scripts/`
and the custom MCP server in `mcp/`; TLC instances that check them, and
TLAPS proofs of the properties that matter most. Paths below are relative to
the repository.

## 1. The system

A request ("pod X on cluster Y is crash-looping") enters `SREAgent.query` or
`stream_query` (`agent/main.py`). It is screened by Model Armor, given context
from Memory Bank, and investigated: a LangGraph state machine
(`agent/graph.py`, nine nodes in `agent/nodes/`) alternates between a language
model that chooses the next diagnostic call and an MCP server that executes it,
until a budget, a verdict or a pattern ends the loop, and then builds a root
cause report. The result may be remembered for later requests; a human approves
what is remembered with `scripts/review_memory.py`.

| Component | State it keeps | Operations | Talks to | What makes it correct |
|---|---|---|---|---|
| Investigation loop: `graph.py`, `nodes/*`, `state.py`, `llm/accounting.py` | the graph state: status, step counter, exit reason, history, evidence, verdict, token totals | nine nodes, two conditional edges, LangGraph's superstep limit | the model, `call_tool`, the registry, GCS | ends within its budgets with a report; evidence belongs to the call that produced it; failures are neither lost nor overwritten; conclusions rest on data |
| Request lifecycle: `main.py` | the in-process list `_memory` (class attribute, all requests of a container), per-request payload and result | query, stream_query, recall, memory gate, dedup and create, append and trim, Model Armor in and out, crash log entry | Model Armor, Memory Bank, the loop | only sound conclusions become context of later runs; one terminal log entry per run; always answered |
| Memory review: `scripts/review_memory.py` | none; works on Memory Bank | approve, reject, revoke: get, delete, create | Memory Bank | a verdict is not undone by a concurrent one |
| MCP client: `mcp_client.py` | registry cache with a TTL, `MCP_REGISTRY` | `resolve_cluster_routing` (tiers), `call_tool`, registry reload, parsing of replies | GKE Remote MCP, the custom server, GCS | a request is routed by the stated tiers; a call goes to a destination the file listed; a result follows what the reply holds |
| Confidence framework: `confidence/*`, driven by `rca_builder` | none of its own | completeness, claims, verification against the stored sources, outcome gates, band | the model (verifier), GCS | an "auto" band only for confirmed, corroborated claims; no gate is weaker for worse evidence |
| LLM adapter: `llm/*` | per-session counters in a context variable | call with retries, JSON parsing with a truncation retry | Gemini | a call is counted once, for its own request; only transient errors and cut-off answers are retried |
| Evidence storage: `gcs_client.py` | objects in a bucket | write with one retry | GCS | a lost write is reported |
| Additional sources: `source_catalog.py`, `sources/*` | catalog (empty as shipped) | query check, adapter call | Prometheus | only read queries |
| Custom MCP server: `mcp/*` | registry cache, its TTL and load flag; a client per cluster; the Kubernetes library's default configuration; the rate limiter's deque | guarded tools, registry reload, building and evicting clients, `/readyz`, trimming | GCS, Kubernetes API, Connect Gateway | a call reaches the cluster it names or none; an unreadable registry refuses; an expired client goes away |
| Telemetry `otel.py`, prompts, evaluation, CLIs, campaign scripts, IaC, docs | - | - | - | no decision of the agent reads them |

Where it is hard:

* *Interleaving.* Requests of one container share `_memory` and the registry
  cache; the MCP server's threads share its caches and the Kubernetes library's
  default configuration, which one statement writes and the next one reads; all containers and reviewers share Memory Bank, whose operations are
  single calls while the clients' operations are several.
* *Staleness.* The loop controller decides on a completeness and a verdict from
  the node before; the registry is read again by `call_tool` after the router
  checked it; a reviewer acts on a record fetched earlier; an MCP call judges an
  empty registry by a flag that another thread may have rewritten.
* *Partial failure.* Model, tools, extraction, evidence writes, Memory Bank and
  Model Armor each fail on their own, and the run goes on or stops in a
  different way for each.
* *Order.* Eight gates decide an outcome and four tiers a cluster, each meant to
  be met in one order only; a reply of an MCP server is a sequence of frames of
  which one counts.
* *Budgets that meet.* Steps, time, tokens and LangGraph's own recursion limit
  bound the same loop from different places, checked at different moments.

## 2. Plan

Order: the loop first (it is the program), then what surrounds a run, then the
components below it.

| Module | Subject | State |
|---|---|---|
| `Investigation` | the loop, node by node | done |
| `RoundBudget`, `InvestigationRefinement` | what the loop promises abstractly, and the mapping | done |
| `RunResult` | the results of a run, on which the loop and the requests around it meet | done |
| `InvestigationProofs`, `InvestigationOutcomeProofs` | theorems about the loop | done |
| `MemoryStore` | Memory Bank and the reviewers | done |
| `QueryLifecycle` (composes `MemoryStore`) | requests around their investigations | done |
| `QueryLifecycleProofs` | type correctness and the memory invariants for any number of requests and reviewers | done |
| `McpServer`, `McpServerProofs` | the MCP server: guard order, registry, client cache, eviction, readiness probe | done |
| `RootCause`, `RootCauseProofs` | `rca_builder` and the confidence framework from the inside | done |
| `ReportContract`, `RootCauseRefinement` | what the loop assumes of that node, and the mapping | done |
| `ClusterRouting`, `ClusterRoutingProofs` | the registry cache under threads, the routing tiers, the destination and the reply of a call | done |
| `LlmAdapter`, `LlmAdapterProofs` | retries, the truncation retry, the session context under generator resumption | done |
| `RateLimiter`, `RateLimiterProofs` | the window of the MCP server's limiter, whose clock is read before its lock | done |
| `TrustedMemory`, `QueryLifecycleRefinement` | what may be shown to a request, without the steps, and the mapping | done |

## 3. The modules and the code

### Investigation

One node is one action, because LangGraph commits a node's returned update
before it starts the next node; `Goto` is that commit, with the superstep count
and `GraphRecursionError`. What may change *during* a run is modelled as actions
of its own: `Tick` (the monotonic clock) and `RegistryChanges` (another request
reloads the registry, an operator edits it, a reload fails).

| Code | Definition |
|---|---|
| `input_normalizer`, `context_resolver` | `InputNormalizer`, `ContextResolver` (routing either resolves an enabled entry or fails the run) |
| `task_planner` | `TaskPlanner` (its plan only steers later model answers, which are arbitrary anyway) |
| `mcp_router` | `McpRouterSafeStop`, `McpRouterSource`, `McpRouterPlans`, `McpRouterDone`, `McpRouterFails` |
| `tool_executor`, `call_tool` | `ToolExecutor`, `CallTool` (with the unscoped retry of a name-scoped events lookup) |
| `evidence_extractor` | `EvidenceExtractor` (a slot per call, usable or not; a write may be lost) |
| `task_evaluator` | `TaskEvaluator`, `Completeness`, `AsksModel` |
| `loop_controller` | `LoopController`, `LoopExit`, `StatusAfter`, `ReasonKept` and the detectors, in the code's order |
| `rca_builder` | `RcaBuilder`, `DeriveStatus`, `PrimaryClaims`, `Band` |
| an exception out of a node | `NodeRaises`, only where the node has a call outside its own `try` |

The model's and the tools' answers are choices among the answers the node tells
apart. A call is a model value; `Scoped` and `Broad` say which calls are
repeated without their name. A token usage is a number from `Usages`.

### RoundBudget and InvestigationRefinement

`RoundBudget` is the promise: a bounded number of rounds, at most one call in
each, one verdict that is never replaced and admits no further call, then a
report or an abort. `InvestigationRefinement` maps the loop to it (rounds are
`currentStep`, calls are `Len(history)`, the verdict is `exitReason`).

It also looks at the loop from its two neighbours. `Returned` is what
`investigate()` makes of an ended run, and `ReturnsRunResult` says that it is one
of the `Results` of `RunResult`, with which `QueryLifecycle` starts. `RcaAnswers`
is what the loop lets its last node answer, `ContractAnswers` what `ReportContract`,
which `RootCause` implements, allows.

### MemoryStore and QueryLifecycle

`MemoryStore` has Memory Bank as a set of records and the review command as
three steps (`ReviewGet`, `ReviewDelete`, `ReviewCreate`) with `ReviewFails` in
between; a delete of a name that is gone raises. `QueryLifecycle` EXTENDS it
with the requests. A step is one call of an external service or one access to
`_memory`:

| Code | Definition |
|---|---|
| `_prepare_query`, `_sanitize` | `InputBlocked`, `InputPasses` |
| `_mb_recall` | `RecallAnswered`, `RecallUnavailable` (the truthy sentinel), `Recallable`, `FirstOf` |
| `_recall_memory` after `or` | `RecallLocal`, `LocalRuns` |
| `investigate`, `investigate_stream` | `NoQuery`, `GraphCompletes`, `GraphRaises`, `BuildSucceeds`, `BuildRaises`, `ConsumerLeaves` |
| the memory gate of `_finalize_query` | `Remember`, `Rememberable` |
| `_mb_store` | `DedupSkips`, `DedupFindsNone`, `Create`; `IsStored` is the substring test, with the constant `Contains` for which incident's key occurs in which record |
| `_save_memory` | `Save` (append), `Trim` (the slice), `Assign` (the assignment of the slice) |
| output sanitising | `Respond` |
| a replaced container | `Restart` |

The investigation is one step here; the results it can have are those of
`RunResult`: what `Investigation` returns, plus whether the primary claim cites
evidence whose inspection failed open. The incident type a run finds out is
chosen at the start.

### TrustedMemory and QueryLifecycleRefinement

`TrustedMemory` is what the memory is for, with neither list nor bank. A run's
conclusion has a standing: open, then unfit, or fit, in which case it may become
a record that reviewers withdraw and put back under a verdict. A request is shown
fit conclusions of its own scope once, while its own is open, and from Memory
Bank only approved ones. The mapping reads the standing off the record, the
reviewers' hands, the phase and the result (`Settled`, `Recorded`, `Withdrawn`,
`Conclusion`), and what was shown off `context`. Two invariants follow in the
abstract: nothing unfit or of another scope was shown (`OnlyFitShown`), and no two
runs rest on each other (`NotCircular`).

### McpServer

FastMCP runs synchronous tool functions on the threads of a pool, so a call is a
thread of control (`pc`) and one action is one access to what the process shares,
or one call outside. `/readyz` is a probe beside the calls. A client is where its
configuration points and which call built it.

| Code | Definition |
|---|---|
| `_get_cluster_registry` | `CheckRegistry`, `AssignRegistry`, `ReturnRegistry` (the global is read once more for the `return`); `Consult` is the call |
| `_load_cluster_registry` | `LoadRegistry`, `ParseFails` (readable, but not as it should be: the flag is cleared, then the exception), with `FlagAfter` for `_CLUSTER_REGISTRY_LOAD_FAILED` |
| `resolve_cluster` | `Resolves`, `Placeholder`, `Kind`; an entry is a `context`, `fleet`, `incomplete` or `refused` (disabled, of type gke) one |
| `guarded` | `Admit`, `Guard`, `Scope` (the second resolution, for the cluster's own namespaces), `CallCluster`, `Evict`, `Answer` |
| `get_k8s_clients` | `LookUp`, `Store` |
| `_build_k8s_clients` | `Build` (the three-way choice), `Rebuild` (the third resolution), `FleetClient`, `LoadKubeConfig`, `Connect` |
| `readyz` | `ProbeStarts`, `Probe` |
| the file, the TTL, a token's lifetime | `EditBucket`, `RegistryTtlPasses`, `TokenExpires` |

`load_kube_config` and `ApiClient()` are two steps because the first sets the
library's process-wide default `Configuration` and the second copies it; a fleet
entry makes a `Configuration` of its own and is one step. The cache and its load
time are assigned in one step: a reload between the two is the reload that
follows a TTL that passes at once.

### RateLimiter

`Admit` of `McpServer` says only that a call may be refused; when, is the subject
of `RateLimiter`. `allow` reads the clock (`ReadClock`) and then takes the lock,
under which the rest is one step: `Pops` for the `while` loop, and `Admit`,
`Refuse` or `Raise` for the three ways out. `limit` is `max_calls`, chosen once
from `Limits`, and `calls` the deque. Time is in ticks of 0.1 s, the least wait a
refusal announces, so the rounding of `retry_after` to two digits is less than a
tick. A thread may spend up to `Delay` ticks between its clock and the lock; the
code has no such bound, and the properties say what each tick of it costs.
`admitted` is the history of the stamps let in.

### RootCause, ReportContract and RootCauseRefinement

In `Investigation` the last node is one action with an arbitrary outcome; here it
is opened up. A step is one call out of the process - the RCA call, the reads of
one evidence set, one sizing of a request, the verifier call - and the code up to
the next. Of a claim's text the model keeps what the comparison of its words with
the evidence makes of it (`TextVerdicts`), of a store entry whether its call
succeeded, its source is stored and its place agrees with the resolved one.

| Code | Definition |
|---|---|
| `build_claims`, `_ground_claim` | `BuildClaims` (keeps the model's numbering), `Grounding` |
| `select_primary_causal_claim` | `SelectPrimary`, `Eligible` |
| `build_hypotheses`, `detect_contradictions` | `ActiveAlternative`, `WrongResource` |
| the RCA call and what follows it | `RcaCallRaises`, `RcaCallUnparsed`, `RcaCallAnswers`, `ClaimsRaise` (a `null` id list is iterated over) |
| `verify_primary_claim` | `ReadCited`, `SizeCited`, `ReadOthers`, `SizeFull`, `SizeNotice`, `VerifierRaises`, `VerifierUnparsed`, `VerifierAnswers`; the two requests are `SendFull`, `SendNotice` |
| `_parse_result` | `Accepted` |
| `derive_outcome` | `DeriveOutcome`, `Judge`, `HardConflict`, `SourceComplete`, `ConfirmGates` |
| the end of `rca_builder` | `Conclude`, `RootCauseText`, `Band`, `FinalTotals` |

Calls are counted instead of tokens: the totals of `rca_builder` against the
adapter's session is a matter of which answers are in which sum. `ReportContract`
is what `Investigation.RcaBuilder` takes for granted: one report or an exception,
no conclusion without usable evidence, band and review by the outcome, no call
counted twice. `RootCauseRefinement` hides everything before the end.

### ClusterRouting

One action is one access to the registry cache with the code up to the next one
(`CheckRegistry`, `LoadRegistry`, `AssignRegistry`), one download, or one call of
an MCP server. A thread's investigation consults the registry at four places:
`route`, `resolve`, `plan`, `send`; between any two the cache may be replaced by
another thread, the file edited, or the download fail and leave it empty.

| Code | Definition |
|---|---|
| `_build_cluster_registry` | `BuildRegistry` (nameless entries dropped, a repeated name overwrites in place), `Downloaded` |
| `_get_cluster_registry` | `GetClusterRegistry`; the cache is read again for the `return` |
| `resolve_cluster_routing`, `_alias_index` | `Routed`, `ByHint`, `CaseInsensitive`, `AliasIndex`, `BySelectors` |
| `context_resolver`, `resolve_cluster` | `Unresolved`, `Resolved`, `ResolveCluster` |
| `mcp_router` | `Plannable`, `SafeStop`, `PlanNothing`, `PlanCall` |
| `_call_catalog_source` | `CallCatalogSource` |
| `call_tool` | `SendGke`, `SendCustom`, `TokenFails`, `RetryTokenFails`, `Returns`, `RetriesBroadened`, `CallFails` |
| `_parse_response`, `_extract_content` | `ParseResponse`, `Contents` |
| the NotFound and Model Armor checks | `Broadens`, `NotFoundFails`, `Usable`, `Blocks` |
| `guarded` of mcp/security.py, as seen by the client | the frame `guarded_error`, which `RepliesTo` lets only the custom server send |

The registry is a function from positions because the order of entries decides
between clusters. A word stands for an id, an alias or a hint, and `Fold` says
which are equal in lower case. A file is in `Files` with what is left after the
defaults. A reply is a sequence of frames by what `_parse_response` makes of each.
What a NotFound comes to depends on the tool, so Google's tools are told apart by
it: `events_by_name` is sent again without the name (`broadened`), `by_name`
(describe and get) fails, `logs` and `other` pass.

### LlmAdapter

A request runs between `Begin` (`reset_session`) and `Finish`
(`get_session_usage`) and calls `llm_json` any number of times up to `MaxCalls`.

| Code | Definition |
|---|---|
| `reset_session`, `_session` | `ResetSession`, `CountResponse`: a session is a dict a context variable points to (`outer` for the request, `inner` for its node's copy of the context) |
| a generator that is resumed | `ResumeStream`: the variable points where the server's own context points (`setUp`), possibly to nothing |
| `_call_model` | `Ask`, `Answer`, `AttemptFails`, `TriesAgain`, `Slept` |
| `llm_json` | `CallJson`, `CutShort`, `RetryTruncated`, `Parsed`, `Return` |
| the node that called it | with `Return`: `Accumulates` (`accumulate_usage`), `PlansNothing` (the returns of `mcp_router` without it), `NodeRaises` |

`asks` is the log of one `llm_json`'s attempts; `LogSize` leaves room for one
attempt more than the code allows, so that a defect would show. `unplanned` is the
history of what `PlansNothing` drops. Which node calls is not modelled: any call may
end in any of the three ways, as it may have been the router's.

## 4. What TLC checks

All type invariants are proved for every instance (section 5); only that of
`Investigation` is in a run as well.

All runs that must pass check deadlock except those of `QueryLifecycle`, where
every request may be finished, and `adapter`, where calls may be used up. In
`mcp` and `routing` the environment can always move, in `limiter` a thread can; `verdict` ends in a step
that repeats for ever.

| Run | Question | Bounds, and why they suffice |
|---|---|---|
| `loop` | do the safety invariants and `FailureIsFinal` hold? does a successful call come back only by the unscoped retry? | 3 rounds, `min_steps` 1, a scoped call, its unscoped form and a log read, a token cap that one more call crosses, a clock that reaches both limits, an entry that vanishes. Three rounds give every detector but oscillation its two predecessors, a forced extra round, and a round after the cap; the proofs have any number. |
| `loop_onprem` | does every run end, before LangGraph's recursion limit, with a result the request knows, and does the loop implement `RoundBudget` with its fairness? | 2 rounds, an on-prem cluster and an additional source, the time limit in reach, no token cap (so that a loop that forced rounds without end would not be saved by it). |
| `reviews` | is what is remembered, reviewed and recalled sound, and is all of it together a `TrustedMemory`? | two requests, two reviewers, two commands, two scopes (one without a cluster, so that what leaks from either into the other shows), `_MAX_MEMORY` 1; requests are interchangeable and so are reviewers (symmetry). Two clients are what a race of get, delete and create needs; one record per request is the most there can be. |
| `threads` | does the shared list keep its bound, and is every request answered? | three requests, list of 1: two threads in the middle of a trim and a third that appends. |
| `mcp` | is what is not served never reached, is a total outage a refusal, does an expired client go away? | two calls and a probe, a cluster with a context, one with fleet fields, one unregistered; a file edited between serving both and refusing or breaking both; downloads that may fail or not parse. Two calls are a race on every shared variable, and the probe a third thread that reloads the registry and writes the default configuration; calls are interchangeable (symmetry). A call makes up to four registry reads, so stale ones occur. |
| `verdict` | is what is concluded earned, what is denied caused, and the contract of the node kept? | two evidence items, each of five kinds (fine, failed, not stored, of another cluster, of another pod), absent ones too; answers of up to two claims with every index around them, malformed and `null` ones, a rival hypothesis; every combination of the five verdicts, contradictions by either item, an invalid answer, one that cites too much. Two items make one cited and one other; a third plays no further part. One answered call per `llm_json` (`MaxAnswered` 1); the proofs have any number. |
| `routing` | are the tiers, the destination and the reply what they should be, and do edits arrive? | two threads, two clusters of which each file swaps type, order, aliases and enablement, a nameless and a repeated entry, an unreadable file; requests for every tier (exact id, other case, alias shared by both, unverified guess, namespace of one and of none); replies of up to three frames: data after what does not count, a protocol error, a tool error before data, a guarded error, a NotFound (Model Armor's notice, which fares like the tool error, is left to the proofs). Two threads suffice for a reload during every step of the other's run. |
| `adapter` | are sessions separate, is every difference of the totals explained, are retries earned, and does a call return? | a query and a stream, two `llm_json` calls, budget 2 under a cap of 3, so that doubling is cut at the cap (a first budget at the cap is left to the proofs). A call makes up to six attempts. |
| `limiter` | is the limit kept, is a refusal justified, is the announced wait enough? | three threads, limits 0 to 2, a window of three ticks, a delay of one, eight ticks. Three threads are one with a late clock, one that empties the deque under it and one that is refused; in eight ticks the window passes twice. Threads are interchangeable (symmetry). |

The remaining runs each show one statement of the repository's own texts that
the code does not keep; PROJECT.json quotes the text and describes the run:

| Run | Statement | What happens |
|---|---|---|
| `destination` | mcp_router.py:129 | an entry that vanishes after the router's look sends the call to the default project |
| `written_twice` | main.py:1382-1383 | two requests pass the dedup check before either creates |
| `wrong_cluster` | test_multi_cluster_isolation.py:177-179, server.py:277-278 | two threads build clients of two contexts and one gets the other's |

Seen while modelling and not made a run; the models have this behaviour, and no
property says otherwise.

Of the loop and its report:

* A run that ends in `mcp_router`'s safe-stop is reported as "success", though
  `_derive_status` (rca_builder.py:122-124) counts it as an "error".
* The in-process list is read only when Memory Bank works and is empty, because
  `_mb_recall` answers a sentinel otherwise; main.py:1535 says it is "used when
  Memory Bank is not set up".
* Below `min_steps` a safe-stop does not stop the run at all (mcp_router.py:144
  says "investigation stopped").
* Records that a reviewer rejected are announced as "pending human review"
  (main.py:1484), and a request without a cluster, which never asks Memory Bank,
  is told that there are no prior incidents (main.py:268-270 says the line is
  only printed when the bank answered).
* The dedup key, which main.py:1382 calls "not LLM text", ends in the incident
  type the model returned and is looked up as a substring.
* `iteration_budget` (scorer.py:144) is scored before the step counter's
  increment and never drops to 0 inside the loop.

Of the verdict:

* A contradiction may name an item of Set B whose source could not be read and
  which the request therefore lists as not included; it is accepted.
* The cause shown, and what is tied to it, is the primary claim's text even when
  the verification failed; only outcome and band tell.
* `"supporting_evidence_ids": null` in a claim or a hypothesis ends the node with
  an exception.
* A verifier call that raises after it was answered is in the session's total and
  not in the report's, so the cross-check of rca_builder.py:205 can differ there.

Of routing and calls:

* An alias two clusters claim goes to the later one without a word, in a function
  whose docstring says "NEVER guesses" (mcp_client.py:1129).
* A disabled cluster named by an unverified guess is not refused, as one named by
  a hint is; the search goes on to tier 4.
* `_extract_content` takes the remaining keys of a result for content, so that
  `{"isError": false}` with empty content counts as data. The model's frames
  "empty" are those without any other key.
* `get_k8s_logs` needs a pod's name (mcp_client.py:361) but is not among the tools
  whose NotFound is turned down (mcp_client.py:770); the comment above that check
  names describe and get as the two whose name is required. The NotFound of a pod
  name that was guessed is a successful call, and evidence.
* The custom server answers refusals and exceptions with an ordinary result that
  has an "error" key (security.py:435, 470). Neither `call_tool` nor the evidence
  extractor looks for it, so such a call is successful too.

Of the adapter and the totals:

* rca_builder.py:205 says the session's total "should equal" the investigation's.
  In an ordinary run it is larger: `mcp_router` returns without `accumulate_usage`
  when the model says done, its answer failed, names a tool or namespace that is
  not allowed or repeats a call (mcp_router.py:279-305, 358-372), and when an answer
  is no query for an additional source (187-196). `TotalsExplained` says that the
  difference is exactly that, unless something raised.
* A list or `null` in place of an object raises in the node: `task_planner` sees it
  with `llm_json_failed` and asks it for a key in the next statement
  (task_planner.py:91-94), `evidence_extractor` does the same with a list that is not
  empty (evidence_extractor.py:251-252), and `input_normalizer` and `task_evaluator`
  ask without looking. The usage goes with the exception.
* The JSON value `null` is retried if it was cut off and otherwise passes as a
  result that `llm_json_failed` does not detect.
* A stream whose generator is resumed in another context counts in another dict,
  or in one per node; its log entry then has another total.
* A truncation retry that raises loses the usage of the first answer.

Of the MCP server: a call whose registry load failed may read the flag after
another thread's load has cleared it, and take the branch for local development
that server.py:332-333 says an outage never falls through to. A thread whose
clock is read before the lock may be admitted into a window that is already full
by the clock's account, and with `K8S_MCP_RATE_LIMIT_MAX_CALLS` at 0 every call
is answered with an `IndexError` instead of the limit's message.

### Fairness

`Investigation` has weak fairness of `RunNode`: LangGraph starts the next node
as soon as one has committed, a tool call has a 30 s timeout and a model call is
tried at most three times. That a single model call answers or raises is an
assumption: `gemini_adapter.py:265` sets no timeout. Nothing is assumed of the
clock or the registry. `QueryLifecycle` has weak fairness of `Serve(r)` for each
accepted request: the runtime drives it and every external call returns or
raises. Requests need not arrive, and reviewers need not act or finish.
`McpServer` and `RateLimiter` have no liveness property and assume no fairness;
neither has `RootCause`, whose steps need none to be bounded. `ClusterRouting` has weak
fairness of each thread's `Advance`: an investigation once begun is carried on.
`UpdatesArrive` does not assume that time passes or requests come: it is about
behaviours in which the TTL expires and the registry is consulted again and
again. `LlmAdapter` has weak fairness of the adapter's own steps and none of the
model's answers; `CallReturns` is conditional on each attempt coming to an end,
because the client has no timeout.

## 5. What is proved

For every number of rounds, calls, usages, requests and reviewers, from the
assumptions in the modules:

| Theorem | Says |
|---|---|
| `TypeCorrect`, `RecursionLimitNeverHit`, `EvidenceOrder`, `NoSilentRepeat` (`InvestigationProofs`) | the loop's types; LangGraph's limit is never reached if it is at least `6 * MaxSteps + 3`; evidence and history stay one to one; a successful call repeats only by broadening |
| `TokenBound`, `RouterFailureKept`, `SuccessTruthful`, `FailureStaysFinal`, `SufficientEarned`, `ConclusionNeedsEvidence` (`InvestigationOutcomeProofs`) | the properties of the same runs, for every instance |
| `InvestigationKeepsRoundBudget` (`InvestigationOutcomeProofs`) | each initial state and step of the loop is one of `RoundBudget`, or a stutter |
| `LoopReturnsResult`, `ReportsAgree` (`InvestigationOutcomeProofs`) | what the loop returns is one of the results `QueryLifecycle` starts from, and what it lets its last node report is exactly what the contract of `RootCause` allows |
| `RoundsRunOut` (`InvestigationOutcomeProofs`) | every superstep brings a run closer to its end, by a rank of at most `6 * MaxSteps + 3` |
| `LifecycleTypes`, `MemorySound`, `RecordUnique`, `ContextTrusted`, `LoggedOnce`, `ListBounded` (`QueryLifecycleProofs`) | every safety and action property of the two passing lifecycle runs, for any number of requests, reviewers, scopes and reviews |
| `MemoryTrusted`, `FitShown`, `NoCircularTrust` (`QueryLifecycleProofs`) | requests, reviewers and restarts implement `TrustedMemory`, the whole of it, as it has no fairness; and so what follows from it holds of the code's model |
| `RequestsRunDown`, `DoneMeansAnswered` (`QueryLifecycleProofs`) | a request takes at most eleven steps of its own to its end, and has a response exactly when it is done |
| `ServerTypes`, `OutageRefused`, `ServedOnly`, `ExpiredStaysOut` (`McpServerProofs`) | the types, and every property of the run `mcp`, for any number of calls, probes, clusters and registry contents |
| `CallsAreAnswered` (`McpServerProofs`) | a call or a probe is answered after at most 27 steps of its own, four readings of the registry among them |
| `RootCauseTypes`, `ConclusionEarned`, `DenialsCaused`, `OutcomesMonotone`, `UsageSound`, `CauseTheClaim`, `RootCauseImplementsContract` (`RootCauseProofs`) | the types, and every property of the run `verdict`, for any evidence, answers and numbers of retried calls; the last is the whole refinement, as `ReportContract` has no fairness |
| `RoutingTypes`, `RoutingByRule`, `DestinationSound`, `ResultsSound` (`ClusterRoutingProofs`) | the types, and every safety and action property of the run `routing`, for any threads, files, requests and replies. The destination is a listed one or, after an empty registry was assigned or for a cluster that some content leaves out, the default project |
| `DestinationWhileListed` (`ClusterRoutingProofs`) | as long as neither is so, a GKE call goes to a project listed for its cluster |
| `EditsStick` (`ClusterRoutingProofs`) | while the file stays as it is no thread falls behind it, and a cache that is up to date stays so |
| `AdapterTypes`, `SessionOwned`, `TotalsSound`, `RetriesEarned` (`LlmAdapterProofs`) | the types, and every safety property of the run `adapter`, for any requests, streams, budgets and answers |
| `SixAttempts`, `CallsEnd` (`LlmAdapterProofs`) | one `llm_json` costs at most six model calls, and each step of it brings it closer to its end |
| `LimiterTypes`, `WindowKept`, `RefusedForCause`, `WaitIsEnough` (`RateLimiterProofs`) | the types, and every property of the run `limiter`, for any threads, limits, window and delay |

Three theorems say how far the three findings of section 4 go. Each has the
finding's property for a conclusion and a hypothesis the code does not ensure, so
none of them is a promise of the code; what they exclude is any other cause:

| Theorem | Finding | Holds as long as |
|---|---|---|
| `GuessesOnlyInTheWindow` | `NeverGuessDestination` | the registry holds still between the router's look and the call (`Calm`) |
| `WrittenOnceSerialized` | `NeverWrittenTwice` | no request that is between its dedup check and its create meets another one there, or a review half done, of the same scenario (`Serialized`) |
| `MixedOnlyAmongContexts` | `NeverMixed` | a deployed server has loaded its registry each time, and either the cluster has fleet fields or it is the only one registered through a context |

The arguments. `NoRecursionError` is not inductive: the invariant ties the
superstep count to the round and the node (`6 * currentStep` plus the place of
the node), with `currentStep < MaxSteps` inside the loop, which every branch of
`LoopExit` must preserve, the forced round included. `EvidenceFollowsHistory`
needs that an action other than `done` is pending only between the router and
the executor, and `RepeatOnlyByBroadening` that the pending action is not a
successful call already (`RepeatInv`). The token bound is proved by a bound per
node: at most `MaxTokens` when a round begins, one usage more after each call of
the round (`TokensByNode`). `RoundBudget` needs that the calls made never exceed
the rounds begun (`OneCallPerRound`). The assumption `RecursionLimitAssumption`
is what `graph.py` sizes its limit for; TLC evaluates all assumptions.

Of the lifecycle, `OnlySoundRunsRemembered` is not inductive either: a thread or
a reviewer writes later what it took earlier. `MemoryInv` also says that the
requests on their way to a write and the records in the reviewers' hands are
sound, and that their runs are in a phase in which the result is final
(`Settled`), which no step leaves. `OneRecordPerRun` needs that names are never
reused, that a fetched record is the only one that can have its name
(`NamesFresh`), and that a run before its write has no record anywhere, in a
reviewer's hands included (`WrittenOnce`). `MemoryBounded` is carried by the
length of the slices about to be assigned (`SlicesCapped`); it is the one place
that needs `Runs` to be finite.

For `MemoryTrusted`, the mapping of a record's standing is a `CHOOSE` that only
`OneRecordPerRun` makes a function of the run, so `TrustInv` begins with the
invariants of the other theorems. It adds that every record and list entry is of
its run's own scope (`ScopesInv`) and that a request that has not recalled yet has
an empty context (`RecalledOnce`). Each action then moves the standing of one run
(`MovesOne`), shows one request something (`ShowsOne`) or stutters; the bound on
what the list shows needs that the last few of a set of positions are few
(`LastFew`). `NoCircularTrust` follows in the abstract: what was shown
to anyone is fit and stays fit, and a request is shown something only while it is
open, so nobody it is shown can have been shown it (`KnownInv`).

`LoopReturnsResult` needs that a run without a cluster never ends with another
reason and that its band is the lowest (`ReturnInv`). `WrittenOnceSerialized`
counts as written also what a reviewer holds and what a request is about to write
(`KeysInv`). `MixedOnlyAmongContexts` follows the default configuration of the
Kubernetes library from its write to its copy (`UnmixedInv`).

The ranks are those of the clocks the code has: rounds and nodes (`StepsLeft`),
attempts and budgets (`CallRank`, with `FewInv` for the attempts logged), phases
(`StepsToGo`), places of a guarded call (`StepsToAnswer`). For the registry cache
it is the set of threads that hold a download the file has overtaken (`Behind`),
which only shrinks between two edits. What is left of each liveness property is
that an enabled step is taken, which is the fairness the runs assume, and that one
is enabled, which TLC shows.

Of the MCP server, `EvictionHeals` needs to know that each call builds one
client and stores it once, under one cluster (`OneSlot`), and that a client
expires only after it was stored (`BuildersInv`): a store that comes after the
eviction of the same client is what must be impossible. `TotalOutageRefuses`
needs that with no successful download every registry held anywhere is empty and
every worker past its first load finds the flag set (`OutageInv`); that is why
the refusal holds although flag and registry are separate. `OnlyServedClusters`
needs that while no download has failed a worker past its load holds a registry with
entries, which some version of the file justifies for the cluster asked
(`ServedInv`): a reload replaces the cache in one assignment and never empties it
in between. Both are proved as implications of what loads have done so far,
because without that restriction they do not hold (section 4, of the MCP server).

Of `RootCause`, claims, reads and verdict are each written once, so `IInv` says
what they are (`ClaimInv`, `SetInv`, `VerifierInv`, `UsageInv`) and that the
finished report is computed from them (`Derived`); the properties are then facts
about `Judge`. `SetInv` carries the point of `DenialHasCause`: what may be cited
against a claim is what the request named. `OutcomeMonotone` is a case analysis
over the gates. For the refinement, every step but the last is a stutter, and the
last satisfies `Report` or `Raise` because `UsageInv` accounts for each answer.

Of `ClusterRouting`, every registry held anywhere is empty or was built from some
content of the file (`Sourced`, `ReadInv`), and a planned call was planned from an
entry of that kind (`DestinationInv`): that is why mixed and stale registries
cannot send a call to a place no file named. `RoutesByRule` needs that the first
and the last of a finite set of positions exist, and that only routing moves a
thread on while it routes (`RoutingMoves`). `ResultInv` ties a result to the reply
it was parsed from.

Of `LlmAdapter`, a session is a request's own because no other context ever points
to its dict (`SessionInv`); the totals differ only as they may because what
`llm_json` still holds, what the nodes have added and what the router dropped make
up the answers (`TotalsInv`); and the log of a
call's attempts has at most two stretches of at most three, the first ending in a
cut-off answer (`Shape`, `AttemptInv`).

Of `RateLimiter`, the deque is the tail of the history (`DequeIsTail`) and what
came before the tail has expired by the clock (`Gone`), which is at most the delay
ahead of whoever holds the lock (`Clocked`). So a call that is let in has at most
`limit - 1` calls of its window before it (`Spaced`). Stamps are out of order by
the delay at most (`NearlyOrdered`), which bounds the age of what a refusal counts;
and the head of a full deque stays the head until somebody is admitted (`Told`).

Only model-checked: liveness (`Termination`, `Answered`, `UpdatesArrive`,
`CallReturns`, the fairness of `ImplementsRoundBudget`), which needs ENABLED.

## 6. Not modelled

* The text of prompts, reports, log entries and telemetry: nothing decides on it.
* The GCS copy of a result: written, never read back by the agent.
* The argument mapping of each tool (`_build_gke_args`) and a frame that carries
  both an error and a result, which the protocol excludes.
* `call_tool`'s check of the tool's name (mcp_client.py:564-571): its list is the
  union of the lists `mcp_router` plans from, none of whose names contains a blocked
  word, so it refuses nothing the router has planned.
* The legacy confidence score and the weights of the completeness score: no gate
  reads the first, and of the second `RootCause` has either side of its threshold.
  The word comparison of `_ground_claim` is a choice among its verdicts.
* The minimal log event that `_finalize_investigation_result` builds when building
  the full one raises (main.py:745-751). It has no `loop_exit_reason`, so the memory
  gate (main.py:1646-1654) could not recognise a run without a cluster by it. No
  field of such a run is known to make the full event fail.
* Cost, tracing spans, client creation and the cached context limit of the
  adapter; the selection of an additional source and its query checks.
* The loop is not composed with `RootCause`, `ClusterRouting` and `LlmAdapter` in
  one state space: it lets the report, routing and model calls have every result
  these can give. `ReportContract` is where that is stated and checked; for
  routing and the adapter the results are those of `RoutesByRule` and
  `CallReturns`.
* Of the MCP server: trimming, redaction, the response guard, the arguments and
  bodies of the tools, and the loop's `call_tool` on the other end of the wire. A tool's answer is any answer.
* Outside the repository, and assumed: FastMCP runs synchronous tools on several
  threads (the limiter's lock and test_multi_cluster_isolation.py expect it);
  the Kubernetes library keeps one default `Configuration` per process, which
  `load_kube_config` replaces and `ApiClient()` copies; a token is still valid
  when the client made with it is stored; a registry that can be read has at
  least one entry.
* Evaluation, CLIs, campaign and packaging scripts, infrastructure: sequential
  or declarative, without state the agent shares.
