----------------------------- MODULE LlmAdapter -----------------------------
(***************************************************************************)
(* llm/gemini_adapter.py: how one llm_json call comes to its answer - three *)
(* attempts, one more with a larger budget when the answer was cut off -   *)
(* and how its usage reaches the two totals of an investigation: the one   *)
(* its nodes add up, and the session of the shared adapter.                *)
(*                                                                         *)
(* A session is a dict that a context variable points to.  reset_session   *)
(* makes the request a dict of its own; each node runs in a copy of the    *)
(* request's context, and so counts in the same dict.  A streamed request  *)
(* is resumed by its server in another context (main.py says so of the     *)
(* tracing context), where the variable points to what it pointed to when  *)
(* the process was set up, or to nothing.                                  *)
(***************************************************************************)
EXTENDS Naturals, Sequences

CONSTANTS
  None,
  Requests,
  Streams,   \* those that stream_query serves
  Budgets,   \* max_tokens, as the callers ask for it
  Cap,       \* _TRUNCATION_RETRY_MAX_TOKENS
  MaxCalls   \* bound on the calls of llm_json, over all requests

\* What an answer's text is: "cut" is not JSON and ended at MAX_TOKENS, "null"
\* is the JSON value.
Texts == {"object", "list", "null", "garbage", "cut"}
Failures == {"transient", "fatal"}
Outcomes == Texts \cup Failures \cup {"blocked"}

\* The dicts a variable may point to.
Own(r)  == <<r, "own">>
Node(r) == <<r, "node">>
SetUp   == <<None, "set_up">>
Dicts   == {Own(r) : r \in Requests} \cup {Node(r) : r \in Requests} \cup {SetUp}

ASSUME AdapterAssumption ==
  /\ None \notin Nat /\ None \notin Requests /\ None \notin Dicts
  /\ Streams \subseteq Requests
  /\ Budgets \subseteq Nat \ {0}
  /\ Cap \in Nat /\ MaxCalls \in Nat

VARIABLES
  setUp,      \* the dict, if any, of the contexts a server starts from
  sessions,   \* calls counted in each dict
  outer,      \* the dict of a request's context
  inner,      \* the dict of its node's context
  at,
  attempt,    \* of the loop in _call_model
  budget,     \* max_tokens of the call under way
  retried,    \* is it the call with the larger budget?
  usage,      \* what llm_json will return, in calls
  asks,       \* history: the attempts of this llm_json
  result,     \* what it returned
  accounted,  \* investigation["tokens_total"], in calls
  unplanned,  \* history: calls in answers of which mcp_router made no call
  answered,   \* history: responses the request got
  raised,     \* history: has llm_json, or a node on its result, raised?
  report,     \* get_session_usage(), for the run's log entry
  calls

sessionVars == <<setUp, sessions, outer, inner>>
callVars    == <<attempt, budget, retried, usage, asks, result>>
totalVars   == <<accounted, unplanned, answered, raised, report>>
vars == <<sessionVars, at, callVars, totalVars, calls>>

\* set_up creates the adapter, in the context of requests or in one of its own.
Init ==
  /\ setUp \in {None, SetUp}
  /\ sessions = [d \in Dicts |-> 0]
  /\ outer = [r \in Requests |-> None] /\ inner = [r \in Requests |-> None]
  /\ at = [r \in Requests |-> "idle"]
  /\ attempt = [r \in Requests |-> 0]
  /\ budget = [r \in Requests |-> None]
  /\ retried = [r \in Requests |-> FALSE]
  /\ usage = [r \in Requests |-> 0]
  /\ asks = [r \in Requests |-> << >>]
  /\ result = [r \in Requests |-> None]
  /\ accounted = [r \in Requests |-> 0] /\ unplanned = [r \in Requests |-> 0]
  /\ answered = [r \in Requests |-> 0]
  /\ raised = [r \in Requests |-> FALSE]
  /\ report = [r \in Requests |-> None]
  /\ calls = 0

Goes(r, from, to) == at[r] = from /\ at' = [at EXCEPT ![r] = to]

-----------------------------------------------------------------------------
(* A request.                                                              *)

\* Defect: the counters are zeroed where they are.
ResetSession_InPlace(r) ==
  /\ outer' = [outer EXCEPT ![r] = setUp]
  /\ sessions' = [sessions EXCEPT ![SetUp] = 0]

\* A new dict, for this context only.
ResetSession(r) ==
  /\ outer' = [outer EXCEPT ![r] = Own(r)]
  /\ sessions' = [sessions EXCEPT ![Own(r)] = 0]

Begin(r) ==
  /\ Goes(r, "idle", "between") /\ ResetSession(r)
  /\ UNCHANGED <<setUp, inner, callVars, totalVars, calls>>

\* A snapshot has been yielded, and the server asks for the next one.
ResumeStream(r) ==
  /\ r \in Streams /\ at[r] = "between" /\ outer[r] # setUp
  /\ outer' = [outer EXCEPT ![r] = setUp]
  /\ UNCHANGED <<setUp, sessions, inner, at, callVars, totalVars, calls>>

\* A node calls llm_json.
CallJson(r, max_tokens) ==
  /\ calls < MaxCalls /\ calls' = calls + 1
  /\ Goes(r, "between", "ask")
  /\ inner' = [inner EXCEPT ![r] = outer[r]]
  /\ attempt' = [attempt EXCEPT ![r] = 0]
  /\ budget' = [budget EXCEPT ![r] = max_tokens]
  /\ retried' = [retried EXCEPT ![r] = FALSE]
  /\ usage' = [usage EXCEPT ![r] = 0]
  /\ asks' = [asks EXCEPT ![r] = << >>]
  /\ result' = [result EXCEPT ![r] = None]
  /\ UNCHANGED <<setUp, sessions, outer, totalVars>>

Finish(r) ==
  /\ Goes(r, "between", "done")
  /\ report' = [report EXCEPT ![r] = IF outer[r] = None THEN 0 ELSE sessions[outer[r]]]
  /\ UNCHANGED <<sessionVars, callVars, accounted, unplanned, answered, raised, calls>>

-----------------------------------------------------------------------------
(* _call_model.                                                            *)

Ask(r) ==
  /\ Goes(r, "ask", "asked")
  /\ UNCHANGED <<sessionVars, callVars, totalVars, calls>>

\* Bound on the log: room for one attempt more than there may be.
LogSize == 7
Logged(r, outcome) ==
  asks' = [asks EXCEPT ![r] =
             IF Len(@) < LogSize
               THEN Append(@, [budget |-> budget[r], outcome |-> outcome]) ELSE @]

\* _session: a context without a dict makes one, which its copies do not share.
CountResponse(r) ==
  IF inner[r] = None
    THEN /\ inner' = [inner EXCEPT ![r] = Node(r)]
         /\ sessions' = [sessions EXCEPT ![Node(r)] = 1]
    ELSE /\ sessions' = [sessions EXCEPT ![inner[r]] = @ + 1]
         /\ UNCHANGED inner

\* llm_json raises: the usage of its earlier answer goes with it.
Raise(r) ==
  /\ Goes(r, "asked", "between")
  /\ result' = [result EXCEPT ![r] = "raised"]
  /\ raised' = [raised EXCEPT ![r] = TRUE]

\* Defect: a retry's usage replaces that of the answer that was cut off.
Adds_Replaces(r) == usage' = [usage EXCEPT ![r] = 1]

Adds(r) == usage' = [usage EXCEPT ![r] = @ + 1]

\* The session counts the response before its text is looked at; no text at all
\* means the call was blocked, and that is not tried again.
Answer(r, outcome) ==
  /\ CountResponse(r) /\ Logged(r, outcome)
  /\ answered' = [answered EXCEPT ![r] = @ + 1]
  /\ \/ outcome = "blocked" /\ Raise(r) /\ UNCHANGED usage
     \/ /\ outcome \in Texts /\ Goes(r, "asked", "parse") /\ Adds(r)
        /\ UNCHANGED <<result, raised>>
  /\ UNCHANGED <<setUp, outer, attempt, budget, retried, accounted, unplanned,
                 report, calls>>

\* Defect: every error is tried again.
TriesAgain_Always(r, failure) == attempt[r] < 2

\* 429 and the 5xx, twice.
TriesAgain(r, failure) == failure = "transient" /\ attempt[r] < 2

AttemptFails(r, failure) ==
  /\ Logged(r, failure)
  /\ \/ TriesAgain(r, failure) /\ Goes(r, "asked", "sleep")
        /\ UNCHANGED <<result, raised>>
     \/ ~ TriesAgain(r, failure) /\ Raise(r)
  /\ UNCHANGED <<sessionVars, attempt, budget, retried, usage, accounted,
                 unplanned, answered, report, calls>>

\* Defect: the wait after the second failure does not end.
Slept_Once(r) ==
  /\ attempt[r] = 0 /\ Goes(r, "sleep", "ask")
  /\ attempt' = [attempt EXCEPT ![r] = @ + 1]
  /\ UNCHANGED <<sessionVars, budget, retried, usage, asks, result, totalVars, calls>>

\* Half a minute after the first failure, a minute after the second.
Slept(r) ==
  /\ Goes(r, "sleep", "ask")
  /\ attempt' = [attempt EXCEPT ![r] = @ + 1]
  /\ UNCHANGED <<sessionVars, budget, retried, usage, asks, result, totalVars, calls>>

-----------------------------------------------------------------------------
(* The rest of llm_json.                                                   *)

LastAsk(r) == asks[r][Len(asks[r])]
Text(r) == LastAsk(r).outcome

Lesser(m, n) == IF m < n THEN m ELSE n

CutShort(r) == Text(r) = "cut" /\ budget[r] < Cap /\ ~ retried[r]

RetryTruncated(r) ==
  /\ Goes(r, "parse", "ask") /\ CutShort(r)
  /\ budget' = [budget EXCEPT ![r] = Lesser(2 * @, Cap)]
  /\ retried' = [retried EXCEPT ![r] = TRUE]
  /\ attempt' = [attempt EXCEPT ![r] = 0]
  /\ UNCHANGED <<sessionVars, usage, asks, result, totalVars, calls>>

\* Text that does not parse comes back as an object marked with the reason.  The
\* value null has no reason of its own: only a retry gives it one.
Parsed(r) ==
  IF Text(r) \in {"garbage", "cut"} \/ (Text(r) = "null" /\ retried[r])
    THEN "marked" ELSE Text(r)

\* The node goes on with the result and adds the usage to its run's totals.
Accumulates(r) ==
  /\ accounted' = [accounted EXCEPT ![r] = @ + usage[r]]
  /\ UNCHANGED <<unplanned, raised>>

\* mcp_router adds it only when it has planned a call: an answer that failed or
\* said done, named a tool or namespace that is not allowed or repeats a call
\* ends the loop, one that is no query for an additional source is passed over,
\* and its usage is in no total but the session's.
PlansNothing(r) ==
  /\ unplanned' = [unplanned EXCEPT ![r] = @ + usage[r]]
  /\ UNCHANGED <<accounted, raised>>

\* The node asks a list or a null for a key, or an object has a value it cannot
\* use: the exception leaves the node, and takes the usage along.
NodeRaises(r) ==
  /\ Parsed(r) # "marked"
  /\ raised' = [raised EXCEPT ![r] = TRUE]
  /\ UNCHANGED <<accounted, unplanned>>

\* llm_json returns, and so does, or does not, its caller.
Return(r) ==
  /\ Goes(r, "parse", "between") /\ ~ CutShort(r)
  /\ result' = [result EXCEPT ![r] = Parsed(r)]
  /\ Accumulates(r) \/ PlansNothing(r) \/ NodeRaises(r)
  /\ UNCHANGED <<sessionVars, attempt, budget, retried, usage, asks, answered,
                 report, calls>>

\* The adapter's own steps.
Advance(r) == Ask(r) \/ Slept(r) \/ RetryTruncated(r) \/ Return(r)

\* The model answers, or the request fails.
Model(r) ==
  /\ at[r] = "asked"
  /\ \/ \E outcome \in Texts \cup {"blocked"} : Answer(r, outcome)
     \/ \E failure \in Failures : AttemptFails(r, failure)

Next ==
  \E r \in Requests :
    \/ Begin(r) \/ ResumeStream(r) \/ Finish(r)
    \/ \E max_tokens \in Budgets : CallJson(r, max_tokens)
    \/ Advance(r) \/ Model(r)

\* A call goes on whenever the code has the next step; the model may not answer.
Spec == Init /\ [][Next]_vars /\ \A r \in Requests : WF_vars(Advance(r))

-----------------------------------------------------------------------------
(* Properties.                                                             *)

Results == {"object", "list", "null", "marked", "raised"}

TypeOK ==
  /\ setUp \in {None, SetUp} /\ sessions \in [Dicts -> Nat]
  /\ outer \in [Requests -> {None} \cup Dicts]
  /\ inner \in [Requests -> {None} \cup Dicts]
  /\ at \in [Requests -> {"idle", "between", "ask", "asked", "sleep", "parse", "done"}]
  /\ attempt \in [Requests -> 0 .. 2]
  /\ budget \in [Requests -> {None} \cup Nat]
  /\ retried \in [Requests -> BOOLEAN]
  /\ usage \in [Requests -> Nat]
  /\ asks \in [Requests -> Seq([budget : Nat, outcome : Outcomes])]
  /\ result \in [Requests -> {None} \cup Results]
  /\ accounted \in [Requests -> Nat] /\ unplanned \in [Requests -> Nat]
  /\ answered \in [Requests -> Nat]
  /\ raised \in [Requests -> BOOLEAN]
  /\ report \in [Requests -> {None} \cup Nat]
  /\ calls \in 0 .. MaxCalls

\* The session of a request that keeps its context has counted its responses and
\* nobody else's, however the calls of all requests interleave and whatever dict
\* the streams that lost theirs count in.
SessionIsOwn ==
  \A r \in Requests \ Streams : report[r] \in {None, answered[r]}

\* rca_builder's cross-check says the session total "should equal" the nodes'
\* own.  It need not: the two differ by the router's answers that planned no
\* call, in an ordinary run too, and by nothing else unless llm_json or a node
\* raised; then the session's is still no less.
TotalsExplained ==
  \A r \in Requests \ Streams : report[r] # None =>
    /\ accounted[r] + unplanned[r] <= report[r]
    /\ ~ raised[r] => accounted[r] + unplanned[r] = report[r]

\* In the attempts of one llm_json: three at most with one budget; a second
\* budget only after an answer that was cut off, larger and within the cap; and
\* after any other answer or error, nothing.
AttemptsAreEarned(r) ==
  LET Budget(i)  == asks[r][i].budget
      Outcome(i) == asks[r][i].outcome
  IN /\ \A i, j \in DOMAIN asks[r] : j >= i + 3 => Budget(j) # Budget(i)
     /\ \A i, j \in DOMAIN asks[r] : j = i + 1 =>
          \/ Outcome(i) = "transient" /\ Budget(j) = Budget(i)
          \/ /\ Outcome(i) = "cut" /\ Budget(i) = Budget(1)
             /\ Budget(i) < Budget(j) /\ Budget(j) <= Cap

\* llm_json_failed.
Detected(r) == result[r] \in {"list", "marked"}

\* A call that gave up had no answer in three attempts with one budget, or an
\* error or a block not worth another; a result that llm_json_failed lets pass
\* is the model's object, or a null on which nothing was tried again.
EndsRightly(r) ==
  result[r] # None =>
    IF result[r] = "raised"
      THEN \/ Text(r) \in {"fatal", "blocked"}
           \/ /\ Len(asks[r]) >= 3
              /\ \A i \in Len(asks[r]) - 2 .. Len(asks[r]) :
                   asks[r][i].outcome = "transient"
      ELSE ~ Detected(r) =>
             \/ Text(r) = "object"
             \/ Text(r) = "null" /\ \A i \in 1 .. Len(asks[r]) : asks[r][i].outcome # "cut"

\* Nothing is retried that need not be, and nothing given up or passed on as an
\* answer that may be retried or was none.
RetriesAreEarned == \A r \in Requests : AttemptsAreEarned(r) /\ EndsRightly(r)

\* If the model answers or fails every request it is sent, every llm_json ends.
CallReturns ==
  \A r \in Requests :
    (at[r] = "asked" ~> at[r] # "asked") => (at[r] = "ask" ~> at[r] = "between")
=============================================================================
