--------------------------- MODULE QueryLifecycle ---------------------------
(***************************************************************************)
(* SREAgent.query and SREAgent.stream_query: what happens to a request     *)
(* around its investigation, with other requests on the same container and *)
(* reviewers at work.  A step is one call to an external service or one    *)
(* access to the class attribute _memory, which all requests share.        *)
(*                                                                         *)
(* The investigation itself is one step here: module RunResult says which  *)
(* results it can have.  The GCS copy of the result is written on the way  *)
(* and never read back, so it is left out.                                 *)
(***************************************************************************)
EXTENDS MemoryStore, RunResult, Sequences

CONSTANTS
  None,
  NoCluster,     \* the scope of a request that names no cluster, if in Scopes
  Configured,    \* MEMORY_BANK_RESOURCE is set and its client came up
  MaxMemory,     \* SREAgent._MAX_MEMORY (20)
  MaxRecalled,   \* memories put into a prompt (3)
  Contains       \* pairs <<i, j>>: the dedup key of j contains that of i

ASSUME MemoryAssumption ==
  /\ IsFiniteSet(Runs)
  /\ Configured \in BOOLEAN
  /\ MaxMemory \in Nat \ {0}
  /\ MaxRecalled \in Nat \ {0}
  /\ Contains \subseteq Incidents \X Incidents
  /\ \A i \in Incidents : <<i, i>> \in Contains

VARIABLES
  phase,     \* phase[r]: where request r is in query() / stream_query()
  payload,   \* payload[r]: the scope and the incident r asks about
  context,   \* context[r]: what recall put into payload["memory_context"]
  result,    \* result[r]: what investigate() returned
  terminal,  \* terminal[r]: terminal log entries written for r
  trimmed,   \* trimmed[r]: the slice r is about to assign to _memory
  response,  \* response[r]: what r's caller gets
  memory     \* SREAgent._memory, the in-process list

requestVars == <<phase, payload, context, result, terminal, trimmed, response>>
vars == <<storeVars, requestVars, memory>>

-----------------------------------------------------------------------------
Phases == {"new", "recall", "recall_local", "investigate", "build", "remember",
           "dedup", "create", "save", "trim", "assign", "sanitize",
           "done", "dropped"}
Active == Phases \ {"new", "done", "dropped"}

\* _mb_recall's outcomes; "not_asked" where it is not called.
Answers == {"not_asked", "unavailable", "empty", "unapproved", "approved"}
Context == [answer : Answers, of : SUBSET Runs]
NoContext == [answer |-> "not_asked", of |-> {}]

Entry == [run : Runs, scope : Scopes]

Responses == {"blocked", "failed", "report", "withheld"}

ASSUME NoneAssumption == None \notin Results /\ None \notin Responses

Init ==
  /\ StoreInit
  /\ phase = [r \in Runs |-> "new"]
  /\ payload \in [Runs -> [scope : Scopes, incident : Incidents]]
  /\ context = [r \in Runs |-> NoContext]
  /\ result = [r \in Runs |-> None]
  /\ terminal = [r \in Runs |-> 0]
  /\ trimmed = [r \in Runs |-> << >>]
  /\ response = [r \in Runs |-> None]
  /\ memory = << >>

Scope(r) == payload[r].scope

Move(r, from, to) ==
  /\ phase[r] = from
  /\ phase' = [phase EXCEPT ![r] = to]
  /\ UNCHANGED payload

-----------------------------------------------------------------------------
(* _prepare_query.                                                         *)

\* Model Armor flags the input, or cannot be asked: fail closed.
InputBlocked(r) ==
  /\ Move(r, "new", "done")
  /\ response' = [response EXCEPT ![r] = "blocked"]
  /\ UNCHANGED <<storeVars, context, result, terminal, trimmed, memory>>

InputPasses(r) ==
  /\ Move(r, "new", IF Scope(r) = NoCluster THEN "investigate" ELSE "recall")
  /\ UNCHANGED <<storeVars, context, result, terminal, trimmed, response, memory>>

\* Defect: unreviewed records are recalled with the approved ones.
Recallable_Unreviewed(scope) ==
  {m \in Retrieve(scope) : m.status \notin {"rejected", "revoked"}}

Recallable(scope) == {m \in Retrieve(scope) : m.status = "approved"}

\* approved[:3], in an order of the service's own.
FirstOf(runs) ==
  {s \in SUBSET runs : \/ s = runs /\ Cardinality(s) <= MaxRecalled
                       \/ s # runs /\ Cardinality(s) = MaxRecalled}

\* _mb_recall when Memory Bank answers: an empty answer is the only one that
\* is falsy, so the only one "or" goes past.
RecallAnswered(r) ==
  LET approved == Recallable(Scope(r))
      shown    == FirstOf({m.run : m \in approved})
  IN /\ Configured
     /\ IF Retrieve(Scope(r)) = {}
          THEN /\ Move(r, "recall", "recall_local")
               /\ context' = [context EXCEPT ![r] = [answer |-> "empty", of |-> {}]]
          ELSE /\ Move(r, "recall", "investigate")
               /\ \E s \in shown :
                    context' = [context EXCEPT ![r] =
                      [answer |-> IF approved = {} THEN "unapproved" ELSE "approved",
                       of |-> s]]
     /\ UNCHANGED <<storeVars, result, terminal, trimmed, response, memory>>

\* Defect: without a client the call is made all the same, and not caught.
RecallUnavailable_NoClient(r) ==
  /\ Configured
  /\ Move(r, "recall", "investigate")
  /\ context' = [context EXCEPT ![r] = [answer |-> "unavailable", of |-> {}]]
  /\ UNCHANGED <<storeVars, result, terminal, trimmed, response, memory>>

\* Not configured, or the call raises: the sentinel, which is truthy.
RecallUnavailable(r) ==
  /\ Move(r, "recall", "investigate")
  /\ context' = [context EXCEPT ![r] = [answer |-> "unavailable", of |-> {}]]
  /\ UNCHANGED <<storeVars, result, terminal, trimmed, response, memory>>

\* Defect: the entries of every cluster and namespace are relevant.
Relevant_AnyScope(scope) == DOMAIN memory

\* _recall_memory's relevant entries, and the last of them.
Relevant(scope) == {i \in DOMAIN memory : memory[i].scope = scope}

LocalRuns(scope) ==
  LET found == Relevant(scope)
  IN {memory[i].run : i \in {j \in found :
        Cardinality({k \in found : k > j}) < MaxRecalled}}

RecallLocal(r) ==
  /\ Move(r, "recall_local", "investigate")
  /\ context' = [context EXCEPT ![r].of = LocalRuns(Scope(r))]
  /\ UNCHANGED <<storeVars, result, terminal, trimmed, response, memory>>

-----------------------------------------------------------------------------
(* investigate() and investigate_stream().                                 *)

NoQuery(r) ==
  /\ Move(r, "investigate", "remember")
  /\ result' = [result EXCEPT ![r] = Failed("no_query")]
  /\ UNCHANGED <<storeVars, context, terminal, trimmed, response, memory>>

\* rca_builder has written the terminal log entry of the run.
GraphCompletes(r) ==
  /\ Move(r, "investigate", "build")
  /\ \E g \in GraphResults : result' = [result EXCEPT ![r] = g]
  /\ terminal' = [terminal EXCEPT ![r] = @ + 1]
  /\ UNCHANGED <<storeVars, context, trimmed, response, memory>>

\* _write_crash_investigation_event stands in for rca_builder's entry.
GraphRaises(r) ==
  /\ Move(r, "investigate", "remember")
  /\ result' = [result EXCEPT ![r] = Failed("exception")]
  /\ terminal' = [terminal EXCEPT ![r] = @ + 1]
  /\ UNCHANGED <<storeVars, context, trimmed, response, memory>>

BuildSucceeds(r) ==
  /\ Move(r, "build", "remember")
  /\ UNCHANGED <<storeVars, context, result, terminal, trimmed, response, memory>>

\* Defect: the crash entry is written whatever _graph_completed says.
BuildRaises_LogsAgain(r) ==
  /\ Move(r, "build", "remember")
  /\ result' = [result EXCEPT ![r] = Failed("exception")]
  /\ terminal' = [terminal EXCEPT ![r] = @ + 1]
  /\ UNCHANGED <<storeVars, context, trimmed, response, memory>>

\* _finalize_investigation_result raises after the graph completed.
BuildRaises(r) ==
  /\ Move(r, "build", "remember")
  /\ result' = [result EXCEPT ![r] = Failed("exception")]
  /\ UNCHANGED <<storeVars, context, terminal, trimmed, response, memory>>

\* A stream_query consumer closes the stream: GeneratorExit is not an
\* Exception, nothing of the lifecycle runs any more.
ConsumerLeaves(r) ==
  /\ \/ Move(r, "investigate", "dropped")
     \/ Move(r, "build", "dropped")
  /\ UNCHANGED <<storeVars, context, result, terminal, trimmed, response, memory>>

-----------------------------------------------------------------------------
(* _finalize_query.                                                        *)

\* Defect: uninspected evidence does not keep a conclusion out.
Rememberable_Uninspected(res) ==
  res.exit # "cluster_unresolved" /\ res.status # "failed"

Rememberable(res) ==
  /\ res.exit # "cluster_unresolved"
  /\ res.status # "failed"
  /\ ~res.uninspected

Remember(r) ==
  LET res == result[r]
  IN /\ Move(r, "remember",
             IF ~Rememberable(res) THEN "sanitize"
             ELSE IF res.band = "auto" /\ Configured THEN "dedup"
             ELSE "save")
     /\ UNCHANGED <<storeVars, context, result, terminal, trimmed, response, memory>>

\* _mb_store's dedup check: "key in fact", a test for a substring.
IsStored(r) ==
  \E m \in Retrieve(Scope(r)) : <<payload[r].incident, m.incident>> \in Contains

\* retrieve fails, or finds the incident stored: nothing is written.
DedupSkips(r) ==
  /\ Move(r, "dedup", "save")
  /\ UNCHANGED <<storeVars, context, result, terminal, trimmed, response, memory>>

DedupFindsNone(r) ==
  /\ ~IsStored(r)
  /\ Move(r, "dedup", "create")
  /\ UNCHANGED <<storeVars, context, result, terminal, trimmed, response, memory>>

Create(r) ==
  /\ Move(r, "create", "save")
  /\ \/ /\ Created(r, Scope(r), payload[r].incident, "pending_review")
        /\ UNCHANGED <<reviews, reviewing>>
     \/ UNCHANGED storeVars                    \* create raises
  /\ UNCHANGED <<context, result, terminal, trimmed, response, memory>>

\* _save_memory: the append, then the slice read and assigned back.
Save(r) ==
  /\ Move(r, "save", "trim")
  /\ memory' = Append(memory, [run |-> r, scope |-> Scope(r)])
  /\ UNCHANGED <<storeVars, context, result, terminal, trimmed, response>>

\* Defect: one entry more than the cap survives the trim.
LastEntries_OffByOne(list) == SubSeq(list, Len(list) - MaxMemory, Len(list))

LastEntries(list) == SubSeq(list, Len(list) - MaxMemory + 1, Len(list))

Trim(r) ==
  /\ IF Len(memory) > MaxMemory
       THEN /\ Move(r, "trim", "assign")
            /\ trimmed' = [trimmed EXCEPT ![r] = LastEntries(memory)]
       ELSE /\ Move(r, "trim", "sanitize")
            /\ UNCHANGED trimmed
  /\ UNCHANGED <<storeVars, context, result, terminal, response, memory>>

Assign(r) ==
  /\ Move(r, "assign", "sanitize")
  /\ memory' = trimmed[r]
  /\ trimmed' = [trimmed EXCEPT ![r] = << >>]
  /\ UNCHANGED <<storeVars, context, result, terminal, response>>

\* Model Armor on the output: flagged content is withheld; an error delivers.
Respond(r) ==
  /\ Move(r, "sanitize", "done")
  /\ \E a \in IF result[r].status = "failed" THEN {"failed"} ELSE {"report", "withheld"} :
       response' = [response EXCEPT ![r] = a]
  /\ UNCHANGED <<storeVars, context, result, terminal, trimmed, memory>>

-----------------------------------------------------------------------------
\* The container is replaced: its requests and its list are gone.
Restart ==
  /\ \/ \E r \in Runs : phase[r] \in Active
     \/ memory # << >>
  /\ phase' = [r \in Runs |-> IF phase[r] \in Active THEN "dropped" ELSE phase[r]]
  /\ trimmed' = [r \in Runs |-> << >>]
  /\ memory' = << >>
  /\ UNCHANGED <<storeVars, payload, context, result, terminal, response>>

Arrive(r)      == InputBlocked(r) \/ InputPasses(r)
Recall(r)      == RecallAnswered(r) \/ RecallUnavailable(r) \/ RecallLocal(r)
Investigate(r) == \/ NoQuery(r) \/ GraphCompletes(r) \/ GraphRaises(r)
                  \/ BuildSucceeds(r) \/ BuildRaises(r)
Finalize(r)    == \/ Remember(r) \/ DedupSkips(r) \/ DedupFindsNone(r) \/ Create(r)
                  \/ Save(r) \/ Trim(r) \/ Assign(r) \/ Respond(r)

Serve(r) == Recall(r) \/ Investigate(r) \/ Finalize(r)

Next ==
  \/ \E r \in Runs : Arrive(r) \/ Serve(r) \/ ConsumerLeaves(r)
  \/ \E v \in Reviewers : Review(v) /\ UNCHANGED <<requestVars, memory>>
  \/ Restart

\* The runtime drives an accepted request to its response; every external
\* call returns or raises.  Requests need not arrive, reviewers need not act.
Spec == Init /\ [][Next]_vars /\ \A r \in Runs : WF_vars(Serve(r))

-----------------------------------------------------------------------------
(* Safety.                                                                 *)

\* Every variable has the values the lifecycle gives it.
TypeOK ==
  /\ StoreTypeOK
  /\ phase \in [Runs -> Phases]
  /\ payload \in [Runs -> [scope : Scopes, incident : Incidents]]
  /\ context \in [Runs -> Context]
  /\ result \in [Runs -> Results \cup {None}]
  /\ terminal \in [Runs -> Nat]
  /\ trimmed \in [Runs -> Seq(Entry)]
  /\ response \in [Runs -> Responses \cup {None}]
  /\ memory \in Seq(Entry)

\* A run whose conclusion may become context of a later run.
Sound(run) ==
  /\ result[run] # None
  /\ result[run].status = "done" /\ result[run].exit = "loop"
  /\ ~result[run].uninspected

\* No path makes trusted context of a failed run, of a run without a cluster
\* or of a conclusion on uninspected evidence: not the list other requests of
\* the container read, not a slice a thread is about to put back, not Memory
\* Bank through any number of reviews, which also takes only "auto" runs.
OnlySoundRunsRemembered ==
  /\ \A i \in DOMAIN memory : Sound(memory[i].run)
  /\ \A r \in Runs : \A i \in DOMAIN trimmed[r] : Sound(trimmed[r][i].run)
  /\ \A m \in bank : Sound(m.run) /\ result[m.run].band = "auto"

\* A run has at most one record, counting the one a reviewer has deleted and
\* not created again: of two concurrent reviews of a record one fails, so a
\* stale approval cannot bring back what the other reviewer revoked.
OneRecordPerRun ==
  /\ \A m1, m2 \in bank : m1.run = m2.run => m1 = m2
  /\ \A v \in Reviewers : reviewing[v].phase = "deleted" =>
       /\ \A m \in bank : m.run # reviewing[v].record.run
       /\ \A w \in Reviewers \ {v} :
            reviewing[w].phase = "deleted" =>
              reviewing[w].record.run # reviewing[v].record.run

\* Threads that append and trim the shared list at the same time exceed its
\* cap by no more than the requests still trimming.
MemoryBounded ==
  Len(memory) <= MaxMemory + Cardinality({r \in Runs : phase[r] \in {"trim", "assign"}})

\* One terminal log entry per investigation: a crash after the graph
\* completed adds none, a crash before does not go missing.
OneTerminalEntry ==
  \A r \in Runs :
    /\ terminal[r] <= 1
    /\ response[r] \in {"failed", "report", "withheld"} =>
         (terminal[r] = 1 <=> result[r].exit # "no_query")

-----------------------------------------------------------------------------
(* Action and liveness properties.                                         *)

\* What Memory Bank adds to a prompt was approved when it was read, is of the
\* cluster and namespace asked about, and is of an earlier, confirmed run.
TrustedContext ==
  [][\A r \in Runs :
       context'[r] # context[r] /\ context'[r].answer = "approved" =>
         \A o \in context'[r].of :
           /\ \E m \in bank : /\ m.run = o
                              /\ m.status = "approved"
                              /\ m.scope = Scope(r)
           /\ o # r
           /\ result[o].band = "auto"]_vars

\* Every accepted request is answered unless its container or its consumer
\* goes away: no memory or safety-filter outage blocks the response.
Answered ==
  \A r \in Runs : phase[r] \in Active ~> phase[r] \in {"done", "dropped"}

-----------------------------------------------------------------------------
(* Statements of the code's own texts that the lifecycle does not keep.    *)

\* main.py, _mb_store: "the same scenario is never written twice".
NeverWrittenTwice ==
  \A m1, m2 \in bank :
    m1.scope = m2.scope /\ m1.incident = m2.incident => m1 = m2
=============================================================================
