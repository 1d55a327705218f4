------------------------ MODULE QueryLifecycleProofs ------------------------
(***************************************************************************)
(* Proofs about QueryLifecycle and the Memory Bank it shares with the      *)
(* reviewers, for any number of requests, reviewers, scopes and reviews.   *)
(***************************************************************************)
EXTENDS QueryLifecycleRefinement, FiniteSetTheorems, TLAPS

USE DEF storeVars, requestVars, Move

-----------------------------------------------------------------------------
(* Types.                                                                  *)

\* What the operators read from the list and from Memory Bank are runs.
LEMMA LocalRunsType ==
  ASSUME memory \in Seq(Entry), NEW scope
  PROVE  LocalRuns(scope) \subseteq Runs
<1>1. \A i \in DOMAIN memory : memory[i] \in Entry
  OBVIOUS
<1>2. \A e \in Entry : e.run \in Runs
  BY DEF Entry
<1>3. QED
  BY <1>1, <1>2 DEF LocalRuns, Relevant

LEMMA RecalledType ==
  ASSUME bank \subseteq Record, NEW scope,
         NEW s \in FirstOf({m.run : m \in Recallable(scope)})
  PROVE  s \subseteq Runs
  BY DEF FirstOf, Recallable, Retrieve, Record

\* The slice a thread keeps is a list of entries, as long as the cap says.
LEMMA LastEntriesType ==
  ASSUME NEW S, NEW list \in Seq(S), Len(list) > MaxMemory
  PROVE  /\ LastEntries(list) \in Seq(S)
         /\ Len(LastEntries(list)) = MaxMemory
         /\ \A i \in DOMAIN LastEntries(list) :
              \E j \in DOMAIN list : LastEntries(list)[i] = list[j]
  BY MemoryAssumption DEF LastEntries

LEMMA TypeInit == Init => TypeOK
  BY DEF Init, StoreInit, TypeOK, StoreTypeOK, NoContext, Context, Answers,
         Phases, Command, Idle

\* The requests leave their variables typed, and the store when they write.
LEMMA TypeStepRecall ==
  ASSUME TypeOK, NEW r \in Runs, Arrive(r) \/ Recall(r)
  PROVE  TypeOK'
<1>1. CASE InputBlocked(r) \/ InputPasses(r)
  BY <1>1 DEF InputBlocked, InputPasses, TypeOK, StoreTypeOK, Phases, Responses
<1>2. CASE RecallAnswered(r)
  <2>1. PICK c \in Context : context' = [context EXCEPT ![r] = c]
    <3>1. CASE Retrieve(Scope(r)) = {}
      <4>1. [answer |-> "empty", of |-> {}] \in Context
        BY DEF Context, Answers
      <4>2. QED
        BY <1>2, <3>1, <4>1 DEF RecallAnswered
    <3>2. CASE Retrieve(Scope(r)) # {}
      <4>1. PICK s \in FirstOf({m.run : m \in Recallable(Scope(r))}) :
              context' = [context EXCEPT ![r] =
                [answer |-> IF Recallable(Scope(r)) = {} THEN "unapproved"
                            ELSE "approved",
                 of |-> s]]
        BY <1>2, <3>2 DEF RecallAnswered
      <4>2. s \subseteq Runs
        BY RecalledType DEF TypeOK, StoreTypeOK
      <4>3. [answer |-> IF Recallable(Scope(r)) = {} THEN "unapproved"
                        ELSE "approved",
             of |-> s] \in Context
        BY <4>2, Zenon DEF Context, Answers
      <4>4. QED
        BY <4>1, <4>3
    <3>3. QED
      BY <3>1, <3>2
  <2>2. QED
    BY <1>2, <2>1 DEF RecallAnswered, TypeOK, StoreTypeOK, Phases
<1>3. CASE RecallUnavailable(r)
  BY <1>3 DEF RecallUnavailable, TypeOK, StoreTypeOK, Phases, Context, Answers
<1>4. CASE RecallLocal(r)
  <2>1. LocalRuns(Scope(r)) \subseteq Runs
    BY LocalRunsType DEF TypeOK
  <2>2. context' \in [Runs -> Context]
    BY <1>4, <2>1 DEF RecallLocal, TypeOK, Context
  <2>3. QED
    BY <1>4, <2>2 DEF RecallLocal, TypeOK, StoreTypeOK, Phases
<1>5. QED
  BY <1>1, <1>2, <1>3, <1>4 DEF Arrive, Recall

LEMMA TypeStepInvestigate ==
  ASSUME TypeOK, NEW r \in Runs, Investigate(r) \/ ConsumerLeaves(r)
  PROVE  TypeOK'
<1>1. CASE NoQuery(r)
  BY <1>1 DEF NoQuery, TypeOK, StoreTypeOK, Phases, Results
<1>2. CASE GraphCompletes(r)
  BY <1>2 DEF GraphCompletes, TypeOK, StoreTypeOK, Phases, Results
<1>3. CASE GraphRaises(r)
  BY <1>3 DEF GraphRaises, TypeOK, StoreTypeOK, Phases, Results
<1>4. CASE BuildSucceeds(r) \/ ConsumerLeaves(r)
  BY <1>4 DEF BuildSucceeds, ConsumerLeaves, TypeOK, StoreTypeOK, Phases
<1>5. CASE BuildRaises(r)
  BY <1>5 DEF BuildRaises, TypeOK, StoreTypeOK, Phases, Results
<1>6. QED
  BY <1>1, <1>2, <1>3, <1>4, <1>5 DEF Investigate

\* A record created by a request or by a reviewer is well formed.
LEMMA CreatedType ==
  ASSUME StoreTypeOK, NEW run \in Runs, NEW scope \in Scopes,
         NEW incident \in Incidents, NEW st \in Statuses,
         Created(run, scope, incident, st)
  PROVE  bank' \subseteq Record /\ names' \in Nat
  BY DEF StoreTypeOK, Created, Record

LEMMA TypeStepFinalize ==
  ASSUME TypeOK, NEW r \in Runs, Finalize(r)
  PROVE  TypeOK'
<1>1. CASE Remember(r) \/ DedupSkips(r) \/ DedupFindsNone(r)
  BY <1>1 DEF Remember, DedupSkips, DedupFindsNone, TypeOK, StoreTypeOK, Phases
<1>2. CASE Create(r)
  <2>1. Scope(r) \in Scopes /\ payload[r].incident \in Incidents
    BY DEF TypeOK, Scope
  <2>2. StoreTypeOK'
    <3>1. CASE UNCHANGED storeVars
      BY <3>1 DEF TypeOK, StoreTypeOK
    <3>2. CASE /\ Created(r, Scope(r), payload[r].incident, "pending_review")
               /\ UNCHANGED <<reviews, reviewing>>
      <4>1. bank' \subseteq Record /\ names' \in Nat
        BY <2>1, <3>2, CreatedType DEF TypeOK, Statuses
      <4>2. QED
        BY <3>2, <4>1 DEF TypeOK, StoreTypeOK
    <3>3. QED
      BY <1>2, <3>1, <3>2 DEF Create
  <2>3. QED
    BY <1>2, <2>2 DEF Create, TypeOK, Phases
<1>3. CASE Save(r)
  <2>1. [run |-> r, scope |-> Scope(r)] \in Entry
    BY DEF TypeOK, Scope, Entry
  <2>2. memory' \in Seq(Entry)
    BY <1>3, <2>1 DEF Save, TypeOK
  <2>3. QED
    BY <1>3, <2>2 DEF Save, TypeOK, StoreTypeOK, Phases
<1>4. CASE Trim(r)
  <2>1. Len(memory) > MaxMemory => LastEntries(memory) \in Seq(Entry)
    BY LastEntriesType DEF TypeOK
  <2>2. trimmed' \in [Runs -> Seq(Entry)]
    BY <1>4, <2>1 DEF Trim, TypeOK
  <2>3. QED
    BY <1>4, <2>2 DEF Trim, TypeOK, StoreTypeOK, Phases
<1>5. CASE Assign(r)
  <2>1. << >> \in Seq(Entry)
    OBVIOUS
  <2>2. QED
    BY <1>5, <2>1 DEF Assign, TypeOK, StoreTypeOK, Phases
<1>6. CASE Respond(r)
  BY <1>6 DEF Respond, TypeOK, StoreTypeOK, Phases, Responses
<1>7. QED
  BY <1>1, <1>2, <1>3, <1>4, <1>5, <1>6 DEF Finalize

\* A reviewer's command leaves the store typed.
LEMMA TypeStepReview ==
  ASSUME StoreTypeOK, NEW v \in Reviewers, Review(v)
  PROVE  StoreTypeOK'
<1>1. CASE ReviewGet(v)
  <2>1. PICK m \in bank, verdict \in Verdicts :
          reviewing' = [reviewing EXCEPT ![v] =
            [phase |-> "fetched", record |-> m, verdict |-> verdict]]
    BY <1>1 DEF ReviewGet
  <2>2. [phase |-> "fetched", record |-> m, verdict |-> verdict] \in Command
    BY DEF StoreTypeOK, Command
  <2>3. QED
    BY <1>1, <2>1, <2>2 DEF ReviewGet, StoreTypeOK
<1>2. CASE ReviewDelete(v)
  <2>1. reviewing[v] \in [phase : {"fetched", "deleted"}, record : Record,
                          verdict : Verdicts]
    BY <1>2 DEF ReviewDelete, StoreTypeOK, Command
  <2>2. [reviewing[v] EXCEPT !.phase = "deleted"] \in Command
    BY <2>1 DEF Command
  <2>3. Idle \in Command
    BY DEF Idle, Command
  <2>4. reviewing' \in [Reviewers -> Command]
    BY <1>2, <2>2, <2>3 DEF ReviewDelete, StoreTypeOK
  <2>5. QED
    BY <1>2, <2>4 DEF ReviewDelete, StoreTypeOK
<1>3. CASE ReviewCreate(v)
  <2>1. /\ reviewing[v].record \in Record
        /\ reviewing[v].verdict \in Statuses
    BY <1>3 DEF ReviewCreate, StoreTypeOK, Command, Verdicts
  <2>2. bank' \subseteq Record /\ names' \in Nat
    BY <1>3, <2>1, CreatedType DEF ReviewCreate, Record
  <2>3. QED
    BY <1>3, <2>2 DEF ReviewCreate, StoreTypeOK, Command, Idle
<1>4. CASE ReviewFails(v)
  BY <1>4 DEF ReviewFails, StoreTypeOK, Command, Idle
<1>5. QED
  BY <1>1, <1>2, <1>3, <1>4 DEF Review

LEMMA TypeStepRestart == TypeOK /\ Restart => TypeOK'
<1> SUFFICES ASSUME TypeOK, Restart PROVE TypeOK'
  OBVIOUS
<1>1. << >> \in Seq(Entry)
  OBVIOUS
<1>2. phase' \in [Runs -> Phases]
  BY DEF Restart, TypeOK, Phases
<1>3. QED
  BY <1>1, <1>2 DEF Restart, TypeOK, StoreTypeOK

LEMMA TypeStep == TypeOK /\ [Next]_vars => TypeOK'
<1> SUFFICES ASSUME TypeOK, [Next]_vars PROVE TypeOK'
  OBVIOUS
<1>1. CASE \E r \in Runs : Arrive(r) \/ Serve(r) \/ ConsumerLeaves(r)
  BY <1>1, TypeStepRecall, TypeStepInvestigate, TypeStepFinalize DEF Serve
<1>2. CASE \E v \in Reviewers : Review(v) /\ UNCHANGED <<requestVars, memory>>
  BY <1>2, TypeStepReview DEF TypeOK
<1>3. CASE Restart
  BY <1>3, TypeStepRestart
<1>4. CASE UNCHANGED vars
  BY <1>4 DEF vars, TypeOK, StoreTypeOK
<1>5. QED
  BY <1>1, <1>2, <1>3, <1>4 DEF Next

\* Every variable has the values the lifecycle gives it, in every instance.
THEOREM LifecycleTypes == Spec => []TypeOK
  BY TypeInit, TypeStep, PTL DEF Spec

-----------------------------------------------------------------------------
(* The terminal log entry of a run, by where its request is.               *)

Finishing == {"remember", "dedup", "create", "save", "trim", "assign", "sanitize"}

\* What one request has logged and answered.
Logged(r) ==
  /\ terminal[r] <= 1
  /\ phase[r] \in {"new", "recall", "recall_local", "investigate"} => terminal[r] = 0
  /\ phase[r] = "build" =>
       terminal[r] = 1 /\ result[r] # None /\ result[r].exit # "no_query"
  /\ phase[r] \in Finishing =>
       result[r] # None /\ (terminal[r] = 1 <=> result[r].exit # "no_query")
  /\ response[r] \in {"failed", "report", "withheld"} =>
       phase[r] = "done" /\ (terminal[r] = 1 <=> result[r].exit # "no_query")

TerminalInv == \A r \in Runs : Logged(r)

\* What a request does to the other requests: nothing that TerminalInv,
\* MemoryInv or the reports read.
LEMMA OthersKept ==
  ASSUME TypeOK, NEW q \in Runs, Arrive(q) \/ Serve(q) \/ ConsumerLeaves(q),
         NEW r \in Runs, r # q
  PROVE  /\ phase'[r] = phase[r]
         /\ result'[r] = result[r]
         /\ context'[r] = context[r]
         /\ terminal'[r] = terminal[r]
         /\ trimmed'[r] = trimmed[r]
         /\ response'[r] = response[r]
<1>1. CASE Arrive(q) \/ ConsumerLeaves(q)
  BY <1>1 DEF Arrive, InputBlocked, InputPasses, ConsumerLeaves, TypeOK
<1>2. CASE Recall(q)
  BY <1>2 DEF Recall, RecallAnswered, RecallUnavailable, RecallLocal, TypeOK
<1>3. CASE Investigate(q)
  BY <1>3 DEF Investigate, NoQuery, GraphCompletes, GraphRaises, BuildSucceeds,
     BuildRaises, TypeOK
<1>4. CASE Finalize(q)
  BY <1>4 DEF Finalize, Remember, DedupSkips, DedupFindsNone, Create, Save,
     Trim, Assign, Respond, TypeOK
<1>5. QED
  BY <1>1, <1>2, <1>3, <1>4 DEF Serve

LEMMA TerminalStepInvestigate ==
  ASSUME TypeOK, TerminalInv, NEW r \in Runs,
         Arrive(r) \/ Recall(r) \/ Investigate(r) \/ ConsumerLeaves(r)
  PROVE  Logged(r)'
<1> USE NoneAssumption DEF TypeOK, TerminalInv, Logged, Finishing
<1>1. CASE Arrive(r) \/ ConsumerLeaves(r)
  BY <1>1 DEF Arrive, InputBlocked, InputPasses, ConsumerLeaves
<1>2. CASE Recall(r)
  BY <1>2 DEF Recall, RecallAnswered, RecallUnavailable, RecallLocal
<1>3. CASE NoQuery(r)
  BY <1>3 DEF NoQuery, Results, Failed
<1>4. CASE GraphCompletes(r)
  <2>1. \A g \in GraphResults : g # None /\ g.exit # "no_query"
    BY DEF GraphResults, Results
  <2>2. QED
    BY <1>4, <2>1 DEF GraphCompletes
<1>5. CASE GraphRaises(r)
  BY <1>5 DEF GraphRaises, Results, Failed
<1>6. CASE BuildSucceeds(r)
  BY <1>6 DEF BuildSucceeds
<1>7. CASE BuildRaises(r)
  BY <1>7 DEF BuildRaises, Results, Failed
<1>8. QED
  BY <1>1, <1>2, <1>3, <1>4, <1>5, <1>6, <1>7 DEF Investigate

LEMMA TerminalStepFinalize ==
  ASSUME TypeOK, TerminalInv, NEW r \in Runs, Finalize(r)
  PROVE  Logged(r)'
<1> USE DEF TypeOK, TerminalInv, Logged, Finishing
<1>1. CASE Remember(r)
  BY <1>1 DEF Remember
<1>2. CASE DedupSkips(r) \/ DedupFindsNone(r) \/ Create(r)
  BY <1>2 DEF DedupSkips, DedupFindsNone, Create
<1>3. CASE Save(r) \/ Trim(r) \/ Assign(r)
  BY <1>3 DEF Save, Trim, Assign
<1>4. CASE Respond(r)
  BY <1>4 DEF Respond
<1>5. QED
  BY <1>1, <1>2, <1>3, <1>4 DEF Finalize

LEMMA TerminalStep ==
  ASSUME TypeOK, TerminalInv, [Next]_vars
  PROVE  TerminalInv'
<1> SUFFICES ASSUME NEW r \in Runs PROVE Logged(r)'
  BY DEF TerminalInv
<1>1. CASE \E q \in Runs : Arrive(q) \/ Serve(q) \/ ConsumerLeaves(q)
  <2>1. PICK q \in Runs : Arrive(q) \/ Serve(q) \/ ConsumerLeaves(q)
    BY <1>1
  <2>2. CASE q = r
    BY <2>1, <2>2, TerminalStepInvestigate, TerminalStepFinalize DEF Serve
  <2>3. CASE q # r
    BY <2>1, <2>3, OthersKept DEF TerminalInv, Logged
  <2>4. QED
    BY <2>2, <2>3
<1>2. CASE Restart
  BY <1>2 DEF Restart, TerminalInv, Logged, Finishing, Active
<1>3. CASE \E v \in Reviewers : Review(v) /\ UNCHANGED <<requestVars, memory>>
  BY <1>3 DEF TerminalInv, Logged
<1>4. CASE UNCHANGED vars
  BY <1>4 DEF vars, TerminalInv, Logged
<1>5. QED
  BY <1>1, <1>2, <1>3, <1>4 DEF Next

LEMMA TerminalInit == Init => TerminalInv
  BY NoneAssumption DEF Init, TerminalInv, Logged, Finishing, Responses

LEMMA TerminalInvariant == Spec => [](TypeOK /\ TerminalInv)
<1>1. Init => TypeOK /\ TerminalInv
  BY TypeInit, TerminalInit
<1>2. TypeOK /\ TerminalInv /\ [Next]_vars => (TypeOK /\ TerminalInv)'
  BY TypeStep, TerminalStep
<1>3. QED
  BY <1>1, <1>2, PTL DEF Spec

\* One terminal log entry per investigation, whatever raises where.
THEOREM LoggedOnce == Spec => []OneTerminalEntry
<1>1. TerminalInv => OneTerminalEntry
  BY DEF TerminalInv, Logged, OneTerminalEntry
<1>2. QED
  BY <1>1, TerminalInvariant, PTL

-----------------------------------------------------------------------------
(* What is remembered.  OnlySoundRunsRemembered is not inductive: a run is *)
(* sound for good only once its result is final, and what a thread or a    *)
(* reviewer is about to write must be sound before it is written.          *)

Trusted(run)   == Sound(run) /\ phase[run] \in Settled
Confirmed(run) == Trusted(run) /\ result[run].band = "auto"

ListTrusted ==
  /\ \A i \in DOMAIN memory : Trusted(memory[i].run)
  /\ \A r \in Runs : \A i \in DOMAIN trimmed[r] : Trusted(trimmed[r][i].run)

StoreConfirmed ==
  /\ \A m \in bank : Confirmed(m.run)
  /\ \A v \in Reviewers : reviewing[v] # Idle => Confirmed(reviewing[v].record.run)

WritersTrusted ==
  \A r \in Runs :
    /\ phase[r] \in {"dedup", "create"} => Confirmed(r)
    /\ phase[r] = "save" => Trusted(r)

MemoryInv == ListTrusted /\ StoreConfirmed /\ WritersTrusted

\* A request whose result is final is past everything but its finalization.
LEMMA SettledFinalizes ==
  ASSUME TypeOK, NEW q \in Runs, Arrive(q) \/ Serve(q) \/ ConsumerLeaves(q),
         phase[q] \in Settled
  PROVE  /\ Finalize(q)
         /\ phase'[q] \in Settled
         /\ result' = result
<1>1. ~Arrive(q) /\ ~ConsumerLeaves(q)
  BY DEF Arrive, InputBlocked, InputPasses, ConsumerLeaves, Settled
<1>2. ~Recall(q)
  BY DEF Recall, RecallAnswered, RecallUnavailable, RecallLocal, Settled
<1>3. ~Investigate(q)
  BY DEF Investigate, NoQuery, GraphCompletes, GraphRaises, BuildSucceeds,
     BuildRaises, Settled
<1>4. Finalize(q) /\ ~Remember(q)
  BY <1>1, <1>2, <1>3 DEF Serve, Remember, Settled
<1>5. QED
  BY <1>4 DEF Finalize, DedupSkips, DedupFindsNone, Create, Save, Trim, Assign,
     Respond, TypeOK, Settled

\* Trust is for good, whoever takes the step.
LEMMA TrustKept ==
  ASSUME TypeOK, [Next]_vars, NEW r \in Runs, Trusted(r)
  PROVE  Trusted(r)' /\ result'[r] = result[r]
<1>1. phase'[r] \in Settled /\ result'[r] = result[r]
  <2>1. CASE \E q \in Runs : Arrive(q) \/ Serve(q) \/ ConsumerLeaves(q)
    <3>1. PICK q \in Runs : Arrive(q) \/ Serve(q) \/ ConsumerLeaves(q)
      BY <2>1
    <3>2. CASE q = r
      BY <3>1, <3>2, SettledFinalizes DEF Trusted
    <3>3. CASE q # r
      BY <3>1, <3>3, OthersKept DEF Trusted
    <3>4. QED
      BY <3>2, <3>3
  <2>2. CASE \E v \in Reviewers : Review(v) /\ UNCHANGED <<requestVars, memory>>
    BY <2>2 DEF Trusted
  <2>3. CASE Restart
    BY <2>3 DEF Restart, Trusted, Settled
  <2>4. CASE UNCHANGED vars
    BY <2>4 DEF vars, Trusted
  <2>5. QED
    BY <2>1, <2>2, <2>3, <2>4 DEF Next
<1>2. QED
  BY <1>1 DEF Trusted, Sound

\* The requests' steps that touch neither the list nor a slice of it.
LEMMA ListOnlyBy ==
  ASSUME TypeOK, NEW q \in Runs, Arrive(q) \/ Serve(q) \/ ConsumerLeaves(q),
         ~Save(q), ~Trim(q), ~Assign(q)
  PROVE  memory' = memory /\ trimmed' = trimmed
<1>1. CASE Arrive(q) \/ ConsumerLeaves(q)
  BY <1>1 DEF Arrive, InputBlocked, InputPasses, ConsumerLeaves
<1>2. CASE Recall(q)
  BY <1>2 DEF Recall, RecallAnswered, RecallUnavailable, RecallLocal
<1>3. CASE Investigate(q)
  BY <1>3 DEF Investigate, NoQuery, GraphCompletes, GraphRaises, BuildSucceeds,
     BuildRaises
<1>4. CASE Finalize(q)
  BY <1>4 DEF Finalize, Remember, DedupSkips, DedupFindsNone, Create, Respond
<1>5. QED
  BY <1>1, <1>2, <1>3, <1>4 DEF Serve

\* Runs in the list are runs.
LEMMA EntryRuns ==
  ASSUME TypeOK
  PROVE  /\ \A i \in DOMAIN memory : memory[i].run \in Runs
         /\ \A r \in Runs : \A i \in DOMAIN trimmed[r] : trimmed[r][i].run \in Runs
<1>1. \A list \in Seq(Entry) : \A i \in DOMAIN list : list[i] \in Entry
  OBVIOUS
<1>2. \A e \in Entry : e.run \in Runs
  BY DEF Entry
<1>3. memory \in Seq(Entry) /\ \A r \in Runs : trimmed[r] \in Seq(Entry)
  BY DEF TypeOK
<1>4. QED
  BY <1>1, <1>2, <1>3

LEMMA ListStep ==
  ASSUME TypeOK, MemoryInv, [Next]_vars
  PROVE  ListTrusted'
<1> DEFINE Good == {r \in Runs : Trusted(r)'}
           Kept == /\ \A i \in DOMAIN memory' : memory'[i].run \in Good
                   /\ \A r \in Runs : \A i \in DOMAIN trimmed'[r] :
                        trimmed'[r][i].run \in Good
<1> SUFFICES Kept
  BY DEF ListTrusted, Trusted, Sound
<1>1. \A r \in Runs : Trusted(r) => r \in Good
  BY TrustKept
<1>2. /\ \A i \in DOMAIN memory : memory[i].run \in Good
      /\ \A r \in Runs : \A i \in DOMAIN trimmed[r] : trimmed[r][i].run \in Good
  BY <1>1, EntryRuns DEF MemoryInv, ListTrusted
<1> HIDE DEF Good
<1>3. CASE memory' = memory /\ trimmed' = trimmed
  BY <1>2, <1>3
<1>4. ASSUME NEW q \in Runs, Save(q)
      PROVE  Kept
  <2>1. q \in Good
    BY <1>1, <1>4 DEF Save, MemoryInv, WritersTrusted
  <2>2. /\ memory' = Append(memory, [run |-> q, scope |-> Scope(q)])
        /\ memory \in Seq(Entry)
        /\ trimmed' = trimmed
    BY <1>4 DEF Save, TypeOK
  <2>3. \A i \in DOMAIN memory' : \/ i \in DOMAIN memory /\ memory'[i] = memory[i]
                                  \/ memory'[i].run = q
    BY <2>2
  <2>4. QED
    BY <1>2, <2>1, <2>2, <2>3
<1>5. ASSUME NEW q \in Runs, Trim(q)
      PROVE  Kept
  <2>1. memory' = memory
    BY <1>5 DEF Trim
  <2>2. CASE Len(memory) > MaxMemory
    <3>1. trimmed' = [trimmed EXCEPT ![q] = LastEntries(memory)]
      BY <1>5, <2>2 DEF Trim
    <3>2. \A i \in DOMAIN LastEntries(memory) : LastEntries(memory)[i].run \in Good
      BY <1>2, <2>2, LastEntriesType DEF TypeOK
    <3>3. QED
      BY <1>2, <2>1, <3>1, <3>2 DEF TypeOK
  <2>3. CASE ~(Len(memory) > MaxMemory)
    BY <1>2, <1>5, <2>3 DEF Trim
  <2>4. QED
    BY <2>2, <2>3
<1>6. ASSUME NEW q \in Runs, Assign(q)
      PROVE  Kept
  <2>1. memory' = trimmed[q] /\ trimmed' = [trimmed EXCEPT ![q] = << >>]
    BY <1>6 DEF Assign
  <2>2. QED
    BY <1>2, <2>1 DEF TypeOK
<1>7. CASE Restart
  BY <1>7 DEF Restart
<1>8. CASE \E q \in Runs : Arrive(q) \/ Serve(q) \/ ConsumerLeaves(q)
  BY <1>3, <1>4, <1>5, <1>6, <1>8, ListOnlyBy
<1>9. QED
  BY <1>3, <1>7, <1>8 DEF Next, vars

\* The store's own steps, without the requests.
StoreStep ==
  \/ \E r \in Runs : Create(r)
  \/ \E v \in Reviewers : Review(v)
  \/ UNCHANGED storeVars

LEMMA StoreOnlyBy == TypeOK /\ [Next]_vars => StoreStep
<1> SUFFICES ASSUME TypeOK, [Next]_vars PROVE StoreStep
  OBVIOUS
<1>1. ASSUME NEW q \in Runs, Arrive(q) \/ ConsumerLeaves(q)
      PROVE  UNCHANGED storeVars
  BY <1>1 DEF Arrive, InputBlocked, InputPasses, ConsumerLeaves
<1>2. ASSUME NEW q \in Runs, Recall(q)
      PROVE  UNCHANGED storeVars
  BY <1>2 DEF Recall, RecallAnswered, RecallUnavailable, RecallLocal
<1>3. ASSUME NEW q \in Runs, Investigate(q)
      PROVE  UNCHANGED storeVars
  BY <1>3 DEF Investigate, NoQuery, GraphCompletes, GraphRaises, BuildSucceeds,
     BuildRaises
<1>4. ASSUME NEW q \in Runs, Finalize(q)
      PROVE  Create(q) \/ UNCHANGED storeVars
  BY <1>4 DEF Finalize, Remember, DedupSkips, DedupFindsNone, Save, Trim,
     Assign, Respond
<1>5. CASE Restart
  BY <1>5 DEF Restart, StoreStep
<1>6. QED
  BY <1>1, <1>2, <1>3, <1>4, <1>5 DEF Next, Serve, StoreStep, vars

LEMMA ConfirmedStep ==
  ASSUME TypeOK, MemoryInv, [Next]_vars
  PROVE  StoreConfirmed'
<1> DEFINE Good == {r \in Runs : Confirmed(r)'}
           Kept == /\ \A m \in bank' : m.run \in Good
                   /\ \A v \in Reviewers :
                        reviewing'[v] # Idle => reviewing'[v].record.run \in Good
<1> SUFFICES Kept
  BY DEF StoreConfirmed, Confirmed, Trusted, Sound
<1>1. \A r \in Runs : Confirmed(r) => r \in Good
  BY TrustKept DEF Confirmed
<1>2. /\ \A m \in bank : m.run \in Runs
      /\ \A v \in Reviewers : reviewing[v] # Idle => reviewing[v].record.run \in Runs
  BY DEF TypeOK, StoreTypeOK, Command, Record, Idle
<1>3. /\ \A m \in bank : m.run \in Good
      /\ \A v \in Reviewers : reviewing[v] # Idle => reviewing[v].record.run \in Good
  BY <1>1, <1>2 DEF MemoryInv, StoreConfirmed
<1> HIDE DEF Good
<1>4. ASSUME NEW r \in Runs, Create(r)
      PROVE  Kept
  <2>1. r \in Good
    BY <1>1, <1>4 DEF Create, MemoryInv, WritersTrusted
  <2>2. reviewing' = reviewing
        /\ \A m \in bank' : m \in bank \/ m.run = r
    BY <1>4 DEF Create, Created
  <2>3. QED
    BY <1>3, <2>1, <2>2
<1>5. ASSUME NEW v \in Reviewers, Review(v)
      PROVE  Kept
  <2>1. CASE ReviewGet(v)
    BY <1>3, <2>1 DEF ReviewGet, TypeOK, StoreTypeOK
  <2>2. CASE ReviewDelete(v)
    <3>1. reviewing[v] # Idle /\ bank' \subseteq bank
      BY <2>2 DEF ReviewDelete, Idle
    <3>2. reviewing'[v] # Idle => reviewing'[v].record = reviewing[v].record
      BY <2>2, <3>1 DEF ReviewDelete, TypeOK, StoreTypeOK, Command, Idle
    <3>3. \A w \in Reviewers \ {v} : reviewing'[w] = reviewing[w]
      BY <2>2 DEF ReviewDelete, TypeOK, StoreTypeOK
    <3>4. QED
      BY <1>3, <3>1, <3>2, <3>3
  <2>3. CASE ReviewCreate(v)
    <3>1. reviewing[v] # Idle
      BY <2>3 DEF ReviewCreate, Idle
    <3>2. \A m \in bank' : m \in bank \/ m.run = reviewing[v].record.run
      BY <2>3 DEF ReviewCreate, Created
    <3>3. \A w \in Reviewers : reviewing'[w] = Idle \/ reviewing'[w] = reviewing[w]
      BY <2>3 DEF ReviewCreate, TypeOK, StoreTypeOK
    <3>4. QED
      BY <1>3, <3>1, <3>2, <3>3
  <2>4. CASE ReviewFails(v)
    BY <1>3, <2>4 DEF ReviewFails, TypeOK, StoreTypeOK
  <2>5. QED
    BY <1>5, <2>1, <2>2, <2>3, <2>4 DEF Review
<1>6. CASE UNCHANGED storeVars
  BY <1>3, <1>6
<1>7. QED
  BY <1>4, <1>5, <1>6, StoreOnlyBy DEF StoreStep

\* The gate is the only way to a write, and it lets sound results pass.
LEMMA WritersStep ==
  ASSUME TypeOK, TerminalInv, MemoryInv, [Next]_vars
  PROVE  WritersTrusted'
<1> SUFFICES ASSUME NEW r \in Runs
             PROVE  /\ phase'[r] \in {"dedup", "create"} => Confirmed(r)'
                    /\ phase'[r] = "save" => Trusted(r)'
  BY DEF WritersTrusted, Confirmed, Trusted, Sound
<1>1. CASE phase'[r] = phase[r]
  <2>1. /\ Trusted(r) => Trusted(r)'
        /\ Confirmed(r) => Confirmed(r)'
    BY TrustKept DEF Confirmed
  <2>2. QED
    BY <1>1, <2>1 DEF MemoryInv, WritersTrusted
<1>2. ASSUME Arrive(r) \/ ConsumerLeaves(r) \/ Recall(r) \/ Investigate(r)
      PROVE  phase'[r] \notin {"dedup", "create", "save"}
  BY <1>2 DEF Arrive, InputBlocked, InputPasses, ConsumerLeaves, Recall,
     RecallAnswered, RecallUnavailable, RecallLocal, Investigate, NoQuery,
     GraphCompletes, GraphRaises, BuildSucceeds, BuildRaises, TypeOK
<1>3. CASE Remember(r)
  <2>1. result' = result /\ result[r] \in Results \cup {None}
    BY <1>3 DEF Remember, TypeOK
  <2>2. CASE ~Rememberable(result[r])
    BY <1>3, <2>2 DEF Remember, TypeOK
  <2>3. CASE Rememberable(result[r])
    <3>1. phase[r] = "remember"
      BY <1>3 DEF Remember
    <3>2. /\ phase'[r] \in {"dedup", "save"}
          /\ phase'[r] = "dedup" => result[r].band = "auto"
      BY <1>3, <2>3 DEF Remember, TypeOK
    <3>3. Sound(r)
      BY <2>1, <2>3, <3>1
      DEF TerminalInv, Logged, Finishing, Rememberable, Sound, Results,
          GraphResults, Failed
    <3>4. QED
      BY <2>1, <3>2, <3>3, Zenon DEF Trusted, Confirmed, Sound, Settled
  <2>4. QED
    BY <2>2, <2>3
<1>4. CASE DedupSkips(r) \/ DedupFindsNone(r) \/ Create(r)
  <2>1. Confirmed(r)
    BY <1>4 DEF DedupSkips, DedupFindsNone, Create, MemoryInv, WritersTrusted
  <2>2. Confirmed(r)'
    BY <2>1, TrustKept DEF Confirmed
  <2>3. QED
    BY <2>2 DEF Confirmed
<1>5. ASSUME Save(r) \/ Trim(r) \/ Assign(r) \/ Respond(r)
      PROVE  phase'[r] \notin {"dedup", "create", "save"}
  BY <1>5 DEF Save, Trim, Assign, Respond, TypeOK
<1>6. ASSUME NEW q \in Runs, q # r, Arrive(q) \/ Serve(q) \/ ConsumerLeaves(q)
      PROVE  phase'[r] = phase[r]
  BY <1>6, OthersKept
<1>7. CASE \E q \in Runs : Arrive(q) \/ Serve(q) \/ ConsumerLeaves(q)
  BY <1>1, <1>2, <1>3, <1>4, <1>5, <1>6, <1>7 DEF Serve, Finalize
<1>8. CASE Restart
  BY <1>1, <1>8 DEF Restart
<1>9. QED
  BY <1>1, <1>7, <1>8 DEF Next, vars

LEMMA MemoryInit == Init => MemoryInv
  BY DEF Init, StoreInit, MemoryInv, ListTrusted, StoreConfirmed, WritersTrusted,
         Idle

LEMMA MemoryInvariant == Spec => [](TypeOK /\ MemoryInv)
<1>1. Init => MemoryInv
  BY MemoryInit
<1>2. TypeOK /\ TerminalInv /\ MemoryInv /\ [Next]_vars => MemoryInv'
  BY ListStep, ConfirmedStep, WritersStep DEF MemoryInv
<1>3. QED
  BY <1>1, <1>2, TerminalInvariant, PTL DEF Spec

\* Nothing unsound becomes context of a later run, by any path.
THEOREM MemorySound == Spec => []OnlySoundRunsRemembered
<1>1. MemoryInv => OnlySoundRunsRemembered
  BY DEF MemoryInv, ListTrusted, StoreConfirmed, Trusted, Confirmed,
         OnlySoundRunsRemembered
<1>2. QED
  BY <1>1, MemoryInvariant, PTL

-----------------------------------------------------------------------------
(* One record per run.  Names are never reused, so a command that deletes  *)
(* by name deletes the record it has fetched or nothing; and a run writes  *)
(* only once, so the record a reviewer creates is the only one of its run. *)

\* A request in one of these phases may have written its record.
Written == {"save", "trim", "assign", "sanitize", "done", "dropped"}

NamesFresh ==
  /\ \A m \in bank : m.name < names
  /\ \A m1, m2 \in bank : m1.name = m2.name => m1 = m2
  /\ \A v \in Reviewers : reviewing[v] # Idle =>
       /\ reviewing[v].record.name < names
       /\ \A m \in bank :
            m.name = reviewing[v].record.name => m = reviewing[v].record

WrittenOnce ==
  \A r \in Runs : phase[r] \notin Written =>
    /\ \A m \in bank : m.run # r
    /\ \A v \in Reviewers : reviewing[v] # Idle => reviewing[v].record.run # r

RecordsInv == NamesFresh /\ WrittenOnce /\ OneRecordPerRun

\* The facts about types the proofs of this section read.
LEMMA StoreTypes ==
  ASSUME TypeOK
  PROVE  /\ names \in Nat
         /\ \A m \in bank : m.name \in Nat /\ m.run \in Runs
         /\ \A v \in Reviewers : reviewing[v] # Idle =>
              /\ reviewing[v].record \in Record
              /\ reviewing[v].record.name \in Nat
              /\ reviewing[v].record.run \in Runs
         /\ \A v \in Reviewers : reviewing[v].phase = "deleted" => reviewing[v] # Idle
  BY DEF TypeOK, StoreTypeOK, Command, Record, Idle

LEMMA CreateKeepsRecords ==
  ASSUME TypeOK, RecordsInv, NEW r \in Runs, Create(r)
  PROVE  NamesFresh' /\ OneRecordPerRun'
<1>1. CASE UNCHANGED storeVars
  BY <1>1 DEF RecordsInv, NamesFresh, OneRecordPerRun
<1>2. ASSUME Created(r, Scope(r), payload[r].incident, "pending_review"),
             UNCHANGED <<reviews, reviewing>>
      PROVE  NamesFresh' /\ OneRecordPerRun'
  <2> DEFINE new == [name |-> names, run |-> r, scope |-> Scope(r),
                     incident |-> payload[r].incident,
                     status |-> "pending_review"]
  <2>1. /\ bank' = bank \cup {new} /\ names' = names + 1
        /\ reviewing' = reviewing
    BY <1>2 DEF Created
  <2>2. /\ \A m \in bank : m.run # r
        /\ \A v \in Reviewers : reviewing[v] # Idle => reviewing[v].record.run # r
    BY DEF RecordsInv, WrittenOnce, Create, Written
  <2>3. new.name = names /\ new.run = r
    OBVIOUS
  <2> HIDE DEF new
  <2>4. NamesFresh'
    BY <2>1, <2>3, StoreTypes DEF RecordsInv, NamesFresh
  <2>5. OneRecordPerRun'
    BY <2>1, <2>2, <2>3, StoreTypes DEF RecordsInv, OneRecordPerRun
  <2>6. QED
    BY <2>4, <2>5
<1>3. QED
  BY <1>1, <1>2 DEF Create

LEMMA ReviewKeepsRecords ==
  ASSUME TypeOK, RecordsInv, NEW v \in Reviewers, Review(v)
  PROVE  NamesFresh' /\ OneRecordPerRun'
<1>1. /\ reviewing \in [Reviewers -> Command]
      /\ Idle.phase = "idle"
  BY DEF TypeOK, StoreTypeOK, Idle
<1>2. CASE ReviewGet(v)
  <2>1. PICK m \in bank, verdict \in Verdicts :
          reviewing' = [reviewing EXCEPT ![v] =
            [phase |-> "fetched", record |-> m, verdict |-> verdict]]
    BY <1>2 DEF ReviewGet
  <2>2. bank' = bank /\ names' = names
    BY <1>2 DEF ReviewGet
  <2>3. NamesFresh'
    BY <1>1, <2>1, <2>2, StoreTypes DEF RecordsInv, NamesFresh
  <2>4. OneRecordPerRun'
    BY <1>1, <2>1, <2>2 DEF RecordsInv, OneRecordPerRun
  <2>5. QED
    BY <2>3, <2>4
<1>3. CASE ReviewDelete(v)
  <2>1. /\ reviewing[v].phase = "fetched" /\ reviewing[v] # Idle
        /\ bank' = {m \in bank : m.name # reviewing[v].record.name}
        /\ names' = names
    BY <1>3 DEF ReviewDelete, Idle
  <2>2. CASE bank' = bank
    <3>1. reviewing' = [reviewing EXCEPT ![v] = Idle]
      BY <1>3, <2>2 DEF ReviewDelete
    <3>2. QED
      BY <1>1, <2>1, <2>2, <3>1 DEF RecordsInv, NamesFresh, OneRecordPerRun
  <2>3. CASE bank' # bank
    <3>1. PICK d \in Command : /\ reviewing' = [reviewing EXCEPT ![v] = d]
                               /\ d.phase = "deleted"
                               /\ d.record = reviewing[v].record
      <4>1. reviewing' = [reviewing EXCEPT ![v].phase = "deleted"]
        BY <1>3, <2>3 DEF ReviewDelete
      <4>2. [reviewing[v] EXCEPT !.phase = "deleted"] \in Command
        BY <1>1, <2>1 DEF Command, Idle
      <4>3. QED
        BY <1>1, <2>1, <4>1, <4>2 DEF Command, Idle
    <3>2. reviewing[v].record \in bank
      BY <2>1, <2>3 DEF RecordsInv, NamesFresh
    <3>3. NamesFresh'
      BY <1>1, <2>1, <3>1 DEF RecordsInv, NamesFresh
    <3>4. \A m \in bank' : m.run # reviewing[v].record.run
      BY <2>1, <3>2 DEF RecordsInv, OneRecordPerRun
    <3>5. \A w \in Reviewers \ {v} : reviewing[w].phase = "deleted" =>
            reviewing[w].record.run # reviewing[v].record.run
      BY <3>2 DEF RecordsInv, OneRecordPerRun
    <3>6. OneRecordPerRun'
      BY <1>1, <2>1, <3>1, <3>4, <3>5 DEF RecordsInv, OneRecordPerRun
    <3>7. QED
      BY <3>3, <3>6
  <2>4. QED
    BY <2>2, <2>3
<1>4. CASE ReviewCreate(v)
  <2> DEFINE old == reviewing[v].record
             new == [name |-> names, run |-> old.run, scope |-> old.scope,
                     incident |-> old.incident, status |-> reviewing[v].verdict]
  <2>1. /\ reviewing[v].phase = "deleted" /\ reviewing[v] # Idle
        /\ bank' = bank \cup {new} /\ names' = names + 1
        /\ reviewing' = [reviewing EXCEPT ![v] = Idle]
    BY <1>4 DEF ReviewCreate, Created, Idle
  <2>2. new.name = names /\ new.run = old.run
    OBVIOUS
  <2> HIDE DEF new
  <2>3. NamesFresh'
    BY <1>1, <2>1, <2>2, StoreTypes DEF RecordsInv, NamesFresh
  <2>4. OneRecordPerRun'
    BY <1>1, <2>1, <2>2 DEF RecordsInv, OneRecordPerRun
  <2>5. QED
    BY <2>3, <2>4
<1>5. CASE ReviewFails(v)
  BY <1>1, <1>5 DEF ReviewFails, RecordsInv, NamesFresh, OneRecordPerRun
<1>6. QED
  BY <1>2, <1>3, <1>4, <1>5 DEF Review

\* A request that may have written is never again one that has not.
LEMMA WrittenForGood ==
  ASSUME TypeOK, [Next]_vars, NEW r \in Runs, phase'[r] \notin Written
  PROVE  phase[r] \notin Written
<1>1. ASSUME NEW q \in Runs, Arrive(q) \/ Serve(q) \/ ConsumerLeaves(q), q # r
      PROVE  phase'[r] = phase[r]
  BY <1>1, OthersKept
<1>2. CASE Arrive(r) \/ ConsumerLeaves(r)
  BY <1>2 DEF Arrive, InputBlocked, InputPasses, ConsumerLeaves, Written
<1>3. CASE Recall(r)
  BY <1>3 DEF Recall, RecallAnswered, RecallUnavailable, RecallLocal, Written
<1>4. CASE Investigate(r)
  BY <1>4 DEF Investigate, NoQuery, GraphCompletes, GraphRaises, BuildSucceeds,
     BuildRaises, Written
<1>5. CASE Finalize(r)
  BY <1>5 DEF Finalize, Remember, DedupSkips, DedupFindsNone, Create, Save,
     Trim, Assign, Respond, TypeOK, Written
<1>6. CASE \E q \in Runs : Arrive(q) \/ Serve(q) \/ ConsumerLeaves(q)
  BY <1>1, <1>2, <1>3, <1>4, <1>5, <1>6 DEF Serve
<1>7. CASE Restart
  BY <1>7 DEF Restart, Written, TypeOK
<1>8. QED
  BY <1>6, <1>7 DEF Next, vars

LEMMA WrittenOnceStep ==
  ASSUME TypeOK, RecordsInv, [Next]_vars
  PROVE  WrittenOnce'
<1> SUFFICES ASSUME NEW r \in Runs, phase'[r] \notin Written
             PROVE  /\ \A m \in bank' : m.run # r
                    /\ \A v \in Reviewers :
                         reviewing'[v] # Idle => reviewing'[v].record.run # r
  BY DEF WrittenOnce
<1>1. /\ \A m \in bank : m.run # r
      /\ \A v \in Reviewers : reviewing[v] # Idle => reviewing[v].record.run # r
  BY WrittenForGood DEF RecordsInv, WrittenOnce
<1>2. ASSUME NEW q \in Runs, Create(q)
      PROVE  /\ \A m \in bank' : m.run # r
             /\ reviewing' = reviewing
  <2>1. q # r
    BY <1>2 DEF Create, TypeOK, Written
  <2>2. reviewing' = reviewing /\ \A m \in bank' : m \in bank \/ m.run = q
    BY <1>2 DEF Create, Created
  <2>3. QED
    BY <1>1, <2>1, <2>2
<1>3. ASSUME NEW v \in Reviewers, Review(v)
      PROVE  /\ \A m \in bank' : m.run # r
             /\ \A w \in Reviewers : reviewing'[w] # Idle => reviewing'[w].record.run # r
  <2>1. reviewing \in [Reviewers -> Command]
    BY DEF TypeOK, StoreTypeOK
  <2>2. CASE ReviewGet(v)
    BY <1>1, <2>1, <2>2 DEF ReviewGet
  <2>3. CASE ReviewDelete(v)
    <3>1. reviewing[v] # Idle /\ bank' \subseteq bank
      BY <2>3 DEF ReviewDelete, Idle
    <3>2. reviewing'[v] # Idle => reviewing'[v].record = reviewing[v].record
      BY <2>1, <2>3, <3>1 DEF ReviewDelete, Command, Idle
    <3>3. \A w \in Reviewers \ {v} : reviewing'[w] = reviewing[w]
      BY <2>1, <2>3 DEF ReviewDelete
    <3>4. QED
      BY <1>1, <3>1, <3>2, <3>3
  <2>4. CASE ReviewCreate(v)
    <3>1. reviewing[v] # Idle
      BY <2>4 DEF ReviewCreate, Idle
    <3>2. \A m \in bank' : m \in bank \/ m.run = reviewing[v].record.run
      BY <2>4 DEF ReviewCreate, Created
    <3>3. \A w \in Reviewers : reviewing'[w] = Idle \/ reviewing'[w] = reviewing[w]
      BY <2>1, <2>4 DEF ReviewCreate
    <3>4. QED
      BY <1>1, <3>1, <3>2, <3>3
  <2>5. CASE ReviewFails(v)
    BY <1>1, <2>1, <2>5 DEF ReviewFails
  <2>6. QED
    BY <1>3, <2>2, <2>3, <2>4, <2>5 DEF Review
<1>4. QED
  BY <1>1, <1>2, <1>3, StoreOnlyBy DEF StoreStep

LEMMA RecordsStep ==
  ASSUME TypeOK, RecordsInv, [Next]_vars
  PROVE  RecordsInv'
<1>1. UNCHANGED storeVars => NamesFresh' /\ OneRecordPerRun'
  BY DEF RecordsInv, NamesFresh, OneRecordPerRun
<1>2. NamesFresh' /\ OneRecordPerRun'
  BY <1>1, StoreOnlyBy, CreateKeepsRecords, ReviewKeepsRecords
  DEF StoreStep
<1>3. QED
  BY <1>2, WrittenOnceStep DEF RecordsInv

LEMMA RecordsInvariant == Spec => [](TypeOK /\ RecordsInv)
<1>1. Init => TypeOK /\ RecordsInv
  BY TypeInit
  DEF Init, StoreInit, RecordsInv, NamesFresh, WrittenOnce, OneRecordPerRun, Idle
<1>2. TypeOK /\ RecordsInv /\ [Next]_vars => (TypeOK /\ RecordsInv)'
  BY TypeStep, RecordsStep
<1>3. QED
  BY <1>1, <1>2, PTL DEF Spec

\* A run keeps at most one record through any reviews, and so one verdict.
THEOREM RecordUnique == Spec => []OneRecordPerRun
<1>1. RecordsInv => OneRecordPerRun
  BY DEF RecordsInv
<1>2. QED
  BY <1>1, RecordsInvariant, PTL

-----------------------------------------------------------------------------
(* The shared list's size.                                                 *)

Trimming == {r \in Runs : phase[r] \in {"trim", "assign"}}

SlicesCapped == \A r \in Runs : phase[r] = "assign" => Len(trimmed[r]) = MaxMemory

SizeInv == MemoryBounded /\ SlicesCapped

\* A request outside _save_memory changes neither list nor slices, and is not
\* among those that trim before or after the step.
LEMMA OutsideSave ==
  ASSUME TypeOK, NEW q \in Runs, Arrive(q) \/ Serve(q) \/ ConsumerLeaves(q),
         ~Save(q), ~Trim(q), ~Assign(q)
  PROVE  phase[q] \notin {"trim", "assign"} /\ phase'[q] \notin {"trim", "assign"}
<1>1. CASE Arrive(q) \/ ConsumerLeaves(q)
  BY <1>1 DEF Arrive, InputBlocked, InputPasses, ConsumerLeaves, TypeOK
<1>2. CASE Recall(q)
  BY <1>2 DEF Recall, RecallAnswered, RecallUnavailable, RecallLocal, TypeOK
<1>3. CASE Investigate(q)
  BY <1>3 DEF Investigate, NoQuery, GraphCompletes, GraphRaises, BuildSucceeds,
     BuildRaises, TypeOK
<1>4. CASE Finalize(q)
  BY <1>4 DEF Finalize, Remember, DedupSkips, DedupFindsNone, Create, Respond,
     TypeOK
<1>5. QED
  BY <1>1, <1>2, <1>3, <1>4 DEF Serve

LEMMA TrimmingFinite ==
  IsFiniteSet(Trimming) /\ Cardinality(Trimming) \in Nat
<1>1. IsFiniteSet(Trimming)
  BY MemoryAssumption, FS_Subset DEF Trimming
<1>2. QED
  BY <1>1, FS_CardinalityType

LEMMA SizeStep ==
  ASSUME TypeOK, SizeInv, [Next]_vars
  PROVE  SizeInv'
<1>1. /\ IsFiniteSet(Trimming) /\ Cardinality(Trimming) \in Nat
      /\ IsFiniteSet(Trimming') /\ Cardinality(Trimming') \in Nat
  <2>1. IsFiniteSet(Trimming')
    BY MemoryAssumption, FS_Subset DEF Trimming
  <2>2. QED
    BY <2>1, TrimmingFinite, FS_CardinalityType
<1>2. /\ MemoryBounded <=> Len(memory) <= MaxMemory + Cardinality(Trimming)
      /\ MemoryBounded' <=> Len(memory') <= MaxMemory + Cardinality(Trimming')
  BY DEF MemoryBounded, Trimming
<1>3. MaxMemory \in Nat /\ memory \in Seq(Entry) /\ Len(memory) \in Nat
  BY MemoryAssumption DEF TypeOK
<1>4. CASE UNCHANGED <<phase, memory, trimmed>>
  BY <1>2, <1>4 DEF SizeInv, SlicesCapped, Trimming
<1>5. CASE Restart
  BY <1>1, <1>2, <1>3, <1>5 DEF Restart, SizeInv, SlicesCapped, TypeOK, Active, Phases
<1>6. ASSUME NEW q \in Runs, Save(q)
      PROVE  SizeInv'
  <2>1. /\ q \notin Trimming /\ Trimming' = Trimming \cup {q}
        /\ Len(memory') = Len(memory) + 1
        /\ SlicesCapped'
    BY <1>3, <1>6 DEF Save, Trimming, SizeInv, SlicesCapped, TypeOK
  <2>2. Cardinality(Trimming') = Cardinality(Trimming) + 1
    BY <1>1, <2>1, FS_AddElement
  <2>3. QED
    BY <1>1, <1>2, <1>3, <2>1, <2>2 DEF SizeInv
<1>7. ASSUME NEW q \in Runs, Trim(q)
      PROVE  SizeInv'
  <2>1. memory' = memory
    BY <1>7 DEF Trim
  <2>2. CASE Len(memory) > MaxMemory
    <3>1. Len(LastEntries(memory)) = MaxMemory
      BY <1>3, <2>2, LastEntriesType
    <3>2. Trimming' = Trimming /\ SlicesCapped'
      BY <1>7, <2>2, <3>1 DEF Trim, Trimming, SizeInv, SlicesCapped, TypeOK
    <3>3. QED
      BY <1>2, <2>1, <3>2 DEF SizeInv
  <2>3. CASE ~(Len(memory) > MaxMemory)
    <3>1. SlicesCapped'
      BY <1>7, <2>3 DEF Trim, SizeInv, SlicesCapped, TypeOK
    <3>2. QED
      BY <1>1, <1>2, <1>3, <2>1, <2>3, <3>1 DEF SizeInv
  <2>4. QED
    BY <2>2, <2>3
<1>8. ASSUME NEW q \in Runs, Assign(q)
      PROVE  SizeInv'
  <2>1. Len(memory') = MaxMemory /\ SlicesCapped'
    BY <1>8 DEF Assign, SizeInv, SlicesCapped, TypeOK
  <2>2. QED
    BY <1>1, <1>2, <1>3, <2>1 DEF SizeInv
<1>9. ASSUME NEW q \in Runs, Arrive(q) \/ Serve(q) \/ ConsumerLeaves(q),
             ~Save(q), ~Trim(q), ~Assign(q)
      PROVE  SizeInv'
  <2>1. memory' = memory /\ trimmed' = trimmed
    BY <1>9, ListOnlyBy
  <2>2. \A r \in Runs \ {q} : phase'[r] = phase[r]
    BY <1>9, OthersKept
  <2>3. Trimming' = Trimming /\ SlicesCapped'
    BY <1>9, <2>1, <2>2, OutsideSave DEF Trimming, SizeInv, SlicesCapped
  <2>4. QED
    BY <1>2, <2>1, <2>3 DEF SizeInv
<1>10. QED
  BY <1>4, <1>5, <1>6, <1>7, <1>8, <1>9 DEF Next, vars

\* The shared list outgrows its cap by no more than the requests that trim.
THEOREM ListBounded == Spec => []MemoryBounded
<1>1. Init => SizeInv
  BY MemoryAssumption, TrimmingFinite
  DEF Init, SizeInv, MemoryBounded, SlicesCapped, Trimming
<1>2. TypeOK /\ SizeInv /\ [Next]_vars => SizeInv'
  BY SizeStep
<1>3. SizeInv => MemoryBounded
  BY DEF SizeInv
<1>4. QED
  BY <1>1, <1>2, <1>3, LifecycleTypes, PTL DEF Spec

-----------------------------------------------------------------------------
(* What recall puts into a prompt.                                         *)

\* A request is told nothing before its recall, and the in-process list is
\* read only after Memory Bank answered "nothing".
RecalledOnce ==
  \A r \in Runs :
    /\ phase[r] \in {"new", "recall"} => context[r] = NoContext
    /\ phase[r] = "recall_local" => context[r] = [answer |-> "empty", of |-> {}]

LEMMA RecalledOnceStep ==
  ASSUME TypeOK, RecalledOnce, [Next]_vars
  PROVE  RecalledOnce'
<1> SUFFICES ASSUME NEW r \in Runs
             PROVE  /\ phase'[r] \in {"new", "recall"} => context'[r] = NoContext
                    /\ phase'[r] = "recall_local" =>
                         context'[r] = [answer |-> "empty", of |-> {}]
  BY DEF RecalledOnce
<1>1. ASSUME NEW q \in Runs, Arrive(q) \/ Serve(q) \/ ConsumerLeaves(q), q # r
      PROVE  phase'[r] = phase[r] /\ context'[r] = context[r]
  BY <1>1, OthersKept
<1>2. CASE RecallAnswered(r)
  BY <1>2 DEF RecallAnswered, TypeOK
<1>3. CASE Arrive(r)
  BY <1>3 DEF Arrive, InputBlocked, InputPasses, TypeOK, RecalledOnce
<1>4. ASSUME ConsumerLeaves(r) \/ Investigate(r)
      PROVE  phase'[r] \notin {"new", "recall", "recall_local"}
  BY <1>4 DEF ConsumerLeaves, Investigate, NoQuery, GraphCompletes, GraphRaises,
     BuildSucceeds, BuildRaises, TypeOK
<1>5. ASSUME Finalize(r) \/ RecallUnavailable(r) \/ RecallLocal(r)
      PROVE  phase'[r] \notin {"new", "recall", "recall_local"}
  BY <1>5 DEF RecallUnavailable, RecallLocal, Finalize, Remember, DedupSkips,
     DedupFindsNone, Create, Save, Trim, Assign, Respond, TypeOK
<1>6. CASE \E q \in Runs : Arrive(q) \/ Serve(q) \/ ConsumerLeaves(q)
  BY <1>1, <1>2, <1>3, <1>4, <1>5, <1>6 DEF Serve, Recall, RecalledOnce
<1>7. CASE Restart
  BY <1>7 DEF Restart, TypeOK, RecalledOnce
<1>8. QED
  BY <1>6, <1>7 DEF Next, vars, RecalledOnce

LEMMA RecalledOnceInvariant == Spec => []RecalledOnce
<1>1. Init => RecalledOnce
  BY DEF Init, RecalledOnce
<1>2. TypeOK /\ RecalledOnce /\ [Next]_vars => RecalledOnce'
  BY RecalledOnceStep
<1>3. QED
  BY <1>1, <1>2, LifecycleTypes, PTL DEF Spec

\* The conditions on one request's new context.
Vouched(r) ==
  context'[r] # context[r] /\ context'[r].answer = "approved" =>
    \A o \in context'[r].of :
      /\ \E m \in bank : /\ m.run = o
                         /\ m.status = "approved"
                         /\ m.scope = Scope(r)
      /\ o # r
      /\ result[o].band = "auto"

LEMMA ContextVouched ==
  ASSUME TypeOK, RecalledOnce, MemoryInv, RecordsInv, [Next]_vars,
         NEW r \in Runs
  PROVE  Vouched(r)
<1>1. ASSUME NEW q \in Runs, Arrive(q) \/ Serve(q) \/ ConsumerLeaves(q), q # r
      PROVE  context'[r] = context[r]
  BY <1>1, OthersKept
<1>2. CASE RecallAnswered(r)
  <2>1. CASE Retrieve(Scope(r)) = {}
    BY <1>2, <2>1 DEF RecallAnswered, Vouched, TypeOK
  <2>2. CASE Retrieve(Scope(r)) # {}
    <3>1. PICK s \in FirstOf({m.run : m \in Recallable(Scope(r))}) :
            context' = [context EXCEPT ![r] =
              [answer |-> IF Recallable(Scope(r)) = {} THEN "unapproved"
                          ELSE "approved",
               of |-> s]]
      BY <1>2, <2>2 DEF RecallAnswered
    <3>2. context'[r].of = s
      BY <3>1 DEF TypeOK
    <3>3. \A o \in s : \E m \in bank : /\ m.run = o
                                       /\ m.status = "approved"
                                       /\ m.scope = Scope(r)
      BY DEF FirstOf, Recallable, Retrieve
    <3>4. \A m \in bank : m.run # r
      BY <1>2 DEF RecallAnswered, RecordsInv, WrittenOnce, Written
    <3>5. \A m \in bank : result[m.run].band = "auto"
      BY DEF MemoryInv, StoreConfirmed, Confirmed
    <3>6. QED
      BY <3>2, <3>3, <3>4, <3>5 DEF Vouched
  <2>3. QED
    BY <2>1, <2>2
<1>3. CASE RecallUnavailable(r)
  BY <1>3 DEF RecallUnavailable, Vouched, TypeOK
<1>4. CASE RecallLocal(r)
  BY <1>4 DEF RecallLocal, RecalledOnce, Vouched, TypeOK, Context
<1>5. CASE Arrive(r) \/ ConsumerLeaves(r) \/ Investigate(r)
  BY <1>5 DEF Arrive, InputBlocked, InputPasses, ConsumerLeaves, Investigate,
     NoQuery, GraphCompletes, GraphRaises, BuildSucceeds, BuildRaises, Vouched
<1>6. CASE Finalize(r)
  BY <1>6 DEF Finalize, Remember, DedupSkips, DedupFindsNone, Create, Save,
     Trim, Assign, Respond, Vouched
<1>7. CASE \E q \in Runs : Arrive(q) \/ Serve(q) \/ ConsumerLeaves(q)
  BY <1>1, <1>2, <1>3, <1>4, <1>5, <1>6, <1>7 DEF Serve, Recall, Vouched
<1>8. CASE Restart
  BY <1>8 DEF Restart, Vouched
<1>9. QED
  BY <1>7, <1>8 DEF Next, vars, Vouched

\* Recalled records are approved, of the scope asked about, and of an earlier
\* run whose conclusion was confirmed.
THEOREM ContextTrusted == Spec => TrustedContext
<1>1. TypeOK /\ RecalledOnce /\ MemoryInv /\ RecordsInv /\ [Next]_vars =>
        [\A r \in Runs : Vouched(r)]_vars
  BY ContextVouched
<1>2. Spec => [][\A r \in Runs : Vouched(r)]_vars
  BY <1>1, LifecycleTypes, RecalledOnceInvariant, MemoryInvariant,
     RecordsInvariant, PTL DEF Spec
<1>3. QED
  BY <1>2 DEF TrustedContext, Vouched

-----------------------------------------------------------------------------
(* How many runs the list shows: those of at most MaxRecalled positions.   *)

LEMMA LeastPosition ==
  ASSUME NEW S \in SUBSET Nat, S # {}
  PROVE  \E i \in S : \A j \in S : i <= j
<1> DEFINE R == OpToRel(<, Nat)
<1>1. IsWellFoundedOn(R, Nat) /\ \A x, y \in Nat : x < y => <<x, y>> \in R
  BY NatLessThanWellFounded DEF OpToRel
<1> HIDE DEF R
<1>2. PICK i \in S : \A j \in S : ~ (<<j, i>> \in R)
  <2>1. S \subseteq Nat
    OBVIOUS
  <2>2. IsWellFoundedOn(R, Nat)
    BY <1>1
  <2>3. QED
    BY <2>1, <2>2, WFMin, Zenon
<1>3. \A j \in S : ~ (j < i)
  BY <1>1, <1>2, Zenon
<1>4. QED
  BY <1>3

\* Fewer than n members of a finite set of positions lie above each of those
\* that the slice [-n:] takes, so it takes n at most.
LEMMA LastFew ==
  ASSUME NEW F \in SUBSET Nat, IsFiniteSet(F), NEW n \in Nat
  PROVE  LET T == {j \in F : Cardinality({k \in F : k > j}) < n}
         IN  IsFiniteSet(T) /\ Cardinality(T) <= n
<1> DEFINE Above(j) == {k \in F : k > j}
           T == {j \in F : Cardinality(Above(j)) < n}
<1>1. T \in SUBSET F /\ IsFiniteSet(T)
  BY FS_Subset
<1>2. CASE T = {}
  <2> HIDE DEF T
  <2>1. Cardinality(T) = 0
    BY <1>2, FS_EmptySet
  <2>2. Cardinality(T) <= n
    BY <2>1
  <2>3. QED
    BY <1>1, <2>2 DEF T
<1>3. CASE T # {}
  <2>1. PICK t \in T : \A j \in T : t <= j
    BY <1>1, <1>3, LeastPosition
  <2>2. T \ {t} \in SUBSET Above(t)
    <3>1. T \subseteq Nat /\ T \subseteq F
      OBVIOUS
    <3> HIDE DEF T
    <3>2. \A j \in T \ {t} : j > t
      BY <2>1, <3>1
    <3>3. QED
      BY <3>1, <3>2
  <2>3. IsFiniteSet(Above(t)) /\ Cardinality(Above(t)) < n
    BY <2>1, FS_Subset
  <2> HIDE DEF T, Above
  <2>4. /\ Cardinality(T \ {t}) <= Cardinality(Above(t))
        /\ Cardinality(T \ {t}) = Cardinality(T) - 1
    BY <1>1, <2>1, <2>2, <2>3, FS_Subset, FS_RemoveElement
  <2>5. Cardinality(T) \in Nat /\ Cardinality(Above(t)) \in Nat
    BY <1>1, <2>3, FS_CardinalityType
  <2>6. Cardinality(T) <= n
    BY <2>3, <2>4, <2>5
  <2>7. QED
    BY <1>1, <2>6 DEF T, Above
<1>4. QED
  BY <1>2, <1>3

LEMMA LocalRunsFew ==
  ASSUME TypeOK, NEW scope
  PROVE  Cardinality(LocalRuns(scope)) <= MaxRecalled
<1> DEFINE F == Relevant(scope)
           T == {j \in F : Cardinality({k \in F : k > j}) < MaxRecalled}
           L == LocalRuns(scope)
           f == [i \in T |-> memory[i].run]
<1>1. F \in SUBSET (1 .. Len(memory)) /\ Len(memory) \in Nat
  BY DEF Relevant, TypeOK
<1>2. F \in SUBSET Nat /\ IsFiniteSet(F)
  <2>1. IsFiniteSet(1 .. Len(memory))
    BY <1>1, FS_Interval
  <2>2. QED
    BY <1>1, <2>1, FS_Subset
<1>3. MaxRecalled \in Nat
  BY MemoryAssumption
<1>4. IsFiniteSet(T) /\ Cardinality(T) <= MaxRecalled
  <2> HIDE DEF F
  <2>1. QED
    BY <1>2, <1>3, LastFew
<1>5. L = {memory[i].run : i \in T}
  BY DEF LocalRuns
<1> HIDE DEF F, T, L
<1>6. f \in Surjection(T, L)
  BY <1>5 DEF Surjection
<1>7. Cardinality(L) <= Cardinality(T) /\ IsFiniteSet(L)
  <2> HIDE DEF f
  <2>1. QED
    BY <1>4, <1>6, FS_Surjection
<1>8. Cardinality(L) \in Nat /\ Cardinality(T) \in Nat
  BY <1>4, <1>7, FS_CardinalityType
<1>9. QED
  BY <1>3, <1>4, <1>7, <1>8 DEF L

-----------------------------------------------------------------------------
(* What is remembered of a run is filed under the run's own scope.         *)

Filed       == {e \in Entry : e.scope = Scope(e.run)}
FiledRecord == {m \in Record : m.scope = Scope(m.run)}

ScopesInv ==
  /\ memory \in Seq(Filed)
  /\ trimmed \in [Runs -> Seq(Filed)]
  /\ bank \subseteq FiledRecord
  /\ \A v \in Reviewers : reviewing[v] # Idle => reviewing[v].record \in FiledRecord

LEMMA PayloadKept == [Next]_vars => payload' = payload
<1> SUFFICES ASSUME [Next]_vars PROVE payload' = payload
  OBVIOUS
<1>1. ASSUME NEW q \in Runs, Arrive(q) \/ ConsumerLeaves(q) \/ Recall(q)
      PROVE  payload' = payload
  BY <1>1 DEF Arrive, InputBlocked, InputPasses, ConsumerLeaves, Recall,
     RecallAnswered, RecallUnavailable, RecallLocal
<1>2. ASSUME NEW q \in Runs, Investigate(q)
      PROVE  payload' = payload
  BY <1>2 DEF Investigate, NoQuery, GraphCompletes, GraphRaises, BuildSucceeds,
     BuildRaises
<1>3. ASSUME NEW q \in Runs, Finalize(q)
      PROVE  payload' = payload
  BY <1>3 DEF Finalize, Remember, DedupSkips, DedupFindsNone, Create, Save,
     Trim, Assign, Respond
<1>4. QED
  BY <1>1, <1>2, <1>3 DEF Next, Serve, Restart, vars

LEMMA ListScopesStep ==
  ASSUME TypeOK, ScopesInv, [Next]_vars
  PROVE  memory' \in Seq(Filed) /\ trimmed' \in [Runs -> Seq(Filed)]
<1>1. << >> \in Seq(Filed)
  OBVIOUS
<1>2. ASSUME NEW q \in Runs, Save(q)
      PROVE  memory' \in Seq(Filed) /\ trimmed' = trimmed
  <2>1. [run |-> q, scope |-> Scope(q)] \in Filed
    BY DEF Filed, Entry, Scope, TypeOK
  <2>2. /\ memory' = Append(memory, [run |-> q, scope |-> Scope(q)])
        /\ trimmed' = trimmed
    BY <1>2 DEF Save
  <2>3. QED
    BY <2>1, <2>2 DEF ScopesInv
<1>3. ASSUME NEW q \in Runs, Trim(q)
      PROVE  memory' = memory /\ trimmed' \in [Runs -> Seq(Filed)]
  <2>1. Len(memory) > MaxMemory => LastEntries(memory) \in Seq(Filed)
    BY LastEntriesType DEF ScopesInv
  <2>2. QED
    BY <1>3, <2>1 DEF Trim, ScopesInv
<1>4. ASSUME NEW q \in Runs, Assign(q)
      PROVE  memory' \in Seq(Filed) /\ trimmed' \in [Runs -> Seq(Filed)]
  BY <1>1, <1>4 DEF Assign, ScopesInv
<1>5. CASE \E q \in Runs : Arrive(q) \/ Serve(q) \/ ConsumerLeaves(q)
  BY <1>2, <1>3, <1>4, <1>5, ListOnlyBy DEF ScopesInv
<1>6. CASE Restart
  BY <1>1, <1>6 DEF Restart
<1>7. QED
  BY <1>5, <1>6 DEF Next, vars, ScopesInv

LEMMA RecordScopesStep ==
  ASSUME TypeOK, ScopesInv, [Next]_vars
  PROVE  /\ bank' \subseteq FiledRecord
         /\ \A v \in Reviewers :
              reviewing'[v] # Idle => reviewing'[v].record \in FiledRecord
<1>1. reviewing \in [Reviewers -> Command]
  BY DEF TypeOK, StoreTypeOK
<1>2. ASSUME NEW r \in Runs, Create(r)
      PROVE  bank' \subseteq FiledRecord /\ reviewing' = reviewing
  BY <1>2
  DEF Create, Created, ScopesInv, FiledRecord, Record, Statuses, Scope, TypeOK,
      StoreTypeOK
<1>3. ASSUME NEW v \in Reviewers, Review(v)
      PROVE  /\ bank' \subseteq FiledRecord
             /\ \A w \in Reviewers :
                  reviewing'[w] # Idle => reviewing'[w].record \in FiledRecord
  <2>1. CASE ReviewGet(v)
    BY <1>1, <2>1 DEF ReviewGet, ScopesInv
  <2>2. CASE ReviewDelete(v)
    <3>1. reviewing[v] # Idle /\ bank' \subseteq bank
      BY <2>2 DEF ReviewDelete, Idle
    <3>2. reviewing'[v] # Idle => reviewing'[v].record = reviewing[v].record
      BY <1>1, <2>2, <3>1 DEF ReviewDelete, Command, Idle
    <3>3. \A w \in Reviewers \ {v} : reviewing'[w] = reviewing[w]
      BY <1>1, <2>2 DEF ReviewDelete
    <3>4. QED
      BY <3>1, <3>2, <3>3 DEF ScopesInv
  <2>3. CASE ReviewCreate(v)
    <3> DEFINE old == reviewing[v].record
    <3>1. old \in FiledRecord /\ reviewing[v].verdict \in Statuses
      BY <1>1, <2>3 DEF ReviewCreate, ScopesInv, Idle, Command, Verdicts
    <3>2. [name |-> names, run |-> old.run, scope |-> old.scope,
           incident |-> old.incident, status |-> reviewing[v].verdict]
            \in FiledRecord
      BY <3>1 DEF FiledRecord, Record, TypeOK, StoreTypeOK
    <3>3. bank' \subseteq FiledRecord
      BY <2>3, <3>2 DEF ReviewCreate, Created, ScopesInv
    <3>4. QED
      BY <1>1, <2>3, <3>3 DEF ReviewCreate, ScopesInv
  <2>4. CASE ReviewFails(v)
    BY <1>1, <2>4 DEF ReviewFails, ScopesInv
  <2>5. QED
    BY <1>3, <2>1, <2>2, <2>3, <2>4 DEF Review
<1>4. QED
  BY <1>2, <1>3, StoreOnlyBy DEF StoreStep, ScopesInv

LEMMA ScopesInvariant == Spec => []ScopesInv
<1>1. Init => ScopesInv
  BY DEF Init, StoreInit, ScopesInv
<1>2. TypeOK /\ ScopesInv /\ [Next]_vars => ScopesInv'
  BY ListScopesStep, RecordScopesStep, PayloadKept
  DEF ScopesInv, Filed, FiledRecord, Scope
<1>3. QED
  BY <1>1, <1>2, LifecycleTypes, PTL DEF Spec

-----------------------------------------------------------------------------
(* The trusted memory.  A step of the lifecycle changes the standing of    *)
(* one run at most, or is a restart.                                       *)

TrustInv == TypeOK /\ MemoryInv /\ RecordsInv /\ RecalledOnce /\ ScopesInv

\* The record of a run is the one its run finds.
LEMMA RecordFound ==
  ASSUME NEW B, \A m1, m2 \in B : m1.run = m2.run => m1 = m2, NEW x \in B
  PROVE  (CHOOSE m \in B : m.run = x.run) = x
  OBVIOUS

\* The standing of a run whose record is at home, or taken out: such a run has
\* a sound and settled result, and its request has written.
LEMMA RecordedStands ==
  ASSUME TrustInv
  PROVE  /\ \A m \in bank : /\ m.run \in Runs
                            /\ Recorded(m.run)
                            /\ Standing(m.run) = m.status
                            /\ Confirmed(m.run) /\ phase[m.run] \in Written
         /\ \A v \in Reviewers : reviewing[v].phase = "deleted" =>
              LET o == reviewing[v].record.run
              IN  /\ o \in Runs
                  /\ ~Recorded(o) /\ Withdrawn(o)
                  /\ Standing(o) = "withdrawn"
                  /\ Confirmed(o) /\ phase[o] \in Written
<1>1. ASSUME NEW m \in bank
      PROVE  /\ m.run \in Runs /\ Recorded(m.run) /\ Standing(m.run) = m.status
             /\ Confirmed(m.run) /\ phase[m.run] \in Written
  <2>1. (CHOOSE n \in bank : n.run = m.run) = m
    BY RecordFound DEF TrustInv, RecordsInv, OneRecordPerRun
  <2>2. Recorded(m.run)
    BY DEF Recorded
  <2>3. Standing(m.run) = m.status
    BY <2>1, <2>2 DEF Standing
  <2>4. m.run \in Runs
    BY StoreTypes DEF TrustInv
  <2>5. QED
    BY <2>2, <2>3, <2>4
    DEF TrustInv, RecordsInv, WrittenOnce, MemoryInv, StoreConfirmed
<1>2. ASSUME NEW v \in Reviewers, reviewing[v].phase = "deleted"
      PROVE  LET o == reviewing[v].record.run
             IN  /\ o \in Runs
                 /\ ~Recorded(o) /\ Withdrawn(o)
                 /\ Standing(o) = "withdrawn"
                 /\ Confirmed(o) /\ phase[o] \in Written
  <2> DEFINE o == reviewing[v].record.run
  <2>1. reviewing[v] # Idle /\ o \in Runs
    BY <1>2, StoreTypes DEF TrustInv
  <2>2. ~Recorded(o) /\ Withdrawn(o)
    BY <1>2 DEF Recorded, Withdrawn, TrustInv, RecordsInv, OneRecordPerRun
  <2>3. Standing(o) = "withdrawn"
    BY <2>2 DEF Standing
  <2>4. QED
    BY <2>1, <2>2, <2>3
    DEF TrustInv, RecordsInv, WrittenOnce, MemoryInv, StoreConfirmed
<1>3. QED
  BY <1>1, <1>2

\* A run whose request has not written stands for its conclusion alone.
LEMMA UnwrittenStands ==
  ASSUME TrustInv, NEW r \in Runs, phase[r] \notin Written
  PROVE  ~Recorded(r) /\ ~Withdrawn(r) /\ Standing(r) = Conclusion(r)
  BY StoreTypes
  DEF TrustInv, RecordsInv, WrittenOnce, Recorded, Withdrawn, Standing

LEMMA StandingType ==
  ASSUME TrustInv, NEW r \in Runs
  PROVE  /\ Standing(r) \in Trust!Standings
         /\ Trusted(r) => Standing(r) \in Trust!Fit
         /\ Standing(r) \in Trust!Fit => Trusted(r)
<1>1. CASE Recorded(r)
  <2>1. PICK m \in bank : m.run = r
    BY <1>1 DEF Recorded
  <2>2. Standing(r) = m.status /\ Confirmed(r)
    BY <2>1, RecordedStands
  <2>3. m.status \in Statuses
    BY DEF TrustInv, TypeOK, StoreTypeOK, Record
  <2>4. QED
    BY <2>2, <2>3
    DEF Statuses, Confirmed, Trust!Standings, Trust!Fit, Trust!Records
<1>2. CASE ~Recorded(r) /\ Withdrawn(r)
  <2>1. Standing(r) = "withdrawn" /\ Trusted(r)
    BY <1>2, RecordedStands DEF Withdrawn, Confirmed
  <2>2. QED
    BY <2>1 DEF Trust!Standings, Trust!Fit
<1>3. CASE ~Recorded(r) /\ ~Withdrawn(r)
  BY <1>3
  DEF Standing, Conclusion, Trusted, Trust!Standings, Trust!Fit, Trust!Records
<1>4. QED
  BY <1>1, <1>2, <1>3

\* When the store does not change, a standing moves as the conclusion does.
LEMMA StoreStill ==
  ASSUME TrustInv, UNCHANGED storeVars, NEW r \in Runs
  PROVE  \/ Standing(r)' = Standing(r)
         \/ Standing(r) = Conclusion(r) /\ Standing(r)' = Conclusion(r)'
  BY DEF Standing, Recorded, Withdrawn

LEMMA ConclusionKept ==
  ASSUME NEW r \in Runs, phase'[r] = phase[r], result'[r] = result[r]
  PROVE  Conclusion(r)' = Conclusion(r)
  BY DEF Conclusion, Sound

\* What its own request does to a conclusion.
LEMMA ConclusionMoves ==
  ASSUME TypeOK, NEW q \in Runs, Arrive(q) \/ Serve(q) \/ ConsumerLeaves(q)
  PROVE  \/ Conclusion(q)' = Conclusion(q)
         \/ /\ Conclusion(q) = "open"
            /\ Conclusion(q)' \in {"unfit", "candidate", "closed"}
         \/ Conclusion(q) = "candidate" /\ Conclusion(q)' = "closed"
<1>1. CASE phase[q] \notin Settled
  BY <1>1 DEF Conclusion
<1>2. CASE phase[q] \in Settled
  <2>1. phase'[q] \in Settled /\ result' = result
    BY <1>2, SettledFinalizes
  <2>2. Sound(q)' <=> Sound(q)
    BY <2>1 DEF Sound
  <2>3. phase'[q] \in {"dedup", "create"} => phase[q] \in {"dedup", "create"}
    <3>1. [Next]_vars
      BY DEF Next
    <3>2. QED
      BY <1>2, <2>1, <3>1, WrittenForGood DEF Written, Settled
  <2>4. QED
    BY <1>2, <2>1, <2>2, <2>3 DEF Conclusion
<1>3. QED
  BY <1>1, <1>2

\* One run's standing moves, nobody is shown anything.
LEMMA MovesOne ==
  ASSUME NEW q \in Runs, NEW from, NEW to,
         Standing(q) \in from, Standing(q)' \in to,
         \A r \in Runs \ {q} : Standing(r)' = Standing(r),
         payload' = payload, \A r \in Runs : Shown(r)' = Shown(r)
  PROVE  Trust!Moves(q, from, to)
  BY DEF Trust!Moves, Scope

LEMMA StandsStill ==
  ASSUME payload' = payload,
         \A r \in Runs : Standing(r)' = Standing(r) /\ Shown(r)' = Shown(r)
  PROVE  UNCHANGED Trust!vars
  BY DEF Trust!vars, Scope

\* A step that only moves a standing on its way is one of the promise's.
LEMMA MoveRefines ==
  ASSUME NEW q \in Runs, payload' = payload,
         \A r \in Runs \ {q} : Standing(r)' = Standing(r),
         \A r \in Runs : Shown(r)' = Shown(r),
         \/ Standing(q)' = Standing(q)
         \/ /\ Standing(q) = "open"
            /\ Standing(q)' \in {"unfit", "candidate", "closed"}
         \/ /\ Standing(q) = "candidate"
            /\ Standing(q)' \in {"pending_review", "closed"}
         \/ Standing(q) \in Trust!Records /\ Standing(q)' = "withdrawn"
         \/ Standing(q) = "withdrawn" /\ Standing(q)' \in Trust!Verdicts \cup {"closed"}
  PROVE  Trust!Next \/ UNCHANGED Trust!vars
<1>1. CASE Standing(q)' = Standing(q)
  BY <1>1, StandsStill
<1>2. ASSUME NEW from, NEW to, Standing(q) \in from, Standing(q)' \in to
      PROVE  Trust!Moves(q, from, to)
  BY <1>2, MovesOne
<1>3. CASE Standing(q) = "open" /\ Standing(q)' \in {"unfit", "candidate", "closed"}
  <2>1. Trust!Conclude(q)
    BY <1>2, <1>3 DEF Trust!Conclude
  <2>2. QED
    BY <2>1 DEF Trust!Next
<1>4. CASE Standing(q) = "candidate" /\ Standing(q)' \in {"pending_review", "closed"}
  <2>1. Trust!File(q)
    BY <1>2, <1>4 DEF Trust!File
  <2>2. QED
    BY <2>1 DEF Trust!Next
<1>5. CASE Standing(q) \in Trust!Records /\ Standing(q)' = "withdrawn"
  <2>1. Trust!Withdraw(q)
    BY <1>2, <1>5 DEF Trust!Withdraw
  <2>2. QED
    BY <2>1 DEF Trust!Next
<1>6. CASE Standing(q) = "withdrawn" /\ Standing(q)' \in Trust!Verdicts
  <2>1. Trust!Reinstate(q)
    BY <1>2, <1>6 DEF Trust!Reinstate
  <2>2. QED
    BY <2>1 DEF Trust!Next
<1>7. CASE Standing(q) = "withdrawn" /\ Standing(q)' = "closed"
  <2>1. Trust!Lose(q)
    BY <1>2, <1>7 DEF Trust!Lose
  <2>2. QED
    BY <2>1 DEF Trust!Next
<1>8. QED
  BY <1>1, <1>3, <1>4, <1>5, <1>6, <1>7

\* The requests' steps, those that write a record or recall apart.
LEMMA RequestRefines ==
  ASSUME TrustInv, NEW q \in Runs, UNCHANGED storeVars,
         Arrive(q) \/ Investigate(q) \/ Finalize(q) \/ ConsumerLeaves(q)
  PROVE  Trust!Next \/ UNCHANGED Trust!vars
<1>1. [Next]_vars /\ (Arrive(q) \/ Serve(q) \/ ConsumerLeaves(q))
  BY DEF Next, Serve
<1>2. payload' = payload
  BY <1>1, PayloadKept
<1>3. context' = context
  BY DEF Arrive, InputBlocked, InputPasses, ConsumerLeaves, Investigate, NoQuery,
     GraphCompletes, GraphRaises, BuildSucceeds, BuildRaises, Finalize, Remember,
     DedupSkips, DedupFindsNone, Create, Save, Trim, Assign, Respond
<1>4. \A r \in Runs : Shown(r)' = Shown(r)
  BY <1>3 DEF Shown
<1>5. \A r \in Runs \ {q} : Standing(r)' = Standing(r)
  <2>1. \A r \in Runs \ {q} : phase'[r] = phase[r] /\ result'[r] = result[r]
    BY <1>1, OthersKept DEF TrustInv
  <2>2. \A r \in Runs \ {q} : Conclusion(r)' = Conclusion(r)
    BY <2>1, ConclusionKept
  <2>3. QED
    BY <2>2, StoreStill
<1>6. \/ Standing(q)' = Standing(q)
      \/ /\ Standing(q) = "open"
         /\ Standing(q)' \in {"unfit", "candidate", "closed"}
      \/ Standing(q) = "candidate" /\ Standing(q)' = "closed"
  BY <1>1, StoreStill, ConclusionMoves DEF TrustInv
<1>7. QED
  BY <1>2, <1>4, <1>5, <1>6, MoveRefines

\* A run whose record and conclusion a step leaves alone keeps its standing.
LEMMA StandsAsBefore ==
  ASSUME TrustInv, TrustInv', NEW r \in Runs,
         \A m \in bank \cup bank' : m.run = r => m \in bank /\ m \in bank',
         Withdrawn(r)' <=> Withdrawn(r), Conclusion(r)' = Conclusion(r)
  PROVE  Standing(r)' = Standing(r)
<1>1. CASE Recorded(r)
  <2>1. PICK m \in bank : m.run = r
    BY <1>1 DEF Recorded
  <2>2. (CHOOSE n \in bank : n.run = r) = m
    BY <2>1, RecordFound DEF TrustInv, RecordsInv, OneRecordPerRun
  <2>3. (CHOOSE n \in bank' : n.run = r) = m
    BY <2>1, RecordFound DEF TrustInv, RecordsInv, OneRecordPerRun
  <2>4. Recorded(r)'
    BY <2>1 DEF Recorded
  <2>5. Standing(r) = m.status
    BY <1>1, <2>2 DEF Standing
  <2>6. Standing(r)' = m.status
    BY <2>3, <2>4 DEF Standing
  <2>7. QED
    BY <2>5, <2>6
<1>2. CASE ~Recorded(r)
  <2>1. ~Recorded(r)'
    BY <1>2 DEF Recorded
  <2>2. QED
    BY <1>2, <2>1 DEF Standing
<1>3. QED
  BY <1>1, <1>2

\* The write of a record: a candidate is filed.
LEMMA CreateRefines ==
  ASSUME TrustInv, TrustInv', NEW q \in Runs, Create(q), ~UNCHANGED storeVars
  PROVE  Trust!Next \/ UNCHANGED Trust!vars
<1> DEFINE new == [name |-> names, run |-> q, scope |-> Scope(q),
                   incident |-> payload[q].incident,
                   status |-> "pending_review"]
<1>1. /\ bank' = bank \cup {new} /\ new.run = q /\ new.status = "pending_review"
      /\ UNCHANGED <<reviewing, payload, context, result>>
      /\ phase[q] = "create"
      /\ \A r \in Runs \ {q} : phase'[r] = phase[r]
  BY DEF Create, Created, TrustInv, TypeOK
<1> HIDE DEF new
<1>2. \A r \in Runs : Shown(r)' = Shown(r)
  BY <1>1 DEF Shown
<1>3. \A r \in Runs \ {q} : Standing(r)' = Standing(r)
  <2> SUFFICES ASSUME NEW r \in Runs \ {q} PROVE Standing(r)' = Standing(r)
    OBVIOUS
  <2>1. Conclusion(r)' = Conclusion(r)
    BY <1>1, ConclusionKept
  <2>2. /\ \A m \in bank \cup bank' : m.run = r => m \in bank /\ m \in bank'
        /\ Withdrawn(r)' <=> Withdrawn(r)
    BY <1>1 DEF Withdrawn
  <2>3. QED
    BY <2>1, <2>2, StandsAsBefore
<1>4. Standing(q) = "candidate"
  <2>1. phase[q] \notin Written /\ Confirmed(q)
    BY <1>1 DEF Written, TrustInv, MemoryInv, WritersTrusted
  <2>2. QED
    BY <1>1, <2>1, UnwrittenStands DEF Conclusion, Confirmed, Trusted
<1>5. Standing(q)' = "pending_review"
  <2>1. (CHOOSE m \in bank' : m.run = q) = new
    BY <1>1, RecordFound DEF TrustInv, RecordsInv, OneRecordPerRun
  <2>2. Recorded(q)'
    BY <1>1 DEF Recorded
  <2>3. QED
    BY <1>1, <2>1, <2>2 DEF Standing
<1>6. QED
  BY <1>1, <1>2, <1>3, <1>4, <1>5, MoveRefines

\* A recall before its request has a result.
LEMMA RecallsOpen ==
  ASSUME TrustInv, NEW q \in Runs, phase[q] \in {"recall", "recall_local"}
  PROVE  Standing(q) = "open" /\ Shown(q) = Trust!Nothing
<1>1. Standing(q) = "open"
  BY UnwrittenStands DEF Written, Conclusion, Settled
<1>2. /\ context[q].answer \in {"not_asked", "empty"}
      /\ context[q].of = {}
  BY DEF TrustInv, RecalledOnce, NoContext
<1>3. QED
  BY <1>1, <1>2 DEF Shown, Trust!Nothing

\* FiniteSets is the same module whoever extends it.
LEMMA SameCardinality == \A S : Trust!Cardinality(S) = Cardinality(S)
  BY Zenon DEF Cardinality, Trust!Cardinality, IsFiniteSet, Trust!IsFiniteSet

LEMMA ShowsOne ==
  ASSUME NEW q \in Runs, NEW from, NEW fit, NEW s \in SUBSET Runs,
         Standing(q) = "open", Shown(q) = Trust!Nothing,
         \A o \in s : Standing(o) \in fit /\ Scope(o) = Scope(q),
         Cardinality(s) <= MaxRecalled,
         Shown(q)' = [from |-> from, runs |-> s],
         payload' = payload,
         \A r \in Runs : Standing(r)' = Standing(r),
         \A r \in Runs \ {q} : Shown(r)' = Shown(r)
  PROVE  Trust!Recall(q, from, fit)
<1> DEFINE fits == {o \in Runs : /\ [r \in Runs |-> Standing(r)][o] \in fit
                               /\ [r \in Runs |-> Scope(r)][o]
                                    = [r \in Runs |-> Scope(r)][q]}
<1>1. s \in SUBSET fits
  OBVIOUS
<1>2. [r \in Runs |-> Shown(r)]' =
        [[r \in Runs |-> Shown(r)] EXCEPT ![q] = [from |-> from, runs |-> s]]
  OBVIOUS
<1>3. UNCHANGED <<[r \in Runs |-> Scope(r)], [r \in Runs |-> Standing(r)]>>
  BY DEF Scope
<1>4. QED
  BY <1>1, <1>2, <1>3, SameCardinality DEF Trust!Recall

LEMMA RecallRefines ==
  ASSUME TrustInv, NEW q \in Runs, Recall(q)
  PROVE  Trust!Next \/ UNCHANGED Trust!vars
<1>1. [Next]_vars /\ (Arrive(q) \/ Serve(q) \/ ConsumerLeaves(q))
  BY DEF Next, Serve
<1>2. /\ UNCHANGED <<bank, names, reviews, reviewing, result>>
      /\ phase[q] \in {"recall", "recall_local"}
      /\ phase'[q] \in {"recall_local", "investigate"}
  BY DEF Recall, RecallAnswered, RecallUnavailable, RecallLocal, TrustInv, TypeOK
<1>3. payload' = payload
  BY <1>1, PayloadKept
<1>4. \A r \in Runs : Standing(r)' = Standing(r)
  <2>1. \A r \in Runs \ {q} : Conclusion(r)' = Conclusion(r)
    BY <1>1, <1>2, OthersKept, ConclusionKept DEF TrustInv
  <2>2. Conclusion(q)' = Conclusion(q)
    BY <1>2 DEF Conclusion, Settled
  <2>3. QED
    BY <1>2, <2>1, <2>2, StoreStill
<1>5. \A r \in Runs \ {q} : Shown(r)' = Shown(r)
  BY <1>1, OthersKept DEF Shown, TrustInv
<1>6. Standing(q) = "open" /\ Shown(q) = Trust!Nothing
  BY <1>2, RecallsOpen
<1>7. CASE Shown(q)' = Trust!Nothing
  BY <1>3, <1>4, <1>5, <1>6, <1>7, StandsStill
<1>8. ASSUME RecallAnswered(q), Retrieve(Scope(q)) # {}, Recallable(Scope(q)) # {}
      PROVE  Trust!Next
  <2>1. PICK s \in FirstOf({m.run : m \in Recallable(Scope(q))}) :
          context' = [context EXCEPT ![q] = [answer |-> "approved", of |-> s]]
    BY <1>8 DEF RecallAnswered
  <2>2. Shown(q)' = [from |-> "bank", runs |-> s]
    BY <2>1 DEF Shown, TrustInv, TypeOK
  <2>3. s \subseteq Runs
    BY RecalledType DEF TrustInv, TypeOK, StoreTypeOK
  <2>4. Cardinality(s) <= MaxRecalled
    BY MemoryAssumption DEF FirstOf
  <2>5. \A o \in s : Standing(o) \in {"approved"} /\ Scope(o) = Scope(q)
    <3>1. \A o \in s : \E m \in bank : /\ m.run = o /\ m.status = "approved"
                                       /\ m.scope = Scope(q)
      BY DEF FirstOf, Recallable, Retrieve
    <3>2. \A m \in bank : m.scope = Scope(m.run)
      BY DEF TrustInv, ScopesInv, FiledRecord
    <3>3. \A m \in bank : Standing(m.run) = m.status
      BY RecordedStands
    <3>4. QED
      BY <3>1, <3>2, <3>3
  <2>6. Trust!Recall(q, "bank", {"approved"})
    BY <1>3, <1>4, <1>5, <1>6, <2>2, <2>3, <2>4, <2>5, ShowsOne
  <2>7. QED
    BY <2>6 DEF Trust!Next, Trust!RecallBank
<1>9. ASSUME RecallLocal(q), LocalRuns(Scope(q)) # {}
      PROVE  Trust!Next
  <2> DEFINE s == LocalRuns(Scope(q))
  <2>1. /\ context'[q].answer = context[q].answer /\ context'[q].of = s
        /\ context[q].answer = "empty"
    BY <1>9 DEF RecallLocal, TrustInv, TypeOK, Context, RecalledOnce
  <2>2. Shown(q)' = [from |-> "list", runs |-> s]
    BY <1>9, <2>1 DEF Shown
  <2>3. s \subseteq Runs
    BY LocalRunsType DEF TrustInv, TypeOK
  <2>4. Cardinality(s) <= MaxRecalled
    BY LocalRunsFew DEF TrustInv
  <2>5. \A o \in s : Standing(o) \in Trust!Fit /\ Scope(o) = Scope(q)
    <3>1. \A o \in s : \E i \in DOMAIN memory : /\ memory[i].run = o
                                                /\ memory[i].scope = Scope(q)
      BY DEF LocalRuns, Relevant
    <3>2. \A i \in DOMAIN memory : memory[i] \in Filed
      BY DEF TrustInv, ScopesInv
    <3>3. \A o \in s : Scope(o) = Scope(q)
      BY <3>1, <3>2 DEF Filed
    <3>4. \A o \in s : Trusted(o)
      BY <3>1 DEF TrustInv, MemoryInv, ListTrusted
    <3>5. QED
      BY <2>3, <3>3, <3>4, StandingType
  <2> HIDE DEF s
  <2>6. Trust!Recall(q, "list", Trust!Fit)
    BY <1>3, <1>4, <1>5, <1>6, <2>2, <2>3, <2>4, <2>5, ShowsOne
  <2>7. QED
    BY <2>6 DEF Trust!Next, Trust!RecallList
<1>10. ASSUME RecallAnswered(q), Retrieve(Scope(q)) = {} \/ Recallable(Scope(q)) = {}
       PROVE  Shown(q)' = Trust!Nothing
  <2>1. context'[q].of = {} /\ context'[q].answer # "approved"
    BY <1>10 DEF RecallAnswered, FirstOf, TrustInv, TypeOK
  <2>2. QED
    BY <2>1 DEF Shown, Trust!Nothing
<1>11. ASSUME RecallUnavailable(q)
       PROVE  Shown(q)' = Trust!Nothing
  BY <1>11 DEF RecallUnavailable, Shown, Trust!Nothing, TrustInv, TypeOK
<1>12. ASSUME RecallLocal(q), LocalRuns(Scope(q)) = {}
       PROVE  Shown(q)' = Trust!Nothing
  <2>1. context'[q].of = {} /\ context'[q].answer = "empty"
    BY <1>12 DEF RecallLocal, TrustInv, TypeOK, Context, RecalledOnce
  <2>2. QED
    BY <2>1 DEF Shown, Trust!Nothing
<1>13. QED
  BY <1>7, <1>8, <1>9, <1>10, <1>11, <1>12 DEF Recall

\* A reviewer's command moves the run of its record, and it when it deletes,
\* creates, or fails in between.
LEMMA ReviewRefines ==
  ASSUME TrustInv, TrustInv', NEW v \in Reviewers, Review(v),
         UNCHANGED requestVars
  PROVE  Trust!Next \/ UNCHANGED Trust!vars
<1>1. /\ reviewing \in [Reviewers -> Command] /\ payload' = payload
      /\ \A r \in Runs : Shown(r)' = Shown(r) /\ Conclusion(r)' = Conclusion(r)
  BY DEF TrustInv, TypeOK, StoreTypeOK, Shown, Conclusion, Sound
<1>2. /\ reviewing[v].phase = "deleted" => reviewing[v] # Idle
      /\ reviewing[v].phase = "fetched" => reviewing[v] # Idle
      /\ reviewing[v] # Idle =>
           /\ reviewing[v].record \in Record
           /\ reviewing[v].record.run \in Runs
      /\ Idle.phase = "idle"
  BY <1>1, StoreTypes DEF TrustInv, Idle
<1>3. CASE ReviewGet(v)
  <2>1. /\ bank' = bank /\ reviewing[v] = Idle /\ reviewing'[v].phase = "fetched"
        /\ \A w \in Reviewers \ {v} : reviewing'[w] = reviewing[w]
    BY <1>1, <1>3 DEF ReviewGet
  <2>2. \A r \in Runs : Withdrawn(r)' <=> Withdrawn(r)
    BY <1>2, <2>1 DEF Withdrawn
  <2>3. QED
    BY <1>1, <2>1, <2>2, StandsAsBefore, StandsStill
<1>4. CASE ReviewDelete(v)
  <2>0. PICK rec \in Record : rec = reviewing[v].record /\ rec.run \in Runs
    BY <1>2, <1>4 DEF ReviewDelete
  <2> DEFINE o == rec.run
  <2>1. /\ reviewing[v].phase = "fetched" /\ reviewing[v] # Idle
        /\ bank' = {m \in bank : m.name # rec.name}
        /\ \A w \in Reviewers \ {v} : reviewing'[w] = reviewing[w]
    BY <1>1, <1>2, <1>4, <2>0 DEF ReviewDelete
  <2>2. CASE bank' = bank
    <3>1. reviewing'[v] = Idle
      BY <1>1, <1>4, <2>2 DEF ReviewDelete
    <3>2. \A r \in Runs : Withdrawn(r)' <=> Withdrawn(r)
      BY <1>2, <2>1, <3>1 DEF Withdrawn
    <3>3. QED
      BY <1>1, <2>2, <3>2, StandsAsBefore, StandsStill
  <2>3. CASE bank' # bank
    <3>1. reviewing'[v].phase = "deleted" /\ reviewing'[v].record = rec
      BY <1>1, <1>4, <2>0, <2>1, <2>3 DEF ReviewDelete, Command, Idle
    <3>2. rec \in bank /\ \A m \in bank : m.run = o => m = rec
      BY <2>0, <2>1, <2>3 DEF TrustInv, RecordsInv, NamesFresh, OneRecordPerRun
    <3>3. Standing(o) \in Trust!Records
      BY <1>2, <2>1, <3>2, RecordedStands DEF Trust!Records, Record, Statuses
    <3>4. Standing(o)' = "withdrawn"
      BY <2>0, <2>1, <3>1, <3>2 DEF Standing, Recorded, Withdrawn
    <3>5. \A r \in Runs \ {o} : Standing(r)' = Standing(r)
      <4>1. \A r \in Runs \ {o} : Withdrawn(r)' <=> Withdrawn(r)
        BY <2>0, <2>1, <3>1 DEF Withdrawn
      <4>2. \A r \in Runs \ {o} : \A m \in bank \cup bank' :
              m.run = r => m \in bank /\ m \in bank'
        BY <2>1, <3>2 DEF TrustInv, RecordsInv, NamesFresh
      <4>3. QED
        BY <1>1, <4>1, <4>2, StandsAsBefore
    <3>6. QED
      BY <1>1, <2>0, <3>3, <3>4, <3>5, MoveRefines
  <2>4. QED
    BY <2>2, <2>3
<1>5. CASE ReviewCreate(v)
  <2>0. PICK rec \in Record : rec = reviewing[v].record /\ rec.run \in Runs
    BY <1>2, <1>5 DEF ReviewCreate
  <2>a. PICK new : new = [name |-> names, run |-> rec.run, scope |-> rec.scope,
                          incident |-> rec.incident,
                          status |-> reviewing[v].verdict]
    OBVIOUS
  <2> DEFINE o == rec.run
  <2>1. /\ reviewing[v].phase = "deleted" /\ reviewing[v] # Idle
        /\ bank' = bank \cup {new} /\ new.run = o
        /\ new.status = reviewing[v].verdict
        /\ reviewing'[v] = Idle
        /\ \A w \in Reviewers \ {v} : reviewing'[w] = reviewing[w]
    BY <1>1, <1>2, <1>5, <2>0, <2>a DEF ReviewCreate, Created
  <2>2. new.status \in Verdicts
    BY <1>1, <2>1 DEF Command, Idle
  <2>3. Standing(o) = "withdrawn"
    BY <2>0, <2>1, RecordedStands
  <2>4. Standing(o)' \in Trust!Verdicts
    <3>1. (CHOOSE m \in bank' : m.run = o) = new
      BY <2>1, RecordFound DEF TrustInv, RecordsInv, OneRecordPerRun
    <3>2. Recorded(o)'
      BY <2>1 DEF Recorded
    <3>3. Standing(o)' = new.status
      BY <3>1, <3>2 DEF Standing
    <3>4. QED
      BY <2>2, <3>3 DEF Verdicts, Statuses, Trust!Verdicts, Trust!Records
  <2>5. \A r \in Runs \ {o} : Standing(r)' = Standing(r)
    <3>1. \A r \in Runs \ {o} : Withdrawn(r)' <=> Withdrawn(r)
      BY <1>2, <2>0, <2>1 DEF Withdrawn
    <3>2. \A r \in Runs \ {o} : \A m \in bank \cup bank' :
            m.run = r => m \in bank /\ m \in bank'
      BY <2>1
    <3>3. QED
      BY <1>1, <3>1, <3>2, StandsAsBefore
  <2>6. QED
    BY <1>1, <2>0, <2>3, <2>4, <2>5, MoveRefines
<1>6. CASE ReviewFails(v)
  <2>1. /\ bank' = bank /\ reviewing[v] # Idle /\ reviewing'[v] = Idle
        /\ \A w \in Reviewers \ {v} : reviewing'[w] = reviewing[w]
    BY <1>1, <1>6 DEF ReviewFails
  <2>2. CASE reviewing[v].phase # "deleted"
    <3>1. \A r \in Runs : Withdrawn(r)' <=> Withdrawn(r)
      BY <1>2, <2>1, <2>2 DEF Withdrawn
    <3>2. QED
      BY <1>1, <2>1, <3>1, StandsAsBefore, StandsStill
  <2>3. CASE reviewing[v].phase = "deleted"
    <3>0. PICK o \in Runs : o = reviewing[v].record.run
      BY <1>2, <2>1
    <3>1. /\ Standing(o) = "withdrawn" /\ ~Recorded(o)
          /\ Confirmed(o) /\ phase[o] \in Written
      BY <2>3, <3>0, RecordedStands
    <3>2. ~Recorded(o)' /\ ~Withdrawn(o)'
      BY <1>2, <2>1, <2>3, <3>0, <3>1
      DEF Recorded, Withdrawn, TrustInv, RecordsInv, OneRecordPerRun
    <3>3. Conclusion(o) = "closed"
      BY <3>1 DEF Conclusion, Confirmed, Trusted, Written
    <3>4. Standing(o)' = "closed"
      BY <1>1, <3>2, <3>3 DEF Standing
    <3>5. \A r \in Runs \ {o} : Withdrawn(r)' <=> Withdrawn(r)
      BY <1>2, <2>1, <3>0 DEF Withdrawn
    <3>6. \A r \in Runs \ {o} : Standing(r)' = Standing(r)
      BY <1>1, <2>1, <3>5, StandsAsBefore
    <3>7. QED
      BY <1>1, <3>1, <3>4, <3>6, MoveRefines
  <2>4. QED
    BY <2>2, <2>3
<1>7. QED
  BY <1>3, <1>4, <1>5, <1>6 DEF Review

LEMMA RestartRefines ==
  ASSUME TrustInv, TrustInv', Restart
  PROVE  Trust!Next
<1>1. UNCHANGED <<bank, names, reviews, reviewing, payload, context, result>>
  BY DEF Restart
<1>2. ASSUME NEW r \in Runs
      PROVE  /\ Standing(r)' \in Trust!Standings
             /\ \/ Standing(r)' = Standing(r)
                \/ Standing(r) = "open" /\ Standing(r)' \in {"unfit", "closed"}
                \/ Standing(r) = "candidate" /\ Standing(r)' = "closed"
  <2>1. \/ phase'[r] = phase[r]
        \/ phase'[r] = "dropped"
    BY DEF Restart
  <2>2. Sound(r)' <=> Sound(r)
    BY <1>1 DEF Sound
  <2>3. \/ Conclusion(r)' = Conclusion(r)
        \/ Conclusion(r) = "open" /\ Conclusion(r)' \in {"unfit", "closed"}
        \/ Conclusion(r) = "candidate" /\ Conclusion(r)' = "closed"
    BY <2>1, <2>2 DEF Conclusion, Settled
  <2>4. Standing(r) \in Trust!Standings
    BY StandingType
  <2>5. \/ Standing(r)' = Standing(r)
        \/ Standing(r) = Conclusion(r) /\ Standing(r)' = Conclusion(r)'
    BY <1>1, StoreStill
  <2>6. QED
    BY <2>3, <2>4, <2>5 DEF Trust!Standings, Trust!Fit
<1>3. \A r \in Runs : Scope(r)' = Scope(r) /\ Shown(r)' = Shown(r)
  BY <1>1 DEF Scope, Shown
<1>4. Trust!Restart
  BY <1>2, <1>3 DEF Trust!Restart
<1>5. QED
  BY <1>4 DEF Trust!Next

LEMMA TrustInvariant == Spec => []TrustInv
  BY MemoryInvariant, RecordsInvariant, RecalledOnceInvariant, ScopesInvariant,
     PTL DEF TrustInv

LEMMA TrustInit == Init => Trust!Init
<1> SUFFICES ASSUME Init PROVE Trust!Init
  OBVIOUS
<1>1. \A r \in Runs : /\ Scope(r) \in Scopes
                     /\ Standing(r) = "open"
                     /\ Shown(r) = Trust!Nothing
  BY DEF Init, StoreInit, Idle, Scope, Standing, Recorded, Withdrawn, Conclusion,
     Settled, Shown, NoContext, Trust!Nothing
<1>2. QED
  BY <1>1 DEF Trust!Init

LEMMA TrustStep ==
  TrustInv /\ TrustInv' /\ [Next]_vars => [Trust!Next]_(Trust!vars)
<1> SUFFICES ASSUME TrustInv, TrustInv', [Next]_vars
             PROVE  Trust!Next \/ UNCHANGED Trust!vars
  OBVIOUS
<1>1. ASSUME NEW q \in Runs, Arrive(q) \/ Serve(q) \/ ConsumerLeaves(q)
      PROVE  Trust!Next \/ UNCHANGED Trust!vars
  <2>1. CASE Recall(q)
    BY <2>1, RecallRefines
  <2>2. CASE Create(q) /\ ~UNCHANGED storeVars
    BY <2>2, CreateRefines
  <2>3. CASE ~Recall(q) /\ ~(Create(q) /\ ~UNCHANGED storeVars)
    <3>1. Arrive(q) \/ Investigate(q) \/ Finalize(q) \/ ConsumerLeaves(q)
      BY <1>1, <2>3 DEF Serve
    <3>2. UNCHANGED storeVars
      BY <2>3, <3>1 DEF Arrive, InputBlocked, InputPasses, ConsumerLeaves,
         Investigate, NoQuery, GraphCompletes, GraphRaises, BuildSucceeds,
         BuildRaises, Finalize, Remember, DedupSkips, DedupFindsNone, Save,
         Trim, Assign, Respond
    <3>3. QED
      BY <3>1, <3>2, RequestRefines
  <2>4. QED
    BY <2>1, <2>2, <2>3
<1>2. ASSUME NEW v \in Reviewers, Review(v), UNCHANGED requestVars
      PROVE  Trust!Next \/ UNCHANGED Trust!vars
  BY <1>2, ReviewRefines
<1>3. CASE Restart
  BY <1>3, RestartRefines
<1>4. CASE UNCHANGED vars
  <2>1. /\ payload' = payload
        /\ \A r \in Runs : Standing(r)' = Standing(r) /\ Shown(r)' = Shown(r)
    BY <1>4 DEF vars, Standing, Recorded, Withdrawn, Conclusion, Sound, Shown
  <2>2. QED
    BY <2>1, StandsStill
<1>5. QED
  BY <1>1, <1>2, <1>3, <1>4 DEF Next

\* Requests, reviewers and restarts together are a trusted memory: what a
\* request is shown is fit, of its own scope and little, Memory Bank shows
\* what is approved at that moment, and no verdict appears or comes back but
\* by the reviewer who took the record out.
THEOREM MemoryTrusted == Spec => ImplementsTrustedMemory
  BY TrustInvariant, TrustInit, TrustStep, PTL
  DEF Spec, ImplementsTrustedMemory, Trust!Spec

-----------------------------------------------------------------------------
(* What follows from the promise alone.                                    *)

LEMMA FitForGood ==
  ASSUME [Trust!Next]_(Trust!vars), NEW r \in Runs
  PROVE  /\ Scope(r)' = Scope(r)
         /\ Standing(r) \in Trust!Fit => Standing(r)' \in Trust!Fit
<1> DEFINE scopes == [q \in Runs |-> Scope(q)]
           stands == [q \in Runs |-> Standing(q)]
<1>1. scopes' = scopes
  BY DEF Trust!Next, Trust!RecallBank, Trust!RecallList, Trust!Recall,
     Trust!Conclude, Trust!File, Trust!Withdraw, Trust!Reinstate, Trust!Lose,
     Trust!Moves, Trust!Restart, Trust!vars
<1>2. stands[r] \in Trust!Fit => stands'[r] \in Trust!Fit
  <2>1. CASE UNCHANGED Trust!vars \/ \E q \in Runs : Trust!RecallBank(q) \/ Trust!RecallList(q)
    BY <2>1 DEF Trust!vars, Trust!RecallBank, Trust!RecallList, Trust!Recall
  <2>2. CASE \E q \in Runs : \/ Trust!Conclude(q) \/ Trust!File(q)
                             \/ Trust!Withdraw(q) \/ Trust!Reinstate(q)
                             \/ Trust!Lose(q)
    BY <2>2 DEF Trust!Conclude, Trust!File, Trust!Withdraw, Trust!Reinstate,
       Trust!Lose, Trust!Moves, Trust!Fit, Trust!Records, Trust!Verdicts
  <2>3. CASE Trust!Restart
    BY <2>3 DEF Trust!Restart, Trust!Fit, Trust!Records
  <2>4. QED
    BY <2>1, <2>2, <2>3 DEF Trust!Next
<1>3. /\ scopes[r] = Scope(r) /\ scopes'[r] = Scope(r)'
      /\ stands[r] = Standing(r) /\ stands'[r] = Standing(r)'
  OBVIOUS
<1>4. QED
  BY <1>1, <1>2, <1>3

\* What a run is shown is shown while its conclusion is open, and fit.
LEMMA ShownFit ==
  ASSUME [Trust!Next]_(Trust!vars), NEW r \in Runs, Shown(r)' # Shown(r)
  PROVE  /\ Standing(r) = "open"
         /\ Standing(r)' = Standing(r)
         /\ \A q \in Runs \ {r} : Shown(q)' = Shown(q)
         /\ \A o \in Shown(r)'.runs :
              o \in Runs /\ Standing(o) \in Trust!Fit /\ Scope(o) = Scope(r)
<1> DEFINE scopes == [q \in Runs |-> Scope(q)]
           stands == [q \in Runs |-> Standing(q)]
           shows == [q \in Runs |-> Shown(q)]
<1>1. shows' # shows
  <2>1. shows[r] = Shown(r) /\ shows'[r] = Shown(r)'
    OBVIOUS
  <2>2. QED
    BY <2>1
<1>2. PICK q \in Runs : Trust!RecallBank(q) \/ Trust!RecallList(q)
  BY <1>1 DEF Trust!Next, Trust!Conclude, Trust!File, Trust!Withdraw,
     Trust!Reinstate, Trust!Lose, Trust!Moves, Trust!Restart, Trust!vars
<1>3. PICK from, fit : /\ Trust!Recall(q, from, fit) /\ fit \subseteq Trust!Fit
  BY <1>2 DEF Trust!RecallBank, Trust!RecallList, Trust!Fit, Trust!Records
<1>4. PICK s \in SUBSET {o \in Runs : stands[o] \in fit /\ scopes[o] = scopes[q]} :
        /\ stands[q] = "open"
        /\ shows' = [shows EXCEPT ![q] = [from |-> from, runs |-> s]]
        /\ stands' = stands
  BY <1>3 DEF Trust!Recall
<1>5. \A x \in Runs : /\ stands[x] = Standing(x) /\ stands'[x] = Standing(x)'
                     /\ shows[x] = Shown(x) /\ shows'[x] = Shown(x)'
                     /\ scopes[x] = Scope(x)
  OBVIOUS
<1>6. shows \in [Runs -> {Shown(x) : x \in Runs}]
  OBVIOUS
<1> HIDE DEF scopes, stands, shows
<1>7. q = r /\ Shown(r)' = [from |-> from, runs |-> s]
  BY <1>4, <1>5, <1>6
<1>8. \A x \in Runs \ {r} : Shown(x)' = Shown(x)
  BY <1>4, <1>5, <1>6, <1>7
<1>9. QED
  BY <1>3, <1>4, <1>5, <1>7, <1>8

KnownInv ==
  /\ \A r \in Runs : \A o \in Shown(r).runs :
       o \in Runs /\ Standing(o) \in Trust!Fit /\ Scope(o) = Scope(r)
  /\ \A r \in Runs : \A o \in Shown(r).runs : r \notin Shown(o).runs

LEMMA KnownStep ==
  ASSUME KnownInv, [Trust!Next]_(Trust!vars)
  PROVE  KnownInv'
<1>1. ASSUME NEW r \in Runs, NEW o \in Runs,
             Standing(o) \in Trust!Fit, Scope(o) = Scope(r)
      PROVE  Standing(o)' \in Trust!Fit /\ Scope(o)' = Scope(r)'
  <2>1. Scope(o)' = Scope(o) /\ Scope(r)' = Scope(r)
    BY FitForGood
  <2>2. Standing(o)' \in Trust!Fit
    BY <1>1, FitForGood
  <2>3. QED
    BY <1>1, <2>1, <2>2
<1>2. "open" \notin Trust!Fit
  BY DEF Trust!Fit, Trust!Records
<1>a. ASSUME NEW r \in Runs, Shown(r)' = Shown(r), NEW o \in Shown(r).runs
      PROVE  o \in Runs /\ Standing(o)' \in Trust!Fit /\ Scope(o)' = Scope(r)'
  <2>1. o \in Runs /\ Standing(o) \in Trust!Fit /\ Scope(o) = Scope(r)
    BY DEF KnownInv
  <2>2. QED
    BY <1>1, <2>1
<1>3. CASE \A r \in Runs : Shown(r)' = Shown(r)
  <2>1. \A r \in Runs : \A o \in Shown(r)'.runs :
          o \in Runs /\ Standing(o)' \in Trust!Fit /\ Scope(o)' = Scope(r)'
    BY <1>3, <1>a
  <2>2. \A r \in Runs : \A o \in Shown(r)'.runs : r \notin Shown(o)'.runs
    BY <1>3, <2>1 DEF KnownInv
  <2>3. QED
    BY <2>1, <2>2 DEF KnownInv, Trust!Fit, Trust!Records
<1>4. CASE ~(\A r \in Runs : Shown(r)' = Shown(r))
  <2>1. PICK q \in Runs : Shown(q)' # Shown(q)
    BY <1>4
  <2>2. /\ Standing(q) = "open"
        /\ \A r \in Runs \ {q} : Shown(r)' = Shown(r)
        /\ \A o \in Shown(q)'.runs :
             o \in Runs /\ Standing(o) \in Trust!Fit /\ Scope(o) = Scope(q)
    BY <2>1, ShownFit
  <2>3. \A r \in Runs : q \notin Shown(r).runs
    BY <1>2, <2>2 DEF KnownInv
  <2>4. q \notin Shown(q)'.runs
    BY <1>2, <2>2
  <2>5. \A r \in Runs : \A o \in Shown(r)'.runs :
          o \in Runs /\ Standing(o)' \in Trust!Fit /\ Scope(o)' = Scope(r)'
    <3>1. \A o \in Shown(q)'.runs :
            o \in Runs /\ Standing(o)' \in Trust!Fit /\ Scope(o)' = Scope(q)'
      BY <1>1, <2>2
    <3>2. QED
      BY <2>2, <3>1, <1>a
  <2>6. \A r \in Runs : \A o \in Shown(r)'.runs : r \notin Shown(o)'.runs
    BY <2>2, <2>3, <2>4, <2>5 DEF KnownInv
  <2>7. QED
    BY <2>5, <2>6 DEF KnownInv, Trust!Fit, Trust!Records
<1>5. QED
  BY <1>3, <1>4

LEMMA KnownInvariant == Spec => []KnownInv
<1>1. Init => KnownInv
  BY DEF Init, KnownInv, Shown, NoContext
<1>2. TrustInv /\ TrustInv' /\ KnownInv /\ [Next]_vars => KnownInv'
  BY TrustStep, KnownStep
<1>3. QED
  BY <1>1, <1>2, TrustInvariant, PTL DEF Spec

\* No request is ever shown a conclusion that is unfit or of another scope:
\* what was fit when it was shown stays so, through reviews and restarts.
THEOREM FitShown == Spec => []Trust!OnlyFitShown
<1>1. KnownInv => Trust!OnlyFitShown
  BY DEF KnownInv, Trust!OnlyFitShown
<1>2. QED
  BY <1>1, KnownInvariant, PTL

\* No two conclusions rest on each other, whatever threads do to the list:
\* the memory does not let the agent confirm itself.
THEOREM NoCircularTrust == Spec => []Trust!NotCircular
<1>1. KnownInv => Trust!NotCircular
  BY DEF KnownInv, Trust!NotCircular
<1>2. QED
  BY <1>1, KnownInvariant, PTL

-----------------------------------------------------------------------------
(* What is left of "the same scenario is never written twice".             *)

SameKey(a, b) == a.scope = b.scope /\ a.incident = b.incident

\* Between its dedup check and its create, a request meets no other request at
\* the same point with the same scenario, and no review that has deleted a
\* record of the scenario and not created it again.
Serialized ==
  \A r \in Runs : phase[r] = "create" =>
    /\ \A q \in Runs \ {r} : phase[q] = "create" => ~SameKey(payload[q], payload[r])
    /\ \A v \in Reviewers :
         reviewing[v].phase = "deleted" => ~SameKey(reviewing[v].record, payload[r])

\* Scenarios in the bank, in the hands of reviewers and about to be written.
KeysInv ==
  /\ NeverWrittenTwice
  /\ \A v \in Reviewers : reviewing[v].phase = "deleted" =>
       /\ \A m \in bank : ~SameKey(m, reviewing[v].record)
       /\ \A w \in Reviewers \ {v} : reviewing[w].phase = "deleted" =>
            ~SameKey(reviewing[w].record, reviewing[v].record)
  /\ \A r \in Runs : phase[r] = "create" => \A m \in bank : ~SameKey(m, payload[r])

\* A request reaches the create by a dedup check that found nothing.
LEMMA CreateAfterDedup ==
  ASSUME TypeOK, [Next]_vars, NEW r \in Runs, phase'[r] = "create"
  PROVE  \/ phase[r] = "create"
         \/ UNCHANGED storeVars /\ \A m \in bank : ~SameKey(m, payload[r])
<1>1. ASSUME NEW q \in Runs, Arrive(q) \/ Serve(q) \/ ConsumerLeaves(q), q # r
      PROVE  phase'[r] = phase[r]
  BY <1>1, OthersKept
<1>2. CASE Arrive(r) \/ ConsumerLeaves(r)
  BY <1>2 DEF Arrive, InputBlocked, InputPasses, ConsumerLeaves, TypeOK
<1>3. CASE Recall(r)
  BY <1>3 DEF Recall, RecallAnswered, RecallUnavailable, RecallLocal, TypeOK
<1>4. CASE Investigate(r)
  BY <1>4 DEF Investigate, NoQuery, GraphCompletes, GraphRaises, BuildSucceeds,
     BuildRaises, TypeOK
<1>5. CASE Finalize(r) /\ ~DedupFindsNone(r)
  BY <1>5 DEF Finalize, Remember, DedupSkips, Create, Save, Trim, Assign,
     Respond, TypeOK
<1>6. CASE DedupFindsNone(r)
  <2>1. payload[r].incident \in Incidents
    BY DEF TypeOK
  <2>2. <<payload[r].incident, payload[r].incident>> \in Contains
    BY <2>1, MemoryAssumption
  <2>3. ~IsStored(r) /\ UNCHANGED storeVars
    BY <1>6 DEF DedupFindsNone
  <2>4. QED
    BY <2>2, <2>3 DEF IsStored, Retrieve, Scope, SameKey
<1>7. CASE \E q \in Runs : Arrive(q) \/ Serve(q) \/ ConsumerLeaves(q)
  BY <1>1, <1>2, <1>3, <1>4, <1>5, <1>6, <1>7 DEF Serve
<1>8. CASE Restart
  BY <1>8 DEF Restart, TypeOK
<1>9. QED
  BY <1>7, <1>8 DEF Next, vars

LEMMA KeysCreate ==
  ASSUME TypeOK, KeysInv, Serialized, NEW r \in Runs, Create(r),
         payload' = payload, [Next]_vars
  PROVE  KeysInv'
<1>1. \A q \in Runs : phase'[q] = "create" =>
        q # r /\ (phase[q] = "create" \/
                  (UNCHANGED storeVars /\ \A m \in bank : ~SameKey(m, payload[q])))
  BY CreateAfterDedup DEF Create, TypeOK
<1>2. CASE UNCHANGED storeVars
  BY <1>1, <1>2 DEF KeysInv, NeverWrittenTwice, SameKey
<1>3. ASSUME Created(r, Scope(r), payload[r].incident, "pending_review"),
             UNCHANGED <<reviews, reviewing>>
      PROVE  KeysInv'
  <2> DEFINE new == [name |-> names, run |-> r, scope |-> Scope(r),
                     incident |-> payload[r].incident,
                     status |-> "pending_review"]
  <2>1. bank' = bank \cup {new} /\ names' = names + 1 /\ reviewing' = reviewing
    BY <1>3 DEF Created
  <2>2. new.scope = payload[r].scope /\ new.incident = payload[r].incident
    BY DEF Scope
  <2> HIDE DEF new
  <2>3. phase[r] = "create"
    BY DEF Create
  <2>4. NeverWrittenTwice'
    <3>1. \A m \in bank : ~SameKey(m, new)
      BY <2>2, <2>3 DEF KeysInv, SameKey
    <3>2. QED
      BY <2>1, <3>1 DEF KeysInv, NeverWrittenTwice, SameKey
  <2>5. \A v \in Reviewers : reviewing'[v].phase = "deleted" =>
          /\ \A m \in bank' : ~SameKey(m, reviewing'[v].record)
          /\ \A w \in Reviewers \ {v} : reviewing'[w].phase = "deleted" =>
               ~SameKey(reviewing'[w].record, reviewing'[v].record)
    <3>1. \A v \in Reviewers : reviewing[v].phase = "deleted" =>
            ~SameKey(new, reviewing[v].record)
      BY <2>2, <2>3 DEF Serialized, SameKey
    <3>2. QED
      BY <2>1, <3>1 DEF KeysInv
  <2>6. names' # names
    BY <2>1 DEF TypeOK, StoreTypeOK
  <2>7. \A q \in Runs : phase'[q] = "create" =>
          \A m \in bank' : ~SameKey(m, payload'[q])
    <3>1. \A q \in Runs : phase'[q] = "create" => q # r /\ phase[q] = "create"
      BY <1>1, <2>6
    <3>2. \A q \in Runs : phase'[q] = "create" => ~SameKey(new, payload[q])
      BY <2>2, <2>3, <3>1 DEF Serialized, SameKey
    <3>3. QED
      BY <2>1, <3>1, <3>2 DEF KeysInv
  <2>8. QED
    BY <2>4, <2>5, <2>7 DEF KeysInv, SameKey
<1>4. QED
  BY <1>2, <1>3 DEF Create

LEMMA KeysReview ==
  ASSUME TypeOK, NamesFresh, KeysInv, Serialized, NEW v \in Reviewers, Review(v),
         phase' = phase, payload' = payload
  PROVE  KeysInv'
<1>1. reviewing \in [Reviewers -> Command] /\ Idle.phase = "idle"
  BY DEF TypeOK, StoreTypeOK, Idle
<1> USE DEF KeysInv, NeverWrittenTwice
<1>2. CASE ReviewGet(v)
  <2>1. PICK m \in bank, verdict \in Verdicts :
          reviewing' = [reviewing EXCEPT ![v] =
            [phase |-> "fetched", record |-> m, verdict |-> verdict]]
    BY <1>2 DEF ReviewGet
  <2>2. bank' = bank
    BY <1>2 DEF ReviewGet
  <2>3. QED
    BY <1>1, <2>1, <2>2 DEF SameKey
<1>3. CASE ReviewDelete(v)
  <2>1. /\ reviewing[v].phase = "fetched" /\ reviewing[v] # Idle
        /\ bank' = {m \in bank : m.name # reviewing[v].record.name}
    BY <1>3 DEF ReviewDelete, Idle
  <2>2. CASE bank' = bank
    <3>1. reviewing' = [reviewing EXCEPT ![v] = Idle]
      BY <1>3, <2>2 DEF ReviewDelete
    <3>2. QED
      BY <1>1, <2>2, <3>1 DEF SameKey
  <2>3. CASE bank' # bank
    <3>1. PICK d \in Command : /\ reviewing' = [reviewing EXCEPT ![v] = d]
                               /\ d.phase = "deleted"
                               /\ d.record = reviewing[v].record
      <4>1. reviewing' = [reviewing EXCEPT ![v].phase = "deleted"]
        BY <1>3, <2>3 DEF ReviewDelete
      <4>2. [reviewing[v] EXCEPT !.phase = "deleted"] \in Command
        BY <1>1, <2>1 DEF Command, Idle
      <4>3. QED
        BY <1>1, <2>1, <4>1, <4>2 DEF Command, Idle
    <3>2. reviewing[v].record \in bank
      BY <2>1, <2>3 DEF NamesFresh
    <3>3. \A m \in bank' : m \in bank /\ ~SameKey(m, reviewing[v].record)
      BY <2>1, <3>2 DEF SameKey
    <3>4. \A w \in Reviewers : reviewing[w].phase = "deleted" =>
            ~SameKey(reviewing[v].record, reviewing[w].record)
      BY <3>2
    <3>5. \A w \in Reviewers \ {v} : reviewing'[w] = reviewing[w]
      BY <1>1, <3>1
    <3>6. reviewing'[v].record = reviewing[v].record
      BY <1>1, <3>1
    <3>7. \A w \in Reviewers : reviewing'[w].phase = "deleted" =>
            /\ \A m \in bank' : ~SameKey(m, reviewing'[w].record)
            /\ \A u \in Reviewers \ {w} : reviewing'[u].phase = "deleted" =>
                 ~SameKey(reviewing'[u].record, reviewing'[w].record)
      BY <3>3, <3>4, <3>5, <3>6 DEF SameKey
    <3>8. QED
      BY <3>3, <3>7 DEF SameKey
  <2>4. QED
    BY <2>2, <2>3
<1>4. CASE ReviewCreate(v)
  <2> DEFINE old == reviewing[v].record
             new == [name |-> names, run |-> old.run, scope |-> old.scope,
                     incident |-> old.incident, status |-> reviewing[v].verdict]
  <2>1. /\ reviewing[v].phase = "deleted"
        /\ bank' = bank \cup {new}
        /\ reviewing' = [reviewing EXCEPT ![v] = Idle]
    BY <1>4 DEF ReviewCreate, Created
  <2>2. new.scope = old.scope /\ new.incident = old.incident
    OBVIOUS
  <2> HIDE DEF new
  <2>3. \A m \in bank : ~SameKey(m, new)
    BY <2>1, <2>2 DEF SameKey
  <2>4. \A r \in Runs : phase[r] = "create" => ~SameKey(new, payload[r])
    BY <2>1, <2>2 DEF Serialized, SameKey
  <2>5. \A w \in Reviewers : reviewing'[w].phase = "deleted" =>
          w # v /\ reviewing'[w] = reviewing[w] /\ ~SameKey(new, reviewing[w].record)
    BY <1>1, <2>1, <2>2 DEF SameKey
  <2>6. NeverWrittenTwice'
    BY <2>1, <2>3 DEF SameKey
  <2>7. QED
    BY <2>1, <2>4, <2>5, <2>6 DEF SameKey
<1>5. CASE ReviewFails(v)
  BY <1>1, <1>5 DEF ReviewFails, SameKey
<1>6. QED
  BY <1>2, <1>3, <1>4, <1>5 DEF Review

LEMMA KeysStep ==
  ASSUME TypeOK, NamesFresh, KeysInv, Serialized, [Next]_vars
  PROVE  KeysInv'
<1>1. payload' = payload
  BY PayloadKept
<1>2. CASE UNCHANGED storeVars
  <2>1. \A r \in Runs : phase'[r] = "create" =>
          \A m \in bank : ~SameKey(m, payload[r])
    BY CreateAfterDedup DEF KeysInv
  <2>2. QED
    BY <1>1, <1>2, <2>1 DEF KeysInv, NeverWrittenTwice, SameKey
<1>3. CASE \E r \in Runs : Create(r)
  BY <1>1, <1>3, KeysCreate
<1>4. CASE \E v \in Reviewers : Review(v) /\ UNCHANGED <<requestVars, memory>>
  BY <1>4, KeysReview
<1>5. CASE \E q \in Runs : Arrive(q) \/ Serve(q) \/ ConsumerLeaves(q)
  <2>1. PICK q \in Runs : Arrive(q) \/ Serve(q) \/ ConsumerLeaves(q)
    BY <1>5
  <2>2. CASE Arrive(q) \/ ConsumerLeaves(q)
    BY <2>2, <1>2 DEF Arrive, InputBlocked, InputPasses, ConsumerLeaves
  <2>3. CASE Recall(q)
    BY <2>3, <1>2 DEF Recall, RecallAnswered, RecallUnavailable, RecallLocal
  <2>4. CASE Investigate(q)
    BY <2>4, <1>2 DEF Investigate, NoQuery, GraphCompletes, GraphRaises,
       BuildSucceeds, BuildRaises
  <2>5. CASE Finalize(q)
    BY <2>5, <1>2, <1>3 DEF Finalize, Remember, DedupSkips, DedupFindsNone, Save,
       Trim, Assign, Respond
  <2>6. QED
    BY <2>1, <2>2, <2>3, <2>4, <2>5 DEF Serve
<1>6. CASE Restart
  BY <1>2, <1>6 DEF Restart
<1>7. QED
  BY <1>2, <1>4, <1>5, <1>6 DEF Next, vars

\* The finding on NeverWrittenTwice goes no further than its two windows: a
\* scenario is written twice only after two requests, or a request and a
\* review, were between their check and their create at the same time
\* (main.py, _mb_store; review_memory.py, _change_status).
THEOREM WrittenOnceSerialized == Spec /\ []Serialized => []NeverWrittenTwice
<1>1. Init => KeysInv
  BY DEF Init, StoreInit, KeysInv, NeverWrittenTwice, Idle
<1>2. TypeOK /\ RecordsInv /\ KeysInv /\ Serialized /\ [Next]_vars => KeysInv'
  BY KeysStep DEF RecordsInv
<1>3. KeysInv => NeverWrittenTwice
  BY DEF KeysInv
<1>4. QED
  BY <1>1, <1>2, <1>3, RecordsInvariant, PTL DEF Spec
-----------------------------------------------------------------------------
(* How long a request can go on.                                           *)

\* Steps of its own that a request in this phase has before it, at most.
StepsToGo(p) ==
  CASE p = "recall"       -> 11
    [] p = "recall_local" -> 10
    [] p = "investigate"  -> 9
    [] p = "build"        -> 8
    [] p = "remember"     -> 7
    [] p = "dedup"        -> 6
    [] p = "create"       -> 5
    [] p = "save"         -> 4
    [] p = "trim"         -> 3
    [] p = "assign"       -> 2
    [] p = "sanitize"     -> 1
    [] OTHER              -> 0

\* A request under way is left alone, comes closer to its end by what is done
\* for it, or loses its container or its consumer.
Progress ==
  \A r \in Runs : phase[r] \in Active =>
    \/ phase'[r] = phase[r]
    \/ StepsToGo(phase'[r]) < StepsToGo(phase[r])

\* Its caller has a response exactly when it is done.
AnswerGiven ==
  \A r \in Runs : phase[r] = "done" <=> response[r] # None

\* The response changes with the phase.
LEMMA ResponseOnlyAtTheEnd ==
  ASSUME NEW q \in Runs,
         InputPasses(q) \/ Recall(q) \/ Investigate(q) \/ ConsumerLeaves(q)
         \/ Remember(q) \/ DedupSkips(q) \/ DedupFindsNone(q) \/ Create(q)
         \/ Save(q) \/ Trim(q) \/ Assign(q)
  PROVE  /\ response' = response
         /\ phase[q] # "done"
         /\ \E p \in Phases \ {"done"} : phase' = [phase EXCEPT ![q] = p]
<1>1. CASE InputPasses(q) \/ ConsumerLeaves(q)
  BY <1>1 DEF InputPasses, ConsumerLeaves, Phases
<1>2. CASE Recall(q)
  BY <1>2 DEF Recall, RecallAnswered, RecallUnavailable, RecallLocal, Phases
<1>3. CASE Investigate(q)
  BY <1>3 DEF Investigate, NoQuery, GraphCompletes, GraphRaises, BuildSucceeds,
     BuildRaises, Phases
<1>4. CASE Remember(q) \/ Trim(q)
  BY <1>4 DEF Remember, Trim, Phases
<1>5. CASE \/ DedupSkips(q) \/ DedupFindsNone(q) \/ Create(q) \/ Save(q)
           \/ Assign(q)
  BY <1>5 DEF DedupSkips, DedupFindsNone, Create, Save, Assign, Phases
<1>6. QED
  BY <1>1, <1>2, <1>3, <1>4, <1>5

LEMMA AnswerStep ==
  ASSUME TypeOK, AnswerGiven, [Next]_vars
  PROVE  AnswerGiven'
<1>1. ASSUME NEW q \in Runs, InputBlocked(q) \/ Respond(q)
      PROVE  AnswerGiven'
  <2>1. PICK a \in Responses : response' = [response EXCEPT ![q] = a]
    BY <1>1 DEF InputBlocked, Respond, Responses
  <2>2. a # None
    BY NoneAssumption
  <2>3. phase' = [phase EXCEPT ![q] = "done"]
    BY <1>1 DEF InputBlocked, Respond
  <2>4. QED
    BY <2>1, <2>2, <2>3 DEF AnswerGiven, TypeOK
<1>2. ASSUME NEW q \in Runs,
             InputPasses(q) \/ Recall(q) \/ Investigate(q) \/ ConsumerLeaves(q)
             \/ Remember(q) \/ DedupSkips(q) \/ DedupFindsNone(q) \/ Create(q)
             \/ Save(q) \/ Trim(q) \/ Assign(q)
      PROVE  AnswerGiven'
  BY <1>2, ResponseOnlyAtTheEnd DEF AnswerGiven, TypeOK
<1>3. CASE Restart
  BY <1>3 DEF Restart, AnswerGiven, TypeOK, Active
<1>4. QED
  BY <1>1, <1>2, <1>3 DEF Next, Arrive, Serve, Finalize, vars, AnswerGiven

\* Each step done for a request brings it closer to its end.
LEMMA ServedProgress ==
  ASSUME TypeOK, NEW q \in Runs, Serve(q) \/ ConsumerLeaves(q)
  PROVE  \E p \in Phases : /\ phase' = [phase EXCEPT ![q] = p]
                           /\ StepsToGo(p) < StepsToGo(phase[q])
<1> USE DEF StepsToGo, Phases
<1>1. CASE Recall(q)
  BY <1>1 DEF Recall, RecallAnswered, RecallUnavailable, RecallLocal
<1>2. CASE Investigate(q)
  BY <1>2 DEF Investigate, NoQuery, GraphCompletes, GraphRaises, BuildSucceeds,
     BuildRaises
<1>3. CASE Remember(q)
  <2>1. /\ phase[q] = "remember"
        /\ \E p \in {"sanitize", "dedup", "save"} : phase' = [phase EXCEPT ![q] = p]
    BY <1>3 DEF Remember
  <2>2. \A p \in {"sanitize", "dedup", "save"} :
          p \in Phases /\ StepsToGo(p) < StepsToGo("remember")
    OBVIOUS
  <2>3. QED
    BY <2>1, <2>2
<1>4. CASE Trim(q)
  BY <1>4 DEF Trim
<1>5. CASE \/ DedupSkips(q) \/ DedupFindsNone(q) \/ Create(q) \/ Save(q)
           \/ Assign(q) \/ Respond(q)
  BY <1>5 DEF DedupSkips, DedupFindsNone, Create, Save, Assign, Respond
<1>6. CASE ConsumerLeaves(q)
  BY <1>6 DEF ConsumerLeaves
<1>7. QED
  BY <1>1, <1>2, <1>3, <1>4, <1>5, <1>6 DEF Serve, Finalize

LEMMA ProgressStep ==
  ASSUME TypeOK, [Next]_vars
  PROVE  Progress
<1>1. ASSUME NEW q \in Runs, Arrive(q)
      PROVE  Progress
  <2>1. \A r \in Runs \ {q} : phase'[r] = phase[r]
    BY <1>1 DEF Arrive, InputBlocked, InputPasses, TypeOK
  <2>2. phase[q] = "new"
    BY <1>1 DEF Arrive, InputBlocked, InputPasses
  <2>3. QED
    BY <2>1, <2>2 DEF Progress, Active
<1>2. ASSUME NEW q \in Runs, Serve(q) \/ ConsumerLeaves(q)
      PROVE  Progress
  <2>1. PICK p \in Phases : /\ phase' = [phase EXCEPT ![q] = p]
                            /\ StepsToGo(p) < StepsToGo(phase[q])
    BY <1>2, ServedProgress
  <2>2. QED
    BY <2>1 DEF Progress, TypeOK
<1>3. CASE Restart
  <2>1. ASSUME NEW r \in Runs, phase[r] \in Active
        PROVE  phase'[r] = "dropped" /\ StepsToGo(phase[r]) > 0
    BY <1>3, <2>1 DEF Restart, Active, Phases, StepsToGo
  <2>2. StepsToGo("dropped") = 0
    BY DEF StepsToGo
  <2>3. QED
    BY <2>1, <2>2 DEF Progress
<1>4. QED
  BY <1>1, <1>2, <1>3 DEF Next, vars, Progress

RequestsProgress == [][Progress]_vars

\* No request goes round in circles or waits for another: whatever reviewers,
\* other requests, outages and restarts do, it takes at most eleven steps of its
\* own to its end.  All that Answered needs besides is that they are taken.
THEOREM RequestsRunDown == Spec => RequestsProgress
<1>1. TypeOK /\ [Next]_vars => [Progress]_vars
  BY ProgressStep
<1>2. QED
  BY <1>1, LifecycleTypes, PTL DEF Spec, RequestsProgress

\* A request that came to its end has been answered: the response is there when
\* the request is done, and not before, whatever was flagged, failed or restarted.
THEOREM DoneMeansAnswered == Spec => []AnswerGiven
<1>1. Init => AnswerGiven
  BY NoneAssumption DEF Init, AnswerGiven
<1>2. TypeOK /\ AnswerGiven /\ [Next]_vars => AnswerGiven'
  BY AnswerStep
<1>3. QED
  BY <1>1, <1>2, LifecycleTypes, PTL DEF Spec
=============================================================================
