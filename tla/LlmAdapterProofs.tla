-------------------------- MODULE LlmAdapterProofs --------------------------
(***************************************************************************)
(* Proofs about LlmAdapter, for any number of requests and streams, any    *)
(* budgets and any answers and failures of the model.                      *)
(*                                                                         *)
(* The session of a request that keeps its context is its own because no   *)
(* other context ever points to its dict (SessionInv); usage is counted    *)
(* once because what llm_json still holds, what the nodes have added and   *)
(* what the router dropped make up the request's responses (TotalsInv).    *)
(***************************************************************************)
EXTENDS LlmAdapter, TLAPS

InFlight == {"ask", "asked", "sleep", "parse"}

SessionInv ==
  \A r \in Requests \ Streams :
    /\ at[r] = "idle" => answered[r] = 0
    /\ at[r] # "idle" => outer[r] = Own(r)
    /\ at[r] \in InFlight => inner[r] = Own(r)
    /\ sessions[Own(r)] = answered[r]
    /\ \A o \in Requests \ {r} : outer[o] # Own(r) /\ inner[o] # Own(r)
    /\ report[r] \in {None, answered[r]}
    /\ report[r] # None => at[r] = "done"

\* What llm_json has not returned yet.
Held(r) == IF at[r] \in InFlight THEN usage[r] ELSE 0

TotalsInv ==
  \A r \in Requests :
    /\ accounted[r] + unplanned[r] + Held(r) <= answered[r]
    /\ ~ raised[r] => accounted[r] + unplanned[r] + Held(r) = answered[r]

\* The attempts of one llm_json: those of a first budget, of which the last was
\* cut off - base of them, none if there has been no such answer - and at most
\* three with budget b.
Shape(log, base, b) ==
  /\ base \in 0 .. 3 /\ base <= Len(log) /\ Len(log) <= base + 3
  /\ base # 0 => log[1].budget < b /\ b <= Cap
  /\ \A i \in 1 .. base :
       /\ log[i].budget = log[1].budget
       /\ log[i].outcome = (IF i = base THEN "cut" ELSE "transient")
  /\ \A i \in base + 1 .. Len(log) :
       /\ log[i].budget = b
       /\ i < Len(log) => log[i].outcome = "transient"

Failing(log, base) == Len(log) > base => log[Len(log)].outcome = "transient"

Base(r) ==
  Len(asks[r]) - attempt[r] - (IF at[r] \in {"sleep", "parse"} THEN 1 ELSE 0)

Attempts(r) ==
  /\ at[r] \in InFlight =>
       /\ budget[r] \in Nat \ {0} /\ result[r] = None
       /\ Shape(asks[r], Base(r), budget[r])
       /\ retried[r] <=> Base(r) # 0
       /\ at[r] # "parse" => Failing(asks[r], Base(r))
  /\ at[r] = "sleep" => attempt[r] < 2
  /\ at[r] = "parse" => asks[r] # << >> /\ Text(r) \in Texts
  /\ at[r] \notin InFlight => AttemptsAreEarned(r) /\ EndsRightly(r)

AttemptInv == \A r \in Requests : Attempts(r)

IInv == TypeOK /\ SessionInv /\ TotalsInv /\ AttemptInv

-----------------------------------------------------------------------------
(* The dicts.                                                              *)

LEMMA DictsDiffer ==
  /\ \A r \in Requests : Own(r) \in Dicts /\ Node(r) \in Dicts
  /\ SetUp \in Dicts
  /\ \A r, o \in Requests : Own(r) = Own(o) => r = o
  /\ \A r, o \in Requests : Own(r) # Node(o)
  /\ \A r \in Requests : Own(r) # SetUp /\ Own(r) # None
BY AdapterAssumption DEF Own, Node, SetUp, Dicts

LEMMA InvInit == Init => IInv
<1> SUFFICES ASSUME Init PROVE IInv
  OBVIOUS
<1>1. TypeOK
  BY AdapterAssumption DEF Init, TypeOK
<1>2. SessionInv
  BY DictsDiffer DEF Init, SessionInv, InFlight
<1>3. TotalsInv
  BY DEF Init, TotalsInv, Held, InFlight
<1>4. AttemptInv
  BY DEF Init, AttemptInv, Attempts, Attempts, InFlight, AttemptsAreEarned, EndsRightly
<1>5. QED
  BY <1>1, <1>2, <1>3, <1>4 DEF IInv

-----------------------------------------------------------------------------
(* Types.                                                                  *)

LEMMA Updated ==
  ASSUME NEW D, NEW S, NEW f \in [D -> S], NEW x, NEW v, x \in D => v \in S
  PROVE  [f EXCEPT ![x] = v] \in [D -> S]
OBVIOUS

LEMMA LoggedType ==
  ASSUME TypeOK, NEW r \in Requests, NEW o \in Outcomes, budget[r] \in Nat,
         Logged(r, o)
  PROVE  asks' \in [Requests -> Seq([budget : Nat, outcome : Outcomes])]
<1> DEFINE Entry == [budget : Nat, outcome : Outcomes]
           e == [budget |-> budget[r], outcome |-> o]
           new == IF Len(asks[r]) < LogSize THEN Append(asks[r], e) ELSE asks[r]
<1>1. asks \in [Requests -> Seq(Entry)] /\ e \in Entry
  BY DEF TypeOK
<1>2. asks' = [asks EXCEPT ![r] = new]
  BY DEF Logged
<1> HIDE DEF Entry, e
<1>3. new \in Seq(Entry)
  BY <1>1
<1> HIDE DEF new
<1>4. asks' \in [Requests -> Seq(Entry)]
  BY <1>1, <1>2, <1>3, Updated
<1>5. QED
  BY <1>4 DEF Entry

LEMMA CountType ==
  ASSUME TypeOK, NEW r \in Requests, CountResponse(r)
  PROVE  /\ sessions' \in [Dicts -> Nat]
         /\ inner' \in [Requests -> {None} \cup Dicts]
<1>1. /\ sessions \in [Dicts -> Nat] /\ inner \in [Requests -> {None} \cup Dicts]
      /\ Node(r) \in Dicts
  BY DictsDiffer DEF TypeOK
<1>2. CASE inner[r] = None
  BY <1>1, <1>2 DEF CountResponse
<1>3. CASE inner[r] # None
  <2>1. inner[r] \in Dicts /\ sessions[inner[r]] + 1 \in Nat
    BY <1>1, <1>3
  <2>2. QED
    BY <1>1, <1>3, <2>1 DEF CountResponse
<1>4. QED
  BY <1>2, <1>3

\* The type invariant in parts, so that a step proves those it changes.
SessionsTyped ==
  /\ setUp \in {None, SetUp} /\ sessions \in [Dicts -> Nat]
  /\ outer \in [Requests -> {None} \cup Dicts]
  /\ inner \in [Requests -> {None} \cup Dicts]

CallTyped ==
  /\ attempt \in [Requests -> 0 .. 2]
  /\ budget \in [Requests -> {None} \cup Nat]
  /\ retried \in [Requests -> BOOLEAN]
  /\ usage \in [Requests -> Nat]

LogTyped == asks \in [Requests -> Seq([budget : Nat, outcome : Outcomes])]

ReturnTyped ==
  /\ at \in [Requests -> {"idle", "between", "ask", "asked", "sleep", "parse", "done"}]
  /\ result \in [Requests -> {None} \cup Results]
  /\ raised \in [Requests -> BOOLEAN]

TotalsTyped ==
  /\ accounted \in [Requests -> Nat] /\ unplanned \in [Requests -> Nat]
  /\ answered \in [Requests -> Nat]
  /\ report \in [Requests -> {None} \cup Nat]
  /\ calls \in 0 .. MaxCalls

LEMMA TypeParts ==
  TypeOK <=> SessionsTyped /\ CallTyped /\ LogTyped /\ ReturnTyped /\ TotalsTyped
BY DEF TypeOK, SessionsTyped, CallTyped, LogTyped, ReturnTyped, TotalsTyped

LEMMA TypeStep == IInv /\ [Next]_vars => TypeOK'
<1> SUFFICES ASSUME TypeOK, AttemptInv, [Next]_vars
             PROVE  (SessionsTyped /\ CallTyped /\ LogTyped /\ ReturnTyped /\ TotalsTyped)'
  BY TypeParts, PTL DEF IInv
<1> DEFINE Typed == SessionsTyped /\ CallTyped /\ LogTyped /\ ReturnTyped /\ TotalsTyped
<1>0. Typed
  BY TypeParts
<1>u. /\ UNCHANGED sessionVars => SessionsTyped'
      /\ UNCHANGED <<attempt, budget, retried, usage>> => CallTyped'
      /\ UNCHANGED asks => LogTyped'
      /\ UNCHANGED <<at, result, raised>> => ReturnTyped'
      /\ UNCHANGED <<accounted, unplanned, answered, report, calls>> => TotalsTyped'
  BY <1>0 DEF sessionVars, SessionsTyped, CallTyped, LogTyped, ReturnTyped, TotalsTyped
<1> USE <1>0, <1>u DEF sessionVars, callVars, totalVars, Goes
<1>1. ASSUME NEW r \in Requests, Begin(r) PROVE Typed'
  <2>1. SessionsTyped'
    BY <1>1, DictsDiffer DEF Begin, ResetSession, SessionsTyped
  <2>2. ReturnTyped'
    BY <1>1 DEF Begin, ReturnTyped
  <2>3. QED
    BY <1>1, <2>1, <2>2 DEF Begin
<1>2. ASSUME NEW r \in Requests, ResumeStream(r) PROVE Typed'
  <2>1. SessionsTyped'
    BY <1>2, DictsDiffer DEF ResumeStream, SessionsTyped
  <2>2. QED
    BY <1>2, <2>1 DEF ResumeStream
<1>3. ASSUME NEW r \in Requests, Finish(r) PROVE Typed'
  <2>1. ReturnTyped'
    BY <1>3 DEF Finish, ReturnTyped
  <2>2. TotalsTyped'
    BY <1>3 DEF Finish, TotalsTyped, SessionsTyped
  <2>3. QED
    BY <1>3, <2>1, <2>2 DEF Finish
<1>4. ASSUME NEW r \in Requests, NEW n \in Budgets, CallJson(r, n) PROVE Typed'
  <2>1. SessionsTyped'
    BY <1>4 DEF CallJson, SessionsTyped
  <2>2. CallTyped'
    BY <1>4, AdapterAssumption DEF CallJson, CallTyped
  <2>3. LogTyped'
    <3>1. asks' = [asks EXCEPT ![r] = << >>] /\ << >> \in Seq([budget : Nat, outcome : Outcomes])
      BY <1>4 DEF CallJson
    <3>2. QED
      BY <3>1, Updated DEF LogTyped
  <2>4. ReturnTyped'
    BY <1>4 DEF CallJson, ReturnTyped
  <2>5. TotalsTyped'
    BY <1>4, AdapterAssumption DEF CallJson, TotalsTyped
  <2>6. QED
    BY <2>1, <2>2, <2>3, <2>4, <2>5
<1>5. ASSUME NEW r \in Requests, Ask(r) PROVE Typed'
  <2>1. ReturnTyped'
    BY <1>5 DEF Ask, ReturnTyped
  <2>2. QED
    BY <1>5, <2>1 DEF Ask
<1>6. ASSUME NEW r \in Requests, Slept(r) PROVE Typed'
  <2>1. CallTyped'
    <3>1. attempt[r] \in 0 .. 2 /\ attempt[r] < 2
      BY <1>6 DEF Slept, AttemptInv, Attempts, CallTyped
    <3>2. QED
      BY <1>6, <3>1 DEF Slept, CallTyped
  <2>2. ReturnTyped'
    BY <1>6 DEF Slept, ReturnTyped
  <2>3. QED
    BY <1>6, <2>1, <2>2 DEF Slept
<1>7. ASSUME NEW r \in Requests, RetryTruncated(r) PROVE Typed'
  <2>1. CallTyped'
    <3>1. Lesser(2 * budget[r], Cap) \in Nat
      BY <1>7, AdapterAssumption DEF RetryTruncated, AttemptInv, Attempts, InFlight, Lesser
    <3>2. QED
      BY <1>7, <3>1 DEF RetryTruncated, CallTyped
  <2>2. ReturnTyped'
    BY <1>7 DEF RetryTruncated, ReturnTyped
  <2>3. QED
    BY <1>7, <2>1, <2>2 DEF RetryTruncated
<1>8. ASSUME NEW r \in Requests, Return(r) PROVE Typed'
  <2>1. ReturnTyped'
    <3>1. Parsed(r) \in Results
      BY <1>8 DEF Return, AttemptInv, Attempts, Parsed, Texts, Results
    <3>2. QED
      BY <1>8, <3>1 DEF Return, Accumulates, PlansNothing, NodeRaises, ReturnTyped
  <2>2. TotalsTyped'
    BY <1>8 DEF Return, Accumulates, PlansNothing, NodeRaises, TotalsTyped, CallTyped
  <2>3. QED
    BY <1>8, <2>1, <2>2 DEF Return
<1>9. ASSUME NEW r \in Requests, NEW o \in Texts \cup {"blocked"}, at[r] = "asked",
             Answer(r, o)
      PROVE  Typed'
  <2>1. SessionsTyped'
    BY <1>9, CountType DEF Answer, SessionsTyped
  <2>2. LogTyped'
    BY <1>9, LoggedType DEF Answer, AttemptInv, Attempts, InFlight, Outcomes, LogTyped
  <2>3. CallTyped'
    BY <1>9 DEF Answer, Adds, CallTyped
  <2>4. ReturnTyped'
    BY <1>9 DEF Answer, Raise, ReturnTyped, Results
  <2>5. TotalsTyped'
    BY <1>9 DEF Answer, TotalsTyped
  <2>6. QED
    BY <2>1, <2>2, <2>3, <2>4, <2>5
<1>10. ASSUME NEW r \in Requests, NEW o \in Failures, at[r] = "asked",
              AttemptFails(r, o)
       PROVE  Typed'
  <2>1. LogTyped'
    BY <1>10, LoggedType DEF AttemptFails, AttemptInv, Attempts, InFlight, Outcomes, LogTyped
  <2>2. ReturnTyped'
    BY <1>10 DEF AttemptFails, Raise, ReturnTyped, Results
  <2>3. QED
    BY <1>10, <2>1, <2>2 DEF AttemptFails
<1>11. CASE UNCHANGED vars
  BY <1>11 DEF vars
<1>12. QED
  BY <1>1, <1>2, <1>3, <1>4, <1>5, <1>6, <1>7, <1>8, <1>9, <1>10, <1>11
  DEF Next, Advance, Model

-----------------------------------------------------------------------------
(* Sessions and totals.                                                    *)

\* Which dict a response is counted in.
LEMMA Counted ==
  ASSUME TypeOK, SessionInv, NEW r \in Requests, at[r] \in InFlight, CountResponse(r)
  PROVE  \A x \in Requests \ Streams :
           /\ sessions'[Own(x)] = sessions[Own(x)] + (IF x = r THEN 1 ELSE 0)
           /\ inner'[x] = inner[x] \/ (x = r /\ inner'[r] = Own(r))
           /\ \A o \in Requests \ {x} : inner'[o] # Own(x)
<1> SUFFICES ASSUME NEW x \in Requests \ Streams
             PROVE  /\ sessions'[Own(x)] = sessions[Own(x)] + (IF x = r THEN 1 ELSE 0)
                    /\ inner'[x] = inner[x] \/ (x = r /\ inner'[r] = Own(r))
                    /\ \A o \in Requests \ {x} : inner'[o] # Own(x)
  OBVIOUS
<1>1. /\ sessions \in [Dicts -> Nat] /\ inner \in [Requests -> {None} \cup Dicts]
      /\ Own(x) \in Dicts /\ Node(r) \in Dicts /\ Own(x) # Node(r) /\ Own(x) # None
  BY DictsDiffer DEF TypeOK
<1>2. \A o \in Requests \ {x} : inner[o] # Own(x)
  BY DEF SessionInv
<1>3. x = r => inner[r] = Own(r)
  BY DEF SessionInv
<1>4. CASE inner[r] = None
  <2>1. x # r
    BY <1>1, <1>3, <1>4
  <2>2. QED
    BY <1>1, <1>2, <1>4, <2>1 DEF CountResponse
<1>5. CASE inner[r] # None
  <2>1. inner' = inner /\ sessions' = [sessions EXCEPT ![inner[r]] = @ + 1]
    BY <1>5 DEF CountResponse
  <2>2. CASE x = r
    BY <1>1, <1>2, <1>3, <2>1, <2>2
  <2>3. CASE x # r
    BY <1>1, <1>2, <2>1, <2>3
  <2>4. QED
    BY <2>2, <2>3
<1>6. QED
  BY <1>4, <1>5

LEMMA SessionStep == IInv /\ [Next]_vars => SessionInv'
<1> SUFFICES ASSUME TypeOK, SessionInv, [Next]_vars PROVE SessionInv'
  BY DEF IInv
<1> USE DEF sessionVars, callVars, totalVars, Goes
<1>t. /\ outer \in [Requests -> {None} \cup Dicts]
      /\ inner \in [Requests -> {None} \cup Dicts]
      /\ sessions \in [Dicts -> Nat] /\ setUp \in {None, SetUp}
      /\ answered \in [Requests -> Nat] /\ report \in [Requests -> {None} \cup Nat]
      /\ at \in [Requests -> {"idle", "between", "ask", "asked", "sleep", "parse", "done"}]
  BY DEF TypeOK
<1>1. ASSUME NEW r \in Requests, Begin(r) PROVE SessionInv'
  <2>1. /\ outer' = [outer EXCEPT ![r] = Own(r)]
        /\ sessions' = [sessions EXCEPT ![Own(r)] = 0]
        /\ at[r] = "idle" /\ at' = [at EXCEPT ![r] = "between"]
        /\ UNCHANGED <<inner, answered, report>>
    BY <1>1 DEF Begin, ResetSession
  <2>2. QED
    BY <1>t, <2>1, DictsDiffer DEF SessionInv, InFlight
<1>2. ASSUME NEW r \in Requests, ResumeStream(r) PROVE SessionInv'
  BY <1>t, <1>2, DictsDiffer DEF ResumeStream, SessionInv, InFlight
<1>3. ASSUME NEW r \in Requests, Finish(r) PROVE SessionInv'
  <2>1. r \notin Streams => outer[r] = Own(r) /\ sessions[Own(r)] = answered[r] /\ outer[r] # None
    BY <1>3, DictsDiffer DEF Finish, SessionInv
  <2>2. QED
    BY <1>t, <1>3, <2>1 DEF Finish, SessionInv, InFlight
<1>4. ASSUME NEW r \in Requests, NEW n \in Budgets, CallJson(r, n) PROVE SessionInv'
  <2>1. /\ at[r] = "between" /\ at' = [at EXCEPT ![r] = "ask"]
        /\ inner' = [inner EXCEPT ![r] = outer[r]]
        /\ UNCHANGED <<sessions, outer, answered, report>>
    BY <1>4 DEF CallJson
  <2>2. QED
    BY <1>t, <2>1 DEF SessionInv, InFlight
<1>5. ASSUME NEW r \in Requests, Advance(r) PROVE SessionInv'
  <2>1. /\ at[r] \in InFlight /\ UNCHANGED <<sessions, outer, inner, answered, report>>
        /\ \E to \in InFlight \cup {"between"} : at' = [at EXCEPT ![r] = to]
    BY <1>5 DEF Advance, Ask, Slept, RetryTruncated, Return, InFlight
  <2>2. QED
    BY <1>t, <2>1 DEF SessionInv, InFlight
<1>6. ASSUME NEW r \in Requests, NEW o \in Texts \cup {"blocked"}, at[r] = "asked",
             Answer(r, o)
      PROVE  SessionInv'
  <2>1. /\ CountResponse(r) /\ answered' = [answered EXCEPT ![r] = @ + 1]
        /\ UNCHANGED <<outer, report>>
        /\ at' = [at EXCEPT ![r] = "between"] \/ at' = [at EXCEPT ![r] = "parse"]
    BY <1>6 DEF Answer, Raise
  <2>2. \A x \in Requests \ Streams :
           /\ sessions'[Own(x)] = sessions[Own(x)] + (IF x = r THEN 1 ELSE 0)
           /\ inner'[x] = inner[x] \/ (x = r /\ inner'[r] = Own(r))
           /\ \A y \in Requests \ {x} : inner'[y] # Own(x)
    BY <1>6, <2>1, Counted DEF InFlight
  <2>3. ASSUME NEW x \in Requests \ Streams
        PROVE  /\ at'[x] = "idle" => answered'[x] = 0
               /\ at'[x] # "idle" => outer'[x] = Own(x)
               /\ at'[x] \in InFlight => inner'[x] = Own(x)
               /\ sessions'[Own(x)] = answered'[x]
               /\ \A y \in Requests \ {x} : outer'[y] # Own(x) /\ inner'[y] # Own(x)
               /\ report'[x] \in {None, answered'[x]}
               /\ report'[x] # None => at'[x] = "done"
    <3>1. CASE x = r
      BY <1>6, <1>t, <2>1, <2>2, <3>1 DEF SessionInv, InFlight
    <3>2. CASE x # r
      BY <1>t, <2>1, <2>2, <3>2 DEF SessionInv, InFlight
    <3>3. QED
      BY <3>1, <3>2
  <2>4. QED
    BY <2>3 DEF SessionInv
<1>7. ASSUME NEW r \in Requests, NEW o \in Failures, at[r] = "asked",
             AttemptFails(r, o)
      PROVE  SessionInv'
  <2>1. /\ UNCHANGED <<sessions, outer, inner, answered, report>>
        /\ at' = [at EXCEPT ![r] = "between"] \/ at' = [at EXCEPT ![r] = "sleep"]
    BY <1>7 DEF AttemptFails, Raise
  <2>2. QED
    BY <1>7, <1>t, <2>1 DEF SessionInv, InFlight
<1>8. CASE UNCHANGED vars
  BY <1>8 DEF vars, SessionInv
<1>9. QED
  BY <1>1, <1>2, <1>3, <1>4, <1>5, <1>6, <1>7, <1>8 DEF Next, Model

LEMMA TotalsStep == IInv /\ [Next]_vars => TotalsInv'
<1> SUFFICES ASSUME TypeOK, TotalsInv, [Next]_vars PROVE TotalsInv'
  BY DEF IInv
<1> USE DEF callVars, totalVars, Goes
<1>t. /\ usage \in [Requests -> Nat] /\ accounted \in [Requests -> Nat]
      /\ unplanned \in [Requests -> Nat]
      /\ answered \in [Requests -> Nat] /\ raised \in [Requests -> BOOLEAN]
      /\ at \in [Requests -> {"idle", "between", "ask", "asked", "sleep", "parse", "done"}]
  BY DEF TypeOK
<1>1. ASSUME NEW r \in Requests, Begin(r) \/ ResumeStream(r) \/ Finish(r) PROVE TotalsInv'
  <2>1. /\ UNCHANGED <<usage, accounted, unplanned, answered, raised>>
        /\ at' = at \/ (at[r] \notin InFlight
                        /\ \E to \in {"between", "done"} : at' = [at EXCEPT ![r] = to])
    BY <1>1 DEF Begin, ResumeStream, Finish, InFlight
  <2>2. QED
    BY <1>t, <2>1 DEF TotalsInv, Held, InFlight
<1>2. ASSUME NEW r \in Requests, NEW n \in Budgets, CallJson(r, n) PROVE TotalsInv'
  <2>1. /\ UNCHANGED <<accounted, unplanned, answered, raised>> /\ usage' = [usage EXCEPT ![r] = 0]
        /\ at[r] = "between" /\ at' = [at EXCEPT ![r] = "ask"]
    BY <1>2 DEF CallJson
  <2>2. QED
    BY <1>t, <2>1 DEF TotalsInv, Held, InFlight
<1>3. ASSUME NEW r \in Requests, Ask(r) \/ Slept(r) \/ RetryTruncated(r) PROVE TotalsInv'
  <2>1. /\ UNCHANGED <<usage, accounted, unplanned, answered, raised>> /\ at[r] \in InFlight
        /\ \E to \in InFlight : at' = [at EXCEPT ![r] = to]
    BY <1>3 DEF Ask, Slept, RetryTruncated, InFlight
  <2>2. QED
    BY <1>t, <2>1 DEF TotalsInv, Held, InFlight
<1>4. ASSUME NEW r \in Requests, Return(r) PROVE TotalsInv'
  <2>1. /\ UNCHANGED <<usage, answered>> /\ at[r] = "parse"
        /\ at' = [at EXCEPT ![r] = "between"]
    BY <1>4 DEF Return
  <2>2. CASE Accumulates(r)
    BY <1>t, <2>1, <2>2 DEF Accumulates, TotalsInv, Held, InFlight
  <2>3. CASE PlansNothing(r)
    BY <1>t, <2>1, <2>3 DEF PlansNothing, TotalsInv, Held, InFlight
  <2>4. CASE NodeRaises(r)
    BY <1>t, <2>1, <2>4 DEF NodeRaises, TotalsInv, Held, InFlight
  <2>5. QED
    BY <1>4, <2>2, <2>3, <2>4 DEF Return
<1>5. ASSUME NEW r \in Requests, NEW o \in Texts \cup {"blocked"}, at[r] = "asked",
             Answer(r, o)
      PROVE  TotalsInv'
  <2>1. UNCHANGED <<accounted, unplanned>> /\ answered' = [answered EXCEPT ![r] = @ + 1]
    BY <1>5 DEF Answer
  <2>2. CASE /\ usage' = usage /\ raised' = [raised EXCEPT ![r] = TRUE]
             /\ at' = [at EXCEPT ![r] = "between"]
    BY <1>5, <1>t, <2>1, <2>2 DEF TotalsInv, Held, InFlight
  <2>3. CASE /\ usage' = [usage EXCEPT ![r] = @ + 1] /\ raised' = raised
             /\ at' = [at EXCEPT ![r] = "parse"]
    BY <1>5, <1>t, <2>1, <2>3 DEF TotalsInv, Held, InFlight
  <2>4. QED
    BY <1>5, <2>2, <2>3 DEF Answer, Raise, Adds
<1>6. ASSUME NEW r \in Requests, NEW o \in Failures, at[r] = "asked",
             AttemptFails(r, o)
      PROVE  TotalsInv'
  <2>1. UNCHANGED <<usage, accounted, unplanned, answered>>
    BY <1>6 DEF AttemptFails
  <2>2. CASE raised' = raised /\ at' = [at EXCEPT ![r] = "sleep"]
    BY <1>6, <1>t, <2>1, <2>2 DEF TotalsInv, Held, InFlight
  <2>3. CASE raised' = [raised EXCEPT ![r] = TRUE] /\ at' = [at EXCEPT ![r] = "between"]
    BY <1>6, <1>t, <2>1, <2>3 DEF TotalsInv, Held, InFlight
  <2>4. QED
    BY <1>6, <2>2, <2>3 DEF AttemptFails, Raise
<1>7. CASE UNCHANGED vars
  BY <1>7 DEF vars, TotalsInv, Held
<1>8. QED
  BY <1>1, <1>2, <1>3, <1>4, <1>5, <1>6, <1>7 DEF Next, Advance, Model

-----------------------------------------------------------------------------
(* Attempts.                                                               *)

Entry == [budget : Nat, outcome : Outcomes]

\* AttemptsAreEarned, of a log.
Earned(log) ==
  /\ \A i, j \in DOMAIN log : j >= i + 3 => log[j].budget # log[i].budget
  /\ \A i, j \in DOMAIN log : j = i + 1 =>
       \/ log[i].outcome = "transient" /\ log[j].budget = log[i].budget
       \/ /\ log[i].outcome = "cut" /\ log[i].budget = log[1].budget
          /\ log[i].budget < log[j].budget /\ log[j].budget <= Cap

LEMMA EarnedByShape ==
  ASSUME NEW log \in Seq(Entry), NEW base, NEW b \in Nat, Shape(log, base, b)
  PROVE  Earned(log)
<1>1. /\ base \in 0 .. 3 /\ base <= Len(log) /\ Len(log) <= base + 3
      /\ DOMAIN log = 1 .. Len(log) /\ Len(log) \in Nat
      /\ \A i \in 1 .. Len(log) : log[i].budget \in Nat
  <2>1. /\ DOMAIN log = 1 .. Len(log) /\ Len(log) \in Nat
        /\ \A i \in 1 .. Len(log) : log[i] \in Entry
    OBVIOUS
  <2>2. \A e \in Entry : e.budget \in Nat
    BY DEF Entry
  <2>3. QED
    BY <2>1, <2>2 DEF Shape
<1>2. /\ base # 0 => log[1].budget < b /\ b <= Cap
      /\ \A i \in 1 .. base : log[i].budget = log[1].budget
      /\ \A i \in base + 1 .. Len(log) : log[i].budget = b
  BY DEF Shape
<1>3. ASSUME NEW i \in 1 .. Len(log), NEW j \in 1 .. Len(log), j >= i + 3
      PROVE  log[j].budget # log[i].budget
  <2>1. i \in 1 .. base /\ j \in base + 1 .. Len(log) /\ base # 0 /\ 1 \in 1 .. Len(log)
    BY <1>1, <1>3
  <2>2. log[j].budget = b /\ log[i].budget = log[1].budget /\ log[1].budget < b
    BY <1>2, <2>1
  <2>3. QED
    BY <1>1, <2>1, <2>2
<1>4. ASSUME NEW i \in 1 .. Len(log), NEW j \in 1 .. Len(log), j = i + 1
      PROVE  \/ log[i].outcome = "transient" /\ log[j].budget = log[i].budget
             \/ /\ log[i].outcome = "cut" /\ log[i].budget = log[1].budget
                /\ log[i].budget < log[j].budget /\ log[j].budget <= Cap
  <2>1. CASE i < base
    <3>1. i \in 1 .. base /\ j \in 1 .. base /\ i # base
      BY <1>1, <1>4, <2>1
    <3>2. log[i].outcome = "transient"
      BY <3>1 DEF Shape
    <3>3. QED
      BY <1>2, <3>1, <3>2
  <2>2. CASE i = base
    <3>1. i \in 1 .. base /\ j \in base + 1 .. Len(log) /\ base # 0
      BY <1>1, <1>4, <2>2
    <3>2. log[i].outcome = "cut"
      BY <2>2, <3>1 DEF Shape
    <3>3. QED
      BY <1>2, <3>1, <3>2
  <2>3. CASE i > base
    <3>1. i \in base + 1 .. Len(log) /\ j \in base + 1 .. Len(log) /\ i < Len(log)
      BY <1>1, <1>4, <2>3
    <3>2. log[i].outcome = "transient"
      BY <3>1 DEF Shape
    <3>3. QED
      BY <1>2, <3>1, <3>2
  <2>4. QED
    BY <1>1, <2>1, <2>2, <2>3
<1>5. QED
  BY <1>1, <1>3, <1>4 DEF Earned

\* One more attempt with the budget of those that failed.
LEMMA OneMore ==
  ASSUME NEW log \in Seq(Entry), NEW base, NEW b \in Nat, NEW o \in Outcomes,
         Shape(log, base, b), Failing(log, base), Len(log) <= base + 2
  PROVE  /\ Shape(Append(log, [budget |-> b, outcome |-> o]), base, b)
         /\ o = "transient" => Failing(Append(log, [budget |-> b, outcome |-> o]), base)
<1> DEFINE e == [budget |-> b, outcome |-> o]
           new == Append(log, e)
<1>1. e \in Entry /\ e.budget = b /\ e.outcome = o
  BY DEF Entry
<1> HIDE DEF e
<1>2. /\ base \in 0 .. 3 /\ base <= Len(log) /\ Len(log) \in Nat
      /\ Len(new) = Len(log) + 1 /\ new[Len(log) + 1] = e
      /\ \A i \in 1 .. Len(log) : new[i] = log[i]
  BY <1>1 DEF Shape
<1> HIDE DEF new
<1>3. base # 0 => new[1].budget < b /\ b <= Cap
  BY <1>2 DEF Shape
<1>4. ASSUME NEW i \in 1 .. base
      PROVE  /\ new[i].budget = new[1].budget
             /\ new[i].outcome = (IF i = base THEN "cut" ELSE "transient")
  <2>1. i \in 1 .. Len(log) /\ 1 \in 1 .. Len(log)
    BY <1>2, <1>4
  <2>2. QED
    BY <1>2, <1>4, <2>1 DEF Shape
<1>5. ASSUME NEW i \in base + 1 .. Len(new)
      PROVE  new[i].budget = b /\ (i < Len(new) => new[i].outcome = "transient")
  <2>1. CASE i = Len(log) + 1
    BY <1>1, <1>2, <2>1
  <2>2. CASE i \in base + 1 .. Len(log)
    <3>1. new[i] = log[i] /\ log[i].budget = b
      BY <1>2, <2>2 DEF Shape
    <3>2. log[i].outcome = "transient"
      BY <1>2, <2>2 DEF Shape, Failing
    <3>3. QED
      BY <3>1, <3>2
  <2>3. QED
    BY <1>2, <2>1, <2>2
<1>6. Shape(new, base, b)
  BY <1>2, <1>3, <1>4, <1>5 DEF Shape
<1>7. o = "transient" => Failing(new, base)
  BY <1>1, <1>2 DEF Failing
<1>8. QED
  BY <1>6, <1>7 DEF new, e

\* An answer that was cut off closes the attempts of the first budget.
LEMMA CutOff ==
  ASSUME NEW log \in Seq(Entry), NEW b \in Nat, NEW larger \in Nat,
         Shape(log, 0, b), log # << >>, log[Len(log)].outcome = "cut",
         b < larger, larger <= Cap
  PROVE  Shape(log, Len(log), larger) /\ Failing(log, Len(log))
<1>1. /\ Len(log) \in 1 .. 3 /\ Len(log) \in 1 .. Len(log) /\ 1 \in 1 .. Len(log)
      /\ \A i \in 1 .. Len(log) : log[i].budget = b /\ (i < Len(log) => log[i].outcome = "transient")
  <2>1. Len(log) \in Nat /\ Len(log) # 0
    OBVIOUS
  <2>2. /\ Len(log) <= 0 + 3
        /\ \A i \in 0 + 1 .. Len(log) :
             log[i].budget = b /\ (i < Len(log) => log[i].outcome = "transient")
    BY DEF Shape
  <2>3. Len(log) \in 1 .. 3 /\ Len(log) \in 1 .. Len(log) /\ 1 \in 1 .. Len(log)
    <3>1. Len(log) <= 3
      BY <2>2
    <3>2. \A n \in Nat : n # 0 /\ n <= 3 => n \in 1 .. 3 /\ n \in 1 .. n /\ 1 \in 1 .. n
      OBVIOUS
    <3>3. QED
      BY <2>1, <3>1, <3>2, Zenon
  <2>4. 0 + 1 = 1
    OBVIOUS
  <2>5. QED
    BY <2>2, <2>3, <2>4
<1>2. \A i \in 1 .. Len(log) : i # Len(log) => i < Len(log)
  BY <1>1
<1>3. QED
  BY <1>1, <1>2 DEF Shape, Failing

\* Another request's step leaves the attempts of this one alone.
LEMMA AttemptsKept ==
  ASSUME NEW x \in Requests, Attempts(x),
         at'[x] = at[x], budget'[x] = budget[x], result'[x] = result[x],
         asks'[x] = asks[x], retried'[x] = retried[x], attempt'[x] = attempt[x]
  PROVE  Attempts(x)'
BY DEF Attempts, Base, Text, LastAsk, AttemptsAreEarned, EndsRightly, Detected

\* What a step of request r that logs an answer or an error finds and leaves.
LEMMA LogStep ==
  ASSUME TypeOK, NEW r \in Requests, NEW o \in Outcomes, at[r] = "asked",
         Attempts(r), Logged(r, o), attempt' = attempt, budget' = budget
  PROVE  LET base == Len(asks[r]) - attempt[r]
         IN /\ asks'[r] \in Seq(Entry) /\ asks'[r] # << >>
            /\ Len(asks'[r]) = base + attempt[r] + 1 /\ base \in 0 .. 3
            /\ retried[r] <=> base # 0
            /\ asks'[r][Len(asks'[r])].outcome = o
            /\ Shape(asks'[r], base, budget[r])
            /\ o = "transient" => Failing(asks'[r], base)
            /\ Earned(asks'[r]) /\ budget[r] \in Nat \ {0} /\ result[r] = None
<1> DEFINE base == Len(asks[r]) - attempt[r]
           e == [budget |-> budget[r], outcome |-> o]
<1>1. /\ asks \in [Requests -> Seq(Entry)] /\ attempt[r] \in 0 .. 2
      /\ budget[r] \in Nat \ {0} /\ result[r] = None /\ Len(asks[r]) \in Nat
  <2>1. asks \in [Requests -> Seq(Entry)] /\ attempt \in [Requests -> 0 .. 2]
    BY DEF TypeOK, Entry
  <2>2. budget[r] \in Nat \ {0} /\ result[r] = None
    BY DEF Attempts, InFlight
  <2>3. QED
    BY <2>1, <2>2
<1>2. /\ Shape(asks[r], base, budget[r]) /\ Failing(asks[r], base)
      /\ retried[r] <=> base # 0
  <2>1. Base(r) = base
    BY <1>1 DEF Base
  <2>2. QED
    BY <2>1 DEF Attempts, InFlight
<1>3. base \in 0 .. 3 /\ Len(asks[r]) = base + attempt[r] /\ Len(asks[r]) <= base + 2
  BY <1>1, <1>2 DEF Shape
<1>4. e \in Entry /\ e.outcome = o
  BY <1>1 DEF Entry
<1>5. asks'[r] = Append(asks[r], e)
  <2>1. Len(asks[r]) < LogSize
    BY <1>1, <1>3 DEF LogSize
  <2>2. QED
    BY <1>1, <2>1 DEF Logged
<1>6. /\ asks'[r] \in Seq(Entry) /\ Len(asks'[r]) = Len(asks[r]) + 1
      /\ asks'[r][Len(asks'[r])] = e /\ asks'[r] # << >>
  <2> HIDE DEF e
  <2>1. asks[r] \in Seq(Entry) /\ e \in Entry
    BY <1>1, <1>4
  <2>2. QED
    BY <1>5, <2>1
<1>7. /\ Shape(asks'[r], base, budget[r])
      /\ o = "transient" => Failing(asks'[r], base)
  BY <1>1, <1>2, <1>3, <1>5, OneMore
<1>8. Earned(asks'[r])
  BY <1>1, <1>6, <1>7, EarnedByShape
<1>9. QED
  BY <1>1, <1>2, <1>3, <1>4, <1>6, <1>7, <1>8

LEMMA AttemptStep == IInv /\ [Next]_vars => AttemptInv'
<1> SUFFICES ASSUME TypeOK, AttemptInv, [Next]_vars PROVE AttemptInv'
  BY DEF IInv
<1> USE DEF callVars, totalVars, Goes
<1>t. /\ at \in [Requests -> {"idle", "between", "ask", "asked", "sleep", "parse", "done"}]
      /\ attempt \in [Requests -> 0 .. 2] /\ budget \in [Requests -> {None} \cup Nat]
      /\ retried \in [Requests -> BOOLEAN] /\ result \in [Requests -> {None} \cup Results]
      /\ asks \in [Requests -> Seq(Entry)]
  BY DEF TypeOK, Entry
<1>o. ASSUME NEW r \in Requests, Attempts(r)',
             \A x \in Requests \ {r} :
               /\ at'[x] = at[x] /\ budget'[x] = budget[x] /\ result'[x] = result[x]
               /\ asks'[x] = asks[x] /\ retried'[x] = retried[x]
               /\ attempt'[x] = attempt[x]
      PROVE  AttemptInv'
  <2>1. ASSUME NEW x \in Requests PROVE Attempts(x)'
    <3>1. CASE x = r
      BY <1>o, <3>1
    <3>2. CASE x # r
      BY <1>o, <3>2, AttemptsKept DEF AttemptInv
    <3>3. QED
      BY <3>1, <3>2
  <2>2. QED
    BY <2>1 DEF AttemptInv
<1>1. ASSUME NEW r \in Requests, Begin(r) \/ ResumeStream(r) \/ Finish(r) PROVE AttemptInv'
  <2>1. /\ UNCHANGED callVars
        /\ at' = at \/ (at[r] \notin InFlight
                        /\ \E to \in {"between", "done"} : at' = [at EXCEPT ![r] = to])
    BY <1>1 DEF Begin, ResumeStream, Finish, InFlight
  <2>2. Attempts(r)'
    <3>1. CASE at' = at
      BY <2>1, <3>1, AttemptsKept DEF AttemptInv
    <3>2. CASE at[r] \notin InFlight /\ at'[r] \in {"between", "done"}
      <4>1. AttemptsAreEarned(r) /\ EndsRightly(r)
        BY <3>2 DEF AttemptInv, Attempts
      <4>2. (AttemptsAreEarned(r) /\ EndsRightly(r))'
        BY <2>1, <4>1 DEF AttemptsAreEarned, EndsRightly, Detected, Text, LastAsk
      <4>3. QED
        BY <3>2, <4>2 DEF Attempts, InFlight
    <3>3. QED
      BY <1>t, <2>1, <3>1, <3>2
  <2>3. QED
    BY <1>o, <1>t, <2>1, <2>2
<1>2. ASSUME NEW r \in Requests, NEW n \in Budgets, CallJson(r, n) PROVE AttemptInv'
  <2>1. /\ at'[r] = "ask" /\ attempt'[r] = 0 /\ budget'[r] = n /\ retried'[r] = FALSE
        /\ asks'[r] = << >> /\ result'[r] = None /\ n \in Nat \ {0}
    BY <1>2, <1>t, AdapterAssumption DEF CallJson
  <2>2. Base(r)' = 0 /\ Shape(<< >>, 0, n) /\ Failing(<< >>, 0)
    BY <2>1 DEF Base, Shape, Failing
  <2>3. Attempts(r)'
    BY <2>1, <2>2 DEF Attempts, InFlight
  <2>4. QED
    BY <1>2, <1>o, <1>t, <2>3 DEF CallJson
<1>3. ASSUME NEW r \in Requests, Ask(r) \/ Slept(r) PROVE AttemptInv'
  <2>1. /\ UNCHANGED <<budget, retried, asks, result>>
        /\ \/ at[r] = "ask" /\ at'[r] = "asked" /\ attempt' = attempt
           \/ at[r] = "sleep" /\ at'[r] = "ask" /\ attempt'[r] = attempt[r] + 1
    BY <1>3, <1>t DEF Ask, Slept
  <2>2. Len(asks[r]) \in Nat /\ attempt[r] \in 0 .. 2
    BY <1>t
  <2>3. Base(r)' = Base(r)
    BY <2>1, <2>2 DEF Base
  <2>4. Attempts(r)'
    BY <2>1, <2>3 DEF AttemptInv, Attempts, InFlight
  <2>5. QED
    BY <1>3, <1>o, <1>t, <2>4 DEF Ask, Slept
<1>4. ASSUME NEW r \in Requests, RetryTruncated(r) PROVE AttemptInv'
  <2> DEFINE larger == Lesser(2 * budget[r], Cap)
  <2>1. /\ at[r] = "parse" /\ at'[r] = "ask" /\ attempt'[r] = 0 /\ budget'[r] = larger
        /\ retried'[r] = TRUE /\ UNCHANGED <<asks, result>>
        /\ Text(r) = "cut" /\ budget[r] < Cap /\ ~ retried[r]
    BY <1>4, <1>t DEF RetryTruncated, CutShort
  <2>2. /\ budget[r] \in Nat \ {0} /\ result[r] = None /\ Shape(asks[r], Base(r), budget[r])
        /\ Base(r) = 0 /\ asks[r] # << >>
    BY <2>1 DEF AttemptInv, Attempts, InFlight
  <2>3. larger \in Nat \ {0} /\ budget[r] < larger /\ larger <= Cap
    BY <2>1, <2>2, AdapterAssumption DEF Lesser
  <2>4. /\ Shape(asks[r], Len(asks[r]), larger) /\ Failing(asks[r], Len(asks[r]))
        /\ Len(asks[r]) # 0 /\ Len(asks[r]) \in Nat
    <3>1. asks[r] \in Seq(Entry) /\ asks[r][Len(asks[r])].outcome = "cut"
      BY <1>t, <2>1 DEF Text, LastAsk
    <3>2. QED
      BY <2>2, <2>3, <3>1, CutOff
  <2>5. Base(r)' = Len(asks[r])
    BY <2>1, <2>4 DEF Base
  <2>6. Attempts(r)'
    BY <2>1, <2>2, <2>3, <2>4, <2>5 DEF Attempts, InFlight
  <2>7. QED
    BY <1>4, <1>o, <1>t, <2>6 DEF RetryTruncated
<1>5. ASSUME NEW r \in Requests, Return(r) PROVE AttemptInv'
  <2>1. /\ at[r] = "parse" /\ at'[r] = "between" /\ UNCHANGED <<asks, retried>>
        /\ result'[r] = Parsed(r)
    BY <1>5, <1>t DEF Return
  <2>2. /\ budget[r] \in Nat /\ Shape(asks[r], Base(r), budget[r])
        /\ retried[r] <=> Base(r) # 0
        /\ Text(r) \in Texts /\ asks[r] \in Seq(Entry) /\ asks[r] # << >>
    BY <1>t, <2>1 DEF AttemptInv, Attempts, InFlight
  <2>3. AttemptsAreEarned(r)'
    BY <2>1, <2>2, EarnedByShape DEF Earned, AttemptsAreEarned
  <2>4. Text(r) = "null" /\ ~ retried[r] =>
          \A i \in 1 .. Len(asks[r]) : asks[r][i].outcome # "cut"
    <3> SUFFICES ASSUME Text(r) = "null", ~ retried[r], NEW i \in 1 .. Len(asks[r])
                 PROVE  asks[r][i].outcome # "cut"
      OBVIOUS
    <3>1. i < Len(asks[r]) => asks[r][i].outcome = "transient"
      BY <2>2 DEF Shape
    <3>2. asks[r][Len(asks[r])].outcome = "null"
      BY DEF Text, LastAsk
    <3>3. QED
      BY <2>2, <3>1, <3>2
  <2>5. EndsRightly(r)'
    <3>1. Text(r)' = Text(r)
      BY <2>1 DEF Text, LastAsk
    <3>2. /\ Parsed(r) # "raised"
          /\ Parsed(r) \notin {"list", "marked"} =>
               Text(r) = "object" \/ (Text(r) = "null" /\ ~ retried[r])
      BY <2>2 DEF Parsed, Texts
    <3>3. QED
      BY <2>1, <2>4, <3>1, <3>2 DEF EndsRightly, Detected
  <2>6. Attempts(r)'
    BY <2>1, <2>3, <2>5 DEF Attempts, InFlight
  <2>7. QED
    BY <1>5, <1>o, <1>t, <2>6 DEF Return
<1>6. ASSUME NEW r \in Requests, NEW o \in Texts \cup {"blocked"}, at[r] = "asked",
             Answer(r, o)
      PROVE  AttemptInv'
  <2> DEFINE base == Len(asks[r]) - attempt[r]
  <2>1. o \in Outcomes /\ Logged(r, o) /\ UNCHANGED <<attempt, budget, retried>>
    BY <1>6 DEF Answer, Outcomes
  <2>2. /\ asks'[r] \in Seq(Entry) /\ asks'[r] # << >>
        /\ Len(asks'[r]) = base + attempt[r] + 1 /\ base \in 0 .. 3
        /\ retried[r] <=> base # 0
        /\ asks'[r][Len(asks'[r])].outcome = o
        /\ Shape(asks'[r], base, budget[r])
        /\ Earned(asks'[r]) /\ budget[r] \in Nat \ {0} /\ result[r] = None
    BY <1>6, <2>1, LogStep DEF AttemptInv
  <2> HIDE DEF base
  <2>3. Text(r)' = o /\ AttemptsAreEarned(r)'
    BY <2>2 DEF Text, LastAsk, Earned, AttemptsAreEarned
  <2>4. Attempts(r)'
    <3>0. /\ base \in Nat /\ attempt[r] \in 0 .. 2 /\ attempt'[r] = attempt[r]
          /\ Len(asks'[r]) = base + attempt[r] + 1
      BY <1>t, <2>1, <2>2
    <3>1. CASE o = "blocked" /\ at'[r] = "between" /\ result'[r] = "raised"
      BY <2>3, <3>1 DEF Attempts, EndsRightly, InFlight
    <3>2. CASE o \in Texts /\ at'[r] = "parse" /\ result' = result
      <4>1. Base(r)' = base
        BY <3>0, <3>2 DEF Base
      <4>2. (retried[r] <=> Base(r) # 0)'
        BY <2>1, <2>2, <4>1
      <4>3. QED
        BY <2>1, <2>2, <2>3, <3>2, <4>1, <4>2 DEF Attempts, InFlight
    <3>3. QED
      BY <1>6, <1>t, <3>1, <3>2 DEF Answer, Raise
  <2>5. QED
    <3>1. \A x \in Requests \ {r} :
            /\ at'[x] = at[x] /\ result'[x] = result[x] /\ asks'[x] = asks[x]
      BY <1>6, <1>t DEF Answer, Raise, Logged
    <3>2. QED
      BY <1>o, <2>1, <2>4, <3>1
<1>7. ASSUME NEW r \in Requests, NEW o \in Failures, at[r] = "asked",
             AttemptFails(r, o)
      PROVE  AttemptInv'
  <2> DEFINE base == Len(asks[r]) - attempt[r]
  <2>1. o \in Outcomes /\ Logged(r, o) /\ UNCHANGED <<attempt, budget, retried>>
    BY <1>7 DEF AttemptFails, Outcomes
  <2>2. /\ asks'[r] \in Seq(Entry) /\ asks'[r] # << >>
        /\ Len(asks'[r]) = base + attempt[r] + 1 /\ base \in 0 .. 3
        /\ retried[r] <=> base # 0
        /\ asks'[r][Len(asks'[r])].outcome = o
        /\ Shape(asks'[r], base, budget[r])
        /\ o = "transient" => Failing(asks'[r], base)
        /\ Earned(asks'[r]) /\ budget[r] \in Nat \ {0} /\ result[r] = None
    BY <1>7, <2>1, LogStep DEF AttemptInv
  <2> HIDE DEF base
  <2>3. Text(r)' = o /\ AttemptsAreEarned(r)'
    BY <2>2 DEF Text, LastAsk, Earned, AttemptsAreEarned
  <2>4. Attempts(r)'
    <3>0. /\ base \in Nat /\ attempt[r] \in 0 .. 2 /\ attempt'[r] = attempt[r]
          /\ Len(asks'[r]) = base + attempt[r] + 1
      BY <1>t, <2>1, <2>2
    <3>1. CASE TriesAgain(r, o) /\ at'[r] = "sleep" /\ result' = result
      <4>1. Base(r)' = base /\ o = "transient" /\ attempt[r] < 2
        BY <3>0, <3>1 DEF Base, TriesAgain
      <4>2. (retried[r] <=> Base(r) # 0)'
        BY <2>1, <2>2, <4>1
      <4>3. QED
        BY <2>1, <2>2, <2>3, <3>1, <4>1, <4>2 DEF Attempts, InFlight
    <3>2. CASE ~ TriesAgain(r, o) /\ at'[r] = "between" /\ result'[r] = "raised"
      <4>1. EndsRightly(r)'
        <5>1. CASE o = "fatal"
          BY <2>3, <3>2, <5>1 DEF EndsRightly
        <5>2. CASE o = "transient"
          <6>1. attempt[r] = 2 /\ Len(asks'[r]) = base + 3
            BY <3>0, <3>2, <5>2 DEF TriesAgain
          <6>2. \A i \in base + 1 .. Len(asks'[r]) : asks'[r][i].outcome = "transient"
            BY <2>2, <5>2 DEF Shape
          <6>3. /\ Len(asks'[r]) >= 3
                /\ \A i \in Len(asks'[r]) - 2 .. Len(asks'[r]) :
                     asks'[r][i].outcome = "transient"
            BY <2>2, <6>1, <6>2
          <6>4. QED
            BY <3>2, <6>3 DEF EndsRightly
        <5>3. QED
          BY <5>1, <5>2 DEF Failures
      <4>2. QED
        BY <2>3, <3>2, <4>1 DEF Attempts, InFlight
    <3>3. QED
      BY <1>7, <1>t, <3>1, <3>2 DEF AttemptFails, Raise
  <2>5. QED
    <3>1. \A x \in Requests \ {r} :
            /\ at'[x] = at[x] /\ result'[x] = result[x] /\ asks'[x] = asks[x]
      BY <1>7, <1>t DEF AttemptFails, Raise, Logged
    <3>2. QED
      BY <1>o, <2>1, <2>4, <3>1
<1>8. CASE UNCHANGED vars
  <2>1. \A x \in Requests : Attempts(x)'
    BY <1>8, AttemptsKept DEF vars, AttemptInv
  <2>2. QED
    BY <2>1 DEF AttemptInv
<1>9. QED
  BY <1>1, <1>2, <1>3, <1>4, <1>5, <1>6, <1>7, <1>8 DEF Next, Advance, Model

LEMMA InvStep == IInv /\ [Next]_vars => IInv'
BY TypeStep, SessionStep, TotalsStep, AttemptStep DEF IInv

-----------------------------------------------------------------------------
(* The properties.                                                         *)

\* Every variable keeps its type; no call makes more than three attempts with
\* one budget, so the log of the attempts never fills.
THEOREM AdapterTypes == Spec => []TypeOK
<1>1. IInv => TypeOK
  BY DEF IInv
<1>2. QED
  BY <1>1, InvInit, InvStep, PTL DEF Spec

\* A request that keeps its context reads a session total of its own responses,
\* whatever other requests and streams do on the adapter they share.
THEOREM SessionOwned == Spec => []SessionIsOwn
<1>1. IInv => SessionIsOwn
  BY DEF IInv, SessionInv, SessionIsOwn
<1>2. QED
  BY <1>1, InvInit, InvStep, PTL DEF Spec

\* What the nodes of such a request add up is its session total less the usage
\* of the router's answers that planned no call; only where llm_json or a node
\* raised is it less by more.
THEOREM TotalsSound == Spec => []TotalsExplained
<1>1. IInv => TotalsExplained
  <2> SUFFICES ASSUME IInv, NEW r \in Requests \ Streams, report[r] # None
               PROVE  /\ accounted[r] + unplanned[r] <= report[r]
                      /\ ~ raised[r] => accounted[r] + unplanned[r] = report[r]
    BY DEF TotalsExplained
  <2>1. report[r] = answered[r] /\ at[r] = "done"
    BY DEF IInv, SessionInv
  <2>2. /\ accounted[r] + unplanned[r] + 0 <= answered[r]
        /\ ~ raised[r] => accounted[r] + unplanned[r] + 0 = answered[r]
    BY <2>1 DEF IInv, TotalsInv, Held, InFlight
  <2>3. accounted[r] \in Nat /\ unplanned[r] \in Nat
    BY DEF IInv, TypeOK
  <2>4. QED
    BY <2>1, <2>2, <2>3
<1>2. QED
  BY <1>1, InvInit, InvStep, PTL DEF Spec

\* Attempts and budgets of a call are earned, and it ends only as it may, for any
\* answers and failures of the model.
THEOREM RetriesEarned == Spec => []RetriesAreEarned
<1>1. IInv => RetriesAreEarned
  <2> SUFFICES ASSUME IInv, NEW r \in Requests
               PROVE  AttemptsAreEarned(r) /\ EndsRightly(r)
    BY DEF RetriesAreEarned
  <2>1. CASE at[r] \in InFlight
    <3>1. /\ result[r] = None /\ Shape(asks[r], Base(r), budget[r])
          /\ budget[r] \in Nat /\ asks[r] \in Seq(Entry)
      BY <2>1 DEF IInv, TypeOK, Entry, AttemptInv, Attempts
    <3>2. Earned(asks[r])
      BY <3>1, EarnedByShape
    <3>3. QED
      BY <3>1, <3>2 DEF Earned, AttemptsAreEarned, EndsRightly
  <2>2. CASE at[r] \notin InFlight
    BY <2>2 DEF IInv, AttemptInv, Attempts
  <2>3. QED
    BY <2>1, <2>2
<1>2. QED
  BY <1>1, InvInit, InvStep, PTL DEF Spec

-----------------------------------------------------------------------------
(* How long a call of llm_json can go on.                                  *)

\* Attempts of this llm_json that are still to be logged, if every one but the
\* last fails and the answer is cut off.
Left(r) == (IF retried[r] THEN 0 ELSE 3) + 3 - attempt[r]

FewOf(r) ==
  /\ at[r] \in {"ask", "asked"}  => Len(asks[r]) + Left(r) <= 6
  /\ at[r] \in {"sleep", "parse"} => Len(asks[r]) + Left(r) <= 7
  /\ Len(asks[r]) <= 6

FewInv == \A r \in Requests : FewOf(r)

CallRank(r) ==
  CASE at[r] = "ask"   -> 4 * Left(r)
    [] at[r] = "asked" -> 4 * Left(r) - 1
    [] at[r] \in {"sleep", "parse"} -> 4 * Left(r) - 2
    [] OTHER -> 0

Still(r) == UNCHANGED <<at[r], attempt[r], retried[r], asks[r]>>

\* A call under way is left alone or comes closer to its end.
RankStep ==
  \A r \in Requests : at[r] \in InFlight =>
    \/ Still(r)
    \/ CallRank(r)' < CallRank(r) /\ CallRank(r) <= 24

\* The numbers of one request, between two of its steps.
LEMMA FewTypes ==
  ASSUME TypeOK, NEW r \in Requests
  PROVE  /\ attempt[r] \in 0 .. 2 /\ retried[r] \in BOOLEAN
         /\ Len(asks[r]) \in Nat
         /\ Left(r) \in 1 .. 6
         /\ asks[r] \in Seq([budget : Nat, outcome : Outcomes])
<1>1. /\ attempt[r] \in 0 .. 2 /\ retried[r] \in BOOLEAN
      /\ asks[r] \in Seq([budget : Nat, outcome : Outcomes])
  BY DEF TypeOK
<1>2. QED
  BY <1>1 DEF Left

\* One step of the request itself.
LEMMA OwnStep ==
  ASSUME TypeOK, TypeOK', AttemptInv, NEW r \in Requests, FewOf(r),
         \/ Begin(r) \/ ResumeStream(r) \/ Finish(r)
         \/ \E n \in Budgets : CallJson(r, n)
         \/ Advance(r) \/ Model(r)
  PROVE  /\ FewOf(r)'
         /\ at[r] \in InFlight => Still(r) \/ (CallRank(r)' < CallRank(r) /\ CallRank(r) <= 24)
<1> USE DEF callVars, Goes
<1>t. /\ attempt \in [Requests -> 0 .. 2] /\ retried \in [Requests -> BOOLEAN]
      /\ asks \in [Requests -> Seq([budget : Nat, outcome : Outcomes])]
      /\ at \in [Requests -> {"idle", "between", "ask", "asked", "sleep", "parse", "done"}]
  BY DEF TypeOK
<1>n. Len(asks[r]) \in Nat /\ Left(r) \in 1 .. 6
  BY FewTypes
<1>a. attempt[r] \in 0 .. 2 /\ retried[r] \in BOOLEAN
  BY FewTypes
<1>b. Left(r)' = (IF retried'[r] THEN 0 ELSE 3) + 3 - attempt'[r]
  BY DEF Left
<1>1. CASE Begin(r) \/ Finish(r)
  BY <1>1, <1>t, <1>n DEF Begin, Finish, FewOf, InFlight
<1>2. CASE ResumeStream(r)
  BY <1>2, <1>t, <1>n DEF ResumeStream, FewOf, InFlight
<1>3. CASE \E n \in Budgets : CallJson(r, n)
  <2>1. /\ at[r] = "between" /\ at'[r] = "ask"
        /\ attempt'[r] = 0 /\ retried'[r] = FALSE /\ asks'[r] = << >>
    BY <1>3, <1>t DEF CallJson
  <2>2. Left(r)' = 6 /\ Len(asks'[r]) = 0
    BY <2>1 DEF Left
  <2>3. QED
    BY <2>1, <2>2 DEF FewOf, InFlight
<1>4. CASE Ask(r)
  <2>1. /\ at[r] = "ask" /\ at'[r] = "asked"
        /\ attempt'[r] = attempt[r] /\ retried'[r] = retried[r] /\ asks'[r] = asks[r]
    BY <1>4, <1>t DEF Ask
  <2>2. Left(r)' = Left(r)
    BY <2>1 DEF Left
  <2>3. QED
    BY <2>1, <2>2, <1>n DEF FewOf, CallRank
<1>5. CASE Slept(r)
  <2>1. /\ at[r] = "sleep" /\ at'[r] = "ask"
        /\ attempt'[r] = attempt[r] + 1 /\ retried'[r] = retried[r] /\ asks'[r] = asks[r]
    BY <1>5, <1>t DEF Slept
  <2>2. Left(r)' = Left(r) - 1
    <3>1. attempt'[r] = attempt[r] + 1 /\ retried'[r] = retried[r]
      BY <2>1
    <3>2. CASE retried[r]
      BY <3>1, <3>2, <1>a, <1>b DEF Left
    <3>3. CASE ~ retried[r]
      BY <3>1, <3>3, <1>a, <1>b DEF Left
    <3>4. QED
      BY <3>2, <3>3
  <2>3. QED
    BY <2>1, <2>2, <1>n DEF FewOf, CallRank
<1>6. CASE RetryTruncated(r)
  <2>1. /\ at[r] = "parse" /\ at'[r] = "ask" /\ retried[r] = FALSE
        /\ attempt'[r] = 0 /\ retried'[r] = TRUE /\ asks'[r] = asks[r]
    BY <1>6, <1>t DEF RetryTruncated, CutShort
  <2>2. Left(r)' = 3
    BY <2>1, <1>b
  <2>4. Left(r) \in 4 .. 6
    BY <2>1, <1>a DEF Left
  <2>3. QED
    BY <2>1, <2>2, <2>4, <1>n DEF FewOf, CallRank
<1>7. CASE Return(r)
  <2>1. at[r] = "parse" /\ at'[r] = "between" /\ asks'[r] = asks[r]
    BY <1>7, <1>t DEF Return
  <2>2. QED
    BY <2>1, <1>n DEF FewOf, CallRank
<1>8. CASE Model(r)
  <2>1. /\ at[r] = "asked" /\ at'[r] \in {"between", "parse", "sleep"}
        /\ attempt'[r] = attempt[r] /\ retried'[r] = retried[r]
        /\ \E o \in Outcomes : Logged(r, o)
    BY <1>8, <1>t DEF Model, Answer, AttemptFails, Raise, Outcomes
  <2>2. Len(asks'[r]) <= Len(asks[r]) + 1 /\ Len(asks'[r]) \in Nat
    BY <2>1, <1>t DEF Logged
  <2>3. Left(r)' = Left(r)
    BY <2>1 DEF Left
  <2>4. Len(asks[r]) + Left(r) <= 6 /\ Len(asks'[r]) + Left(r)' <= 7
        /\ Len(asks'[r]) <= 6
    <3>1. at[r] = "asked"
      BY <2>1
    <3>2. Len(asks[r]) + Left(r) <= 6
      BY <3>1 DEF FewOf
    <3>3. QED
      BY <3>2, <2>2, <2>3, <1>n
  <2>5. FewOf(r)'
    BY <2>1, <2>4 DEF FewOf
  <2>6. CallRank(r)' < CallRank(r) /\ CallRank(r) <= 24
    <3>1. CallRank(r) = 4 * Left(r) - 1
      BY <2>1 DEF CallRank
    <3>2. CallRank(r)' \in {0, 4 * Left(r) - 2}
      BY <2>1, <2>3 DEF CallRank
    <3>3. QED
      BY <3>1, <3>2, <1>n
  <2>7. QED
    BY <2>5, <2>6
<1>9. QED
  BY <1>1, <1>2, <1>3, <1>4, <1>5, <1>6, <1>7, <1>8 DEF Advance

\* What the other requests see of it.
LEMMA OtherStep ==
  ASSUME TypeOK, NEW o \in Requests, NEW r \in Requests, r # o,
         \/ Begin(o) \/ ResumeStream(o) \/ Finish(o)
         \/ \E n \in Budgets : CallJson(o, n)
         \/ Advance(o) \/ Model(o)
  PROVE  Still(r)
<1> USE DEF callVars, Goes, Still
<1>t. /\ attempt \in [Requests -> 0 .. 2] /\ retried \in [Requests -> BOOLEAN]
      /\ asks \in [Requests -> Seq([budget : Nat, outcome : Outcomes])]
      /\ at \in [Requests -> {"idle", "between", "ask", "asked", "sleep", "parse", "done"}]
  BY DEF TypeOK
<1>1. CASE Begin(o) \/ ResumeStream(o) \/ Finish(o) \/ Advance(o)
  BY <1>1, <1>t
  DEF Begin, ResumeStream, Finish, Advance, Ask, Slept, RetryTruncated, Return
<1>2. CASE \E n \in Budgets : CallJson(o, n)
  BY <1>2, <1>t DEF CallJson
<1>3. CASE Model(o)
  BY <1>3, <1>t DEF Model, Answer, AttemptFails, Raise, Logged
<1>4. QED
  BY <1>1, <1>2, <1>3

LEMMA FewStep == IInv /\ IInv' /\ FewInv /\ [Next]_vars => FewInv' /\ RankStep
<1> SUFFICES ASSUME IInv, IInv', \A r \in Requests : FewOf(r), [Next]_vars
             PROVE  \A r \in Requests :
                      /\ FewOf(r)'
                      /\ at[r] \in InFlight =>
                           Still(r) \/ (CallRank(r)' < CallRank(r) /\ CallRank(r) <= 24)
  BY DEF FewInv, FewOf, RankStep
<1>1. TypeOK /\ TypeOK' /\ AttemptInv
  BY DEF IInv
<1>2. ASSUME NEW r \in Requests, Still(r)
      PROVE  FewOf(r)'
  BY <1>2 DEF Still, FewOf, Left
<1>3. CASE UNCHANGED vars
  BY <1>2, <1>3 DEF vars, callVars, Still
<1>4. CASE Next
  BY <1>1, <1>2, <1>4, OwnStep, OtherStep DEF Next
<1>5. QED
  BY <1>3, <1>4

LEMMA FewInvariant == Spec => [](IInv /\ FewInv)
<1>1. Init => FewInv
  BY DEF Init, FewInv, FewOf
<1>2. IInv /\ IInv' /\ FewInv /\ [Next]_vars => FewInv'
  BY FewStep
<1>3. QED
  BY <1>1, <1>2, InvInit, InvStep, PTL DEF Spec

AtMostSix == \A r \in Requests : Len(asks[r]) <= 6

\* One llm_json costs at most six model calls, three with each budget, and so
\* the history asks, which has room for one more, forgets none of them.
THEOREM SixAttempts == Spec => []AtMostSix
<1>1. FewInv => AtMostSix
  BY DEF FewInv, FewOf, AtMostSix
<1>2. QED
  BY <1>1, FewInvariant, PTL

CallsRunDown == [][RankStep]_vars

\* Each step of an llm_json under way brings it closer to its end, by a rank of
\* at most 24, and no step of another request or of a stream's server sets it
\* back: if the model answers, all that CallReturns needs is that the adapter's
\* own steps are taken, which is the fairness TLC's check assumes.
THEOREM CallsEnd == Spec => CallsRunDown
<1>1. IInv /\ IInv' /\ FewInv /\ [Next]_vars => [RankStep]_vars
  BY FewStep
<1>2. QED
  BY <1>1, FewInvariant, PTL DEF Spec, CallsRunDown
=============================================================================
