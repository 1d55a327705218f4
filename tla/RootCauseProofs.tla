-------------------------- MODULE RootCauseProofs --------------------------
(***************************************************************************)
(* Proofs about RootCause, for any evidence, any answers of the two model  *)
(* calls and any failures of the reads, the sizings and the calls.         *)
(*                                                                         *)
(* Claims, reads and the verifier's answer are each written once, so the   *)
(* invariant says what the finished report is computed from (Derived) and  *)
(* what those inputs are (ClaimInv, SetInv, UsageInv); the properties then *)
(* are facts about derive_outcome.                                         *)
(***************************************************************************)
EXTENDS RootCauseRefinement, TLAPS

Verifying == {"read_cited", "size_cited", "read_others", "size_full",
              "size_notice", "call"}

\* The primary claim is the one the answer pointed to.
ClaimInv ==
  /\ pc = "rca_call" => proposal = None /\ claims = << >> /\ primary = None
  /\ pc \in Verifying => primary # None
  /\ primary # None =>
       /\ Usable # {} /\ proposal \in Proposals /\ primary = proposal.index
       /\ claims = BuildClaims(proposal.claims)
       /\ primary \in DOMAIN claims /\ Eligible(claims[primary])

\* What has been read, sent and accepted.
SetInv ==
  /\ pc = "rca_call" => gotCited = {}
  /\ gotCited \subseteq Cited
  /\ allowed = request
  /\ scanned => request = Others /\ gotOthers = Others
                /\ pc \in {"call", "conclude", "done"}

VerifierInv ==
  /\ verifier = "not_called" <=> pc \in Verifying \cup {"rca_call", "crashed"} \/ primary = None
  /\ verifier = "answered" <=> answer # None

\* The verifier's calls, or what they lost.
UsageInv ==
  /\ pc # "done" => spent = 0
  /\ pc = "rca_call" => usage = 0 /\ session = 0
  /\ pc \notin {"rca_call", "crashed"} => usage \in 1 .. MaxAnswered
  /\ verifier \in {"answered", "unparsed"} => verifierTok \in 1 .. MaxAnswered
  /\ verifier \notin {"answered", "unparsed"} => verifierTok = None
  /\ verifier = "raised" => session - usage \in 0 .. MaxAnswered
  /\ verifier \in {"answered", "unparsed"} => session = usage + verifierTok
  /\ pc # "crashed" /\ verifier \notin {"raised", "answered", "unparsed"}
       => session = usage

\* The finished report.
Derived ==
  /\ report # None <=> pc = "done"
  /\ pc = "done" =>
       /\ report = [outcome |-> DeriveOutcome,
                    band    |-> Band(DeriveOutcome),
                    review  |-> Band(DeriveOutcome) # "auto" \/ Usable = {},
                    cause   |-> RootCauseText,
                    tied    |-> primary # None]
       /\ spent = (IF verifierTok # None THEN verifierTok ELSE 0) + usage

IInv == TypeOK /\ ClaimInv /\ SetInv /\ VerifierInv /\ UsageInv /\ Derived

-----------------------------------------------------------------------------
LEMMA BuiltClaims ==
  ASSUME NEW p \in Proposals
  PROVE  /\ p.claims \in Seq(RawClaim)
         /\ DOMAIN BuildClaims(p.claims) \subseteq DOMAIN p.claims
         /\ DOMAIN BuildClaims(p.claims) \subseteq Nat
         /\ BuildClaims(p.claims) \in [DOMAIN BuildClaims(p.claims) -> RawClaim]
         /\ \A i \in DOMAIN BuildClaims(p.claims) :
              BuildClaims(p.claims)[i] = p.claims[i]
<1>1. p.claims \in Seq(RawClaim)
  BY RootCauseAssumption DEF Proposal
<1> DEFINE raw == p.claims
<1> HIDE DEF raw
<1>2. raw \in Seq(RawClaim) /\ raw = p.claims
  BY <1>1 DEF raw
<1>3. /\ DOMAIN BuildClaims(raw) \subseteq DOMAIN raw
      /\ DOMAIN BuildClaims(raw) \subseteq Nat
      /\ BuildClaims(raw) \in [DOMAIN BuildClaims(raw) -> RawClaim]
      /\ \A i \in DOMAIN BuildClaims(raw) : BuildClaims(raw)[i] = raw[i]
  BY <1>2 DEF BuildClaims
<1>4. QED
  BY <1>2, <1>3

\* The values that appear in a report.
LEMMA ReportTyped ==
  /\ DeriveOutcome \in Outcomes
  /\ \A o \in Outcomes : Band(o) \in Bands
  /\ RootCauseText \in {"claim", "no_evidence", "not_parsed", "none_established"}
BY DEF DeriveOutcome, Judge, Outcomes, Band, Bands, RootCauseText

LEMMA InvInit == Init => IInv
<1> SUFFICES ASSUME Init PROVE IInv
  OBVIOUS
<1>1. TypeOK
  <2>1. Known \subseteq Ids /\ store \in [Known -> Items]
    BY DEF Init, Known
  <2>2. DOMAIN << >> = {} /\ << >> \in [DOMAIN << >> -> RawClaim]
    OBVIOUS
  <2>3. QED
    BY <2>1, <2>2 DEF Init, TypeOK
<1>2. ClaimInv /\ SetInv
  BY DEF Init, ClaimInv, SetInv, Cited, Verifying
<1>3. VerifierInv /\ UsageInv /\ Derived
  BY DEF Init, VerifierInv, UsageInv, Derived, Verifying
<1>4. QED
  BY <1>1, <1>2, <1>3 DEF IInv

-----------------------------------------------------------------------------
(* Steps.                                                                  *)

LEMMA CrashStep ==
  ASSUME IInv, pc = "rca_call", NEW n \in 0 .. MaxAnswered, Crash(n)
  PROVE  IInv'
<1> USE RootCauseAssumption
        DEF IInv, TypeOK, inputVars, claimVars, setVars, judgedVars, Crash
<1>1. TypeOK'
  BY DEF Known
<1>2. ClaimInv' /\ SetInv' /\ VerifierInv'
  BY DEF ClaimInv, SetInv, VerifierInv, Verifying, Cited, Others, Usable, Known
<1>3. UsageInv' /\ Derived'
  BY DEF UsageInv, VerifierInv, Derived
<1>4. QED
  BY <1>1, <1>2, <1>3

LEMMA UnparsedStep == IInv /\ RcaCallUnparsed => IInv'
<1> SUFFICES ASSUME IInv, RcaCallUnparsed PROVE IInv'
  OBVIOUS
<1> USE RootCauseAssumption
        DEF IInv, TypeOK, inputVars, claimVars, setVars, judgedVars,
            RcaCallUnparsed, Answered
<1>1. TypeOK'
  BY DEF Known
<1>2. ClaimInv' /\ SetInv' /\ VerifierInv'
  BY DEF ClaimInv, SetInv, VerifierInv, Verifying, Cited, Others, Usable, Known
<1>3. UsageInv' /\ Derived'
  BY DEF UsageInv, VerifierInv, Derived, ClaimInv
<1>4. QED
  BY <1>1, <1>2, <1>3

LEMMA AnswersStep ==
  ASSUME IInv, NEW p \in Proposals, RcaCallAnswers(p)
  PROVE  IInv'
<1> DEFINE built == IF Usable = {} THEN << >> ELSE BuildClaims(p.claims)
<1>1. /\ pc = "rca_call" /\ proposal' = p /\ claims' = built
      /\ primary' = SelectPrimary(built, p.index)
      /\ pc' = IF primary' = None THEN "conclude" ELSE "read_cited"
      /\ UNCHANGED <<inputVars, setVars, judgedVars, verifierTok, spent, report>>
  BY DEF RcaCallAnswers, Answered
<1>2. PICK n \in 1 .. MaxAnswered : usage' = n /\ session' = session + n
  BY DEF RcaCallAnswers, Answered
<1>3. /\ DOMAIN built \subseteq Nat /\ built \in [DOMAIN built -> RawClaim]
  BY BuiltClaims
<1>4. primary' # None =>
        /\ primary' = p.index /\ primary' \in DOMAIN built
        /\ Eligible(built[primary'])
  BY <1>1 DEF SelectPrimary
<1>5. primary' # None => Usable # {}
  BY <1>4
<1>6. /\ Usable' = Usable /\ Known' = Known
      /\ \A c : Eligible(c)' <=> Eligible(c)
  BY <1>1 DEF inputVars, Usable, Known, Eligible, Grounding
<1> HIDE DEF built
<1>7. TypeOK'
  <2>1. primary' \in {None} \cup DOMAIN built
    BY <1>4
  <2>2. QED
    BY <1>1, <1>2, <1>3, <2>1, RootCauseAssumption
    DEF IInv, TypeOK, inputVars, setVars, judgedVars, Known
<1>8. ClaimInv'
  <2>1. primary' # None => claims' = BuildClaims(proposal'.claims)
    BY <1>1, <1>5 DEF built
  <2>2. primary' # None => Eligible(claims[primary])'
    BY <1>1, <1>4, <1>6 DEF inputVars, Usable, Known, Eligible, Grounding
  <2>3. QED
    BY <1>1, <1>4, <1>5, <1>6, <2>1, <2>2 DEF ClaimInv, Verifying
<1>9. SetInv'
  BY <1>1 DEF IInv, SetInv, setVars
<1>10. VerifierInv'
  BY <1>1 DEF IInv, VerifierInv, judgedVars, Verifying
<1>11. UsageInv' /\ Derived'
  BY <1>1, <1>2, RootCauseAssumption DEF IInv, UsageInv, Derived, VerifierInv, judgedVars
<1>12. QED
  BY <1>7, <1>8, <1>9, <1>10, <1>11 DEF IInv

\* A step that leaves the claims, the verifier's answer and the usage alone and
\* goes on verifying.
LEMMA ReadStep ==
  ASSUME IInv, pc \in Verifying, pc' \in Verifying,
         UNCHANGED <<inputVars, claimVars, judgedVars, usageVars, report>>,
         gotCited' \subseteq Cited, gotOthers' \subseteq Ids, request' \subseteq Ids,
         allowed' = request', scanned' \in BOOLEAN,
         scanned' => request' = Others /\ gotOthers' = Others /\ pc' = "call"
  PROVE  IInv'
<1> USE DEF inputVars, claimVars, judgedVars, usageVars
<1>1. Cited' = Cited /\ Others' = Others /\ Usable' = Usable /\ Known' = Known
      /\ \A c : Eligible(c)' <=> Eligible(c)
  BY DEF Cited, Others, Usable, Known, Eligible, Grounding
<1>2. Cited \subseteq Ids
  BY DEF IInv, ClaimInv, TypeOK, Cited, Eligible, Usable, Known
<1>3. TypeOK'
  BY <1>1, <1>2 DEF IInv, TypeOK, Verifying
<1>4. ClaimInv'
  BY <1>1 DEF IInv, ClaimInv, Verifying
<1>5. SetInv' /\ VerifierInv'
  BY <1>1 DEF IInv, SetInv, VerifierInv, Verifying
<1>6. UsageInv' /\ Derived'
  BY DEF IInv, UsageInv, Derived, Verifying
<1>7. QED
  BY <1>3, <1>4, <1>5, <1>6 DEF IInv

\* A step that ends the verification.
LEMMA EndStep ==
  ASSUME IInv, pc \in Verifying, pc' = "conclude",
         UNCHANGED <<inputVars, claimVars, setVars, usage, spent, report>>,
         verifier' \in {"context_limit", "sizing_failed", "raised", "unparsed",
                        "answered"},
         answer' \in {None} \cup Verdicts,
         verifier' = "answered" <=> answer' # None,
         IF verifier' \in {"answered", "unparsed"}
           THEN verifierTok' \in 1 .. MaxAnswered /\ session' = session + verifierTok'
           ELSE verifierTok' = verifierTok,
         IF verifier' = "raised" THEN session' - session \in 0 .. MaxAnswered /\ session' \in Nat
           ELSE verifier' \in {"answered", "unparsed"} \/ session' = session
  PROVE  IInv'
<1> USE DEF inputVars, claimVars, setVars
<1>1. Cited' = Cited /\ Others' = Others /\ Usable' = Usable /\ Known' = Known
      /\ \A c : Eligible(c)' <=> Eligible(c)
  BY DEF Cited, Others, Usable, Known, Eligible, Grounding
<1>2. verifier = "not_called" /\ session = usage /\ verifierTok = None /\ primary # None
  BY DEF IInv, VerifierInv, UsageInv, ClaimInv, Verifying
<1>3. TypeOK'
  BY <1>1, <1>2, RootCauseAssumption DEF IInv, TypeOK
<1>4. ClaimInv' /\ SetInv'
  BY <1>1, <1>2 DEF IInv, ClaimInv, SetInv, Verifying
<1>5. VerifierInv'
  BY <1>2 DEF VerifierInv, Verifying
<1>6. UsageInv'
  BY <1>2 DEF IInv, UsageInv, TypeOK, Verifying
<1>7. Derived'
  BY DEF IInv, Derived, Verifying
<1>8. QED
  BY <1>3, <1>4, <1>5, <1>6, <1>7 DEF IInv

LEMMA ConcludeStep == IInv /\ Conclude => IInv'
<1> SUFFICES ASSUME IInv, Conclude PROVE IInv'
  OBVIOUS
<1> USE DEF inputVars, claimVars, setVars, judgedVars, Conclude
<1>1. Cited' = Cited /\ Others' = Others /\ Usable' = Usable /\ Known' = Known
      /\ \A c : Eligible(c)' <=> Eligible(c)
  BY DEF Cited, Others, Usable, Known, Eligible, Grounding
<1>2. DeriveOutcome' = DeriveOutcome
  BY DEF DeriveOutcome, Judge, Accepted, HardConflict, ConfirmGates, Temporal,
         ActiveAlternative, WrongResource, ResourceMismatch, SourceComplete,
         Cited, Usable, Known
<1>3. RootCauseText' = RootCauseText
  BY <1>1 DEF RootCauseText
<1>4. usage \in Nat /\ FinalTotals \in Nat
      /\ FinalTotals = (IF verifierTok # None THEN verifierTok ELSE 0) + usage
  BY RootCauseAssumption DEF IInv, TypeOK, UsageInv, FinalTotals
<1>5. TypeOK'
  <2>1. report' \in Report
    BY ReportTyped DEF Report
  <2>2. QED
    BY <1>1, <1>4, <2>1 DEF IInv, TypeOK
<1>6. ClaimInv' /\ SetInv' /\ VerifierInv'
  BY <1>1 DEF IInv, ClaimInv, SetInv, VerifierInv, Verifying
<1>7. UsageInv'
  BY DEF IInv, UsageInv
<1>8. Derived'
  <2>1. Band(DeriveOutcome)' = Band(DeriveOutcome)
    BY <1>2 DEF Band
  <2>2. report' = [outcome |-> DeriveOutcome, band |-> Band(DeriveOutcome),
                   review |-> Band(DeriveOutcome) # "auto" \/ Usable = {},
                   cause |-> RootCauseText, tied |-> primary # None]
    OBVIOUS
  <2>3. report' # None
    <3>1. report' \in Report
      BY <2>2, ReportTyped DEF Report
    <3>2. QED
      BY <3>1, RootCauseAssumption
  <2>4. QED
    BY <1>1, <1>2, <1>3, <1>4, <2>1, <2>2, <2>3 DEF Derived
<1>9. QED
  BY <1>5, <1>6, <1>7, <1>8 DEF IInv

LEMMA InvStep == IInv /\ [Next]_vars => IInv'
<1> SUFFICES ASSUME IInv, [Next]_vars PROVE IInv'
  OBVIOUS
<1> USE DEF IInv, Verifying
<1>1. CASE RcaCallRaises
  BY <1>1, CrashStep DEF RcaCallRaises
<1>2. CASE RcaCallUnparsed
  BY <1>2, UnparsedStep
<1>3. ASSUME NEW p \in Proposals, RcaCallAnswers(p) \/ ClaimsRaise(p)
      PROVE  IInv'
  <2>1. CASE RcaCallAnswers(p)
    BY <2>1, AnswersStep
  <2>2. CASE ClaimsRaise(p)
    <3>1. PICK n \in 1 .. MaxAnswered : pc = "rca_call" /\ Crash(n)
      BY <2>2 DEF ClaimsRaise
    <3>2. n \in 0 .. MaxAnswered
      OBVIOUS
    <3>3. QED
      BY <3>1, <3>2, CrashStep
  <2>3. QED
    BY <1>3, <2>1, <2>2
<1>4. Stored(Cited) \subseteq Cited /\ Stored(Others) \subseteq Others /\ Others \subseteq Ids
  BY DEF Stored, Others, Usable, TypeOK
<1>5. gotOthers \subseteq Ids
  BY DEF TypeOK
<1>6. CASE ReadCited
  BY <1>4, <1>5, <1>6, ReadStep DEF ReadCited, SetInv, TypeOK, usageVars, claimVars
<1>7. CASE ReadOthers
  <2>1. ~ scanned
    BY <1>7 DEF ReadOthers, SetInv
  <2>2. QED
    BY <1>4, <1>7, <2>1, ReadStep DEF ReadOthers, SetInv, TypeOK
<1>8. ASSUME NEW how \in {"context_limit", "sizing_failed"}, GiveUp(how), pc \in Verifying
      PROVE  IInv'
  <2>1. answer = None /\ verifierTok' = verifierTok /\ session' = session
    BY <1>8 DEF VerifierInv, ClaimInv, GiveUp, usageVars
  <2>2. QED
    BY <1>8, <2>1, EndStep DEF GiveUp, usageVars
<1>9. CASE SizeCited
  <2>1. CASE GiveUp("context_limit") \/ GiveUp("sizing_failed")
    BY <1>8, <1>9, <2>1 DEF SizeCited
  <2>2. CASE pc' = "read_others" /\ UNCHANGED <<inputVars, claimVars, setVars,
                                         judgedVars, usageVars, report>>
    BY <1>5, <1>9, <2>2, ReadStep DEF SizeCited, setVars, SetInv, TypeOK
  <2>3. QED
    BY <1>9, <2>1, <2>2 DEF SizeCited, Sizings
<1>10. CASE SizeFull
  <2>1. CASE GiveUp("sizing_failed")
    BY <1>8, <1>10, <2>1 DEF SizeFull
  <2>2. CASE SendFull
    BY <1>4, <1>5, <1>10, <2>2, ReadStep DEF SizeFull, SendFull, SetInv
  <2>3. CASE pc' = "size_notice" /\ UNCHANGED <<inputVars, claimVars, setVars,
                                         judgedVars, usageVars, report>>
    BY <1>5, <1>10, <2>3, ReadStep DEF SizeFull, setVars, SetInv, TypeOK
  <2>4. QED
    BY <1>10, <2>1, <2>2, <2>3 DEF SizeFull, Sizings
<1>11. CASE SizeNotice
  <2>1. CASE GiveUp("context_limit") \/ GiveUp("sizing_failed")
    BY <1>8, <1>11, <2>1 DEF SizeNotice
  <2>2. CASE SendNotice
    BY <1>5, <1>11, <2>2, ReadStep DEF SizeNotice, SendNotice, SetInv
  <2>3. QED
    BY <1>11, <2>1, <2>2 DEF SizeNotice, Sizings
<1>12. ASSUME VerifierRaises \/ VerifierUnparsed \/ \E w \in Verdicts : VerifierAnswers(w)
       PROVE  IInv'
  <2>1. answer = None /\ spent = 0 /\ session \in Nat
    BY <1>12 DEF VerifierInv, ClaimInv, UsageInv, TypeOK, VerifierRaises,
                 VerifierUnparsed, VerifierAnswers
  <2>2. CASE VerifierRaises
    <3>1. PICK lost \in 0 .. MaxAnswered : session' = session + lost
      BY <2>2 DEF VerifierRaises
    <3>2. session' - session \in 0 .. MaxAnswered /\ session' \in Nat
      BY <2>1, <3>1, RootCauseAssumption
    <3>3. QED
      BY <2>1, <2>2, <3>2, EndStep DEF VerifierRaises
  <2>3. CASE VerifierUnparsed
    <3>1. PICK n \in 1 .. MaxAnswered : session' = session + n /\ verifierTok' = spent + n
      BY <2>3 DEF VerifierUnparsed
    <3>2. verifierTok' = n
      BY <2>1, <3>1
    <3>3. QED
      BY <2>1, <2>3, <3>1, <3>2, EndStep DEF VerifierUnparsed
  <2>4. ASSUME NEW w \in Verdicts, VerifierAnswers(w) PROVE IInv'
    <3>1. PICK n \in 1 .. MaxAnswered : session' = session + n /\ verifierTok' = spent + n
      BY <2>4 DEF VerifierAnswers
    <3>2. verifierTok' = n /\ answer' # None
      BY <2>1, <2>4, <3>1, RootCauseAssumption DEF VerifierAnswers
    <3>3. QED
      BY <2>1, <2>4, <3>1, <3>2, EndStep DEF VerifierAnswers
  <2>5. QED
    BY <1>12, <2>2, <2>3, <2>4
<1>13. CASE Conclude
  BY <1>13, ConcludeStep
<1>14. CASE UNCHANGED vars
  BY <1>14 DEF vars, inputVars, claimVars, setVars, judgedVars, usageVars, TypeOK,
     ClaimInv, SetInv, VerifierInv, UsageInv, Derived, Known, Usable, Cited, Others,
     Eligible, Grounding, DeriveOutcome, Judge, Accepted, HardConflict, ConfirmGates,
     Temporal, ActiveAlternative, WrongResource, ResourceMismatch, SourceComplete,
     RootCauseText
<1>15. QED
  BY <1>1, <1>2, <1>3, <1>6, <1>7, <1>9, <1>10, <1>11, <1>12, <1>13, <1>14
  DEF Next, Terminated

\* Every variable keeps its type, for any evidence and answers.
THEOREM RootCauseTypes == Spec => []TypeOK
<1>1. IInv => TypeOK
  BY DEF IInv
<1>2. QED
  BY <1>1, InvInit, InvStep, PTL DEF Spec

-----------------------------------------------------------------------------
(* What a finished report says.                                            *)

LEMMA ReportSays ==
  ASSUME IInv, Reported
  PROVE  /\ Outcome = DeriveOutcome /\ report.band = Band(DeriveOutcome)
         /\ report.cause = RootCauseText
         /\ ~ report.review => Band(DeriveOutcome) = "auto"
<1>1. report = [outcome |-> DeriveOutcome,
                band    |-> Band(DeriveOutcome),
                review  |-> Band(DeriveOutcome) # "auto" \/ Usable = {},
                cause   |-> RootCauseText,
                tied    |-> primary # None]
  BY DEF IInv, Derived, Reported
<1>2. /\ report.outcome = DeriveOutcome /\ report.band = Band(DeriveOutcome)
      /\ report.cause = RootCauseText
      /\ report.review = (Band(DeriveOutcome) # "auto" \/ Usable = {})
  BY <1>1, Zenon
<1>3. QED
  BY <1>2 DEF Outcome

\* The outcome is the verifier's only where it answered about a primary claim.
LEMMA AnsweredFacts ==
  ASSUME IInv, answer # None
  PROVE  /\ DeriveOutcome = Judge(answer) /\ answer \in RawVerdict
         /\ primary # None /\ Cited = claims[primary].cites
         /\ Cited # {} /\ Cited \subseteq Usable
<1>1. verifier = "answered" /\ primary # None
  BY DEF IInv, VerifierInv
<1>2. answer \in RawVerdict
  BY RootCauseAssumption DEF IInv, TypeOK
<1>3. Eligible(claims[primary])
  BY <1>1 DEF IInv, ClaimInv
<1>4. QED
  BY <1>1, <1>2, <1>3 DEF DeriveOutcome, Cited, Eligible

LEMMA PositiveIsAnswered ==
  ASSUME IInv, DeriveOutcome # "insufficient_evidence"
  PROVE  answer # None
BY DEF IInv, VerifierInv, DeriveOutcome

\* A likely cause is reported only for a claim endorsed from full sources, and
\* without a reviewer only with all other evidence read and sent, for any
\* evidence store, any answers and any failures of reads and sizings.
THEOREM ConclusionEarned == Spec => []ConclusionIsEarned
<1>1. IInv => ConclusionIsEarned
  <2> SUFFICES ASSUME IInv, Reported PROVE ConclusionIsEarned
    BY DEF ConclusionIsEarned
  <2>1. CASE answer = None
    <3>1. Outcome = "insufficient_evidence" /\ report.review
      BY <2>1, ReportSays, PositiveIsAnswered DEF Band
    <3>2. QED
      BY <3>1 DEF ConclusionIsEarned, Positive
  <2>2. CASE answer # None
    <3>1. /\ Outcome = Judge(answer) /\ answer \in RawVerdict /\ primary # None
          /\ Cited # {} /\ Cited \subseteq Usable
      BY <2>2, AnsweredFacts, ReportSays
    <3>2. Judge(answer) \in Positive =>
            /\ answer.causal = "specific_cause" /\ ~ HardConflict(answer)
            /\ gotCited = Cited /\ answer.faith # "unsupported"
      BY DEF Judge, Positive, SourceComplete
    <3>3. ~ HardConflict(answer) =>
            /\ \A e \in Cited : store[e].place = "here"
            /\ \A i \in DOMAIN claims : \A e \in claims[i].cites \cap Known :
                 store[e].place # "other_cluster"
            /\ answer.contra = "absent"
      BY <3>1 DEF HardConflict, WrongResource, ResourceMismatch, RawVerdict
    <3>4. ~ report.review =>
            /\ Outcome = "confirmed" /\ complete /\ timed
            /\ Usable \ Cited \subseteq request \cap gotOthers
      <4>1. ~ report.review => Judge(answer) = "confirmed"
        BY <3>1, ReportSays DEF Band
      <4>2. Judge(answer) = "confirmed" => ConfirmGates(answer)
        BY DEF Judge
      <4>3. ConfirmGates(answer) => complete /\ timed /\ scanned
        BY DEF ConfirmGates, Temporal
      <4>4. scanned => Usable \ Cited \subseteq request \cap gotOthers
        BY DEF IInv, SetInv, Others
      <4>5. QED
        BY <3>1, <4>1, <4>2, <4>3, <4>4
    <3>5. QED
      BY <2>2, <3>1, <3>2, <3>3, <3>4 DEF ConclusionIsEarned
  <2>3. QED
    BY <2>1, <2>2
<1>2. QED
  BY <1>1, InvInit, InvStep, PTL DEF Spec

\* A reported conflict is about evidence of another place, the known time of the
\* incident, or an item that the request named.
THEOREM ConflictCaused == Spec => []ConflictHasCause
<1>1. IInv => ConflictHasCause
  <2> SUFFICES ASSUME IInv, Reported, Outcome = "conflicting_evidence"
               PROVE  ConflictHasCause
    BY DEF ConflictHasCause
  <2>1. answer # None /\ Judge(answer) = "conflicting_evidence"
    BY ReportSays, PositiveIsAnswered, AnsweredFacts
  <2>2. Accepted(answer) /\ HardConflict(answer)
    BY <2>1 DEF Judge
  <2>3. answer.contra = "present" => answer.ref \in request
    BY <2>2 DEF Accepted, IInv, SetInv
  <2>4. Temporal(answer) = "conflicting" => timed /\ answer.temporal = "conflicting"
    BY DEF Temporal
  <2>5. QED
    BY <2>2, <2>3, <2>4 DEF ConflictHasCause, HardConflict, WrongResource, ResourceMismatch
<1>2. QED
  BY <1>1, InvInit, InvStep, PTL DEF Spec

\* Whatever happens to the other evidence, an endorsed claim keeps a conclusion.
THEOREM OthersCap == Spec => []OthersOnlyCap
<1>1. IInv => OthersOnlyCap
  <2> SUFFICES ASSUME IInv, Reported, answer # None, gotCited = Cited,
                      answer.valid /\ answer.refs \subseteq Cited,
                      answer.causal = "specific_cause", answer.faith = "supported",
                      answer.suff = "sufficient", answer.contra = "absent"
               PROVE  Outcome # "insufficient_evidence"
    BY DEF OthersOnlyCap
  <2>1. Outcome = Judge(answer)
    BY ReportSays, AnsweredFacts
  <2>2. QED
    BY <2>1 DEF Judge, Accepted, SourceComplete
<1>2. QED
  BY <1>1, InvInit, InvStep, PTL DEF Spec

\* No claim is denied a likely cause for what cannot be looked up.
THEOREM DenialsCaused == Spec => []DenialHasCause
BY ConflictCaused, OthersCap, PTL DEF DenialHasCause

\* derive_outcome is monotone in the verifier's answer.
THEOREM OutcomesMonotone == Spec => []OutcomeMonotone
<1>1. IInv => OutcomeMonotone
  <2> SUFFICES ASSUME IInv, Reported, answer # None, NEW w \in Verdicts,
                      NoBetter(w, answer)
               PROVE  Rank(Judge(w)) <= Rank(Judge(answer))
    BY ReportSays, AnsweredFacts DEF OutcomeMonotone
  <2>1. w \in RawVerdict /\ answer \in RawVerdict
    BY RootCauseAssumption, AnsweredFacts
  <2>2. /\ w.causal = "specific_cause" => answer.causal = "specific_cause"
        /\ w.faith = "supported" => answer.faith = "supported"
        /\ w.faith # "unsupported" => answer.faith # "unsupported"
        /\ w.suff = "sufficient" => answer.suff = "sufficient"
        /\ w.contra = "absent" => answer.contra = "absent"
        /\ w.temporal = "relevant" => answer.temporal = "relevant"
        /\ w.temporal # "conflicting" => answer.temporal # "conflicting"
    BY <2>1 DEF NoBetter, Weight, RawVerdict
  <2>3. Accepted(w) /\ w.contra = "absent" => Accepted(answer)
    BY <2>2 DEF Accepted, NoBetter
  <2>4. ~ HardConflict(w) => w.contra = "absent" /\ ~ HardConflict(answer)
    BY <2>1, <2>2 DEF HardConflict, Temporal, RawVerdict
  <2>5. ConfirmGates(w) => ConfirmGates(answer)
    BY <2>2 DEF ConfirmGates, Temporal
  <2>6. Judge(w) \in Positive =>
          /\ Accepted(w) /\ w.causal = "specific_cause" /\ ~ HardConflict(w)
          /\ SourceComplete /\ w.faith # "unsupported"
    BY DEF Judge, Positive
  <2>7. Judge(w) \in Positive => Rank(Judge(w)) <= Rank(Judge(answer))
    <3> SUFFICES ASSUME Judge(w) \in Positive
                 PROVE  Rank(Judge(w)) <= Rank(Judge(answer))
      OBVIOUS
    <3>1. /\ Accepted(answer) /\ answer.causal = "specific_cause"
          /\ ~ HardConflict(answer) /\ SourceComplete
          /\ w.faith \in {"supported", "partial"}
          /\ answer.faith \in {"supported", "partial"}
          /\ w.suff \in {"sufficient", "insufficient"}
          /\ answer.suff \in {"sufficient", "insufficient"}
      BY <2>1, <2>2, <2>3, <2>4, <2>6 DEF RawVerdict
    <3>2. CASE Judge(w) = "confirmed"
      BY <2>2, <2>5, <3>1, <3>2 DEF Judge, Rank
    <3>3. CASE Judge(w) = "probable"
      <4>1. w.faith = "supported" /\ w.suff = "sufficient"
        BY <2>6, <3>1, <3>3 DEF Judge
      <4>2. QED
        BY <2>2, <3>1, <3>3, <4>1 DEF Judge, Rank
    <3>4. CASE Judge(w) = "possible"
      <4>1. w.faith = "supported" \/ w.suff = "sufficient"
        BY <2>6, <3>1, <3>4 DEF Judge
      <4>2. answer.faith = "supported" \/ answer.suff = "sufficient"
        BY <2>2, <4>1
      <4>3. Judge(answer) \in {"possible", "confirmed", "probable"}
        BY <3>1, <4>2 DEF Judge
      <4>4. QED
        BY <3>4, <4>3 DEF Rank
    <3>5. QED
      BY <3>2, <3>3, <3>4 DEF Positive
  <2>8. Judge(w) \notin Positive => Rank(Judge(w)) = 0
    BY DEF Judge, Positive, Rank
  <2>9. Rank(Judge(answer)) \in 0 .. 3
    BY DEF Judge, Rank
  <2>10. QED
    BY <2>7, <2>8, <2>9
<1>2. QED
  BY <1>1, InvInit, InvStep, PTL DEF Spec

\* The totals and the adapter's count differ only by a verifier that raised.
THEOREM UsageSound == Spec => []UsageCounted
<1>1. IInv => UsageCounted
  <2> SUFFICES ASSUME IInv, Reported
               PROVE  spent <= session /\ (verifier # "raised" => spent = session)
    BY DEF UsageCounted
  <2>1. /\ usage \in Nat /\ session \in Nat
        /\ spent = (IF verifierTok # None THEN verifierTok ELSE 0) + usage
    BY DEF IInv, TypeOK, Derived, Reported
  <2>2. CASE verifier \in {"answered", "unparsed"}
    <3>1. verifierTok \in 1 .. MaxAnswered /\ session = usage + verifierTok
      BY <2>2 DEF IInv, UsageInv
    <3>2. verifierTok # None /\ verifierTok \in Nat
      BY <3>1, RootCauseAssumption
    <3>3. QED
      BY <2>1, <3>1, <3>2
  <2>3. CASE verifier = "raised"
    BY <2>1, <2>3, RootCauseAssumption DEF IInv, UsageInv
  <2>4. CASE verifier \notin {"answered", "unparsed", "raised"}
    BY <2>1, <2>4 DEF IInv, UsageInv, Reported
  <2>5. QED
    BY <2>2, <2>3, <2>4
<1>2. QED
  BY <1>1, InvInit, InvStep, PTL DEF Spec

\* The cause that is shown is the claim the model pointed to, unrenumbered.
THEOREM CauseTheClaim == Spec => []CauseIsTheClaim
<1>1. IInv => CauseIsTheClaim
  <2> SUFFICES ASSUME IInv, Reported, report.cause = "claim" PROVE CauseIsTheClaim
    BY DEF CauseIsTheClaim
  <2>1. primary # None
    BY ReportSays DEF RootCauseText
  <2>2. /\ proposal \in Proposals /\ primary = proposal.index
        /\ claims = BuildClaims(proposal.claims)
        /\ primary \in DOMAIN claims /\ Eligible(claims[primary])
    BY <2>1 DEF IInv, ClaimInv
  <2>3. /\ primary \in DOMAIN proposal.claims
        /\ claims[primary] = proposal.claims[primary]
    BY <2>2, BuiltClaims
  <2>4. Cited \subseteq Usable
    BY <2>1, <2>2 DEF Cited, Eligible
  <2>5. QED
    BY <2>2, <2>3, <2>4 DEF CauseIsTheClaim
<1>2. QED
  BY <1>1, InvInit, InvStep, PTL DEF Spec

-----------------------------------------------------------------------------
(* The contract.                                                           *)

LEMMA StepMeetsContract ==
  IInv /\ IInv' /\ [Next]_vars => [Contract!Next]_(Contract!vars)
<1> DEFINE Shown(r) == IF r = None THEN None
                       ELSE [outcome |-> r.outcome, band |-> r.band,
                             review |-> r.review]
<1> SUFFICES ASSUME IInv, IInv', [Next]_vars
             PROVE  Contract!Next \/ UNCHANGED Contract!vars
  OBVIOUS
<1>1. CASE \E n \in 0 .. MaxAnswered : pc = "rca_call" /\ Crash(n)
  <2>1. PICK n \in 0 .. MaxAnswered : pc = "rca_call" /\ Crash(n)
    BY <1>1
  <2>2. session = 0 /\ report = None /\ session' = n
    BY <2>1, RootCauseAssumption DEF IInv, UsageInv, Derived, Crash
  <2>3. Usable' = Usable
    BY <2>1 DEF Crash, inputVars, Usable, Known
  <2>4. Contract!Raise
    BY <2>1, <2>2, <2>3, RootCauseAssumption
    DEF Contract!Raise, Ended, Crash
  <2>5. QED
    BY <2>4 DEF Contract!Next
<1>2. CASE Conclude
  <2>1. Usable' = Usable
    BY <1>2 DEF Conclude, inputVars, Usable, Known
  <2>2. /\ report = None /\ spent = 0 /\ pc = "conclude" /\ pc' = "done"
        /\ session' = session /\ usage \in 1 .. MaxAnswered
        /\ spent' = (IF verifierTok # None THEN verifierTok ELSE 0) + usage
    BY <1>2, RootCauseAssumption DEF Conclude, IInv, Derived, UsageInv, FinalTotals, TypeOK
  <2>3. /\ report' # None /\ report'.outcome = DeriveOutcome
        /\ report'.band = Band(DeriveOutcome)
        /\ report'.review = (Band(DeriveOutcome) # "auto" \/ Usable = {})
    BY <1>2, <2>2 DEF Conclude, IInv, Derived
  <2>4. DeriveOutcome \in Contract!Conclusions(Usable # {})
    <3>1. CASE Usable = {}
      <4>1. primary = None
        BY <3>1 DEF IInv, ClaimInv
      <4>2. QED
        BY <4>1 DEF DeriveOutcome, Contract!Conclusions
    <3>2. CASE Usable # {}
      BY <3>2, ReportTyped DEF Contract!Conclusions, Outcomes
    <3>3. QED
      BY <3>1, <3>2
  <2>5. \E v \in 0 .. MaxAnswered, lost \in 0 .. MaxAnswered :
          /\ v = 0 \/ lost = 0
          /\ Usable = {} => v = 0 /\ lost = 0
          /\ spent' = usage + v /\ session' = usage + v + lost
    <3>1. verifier # "not_called" => Usable # {}
      BY DEF IInv, VerifierInv, ClaimInv
    <3>2. CASE verifier \in {"answered", "unparsed"}
      <4>1. verifierTok \in 1 .. MaxAnswered /\ session = usage + verifierTok
        BY <3>2 DEF IInv, UsageInv
      <4>2. verifierTok # None
        BY <4>1, RootCauseAssumption
      <4>3. /\ verifierTok \in 0 .. MaxAnswered /\ 0 \in 0 .. MaxAnswered
            /\ 0 = 0 /\ Usable # {}
            /\ spent' = usage + verifierTok /\ session' = usage + verifierTok + 0
        BY <2>2, <3>1, <3>2, <4>1, <4>2, RootCauseAssumption
      <4>4. QED
        BY <4>3
    <3>3. CASE verifier = "raised"
      <4>1. verifierTok = None /\ session - usage \in 0 .. MaxAnswered /\ session \in Nat
        BY <3>3 DEF IInv, UsageInv, TypeOK
      <4>2. /\ 0 \in 0 .. MaxAnswered /\ session - usage \in 0 .. MaxAnswered
            /\ 0 = 0 /\ Usable # {}
            /\ spent' = usage + 0 /\ session' = usage + 0 + (session - usage)
        BY <2>2, <3>1, <3>3, <4>1, RootCauseAssumption
      <4>3. QED
        BY <4>2
    <3>4. CASE verifier \notin {"answered", "unparsed", "raised"}
      <4>1. verifierTok = None /\ session = usage
        BY <2>2, <3>4 DEF IInv, UsageInv
      <4>2. /\ 0 \in 0 .. MaxAnswered /\ 0 = 0
            /\ spent' = usage + 0 /\ session' = usage + 0 + 0
        BY <2>2, <4>1, RootCauseAssumption
      <4>3. QED
        BY <4>2
    <3>5. QED
      BY <3>2, <3>3, <3>4
  <2>6. Contract!Report
    <3>1. \A o : Contract!Band(o) = Band(o)
      BY DEF Contract!Band, Band
    <3>2. ~ Ended /\ Ended' /\ ~ (pc = "crashed") /\ ~ (pc' = "crashed")
      BY <2>2 DEF Ended
    <3>3. QED
      BY <2>1, <2>2, <2>3, <2>4, <2>5, <3>1, <3>2 DEF Contract!Report
  <2>7. QED
    BY <2>6 DEF Contract!Next
<1>3. CASE /\ UNCHANGED <<store, report, spent>>
           /\ UNCHANGED <<pc, session>> \/ (~ Ended /\ ~ Ended')
  BY <1>3 DEF Contract!vars, Ended, Usable, Known
<1>4. QED
  <2>1. CASE RcaCallRaises \/ \E p \in Proposals : ClaimsRaise(p)
    <3>1. \A n \in 1 .. MaxAnswered : n \in 0 .. MaxAnswered
      OBVIOUS
    <3>2. QED
      BY <1>1, <2>1, <3>1 DEF RcaCallRaises, ClaimsRaise
  <2>2. CASE RcaCallUnparsed \/ \E p \in Proposals : RcaCallAnswers(p)
    BY <1>3, <2>2 DEF RcaCallUnparsed, RcaCallAnswers, Answered, inputVars, Ended
  <2>3. CASE ReadCited \/ SizeCited \/ ReadOthers \/ SizeFull \/ SizeNotice
    BY <1>3, <2>3 DEF ReadCited, SizeCited, ReadOthers, SizeFull, SizeNotice,
       SendFull, SendNotice, GiveUp, Sizings, inputVars, usageVars, Ended
  <2>4. CASE VerifierRaises \/ VerifierUnparsed \/ \E w \in Verdicts : VerifierAnswers(w)
    BY <1>3, <2>4 DEF VerifierRaises, VerifierUnparsed, VerifierAnswers, inputVars, Ended
  <2>5. CASE UNCHANGED vars
    BY <1>3, <2>5 DEF vars, inputVars, usageVars
  <2>6. QED
    BY <1>2, <2>1, <2>2, <2>3, <2>4, <2>5 DEF Next, Terminated

\* rca_builder with all its calls and failures is the one step that module
\* Investigation takes it to be.
THEOREM RootCauseImplementsContract == Spec => ImplementsReportContract
<1>1. Init => Contract!Init
  BY DEF Init, Contract!Init, Ended
<1>2. IInv /\ IInv' /\ [Next]_vars => [Contract!Next]_(Contract!vars)
  BY StepMeetsContract
<1>3. QED
  BY <1>1, <1>2, InvInit, InvStep, PTL
  DEF Spec, ImplementsReportContract, Contract!Spec
=============================================================================
