----------------------------- MODULE RootCause -----------------------------
(***************************************************************************)
(* The last node, rca_builder: from the evidence an investigation has left *)
(* to the outcome it reports.  One model call proposes claims; code picks  *)
(* the primary one; a second, independent model call judges it against the *)
(* stored sources of the evidence it cites (Set A) and of the rest (Set B);*)
(* the gates of derive_outcome decide.                                     *)
(*                                                                         *)
(* A step is one call out of the process - a model call, the reads of one  *)
(* evidence set, one sizing of a request - with the code up to the next.   *)
(* Of a claim's text the model keeps what the word comparison makes of it. *)
(* The legacy confidence score is left out: no gate reads it.              *)
(***************************************************************************)
EXTENDS Integers, Sequences, FiniteSets

CONSTANTS
  None,
  Ids,         \* evidence ids the model may name, existing or not
  Items,       \* evidence_store entries considered
  Proposals,   \* parsed answers of the RCA call
  Verdicts,    \* parsed answers of the verifier call
  MaxAnswered  \* answered calls behind one llm_json: 2 with its retry

ClaimTypes == {"observed_fact", "supported_inference", "hypothesis",
               "unknown", "recommendation"}

\* What comparing a claim's words with its evidence can yield.
TextVerdicts == {"grounded", "weak_overlap", "no_overlap", "contradicted",
                 "empty_evidence", "empty_claim", "unsupported_entity"}

\* place: the cluster or the namespace / pod of the entry explicitly differs
\* from the resolved one.  stored: it has a gs:// reference.
EvidenceItem == [ok : BOOLEAN, stored : BOOLEAN,
                 place : {"here", "other_cluster", "other_resource"}]

RawClaim == [shape : {"dict", "not_a_dict", "null_ids"}, type : ClaimTypes,
             cites : SUBSET Ids, text : TextVerdicts]
RawHypothesis == [shape : {"dict", "null_ids"}, cites : SUBSET Ids,
                  status : {"active", "weakened", "eliminated", "selected"}]
Proposal == [claims : Seq(RawClaim), index : {None} \cup Int,
             hyps : SUBSET RawHypothesis]

\* valid: each of the five verdicts is a word of its vocabulary.
RawVerdict == [valid : BOOLEAN,
               causal : {"specific_cause", "non_causal", "abstention"},
               faith : {"supported", "partial", "unsupported"},
               suff : {"sufficient", "insufficient"},
               contra : {"present", "absent"},
               temporal : {"relevant", "unknown", "conflicting"},
               refs : SUBSET Ids, ref : {None} \cup Ids]

Outcomes == {"confirmed", "probable", "possible", "insufficient_evidence",
             "conflicting_evidence"}
Bands == {"auto", "review", "escalate"}

\* tied: the report is tied to a primary claim.
Report == [outcome : Outcomes, band : Bands, review : BOOLEAN,
           cause : {"claim", "no_evidence", "not_parsed", "none_established"},
           tied : BOOLEAN]

ASSUME RootCauseAssumption ==
  /\ None \notin Ids /\ None \notin Int
  /\ Items \subseteq EvidenceItem
  /\ Proposals \subseteq Proposal
  /\ Verdicts \subseteq RawVerdict
  /\ None \notin Proposals /\ None \notin Verdicts /\ None \notin Report
  /\ MaxAnswered \in Nat \ {0}

VARIABLES
  pc,
  store,       \* evidence_store: DOMAIN store is evidence_ids
  timed,       \* an incident_time_context exists
  complete,    \* completeness["score"] >= 0.60
  proposal,    \* the RCA call's answer; None when it could not be parsed
  claims,      \* build_claims: raw position -> claim
  primary,     \* raw position of primary_claim, or None
  gotCited,    \* Set A evidence whose source was read
  gotOthers,   \* Set B evidence whose source was read
  request,     \* ids that Set B of the request sent names
  allowed,     \* prompt_other_ids, what _parse_result accepts as a reference
  scanned,     \* contradiction_check_complete
  verifier,    \* how verify_primary_claim ended
  answer,      \* the verifier's answer as it parsed, or None
  usage,       \* answered calls the RCA call's usage stands for
  verifierTok, \* totals with the verifier's usage folded in, or None
  spent,       \* the investigation's totals, in answered calls
  session,     \* the adapter's own count of answered calls
  report

inputVars  == <<store, timed, complete>>
claimVars  == <<proposal, claims, primary>>
setVars    == <<gotCited, gotOthers, request, allowed, scanned>>
judgedVars == <<verifier, answer>>
usageVars  == <<usage, verifierTok, spent, session>>
vars == <<pc, inputVars, claimVars, setVars, judgedVars, usageVars, report>>

-----------------------------------------------------------------------------
Known  == DOMAIN store
Usable == {e \in Known : store[e].ok}

Init ==
  /\ pc = "rca_call"
  /\ store \in UNION {[S -> Items] : S \in SUBSET Ids}
  /\ timed \in BOOLEAN /\ complete \in BOOLEAN
  /\ proposal = None /\ claims = << >> /\ primary = None
  /\ gotCited = {} /\ gotOthers = {} /\ request = {} /\ allowed = {}
  /\ scanned = FALSE
  /\ verifier = "not_called" /\ answer = None
  /\ usage = 0 /\ verifierTok = None /\ spent = 0 /\ session = 0
  /\ report = None

-----------------------------------------------------------------------------
(* claim_builder.                                                          *)

\* Defect: survivors of the malformed entries are renumbered.
BuildClaims_Renumbered(raw) ==
  SelectSeq(raw, LAMBDA c : c.shape = "dict")

\* A dropped entry does not renumber the others.
BuildClaims(raw) ==
  [i \in {j \in DOMAIN raw : raw[j].shape = "dict"} |-> raw[i]]

Grounding(c) ==
  IF ~ c.cites \subseteq Known THEN "phantom_evidence"
  ELSE IF c.cites = {} THEN "ungrounded"
  ELSE IF c.cites \cap Usable = {} THEN "failed_evidence_only"
  ELSE c.text

Eligible(c) ==
  /\ c.type \notin {"recommendation", "hypothesis"}
  /\ c.cites # {} /\ c.cites \subseteq Usable
  /\ Grounding(c) # "unsupported_entity"

SelectPrimary(built, index) ==
  IF index \in DOMAIN built /\ Eligible(built[index]) THEN index ELSE None

\* An active hypothesis with evidence of its own; unknown ids are filtered.
ActiveAlternative ==
  /\ proposal # None /\ Usable # {}
  /\ \E h \in proposal.hyps : h.status = "active" /\ h.cites \cap Known # {}

\* detect_contradictions: the wrong_resource ones, over every claim.
WrongResource ==
  \E i \in DOMAIN claims : \E e \in claims[i].cites \cap Known :
     store[e].place = "other_cluster"

-----------------------------------------------------------------------------
(* The RCA call.                                                           *)

Crash(n) ==
  /\ pc' = "crashed"
  /\ session' = session + n
  /\ UNCHANGED <<inputVars, claimVars, setVars, judgedVars, usage, verifierTok,
                 spent, report>>

\* The model client raises, out of the graph.  An answer without text and the
\* one before a truncation retry have been counted by then.
RcaCallRaises == pc = "rca_call" /\ \E n \in 0 .. MaxAnswered : Crash(n)

Answered(n) ==
  /\ usage' = n /\ session' = session + n
  /\ UNCHANGED <<inputVars, setVars, judgedVars, verifierTok, spent, report>>

\* llm_json_failed: a report without claims.
RcaCallUnparsed ==
  /\ pc = "rca_call" /\ pc' = "conclude"
  /\ \E n \in 1 .. MaxAnswered : Answered(n)
  /\ UNCHANGED claimVars

\* "supporting_evidence_ids": null is iterated over: build_claims and
\* build_hypotheses raise.
NullIds(p) ==
  \/ \E i \in DOMAIN p.claims : p.claims[i].shape = "null_ids"
  \/ \E h \in p.hyps : h.shape = "null_ids"

\* With no usable evidence the claims are emptied; the index stays.
RcaCallAnswers(p) ==
  LET built == IF Usable = {} THEN << >> ELSE BuildClaims(p.claims)
  IN /\ pc = "rca_call"
     /\ Usable # {} => ~ NullIds(p)
     /\ proposal' = p
     /\ claims' = built
     /\ primary' = SelectPrimary(built, p.index)
     /\ pc' = IF primary' = None THEN "conclude" ELSE "read_cited"
     /\ \E n \in 1 .. MaxAnswered : Answered(n)

ClaimsRaise(p) ==
  /\ pc = "rca_call" /\ Usable # {} /\ NullIds(p)
  /\ \E n \in 1 .. MaxAnswered : Crash(n)

-----------------------------------------------------------------------------
(* verify_primary_claim up to the call: reading and sizing.                *)

Cited  == IF primary = None THEN {} ELSE claims[primary].cites
Others == Usable \ Cited

Stored(S) == {e \in S : store[e].stored}

\* _fetch_sanitized_source for each of Set A: any of the reads may fail.
ReadCited ==
  /\ pc = "read_cited" /\ pc' = "size_cited"
  /\ \E got \in SUBSET Stored(Cited) : gotCited' = got
  /\ UNCHANGED <<inputVars, claimVars, gotOthers, request, allowed, scanned,
                 judgedVars, usageVars, report>>

\* A sizing ends the verification, unverified, or lets it go on.
GiveUp(how) ==
  /\ pc' = "conclude" /\ verifier' = how
  /\ UNCHANGED <<inputVars, claimVars, setVars, answer, usageVars, report>>

Sizings == {"fits", "exceeds", "error"}

SizeCited ==
  /\ pc = "size_cited"
  /\ \E s \in Sizings :
       CASE s = "fits" -> /\ pc' = "read_others"
                          /\ UNCHANGED <<inputVars, claimVars, setVars,
                                         judgedVars, usageVars, report>>
         [] s = "exceeds" -> GiveUp("context_limit")
         [] s = "error" -> GiveUp("sizing_failed")

ReadOthers ==
  /\ pc = "read_others" /\ pc' = "size_full"
  /\ \E got \in SUBSET Stored(Others) : gotOthers' = got
  /\ UNCHANGED <<inputVars, claimVars, gotCited, request, allowed, scanned,
                 judgedVars, usageVars, report>>

\* The request with both sets in full.
SendFull ==
  /\ pc' = "call" /\ request' = Others /\ allowed' = Others
  /\ scanned' = (gotOthers = Others)
  /\ UNCHANGED <<inputVars, claimVars, gotCited, gotOthers, judgedVars,
                 usageVars, report>>

SizeFull ==
  /\ pc = "size_full"
  /\ \E s \in Sizings :
       CASE s = "fits" -> SendFull
         [] s = "exceeds" -> /\ pc' = "size_notice"
                             /\ UNCHANGED <<inputVars, claimVars, setVars,
                                            judgedVars, usageVars, report>>
         [] s = "error" -> GiveUp("sizing_failed")

\* Defect: what Set B holds may be cited although it was not sent.
SendNotice_AllowsOthers ==
  /\ pc' = "call" /\ request' = {} /\ allowed' = Others /\ scanned' = FALSE
  /\ UNCHANGED <<inputVars, claimVars, gotCited, gotOthers, judgedVars,
                 usageVars, report>>

\* Set A and a notice that Set B could not be included.
SendNotice ==
  /\ pc' = "call" /\ request' = {} /\ allowed' = {} /\ scanned' = FALSE
  /\ UNCHANGED <<inputVars, claimVars, gotCited, gotOthers, judgedVars,
                 usageVars, report>>

SizeNotice ==
  /\ pc = "size_notice"
  /\ \E s \in Sizings :
       CASE s = "fits" -> SendNotice
         [] s = "exceeds" -> GiveUp("context_limit")
         [] s = "error" -> GiveUp("sizing_failed")

-----------------------------------------------------------------------------
(* The verifier call.                                                      *)

\* The call raises: it may have been answered, without text, and counted.
VerifierRaises ==
  /\ pc = "call" /\ pc' = "conclude"
  /\ verifier' = "raised"
  /\ \E lost \in 0 .. MaxAnswered : session' = session + lost
  /\ UNCHANGED <<inputVars, claimVars, setVars, answer, usage, verifierTok,
                 spent, report>>

VerifierUnparsed ==
  /\ pc = "call" /\ pc' = "conclude"
  /\ verifier' = "unparsed"
  /\ \E n \in 1 .. MaxAnswered :
       session' = session + n /\ verifierTok' = spent + n
  /\ UNCHANGED <<inputVars, claimVars, setVars, answer, usage, spent, report>>

VerifierAnswers(w) ==
  /\ pc = "call" /\ pc' = "conclude"
  /\ verifier' = "answered" /\ answer' = w
  /\ \E n \in 1 .. MaxAnswered :
       session' = session + n /\ verifierTok' = spent + n
  /\ UNCHANGED <<inputVars, claimVars, setVars, usage, spent, report>>

\* _parse_result: what makes the result verified_ok.
Accepted(w) ==
  /\ w.valid
  /\ w.refs \subseteq Cited
  /\ w.contra = "present" => w.ref \in allowed

\* Without an incident time nothing can be said to match it.
Temporal(w) == IF timed THEN w.temporal ELSE "unknown"

-----------------------------------------------------------------------------
(* scorer.derive_outcome.                                                  *)

\* _check_resource_identity returns less than 1.0.
ResourceMismatch == \E e \in Cited : store[e].place # "here"

\* Defect: evidence the verifier could not see supports the claim.
SourceComplete_Any == gotCited # {}

SourceComplete == gotCited = Cited

HardConflict(w) ==
  \/ w.contra = "present"
  \/ Temporal(w) = "conflicting"
  \/ WrongResource
  \/ ResourceMismatch

ConfirmGates(w) ==
  /\ complete
  /\ ~ ActiveAlternative
  /\ scanned
  /\ Temporal(w) = "relevant"

\* Defect: partial support and insufficient evidence are each only weak.
Judge_WeakIsPossible(w) ==
  IF ~ Accepted(w) \/ w.causal # "specific_cause" THEN "insufficient_evidence"
  ELSE IF HardConflict(w) THEN "conflicting_evidence"
  ELSE IF ~ SourceComplete \/ w.faith = "unsupported" THEN "insufficient_evidence"
  ELSE IF w.suff = "insufficient"
         THEN IF w.faith = "partial" THEN "possible" ELSE "insufficient_evidence"
  ELSE IF w.faith = "partial" THEN "possible"
  ELSE IF ConfirmGates(w) THEN "confirmed"
  ELSE "probable"

\* The gates in the order of the code, for an answer of the verifier.
Judge(w) ==
  IF ~ Accepted(w) \/ w.causal # "specific_cause" THEN "insufficient_evidence"
  ELSE IF HardConflict(w) THEN "conflicting_evidence"
  ELSE IF ~ SourceComplete \/ w.faith = "unsupported" THEN "insufficient_evidence"
  ELSE IF w.suff = "insufficient"
         THEN IF w.faith = "supported" THEN "possible" ELSE "insufficient_evidence"
  ELSE IF w.faith = "partial" THEN "possible"
  ELSE IF ConfirmGates(w) THEN "confirmed"
  ELSE "probable"

DeriveOutcome ==
  IF primary = None \/ verifier # "answered" THEN "insufficient_evidence"
  ELSE Judge(answer)

\* Defect: a probable cause needs no reviewer.
Band_ProbableIsAuto(outcome) ==
  IF outcome \in {"confirmed", "probable"} THEN "auto" ELSE "escalate"

\* confidence_band_from_scores.
Band(outcome) == IF outcome = "confirmed" THEN "auto"
                 ELSE IF outcome = "probable" THEN "review"
                 ELSE "escalate"

\* likely_root_cause: a text of the code's own, or the primary claim's.
RootCauseText ==
  IF primary # None THEN "claim"
  ELSE IF Usable = {} THEN "no_evidence"
  ELSE IF proposal = None THEN "not_parsed"
  ELSE "none_established"

\* Defect: the RCA call's usage is folded into the totals the node started with.
FinalTotals_Base == spent + usage

FinalTotals == (IF verifierTok # None THEN verifierTok ELSE spent) + usage

Conclude ==
  /\ pc = "conclude" /\ pc' = "done"
  /\ report' = [outcome |-> DeriveOutcome,
                band    |-> Band(DeriveOutcome),
                review  |-> Band(DeriveOutcome) # "auto" \/ Usable = {},
                cause   |-> RootCauseText,
                tied    |-> primary # None]
  /\ spent' = FinalTotals
  /\ UNCHANGED <<inputVars, claimVars, setVars, judgedVars, usage, verifierTok,
                 session>>

Terminated == pc \in {"done", "crashed"} /\ UNCHANGED vars

Next ==
  \/ RcaCallRaises \/ RcaCallUnparsed
  \/ \E p \in Proposals : RcaCallAnswers(p) \/ ClaimsRaise(p)
  \/ ReadCited \/ SizeCited \/ ReadOthers \/ SizeFull \/ SizeNotice
  \/ VerifierRaises \/ VerifierUnparsed
  \/ \E w \in Verdicts : VerifierAnswers(w)
  \/ Conclude
  \/ Terminated

Spec == Init /\ [][Next]_vars

-----------------------------------------------------------------------------
(* Invariants.                                                             *)

TypeOK ==
  /\ pc \in {"rca_call", "read_cited", "size_cited", "read_others",
             "size_full", "size_notice", "call", "conclude", "done", "crashed"}
  /\ Known \subseteq Ids /\ store \in [Known -> Items]
  /\ timed \in BOOLEAN /\ complete \in BOOLEAN
  /\ proposal \in {None} \cup Proposals
  /\ DOMAIN claims \subseteq Nat /\ claims \in [DOMAIN claims -> RawClaim]
  /\ primary \in {None} \cup DOMAIN claims
  /\ gotCited \subseteq Ids /\ gotOthers \subseteq Ids
  /\ request \subseteq Ids /\ allowed \subseteq Ids /\ scanned \in BOOLEAN
  /\ verifier \in {"not_called", "context_limit", "sizing_failed", "raised",
                   "unparsed", "answered"}
  /\ answer \in {None} \cup Verdicts
  /\ usage \in Nat /\ verifierTok \in {None} \cup Nat
  /\ spent \in Nat /\ session \in Nat
  /\ report \in {None} \cup Report

Reported == pc = "done"
Outcome  == report.outcome
Positive == {"confirmed", "probable", "possible"}

\* A report that names a likely cause rests on a claim the verifier endorsed
\* from the full sources of every item it cites, none of a failed call or of
\* another place; and only "confirmed", which no human reviews, has had the
\* whole of the other evidence read and put before the verifier, with the
\* incident's time known and the investigation complete.
ConclusionIsEarned ==
  Reported =>
    /\ Outcome \in Positive =>
         /\ primary # None /\ answer # None
         /\ Cited # {} /\ Cited \subseteq gotCited \cap Usable
         /\ \A e \in Cited : store[e].place = "here"
         /\ \A i \in DOMAIN claims : \A e \in claims[i].cites \cap Known :
              store[e].place # "other_cluster"
         /\ answer.causal = "specific_cause" /\ answer.faith # "unsupported"
         /\ answer.contra = "absent"
    /\ ~ report.review =>
         /\ Outcome = "confirmed"
         /\ complete /\ timed
         /\ Usable \ Cited \subseteq request \cap gotOthers

\* A conflict is reported for a reason a reader can look up: evidence that
\* a claim cites is of another place, the incident's time is known and
\* contradicted, or the contradicting item was named in the request.
ConflictHasCause ==
  Reported /\ Outcome = "conflicting_evidence" =>
    \/ \E i \in DOMAIN claims : \E e \in claims[i].cites \cap Known :
         store[e].place = "other_cluster"
    \/ \E e \in Cited : store[e].place # "here"
    \/ timed /\ answer.temporal = "conflicting"
    \/ answer.contra = "present" /\ answer.ref \in request

\* What happens to the other evidence - unread, or too large for the request -
\* never costs a fully endorsed claim more than "confirmed".
OthersOnlyCap ==
  /\ Reported /\ answer # None /\ gotCited = Cited
  /\ answer.valid /\ answer.refs \subseteq Cited
  /\ answer.causal = "specific_cause" /\ answer.faith = "supported"
  /\ answer.suff = "sufficient" /\ answer.contra = "absent"
  => Outcome # "insufficient_evidence"

\* A claim is denied a likely cause for reasons that a reader can look up, and
\* what the claim does not cite is no such reason unless it contradicts it.
DenialHasCause == ConflictHasCause /\ OthersOnlyCap

\* How much an outcome claims, and when one answer of the verifier is no
\* better than another in every respect.
Rank(outcome) == CASE outcome = "confirmed" -> 3
                   [] outcome = "probable" -> 2
                   [] outcome = "possible" -> 1
                   [] OTHER -> 0

Weight(word) == CASE word \in {"supported", "sufficient", "specific_cause",
                               "absent", "relevant"} -> 2
                  [] word \in {"partial", "unknown"} -> 1
                  [] OTHER -> 0

NoBetter(w, x) ==
  /\ w.valid => x.valid
  /\ x.refs \subseteq w.refs
  /\ Weight(w.causal) <= Weight(x.causal)
  /\ Weight(w.faith) <= Weight(x.faith)
  /\ Weight(w.suff) <= Weight(x.suff)
  /\ Weight(w.contra) <= Weight(x.contra)
  /\ Weight(w.temporal) <= Weight(x.temporal)

\* A worse answer of the verifier, about the same claim and evidence, would
\* not have led to a stronger outcome.
OutcomeMonotone ==
  Reported /\ answer # None =>
    \A w \in Verdicts : NoBetter(w, answer) => Rank(Judge(w)) <= Rank(Outcome)

\* Every answered call whose usage came back is in the totals: they differ
\* from the adapter's own count only by the calls of a verifier that raised.
UsageCounted ==
  Reported => /\ spent <= session
              /\ verifier # "raised" => spent = session

\* The cause shown is the very claim the model pointed to, and that claim
\* cites nothing but evidence of successful calls.
CauseIsTheClaim ==
  Reported /\ report.cause = "claim" =>
    /\ proposal.index \in DOMAIN proposal.claims
    /\ claims[primary] = proposal.claims[proposal.index]
    /\ Cited \subseteq Usable

=============================================================================
