---------------------------- MODULE MCRootCause ----------------------------
(***************************************************************************)
(* A small instance of RootCause: two evidence items of every kind that    *)
(* matters, answers of up to two claims and the verifier's answers.        *)
(***************************************************************************)
EXTENDS RootCauseRefinement, TLC

CONSTANTS e1, e2

Item(o, s, p) == [ok |-> o, stored |-> s, place |-> p]

SmallItems == {Item(TRUE, TRUE, "here"), Item(FALSE, TRUE, "here"),
               Item(TRUE, FALSE, "here"), Item(TRUE, TRUE, "other_cluster"),
               Item(TRUE, TRUE, "other_resource")}

Claim(t, c, x) == [shape |-> "dict", type |-> t, cites |-> c, text |-> x]
Odd(s) == [shape |-> s, type |-> "unknown", cites |-> {}, text |-> "no_overlap"]

Fact(c) == Claim("observed_fact", c, "grounded")
Rival == [shape |-> "dict", status |-> "active", cites |-> {e2}]
Weakened == [Rival EXCEPT !.status = "weakened"]
Null == [Rival EXCEPT !.shape = "null_ids"]

\* The claims that can become primary, then those that must not.
Primaries == {Fact({e1}), Fact({e1, e2})}
Refused == {Fact({}), Claim("hypothesis", {e1}, "grounded"),
            Claim("supported_inference", {e1}, "unsupported_entity")}

Answer(c, i, h) == [claims |-> c, index |-> i, hyps |-> h]

SmallProposals ==
  {Answer(<<c>>, 1, h) : c \in Primaries, h \in {{}, {Rival}, {Weakened}}}
  \cup {Answer(<<c>>, 1, {}) : c \in Refused}
  \cup {Answer(<<Fact({e1}), Fact({e2})>>, i, {}) : i \in {None, 0, 1, 2, 3}}
  \cup {Answer(<<Odd("not_a_dict"), Fact({e1}), Fact({e2})>>, i, {}) : i \in 1 .. 3}
  \cup {Answer(<<Odd("null_ids")>>, 1, {}), Answer(<<Fact({e1})>>, 1, {Null}),
        Answer(<< >>, None, {})}

Endorsed == [valid |-> TRUE, causal |-> "specific_cause", faith |-> "supported",
             suff |-> "sufficient", contra |-> "absent", temporal |-> "relevant",
             refs |-> {}, ref |-> None]

\* Every combination of the five verdicts, a contradiction with either item;
\* beside them the endorsement that is no cause, invalid or cites too much.
SmallVerdicts ==
  {w \in [valid : {TRUE}, causal : {"specific_cause"},
          faith : {"supported", "partial", "unsupported"},
          suff : {"sufficient", "insufficient"},
          contra : {"present", "absent"},
          temporal : {"relevant", "unknown", "conflicting"},
          refs : {{}}, ref : {None, e1, e2}] :
     w.contra = "absent" <=> w.ref = None}
  \cup {[Endorsed EXCEPT !.causal = "non_causal"], [Endorsed EXCEPT !.valid = FALSE],
        [Endorsed EXCEPT !.refs = {e1}], [Endorsed EXCEPT !.refs = {e2}],
        [Endorsed EXCEPT !.contra = "present"]}
=============================================================================
