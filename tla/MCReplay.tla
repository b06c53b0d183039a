------------------------------ MODULE MCReplay ------------------------------
EXTENDS Replay, TLC

CONSTANTS pro, flash, none, key, fix, task, closing, theClosing, blank, cand, anchor, e1, e2

Texts == {key, fix, task, closing, theClosing, blank}

\* Two spellings of one condition; every text is its own normal form.
NormalForm == [v \in Texts |-> v]
Spellings == [v \in Texts |-> IF v \in {closing, theClosing} THEN {closing, theClosing} ELSE {v}]

Gotcha == "gotcha" :> [f \in {"key", "fix", "applies_when"} |-> Texts \ {blank}]

Batch ==
    [ids |-> {cand},
     candidates |-> cand :> [type |-> "gotcha", scope |-> "project", events |-> <<e1, e2>>],
     anchors |-> anchor :> [revision |-> 4, payload |-> ("key" :> key @@ "fix" :> fix)]]

Said(v) == [holds |-> TRUE, equivalence |-> TRUE, quotes |-> {v}]

Whole   == "key" :> key @@ "fix" :> fix @@ "applies_when" :> closing
Changed == "key" :> key @@ "fix" :> task

Refine ==
    [relation |-> "refine", category |-> "refine", ignore |-> FALSE, batch |-> Batch,
     required |-> {"key", "fix", "applies_when"}, optional |-> {}, body |-> Whole, bodies |-> {Whole},
     evidence |-> <<e1>>, target |-> anchor, revision |-> 4, type |-> "gotcha", scope |-> "project",
     comparators |-> {"applies_when"}, support |-> [f \in DOMAIN Whole |-> {Said(Whole[f])}]]

Create ==
    [Refine EXCEPT !.relation = "new", !.category = "new", !.body = Changed, !.bodies = {Changed},
                   !.required = {"key", "fix"}, !.target = none, !.revision = none, !.comparators = {},
                   !.support = [f \in DOMAIN Changed |-> {Said(Changed[f])}]]

Ignore ==
    [Refine EXCEPT !.relation = "no_change", !.category = "no_change", !.ignore = TRUE,
                   !.body = none, !.bodies = {}, !.evidence = <<>>, !.target = none, !.revision = none,
                   !.comparators = {}, !.support = <<>>]

\* Two datasets, and three that the loader refuses: a new memory with a target,
\* a refinement of another revision, a condition without a quote.
Loadable ==
    { <<Refine, Ignore>>, <<Create, Refine>>,
      << [Create EXCEPT !.target = anchor, !.revision = 4], Ignore >>,
      << [Refine EXCEPT !.revision = 3], Ignore >>,
      << [Refine EXCEPT !.support["applies_when"] = {Said(task)}], Ignore >> }

Starts == {[model |-> pro, frozen |-> TRUE, repeats |-> 2, attempts |-> 2],
           [model |-> pro, frozen |-> FALSE, repeats |-> 1, attempts |-> 1],
           [model |-> pro, frozen |-> TRUE, repeats |-> 1, attempts |-> 2]}

Delta ==
    [candidate |-> cand, type |-> "gotcha", relation |-> "refine", anchor |-> anchor, key |-> key,
     fields |-> ("fix" :> fix @@ "applies_when" :> closing), evidence |-> <<e1>>]

\* Nothing; the refinement, as a patch in another spelling, with more evidence;
\* the new memory; two answers for one candidate.
Replies ==
    { <<>>, <<Delta>>,
      << [Delta EXCEPT !.fields = "applies_when" :> theClosing] >>,
      << [Delta EXCEPT !.evidence = <<e1, e2>>] >>,
      << [Delta EXCEPT !.relation = "new", !.anchor = none, !.fields = "fix" :> task] >>,
      <<Delta, Delta>> }
=============================================================================
