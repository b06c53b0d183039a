-------------------------------- MODULE Judge --------------------------------
(***************************************************************************)
(* What is made of a model's answer: the classified outcomes of one call   *)
(* (llm.py), the conversion of its deltas into proposals over the frozen   *)
(* input (maintenance/judge.py), and how the replay benchmark validates a  *)
(* case and scores an answer to it (bench/real_judge.py).  Pure operators  *)
(* over deltas with a partial function of fields and a sequence of         *)
(* evidence; texts are values, and what the code compares of two texts is  *)
(* their normal form or, for a condition, a set of variants.               *)
(***************************************************************************)
EXTENDS Naturals, Sequences, FiniteSets, Functions

CONSTANTS
    None,      \* no anchor, no target, no body
    Blank,     \* an empty text
    Normal,    \* _normalize: the normal form of each text
    Variants,  \* _condition_variants: the texts that state the same condition
    BodyFields \* the fields that each type of a case allows, with their values:
               \* texts that are not blank (_body_values_valid)

Relations == {"new", "confirm", "refine", "supersede", "conflict"}

\* ALLOWED_MEMORY_TYPES
AllowedMemoryTypes == {"profile", "taste", "convention", "decision", "project_map",
                       "gotcha", "task_checkpoint"}

ASSUME JudgeAssumption ==
    /\ DOMAIN BodyFields \subseteq AllowedMemoryTypes
    /\ Normal[Blank] = Blank
    /\ \A v \in DOMAIN Normal : Normal[Normal[v]] = Normal[v]
    /\ \A v \in DOMAIN Variants : v \in Variants[v]
    /\ \A t \in DOMAIN BodyFields : \A f \in DOMAIN BodyFields[t] :
           \A v \in BodyFields[t][f] : Normal[v] # Blank

-----------------------------------------------------------------------------
\* OpenAIJudge.judge: the classes of failure, and those a caller may retry.
Retryable == {"judge_timeout", "judge_rate_limited", "judge_service_unavailable",
              "judge_schema_error", "judge_error"}

Final == {"judge_configuration_error", "judge_authentication_error", "judge_response_error",
          "judge_conversion_error", "judge_event_loop_error"}

-----------------------------------------------------------------------------
\* convert_deltas.  A batch has the identifiers it was frozen with, and the
\* candidates and anchors that the model was shown.

\* The body of a delta: its fields with the key put outside.
Body(d) == [f \in {"key"} \cup DOMAIN d.fields |-> IF f = "key" THEN d.key ELSE d.fields[f]]

\* The anchor of a delta, with the revision it was frozen at.
Anchored(batch, d) ==
    IF d.relation = "new" THEN d.anchor = None
    ELSE /\ d.anchor \in DOMAIN batch.anchors
         /\ d.relation = "refine" => DOMAIN batch.anchors[d.anchor].payload \subseteq DOMAIN Body(d)

Evident(d, candidate) ==
    /\ d.evidence # <<>> /\ IsInjective(d.evidence)
    /\ Range(d.evidence) \subseteq Range(candidate.events)

Acceptable(batch, d) ==
    /\ d.candidate \in DOMAIN batch.candidates
    /\ d.type \in AllowedMemoryTypes /\ d.type = batch.candidates[d.candidate].type
    /\ Normal[d.key] # Blank
    /\ "key" \in DOMAIN d.fields => d.fields["key"] = d.key
    /\ Anchored(batch, d)
    /\ Evident(d, batch.candidates[d.candidate])

\* Every candidate is answered once, or the only one with nothing at all.
Convertible(batch, deltas) ==
    /\ batch.ids = DOMAIN batch.candidates /\ batch.ids # {}
    /\ IF deltas = <<>> THEN Cardinality(batch.ids) = 1
       ELSE /\ \A i \in DOMAIN deltas : Acceptable(batch, deltas[i])
            /\ \A i, j \in DOMAIN deltas : deltas[i].candidate = deltas[j].candidate => i = j
            /\ {deltas[i].candidate : i \in DOMAIN deltas} = batch.ids

Proposal(batch, d) ==
    LET candidate == batch.candidates[d.candidate] IN
    [candidate |-> d.candidate, operation |-> d.relation, target |-> d.anchor,
     revision |-> IF d.relation = "new" THEN None ELSE batch.anchors[d.anchor].revision,
     type |-> d.type, scope |-> candidate.scope, payload |-> Body(d), evidence |-> d.evidence]

NoChange(batch) ==
    LET c == CHOOSE c \in batch.ids : TRUE IN
    [candidate |-> c, operation |-> "no_change", target |-> None, revision |-> None,
     type |-> batch.candidates[c].type, scope |-> batch.candidates[c].scope,
     payload |-> <<>>, evidence |-> batch.candidates[c].events]

Proposals(batch, deltas) ==
    IF deltas = <<>> THEN <<NoChange(batch)>>
    ELSE [i \in DOMAIN deltas |-> Proposal(batch, deltas[i])]

-----------------------------------------------------------------------------
\* A case of the benchmark: a batch of one candidate and what a good answer to
\* it is.  The bodies are the expected one and the acceptable ones.

OnlyCandidate(c) == c.batch.candidates[CHOOSE i \in DOMAIN c.batch.candidates : TRUE]

\* _body_values_valid and the fields of the type.
WellTyped(type, body) ==
    /\ DOMAIN body # {}
    /\ \A f \in DOMAIN body : f \in DOMAIN BodyFields[type] /\ body[f] \in BodyFields[type][f]

\* _validate_body_shape
Shaped(c, body) ==
    /\ c.type \in DOMAIN BodyFields
    /\ c.required \cap c.optional = {}
    /\ c.required \subseteq DOMAIN body /\ DOMAIN body \subseteq c.required \cup c.optional
    /\ c.required \cup c.optional \subseteq DOMAIN BodyFields[c.type]
    /\ WellTyped(c.type, body)

AnnotatedFields(c) == UNION {DOMAIN b : b \in c.bodies}

\* The annotation of a case: nothing for no_change, else bodies with evidence
\* for every field (support holds the entries of field_evidence).
Annotated(c) ==
    IF c.relation = "no_change"
    THEN c.ignore /\ c.bodies = {} /\ c.evidence = <<>> /\ DOMAIN c.support = {}
    ELSE /\ ~c.ignore /\ c.bodies # {} /\ c.body \in c.bodies /\ c.evidence # <<>>
         /\ \A b \in c.bodies : Shaped(c, b)
         /\ DOMAIN c.support = AnnotatedFields(c)

\* field_evidence: every field has some, and the case bears each of it out.
Supported(c) ==
    \A f \in DOMAIN c.support : c.support[f] # {} /\ \A s \in c.support[f] : s.holds

\* Slip: the validator leaves the target of a new memory unchecked.
TargetedSlip(c) ==
    c.relation \in {"confirm", "refine", "supersede", "conflict"} =>
        /\ c.target \in DOMAIN c.batch.anchors
        /\ c.batch.anchors[c.target].revision = c.revision

\* The expected target is a frozen anchor at its revision; a new memory has none.
Targeted(c) ==
    /\ c.relation = "new" => c.target = None /\ c.revision = None
    /\ c.relation \notin {"new", "no_change"} =>
           /\ c.target \in DOMAIN c.batch.anchors
           /\ c.batch.anchors[c.target].revision = c.revision

\* _condition_variants: the ways to state the condition of a text.
Conditions(v) == Variants[Normal[v]]

\* field_comparators: conditions of a gotcha only, quoted with an equivalence.
Comparable(c) ==
    /\ c.comparators \subseteq {"applies_when"}
    /\ c.comparators # {} => c.type = "gotcha"
    /\ \A f \in c.comparators, b \in c.bodies :
           /\ f \in DOMAIN b
           /\ \E s \in c.support[f] : s.equivalence /\ s.quotes \cap Conditions(b[f]) # {}

\* _validate_v4_case, with the checks of v2 and v3 that it includes.
ValidCase(c) ==
    /\ \E i \in DOMAIN c.batch.candidates : DOMAIN c.batch.candidates = {i}
    /\ c.type = OnlyCandidate(c).type /\ c.scope = OnlyCandidate(c).scope
    /\ Annotated(c)
    /\ Supported(c)
    /\ Targeted(c)
    /\ c.category = "refine" => \E s \in c.support["applies_when"] : s.equivalence
    /\ Comparable(c)

-----------------------------------------------------------------------------
\* score_observation: the answer against the annotation.  Each score is "yes",
\* "no", or "na" when the case does not ask for it.
Yes(p) == IF p THEN "yes" ELSE "no"

\* {"key": key, **fields}: the fields come last.
Merged(d) == [f \in {"key"} \cup DOMAIN d.fields |->
                 IF f \in DOMAIN d.fields THEN d.fields[f] ELSE d.key]

\* A field of an answer agrees with that of a reference body.
Agrees(c, f, actual, reference) ==
    \/ Normal[actual] = Normal[reference]
    \/ f \in c.comparators /\ Normal[actual] \in Conditions(reference)

MatchesBody(c, d) ==
    LET body == Merged(d) IN
    /\ c.required \subseteq DOMAIN body /\ DOMAIN body \subseteq c.required \cup c.optional
    /\ WellTyped(c.type, body)
    /\ \E b \in c.bodies :
           DOMAIN b = DOMAIN body /\ \A f \in DOMAIN b : Agrees(c, f, body[f], b[f])

MatchesEvidence(c, d) == IsInjective(d.evidence) /\ Range(d.evidence) = Range(c.evidence)

\* _conversion_fidelity: what one delta should have become, computed anew.
Faithful(c, deltas, proposals) ==
    /\ Len(deltas) <= 1 /\ Len(proposals) = 1
    /\ LET p == proposals[1] IN
       /\ p.scope = OnlyCandidate(c).scope
       /\ IF deltas = <<>>
          THEN /\ p.operation = "no_change" /\ p.target = None /\ p.revision = None
               /\ p.type = OnlyCandidate(c).type /\ p.payload = <<>>
               /\ p.evidence = OnlyCandidate(c).events
          ELSE LET d == deltas[1] IN
               /\ p.operation = d.relation /\ p.type = d.type
               /\ p.payload = Merged(d)
               /\ p.evidence = d.evidence
               /\ IF d.relation = "new" THEN p.target = None /\ p.revision = None
                  ELSE /\ d.anchor \in DOMAIN c.batch.anchors
                       /\ p.target = d.anchor
                       /\ p.revision = c.batch.anchors[d.anchor].revision

\* _context_matches
InContext(c, proposals) ==
    /\ Len(proposals) = 1
    /\ LET p == proposals[1] IN p.target = c.target /\ p.revision = c.revision
                                /\ p.type = c.type /\ p.scope = c.scope

Score(c, deltas, proposals) ==
    LET relation == IF deltas = <<>> THEN c.relation = "no_change"
                    ELSE Len(deltas) = 1 /\ deltas[1].relation = c.relation
        body     == Len(deltas) = 1 /\ MatchesBody(c, deltas[1])
        evidence == Len(deltas) = 1 /\ MatchesEvidence(c, deltas[1])
        asked    == c.relation # "no_change"
    IN [relation |-> Yes(relation),
        body     |-> IF asked THEN Yes(body) ELSE "na",
        evidence |-> IF asked THEN Yes(evidence) ELSE "na",
        fidelity |-> Yes(Faithful(c, deltas, proposals)),
        ignore   |-> IF c.ignore THEN Yes(deltas = <<>>) ELSE "na",
        semantic |-> Yes(relation /\ (asked => body /\ evidence) /\ InContext(c, proposals))]

AllRight(score) == \A f \in DOMAIN score : score[f] # "no"
=============================================================================
