------------------------------- MODULE Replay -------------------------------
(***************************************************************************)
(* The replay of a frozen set of cases against a model (run_replay of      *)
(* bench/real_judge.py over OpenAIProposalJudge of maintenance/judge.py),  *)
(* the two ways to accept its results (_acceptance_status, and             *)
(* admission_errors of bench/admission.py) and the comparison of two       *)
(* models (audit_models).  Results are written to a file, and whoever      *)
(* keeps the files may lose, repeat, merge or edit their lines.            *)
(***************************************************************************)
EXTENDS Judge

CONSTANTS
    Datasets,    \* datasets that may be loaded: sequences of cases
    Setups,      \* how runs may be started
    CaseCount,   \* FROZEN_CASES
    Repeats,     \* FROZEN_REPEATS
    MaxAttempts, \* FROZEN_ATTEMPTS
    Models,
    Answers,     \* what a model may answer
    Failures,    \* the classes of failure that may happen to a call
    MaxFailures  \* bound on failed calls of a run

ASSUME ReplayAssumption ==
    /\ CaseCount \in Nat \ {0} /\ Repeats \in Nat \ {0, 1} /\ MaxAttempts \in Nat \ {0}
    /\ \A cases \in Datasets : DOMAIN cases = 1..CaseCount
    /\ \A deltas \in Answers : deltas \in Seq(Range(deltas))
    /\ Failures \subseteq Retryable \cup Final /\ MaxFailures \in Nat
    /\ Setups \subseteq [model : Models, frozen : BOOLEAN, repeats : 1..Repeats,
                         attempts : 1..MaxAttempts]

VARIABLES
    dataset, \* the cases of the run, which load_replay_dataset has validated
    setup,   \* how the run was started
    attempt, \* attempts made at the present observation, 0 before the first
    errors,  \* attempt_errors
    failed,  \* failed calls so far
    actual,  \* the proposals of the successful attempt
    trace,   \* last_trace of the adapter
    results, \* the observations of the run
    file     \* the file of results that is audited

replayVars == <<dataset, setup, attempt, errors, failed, actual, trace, results, file>>

Keys == (1..Repeats) \X (1..CaseCount)
NotRun == [status |-> "not_run", error |-> None, deltas |-> <<>>]

NextCase   == (Len(results) % CaseCount) + 1
NextRepeat == (Len(results) \div CaseCount) + 1
Finished   == Len(results) = setup.repeats * CaseCount
Case(r)    == dataset[r.case]

Init ==
    /\ dataset \in Datasets
    /\ IsInjective(dataset) /\ \A i \in DOMAIN dataset : ValidCase(dataset[i])
    /\ setup \in Setups
    /\ attempt = 0 /\ errors = <<>> /\ failed = 0 /\ actual = <<>> /\ trace = NotRun
    /\ results = <<>> /\ file = <<>>

-----------------------------------------------------------------------------
\* The attempts at an observation are over: one succeeded, or one failed in a
\* way not to be retried, or the budget is used up.
Settled ==
    attempt > 0 /\ \/ trace.status = "ok"
                   \/ trace.error \notin Retryable
                   \/ attempt = setup.attempts

\* OpenAIProposalJudge.judge: the call and the conversion, with the trace of
\* this call whether it succeeds or not.
Answer(deltas) ==
    LET batch == dataset[NextCase].batch
        ok    == Convertible(batch, deltas)
    IN /\ trace' = [status |-> IF ok THEN "ok" ELSE "error",
                    error |-> IF ok THEN None ELSE "judge_conversion_error", deltas |-> deltas]
       /\ actual' = IF ok THEN Proposals(batch, deltas) ELSE <<>>
       /\ errors' = IF ok THEN errors ELSE Append(errors, "judge_conversion_error")

Fail(class) ==
    /\ trace' = [status |-> "error", error |-> class, deltas |-> <<>>]
    /\ errors' = Append(errors, class)
    /\ UNCHANGED actual

Attempt ==
    /\ ~Finished /\ ~Settled
    /\ attempt' = attempt + 1
    /\ \/ \E deltas \in Answers : Answer(deltas) /\ UNCHANGED failed
       \/ failed < MaxFailures /\ failed' = failed + 1 /\ \E class \in Failures : Fail(class)
    /\ UNCHANGED <<dataset, setup, results, file>>

\* Slip: the attempts of the last observation are carried into the next one.
FreshSlip == errors' = errors

Fresh == errors' = <<>>

\* The observation is scored and appended.
Record ==
    /\ ~Finished /\ Settled
    /\ LET ok == trace.status = "ok" IN
       results' = Append(results,
           [repeat |-> NextRepeat, case |-> NextCase, model |-> setup.model,
            frozen |-> setup.frozen, max |-> setup.attempts, attempts |-> attempt,
            errors |-> errors, status |-> trace.status, error |-> trace.error,
            deltas |-> trace.deltas, proposals |-> actual,
            score |-> IF ok THEN Score(dataset[NextCase], trace.deltas, actual) ELSE None])
    /\ Fresh /\ attempt' = 0 /\ actual' = <<>>
    /\ UNCHANGED <<dataset, setup, failed, trace, file>>

\* write_results, and the file as it is found later: as written, without a
\* line, with a line repeated over another, with a line of another model's run,
\* or with the deltas, the proposals or the scores of a line changed.
Write ==
    /\ Finished /\ file = <<>>
    /\ file' = results
    /\ UNCHANGED <<dataset, setup, attempt, errors, failed, actual, trace, results>>

Altered(r) ==
    {[r EXCEPT !.model = m] : m \in Models \ {r.model}}
    \cup {[r EXCEPT !.deltas = ds] : ds \in Answers}
    \cup {[r EXCEPT !.deltas = ds, !.proposals = Proposals(Case(r).batch, ds)] :
              ds \in {ds \in Answers : Convertible(Case(r).batch, ds)}}
    \cup {[r EXCEPT !.score = Score(Case(q), q.deltas, q.proposals)] :
              q \in {q \in Range(results) : q.status = "ok"}}

Meddle ==
    /\ file = results /\ file # <<>>
    /\ \/ file' = Tail(file)
       \/ \E i, j \in DOMAIN file : i # j /\ file' = [file EXCEPT ![i] = file[j]]
       \/ \E i \in DOMAIN file : \E r \in Altered(file[i]) : file' = [file EXCEPT ![i] = r]
    /\ UNCHANGED <<dataset, setup, attempt, errors, failed, actual, trace, results>>

Next == Attempt \/ Record \/ Write \/ Meddle

Spec == Init /\ [][Next]_replayVars

-----------------------------------------------------------------------------
\* admission_errors, as the conditions under which it returns none.
\* Slip: counts alone, which a repeated line in place of a lost one satisfies.
MatrixSlip(f) == Len(f) = Repeats * CaseCount

\* Each case in each repeat, and nothing twice.
Matrix(f) ==
    /\ Len(f) = Repeats * CaseCount
    /\ {<<f[i].repeat, f[i].case>> : i \in DOMAIN f} = Keys

OneRun(f) == Cardinality({f[i].model : i \in DOMAIN f}) = 1 /\ \A i \in DOMAIN f : f[i].frozen

\* Slip: as many failures as attempts, whatever the last one was.
HistorySlip(r) ==
    /\ r.max = MaxAttempts /\ r.attempts \in 1..r.max
    /\ Len(r.errors) = r.attempts
    /\ r.status = "ok" => r.error = None

History(r) ==
    /\ r.max = MaxAttempts /\ r.attempts \in 1..r.max
    /\ Len(r.errors) = r.attempts - (IF r.status = "ok" THEN 1 ELSE 0)
    /\ r.status = "ok" => r.error = None

\* The conversion and the scores are computed anew from the recorded deltas.
Replayed(r) ==
    LET batch == Case(r).batch IN
    /\ Convertible(batch, r.deltas)
    /\ r.proposals = Proposals(batch, r.deltas)
    /\ r.score = Score(Case(r), r.deltas, r.proposals)
    /\ AllRight(r.score)

Admitted(f) ==
    /\ Matrix(f) /\ OneRun(f)
    /\ \A i \in DOMAIN f : f[i].status = "ok" /\ History(f[i]) /\ Replayed(f[i])

\* _acceptance_status of the earlier datasets: in each case at most one of three
\* repeats wrong, in each repeat nine of ten right, and the rest without fault.
SameCase(f, i)   == {j \in DOMAIN f : f[j].case = f[i].case}
SameRepeat(f, i) == {j \in DOMAIN f : f[j].repeat = f[i].repeat}

Tally(f, S, dim, value) == Cardinality({j \in S : f[j].score[dim] = value})

Majority(f, S, dim) == Tally(f, S, dim, "yes") >= 2 \/ Tally(f, S, dim, "na") = Cardinality(S)
Enough(f, S, dim)   == LET yes == Tally(f, S, dim, "yes")
                           no  == Tally(f, S, dim, "no")
                       IN 10 * yes >= 9 * (yes + no)

Accepted(f) ==
    /\ f # <<>> /\ \A i \in DOMAIN f : f[i].status = "ok"
    /\ \A i \in DOMAIN f :
           /\ Cardinality(SameCase(f, i)) = Repeats
           /\ \A dim \in {"relation", "body", "evidence"} : Majority(f, SameCase(f, i), dim)
           /\ \A dim \in {"relation", "body"} : Enough(f, SameRepeat(f, i), dim)
           /\ \A dim \in {"evidence", "fidelity", "ignore"} :
                  Tally(f, SameRepeat(f, i), dim, "no") = 0

\* audit_models: two observations of the same key that are equivalent.
Canonical(r) ==
    [r.proposals[1] EXCEPT !.payload = IF r.deltas = <<>> THEN <<>> ELSE Case(r).body]

Equivalent(a, b) ==
    /\ \A r \in {a, b} : r.status = "ok" /\ Replayed(r)
    /\ Canonical(a) = Canonical(b)

-----------------------------------------------------------------------------
\* The attempt history of every observation is the one its status tells: all
\* failures but the last were ones to retry, nothing follows a success, and the
\* recorded error, deltas and proposals are those of the last attempt.  The
\* scorer's own account of the conversion agrees with what convert_deltas did.
RecordsTell ==
    \A i \in DOMAIN results :
        LET r == results[i]
            n == Len(r.errors)
        IN /\ \A k \in 1..(r.attempts - 1) : k <= n /\ r.errors[k] \in Retryable
           /\ IF r.status = "ok"
              THEN /\ n = r.attempts - 1
                   /\ Convertible(Case(r).batch, r.deltas)
                   /\ r.proposals = Proposals(Case(r).batch, r.deltas)
                   /\ r.score.fidelity = "yes"
              ELSE /\ n = r.attempts /\ r.error = r.errors[n] /\ r.proposals = <<>>
                   /\ r.error \in Retryable => r.attempts = r.max
                   /\ r.deltas # <<>> => ~Convertible(Case(r).batch, r.deltas)

\* What a case asks of the memory change itself, stated without the deltas.
Genuine(c, p) ==
    /\ p.operation = c.relation /\ p.target = c.target /\ p.revision = c.revision
    /\ p.type = c.type /\ p.scope = c.scope
    /\ IF c.relation = "no_change" THEN p.payload = <<>>
       ELSE /\ Range(p.evidence) = Range(c.evidence)
            /\ \E b \in c.bodies : /\ DOMAIN b = DOMAIN p.payload
                                  /\ \A f \in DOMAIN b : Agrees(c, f, p.payload[f], b[f])

\* A file that admission finds no error in proves the change that every case
\* asks for, in every repeat, whatever was lost, repeated, merged or edited; and
\* the older acceptance would pass it too.
AdmittedIsGenuine ==
    Admitted(file) =>
        /\ \A k \in Keys : \E i \in DOMAIN file :
               /\ <<file[i].repeat, file[i].case>> = k
               /\ Len(file[i].proposals) = 1
               /\ Genuine(Case(file[i]), file[i].proposals[1])
        /\ Accepted(file)

\* A run under the frozen setup whose observations all came out right in the end
\* is admitted, retries or not: nothing run_replay records speaks against it.
HonestIsAdmitted ==
    /\ file # <<>> /\ file = results
    /\ setup.frozen /\ setup.repeats = Repeats /\ setup.attempts = MaxAttempts
    /\ \A i \in DOMAIN file : file[i].status = "ok" /\ AllRight(file[i].score)
    => Admitted(file)

\* Observations of two files that the audit calls equivalent are both genuine.
EquivalentIsGenuine ==
    \A i, j \in DOMAIN file :
        /\ i \in DOMAIN results /\ j \in DOMAIN results
        /\ <<results[i].repeat, results[i].case>> = <<file[j].repeat, file[j].case>>
        /\ Equivalent(results[i], file[j])
        => \A r \in {results[i], file[j]} : Genuine(Case(r), r.proposals[1])

\* What the two judgements of files say of the changes in them is true.
FilesTell == AdmittedIsGenuine /\ EquivalentIsGenuine

\* The answer that a case's annotation describes.
Expected(c) ==
    IF c.relation = "no_change" THEN <<>>
    ELSE << [candidate |-> CHOOSE i \in c.batch.ids : TRUE, type |-> c.type,
             relation |-> c.relation, anchor |-> c.target, key |-> c.body["key"],
             fields |-> [f \in DOMAIN c.body \ {"key"} |-> c.body[f]], evidence |-> c.evidence] >>

\* What the validator leaves open: a body without a key, a refinement that drops
\* fields of its anchor, evidence that the candidate does not have, a target of a
\* case that asks for nothing.
Closed(c) ==
    /\ c.batch.ids = DOMAIN c.batch.candidates
    /\ IF c.relation = "no_change" THEN c.target = None /\ c.revision = None
       ELSE /\ "key" \in DOMAIN c.body
            /\ IsInjective(c.evidence) /\ Range(c.evidence) \subseteq Range(OnlyCandidate(c).events)
            /\ c.relation = "refine" =>
                   DOMAIN c.batch.anchors[c.target].payload \subseteq DOMAIN c.body

\* A case that the loader accepts can be answered: the conversion takes the
\* annotated answer and the scorer finds nothing wrong with it.
CasesAnswerable ==
    \A i \in DOMAIN dataset : LET c == dataset[i] IN
        Closed(c) => /\ Convertible(c.batch, Expected(c))
                     /\ AllRight(Score(c, Expected(c), Proposals(c.batch, Expected(c))))
=============================================================================
