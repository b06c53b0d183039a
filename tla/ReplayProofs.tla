----------------------------- MODULE ReplayProofs -----------------------------
(***************************************************************************)
(* Theorems about Replay, for any datasets, models, answers and failures,  *)
(* and any numbers of cases, repeats and attempts: the records of a run    *)
(* tell what happened, files that are admitted or called equivalent prove  *)
(* what their cases ask for, honest runs are admitted, and cases can be    *)
(* answered.                                                               *)
(***************************************************************************)
EXTENDS Replay, FiniteSetTheorems, TLAPS

Classes  == Retryable \cup Final
Decks    == Answers \cup {<<>>}
Proposed == {<<>>} \cup {Proposals(dataset[k].batch, ds) : k \in 1..CaseCount, ds \in Decks}
Scores   == {None} \cup {Score(dataset[k], ds, ps) : k \in 1..CaseCount, ds \in Decks, ps \in Proposed}

\* A line of results, whatever has become of it.
Lines == [repeat : 1..Repeats, case : 1..CaseCount, model : Models, frozen : BOOLEAN,
          max : 1..MaxAttempts, attempts : 1..MaxAttempts, errors : Seq(Classes),
          status : {"ok", "error"}, error : Classes \cup {None}, deltas : Decks,
          proposals : Proposed, score : Scores]

ReplayTypeOK ==
    /\ dataset \in Datasets
    /\ setup \in Setups
    /\ attempt \in 0..setup.attempts
    /\ errors \in Seq(Classes)
    /\ actual \in Proposed
    /\ trace \in [status : {"not_run", "ok", "error"}, error : Classes \cup {None}, deltas : Decks]
    /\ results \in Seq(Lines)
    /\ file \in Seq(Lines)

\* load_replay_dataset has seen to the cases.
CasesValid == \A k \in 1..CaseCount : ValidCase(dataset[k])

\* What was made of the deltas and the errors of an observation of case k after
\* n attempts, the last of which had this status and this error.
Tells(k, n, errs, status, error, deltas, proposals) ==
    /\ \A j \in 1..(n - 1) : j <= Len(errs) /\ errs[j] \in Retryable
    /\ status \in {"ok", "error"}
    /\ IF status = "ok"
       THEN /\ Len(errs) = n - 1 /\ error = None
            /\ Convertible(dataset[k].batch, deltas)
            /\ proposals = Proposals(dataset[k].batch, deltas)
       ELSE /\ Len(errs) = n /\ error = errs[n] /\ proposals = <<>>
            /\ deltas # <<>> => ~Convertible(dataset[k].batch, deltas)

\* The observation that is under way.
PresentTells ==
    IF attempt = 0 THEN errors = <<>> /\ actual = <<>>
    ELSE Tells(NextCase, attempt, errors, trace.status, trace.error, trace.deltas, actual)

\* The i-th observation of the run.
ResultTells(i) ==
    LET r == results[i] IN
    /\ r.case = ((i - 1) % CaseCount) + 1 /\ r.repeat = ((i - 1) \div CaseCount) + 1
    /\ r.model = setup.model /\ r.frozen = setup.frozen /\ r.max = setup.attempts
    /\ Tells(r.case, r.attempts, r.errors, r.status, r.error, r.deltas, r.proposals)
    /\ IF r.status = "ok" THEN r.score = Score(Case(r), r.deltas, r.proposals)
       ELSE r.error \in Retryable => r.attempts = r.max

ReplayInv ==
    /\ ReplayTypeOK /\ CasesValid /\ PresentTells
    /\ Len(results) <= setup.repeats * CaseCount
    /\ file # <<>> => Finished
    /\ \A i \in 1..Len(results) : ResultTells(i)

-----------------------------------------------------------------------------
(***************************************************************************)
(* Answers and cases.                                                      *)
(***************************************************************************)

\* No delta and one delta are answers.
LEMMA ShortAnswers ==
    /\ <<>> \in Seq(Range(<<>>))
    /\ \A d : <<d>> \in Seq(Range(<<d>>))
<1>1. ASSUME NEW d PROVE <<d>> \in Seq(Range(<<d>>))
  <2>1. DOMAIN <<d>> = 1..1 /\ <<d>>[1] = d /\ Len(<<d>>) = 1
    OBVIOUS
  <2>2. d \in Range(<<d>>)
    BY <2>1 DEF Range
  <2> QED
    BY <2>2
<1> QED
  BY <1>1

\* A case has one candidate.
LEMMA OneCandidate ==
    ASSUME NEW c, ValidCase(c)
    PROVE  /\ DOMAIN c.batch.candidates = {CHOOSE i \in DOMAIN c.batch.candidates : TRUE}
           /\ Cardinality(DOMAIN c.batch.candidates) = 1
<1>1. PICK i \in DOMAIN c.batch.candidates : DOMAIN c.batch.candidates = {i}
  BY DEF ValidCase
<1>2. (CHOOSE k \in {i} : TRUE) = i
  OBVIOUS
<1>3. Cardinality({i}) = 1
  BY FS_Singleton
<1> QED
  BY <1>1, <1>2, <1>3

\* An answer that can be converted is none, or of one delta, about the candidate.
LEMMA OneDelta ==
    ASSUME NEW c, NEW deltas, ValidCase(c), deltas \in Seq(Range(deltas)),
           Convertible(c.batch, deltas), deltas # <<>>
    PROVE  /\ Len(deltas) = 1 /\ DOMAIN deltas = {1}
           /\ Acceptable(c.batch, deltas[1])
           /\ c.batch.candidates[deltas[1].candidate] = OnlyCandidate(c)
           /\ Proposals(c.batch, deltas) = <<Proposal(c.batch, deltas[1])>>
<1> DEFINE only == CHOOSE i \in DOMAIN c.batch.candidates : TRUE
<1>1. c.batch.ids = {only}
  BY OneCandidate DEF Convertible
<1>2. Len(deltas) \in Nat /\ DOMAIN deltas = 1..Len(deltas) /\ Len(deltas) # 0
  OBVIOUS
<1>3. /\ \A i \in DOMAIN deltas : Acceptable(c.batch, deltas[i])
      /\ \A i, j \in DOMAIN deltas : deltas[i].candidate = deltas[j].candidate => i = j
      /\ {deltas[i].candidate : i \in DOMAIN deltas} = {only}
  BY <1>1 DEF Convertible
<1> HIDE DEF only
<1>4. \A i \in DOMAIN deltas : deltas[i].candidate = only
  BY <1>3
<1>5. Len(deltas) = 1
  BY <1>2, <1>3, <1>4
<1>6. DOMAIN deltas = {1} /\ deltas[1].candidate = only
  BY <1>2, <1>4, <1>5
<1>7. Proposals(c.batch, deltas) = [i \in {1} |-> Proposal(c.batch, deltas[1])]
  BY <1>6 DEF Proposals
<1>8. [i \in {1} |-> Proposal(c.batch, deltas[1])] = <<Proposal(c.batch, deltas[1])>>
  OBVIOUS
<1> QED
  BY <1>3, <1>5, <1>6, <1>7, <1>8 DEF OnlyCandidate, only

\* What the conversion makes of no answer.
LEMMA Nothing ==
    ASSUME NEW c, ValidCase(c), Convertible(c.batch, <<>>)
    PROVE  /\ Proposals(c.batch, <<>>) = <<NoChange(c.batch)>>
           /\ NoChange(c.batch).operation = "no_change"
           /\ NoChange(c.batch).target = None /\ NoChange(c.batch).revision = None
           /\ NoChange(c.batch).type = OnlyCandidate(c).type
           /\ NoChange(c.batch).scope = OnlyCandidate(c).scope
           /\ NoChange(c.batch).payload = <<>>
           /\ NoChange(c.batch).evidence = OnlyCandidate(c).events
<1>1. c.batch.ids = DOMAIN c.batch.candidates
  BY DEF Convertible
<1> QED
  BY <1>1 DEF Proposals, NoChange, OnlyCandidate

\* The scorer's own account of the conversion agrees with convert_deltas.
LEMMA ConversionIsFaithful ==
    ASSUME NEW c, NEW deltas, ValidCase(c), deltas \in Seq(Range(deltas)),
           Convertible(c.batch, deltas)
    PROVE  /\ Len(Proposals(c.batch, deltas)) = 1
           /\ Faithful(c, deltas, Proposals(c.batch, deltas))
<1>1. CASE deltas = <<>>
  BY <1>1, Nothing DEF Faithful
<1>2. CASE deltas # <<>>
  <2> DEFINE d == deltas[1]
             p == Proposal(c.batch, deltas[1])
  <2>1. /\ Len(deltas) = 1 /\ Acceptable(c.batch, d)
        /\ c.batch.candidates[d.candidate] = OnlyCandidate(c)
        /\ Proposals(c.batch, deltas) = <<p>>
    BY <1>2, OneDelta
  <2>2. /\ p.scope = OnlyCandidate(c).scope
        /\ p.operation = d.relation /\ p.type = d.type
        /\ p.payload = Body(d) /\ p.evidence = d.evidence /\ p.target = d.anchor
        /\ p.revision = IF d.relation = "new" THEN None ELSE c.batch.anchors[d.anchor].revision
    BY <2>1 DEF Proposal
  <2>3. Body(d) = Merged(d)
    BY <2>1 DEF Body, Merged, Acceptable
  <2>4. IF d.relation = "new" THEN d.anchor = None ELSE d.anchor \in DOMAIN c.batch.anchors
    BY <2>1 DEF Acceptable, Anchored
  <2> HIDE DEF d, p
  <2>5. <<p>>[1] = p /\ Len(<<p>>) = 1
    OBVIOUS
  <2> QED
    BY <1>2, <2>1, <2>2, <2>3, <2>4, <2>5 DEF Faithful, d
<1> QED
  BY <1>1, <1>2

\* An answer that is scored without fault is the change that its case asks for.
LEMMA RightIsGenuine ==
    ASSUME NEW c, NEW deltas, ValidCase(c), deltas \in Seq(Range(deltas)),
           Convertible(c.batch, deltas),
           AllRight(Score(c, deltas, Proposals(c.batch, deltas)))
    PROVE  /\ Len(Proposals(c.batch, deltas)) = 1
           /\ Genuine(c, Proposals(c.batch, deltas)[1])
<1> DEFINE ps == Proposals(c.batch, deltas)
           relation == IF deltas = <<>> THEN c.relation = "no_change"
                       ELSE Len(deltas) = 1 /\ deltas[1].relation = c.relation
           body     == Len(deltas) = 1 /\ MatchesBody(c, deltas[1])
           evidence == Len(deltas) = 1 /\ MatchesEvidence(c, deltas[1])
           score    == Score(c, deltas, ps)
<1>1. /\ Len(ps) = 1 /\ Faithful(c, deltas, ps)
  BY ConversionIsFaithful
<1>2. /\ score.relation # "no" /\ score.body # "no" /\ score.evidence # "no"
      /\ score.ignore # "no" /\ score.semantic # "no"
  BY DEF AllRight, Score
<1>3. /\ relation
      /\ c.relation # "no_change" => body /\ evidence
      /\ c.ignore => deltas = <<>>
      /\ InContext(c, ps)
  BY <1>2 DEF Score, Yes
<1>4. /\ ps[1].target = c.target /\ ps[1].revision = c.revision
      /\ ps[1].type = c.type /\ ps[1].scope = c.scope
  BY <1>3 DEF InContext
<1>5. CASE deltas = <<>>
  <2>1. c.relation = "no_change" /\ ps[1].operation = "no_change" /\ ps[1].payload = <<>>
    BY <1>1, <1>3, <1>5 DEF Faithful
  <2> QED
    BY <1>1, <1>4, <2>1 DEF Genuine
<1>6. CASE deltas # <<>>
  <2>1. c.relation # "no_change"
    BY <1>3, <1>6 DEF ValidCase, Annotated
  <2>2. /\ ps[1].operation = c.relation
        /\ ps[1].payload = Merged(deltas[1]) /\ ps[1].evidence = deltas[1].evidence
    BY <1>1, <1>3, <1>6 DEF Faithful
  <2>3. /\ Range(deltas[1].evidence) = Range(c.evidence)
        /\ \E b \in c.bodies :
              /\ DOMAIN b = DOMAIN Merged(deltas[1])
              /\ \A f \in DOMAIN b : Agrees(c, f, Merged(deltas[1])[f], b[f])
    BY <1>3, <2>1 DEF MatchesEvidence, MatchesBody
  <2> QED
    BY <1>1, <1>4, <2>1, <2>2, <2>3 DEF Genuine
<1> QED
  BY <1>5, <1>6

\* The answer that the annotation of a case describes is converted and scored
\* without fault.
LEMMA ClosedIsAnswerable ==
    ASSUME NEW c, ValidCase(c), Closed(c)
    PROVE  /\ Convertible(c.batch, Expected(c))
           /\ AllRight(Score(c, Expected(c), Proposals(c.batch, Expected(c))))
<1> DEFINE only == CHOOSE i \in c.batch.ids : TRUE
           ds == Expected(c)
           ps == Proposals(c.batch, ds)
<1>1. /\ c.batch.ids = DOMAIN c.batch.candidates
      /\ c.batch.ids = {only}
      /\ Cardinality(c.batch.ids) = 1
      /\ OnlyCandidate(c) = c.batch.candidates[only]
  BY OneCandidate DEF Closed, OnlyCandidate
<1> HIDE DEF only
<1>2. /\ c.type = OnlyCandidate(c).type /\ c.scope = OnlyCandidate(c).scope
      /\ Annotated(c) /\ Targeted(c)
  BY DEF ValidCase
<1>3. CASE c.relation = "no_change"
  <2>1. ds = <<>> /\ c.ignore /\ c.target = None /\ c.revision = None
    BY <1>2, <1>3 DEF Expected, Annotated, Closed
  <2>2. Convertible(c.batch, ds)
    BY <1>1, <2>1 DEF Convertible
  <2>3. Faithful(c, ds, ps) /\ Len(ps) = 1
    BY <2>1, <2>2, ConversionIsFaithful, ShortAnswers
  <2>4. InContext(c, ps)
    BY <1>2, <2>1, <2>3 DEF InContext, Faithful
  <2>5. AllRight(Score(c, ds, ps))
    BY <1>3, <2>1, <2>3, <2>4 DEF AllRight, Score, Yes
  <2> QED
    BY <2>2, <2>5
<1>4. CASE c.relation # "no_change"
  <2> DEFINE d == [candidate |-> only, type |-> c.type, relation |-> c.relation,
                   anchor |-> c.target, key |-> c.body["key"],
                   fields |-> [f \in DOMAIN c.body \ {"key"} |-> c.body[f]],
                   evidence |-> c.evidence]
  <2>1. ds = <<d>>
    BY <1>4 DEF Expected, only
  <2>2. /\ d.candidate = only /\ d.type = c.type /\ d.relation = c.relation
        /\ d.anchor = c.target /\ d.key = c.body["key"] /\ d.evidence = c.evidence
        /\ DOMAIN d.fields = DOMAIN c.body \ {"key"}
        /\ \A f \in DOMAIN c.body \ {"key"} : d.fields[f] = c.body[f]
    OBVIOUS
  <2> HIDE DEF d
  <2>3. /\ ~c.ignore /\ c.body \in c.bodies /\ c.evidence # <<>>
        /\ Shaped(c, c.body) /\ "key" \in DOMAIN c.body
    BY <1>2, <1>4 DEF Annotated, Closed
  <2>4. /\ DOMAIN Body(d) = DOMAIN c.body /\ DOMAIN Merged(d) = DOMAIN c.body
        /\ \A f \in DOMAIN c.body : Merged(d)[f] = c.body[f]
    BY <2>2, <2>3 DEF Body, Merged
  <2>5. Acceptable(c.batch, d)
    <3>1. Normal[d.key] # Blank
      BY <2>2, <2>3, JudgeAssumption DEF Shaped, WellTyped
    <3>2. Anchored(c.batch, d)
      BY <1>2, <1>4, <2>2, <2>4 DEF Anchored, Targeted, Closed
    <3>3. Evident(d, c.batch.candidates[d.candidate])
      BY <1>1, <1>4, <2>2, <2>3 DEF Evident, Closed
    <3> QED
      BY <1>1, <1>2, <2>2, <2>3, <3>1, <3>2, <3>3, JudgeAssumption
      DEF Acceptable, Shaped
  <2>6. Convertible(c.batch, ds)
    BY <1>1, <2>1, <2>2, <2>5 DEF Convertible
  <2>7. Faithful(c, ds, ps) /\ Len(ps) = 1 /\ Len(ds) = 1 /\ ds[1] = d /\ ds # <<>>
    <3>1. ds \in Seq(Range(ds)) /\ Len(ds) = 1 /\ ds[1] = d /\ ds # <<>>
      BY <2>1, ShortAnswers
    <3> HIDE DEF ds
    <3> QED
      BY <2>6, <3>1, ConversionIsFaithful
  <2>8. MatchesBody(c, d)
    <3>1. WellTyped(c.type, Merged(d))
      BY <2>3, <2>4 DEF Shaped, WellTyped
    <3>2. \A f \in DOMAIN c.body : Agrees(c, f, Merged(d)[f], c.body[f])
      BY <2>4 DEF Agrees
    <3> QED
      BY <2>3, <2>4, <3>1, <3>2 DEF MatchesBody, Shaped
  <2>9. MatchesEvidence(c, d)
    BY <1>4, <2>2 DEF MatchesEvidence, Closed
  <2>10. InContext(c, ps)
    BY <1>2, <1>4, <2>2, <2>7 DEF InContext, Faithful, Targeted
  <2>11. AllRight(Score(c, ds, ps))
    BY <1>4, <2>2, <2>3, <2>7, <2>8, <2>9, <2>10 DEF AllRight, Score, Yes
  <2> QED
    BY <2>6, <2>11
<1> QED
  BY <1>3, <1>4

-----------------------------------------------------------------------------
(***************************************************************************)
(* The run.                                                                *)
(***************************************************************************)

\* What division by the number of cases gives.
LEMMA Quotient ==
    ASSUME NEW n \in Nat, NEW k \in Nat \ {0}
    PROVE  /\ n \div k \in Nat /\ n % k \in 0..(k - 1)
           /\ n = k * (n \div k) + (n % k)
  OBVIOUS

LEMMA QuotientIs ==
    ASSUME NEW k \in Nat \ {0}, NEW q \in Nat, NEW r \in 0..(k - 1)
    PROVE  /\ (k * q + r) \div k = q
           /\ (k * q + r) % k = r
<1> DEFINE n == k * q + r
           p == n \div k
           s == n % k
<1>0. k * q \in Nat /\ n \in Nat
  OBVIOUS
<1>1. p \in Nat /\ s \in 0..(k - 1) /\ n = k * p + s
  BY <1>0, Quotient
<1> HIDE DEF p, s
<1>2. k * p \in Nat
  BY <1>1
<1>3. CASE p < q
  <2>1. p + 1 <= q
    BY <1>1, <1>3
  <2>2. k * (p + 1) <= k * q
    BY <1>1, <2>1
  <2>3. k * (p + 1) = k * p + k
    BY <1>1
  <2> QED
    BY <1>0, <1>1, <1>2, <2>2, <2>3
<1>4. CASE q < p
  <2>1. q + 1 <= p
    BY <1>1, <1>4
  <2>2. k * (q + 1) <= k * p
    BY <1>1, <2>1
  <2>3. k * (q + 1) = k * q + k
    OBVIOUS
  <2> QED
    BY <1>0, <1>1, <1>2, <2>2, <2>3
<1>5. p = q
  BY <1>1, <1>3, <1>4
<1>6. s = r
  BY <1>0, <1>1, <1>5
<1> QED
  BY <1>5, <1>6 DEF p, s

\* Products of numbers of repeats and cases.
LEMMA Fewer ==
    ASSUME NEW k \in Nat \ {0}, NEW m \in Nat, NEW q \in Nat, k * q < m * k
    PROVE  q < m
<1>1. CASE m <= q
  <2>1. k * m <= k * q
    BY <1>1
  <2>2. k * m = m * k /\ k * q \in Nat /\ m * k \in Nat
    OBVIOUS
  <2> QED
    BY <2>1, <2>2
<1> QED
  BY <1>1

\* What a run is started with.
LEMMA Sizes ==
    ASSUME ReplayTypeOK
    PROVE  /\ CaseCount \in Nat \ {0} /\ Repeats \in Nat \ {0, 1} /\ MaxAttempts \in Nat \ {0}
           /\ setup.model \in Models /\ setup.frozen \in BOOLEAN
           /\ setup.repeats \in 1..Repeats /\ setup.attempts \in 1..MaxAttempts
           /\ DOMAIN dataset = 1..CaseCount
           /\ Len(results) \in Nat /\ setup.repeats * CaseCount \in Nat
           /\ DOMAIN results = 1..Len(results)
<1>1. setup \in [model : Models, frozen : BOOLEAN, repeats : 1..Repeats, attempts : 1..MaxAttempts]
  BY ReplayAssumption DEF ReplayTypeOK
<1>2. CaseCount \in Nat \ {0} /\ Repeats \in Nat \ {0, 1} /\ MaxAttempts \in Nat \ {0}
  BY ReplayAssumption
<1>3. setup.repeats \in Nat /\ setup.repeats * CaseCount \in Nat
  BY <1>1, <1>2
<1> QED
  BY <1>1, <1>2, <1>3, ReplayAssumption DEF ReplayTypeOK

LEMMA DecksAreSequences ==
    ASSUME NEW deltas \in Decks
    PROVE  deltas \in Seq(Range(deltas))
  BY ShortAnswers, ReplayAssumption DEF Decks

\* The next observation is of a case and a repeat that there are.
LEMMA NextInRange ==
    ASSUME ReplayTypeOK, Len(results) < setup.repeats * CaseCount
    PROVE  NextCase \in 1..CaseCount /\ NextRepeat \in 1..Repeats
<1> DEFINE n == Len(results)
           q == n \div CaseCount
<1>1. /\ CaseCount \in Nat \ {0} /\ setup.repeats \in 1..Repeats /\ Repeats \in Nat
      /\ n \in Nat /\ setup.repeats * CaseCount \in Nat
  BY Sizes
<1>2. q \in Nat /\ n % CaseCount \in 0..(CaseCount - 1) /\ n = CaseCount * q + (n % CaseCount)
  BY <1>1, Quotient
<1> HIDE DEF n, q
<1>3. CaseCount * q \in Nat
  BY <1>1, <1>2
<1>4. CaseCount * q < setup.repeats * CaseCount
  BY <1>1, <1>2, <1>3 DEF n
<1>5. q < setup.repeats
  BY <1>1, <1>2, <1>4, Fewer
<1> QED
  BY <1>1, <1>2, <1>5 DEF NextCase, NextRepeat, n, q

LEMMA InitReplay == Init => ReplayInv
<1> SUFFICES ASSUME Init PROVE ReplayInv
  OBVIOUS
<1>1. /\ dataset \in Datasets /\ setup \in Setups
      /\ attempt = 0 /\ errors = <<>> /\ actual = <<>> /\ results = <<>> /\ file = <<>>
      /\ trace = [status |-> "not_run", error |-> None, deltas |-> <<>>]
  BY DEF Init, NotRun
<1>2. setup.attempts \in Nat /\ setup.repeats * CaseCount \in Nat
  <2>1. setup \in [model : Models, frozen : BOOLEAN, repeats : 1..Repeats,
                   attempts : 1..MaxAttempts]
    BY <1>1, ReplayAssumption
  <2>2. setup.repeats \in Nat /\ setup.attempts \in Nat /\ CaseCount \in Nat
    BY <2>1, ReplayAssumption
  <2> QED
    BY <2>2
<1>3. ReplayTypeOK
  BY <1>1, <1>2 DEF ReplayTypeOK, Proposed, Decks
<1>4. CasesValid
  BY <1>1, ReplayAssumption DEF Init, CasesValid
<1>5. PresentTells
  BY <1>1 DEF PresentTells
<1>6. Len(results) = 0
  BY <1>1
<1> QED
  BY <1>1, <1>2, <1>3, <1>4, <1>5, <1>6 DEF ReplayInv

\* An attempt: the errors tell what was tried, the trace what came of it.
LEMMA AttemptKeeps ==
    ASSUME ReplayInv, Attempt
    PROVE  ReplayInv'
<1>1. /\ ~Finished /\ ~Settled /\ attempt' = attempt + 1
      /\ UNCHANGED <<dataset, setup, results, file>>
  BY DEF Attempt
<1>2. /\ ReplayTypeOK /\ CasesValid /\ PresentTells
      /\ Len(results) < setup.repeats * CaseCount
  BY <1>1, Sizes DEF ReplayInv, Finished
<1>3. NextCase \in 1..CaseCount /\ NextCase' = NextCase
  BY <1>1, <1>2, NextInRange DEF NextCase
<1>4. /\ attempt \in Nat /\ attempt < setup.attempts /\ setup.attempts \in Nat
      /\ errors \in Seq(Classes) /\ Len(errors) = attempt
      /\ \A j \in 1..attempt : errors[j] \in Retryable
      /\ actual = <<>>
  <2>1. attempt \in 0..setup.attempts /\ setup.attempts \in Nat /\ errors \in Seq(Classes)
    BY <1>2, Sizes DEF ReplayTypeOK
  <2>2. CASE attempt = 0
    BY <1>2, <2>1, <2>2, Sizes DEF PresentTells
  <2>3. CASE attempt # 0
    <3>1. trace.status # "ok" /\ trace.error \in Retryable /\ attempt # setup.attempts
      BY <1>1, <2>1, <2>3 DEF Settled
    <3>2. /\ \A j \in 1..(attempt - 1) : errors[j] \in Retryable
          /\ Len(errors) = attempt /\ trace.error = errors[attempt] /\ actual = <<>>
      BY <1>2, <2>3, <3>1 DEF PresentTells, Tells
    <3> QED
      BY <2>1, <2>3, <3>1, <3>2
  <2> QED
    BY <2>2, <2>3
<1> DEFINE Goal ==
             /\ errors' \in Seq(Classes) /\ actual' \in Proposed
             /\ trace' \in [status : {"not_run", "ok", "error"}, error : Classes \cup {None},
                            deltas : Decks]
             /\ Tells(NextCase, attempt + 1, errors', trace'.status, trace'.error,
                      trace'.deltas, actual')
<1>5. Goal
  <2>1. ASSUME NEW deltas \in Answers, Answer(deltas)
        PROVE  Goal
    <3> DEFINE batch == dataset[NextCase].batch
    <3>1. CASE Convertible(batch, deltas)
      <4>1. /\ trace' = [status |-> "ok", error |-> None, deltas |-> deltas]
            /\ actual' = Proposals(batch, deltas) /\ errors' = errors
        BY <2>1, <3>1 DEF Answer
      <4> QED
        BY <1>3, <1>4, <2>1, <3>1, <4>1 DEF Tells, Proposed, Decks
    <3>2. CASE ~Convertible(batch, deltas)
      <4>1. /\ trace' = [status |-> "error", error |-> "judge_conversion_error", deltas |-> deltas]
            /\ actual' = <<>> /\ errors' = Append(errors, "judge_conversion_error")
        BY <2>1, <3>2 DEF Answer
      <4>2. "judge_conversion_error" \in Classes
        BY DEF Classes, Final
      <4> QED
        BY <1>3, <1>4, <2>1, <3>2, <4>1, <4>2 DEF Tells, Proposed, Decks
    <3> QED
      BY <3>1, <3>2
  <2>2. ASSUME NEW class \in Failures, Fail(class)
        PROVE  Goal
    <3>1. /\ trace' = [status |-> "error", error |-> class, deltas |-> <<>>]
          /\ errors' = Append(errors, class) /\ actual' = actual
      BY <2>2 DEF Fail
    <3>2. class \in Classes
      BY ReplayAssumption DEF Classes
    <3> QED
      BY <1>4, <3>1, <3>2 DEF Tells, Proposed, Decks
  <2> QED
    BY <2>1, <2>2 DEF Attempt
<1>6. ReplayTypeOK'
  BY <1>1, <1>2, <1>4, <1>5 DEF ReplayTypeOK, Proposed, Lines, Scores, Decks
<1>7. PresentTells'
  BY <1>1, <1>3, <1>4, <1>5 DEF PresentTells, Tells
<1>8. \A i \in 1..Len(results) : ResultTells(i)'
  BY <1>1 DEF ReplayInv, ResultTells, Tells, Case
<1> QED
  BY <1>1, <1>6, <1>7, <1>8 DEF ReplayInv, CasesValid, Finished

\* The observation is appended as it was made.
LEMMA RecordKeeps ==
    ASSUME ReplayInv, Record
    PROVE  ReplayInv'
<1> DEFINE line == [repeat |-> NextRepeat, case |-> NextCase, model |-> setup.model,
                    frozen |-> setup.frozen, max |-> setup.attempts, attempts |-> attempt,
                    errors |-> errors, status |-> trace.status, error |-> trace.error,
                    deltas |-> trace.deltas, proposals |-> actual,
                    score |-> IF trace.status = "ok"
                              THEN Score(dataset[NextCase], trace.deltas, actual) ELSE None]
           n == Len(results)
<1>1. /\ ~Finished /\ Settled /\ results' = Append(results, line)
      /\ errors' = <<>> /\ attempt' = 0 /\ actual' = <<>>
      /\ UNCHANGED <<dataset, setup, trace, file>>
  BY DEF Record, Fresh
<1>2. /\ ReplayTypeOK /\ CasesValid /\ PresentTells
      /\ n \in Nat /\ setup.repeats * CaseCount \in Nat /\ n < setup.repeats * CaseCount
      /\ file = <<>>
  BY <1>1, Sizes DEF ReplayInv, Finished
<1>3. NextCase \in 1..CaseCount /\ NextRepeat \in 1..Repeats
  BY <1>2, NextInRange
<1>4. /\ attempt \in 1..MaxAttempts
      /\ Tells(NextCase, attempt, errors, trace.status, trace.error, trace.deltas, actual)
  BY <1>1, <1>2, Sizes DEF ReplayTypeOK, PresentTells, Settled
<1>5. line \in Lines
  <2>1. /\ setup.model \in Models /\ setup.frozen \in BOOLEAN /\ setup.attempts \in 1..MaxAttempts
        /\ errors \in Seq(Classes) /\ trace.status \in {"ok", "error"}
        /\ trace.error \in Classes \cup {None} /\ trace.deltas \in Decks /\ actual \in Proposed
    BY <1>2, <1>4, Sizes DEF ReplayTypeOK, Tells
  <2>2. (IF trace.status = "ok" THEN Score(dataset[NextCase], trace.deltas, actual) ELSE None)
          \in Scores
    BY <1>3, <2>1 DEF Scores
  <2> QED
    BY <1>3, <1>4, <2>1, <2>2 DEF Lines
<1>6. /\ line.case = (n % CaseCount) + 1 /\ line.repeat = (n \div CaseCount) + 1
      /\ line.model = setup.model /\ line.frozen = setup.frozen /\ line.max = setup.attempts
      /\ line.attempts = attempt /\ line.errors = errors /\ line.status = trace.status
      /\ line.error = trace.error /\ line.deltas = trace.deltas /\ line.proposals = actual
      /\ trace.status = "ok" => line.score = Score(dataset[NextCase], trace.deltas, actual)
      /\ line.case = NextCase
  BY DEF NextCase, NextRepeat
<1> HIDE DEF line
<1>7. /\ results' \in Seq(Lines) /\ Len(results') = n + 1
      /\ results'[n + 1] = line /\ \A i \in 1..n : results'[i] = results[i]
  BY <1>1, <1>2, <1>5 DEF ReplayTypeOK
<1>8. ReplayTypeOK'
  BY <1>1, <1>2, <1>7, Sizes DEF ReplayTypeOK, Proposed, Lines, Scores, Decks
<1>9. PresentTells'
  BY <1>1 DEF PresentTells
<1>10. ASSUME NEW i \in 1..Len(results')
       PROVE  ResultTells(i)'
  <2>1. CASE i = n + 1
    <3>1. /\ i - 1 = n
          /\ trace.status # "ok" /\ trace.error \in Retryable => attempt = setup.attempts
      BY <1>1, <1>2, <2>1 DEF Settled
    <3> QED
      BY <1>1, <1>2, <1>4, <1>6, <1>7, <2>1, <3>1 DEF ResultTells, Tells, Case
  <2>2. CASE i # n + 1
    <3>1. i \in 1..n /\ results'[i] = results[i] /\ ResultTells(i)
      BY <1>2, <1>7, <2>2 DEF ReplayInv
    <3> QED
      BY <1>1, <3>1 DEF ResultTells, Tells, Case
  <2> QED
    BY <2>1, <2>2
<1>11. Len(results') <= setup.repeats * CaseCount
  BY <1>2, <1>7
<1> QED
  BY <1>1, <1>2, <1>8, <1>9, <1>10, <1>11 DEF ReplayInv, CasesValid

LEMMA WriteKeeps ==
    ASSUME ReplayInv, Write
    PROVE  ReplayInv'
<1>1. /\ Finished /\ file' = results
      /\ UNCHANGED <<dataset, setup, attempt, errors, failed, actual, trace, results>>
  BY DEF Write
<1>2. /\ ReplayTypeOK' /\ CasesValid' /\ PresentTells'
      /\ \A i \in 1..Len(results) : ResultTells(i)'
  BY <1>1 DEF ReplayInv, ReplayTypeOK, CasesValid, PresentTells, ResultTells, Tells, Case,
              NextCase, Proposed, Lines, Scores, Decks
<1> QED
  BY <1>1, <1>2 DEF ReplayInv, Finished

\* A line that was changed is a line still.
LEMMA AlteredIsLine ==
    ASSUME ReplayInv, NEW r \in Lines, NEW s \in Altered(r)
    PROVE  s \in Lines
<1>1. /\ r.repeat \in 1..Repeats /\ r.case \in 1..CaseCount /\ r.deltas \in Decks
      /\ r.proposals \in Proposed
  BY DEF Lines
<1>2. CASE s \in {[r EXCEPT !.model = m] : m \in Models \ {r.model}}
  BY <1>2 DEF Lines
<1>3. CASE s \in {[r EXCEPT !.deltas = ds] : ds \in Answers}
  <2>1. Answers \subseteq Decks
    BY DEF Decks
  <2> QED
    BY <1>3, <2>1 DEF Lines
<1>4. CASE s \in {[r EXCEPT !.deltas = ds, !.proposals = Proposals(Case(r).batch, ds)] :
                     ds \in {ds \in Answers : Convertible(Case(r).batch, ds)}}
  <2>1. PICK ds \in Answers :
           s = [r EXCEPT !.deltas = ds, !.proposals = Proposals(Case(r).batch, ds)]
    BY <1>4
  <2>2. ds \in Decks /\ Proposals(Case(r).batch, ds) \in Proposed
    BY <1>1 DEF Decks, Proposed, Case
  <2> QED
    BY <2>1, <2>2 DEF Lines
<1>5. CASE s \in {[r EXCEPT !.score = Score(Case(q), q.deltas, q.proposals)] :
                     q \in {q \in Range(results) : q.status = "ok"}}
  <2>1. PICK q \in Range(results) :
           s = [r EXCEPT !.score = Score(Case(q), q.deltas, q.proposals)]
    BY <1>5
  <2>2. q \in Lines
    BY <2>1 DEF ReplayInv, ReplayTypeOK, Range
  <2>3. q.case \in 1..CaseCount /\ q.deltas \in Decks /\ q.proposals \in Proposed
    BY <2>2 DEF Lines
  <2>4. Score(Case(q), q.deltas, q.proposals) \in Scores
    BY <2>3 DEF Scores, Case
  <2> QED
    BY <2>1, <2>4 DEF Lines
<1> QED
  BY <1>2, <1>3, <1>4, <1>5 DEF Altered

LEMMA MeddleKeeps ==
    ASSUME ReplayInv, Meddle
    PROVE  ReplayInv'
<1>1. /\ file # <<>> /\ file \in Seq(Lines)
      /\ UNCHANGED <<dataset, setup, attempt, errors, failed, actual, trace, results>>
  BY DEF Meddle, ReplayInv, ReplayTypeOK
<1>2. file' \in Seq(Lines)
  <2>1. CASE file' = Tail(file)
    BY <1>1, <2>1
  <2>2. CASE \E i, j \in DOMAIN file : i # j /\ file' = [file EXCEPT ![i] = file[j]]
    <3>1. PICK i, j \in DOMAIN file : file' = [file EXCEPT ![i] = file[j]]
      BY <2>2
    <3>2. file[j] \in Lines
      BY <1>1, <3>1
    <3> QED
      BY <1>1, <3>1, <3>2
  <2>3. CASE \E i \in DOMAIN file : \E r \in Altered(file[i]) : file' = [file EXCEPT ![i] = r]
    <3>0. PICK i \in DOMAIN file :
             \E r \in Altered(file[i]) : file' = [file EXCEPT ![i] = r]
      BY <2>3
    <3>1. PICK r \in Altered(file[i]) : file' = [file EXCEPT ![i] = r]
      BY <3>0
    <3>2. file[i] \in Lines
      BY <1>1, <3>1
    <3>3. r \in Lines
      BY <3>1, <3>2, AlteredIsLine
    <3> QED
      BY <1>1, <3>1, <3>3
  <2> QED
    BY <2>1, <2>2, <2>3 DEF Meddle
<1>3. /\ ReplayTypeOK' /\ CasesValid' /\ PresentTells'
      /\ \A i \in 1..Len(results) : ResultTells(i)'
  BY <1>1, <1>2 DEF ReplayInv, ReplayTypeOK, CasesValid, PresentTells, ResultTells, Tells, Case,
              NextCase, Proposed, Lines, Scores, Decks
<1> QED
  BY <1>1, <1>3 DEF ReplayInv, Finished

LEMMA StutterKeeps ==
    ASSUME ReplayInv, UNCHANGED replayVars
    PROVE  ReplayInv'
<1>1. UNCHANGED <<dataset, setup, attempt, errors, failed, actual, trace, results, file>>
  BY DEF replayVars
<1>2. /\ ReplayTypeOK' /\ CasesValid' /\ PresentTells'
      /\ \A i \in 1..Len(results) : ResultTells(i)'
  BY <1>1 DEF ReplayInv, ReplayTypeOK, CasesValid, PresentTells, ResultTells, Tells, Case,
              NextCase, Proposed, Lines, Scores, Decks
<1> QED
  BY <1>1, <1>2 DEF ReplayInv, Finished

(***************************************************************************)
(* Whatever a model answers and however its calls fail, every line of the  *)
(* results is the account of one observation, in the order of run_replay,  *)
(* and the observation under way has the errors of its own attempts only.  *)
(***************************************************************************)
THEOREM ReplayInvariant == Spec => []ReplayInv
<1>1. Init => ReplayInv
  BY InitReplay
<1>2. ReplayInv /\ [Next]_replayVars => ReplayInv'
  BY AttemptKeeps, RecordKeeps, WriteKeeps, MeddleKeeps, StutterKeeps DEF Next
<1> QED
  BY <1>1, <1>2, PTL DEF Spec

-----------------------------------------------------------------------------
(***************************************************************************)
(* What records and files tell.                                            *)
(***************************************************************************)
LEMMA InvRecords ==
    ASSUME ReplayInv
    PROVE  RecordsTell
<1> SUFFICES ASSUME NEW i \in DOMAIN results
             PROVE  LET r == results[i]
                        n == Len(r.errors)
                    IN /\ \A k \in 1..(r.attempts - 1) : k <= n /\ r.errors[k] \in Retryable
                       /\ IF r.status = "ok"
                          THEN /\ n = r.attempts - 1
                               /\ Convertible(Case(r).batch, r.deltas)
                               /\ r.proposals = Proposals(Case(r).batch, r.deltas)
                               /\ r.score.fidelity = "yes"
                          ELSE /\ n = r.attempts /\ r.error = r.errors[n] /\ r.proposals = <<>>
                               /\ r.error \in Retryable => r.attempts = r.max
                               /\ r.deltas # <<>> => ~Convertible(Case(r).batch, r.deltas)
  BY DEF RecordsTell
<1> DEFINE r == results[i]
<1>1. r \in Lines /\ ResultTells(i)
  BY Sizes DEF ReplayInv, ReplayTypeOK
<1>2. r.case \in 1..CaseCount /\ r.deltas \in Decks
  BY <1>1 DEF Lines
<1>3. ValidCase(Case(r)) /\ r.deltas \in Seq(Range(r.deltas))
  BY <1>2, DecksAreSequences DEF ReplayInv, CasesValid, Case
<1>4. CASE r.status = "ok"
  <2>1. /\ Convertible(Case(r).batch, r.deltas)
        /\ r.proposals = Proposals(Case(r).batch, r.deltas)
        /\ r.score = Score(Case(r), r.deltas, r.proposals)
    BY <1>1, <1>4 DEF ResultTells, Tells, Case
  <2>2. Faithful(Case(r), r.deltas, r.proposals)
    BY <1>3, <2>1, ConversionIsFaithful
  <2>3. r.score.fidelity = "yes"
    BY <2>1, <2>2 DEF Score, Yes
  <2> QED
    BY <1>1, <1>4, <2>1, <2>3 DEF ResultTells, Tells
<1>5. CASE r.status # "ok"
  BY <1>1, <1>5 DEF ResultTells, Tells, Case
<1> QED
  BY <1>4, <1>5

\* A finished run under the frozen setup has the matrix of cases and repeats.
LEMMA HonestMatrix ==
    ASSUME ReplayInv, Finished, setup.repeats = Repeats
    PROVE  Matrix(results)
<1>1. /\ CaseCount \in Nat \ {0} /\ Repeats \in Nat \ {0, 1}
      /\ Len(results) = Repeats * CaseCount /\ Len(results) \in Nat
      /\ DOMAIN results = 1..Len(results) /\ results \in Seq(Lines)
  BY Sizes DEF ReplayInv, ReplayTypeOK, Finished
<1>2. ASSUME NEW i \in DOMAIN results
      PROVE  <<results[i].repeat, results[i].case>> \in Keys
  <2>1. results[i] \in Lines
    BY <1>1
  <2> QED
    BY <2>1 DEF Lines, Keys
<1>3. ASSUME NEW a \in 1..Repeats, NEW b \in 1..CaseCount
      PROVE  \E i \in DOMAIN results : <<results[i].repeat, results[i].case>> = <<a, b>>
  <2> DEFINE q == a - 1
             r == b - 1
             n == CaseCount * q + r
  <2>1. q \in Nat /\ r \in 0..(CaseCount - 1) /\ a = q + 1 /\ b = r + 1
    BY <1>1
  <2> HIDE DEF q, r
  <2>2. n \div CaseCount = q /\ n % CaseCount = r
    BY <1>1, <2>1, QuotientIs
  <2>3. n \in Nat /\ n + 1 <= CaseCount * q + CaseCount
    BY <1>1, <2>1
  <2>4. CaseCount * q + CaseCount <= Repeats * CaseCount
    <3>1. CaseCount * (q + 1) <= CaseCount * Repeats
      BY <1>1, <2>1
    <3>2. CaseCount * (q + 1) = CaseCount * q + CaseCount /\ CaseCount * Repeats = Repeats * CaseCount
      BY <1>1, <2>1
    <3> QED
      BY <3>1, <3>2
  <2>5. n + 1 \in 1..Len(results)
    <3>1. CaseCount * q \in Nat /\ Repeats * CaseCount \in Nat
      BY <1>1, <2>1
    <3> HIDE DEF n
    <3> QED
      BY <1>1, <2>3, <2>4, <3>1
  <2> HIDE DEF n
  <2>6. ResultTells(n + 1)
    BY <2>5 DEF ReplayInv
  <2>7. (n + 1) - 1 = n
    BY <2>3
  <2> QED
    BY <1>1, <2>1, <2>2, <2>5, <2>6, <2>7 DEF ResultTells
<1>4. {<<results[i].repeat, results[i].case>> : i \in DOMAIN results} = Keys
  BY <1>2, <1>3 DEF Keys
<1> QED
  BY <1>1, <1>4 DEF Matrix

LEMMA InvHonest ==
    ASSUME ReplayInv
    PROVE  HonestIsAdmitted
<1> SUFFICES ASSUME file # <<>>, file = results, setup.frozen,
                    setup.repeats = Repeats, setup.attempts = MaxAttempts,
                    \A i \in DOMAIN file : file[i].status = "ok" /\ AllRight(file[i].score)
             PROVE  Admitted(results)
  BY DEF HonestIsAdmitted
<1>1. Finished /\ DOMAIN results = 1..Len(results) /\ results \in Seq(Lines) /\ Len(results) \in Nat
  BY Sizes DEF ReplayInv, ReplayTypeOK
<1>2. Matrix(results)
  BY <1>1, HonestMatrix
<1>3. OneRun(results)
  <2>1. \A i \in DOMAIN results : results[i].model = setup.model /\ results[i].frozen
    BY <1>1 DEF ReplayInv, ResultTells
  <2>2. 1 \in DOMAIN results
    BY <1>1
  <2>3. {results[i].model : i \in DOMAIN results} = {setup.model}
    BY <2>1, <2>2
  <2> QED
    BY <2>1, <2>3, FS_Singleton DEF OneRun
<1>4. ASSUME NEW i \in DOMAIN results
      PROVE  results[i].status = "ok" /\ History(results[i]) /\ Replayed(results[i])
  <2>1. /\ ResultTells(i) /\ results[i] \in Lines
        /\ results[i].status = "ok" /\ AllRight(results[i].score)
    BY <1>1 DEF ReplayInv
  <2>2. results[i].attempts \in 1..MaxAttempts /\ results[i].max = MaxAttempts
    BY <2>1 DEF Lines, ResultTells
  <2>3. History(results[i])
    BY <2>1, <2>2 DEF History, ResultTells, Tells
  <2>4. Replayed(results[i])
    BY <2>1 DEF Replayed, ResultTells, Tells, Case
  <2> QED
    BY <2>1, <2>3, <2>4
<1> QED
  BY <1>2, <1>3, <1>4 DEF Admitted

\* A line that can be replayed is the change that its case asks for.
LEMMA ReplayedIsGenuine ==
    ASSUME CasesValid, NEW r \in Lines, Replayed(r)
    PROVE  /\ Len(r.proposals) = 1 /\ Genuine(Case(r), r.proposals[1])
           /\ r.score = Score(Case(r), r.deltas, r.proposals)
           /\ AllRight(r.score)
<1>1. r.case \in 1..CaseCount /\ r.deltas \in Decks
  BY DEF Lines
<1>2. ValidCase(Case(r)) /\ r.deltas \in Seq(Range(r.deltas))
  BY <1>1, DecksAreSequences DEF CasesValid, Case
<1>3. /\ Convertible(Case(r).batch, r.deltas)
      /\ r.proposals = Proposals(Case(r).batch, r.deltas)
      /\ r.score = Score(Case(r), r.deltas, r.proposals)
      /\ AllRight(r.score)
  BY DEF Replayed
<1> QED
  BY <1>2, <1>3, RightIsGenuine

LEMMA UpTo ==
    ASSUME NEW n \in Nat
    PROVE  IsFiniteSet(1..n) /\ Cardinality(1..n) = n
<1>1. n \in Int /\ 1 \in Int
  OBVIOUS
<1>2. IsFiniteSet(1..n) /\ Cardinality(1..n) = IF 1 > n THEN 0 ELSE n - 1 + 1
  BY <1>1, FS_Interval, ZenonT(30)
<1>3. (IF 1 > n THEN 0 ELSE n - 1 + 1) = n
  OBVIOUS
<1> QED
  BY <1>2, <1>3

\* In a file with the whole matrix, each case is there as often as repeats are.
LEMMA MatrixCounts ==
    ASSUME NEW f \in Seq(Lines), Matrix(f), NEW i \in DOMAIN f
    PROVE  /\ IsFiniteSet(SameCase(f, i)) /\ Cardinality(SameCase(f, i)) = Repeats
           /\ IsFiniteSet(SameRepeat(f, i))
<1> DEFINE N == Repeats * CaseCount
           key == [j \in 1..N |-> <<f[j].repeat, f[j].case>>]
           S == SameCase(f, i)
           rep == [j \in S |-> f[j].repeat]
<1>1. /\ CaseCount \in Nat \ {0} /\ Repeats \in Nat \ {0, 1} /\ N \in Nat
      /\ Len(f) = N /\ DOMAIN f = 1..N /\ \A j \in 1..N : f[j] \in Lines
      /\ {<<f[j].repeat, f[j].case>> : j \in 1..N} = Keys
  BY ReplayAssumption DEF Matrix
<1>2. IsFiniteSet(1..N) /\ Cardinality(1..N) = N
  BY <1>1, UpTo
<1>3. IsFiniteSet(Keys) /\ Cardinality(Keys) = N
  <2>1. /\ IsFiniteSet(1..Repeats) /\ Cardinality(1..Repeats) = Repeats
        /\ IsFiniteSet(1..CaseCount) /\ Cardinality(1..CaseCount) = CaseCount
    BY <1>1, UpTo
  <2> QED
    BY <2>1, FS_Product DEF Keys
<1> HIDE DEF N
<1>4. key \in Surjection(1..N, Keys)
  BY <1>1 DEF Surjection
<1>5. key \in Injection(1..N, Keys)
  BY <1>2, <1>3, <1>4, FS_SurjSameCardinalityImpliesInj
<1>6. S \subseteq 1..N /\ SameRepeat(f, i) \subseteq 1..N
  BY <1>1 DEF SameCase, SameRepeat
<1>7. IsFiniteSet(S) /\ IsFiniteSet(SameRepeat(f, i))
  BY <1>2, <1>6, FS_Subset
<1>8. \A j, k \in S : f[j].repeat = f[k].repeat => j = k
  <2>1. \A j, k \in 1..N : key[j] = key[k] => j = k
    BY <1>5 DEF Injection, IsInjective
  <2> QED
    BY <1>6, <2>1 DEF SameCase
<1>9. \A a \in 1..Repeats : \E j \in S : f[j].repeat = a
  <2> SUFFICES ASSUME NEW a \in 1..Repeats
               PROVE  \E j \in S : f[j].repeat = a
    OBVIOUS
  <2>1. f[i].case \in 1..CaseCount
    BY <1>1 DEF Lines
  <2>2. <<a, f[i].case>> \in Keys
    BY <2>1 DEF Keys
  <2>3. PICK j \in 1..N : <<f[j].repeat, f[j].case>> = <<a, f[i].case>>
    BY <1>1, <2>2
  <2> QED
    BY <1>1, <2>3 DEF SameCase
<1>10. \A j \in S : f[j].repeat \in 1..Repeats
  BY <1>1, <1>6 DEF Lines
<1> HIDE DEF S
<1>11. rep \in Bijection(S, 1..Repeats)
  BY <1>8, <1>9, <1>10 DEF Bijection, Injection, Surjection, IsInjective
<1>12. Cardinality(1..Repeats) = Cardinality(S)
  BY <1>7, <1>11, FS_Bijection DEF ExistsBijection
<1>13. Cardinality(1..Repeats) = Repeats
  BY <1>1, UpTo
<1> QED
  BY <1>7, <1>12, <1>13 DEF S

\* The scores of an answer without fault: right wherever the case asks.
LEMMA Scored ==
    ASSUME NEW c, NEW deltas, NEW proposals, AllRight(Score(c, deltas, proposals))
    PROVE  LET s == Score(c, deltas, proposals) IN
           /\ s.relation = "yes"
           /\ s.body = IF c.relation # "no_change" THEN "yes" ELSE "na"
           /\ s.evidence = IF c.relation # "no_change" THEN "yes" ELSE "na"
           /\ s.fidelity # "no" /\ s.ignore # "no"
  BY DEF AllRight, Score, Yes

\* The tally of a value that all have, and of one that nobody has.
LEMMA Tallies ==
    ASSUME NEW f, NEW S, IsFiniteSet(S), NEW dim, NEW value
    PROVE  /\ Tally(f, S, dim, value) \in Nat
           /\ (\A j \in S : f[j].score[dim] = value) => Tally(f, S, dim, value) = Cardinality(S)
           /\ (\A j \in S : f[j].score[dim] # value) => Tally(f, S, dim, value) = 0
<1> DEFINE T == {j \in S : f[j].score[dim] = value}
<1>1. T \in SUBSET S
  OBVIOUS
<1>2. IsFiniteSet(T)
  BY <1>1, FS_Subset
<1>3. Cardinality(T) \in Nat
  BY <1>2, FS_CardinalityType
<1>4. ASSUME \A j \in S : f[j].score[dim] = value PROVE T = S
  BY <1>4
<1>5. ASSUME \A j \in S : f[j].score[dim] # value PROVE T = {}
  BY <1>5
<1>6. Cardinality({}) = 0
  BY FS_EmptySet
<1> QED
  BY <1>3, <1>4, <1>5, <1>6 DEF Tally

\* The older acceptance passes what admission finds no error in.
LEMMA AdmittedIsAccepted ==
    ASSUME CasesValid, NEW f \in Seq(Lines), Admitted(f)
    PROVE  Accepted(f)
<1>1. /\ Matrix(f) /\ DOMAIN f = 1..Len(f) /\ Len(f) \in Nat
      /\ \A j \in DOMAIN f : f[j] \in Lines /\ f[j].status = "ok" /\ Replayed(f[j])
  BY DEF Admitted
<1>2. f # <<>>
  <2>1. Repeats \in Nat \ {0, 1} /\ CaseCount \in Nat \ {0} /\ Len(f) = Repeats * CaseCount
    BY <1>1, ReplayAssumption DEF Matrix
  <2>2. Repeats * CaseCount # 0
    BY <2>1
  <2> QED
    BY <2>1, <2>2
<1>3. \A j \in DOMAIN f : /\ f[j].score = Score(Case(f[j]), f[j].deltas, f[j].proposals)
                          /\ AllRight(f[j].score)
  BY <1>1, ReplayedIsGenuine
<1>4. \A j \in DOMAIN f :
         /\ f[j].score["relation"] = "yes"
         /\ f[j].score["body"] = IF Case(f[j]).relation # "no_change" THEN "yes" ELSE "na"
         /\ f[j].score["evidence"] = IF Case(f[j]).relation # "no_change" THEN "yes" ELSE "na"
         /\ f[j].score["fidelity"] # "no" /\ f[j].score["ignore"] # "no"
  BY <1>3, Scored
<1>5. ASSUME NEW i \in DOMAIN f
      PROVE  /\ Cardinality(SameCase(f, i)) = Repeats
             /\ \A dim \in {"relation", "body", "evidence"} : Majority(f, SameCase(f, i), dim)
             /\ \A dim \in {"relation", "body"} : Enough(f, SameRepeat(f, i), dim)
             /\ \A dim \in {"evidence", "fidelity", "ignore"} :
                    Tally(f, SameRepeat(f, i), dim, "no") = 0
  <2> DEFINE S == SameCase(f, i)
             W == SameRepeat(f, i)
  <2>1. IsFiniteSet(S) /\ Cardinality(S) = Repeats /\ IsFiniteSet(W)
    BY <1>1, MatrixCounts
  <2>2. S \subseteq DOMAIN f /\ W \subseteq DOMAIN f /\ \A j \in S : Case(f[j]) = Case(f[i])
    BY DEF SameCase, SameRepeat, Case
  <2> HIDE DEF S, W
  <2>3. ASSUME NEW dim \in {"relation", "body", "evidence"}
        PROVE  Majority(f, S, dim)
    <3>1. (\A j \in S : f[j].score[dim] = "yes") \/ (\A j \in S : f[j].score[dim] = "na")
      BY <1>4, <2>2
    <3>2. Tally(f, S, dim, "yes") = Repeats \/ Tally(f, S, dim, "na") = Cardinality(S)
      BY <2>1, <3>1, Tallies
    <3> QED
      BY <3>2, ReplayAssumption DEF Majority
  <2>4. ASSUME NEW dim \in {"relation", "body", "evidence", "fidelity", "ignore"}
        PROVE  Tally(f, W, dim, "no") = 0
    <3>1. \A j \in W : f[j].score[dim] # "no"
      BY <1>4, <2>2
    <3> QED
      BY <2>1, <3>1, Tallies
  <2>5. ASSUME NEW dim \in {"relation", "body"}
        PROVE  Enough(f, W, dim)
    <3>1. Tally(f, W, dim, "yes") \in Nat /\ Tally(f, W, dim, "no") = 0
      BY <2>1, <2>4, Tallies
    <3> QED
      BY <3>1 DEF Enough
  <2> QED
    BY <2>1, <2>3, <2>4, <2>5 DEF S, W
<1> QED
  BY <1>1, <1>2, <1>5 DEF Accepted

LEMMA InvFiles ==
    ASSUME ReplayInv
    PROVE  FilesTell
<1>1. /\ CasesValid /\ file \in Seq(Lines) /\ results \in Seq(Lines)
      /\ \A i \in DOMAIN file : file[i] \in Lines
      /\ \A i \in DOMAIN results : results[i] \in Lines
  BY DEF ReplayInv, ReplayTypeOK
<1>2. AdmittedIsGenuine
  <2> SUFFICES ASSUME Admitted(file)
               PROVE  /\ \A k \in Keys : \E i \in DOMAIN file :
                             /\ <<file[i].repeat, file[i].case>> = k
                             /\ Len(file[i].proposals) = 1
                             /\ Genuine(Case(file[i]), file[i].proposals[1])
                      /\ Accepted(file)
    BY DEF AdmittedIsGenuine
  <2>1. \A i \in DOMAIN file : /\ Len(file[i].proposals) = 1
                               /\ Genuine(Case(file[i]), file[i].proposals[1])
    BY <1>1, ReplayedIsGenuine DEF Admitted
  <2>2. \A k \in Keys : \E i \in DOMAIN file : <<file[i].repeat, file[i].case>> = k
    BY DEF Admitted, Matrix
  <2>3. Accepted(file)
    BY <1>1, AdmittedIsAccepted
  <2> QED
    BY <2>1, <2>2, <2>3
<1>3. EquivalentIsGenuine
  <2> SUFFICES ASSUME NEW i \in DOMAIN results, NEW j \in DOMAIN file,
                      Equivalent(results[i], file[j]),
                      NEW r \in {results[i], file[j]}
               PROVE  Genuine(Case(r), r.proposals[1])
    BY DEF EquivalentIsGenuine
  <2>1. r \in Lines /\ Replayed(r)
    BY <1>1 DEF Equivalent
  <2> QED
    BY <1>1, <2>1, ReplayedIsGenuine
<1> QED
  BY <1>2, <1>3 DEF FilesTell

(***************************************************************************)
(* RecordsTell: the history that run_replay writes down for an observation *)
(* is the one that its status, its error and its deltas tell, and what     *)
(* convert_deltas made of an answer is what the scorer expects.            *)
(***************************************************************************)
THEOREM RecordsAreTrue == Spec => []RecordsTell
<1>1. ReplayInv => RecordsTell
  BY InvRecords
<1> QED
  BY <1>1, ReplayInvariant, PTL

(***************************************************************************)
(* FilesTell: a file in which admission_errors finds nothing proves the    *)
(* change that every case asks for, in every repeat, and is accepted by    *)
(* the older rules too; observations that audit_models calls equivalent    *)
(* are both genuine.  It does not matter what was done to the file.        *)
(***************************************************************************)
THEOREM FilesAreTrue == Spec => []FilesTell
<1>1. ReplayInv => FilesTell
  BY InvFiles
<1> QED
  BY <1>1, ReplayInvariant, PTL

(***************************************************************************)
(* HonestIsAdmitted: retries or not, admission_errors holds nothing        *)
(* against the untouched file of a frozen run that came out right.         *)
(***************************************************************************)
THEOREM HonestRunsPass == Spec => []HonestIsAdmitted
<1>1. ReplayInv => HonestIsAdmitted
  BY InvHonest
<1> QED
  BY <1>1, ReplayInvariant, PTL

(***************************************************************************)
(* CasesAnswerable: the answer that a case's annotation describes passes   *)
(* the conversion and the scorer, for every case that load_replay_dataset  *)
(* lets through and that is closed.                                        *)
(***************************************************************************)
THEOREM CasesHaveAnswers == Spec => []CasesAnswerable
<1>1. ReplayInv => CasesAnswerable
  <2> SUFFICES ASSUME ReplayInv, NEW i \in DOMAIN dataset, Closed(dataset[i])
               PROVE  LET c == dataset[i] IN
                      /\ Convertible(c.batch, Expected(c))
                      /\ AllRight(Score(c, Expected(c), Proposals(c.batch, Expected(c))))
    BY DEF CasesAnswerable
  <2>1. ValidCase(dataset[i])
    BY Sizes DEF ReplayInv, CasesValid
  <2> QED
    BY <2>1, ClosedIsAnswerable
<1> QED
  BY <1>1, ReplayInvariant, PTL
=============================================================================
