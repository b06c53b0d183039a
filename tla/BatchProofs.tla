----------------------------- MODULE BatchProofs -----------------------------
(***************************************************************************)
(* Theorems about batches, for every number of candidates, batches,        *)
(* memories, workers, reviewers, receipts, runs, attempts and faults and   *)
(* for every set of operations the Judge may propose:                      *)
(*   - module Batch, the workers,                                          *)
(*   - module Review, the decisions about their conflicts, and             *)
(*   - module Schedule, the batches of a rollout.                          *)
(* What the three share is the worker: the lemmas of Batch about a         *)
(* worker's steps are cited by the other two.                              *)
(***************************************************************************)
EXTENDS Review, Schedule, TLAPS

-----------------------------------------------------------------------------
(***************************************************************************)
(* Typing.                                                                 *)
(***************************************************************************)

LEMMA PairParts ==
    /\ \A p \in Pairs : p[1] \in Batches /\ p[2] \in Candidates /\ p = <<p[1], p[2]>>
    /\ \A b \in Batches, c \in Candidates : /\ <<b, c>> \in Pairs
                                            /\ <<b, c>>[1] = b /\ <<b, c>>[2] = c
  BY DEF Pairs

\* A worker that is not idle holds a well-formed claim.
LEMMA ClaimTyped ==
    ASSUME TypeOK, NEW w \in Workers, work[w] # Idle
    PROVE  work[w] \in Claims /\ work[w].batch \in Batches /\ Mine(w) \in BatchRow
  BY DEF TypeOK, Claims, Mine

LEMMA RowsTyped ==
    /\ NoBatchRow \in BatchRow
    /\ NoProposal \in ProposalRow
    /\ NoDelta \in Delta
    /\ \A r \in BatchRow : Leased(r) \in BatchRow
    /\ \A r \in BatchRow, s \in BatchStatuses : Freed(r, s) \in BatchRow
<1> USE DEF BatchRow, BatchStatuses
<1>1. NoBatchRow \in BatchRow
  BY BatchAssumption DEF NoBatchRow
<1>2. NoDelta \in Delta /\ NoProposal \in ProposalRow
  BY DEF NoDelta, NoProposal, Delta, ProposalRow, ProposalStatuses, AllOperations
<1>3. \A r \in BatchRow : Leased(r) \in BatchRow
  BY DEF Leased
<1>4. \A r \in BatchRow, s \in BatchStatuses : Freed(r, s) \in BatchRow
  BY DEF Freed
<1> QED
  BY <1>1, <1>2, <1>3, <1>4

LEMMA RowsUpdated ==
    /\ \A r \in BatchRow, s \in BatchStatuses : [r EXCEPT !.status = s] \in BatchRow
    /\ \A r \in BatchRow : [r EXCEPT !.lease = "expired"] \in BatchRow
    /\ \A r \in ProposalRow, s \in ProposalStatuses : [r EXCEPT !.status = s] \in ProposalRow
  BY DEF BatchRow, ProposalRow

LEMMA InitTyped == Init => TypeOK
  BY BatchAssumption, RowsTyped
  DEF Init, TypeOK, CandidateStatuses, Decided, Idle

\* Every change of work[w] that the steps of a worker make is typed.
WorkTypedNext ==
    /\ work' \in [Workers -> Claims \cup {Idle}]
    /\ \A w \in Workers : Decided(work'[w])

LEMMA WorkTyped ==
    ASSUME TypeOK, NEW w \in Workers
    PROVE  /\ UNCHANGED work => WorkTypedNext
           /\ Leave(w) => WorkTypedNext
           /\ \A p \in Phases \ {"failing"} :
                 work[w] \in Claims /\ Go(w, p) => WorkTypedNext
           /\ \A v \in {"retry", "blocked"} :
                 work[w] \in Claims /\ Decide(w, v) => WorkTypedNext
           /\ \A S \in SUBSET Candidates :
                 work[w] \in Claims /\ Adopt(w, S) => WorkTypedNext
<1>1. UNCHANGED work => WorkTypedNext
  BY DEF TypeOK, Decided, WorkTypedNext
<1>2. Leave(w) => WorkTypedNext
  BY DEF TypeOK, Decided, WorkTypedNext, Leave, Idle
<1>3. ASSUME NEW c, c \in Claims, Decided(c), work' = [work EXCEPT ![w] = c]
      PROVE  WorkTypedNext
  BY <1>3 DEF TypeOK, WorkTypedNext
<1>4. ASSUME NEW p \in Phases \ {"failing"}, work[w] \in Claims, Go(w, p)
      PROVE  WorkTypedNext
  <2> DEFINE c == [work[w] EXCEPT !.phase = p]
  <2>1. c \in Claims /\ Decided(c)
    BY <1>4 DEF Claims, Decided
  <2> QED
    BY <2>1, <1>3, <1>4 DEF Go
<1>5. ASSUME NEW v \in {"retry", "blocked"}, work[w] \in Claims, Decide(w, v)
      PROVE  WorkTypedNext
  <2> DEFINE c == [work[w] EXCEPT !.phase = "failing", !.verdict = v]
  <2>1. c \in Claims /\ Decided(c)
    BY <1>5 DEF Claims, Decided, Phases
  <2>2. work' = [work EXCEPT ![w] = c]
    BY <1>5 DEF Decide, TypeOK, Claims
  <2> QED
    BY <2>1, <2>2, <1>3
<1>6. ASSUME NEW S \in SUBSET Candidates, work[w] \in Claims, Adopt(w, S)
      PROVE  WorkTypedNext
  <2> DEFINE c == [work[w] EXCEPT !.phase = "committing", !.plan = S]
  <2>1. c \in Claims /\ Decided(c)
    BY <1>6 DEF Claims, Decided, Phases
  <2>2. work' = [work EXCEPT ![w] = c]
    BY <1>6 DEF Adopt, TypeOK, Claims
  <2> QED
    BY <2>1, <2>2, <1>3
<1> QED
  BY <1>1, <1>2, <1>4, <1>5, <1>6

LEMMA VerdictTyped == \A w \in Workers : Verdict(w) \in {"retry", "blocked"}
  BY DEF Verdict

\* The actions that read or fail, and change nothing but the worker.
Quiet(w) ==
    \/ Resume(w) \/ VersionChanged(w) \/ JudgeFails(w) \/ ReadBack(w)
    \/ CommitFails(w) \/ Crash(w)

LEMMA QuietTyped ==
    ASSUME TypeOK, NEW w \in Workers, Quiet(w)
    PROVE  TypeOK' /\ work[w] # Idle
           /\ UNCHANGED <<head, candidateVars, batch, proposalVars>>
<1> USE DEF Quiet, Resume, VersionChanged, JudgeFails, ReadBack, CommitFails, Crash
<1>1. work[w] # Idle /\ UNCHANGED <<head, candidateVars, batch, proposalVars>>
  BY DEF Step
<1>2. faults' \in 0..MaxFaults
  BY BatchAssumption DEF Fault, TypeOK
<1>3. work[w] \in Claims
  BY <1>1, ClaimTyped
<1>4. \A b \in Batches : Proposed(b) \in SUBSET Candidates
  BY DEF Proposed
<1>5. WorkTypedNext
  BY <1>3, <1>4, WorkTyped, VerdictTyped DEF Phases, Claims
<1> QED
  BY <1>1, <1>2, <1>5 DEF TypeOK, WorkTypedNext, candidateVars, proposalVars

LEMMA SessionTyped ==
    ASSUME TypeOK,
           \/ \E c \in Candidates : CreateCandidate(c)
           \/ \E m \in Memories : ChangeHead(m)
           \/ \E b \in Batches : RequestBatch(b)
    PROVE  TypeOK'
<1>1. ASSUME NEW c \in Candidates, CreateCandidate(c)
      PROVE  TypeOK'
  BY <1>1 DEF CreateCandidate, TypeOK, CandidateStatuses, proposalVars
<1>2. ASSUME NEW m \in Memories, ChangeHead(m)
      PROVE  TypeOK'
  <2>1. head' \in [Memories -> [state : {"active", "retired"}, rev : 1..MaxRevision]]
    BY <1>2, BatchAssumption DEF ChangeHead, TypeOK
  <2> QED
    BY <1>2, <2>1 DEF ChangeHead, TypeOK, candidateVars, proposalVars
<1>3. ASSUME NEW b \in Batches, RequestBatch(b)
      PROVE  TypeOK'
  <2>1. PICK anchors \in SUBSET {m \in Memories : head[m].state = "active"
                                                  /\ head[m].rev < MaxRevision} :
          batch' = [batch EXCEPT ![b] =
            [status |-> "pending", attempts |-> 0, holder |-> "none", lease |-> "none",
             members |-> Ready,
             base |-> [m \in Memories |-> IF m \in anchors THEN head[m].rev ELSE 0]]]
    BY <1>3 DEF RequestBatch
  <2>2. [m \in Memories |-> IF m \in anchors THEN head[m].rev ELSE 0]
          \in [Memories -> 0..(MaxRevision - 1)]
    BY BatchAssumption DEF TypeOK
  <2>3. Ready \subseteq Candidates
    BY DEF Ready
  <2>4. batch' \in [Batches -> BatchRow]
    BY <2>1, <2>2, <2>3 DEF BatchRow, BatchStatuses, TypeOK
  <2>5. cand' \in [Candidates -> [status : CandidateStatuses, batch : Batches \cup {NoBatch}]]
    BY <1>3 DEF RequestBatch, TypeOK, CandidateStatuses
  <2>6. open' \subseteq Pairs
    BY <1>3, <2>3 DEF RequestBatch, TypeOK, Pairs
  <2> QED
    BY <1>3, <2>4, <2>5, <2>6 DEF RequestBatch, TypeOK, proposalVars
<1> QED
  BY <1>1, <1>2, <1>3

LEMMA ClaimNextTyped ==
    ASSUME TypeOK, NEW w \in Workers, ClaimNext(w)
    PROVE  TypeOK'
<1>1. PICK b \in Batches : /\ Claimable(b)
                           /\ batch' = [batch EXCEPT ![b] = Leased(batch[b])]
                           /\ work' = [work EXCEPT ![w] = ClaimOf(b)]
  BY DEF ClaimNext
<1>2. batch[b] \in BatchRow
  BY DEF TypeOK
<1>3. batch' \in [Batches -> BatchRow]
  BY <1>1, <1>2, RowsTyped DEF TypeOK
<1>4. ClaimOf(b) \in Claims /\ Decided(ClaimOf(b))
  BY <1>2 DEF ClaimOf, Claims, Phases, Decided, BatchRow
<1>5. work' \in [Workers -> Claims \cup {Idle}] /\ \A v \in Workers : Decided(work'[v])
  BY <1>1, <1>4 DEF TypeOK
<1> QED
  BY <1>3, <1>5 DEF ClaimNext, TypeOK, candidateVars, proposalVars

LEMMA PersistTyped ==
    ASSUME TypeOK, NEW w \in Workers, Persist(w)
    PROVE  TypeOK'
<1> DEFINE b == work[w].batch
<1>1. work[w] # Idle /\ work[w] \in Claims /\ b \in Batches
  BY ClaimTyped DEF Persist, Step
<1>2. WorkTypedNext
  BY <1>1, WorkTyped DEF Persist, Phases
<1>3. CASE ~ValidClaim(w)
  BY <1>2, <1>3 DEF Persist, TypeOK, WorkTypedNext, candidateVars
<1>4. CASE ValidClaim(w)
  <2>1. batch' \in [Batches -> BatchRow]
    <3>1. batch' = [batch EXCEPT ![b] = [batch[b] EXCEPT !.status = "proposed"]]
      BY <1>4 DEF Persist
    <3>2. batch[b] \in BatchRow /\ "proposed" \in BatchStatuses
      BY <1>1 DEF TypeOK, BatchStatuses
    <3> QED
      BY <3>1, <3>2, RowsUpdated DEF TypeOK
  <2>2. PICK answer \in [Input(b).candidates -> Delta] :
          prop' = [p \in Pairs |->
                      IF p[1] = b /\ p[2] \in Input(b).candidates
                      THEN [status |-> "proposed", delta |-> answer[p[2]],
                            pred |-> Predecessor(p[2])]
                      ELSE IF p[2] \in Input(b).candidates /\ p[1] = Predecessor(p[2])
                      THEN [prop[p] EXCEPT !.status = "superseded"]
                      ELSE prop[p]]
    BY <1>4 DEF Persist
  <2>3. \A c \in Candidates : Predecessor(c) \in Batches \cup {NoBatch}
    <3> SUFFICES ASSUME NEW c \in Candidates PROVE Predecessor(c) \in Batches \cup {NoBatch}
      OBVIOUS
    <3>1. CASE Invalidated(c) = {}
      BY <3>1 DEF Predecessor
    <3>2. CASE Invalidated(c) # {}
      BY <3>2 DEF Predecessor, Invalidated
    <3> QED
      BY <3>1, <3>2
  <2>4. \A d \in Delta, q \in Batches \cup {NoBatch} :
          [status |-> "proposed", delta |-> d, pred |-> q] \in ProposalRow
    BY DEF ProposalRow, ProposalStatuses
  <2>5. \A r \in ProposalRow : [r EXCEPT !.status = "superseded"] \in ProposalRow
    BY DEF ProposalRow, ProposalStatuses
  <2>6. prop' \in [Pairs -> ProposalRow]
    BY <2>2, <2>3, <2>4, <2>5, PairParts DEF TypeOK
  <2> QED
    BY <1>2, <2>1, <2>6 DEF Persist, TypeOK, WorkTypedNext, candidateVars
<1> QED
  BY <1>3, <1>4

LEMMA PersistRejectedTyped ==
    ASSUME TypeOK, NEW w \in Workers, PersistRejected(w)
    PROVE  TypeOK'
<1> DEFINE b == work[w].batch
<1>1. b \in Batches /\ batch[b] \in BatchRow
  BY ClaimTyped DEF PersistRejected, Step, Mine
<1>2. WorkTypedNext
  BY WorkTyped DEF PersistRejected
<1>3. batch' \in [Batches -> BatchRow]
  BY <1>1, RowsTyped DEF PersistRejected, TypeOK, BatchStatuses
<1>4. prop' \in [Pairs -> ProposalRow]
  BY RowsTyped DEF PersistRejected, TypeOK, ProposalRow, ProposalStatuses
<1>5. cand' \in [Candidates -> [status : CandidateStatuses, batch : Batches \cup {NoBatch}]]
  BY DEF PersistRejected, TypeOK, CandidateStatuses
<1> QED
  BY <1>2, <1>3, <1>4, <1>5 DEF PersistRejected, Unhold, TypeOK, WorkTypedNext

LEMMA ReleaseTyped ==
    ASSUME TypeOK, NEW w \in Workers, Release(w)
    PROVE  TypeOK'
<1> DEFINE b == work[w].batch
<1>1. b \in Batches /\ batch[b] \in BatchRow
  BY ClaimTyped DEF Release, Step, Mine
<1>2. WorkTypedNext
  BY WorkTyped DEF Release
<1>3. batch' \in [Batches -> BatchRow]
  BY <1>1, RowsTyped DEF Release, TypeOK, BatchStatuses
<1>4. prop' \in [Pairs -> ProposalRow]
  <2>1. \A p \in Pairs : [prop[p] EXCEPT !.status = "invalidated"] \in ProposalRow
    BY RowsUpdated DEF TypeOK, ProposalStatuses
  <2> QED
    BY <2>1 DEF Release, TypeOK
<1>5. cand' \in [Candidates -> [status : CandidateStatuses, batch : Batches \cup {NoBatch}]]
  BY DEF Release, TypeOK, CandidateStatuses, candidateVars
<1>6. open' \subseteq Pairs
  BY DEF Release, Unhold, TypeOK, candidateVars
<1> QED
  BY <1>2, <1>3, <1>4, <1>5, <1>6 DEF Release, TypeOK, WorkTypedNext

\* The heads that a committable plan writes stay within the bound.
LEMMA HeadsTyped ==
    ASSUME TypeOK, NEW b \in Batches, NEW S \in SUBSET Candidates,
           Applicable(b, S), CommitPlan(b, S)
    PROVE  head' \in [Memories -> [state : {"active", "retired"}, rev : 1..MaxRevision]]
<1>1. ASSUME NEW m \in Memories, NEW c \in Writes(b, S), Target(b, c) = m, NEW op
      PROVE  NewHead(m, op) \in [state : {"active", "retired"}, rev : 1..MaxRevision]
  <2>1. head[m].rev = batch[b].base[m]
    BY <1>1 DEF Applicable, Current
  <2>2. batch[b].base[m] \in 0..(MaxRevision - 1)
    BY DEF TypeOK, BatchRow
  <2>3. head[m].rev + 1 \in 1..MaxRevision
    BY <2>1, <2>2, BatchAssumption
  <2> QED
    BY <2>3 DEF NewHead
<1>2. head' = [m \in Memories |->
              IF \E c \in Writes(b, S) : Target(b, c) = m
              THEN NewHead(m, prop[<<b, CHOOSE c \in Writes(b, S) : Target(b, c) = m>>].delta.op)
              ELSE head[m]]
  BY DEF CommitPlan
<1> QED
  BY <1>1, <1>2 DEF TypeOK

LEMMA CommitTyped ==
    ASSUME TypeOK, NEW w \in Workers, Commit(w)
    PROVE  TypeOK'
<1> DEFINE b == work[w].batch
           S == work[w].plan
<1>1. /\ work[w] \in Claims /\ b \in Batches /\ batch[b] \in BatchRow
      /\ S \in SUBSET Candidates
  BY ClaimTyped DEF Commit, Step, Mine, Claims
<1>2. WorkTypedNext
  BY <1>1, WorkTyped, VerdictTyped DEF Commit
<1>3. CASE UNCHANGED <<head, candidateVars, batch, proposalVars>>
  BY <1>2, <1>3 DEF Commit, TypeOK, WorkTypedNext, candidateVars, proposalVars
<1>4. CASE Committable(b, S) /\ CommitPlan(b, S)
  <2> USE <1>1, <1>4
  <2>1. head' \in [Memories -> [state : {"active", "retired"}, rev : 1..MaxRevision]]
    BY HeadsTyped DEF Committable
  <2>2. batch' \in [Batches -> BatchRow]
    BY RowsTyped DEF CommitPlan, TypeOK, BatchStatuses
  <2>3. cand' \in [Candidates -> [status : CandidateStatuses, batch : Batches \cup {NoBatch}]]
    BY DEF CommitPlan, TypeOK, CandidateStatuses
  <2>4. \A r \in ProposalRow, op \in AllOperations :
          [r EXCEPT !.status = Outcome(op)] \in ProposalRow
    BY DEF ProposalRow, ProposalStatuses, Outcome
  <2>5. \A p \in Pairs : prop[p] \in ProposalRow /\ prop[p].delta.op \in AllOperations
    BY DEF TypeOK, ProposalRow, Delta
  <2>6. prop' = [p \in Pairs |->
              IF p \in {b} \X S
              THEN [prop[p] EXCEPT !.status = Outcome(prop[p].delta.op)]
              ELSE prop[p]]
    BY DEF CommitPlan
  <2>7. prop' \in [Pairs -> ProposalRow]
    BY <2>4, <2>5, <2>6
  <2>8. open' \subseteq Pairs /\ conflict' \in [Pairs -> {"none", "open", "resolved"}]
    BY DEF CommitPlan, TypeOK
  <2> QED
    BY <1>2, <2>1, <2>2, <2>3, <2>7, <2>8 DEF Commit, TypeOK, WorkTypedNext
<1> QED
  BY <1>3, <1>4 DEF Commit

LEMMA FailTyped ==
    ASSUME TypeOK, NEW w \in Workers, Fail(w)
    PROVE  TypeOK'
<1>1. work[w] # Idle /\ work[w] \in Claims /\ work[w].batch \in Batches
  BY ClaimTyped DEF Fail, Step
<1>2. WorkTypedNext
  BY WorkTyped DEF Fail
<1>3. work[w].verdict \in BatchStatuses
  BY <1>1 DEF Claims, BatchStatuses
<1>4. batch' \in [Batches -> BatchRow]
  BY <1>1, <1>3, RowsTyped DEF Fail, TypeOK
<1> QED
  BY <1>2, <1>4 DEF Fail, TypeOK, WorkTypedNext, candidateVars, proposalVars

LEMMA ExpiryTyped ==
    ASSUME TypeOK, NEW b \in Batches, LeaseRunsOut(b) \/ LeaseOverrun(b)
    PROVE  TypeOK'
<1>1. batch' \in [Batches -> BatchRow]
  <2>1. batch' = [batch EXCEPT ![b] = [batch[b] EXCEPT !.lease = "expired"]]
    BY DEF LeaseRunsOut, LeaseOverrun, Expire
  <2>2. batch[b] \in BatchRow
    BY DEF TypeOK
  <2> QED
    BY <2>1, <2>2, RowsUpdated DEF TypeOK
<1>2. faults' \in 0..MaxFaults
  BY BatchAssumption DEF LeaseRunsOut, LeaseOverrun, Fault, TypeOK
<1> QED
  BY <1>1, <1>2 DEF LeaseRunsOut, LeaseOverrun, TypeOK, candidateVars, proposalVars

\* Whatever a worker does is one of these.
LEMMA WorkerSteps ==
    ASSUME NEW w \in Workers, RunOnce(w) \/ Failure(w)
    PROVE  \/ Quiet(w) \/ ClaimNext(w) \/ Persist(w) \/ PersistRejected(w)
           \/ Release(w) \/ Commit(w) \/ Fail(w)
  BY DEF RunOnce, Failure, Quiet

LEMMA StepTyped == TypeOK /\ [Next]_vars => TypeOK'
<1> SUFFICES ASSUME TypeOK, [Next]_vars PROVE TypeOK'
  OBVIOUS
<1>1. ASSUME NEW w \in Workers, RunOnce(w) \/ Failure(w)
      PROVE  TypeOK'
  BY <1>1, WorkerSteps, QuietTyped, ClaimNextTyped, PersistTyped, PersistRejectedTyped,
     ReleaseTyped, CommitTyped, FailTyped
<1>2. CASE UNCHANGED vars
  BY <1>2 DEF vars, TypeOK
<1> QED
  BY <1>1, <1>2, SessionTyped, ExpiryTyped DEF Next

(***************************************************************************)
(* The rows, claims and proposals of batch maintenance are always          *)
(* well-formed, and no revision leaves its bound.                          *)
(***************************************************************************)
THEOREM TypeCorrect == Spec => []TypeOK
<1>1. Init => TypeOK
  BY InitTyped
<1>2. TypeOK /\ [Next]_vars => TypeOK'
  BY StepTyped
<1> QED
  BY <1>1, <1>2, PTL DEF Spec

-----------------------------------------------------------------------------
(***************************************************************************)
(* Safety.                                                                 *)
(***************************************************************************)

\* HeldByOneBatch row by row.
LEMMA HeldRows ==
    ASSUME BatchInv
    PROVE  \A c \in Candidates, b \in Batches : <<b, c>> \in open <=> cand[c].batch = b
<1> SUFFICES ASSUME NEW c \in Candidates, NEW b \in Batches
             PROVE  <<b, c>> \in open <=> cand[c].batch = b
  OBVIOUS
<1>1. {x \in Batches : <<x, c>> \in open} = {cand[c].batch} \ {NoBatch}
  BY DEF BatchInv, HeldByOneBatch
<1> QED
  BY <1>1, BatchAssumption

LEMMA InitSafe == Init => BatchInv
<1> SUFFICES ASSUME Init PROVE BatchInv
  OBVIOUS
<1> USE DEF Init, NoBatchRow, NoProposal, NoDelta
<1>1. TypeOK
  BY InitTyped
<1>2. StatusesInOrder /\ ActiveIffHeld /\ MembersHeld
  BY BatchAssumption, PairParts DEF StatusesInOrder, ActiveIffHeld, MembersHeld, MemberHeld, Underway, InRun
<1>3. ProposalsOfMembers
  BY PairParts DEF ProposalsOfMembers, ProposalOfMember, Underway
<1>4. ClaimsDistinct /\ JudgedAfresh /\ PlansComplete
  BY DEF ClaimsDistinct, JudgedAfresh, PlansComplete, Step
<1>5. HeldByOneBatch
  BY BatchAssumption DEF HeldByOneBatch
<1>6. /\ \A b \in Batches, c \in Candidates :
            prop[<<b, c>>].status = "none" /\ prop[<<b, c>>].pred = NoBatch
      /\ \A c \in Candidates : cand[c].status = "none"
  BY PairParts
<1>7. ReconciledOnce /\ SupersededHasSuccessor
  <2> USE DEF ReconciledOnce, SupersededHasSuccessor, Succession, Reconciled, Invalidated
  <2>1. ReconciledOnce
    BY <1>6
  <2>2. SupersededHasSuccessor
    BY <1>6, BatchAssumption
  <2> QED
    BY <2>1, <2>2
<1> QED
  BY <1>1, <1>2, <1>3, <1>4, <1>5, <1>7 DEF BatchInv

\* What the rows say, apart from the workers.
RowsInv ==
    /\ StatusesInOrder
    /\ ActiveIffHeld
    /\ MembersHeld
    /\ ProposalsOfMembers
    /\ HeldByOneBatch
    /\ ReconciledOnce
    /\ SupersededHasSuccessor

ClaimsInv == ClaimsDistinct /\ JudgedAfresh /\ PlansComplete

LEMMA DecidedUnchanged ==
    ASSUME ReconciledOnce, SupersededHasSuccessor, UNCHANGED <<cand, prop>>
    PROVE  ReconciledOnce' /\ SupersededHasSuccessor'
<1>1. \A c \in Candidates : /\ Reconciled(c)' = Reconciled(c)
                            /\ Invalidated(c)' = Invalidated(c)
  BY DEF Reconciled, Invalidated
<1>2. ReconciledOnce'
  BY <1>1 DEF ReconciledOnce
<1>3. SupersededHasSuccessor'
  BY <1>1 DEF SupersededHasSuccessor, Succession
<1> QED
  BY <1>2, <1>3

LEMMA RowsUnchanged ==
    ASSUME RowsInv, UNCHANGED <<cand, open, batch, prop>>
    PROVE  RowsInv'
<1>1. UNCHANGED <<StatusesInOrder, ActiveIffHeld, MembersHeld>>
  BY DEF StatusesInOrder, ActiveIffHeld, MembersHeld, MemberHeld, Underway, InRun
<1>2. UNCHANGED <<ProposalsOfMembers, HeldByOneBatch>>
  BY DEF ProposalsOfMembers, ProposalOfMember, Invalidated, HeldByOneBatch, Underway
<1>3. ReconciledOnce' /\ SupersededHasSuccessor'
  BY DecidedUnchanged DEF RowsInv
<1> QED
  BY <1>1, <1>2, <1>3 DEF RowsInv

\* A step of one worker leaves the claims of the others as they are, unless it
\* is the holder's: the holder alone may change what is proposed.
LEMMA ClaimsKept ==
    ASSUME BatchInv, NEW w \in Workers, work[w] # Idle,
           \A v \in Workers : v # w => work'[v] = work[v],
           \/ work'[w] = Idle
           \/ /\ work'[w].batch = work[w].batch /\ work'[w].attempt = work[w].attempt
              /\ Step(w, "judging")' /\ Owns(w)' => Proposed(work[w].batch)' = {}
              /\ Step(w, "committing")' /\ Owns(w)' =>
                    work'[w].plan = Proposed(work[w].batch)',
           \A b \in Batches : /\ batch'[b].attempts = batch[b].attempts
                              /\ batch'[b].status = "none" => batch[b].status = "none"
                              /\ batch'[b].holder = "worker" => batch[b].holder = "worker",
           \A b \in Batches : Proposed(b)' # Proposed(b) => b = work[w].batch /\ Owns(w)
    PROVE  ClaimsInv'
<1>1. \A v \in Workers : work[v] # Idle => work[v].batch \in Batches
  BY ClaimTyped DEF BatchInv
<1>2. ClaimsDistinct'
  BY <1>1 DEF BatchInv, ClaimsDistinct, Mine
<1>3. \A v \in Workers : v # w /\ work'[v] # Idle /\ Owns(v)' =>
          Owns(v) /\ Proposed(work[v].batch)' = Proposed(work[v].batch)
  BY <1>1 DEF BatchInv, ClaimsDistinct, Owns, Mine
<1>4. JudgedAfresh' /\ PlansComplete'
  BY <1>3 DEF BatchInv, JudgedAfresh, PlansComplete, Step
<1> QED
  BY <1>2, <1>4 DEF ClaimsInv

LEMMA QuietSafe ==
    ASSUME BatchInv, NEW w \in Workers, Quiet(w)
    PROVE  RowsInv' /\ ClaimsInv'
<1>1. /\ work[w] # Idle /\ work[w] \in Claims
      /\ UNCHANGED <<head, candidateVars, batch, proposalVars>>
  BY QuietTyped, ClaimTyped DEF BatchInv
<1>2. RowsInv'
  BY <1>1, RowsUnchanged DEF BatchInv, RowsInv, candidateVars, proposalVars
<1>3. /\ \A v \in Workers : v # w => work'[v] = work[v]
      /\ \/ work'[w] = Idle
         \/ /\ work'[w].batch = work[w].batch /\ work'[w].attempt = work[w].attempt
            /\ work'[w].phase = "judging" => Proposed(work[w].batch) = {}
            /\ work'[w].phase = "committing" => work'[w].plan = Proposed(work[w].batch)
  BY <1>1 DEF Quiet, Resume, VersionChanged, JudgeFails, ReadBack, CommitFails, Crash,
     Go, Leave, Decide, Adopt, Claims, BatchInv, TypeOK
<1>4. \A b \in Batches : Proposed(b)' = Proposed(b)
  BY <1>1 DEF Proposed, proposalVars
<1>5. work[w].batch \in Batches
  BY <1>1 DEF Claims
<1>6. ClaimsInv'
  BY <1>1, <1>3, <1>4, <1>5, ClaimsKept DEF Step, candidateVars, proposalVars
<1> QED
  BY <1>2, <1>6

LEMMA CandidateSafe ==
    ASSUME BatchInv, NEW c \in Candidates, CreateCandidate(c)
    PROVE  RowsInv' /\ ClaimsInv'
<1>1. /\ cand' = [cand EXCEPT ![c].status = "pending"] /\ cand[c].status = "none"
      /\ UNCHANGED <<batch, open, prop, work>>
  BY DEF CreateCandidate, proposalVars
<1>2. \A d \in Candidates : /\ cand'[d].batch = cand[d].batch
                            /\ d # c => cand'[d] = cand[d]
                            /\ d = c => cand'[d].status = "pending"
  BY <1>1 DEF BatchInv, TypeOK
<1>3. StatusesInOrder' /\ ActiveIffHeld'
  BY <1>1, <1>2 DEF BatchInv, StatusesInOrder, ActiveIffHeld, InRun
<1>4. MembersHeld' /\ ProposalsOfMembers'
  <2>1. cand[c].batch = NoBatch
    BY <1>1 DEF BatchInv, ActiveIffHeld
  <2>2. \A b \in Batches : ~(Underway(b) /\ c \in batch[b].members)
    BY <1>1 DEF BatchInv, MembersHeld, MemberHeld
  <2>3. /\ \A b \in Batches : Underway(b)' <=> Underway(b)
        /\ \A d \in Candidates : Invalidated(d)' = Invalidated(d)
    BY <1>1 DEF Underway, Invalidated
  <2>4. ASSUME NEW b \in Batches, NEW d \in Candidates
        PROVE  MemberHeld(b, d)' /\ ProposalOfMember(b, d)'
    <3>1. MemberHeld(b, d) /\ ProposalOfMember(b, d)
      BY DEF BatchInv, MembersHeld, ProposalsOfMembers
    <3>2. MemberHeld(b, d)'
      BY <1>1, <1>2, <2>1, <2>2, <2>3, <3>1, BatchAssumption DEF MemberHeld
    <3>3. ProposalOfMember(b, d)'
      BY <1>1, <1>2, <2>3, <3>1 DEF ProposalOfMember
    <3> QED
      BY <3>2, <3>3
  <2> QED
    BY <2>4 DEF MembersHeld, ProposalsOfMembers
<1>5. HeldByOneBatch'
  BY <1>1, <1>2 DEF BatchInv, HeldByOneBatch
<1>6. ReconciledOnce' /\ SupersededHasSuccessor'
  <2>2. \A d \in Candidates : /\ Invalidated(d)' = Invalidated(d)
                              /\ Reconciled(d)' = Reconciled(d)
    BY <1>1 DEF Invalidated, Reconciled
  <2>1. ReconciledOnce'
    BY <1>1, <1>2, <2>2 DEF BatchInv, ReconciledOnce
  <2>3. ASSUME NEW d \in Candidates, NEW b \in Batches
        PROVE  Succession(b, d)'
    <3>1. Succession(b, d)
      BY DEF BatchInv, SupersededHasSuccessor
    <3> QED
      BY <1>1, <1>2, <3>1 DEF Succession
  <2>4. SupersededHasSuccessor'
    BY <2>2, <2>3 DEF BatchInv, SupersededHasSuccessor
  <2> QED
    BY <2>1, <2>4
<1>7. ClaimsInv'
  BY <1>1 DEF BatchInv, ClaimsInv, ClaimsDistinct, JudgedAfresh, PlansComplete, Step, Owns,
     Mine, Proposed
<1> QED
  BY <1>3, <1>4, <1>5, <1>6, <1>7 DEF RowsInv

LEMMA HeadSafe ==
    ASSUME BatchInv, NEW m \in Memories, ChangeHead(m)
    PROVE  RowsInv' /\ ClaimsInv'
<1>1. UNCHANGED <<cand, open, batch, prop, work>>
  BY DEF ChangeHead, candidateVars, proposalVars
<1>2. RowsInv'
  BY <1>1, RowsUnchanged DEF BatchInv, RowsInv
<1>3. ClaimsInv'
  BY <1>1 DEF BatchInv, ClaimsInv, ClaimsDistinct, JudgedAfresh, PlansComplete, Step, Owns,
     Mine, Proposed
<1> QED
  BY <1>2, <1>3

LEMMA ExpirySafe ==
    ASSUME BatchInv, NEW b \in Batches, LeaseRunsOut(b) \/ LeaseOverrun(b)
    PROVE  RowsInv' /\ ClaimsInv'
<1>1. UNCHANGED <<cand, open, prop, work>>
  BY DEF LeaseRunsOut, LeaseOverrun, candidateVars, proposalVars
<1>2. \A d \in Batches : /\ batch'[d].status = batch[d].status
                         /\ batch'[d].members = batch[d].members
                         /\ batch'[d].attempts = batch[d].attempts
                         /\ batch'[d].holder = batch[d].holder
                         /\ batch'[d].lease = "live" => batch[d].lease = "live"
  BY DEF LeaseRunsOut, LeaseOverrun, Expire, BatchInv, TypeOK, BatchRow
<1>3. StatusesInOrder' /\ ActiveIffHeld' /\ HeldByOneBatch'
  BY <1>1, <1>2 DEF BatchInv, StatusesInOrder, ActiveIffHeld, HeldByOneBatch, InRun
<1>4. MembersHeld' /\ ProposalsOfMembers'
  <2>1. \A d \in Batches : Underway(d)' <=> Underway(d)
    BY <1>2 DEF Underway
  <2>2. \A c \in Candidates : Invalidated(c)' = Invalidated(c)
    BY <1>1 DEF Invalidated
  <2>3. ASSUME NEW x \in Batches, NEW c \in Candidates
        PROVE  MemberHeld(x, c)' /\ ProposalOfMember(x, c)'
    <3>1. MemberHeld(x, c) /\ ProposalOfMember(x, c)
      BY DEF BatchInv, MembersHeld, ProposalsOfMembers
    <3>2. MemberHeld(x, c)'
      BY <1>1, <1>2, <2>1, <3>1 DEF MemberHeld
    <3>3. ProposalOfMember(x, c)'
      BY <1>1, <1>2, <2>1, <2>2, <3>1 DEF ProposalOfMember
    <3> QED
      BY <3>2, <3>3
  <2> QED
    BY <2>3 DEF MembersHeld, ProposalsOfMembers
<1>5. ReconciledOnce' /\ SupersededHasSuccessor'
  BY <1>1, DecidedUnchanged DEF BatchInv
<1>6. ClaimsInv'
  <2>1. /\ \A v \in Workers : work[v] # Idle => work[v].batch \in Batches
        /\ \A d \in Batches : Proposed(d)' = Proposed(d)
    BY <1>1, ClaimTyped DEF BatchInv, Proposed
  <2>2. \A v \in Workers : work[v] # Idle => (Owns(v)' <=> Owns(v))
    BY <1>1, <1>2, <2>1 DEF Owns, Mine
  <2>3. ClaimsDistinct'
    BY <1>1, <1>2, <2>1 DEF BatchInv, ClaimsDistinct, Mine
  <2>4. JudgedAfresh' /\ PlansComplete'
    BY <1>1, <2>1, <2>2 DEF BatchInv, JudgedAfresh, PlansComplete, Step
  <2> QED
    BY <2>3, <2>4 DEF ClaimsInv
<1> QED
  BY <1>3, <1>4, <1>5, <1>6 DEF RowsInv

LEMMA RequestSafe ==
    ASSUME BatchInv, NEW b \in Batches, RequestBatch(b)
    PROVE  RowsInv' /\ ClaimsInv'
<1>1. batch[b].status = "none" /\ UNCHANGED <<prop, work>>
  BY DEF RequestBatch, proposalVars
<1>2. /\ batch'[b].status = "pending" /\ batch'[b].members = Ready
      /\ batch'[b].lease = "none" /\ batch'[b].holder = "none" /\ batch'[b].attempts = 0
      /\ \A x \in Batches : x # b => batch'[x] = batch[x]
  BY DEF RequestBatch, BatchInv, TypeOK
<1>3. \A c \in Candidates :
        IF c \in Ready THEN cand'[c].status = "processing" /\ cand'[c].batch = b
        ELSE cand'[c] = cand[c]
  BY DEF RequestBatch
<1>4. \A c \in Ready : /\ cand[c].batch = NoBatch
                       /\ cand[c].status \in {"pending", "retry"}
  BY DEF RequestBatch, Ready, Free, Waiting
<1>5. \A x \in Batches, c \in Candidates :
        <<x, c>> \in open' <=> <<x, c>> \in open \/ (x = b /\ c \in Ready)
  BY DEF RequestBatch
<1>6. Ready \subseteq Candidates
  BY DEF Ready
<1>7. /\ batch[b].members = {} /\ \A c \in Candidates : prop[<<b, c>>].status = "none"
      /\ \A c \in Candidates : cand[c].batch # b
      /\ \A v \in Workers : work[v] # Idle => work[v].batch # b
  <2>1. batch[b].members = {} /\ \A c \in Candidates : prop[<<b, c>>].status = "none"
    BY <1>1 DEF BatchInv, StatusesInOrder
  <2>2. \A c \in Candidates : cand[c].batch # b
    BY <2>1 DEF BatchInv, MembersHeld, MemberHeld
  <2>3. \A v \in Workers : work[v] # Idle => work[v].batch # b
    BY <1>1 DEF BatchInv, ClaimsDistinct, Mine
  <2> QED
    BY <2>1, <2>2, <2>3
<1>8. /\ \A x \in Batches : x # b => (Underway(x)' <=> Underway(x)) /\ (InRun(x)' <=> InRun(x))
      /\ Underway(b)' /\ ~Underway(b)
      /\ \A c \in Candidates : /\ Invalidated(c)' = Invalidated(c)
                               /\ Reconciled(c)' = Reconciled(c)
  BY <1>1, <1>2 DEF Underway, InRun, Invalidated, Reconciled
<1>9. StatusesInOrder'
  BY <1>1, <1>2, <1>8 DEF BatchInv, StatusesInOrder
<1>10. ActiveIffHeld'
  BY <1>3, BatchAssumption DEF BatchInv, ActiveIffHeld
<1>11. ASSUME NEW x \in Batches, NEW c \in Candidates
       PROVE  MemberHeld(x, c)' /\ ProposalOfMember(x, c)'
  <2>1. MemberHeld(x, c) /\ ProposalOfMember(x, c)
    BY DEF BatchInv, MembersHeld, ProposalsOfMembers
  <2>2. MemberHeld(x, c)'
    BY <1>1, <1>2, <1>3, <1>4, <1>7, <1>8, <2>1, BatchAssumption DEF MemberHeld
  <2>3. ProposalOfMember(x, c)'
    BY <1>1, <1>2, <1>3, <1>4, <1>7, <1>8, <2>1, BatchAssumption DEF ProposalOfMember
  <2> QED
    BY <2>2, <2>3
<1>12. HeldByOneBatch'
  <2>1. \A c \in Candidates : cand'[c].batch \in Batches \cup {NoBatch}
    BY <1>3 DEF BatchInv, TypeOK
  <2>2. \A c \in Candidates, x \in Batches : <<x, c>> \in open <=> cand[c].batch = x
    BY HeldRows
  <2>3. \A c \in Candidates, x \in Batches : <<x, c>> \in open' <=> cand'[c].batch = x
    <3> SUFFICES ASSUME NEW c \in Candidates, NEW x \in Batches
                 PROVE  <<x, c>> \in open' <=> cand'[c].batch = x
      OBVIOUS
    <3>1. CASE c \in Ready
      BY <1>3, <1>4, <1>5, <2>2, <3>1, BatchAssumption
    <3>2. CASE c \notin Ready
      BY <1>3, <1>5, <2>2, <3>2
    <3> QED
      BY <3>1, <3>2
  <2> QED
    <3> SUFFICES ASSUME NEW c \in Candidates
                 PROVE  {x \in Batches : <<x, c>> \in open'} = {cand'[c].batch} \ {NoBatch}
      BY DEF HeldByOneBatch
    <3> QED
      BY <2>1, <2>3, BatchAssumption
<1>13. ReconciledOnce'
  BY <1>3, <1>4, <1>8 DEF BatchInv, ReconciledOnce
<1>14. SupersededHasSuccessor'
  <2>1. ASSUME NEW x \in Batches, NEW c \in Candidates
        PROVE  Succession(x, c)'
    <3>1. Succession(x, c)
      BY DEF BatchInv, SupersededHasSuccessor
    <3> QED
      BY <1>1, <1>3, <3>1 DEF Succession
  <2> QED
    BY <1>8, <2>1 DEF BatchInv, SupersededHasSuccessor
<1>15. ClaimsInv'
  <2>1. /\ \A v \in Workers : work[v] # Idle => work[v].batch \in Batches
        /\ \A x \in Batches : Proposed(x)' = Proposed(x)
    BY <1>1, ClaimTyped DEF BatchInv, Proposed
  <2>2. \A v \in Workers : work[v] # Idle => (Owns(v)' <=> Owns(v)) /\ Mine(v)' = Mine(v)
    BY <1>1, <1>2, <1>7, <2>1 DEF Owns, Mine
  <2>3. ClaimsDistinct'
    BY <1>1, <2>2 DEF BatchInv, ClaimsDistinct
  <2>4. JudgedAfresh' /\ PlansComplete'
    BY <1>1, <2>1, <2>2 DEF BatchInv, JudgedAfresh, PlansComplete, Step
  <2> QED
    BY <2>3, <2>4 DEF ClaimsInv
<1> QED
  BY <1>9, <1>10, <1>11, <1>12, <1>13, <1>14, <1>15
  DEF RowsInv, MembersHeld, ProposalsOfMembers

LEMMA ClaimSafe ==
    ASSUME BatchInv, NEW w \in Workers, ClaimNext(w)
    PROVE  RowsInv' /\ ClaimsInv'
<1>1. PICK b \in Batches : /\ Claimable(b)
                           /\ batch' = [batch EXCEPT ![b] = Leased(batch[b])]
                           /\ work' = [work EXCEPT ![w] = ClaimOf(b)]
  BY DEF ClaimNext
<1>2. work[w] = Idle /\ UNCHANGED <<cand, open, prop>>
  BY DEF ClaimNext, candidateVars, proposalVars
<1>3. /\ batch[b] \in BatchRow
      /\ batch[b].status \in {"pending", "retry", "running", "proposed"}
  BY <1>1 DEF Claimable, Waiting, BatchInv, TypeOK
<1>4. /\ batch'[b].status = IF batch[b].status = "proposed" THEN "proposed" ELSE "running"
      /\ batch'[b].members = batch[b].members
      /\ batch'[b].attempts = batch[b].attempts + 1
      /\ \A x \in Batches : x # b => batch'[x] = batch[x]
  BY <1>1 DEF Leased, BatchInv, TypeOK
<1>5. /\ work'[w] # Idle /\ work'[w].phase = "claimed" /\ work'[w].batch = b
      /\ work'[w].attempt = batch[b].attempts + 1
      /\ \A v \in Workers : v # w => work'[v] = work[v]
  <2>1. ClaimOf(b) # Idle
    BY DEF ClaimOf, Idle
  <2> QED
    BY <1>1, <2>1 DEF ClaimOf, BatchInv, TypeOK
<1>6. /\ \A x \in Batches : /\ Underway(x)' <=> Underway(x)
                            /\ x # b => (InRun(x)' <=> InRun(x))
                            /\ Proposed(x)' = Proposed(x)
      /\ InRun(b)'
      /\ \A c \in Candidates : Invalidated(c)' = Invalidated(c)
  BY <1>2, <1>3, <1>4 DEF Underway, InRun, Invalidated, Proposed
<1>7. StatusesInOrder'
  BY <1>2, <1>3, <1>4, <1>6 DEF BatchInv, StatusesInOrder
<1>8. ActiveIffHeld' /\ HeldByOneBatch'
  BY <1>2 DEF BatchInv, ActiveIffHeld, HeldByOneBatch
<1>9. ASSUME NEW x \in Batches, NEW c \in Candidates
      PROVE  MemberHeld(x, c)' /\ ProposalOfMember(x, c)'
  <2>1. MemberHeld(x, c) /\ ProposalOfMember(x, c)
    BY DEF BatchInv, MembersHeld, ProposalsOfMembers
  <2>2. MemberHeld(x, c)'
    BY <1>2, <1>3, <1>4, <1>6, <2>1 DEF MemberHeld
  <2>3. ProposalOfMember(x, c)'
    BY <1>2, <1>4, <1>6, <2>1 DEF ProposalOfMember
  <2> QED
    BY <2>2, <2>3
<1>10. ReconciledOnce' /\ SupersededHasSuccessor'
  BY <1>2, DecidedUnchanged DEF BatchInv
<1>11. ClaimsInv'
  <2>1. \A v \in Workers : work[v] # Idle =>
            /\ work[v].batch \in Batches /\ work[v].attempt \in Nat
            /\ work[v].attempt <= batch[work[v].batch].attempts
            /\ batch[work[v].batch].status # "none"
    BY ClaimTyped DEF BatchInv, ClaimsDistinct, Mine, Claims
  <2>2. \A x \in Batches : batch[x].attempts \in Nat
    BY DEF BatchInv, TypeOK, BatchRow
  <2>3. ClaimsDistinct'
    BY <1>3, <1>4, <1>5, <2>1, <2>2 DEF BatchInv, ClaimsDistinct, Mine
  <2>4. \A v \in Workers : v # w /\ work'[v] # Idle /\ Owns(v)' => Owns(v)
    BY <1>4, <1>5, <2>1, <2>2 DEF Owns, Mine
  <2>5. JudgedAfresh' /\ PlansComplete'
    BY <1>5, <1>6, <2>1, <2>4 DEF BatchInv, JudgedAfresh, PlansComplete, Step
  <2> QED
    BY <2>3, <2>5 DEF ClaimsInv
<1> QED
  BY <1>7, <1>8, <1>9, <1>10, <1>11 DEF RowsInv, MembersHeld, ProposalsOfMembers

\* What a batch that is underway holds: its members, processing, each with
\* nothing decided yet, and proposed nowhere else.
LEMMA InHands ==
    ASSUME BatchInv, NEW b \in Batches, Underway(b)
    PROVE  /\ batch[b].members \subseteq Candidates
           /\ \A c \in Candidates :
                /\ cand[c].batch = b <=> c \in batch[b].members
                /\ c \in batch[b].members => cand[c].status = "processing"
                /\ prop[<<b, c>>].status \in {"none", "proposed"}
                /\ c \notin batch[b].members => prop[<<b, c>>].status = "none"
                /\ prop[<<b, c>>].status = "none" => prop[<<b, c>>].pred = NoBatch
                /\ prop[<<b, c>>].status = "proposed" =>
                      /\ Invalidated(c) = {}
                      /\ \A x \in Batches : prop[<<x, c>>].status = "proposed" => x = b
<1>1. batch[b].members \subseteq Candidates
  BY DEF BatchInv, TypeOK, BatchRow
<1>2. \A x \in Batches, c \in Candidates : MemberHeld(x, c) /\ ProposalOfMember(x, c)
  BY DEF BatchInv, MembersHeld, ProposalsOfMembers
<1>3. \A x \in Batches, c \in Candidates :
        prop[<<x, c>>].status = "proposed" => cand[c].batch = x
  BY <1>2 DEF MemberHeld, ProposalOfMember
<1> QED
  BY <1>1, <1>2, <1>3 DEF MemberHeld, ProposalOfMember

LEMMA FailSafe ==
    ASSUME BatchInv, NEW w \in Workers, Fail(w)
    PROVE  RowsInv' /\ ClaimsInv'
<1> DEFINE b == work[w].batch
<1>1. /\ work[w] # Idle /\ work[w] \in Claims /\ b \in Batches
      /\ UNCHANGED <<cand, open, prop>>
  BY ClaimTyped DEF Fail, Step, BatchInv, candidateVars, proposalVars
<1>2. CASE batch' = batch
  <2>1. RowsInv'
    BY <1>1, <1>2, RowsUnchanged DEF BatchInv, RowsInv
  <2>2. work'[w] = Idle /\ \A v \in Workers : v # w => work'[v] = work[v]
    BY DEF Fail, Leave, BatchInv, TypeOK
  <2>3. \A x \in Batches : Proposed(x)' = Proposed(x)
    BY <1>1 DEF Proposed
  <2>4. ClaimsInv'
    BY <1>1, <1>2, <2>2, <2>3, ClaimsKept
  <2> QED
    BY <2>1, <2>4
<1>3. CASE Owns(w) /\ InRun(b) /\ batch' = [batch EXCEPT ![b] = Freed(batch[b], work[w].verdict)]
  <2>1. work[w].verdict \in {"retry", "blocked"}
    BY <1>1 DEF Fail, Step, BatchInv, TypeOK, Decided, Claims
  <2>2. /\ batch'[b].status \in {"retry", "blocked"} /\ batch'[b].lease = "none"
        /\ batch'[b].holder = "none" /\ batch'[b].attempts = batch[b].attempts
        /\ batch'[b].members = batch[b].members
        /\ \A x \in Batches : x # b => batch'[x] = batch[x]
    BY <1>1, <1>3, <2>1 DEF Freed, BatchInv, TypeOK
  <2>3. /\ \A x \in Batches : /\ Underway(x)' <=> Underway(x)
                              /\ x # b => (InRun(x)' <=> InRun(x))
                              /\ Proposed(x)' = Proposed(x)
        /\ \A c \in Candidates : Invalidated(c)' = Invalidated(c)
    BY <1>1, <1>3, <2>2 DEF Underway, InRun, Invalidated, Proposed
  <2>4. StatusesInOrder'
    BY <1>1, <2>2, <2>3 DEF BatchInv, StatusesInOrder
  <2>5. ActiveIffHeld' /\ HeldByOneBatch'
    BY <1>1 DEF BatchInv, ActiveIffHeld, HeldByOneBatch
  <2>6. ASSUME NEW x \in Batches, NEW c \in Candidates
        PROVE  MemberHeld(x, c)' /\ ProposalOfMember(x, c)'
    <3>1. MemberHeld(x, c) /\ ProposalOfMember(x, c)
      BY DEF BatchInv, MembersHeld, ProposalsOfMembers
    <3>2. MemberHeld(x, c)'
      BY <1>1, <1>3, <2>2, <2>3, <3>1 DEF MemberHeld, InRun
    <3>3. ProposalOfMember(x, c)'
      BY <1>1, <2>2, <2>3, <3>1 DEF ProposalOfMember
    <3> QED
      BY <3>2, <3>3
  <2>7. ReconciledOnce' /\ SupersededHasSuccessor'
    BY <1>1, DecidedUnchanged DEF BatchInv
  <2>8. RowsInv'
    BY <2>4, <2>5, <2>6, <2>7 DEF RowsInv, MembersHeld, ProposalsOfMembers
  <2>9. work'[w] = Idle /\ \A v \in Workers : v # w => work'[v] = work[v]
    BY DEF Fail, Leave, BatchInv, TypeOK
  <2>10. ClaimsInv'
    BY <1>1, <2>2, <2>3, <2>9, ClaimsKept
  <2> QED
    BY <2>8, <2>10
<1> QED
  BY <1>2, <1>3 DEF Fail

\* The transaction of a worker that lost its claim, or whose plan was refused.
LEMMA NothingWritten ==
    ASSUME BatchInv, NEW w \in Workers, work[w] # Idle,
           Leave(w) \/ \E v \in {"retry", "blocked"} : Decide(w, v),
           UNCHANGED <<cand, open, batch, prop>>
    PROVE  RowsInv' /\ ClaimsInv'
<1>1. RowsInv'
  BY RowsUnchanged DEF BatchInv, RowsInv
<1>2. work[w] \in Claims /\ work[w].batch \in Batches
  BY ClaimTyped DEF BatchInv
<1>3. /\ \A v \in Workers : v # w => work'[v] = work[v]
      /\ \/ work'[w] = Idle
         \/ /\ work'[w].batch = work[w].batch /\ work'[w].attempt = work[w].attempt
            /\ work'[w].phase = "failing"
  BY <1>2 DEF Leave, Decide, Claims, BatchInv, TypeOK
<1>4. \A x \in Batches : Proposed(x)' = Proposed(x)
  BY DEF Proposed
<1>5. ClaimsInv'
  BY <1>2, <1>3, <1>4, ClaimsKept DEF Step
<1> QED
  BY <1>1, <1>5

\* The predecessor of a proposal is the one invalidated proposal, if any.
LEMMA PredecessorIs ==
    ASSUME BatchInv, NEW c \in Candidates
    PROVE  \A x \in Batches : x = Predecessor(c) <=> prop[<<x, c>>].status = "invalidated"
<1>1. CASE Invalidated(c) = {}
  <2>1. Predecessor(c) = NoBatch /\ \A x \in Batches : prop[<<x, c>>].status # "invalidated"
    BY <1>1 DEF Predecessor, Invalidated
  <2> QED
    BY <2>1, BatchAssumption
<1>2. CASE Invalidated(c) # {}
  <2>1. Predecessor(c) \in Invalidated(c) /\ Predecessor(c) \in Batches
    BY <1>2 DEF Predecessor, Invalidated
  <2>2. \A x, y \in Invalidated(c) : x = y
    BY DEF BatchInv, SupersededHasSuccessor
  <2> QED
    BY <2>1, <2>2 DEF Invalidated
<1> QED
  BY <1>1, <1>2

LEMMA PersistSafe ==
    ASSUME BatchInv, NEW w \in Workers, Persist(w)
    PROVE  RowsInv' /\ ClaimsInv'
<1> DEFINE b == work[w].batch
           members == batch[b].members
<1>1. /\ work[w] # Idle /\ work[w] \in Claims /\ b \in Batches
      /\ UNCHANGED <<cand, open>>
  BY ClaimTyped DEF Persist, Step, BatchInv, candidateVars
<1>2. CASE ~ValidClaim(w)
  BY <1>1, <1>2, NothingWritten DEF Persist
<1>3. CASE ValidClaim(w)
  <2>1. batch[b].status = "running" /\ Owns(w) /\ Proposed(b) = {}
    BY <1>1, <1>3 DEF ValidClaim, Mine, Persist, BatchInv, JudgedAfresh
  <2>2. /\ batch'[b].status = "proposed" /\ batch'[b].members = members
        /\ batch'[b].holder = batch[b].holder /\ batch'[b].attempts = batch[b].attempts
        /\ batch'[b].lease = batch[b].lease
        /\ \A x \in Batches : x # b => batch'[x] = batch[x]
    BY <1>1, <1>3 DEF Persist, BatchInv, TypeOK, BatchRow
  <2>3. /\ work'[w].phase = "persisted" /\ work'[w].batch = b
        /\ work'[w].attempt = work[w].attempt
        /\ \A v \in Workers : v # w => work'[v] = work[v]
    BY <1>1, <1>3 DEF Persist, Go, BatchInv, TypeOK, Claims
  <2>4. PICK answer \in [members -> Delta] :
          prop' = [p \in Pairs |->
                      IF p[1] = b /\ p[2] \in members
                      THEN [status |-> "proposed", delta |-> answer[p[2]],
                            pred |-> Predecessor(p[2])]
                      ELSE IF p[2] \in members /\ p[1] = Predecessor(p[2])
                      THEN [prop[p] EXCEPT !.status = "superseded"]
                      ELSE prop[p]]
    BY <1>3 DEF Persist, Input
  <2>5. \A x \in Batches, c \in Candidates :
          /\ x = b /\ c \in members =>
                prop'[<<x, c>>].status = "proposed" /\ prop'[<<x, c>>].pred = Predecessor(c)
          /\ x # b /\ c \in members /\ x = Predecessor(c) =>
                /\ prop'[<<x, c>>].status = "superseded"
                /\ prop'[<<x, c>>].pred = prop[<<x, c>>].pred
          /\ ~(x = b /\ c \in members) /\ ~(c \in members /\ x = Predecessor(c)) =>
                prop'[<<x, c>>] = prop[<<x, c>>]
    <3> SUFFICES ASSUME NEW x \in Batches, NEW c \in Candidates
                 PROVE  <2>5!(x, c)
      OBVIOUS
    <3>1. <<x, c>> \in Pairs /\ <<x, c>>[1] = x /\ <<x, c>>[2] = c
      BY PairParts
    <3>2. prop[<<x, c>>] \in ProposalRow
      BY <3>1 DEF BatchInv, TypeOK
    <3> QED
      BY <2>4, <3>1, <3>2 DEF ProposalRow
  <2>6. Underway(b) /\ InRun(b)
    BY <2>1 DEF Underway, InRun
  <2>7. /\ members \subseteq Candidates
        /\ \A c \in members : /\ cand[c].batch = b /\ cand[c].status = "processing"
                              /\ prop[<<b, c>>].status = "none"
                              /\ prop[<<b, c>>].pred = NoBatch
    BY <1>1, <2>1, <2>6, InHands DEF Proposed
  <2>8. \A c \in Candidates : /\ Reconciled(c)' = Reconciled(c)
                              /\ c \in members => Invalidated(c)' = {}
                              /\ c \notin members => Invalidated(c)' = Invalidated(c)
    <3> SUFFICES ASSUME NEW c \in Candidates
                 PROVE  /\ Reconciled(c)' = Reconciled(c)
                        /\ c \in members => Invalidated(c)' = {}
                        /\ c \notin members => Invalidated(c)' = Invalidated(c)
      OBVIOUS
    <3>1. CASE c \in members
      <4>1. \A x \in Batches :
              /\ prop'[<<x, c>>].status # "invalidated"
              /\ prop'[<<x, c>>].status \in {"committed", "no_change"}
                    <=> prop[<<x, c>>].status \in {"committed", "no_change"}
        BY <1>1, <2>5, <2>7, <3>1, PredecessorIs
      <4> QED
        BY <3>1, <4>1 DEF Reconciled, Invalidated
    <3>2. CASE c \notin members
      BY <1>1, <2>5, <3>2 DEF Reconciled, Invalidated
    <3> QED
      BY <3>1, <3>2
  <2>9. \A x \in Batches : /\ Underway(x)' <=> Underway(x)
                           /\ InRun(x)' <=> InRun(x)
    BY <2>1, <2>2 DEF Underway, InRun
  <2>10. \A x \in Batches : x # b => Proposed(x)' = Proposed(x)
    <3> SUFFICES ASSUME NEW x \in Batches, x # b, NEW c \in Candidates
                 PROVE  prop'[<<x, c>>].status = "proposed" <=> prop[<<x, c>>].status = "proposed"
      BY DEF Proposed
    <3> QED
      BY <2>5, <2>7, PredecessorIs
  <2>11. StatusesInOrder' /\ ActiveIffHeld' /\ HeldByOneBatch'
    <3>1. ASSUME NEW x \in Batches, batch'[x].status = "none", NEW c \in Candidates
          PROVE  prop'[<<x, c>>].status = "none"
      <4>1. x # b /\ batch[x].status = "none" /\ prop[<<x, c>>].status = "none"
        BY <2>2, <3>1 DEF BatchInv, StatusesInOrder
      <4> QED
        BY <2>5, <4>1, PredecessorIs
    <3>2. StatusesInOrder'
      BY <2>2, <2>6, <2>9, <3>1 DEF BatchInv, StatusesInOrder
    <3> QED
      BY <1>1, <3>2 DEF BatchInv, ActiveIffHeld, HeldByOneBatch
  <2>12. ASSUME NEW x \in Batches, NEW c \in Candidates
         PROVE  MemberHeld(x, c)' /\ ProposalOfMember(x, c)' /\ Succession(x, c)'
    <3>1. MemberHeld(x, c) /\ ProposalOfMember(x, c) /\ Succession(x, c)
      BY DEF BatchInv, MembersHeld, ProposalsOfMembers, SupersededHasSuccessor
    <3>2. MemberHeld(x, c)'
      <4>1. cand[c].batch = x /\ cand[c].status = "awaiting_review" => c \notin members
        BY <2>7
      <4> QED
        BY <1>1, <2>1, <2>2, <2>5, <2>9, <3>1, <4>1 DEF MemberHeld
    <3>3. ProposalOfMember(x, c)'
      <4>1. CASE x = b
        BY <1>1, <2>2, <2>5, <2>6, <2>7, <2>8, <2>9, <3>1, <4>1, InHands,
           PredecessorIs DEF ProposalOfMember, Invalidated
      <4>2. CASE x # b /\ c \in members /\ x = Predecessor(c)
        <5>1. prop[<<x, c>>].status = "invalidated"
          BY <4>2, PredecessorIs
        <5> QED
          BY <1>1, <2>2, <2>5, <2>9, <3>1, <4>2, <5>1 DEF ProposalOfMember
      <4>3. CASE x # b /\ ~(c \in members /\ x = Predecessor(c))
        BY <1>1, <2>2, <2>5, <2>8, <2>9, <3>1, <4>3 DEF ProposalOfMember
      <4> QED
        BY <4>1, <4>2, <4>3
    <3>4. Succession(x, c)'
      <4>1. CASE c \notin members
        <5>1. \A y \in Batches : prop'[<<y, c>>] = prop[<<y, c>>]
          BY <2>5, <4>1
        <5> QED
          BY <1>1, <3>1, <5>1 DEF Succession
      <4>2. CASE c \in members
        <5>1. /\ prop'[<<b, c>>].status = "proposed"
              /\ prop'[<<b, c>>].pred = Predecessor(c)
              /\ prop[<<b, c>>].status = "none" /\ prop[<<b, c>>].pred = NoBatch
          BY <1>1, <2>5, <2>7, <4>2
        <5>2. \A y \in Batches : y # b => prop'[<<y, c>>].pred = prop[<<y, c>>].pred
          BY <2>5, <4>2
        <5>3. (\E d \in Batches : prop'[<<d, c>>].pred = x)
                <=> x = Predecessor(c) \/ \E d \in Batches : prop[<<d, c>>].pred = x
          BY <1>1, <5>1, <5>2, BatchAssumption
        <5>4. prop'[<<x, c>>].status = "superseded"
                <=> x = Predecessor(c) \/ prop[<<x, c>>].status = "superseded"
          <6>1. b # Predecessor(c)
            BY <5>1, <1>1, PredecessorIs
          <6> QED
            BY <2>5, <4>2, <5>1, <6>1
        <5>5. prop'[<<x, c>>].status # "invalidated"
          BY <2>8, <4>2 DEF Invalidated
        <5> QED
          BY <3>1, <5>3, <5>4, <5>5 DEF Succession
      <4> QED
        BY <4>1, <4>2
    <3> QED
      BY <3>2, <3>3, <3>4
  <2>13. ReconciledOnce'
    BY <1>1, <2>8 DEF BatchInv, ReconciledOnce
  <2>14. SupersededHasSuccessor'
    BY <2>8, <2>12 DEF BatchInv, SupersededHasSuccessor
  <2>15. RowsInv'
    BY <2>11, <2>12, <2>13, <2>14 DEF RowsInv, MembersHeld, ProposalsOfMembers
  <2>16. ClaimsInv'
    BY <1>1, <2>1, <2>2, <2>3, <2>10, ClaimsKept DEF Step
  <2> QED
    BY <2>15, <2>16
<1> QED
  BY <1>2, <1>3

\* The row of a batch that its holder lets go.
LEMMA FreedRow ==
    ASSUME BatchInv, NEW b \in Batches, NEW s,
           batch' = [batch EXCEPT ![b] = Freed(batch[b], s)]
    PROVE  /\ batch'[b].status = s /\ batch'[b].lease = "none" /\ batch'[b].holder = "none"
           /\ batch'[b].attempts = batch[b].attempts /\ batch'[b].members = batch[b].members
           /\ \A x \in Batches : x # b => batch'[x] = batch[x]
  BY DEF Freed, BatchInv, TypeOK

\* The holder lets its batch go: settled, or to the reviewers.
LEMMA LetsGo ==
    ASSUME BatchInv, NEW w \in Workers, work[w] # Idle, Owns(w), Leave(w),
           NEW b \in Batches, b = work[w].batch, InRun(b),
           batch'[b].status \in {"settled", "awaiting_review"},
           batch'[b].lease = "none", batch'[b].holder = "none",
           batch'[b].attempts = batch[b].attempts, batch'[b].members = batch[b].members,
           \A x \in Batches : x # b => batch'[x] = batch[x],
           \A x \in Batches, c \in Candidates : x # b => prop'[<<x, c>>] = prop[<<x, c>>]
    PROVE  /\ ClaimsInv' /\ StatusesInOrder'
           /\ ~Underway(b)'
           /\ \A x \in Batches : x # b => (Underway(x)' <=> Underway(x))
<1>1. work[w] \in Claims
  BY ClaimTyped DEF BatchInv
<1>2. ~Underway(b)'
  BY DEF Underway
<1>3. \A x \in Batches : x # b => (Underway(x)' <=> Underway(x)) /\ (InRun(x)' <=> InRun(x))
  BY DEF Underway, InRun
<1>4. StatusesInOrder'
  BY <1>3 DEF BatchInv, StatusesInOrder
<1>5. work'[w] = Idle /\ \A v \in Workers : v # w => work'[v] = work[v]
  BY DEF Leave, BatchInv, TypeOK
<1>6. \A x \in Batches : Proposed(x)' # Proposed(x) => x = b /\ Owns(w)
  BY DEF Proposed
<1>7. ClaimsInv'
  <2>1. \A x \in Batches :
           /\ batch'[x].attempts = batch[x].attempts
           /\ batch'[x].status = "none" => batch[x].status = "none"
           /\ batch'[x].holder = "worker" => batch[x].holder = "worker"
    OBVIOUS
  <2> QED
    BY <1>1, <1>5, <1>6, <2>1, ClaimsKept
<1> QED
  BY <1>2, <1>3, <1>4, <1>7

\* The members of a batch that is let go leave its hands or wait for a reviewer.
LEMMA HandsOpen ==
    ASSUME BatchInv, NEW b \in Batches, Underway(b), ~Underway(b)',
           batch'[b].members = batch[b].members,
           \A x \in Batches : x # b => batch'[x] = batch[x] /\ (Underway(x)' <=> Underway(x)),
           \A c \in batch[b].members :
               \/ /\ cand'[c].batch = NoBatch /\ <<b, c>> \notin open'
                  /\ cand'[c].status \in {"quarantined", "retry", "settled"}
               \/ /\ cand'[c].batch = b /\ <<b, c>> \in open'
                  /\ cand'[c].status = "awaiting_review"
                  /\ prop'[<<b, c>>].status = "awaiting_review"
                  /\ batch'[b].status = "awaiting_review",
           \A c \in Candidates : c \notin batch[b].members =>
               cand'[c] = cand[c] /\ <<b, c>> \notin open',
           \A x \in Batches, c \in Candidates : x # b =>
               /\ prop'[<<x, c>>] = prop[<<x, c>>]
               /\ <<x, c>> \in open' <=> <<x, c>> \in open
    PROVE  ActiveIffHeld' /\ MembersHeld' /\ HeldByOneBatch'
<1> DEFINE members == batch[b].members
           K == {c \in members : cand'[c].batch = b}
<1>1. /\ members \subseteq Candidates
      /\ \A c \in Candidates : cand[c].batch = b <=> c \in members
  BY InHands
<1>5. \A c \in members :
        /\ c \notin K => /\ cand'[c].batch = NoBatch /\ <<b, c>> \notin open'
                        /\ cand'[c].status \in {"quarantined", "retry", "settled"}
        /\ c \in K => /\ cand'[c].batch = b /\ <<b, c>> \in open'
                      /\ cand'[c].status = "awaiting_review"
                      /\ prop'[<<b, c>>].status = "awaiting_review"
                      /\ batch'[b].status = "awaiting_review"
  BY BatchAssumption
<1>6. \A c \in K : c \in members
  OBVIOUS
<1> HIDE DEF K
<1>2. ActiveIffHeld'
  <2> SUFFICES ASSUME NEW c \in Candidates
               PROVE  cand'[c].batch # NoBatch
                        <=> cand'[c].status \in {"processing", "awaiting_review"}
    BY DEF ActiveIffHeld
  <2>1. CASE c \in K
    <3>1. cand'[c].batch = b /\ cand'[c].status = "awaiting_review"
      BY <1>5, <1>6, <2>1
    <3> QED
      BY <3>1, BatchAssumption
  <2>2. CASE c \in members /\ c \notin K
    BY <1>5, <2>2
  <2>3. CASE c \notin members
    BY <2>3 DEF BatchInv, ActiveIffHeld
  <2> QED
    BY <2>1, <2>2, <2>3
<1>3. ASSUME NEW x \in Batches, NEW c \in Candidates
      PROVE  MemberHeld(x, c)'
  <2>1. MemberHeld(x, c)
    BY DEF BatchInv, MembersHeld
  <2>2. CASE c \in K
    <3>1. cand[c].batch = b /\ c \in members
      BY <1>1, <1>6, <2>2
    <3>2. CASE x = b
      BY <1>5, <2>2, <3>1, <3>2 DEF MemberHeld
    <3>3. CASE x # b
      BY <1>5, <2>1, <2>2, <3>1, <3>3 DEF MemberHeld
    <3> QED
      BY <3>2, <3>3
  <2>3. CASE c \in members /\ c \notin K
    <3>1. cand[c].batch = b /\ cand'[c].batch = NoBatch
      BY <1>1, <1>5, <2>3
    <3>2. CASE x = b
      BY <2>3, <3>1, <3>2, BatchAssumption DEF MemberHeld
    <3>3. CASE x # b
      BY <2>1, <2>3, <3>1, <3>3, BatchAssumption DEF MemberHeld
    <3> QED
      BY <3>2, <3>3
  <2>4. CASE c \notin members
    <3>1. cand[c].batch # b /\ cand'[c] = cand[c]
      BY <1>1, <2>4
    <3>2. CASE x = b
      BY <2>4, <3>1, <3>2 DEF MemberHeld
    <3>3. CASE x # b
      BY <2>1, <3>1, <3>3 DEF MemberHeld
    <3> QED
      BY <3>2, <3>3
  <2> QED
    BY <2>2, <2>3, <2>4
<1>4. ASSUME NEW c \in Candidates
      PROVE  {x \in Batches : <<x, c>> \in open'} = {cand'[c].batch} \ {NoBatch}
  <2>1. \A x \in Batches : <<x, c>> \in open <=> cand[c].batch = x
    BY HeldRows
  <2>2. cand[c].batch \in Batches \cup {NoBatch}
    BY DEF BatchInv, TypeOK
  <2>3. CASE c \in K
    <3>1. \A x \in Batches : <<x, c>> \in open' <=> x = b
      BY <1>1, <1>5, <1>6, <2>1, <2>3
    <3>2. cand'[c].batch = b
      BY <1>5, <1>6, <2>3
    <3> QED
      BY <3>1, <3>2, BatchAssumption
  <2>4. CASE c \in members /\ c \notin K
    <3>1. \A x \in Batches : <<x, c>> \notin open'
      BY <1>1, <1>5, <2>1, <2>4
    <3> QED
      BY <1>5, <2>4, <3>1
  <2>5. CASE c \notin members
    <3>1. cand'[c] = cand[c] /\ <<b, c>> \notin open' /\ cand[c].batch # b
      BY <1>1, <2>5
    <3>2. \A x \in Batches : <<x, c>> \in open' <=> cand[c].batch = x
      BY <2>1, <3>1
    <3> QED
      BY <2>2, <3>1, <3>2, BatchAssumption
  <2> QED
    BY <2>3, <2>4, <2>5
<1> QED
  BY <1>2, <1>3, <1>4 DEF MembersHeld, HeldByOneBatch

LEMMA RejectedSafe ==
    ASSUME BatchInv, NEW w \in Workers, PersistRejected(w)
    PROVE  RowsInv' /\ ClaimsInv'
<1>0. PICK b \in Batches : b = work[w].batch
  BY ClaimTyped DEF PersistRejected, Step, BatchInv
<1> DEFINE members == batch[b].members
<1>1. /\ work[w] # Idle /\ work[w] \in Claims
      /\ Owns(w) /\ batch[b].status = "running" /\ Proposed(b) = {} /\ Leave(w)
  <2>1. work[w] # Idle /\ Step(w, "judging") /\ ValidClaim(w) /\ Leave(w)
    BY DEF PersistRejected, Step
  <2> QED
    BY <1>0, <2>1, ClaimTyped DEF BatchInv, ValidClaim, Mine, JudgedAfresh
<1>2. Underway(b) /\ InRun(b)
  BY <1>1 DEF Underway, InRun
<1>3. /\ members \subseteq Candidates
      /\ \A c \in Candidates : /\ cand[c].batch = b <=> c \in members
                               /\ c \in members => cand[c].status = "processing"
                               /\ prop[<<b, c>>].status = "none"
                               /\ prop[<<b, c>>].pred = NoBatch
  BY <1>1, <1>2, InHands DEF Proposed
<1>4. \A x \in Batches, c \in Candidates :
        /\ x = b /\ c \in members =>
              prop'[<<x, c>>].status = "rejected" /\ prop'[<<x, c>>].pred = NoBatch
        /\ ~(x = b /\ c \in members) => prop'[<<x, c>>] = prop[<<x, c>>]
  BY <1>0, PairParts DEF PersistRejected
<1>5. \A c \in Candidates :
        /\ c \in members => cand'[c].status = "quarantined" /\ cand'[c].batch = NoBatch
        /\ c \notin members => cand'[c] = cand[c]
  BY <1>0, <1>3 DEF PersistRejected
<1>6. \A c \in Candidates : Invalidated(c)' = Invalidated(c) /\ Reconciled(c)' = Reconciled(c)
  <2>1. \A x \in Batches, c \in Candidates :
          /\ prop'[<<x, c>>].status = "invalidated" <=> prop[<<x, c>>].status = "invalidated"
          /\ prop'[<<x, c>>].status \in {"committed", "no_change"}
                <=> prop[<<x, c>>].status \in {"committed", "no_change"}
    BY <1>3, <1>4
  <2> QED
    BY <2>1 DEF Invalidated, Reconciled
<1>7. /\ batch'[b].status = "settled" /\ batch'[b].lease = "none"
      /\ batch'[b].holder = "none"
      /\ batch'[b].attempts = batch[b].attempts /\ batch'[b].members = members
      /\ \A x \in Batches : x # b => batch'[x] = batch[x]
  <2>1. batch' = [batch EXCEPT ![b] = Freed(batch[b], "settled")]
    BY <1>0 DEF PersistRejected
  <2> QED
    BY <2>1, FreedRow
<1>8. /\ ClaimsInv' /\ StatusesInOrder'
      /\ ~Underway(b)' /\ \A x \in Batches : x # b => (Underway(x)' <=> Underway(x))
  <2>1. \A x \in Batches, c \in Candidates : x # b => prop'[<<x, c>>] = prop[<<x, c>>]
    BY <1>4
  <2> QED
    BY <1>0, <1>1, <1>2, <1>7, <2>1, LetsGo
<1>9. ActiveIffHeld' /\ MembersHeld' /\ HeldByOneBatch'
  <2>1. \A x \in Batches, c \in Candidates :
          /\ x # b => prop'[<<x, c>>] = prop[<<x, c>>]
          /\ <<x, c>> \in open' <=> <<x, c>> \in open /\ x # b
    BY <1>0, <1>4 DEF PersistRejected, Unhold
  <2> QED
    BY <1>2, <1>3, <1>5, <1>7, <1>8, <2>1, HandsOpen
<1>10. ASSUME NEW x \in Batches, NEW c \in Candidates
       PROVE  ProposalOfMember(x, c)' /\ Succession(x, c)'
  <2>1. ProposalOfMember(x, c) /\ Succession(x, c)
    BY DEF BatchInv, ProposalsOfMembers, SupersededHasSuccessor
  <2>2. ProposalOfMember(x, c)'
    <3>1. CASE x = b
      BY <1>3, <1>4, <1>7, <1>8, <2>1, <3>1 DEF ProposalOfMember
    <3>2. CASE x # b
      BY <1>3, <1>4, <1>5, <1>6, <1>7, <1>8, <2>1, <3>2 DEF ProposalOfMember
    <3> QED
      BY <3>1, <3>2
  <2>3. \A d \in Batches : prop'[<<d, c>>].pred = prop[<<d, c>>].pred
    BY <1>3, <1>4
  <2>4. /\ prop'[<<x, c>>].status = "superseded" <=> prop[<<x, c>>].status = "superseded"
        /\ prop'[<<x, c>>].status = "invalidated" <=> prop[<<x, c>>].status = "invalidated"
    BY <1>3, <1>4
  <2>5. Succession(x, c)'
    BY <1>5, <2>1, <2>3, <2>4 DEF Succession
  <2> QED
    BY <2>2, <2>5
<1>11. ReconciledOnce'
  <2>1. \A c \in Candidates : cand'[c].status = "settled" <=> cand[c].status = "settled"
    BY <1>3, <1>5
  <2> QED
    BY <1>6, <2>1 DEF BatchInv, ReconciledOnce
<1>12. SupersededHasSuccessor'
  BY <1>6, <1>10 DEF BatchInv, SupersededHasSuccessor
<1> QED
  BY <1>8, <1>9, <1>10, <1>11, <1>12 DEF RowsInv, ProposalsOfMembers

LEMMA ReleaseSafe ==
    ASSUME BatchInv, NEW w \in Workers, Release(w)
    PROVE  RowsInv' /\ ClaimsInv'
<1>0. PICK b \in Batches : b = work[w].batch
  BY ClaimTyped DEF Release, Step, BatchInv
<1> DEFINE members == batch[b].members
<1>1. work[w] # Idle /\ work[w] \in Claims /\ Leave(w)
  BY ClaimTyped DEF Release, Step, BatchInv
<1>2. CASE ~(Owns(w) /\ InRun(b))
  <2>1. UNCHANGED <<cand, open, batch, prop>>
    BY <1>0, <1>2 DEF Release, candidateVars
  <2> QED
    BY <1>1, <2>1, NothingWritten
<1>3. CASE Owns(w) /\ InRun(b)
  <2>1. Underway(b)
    BY <1>3 DEF Underway, InRun
  <2>2. /\ members \subseteq Candidates
        /\ \A c \in Candidates :
             /\ cand[c].batch = b <=> c \in members
             /\ c \in members => cand[c].status = "processing"
             /\ prop[<<b, c>>].status \in {"none", "proposed"}
             /\ c \notin members => prop[<<b, c>>].status = "none"
             /\ prop[<<b, c>>].status = "proposed" =>
                  /\ Invalidated(c) = {}
                  /\ \A x \in Batches : prop[<<x, c>>].status = "proposed" => x = b
    BY <2>1, InHands
  <2>3. \A x \in Batches, c \in Candidates :
          /\ x = b /\ prop[<<b, c>>].status = "proposed" =>
                /\ prop'[<<x, c>>].status = "invalidated"
                /\ prop'[<<x, c>>].pred = prop[<<x, c>>].pred
          /\ ~(x = b /\ prop[<<b, c>>].status = "proposed") => prop'[<<x, c>>] = prop[<<x, c>>]
    <3> SUFFICES ASSUME NEW x \in Batches, NEW c \in Candidates
                 PROVE  <2>3!(x, c)
      OBVIOUS
    <3>1. <<x, c>> \in Pairs /\ <<x, c>>[1] = x
      BY PairParts
    <3>2. prop[<<x, c>>] \in ProposalRow
      BY <3>1 DEF BatchInv, TypeOK
    <3> QED
      BY <1>0, <1>3, <3>1, <3>2 DEF Release, ProposalRow
  <2>4. \A c \in Candidates :
          /\ c \in members => cand'[c].status = "retry" /\ cand'[c].batch = NoBatch
          /\ c \notin members => cand'[c] = cand[c]
    <3>1. cand' = [c \in Candidates |->
                    IF cand[c].batch = b /\ cand[c].status = "processing"
                    THEN [status |-> "retry", batch |-> NoBatch]
                    ELSE cand[c]]
      BY <1>0, <1>3 DEF Release
    <3> QED
      BY <2>2, <3>1
  <2>5. /\ batch'[b].status = "settled" /\ batch'[b].lease = "none"
        /\ batch'[b].holder = "none"
        /\ batch'[b].attempts = batch[b].attempts /\ batch'[b].members = members
        /\ \A x \in Batches : x # b => batch'[x] = batch[x]
    <3>1. batch' = [batch EXCEPT ![b] = Freed(batch[b], "settled")]
      BY <1>0, <1>3 DEF Release
    <3> QED
      BY <3>1, FreedRow
  <2>6. /\ ClaimsInv' /\ StatusesInOrder'
        /\ ~Underway(b)' /\ \A x \in Batches : x # b => (Underway(x)' <=> Underway(x))
    <3>1. \A x \in Batches, c \in Candidates : x # b => prop'[<<x, c>>] = prop[<<x, c>>]
      BY <2>3
    <3> QED
      BY <1>0, <1>1, <1>3, <2>5, <3>1, LetsGo
  <2>7. ActiveIffHeld' /\ MembersHeld' /\ HeldByOneBatch'
    <3>1. \A x \in Batches, c \in Candidates :
            /\ x # b => prop'[<<x, c>>] = prop[<<x, c>>]
            /\ <<x, c>> \in open' <=> <<x, c>> \in open /\ x # b
      <4>1. open' = {p \in open : p[1] # b}
        BY <1>0, <1>3 DEF Release, Unhold
      <4> QED
        BY <2>3, <4>1
    <3> QED
      BY <2>1, <2>2, <2>4, <2>5, <2>6, <3>1, HandsOpen
  <2>8. \A c \in Candidates :
          /\ Reconciled(c)' = Reconciled(c)
          /\ prop[<<b, c>>].status = "proposed" => Invalidated(c)' = {b}
          /\ prop[<<b, c>>].status # "proposed" => Invalidated(c)' = Invalidated(c)
    <3>1. \A x \in Batches, c \in Candidates :
            prop'[<<x, c>>].status \in {"committed", "no_change"}
               <=> prop[<<x, c>>].status \in {"committed", "no_change"}
      BY <2>2, <2>3
    <3>2. ASSUME NEW c \in Candidates, prop[<<b, c>>].status = "proposed"
          PROVE  \A x \in Batches : prop'[<<x, c>>].status = "invalidated" <=> x = b
      BY <2>2, <2>3, <3>2 DEF Invalidated
    <3>3. ASSUME NEW c \in Candidates, prop[<<b, c>>].status # "proposed"
          PROVE  \A x \in Batches : prop'[<<x, c>>] = prop[<<x, c>>]
      BY <2>3, <3>3
    <3> QED
      BY <3>1, <3>2, <3>3 DEF Invalidated, Reconciled
  <2>9. ASSUME NEW x \in Batches, NEW c \in Candidates
        PROVE  ProposalOfMember(x, c)' /\ Succession(x, c)'
    <3>1. ProposalOfMember(x, c) /\ Succession(x, c)
      BY DEF BatchInv, ProposalsOfMembers, SupersededHasSuccessor
    <3>2. CASE x = b
      <4>1. ProposalOfMember(x, c)'
        BY <2>2, <2>3, <2>5, <2>6, <2>8, <3>1, <3>2 DEF ProposalOfMember
      <4>2. \A d \in Batches : prop'[<<d, c>>].pred = prop[<<d, c>>].pred
        BY <2>3
      <4>3. prop'[<<x, c>>].status = "superseded" <=> prop[<<x, c>>].status = "superseded"
        BY <2>3, <3>2
      <4>4. prop'[<<x, c>>].status = "invalidated" => c \in members
        BY <2>2, <2>3, <3>2
      <4>5. Succession(x, c)'
        BY <2>4, <3>1, <4>2, <4>3, <4>4 DEF Succession
      <4> QED
        BY <4>1, <4>5
    <3>3. CASE x # b
      <4>1. prop'[<<x, c>>] = prop[<<x, c>>]
        BY <2>3, <3>3
      <4>2. prop[<<x, c>>].status = "proposed" => Invalidated(c)' = {}
        BY <2>2, <2>8, <3>1, <3>3 DEF ProposalOfMember
      <4>3. prop[<<x, c>>].status = "awaiting_review" => cand'[c].batch = x
        BY <2>2, <2>4, <3>1, <3>3 DEF ProposalOfMember
      <4>4. ProposalOfMember(x, c)'
        BY <2>5, <2>6, <3>1, <3>3, <4>1, <4>2, <4>3 DEF ProposalOfMember
      <4>5. \A d \in Batches : prop'[<<d, c>>].pred = prop[<<d, c>>].pred
        BY <2>3
      <4>6. Succession(x, c)'
        BY <2>4, <3>1, <4>1, <4>5 DEF Succession
      <4> QED
        BY <4>4, <4>6
    <3> QED
      BY <3>2, <3>3
  <2>10. ReconciledOnce'
    <3>1. \A c \in Candidates : cand'[c].status = "settled" <=> cand[c].status = "settled"
      BY <2>2, <2>4
    <3> QED
      BY <2>8, <3>1 DEF BatchInv, ReconciledOnce
  <2>11. SupersededHasSuccessor'
    BY <2>8, <2>9 DEF BatchInv, SupersededHasSuccessor
  <2> QED
    BY <2>6, <2>7, <2>9, <2>10, <2>11 DEF RowsInv, ProposalsOfMembers
<1> QED
  BY <1>2, <1>3

\* The plan of a commit is what is proposed: every member of the batch.
LEMMA PlanIsMembers ==
    ASSUME BatchInv, NEW w \in Workers, Step(w, "committing"), Owns(w),
           NEW b \in Batches, b = work[w].batch, batch[b].status = "proposed"
    PROVE  work[w].plan = batch[b].members
<1>1. work[w].plan = Proposed(b)
  BY DEF BatchInv, PlansComplete
<1>2. Underway(b)
  BY DEF Underway
<1>3. \A c \in Candidates : prop[<<b, c>>].status = "proposed" <=> c \in batch[b].members
  <2>1. \A c \in Candidates : ProposalOfMember(b, c)
    BY DEF BatchInv, ProposalsOfMembers
  <2> QED
    BY <2>1 DEF ProposalOfMember
<1>4. batch[b].members \subseteq Candidates
  BY <1>2, InHands
<1> QED
  BY <1>1, <1>3, <1>4 DEF Proposed

\* What commit_batch writes, row by row.
LEMMA CommitRows ==
    ASSUME TypeOK, NEW b \in Batches, NEW S \in SUBSET Candidates, CommitPlan(b, S)
    PROVE  /\ \A x \in Batches, c \in Candidates :
                /\ x = b /\ c \in S =>
                      /\ prop'[<<x, c>>].status = Outcome(prop[<<b, c>>].delta.op)
                      /\ prop'[<<x, c>>].pred = prop[<<b, c>>].pred
                /\ ~(x = b /\ c \in S) => prop'[<<x, c>>] = prop[<<x, c>>]
                /\ <<x, c>> \in open' <=>
                      /\ <<x, c>> \in open
                      /\ ~(x = b /\ c \in S /\ c \notin Conflicts(b, S))
           /\ \A c \in Candidates :
                /\ c \in Conflicts(b, S) =>
                      cand'[c].status = "awaiting_review" /\ cand'[c].batch = b
                /\ c \in S /\ c \notin Conflicts(b, S) =>
                      cand'[c].status = "settled" /\ cand'[c].batch = NoBatch
                /\ c \notin S => cand'[c] = cand[c]
<1>1. prop' = [p \in Pairs |->
              IF p \in {b} \X S
              THEN [prop[p] EXCEPT !.status = Outcome(prop[p].delta.op)]
              ELSE prop[p]]
  BY DEF CommitPlan
<1>2. open' = open \ ({b} \X (S \ Conflicts(b, S)))
  BY DEF CommitPlan
<1>3. cand' = [c \in Candidates |->
              IF c \in Conflicts(b, S) THEN [status |-> "awaiting_review", batch |-> b]
              ELSE IF c \in S THEN [status |-> "settled", batch |-> NoBatch]
              ELSE cand[c]]
  BY DEF CommitPlan
<1>4. \A x \in Batches, c \in Candidates :
        /\ <<x, c>> \in Pairs /\ prop[<<x, c>>] \in ProposalRow
        /\ <<x, c>> \in {b} \X S <=> x = b /\ c \in S
  BY DEF TypeOK, Pairs
<1>5. \A x \in Batches, c \in Candidates :
        /\ x = b /\ c \in S =>
              /\ prop'[<<x, c>>].status = Outcome(prop[<<b, c>>].delta.op)
              /\ prop'[<<x, c>>].pred = prop[<<b, c>>].pred
        /\ ~(x = b /\ c \in S) => prop'[<<x, c>>] = prop[<<x, c>>]
  <2> SUFFICES ASSUME NEW x \in Batches, NEW c \in Candidates
               PROVE  <1>5!(x, c)
    OBVIOUS
  <2>1. prop[<<x, c>>] \in ProposalRow
    BY <1>4
  <2>2. prop'[<<x, c>>] = IF x = b /\ c \in S
                          THEN [prop[<<x, c>>] EXCEPT !.status = Outcome(prop[<<x, c>>].delta.op)]
                          ELSE prop[<<x, c>>]
    BY <1>1, <1>4
  <2> QED
    BY <2>1, <2>2 DEF ProposalRow
<1>6. \A x \in Batches, c \in Candidates :
        <<x, c>> \in open' <=> /\ <<x, c>> \in open
                               /\ ~(x = b /\ c \in S /\ c \notin Conflicts(b, S))
  BY <1>2
<1>7. \A c \in Conflicts(b, S) : c \in S
  BY DEF Conflicts
<1> QED
  BY <1>3, <1>5, <1>6, <1>7

LEMMA CommitSafe ==
    ASSUME BatchInv, NEW w \in Workers, Commit(w)
    PROVE  RowsInv' /\ ClaimsInv'
<1>0. PICK b \in Batches : b = work[w].batch
  BY ClaimTyped DEF Commit, Step, BatchInv
<1> DEFINE members == batch[b].members
           C == Conflicts(b, members)
<1>1. work[w] # Idle /\ work[w] \in Claims /\ Step(w, "committing")
  BY ClaimTyped DEF Commit, Step, BatchInv
<1>2. CASE Decide(w, Verdict(w)) /\ UNCHANGED <<head, candidateVars, batch, proposalVars>>
  BY <1>1, <1>2, VerdictTyped, NothingWritten DEF candidateVars, proposalVars
<1>3. CASE /\ Owns(w) /\ batch[b].status = "proposed" /\ Committable(b, work[w].plan)
           /\ CommitPlan(b, work[w].plan) /\ Leave(w)
  <2>1. Underway(b) /\ InRun(b) /\ work[w].plan = members
    BY <1>0, <1>1, <1>3, PlanIsMembers DEF Underway, InRun
  <2>2. /\ members \subseteq Candidates
        /\ \A c \in Candidates :
             /\ cand[c].batch = b <=> c \in members
             /\ c \in members => cand[c].status = "processing"
             /\ c \in members => prop[<<b, c>>].status = "proposed"
             /\ c \notin members => prop[<<b, c>>].status = "none"
             /\ prop[<<b, c>>].status = "proposed" => Invalidated(c) = {}
    <3>1. \A c \in members : prop[<<b, c>>].status = "proposed"
      BY <1>3, <2>1 DEF Committable
    <3> QED
      BY <2>1, <3>1, InHands
  <2>3. CommitPlan(b, members) /\ members \in SUBSET Candidates
    BY <1>3, <2>1, <2>2
  <2>4. \A x \in Batches, c \in Candidates :
          /\ x = b /\ c \in members =>
                /\ prop'[<<x, c>>].status = Outcome(prop[<<b, c>>].delta.op)
                /\ prop'[<<x, c>>].pred = prop[<<b, c>>].pred
          /\ ~(x = b /\ c \in members) => prop'[<<x, c>>] = prop[<<x, c>>]
          /\ <<x, c>> \in open' <=>
                <<x, c>> \in open /\ ~(x = b /\ c \in members /\ c \notin C)
    <3> HIDE DEF C, members
    <3> QED
      BY <2>3, CommitRows DEF C, BatchInv
  <2>5. \A c \in Candidates :
          /\ c \in C => cand'[c].status = "awaiting_review" /\ cand'[c].batch = b
          /\ c \in members /\ c \notin C => cand'[c].status = "settled" /\ cand'[c].batch = NoBatch
          /\ c \notin members => cand'[c] = cand[c]
    BY <2>3, CommitRows DEF BatchInv
  <2>6. \A c \in Candidates :
          /\ c \in C => c \in members /\ Outcome(prop[<<b, c>>].delta.op) = "awaiting_review"
          /\ c \in members /\ c \notin C =>
                Outcome(prop[<<b, c>>].delta.op) \in {"committed", "no_change"}
    BY DEF Conflicts, Outcome
  <2>7. /\ batch'[b].status = IF C = {} THEN "settled" ELSE "awaiting_review"
        /\ batch'[b].lease = "none" /\ batch'[b].holder = "none"
        /\ batch'[b].attempts = batch[b].attempts /\ batch'[b].members = members
        /\ \A x \in Batches : x # b => batch'[x] = batch[x]
    <3>1. batch' = [batch EXCEPT ![b] =
                       Freed(batch[b], IF C = {} THEN "settled" ELSE "awaiting_review")]
      BY <2>3 DEF CommitPlan
    <3> QED
      BY <3>1, FreedRow
  <2>8. /\ ClaimsInv' /\ StatusesInOrder'
        /\ ~Underway(b)' /\ \A x \in Batches : x # b => (Underway(x)' <=> Underway(x))
    <3>1. \A x \in Batches, c \in Candidates : x # b => prop'[<<x, c>>] = prop[<<x, c>>]
      BY <2>4
    <3>2. batch'[b].status \in {"settled", "awaiting_review"}
      BY <2>7
    <3> QED
      BY <1>0, <1>1, <1>3, <2>1, <2>7, <3>1, <3>2, LetsGo
  <2>9. ActiveIffHeld' /\ MembersHeld' /\ HeldByOneBatch'
    <3>1. ASSUME NEW c \in members
          PROVE  \/ /\ cand'[c].batch = NoBatch /\ <<b, c>> \notin open'
                    /\ cand'[c].status \in {"quarantined", "retry", "settled"}
                 \/ /\ cand'[c].batch = b /\ <<b, c>> \in open'
                    /\ cand'[c].status = "awaiting_review"
                    /\ prop'[<<b, c>>].status = "awaiting_review"
                    /\ batch'[b].status = "awaiting_review"
      <4>1. c \in Candidates /\ <<b, c>> \in open
        BY <2>2, HeldRows
      <4>2. CASE c \in C
        BY <2>4, <2>5, <2>6, <2>7, <4>1, <4>2
      <4>3. CASE c \notin C
        BY <2>4, <2>5, <4>1, <4>3
      <4> QED
        BY <4>2, <4>3
    <3>2. ASSUME NEW c \in Candidates, c \notin members
          PROVE  cand'[c] = cand[c] /\ <<b, c>> \notin open'
      BY <2>2, <2>4, <2>5, <3>2, HeldRows
    <3>3. \A x \in Batches, c \in Candidates : x # b =>
            prop'[<<x, c>>] = prop[<<x, c>>] /\ (<<x, c>> \in open' <=> <<x, c>> \in open)
      BY <2>4
    <3> QED
      BY <2>1, <2>7, <2>8, <3>1, <3>2, <3>3, HandsOpen
  <2>10. \A c \in Candidates :
           /\ Invalidated(c)' = Invalidated(c)
           /\ c \notin members => Reconciled(c)' = Reconciled(c)
           /\ c \in C => Reconciled(c)' = {}
           /\ c \in members /\ c \notin C => Reconciled(c)' = {b}
    <3> SUFFICES ASSUME NEW c \in Candidates
                 PROVE  <2>10!(c)
      OBVIOUS
    <3>1. CASE c \notin members
      <4>1. \A x \in Batches : prop'[<<x, c>>] = prop[<<x, c>>]
        BY <2>4, <3>1
      <4> QED
        BY <2>6, <3>1, <4>1 DEF Invalidated, Reconciled
    <3>2. CASE c \in members
      <4>1. \A x \in Batches : prop[<<x, c>>].status \notin {"committed", "no_change", "invalidated"}
        BY <2>2, <3>2 DEF BatchInv, ReconciledOnce, Reconciled, Invalidated
      <4>2. \A x \in Batches :
              /\ prop'[<<x, c>>].status # "invalidated"
              /\ prop'[<<x, c>>].status \in {"committed", "no_change"} <=> x = b /\ c \notin C
        BY <2>4, <2>6, <3>2, <4>1
      <4> QED
        BY <3>2, <4>1, <4>2 DEF Invalidated, Reconciled
    <3> QED
      BY <3>1, <3>2
  <2>11. ASSUME NEW x \in Batches, NEW c \in Candidates
         PROVE  ProposalOfMember(x, c)' /\ Succession(x, c)'
    <3>1. ProposalOfMember(x, c) /\ Succession(x, c)
      BY DEF BatchInv, ProposalsOfMembers, SupersededHasSuccessor
    <3>2. ProposalOfMember(x, c)'
      <4>1. CASE x = b /\ c \in members
        <5>1. /\ prop'[<<x, c>>].status \in {"committed", "no_change", "awaiting_review"}
              /\ prop'[<<x, c>>].status = "awaiting_review" => cand'[c].batch = x
          BY <2>4, <2>5, <2>6, <4>1
        <5> QED
          BY <2>7, <2>8, <4>1, <5>1 DEF ProposalOfMember
      <4>2. CASE x = b /\ c \notin members
        <5>1. prop'[<<x, c>>] = prop[<<x, c>>] /\ prop[<<x, c>>].status = "none"
          BY <2>2, <2>4, <4>2
        <5> QED
          BY <2>7, <2>8, <3>1, <4>2, <5>1 DEF ProposalOfMember
      <4>3. CASE x # b
        <5>1. prop'[<<x, c>>] = prop[<<x, c>>] /\ batch'[x] = batch[x]
          BY <2>4, <2>7, <4>3
        <5>2. prop[<<x, c>>].status = "awaiting_review" => cand'[c].batch = x
          BY <2>2, <2>5, <3>1, <4>3 DEF ProposalOfMember
        <5> QED
          BY <2>8, <2>10, <3>1, <4>3, <5>1, <5>2 DEF ProposalOfMember
      <4> QED
        BY <4>1, <4>2, <4>3
    <3>3. Succession(x, c)'
      <4>1. \A d \in Batches : prop'[<<d, c>>].pred = prop[<<d, c>>].pred
        BY <2>4
      <4>2. /\ prop'[<<x, c>>].status = "superseded" <=> prop[<<x, c>>].status = "superseded"
            /\ prop'[<<x, c>>].status = "invalidated" => prop[<<x, c>>].status = "invalidated"
        BY <2>2, <2>4, <2>6
      <4>3. c \in members => prop[<<x, c>>].status # "invalidated"
        BY <2>2 DEF Invalidated
      <4> QED
        BY <2>5, <3>1, <4>1, <4>2, <4>3 DEF Succession
    <3> QED
      BY <3>2, <3>3
  <2>12. ReconciledOnce'
    <3> SUFFICES ASSUME NEW c \in Candidates
                 PROVE  /\ \A x, y \in Reconciled(c)' : x = y
                        /\ cand'[c].status = "settled" <=> Reconciled(c)' # {}
      BY DEF ReconciledOnce
    <3>1. CASE c \notin members
      BY <2>5, <2>10, <3>1 DEF BatchInv, ReconciledOnce
    <3>2. CASE c \in members
      BY <2>5, <2>10, <3>2
    <3> QED
      BY <3>1, <3>2
  <2>13. SupersededHasSuccessor'
    BY <2>10, <2>11 DEF BatchInv, SupersededHasSuccessor
  <2> QED
    BY <2>8, <2>9, <2>11, <2>12, <2>13 DEF RowsInv, ProposalsOfMembers
<1> QED
  BY <1>0, <1>2, <1>3 DEF Commit

LEMMA StepSafe == BatchInv /\ [Next]_vars => BatchInv'
<1> SUFFICES ASSUME BatchInv, [Next]_vars PROVE BatchInv'
  OBVIOUS
<1>1. TypeOK'
  BY StepTyped DEF BatchInv
<1>2. ASSUME NEW w \in Workers, RunOnce(w) \/ Failure(w)
      PROVE  RowsInv' /\ ClaimsInv'
  BY <1>2, WorkerSteps, QuietSafe, ClaimSafe, PersistSafe, RejectedSafe, ReleaseSafe,
     CommitSafe, FailSafe
<1>3. ASSUME UNCHANGED vars
      PROVE  RowsInv' /\ ClaimsInv'
  <2>1. RowsInv'
    BY <1>3, RowsUnchanged DEF vars, BatchInv, RowsInv
  <2>2. ClaimsInv'
    BY <1>3 DEF vars, BatchInv, ClaimsInv, ClaimsDistinct, JudgedAfresh, PlansComplete, Step,
       Owns, Mine, Proposed
  <2> QED
    BY <2>1, <2>2
<1>4. RowsInv' /\ ClaimsInv'
  BY <1>2, <1>3, CandidateSafe, HeadSafe, RequestSafe, ExpirySafe DEF Next
<1> QED
  BY <1>1, <1>4 DEF BatchInv, RowsInv, ClaimsInv

(***************************************************************************)
(* Batch maintenance keeps its books: a candidate is in the hands of one   *)
(* batch at a time and is reconciled at most once, a superseded proposal   *)
(* has its successor, a token belongs to one worker, and the plan of the   *)
(* worker that still has the token is exactly what is proposed.            *)
(***************************************************************************)
THEOREM BatchInvariant == Spec => []BatchInv
<1>1. Init => BatchInv
  BY InitSafe
<1>2. BatchInv /\ [Next]_vars => BatchInv'
  BY StepSafe
<1> QED
  BY <1>1, <1>2, PTL DEF Spec

\* A transaction that changes the status of a leased batch is its holder's.
LEMMA HolderActs ==
    ASSUME BatchInv, [Next]_vars, NEW b \in Batches,
           batch[b].lease = "live", batch'[b].status # batch[b].status
    PROVE  \E w \in Holder(b) : work'[w] # work[w]
<1>1. InRun(b)
  BY DEF BatchInv, StatusesInOrder
<1>2. ASSUME NEW w \in Workers, work[w] # Idle, Owns(w), b = work[w].batch,
             work'[w] = Idle \/ work'[w].phase # work[w].phase
      PROVE  \E v \in Holder(b) : work'[v] # work[v]
  <2>1. w \in Holder(b)
    BY <1>2 DEF Holder, Owns, Mine
  <2> QED
    BY <1>2, <2>1
<1>3. ASSUME NEW w \in Workers, RunOnce(w) \/ Failure(w)
      PROVE  \E v \in Holder(b) : work'[v] # work[v]
  <2>1. CASE Quiet(w)
    BY <2>1, QuietTyped DEF BatchInv
  <2>2. CASE ClaimNext(w)
    <3>1. PICK x \in Batches : Claimable(x) /\ batch' = [batch EXCEPT ![x] = Leased(batch[x])]
      BY <2>2 DEF ClaimNext
    <3>2. x # b
      BY <1>1, <3>1 DEF Claimable, Waiting, InRun
    <3> QED
      BY <3>1, <3>2
  <2>3. ASSUME Persist(w) \/ PersistRejected(w) \/ Release(w) \/ Commit(w) \/ Fail(w)
        PROVE  /\ work[w] # Idle /\ work[w] \in Claims /\ Owns(w) /\ b = work[w].batch
               /\ work'[w] = Idle \/ work'[w].phase # work[w].phase
    <3>1. work[w] # Idle /\ work[w] \in Claims /\ work[w].batch \in Batches
      BY <2>3, ClaimTyped
      DEF Persist, PersistRejected, Release, Commit, Fail, Step, BatchInv
    <3>2. CASE Persist(w)
      <4>1. CASE ValidClaim(w)
        <5>1. batch' = [batch EXCEPT ![work[w].batch].status = "proposed"]
              /\ Go(w, "persisted") /\ work[w].phase = "judging"
          BY <3>2, <4>1 DEF Persist, Step
        <5>2. b = work[w].batch
          BY <3>1, <5>1
        <5>3. work'[w].phase = "persisted"
          BY <3>1, <5>1 DEF Go, BatchInv, TypeOK, Claims
        <5> QED
          BY <3>1, <4>1, <5>1, <5>2, <5>3 DEF ValidClaim
      <4>2. CASE ~ValidClaim(w)
        BY <3>2, <4>2 DEF Persist
      <4> QED
        BY <4>1, <4>2
    <3>3. CASE PersistRejected(w)
      <4>1. /\ batch' = [batch EXCEPT ![work[w].batch] = Freed(batch[work[w].batch], "settled")]
            /\ Leave(w) /\ Owns(w)
        BY <3>3 DEF PersistRejected, ValidClaim
      <4> QED
        BY <3>1, <4>1 DEF Leave, BatchInv, TypeOK
    <3>4. CASE Release(w)
      <4>1. /\ batch' = [batch EXCEPT ![work[w].batch] = Freed(batch[work[w].batch], "settled")]
            /\ Leave(w) /\ Owns(w)
        BY <3>4 DEF Release
      <4> QED
        BY <3>1, <4>1 DEF Leave, BatchInv, TypeOK
    <3>5. CASE Commit(w)
      <4>1. Leave(w) /\ Owns(w) /\ CommitPlan(work[w].batch, work[w].plan)
        BY <3>5 DEF Commit
      <4> QED
        BY <3>1, <4>1 DEF CommitPlan, Leave, BatchInv, TypeOK
    <3>6. CASE Fail(w)
      <4>1. /\ batch' = [batch EXCEPT ![work[w].batch] =
                            Freed(batch[work[w].batch], work[w].verdict)]
            /\ Leave(w) /\ Owns(w)
        BY <3>6 DEF Fail
      <4> QED
        BY <3>1, <4>1 DEF Leave, BatchInv, TypeOK
    <3> QED
      BY <2>3, <3>2, <3>3, <3>4, <3>5, <3>6
  <2> QED
    BY <1>2, <1>3, <2>1, <2>2, <2>3, WorkerSteps
<1>4. ASSUME NEW c \in Candidates, CreateCandidate(c)
      PROVE  FALSE
  BY <1>4 DEF CreateCandidate
<1>5. ASSUME NEW m \in Memories, ChangeHead(m)
      PROVE  FALSE
  BY <1>5 DEF ChangeHead
<1>6. ASSUME NEW x \in Batches, RequestBatch(x)
      PROVE  FALSE
  <2>1. batch[x].status = "none" /\ \A y \in Batches : y # x => batch'[y] = batch[y]
    BY <1>6 DEF RequestBatch, BatchInv, TypeOK
  <2> QED
    BY <1>1, <2>1 DEF InRun
<1>7. ASSUME NEW x \in Batches, LeaseRunsOut(x) \/ LeaseOverrun(x)
      PROVE  FALSE
  <2>1. batch' = [batch EXCEPT ![x].lease = "expired"]
    BY <1>7 DEF LeaseRunsOut, LeaseOverrun, Expire
  <2>2. batch'[b].status = batch[b].status
    BY <2>1 DEF BatchInv, TypeOK, BatchRow
  <2> QED
    BY <2>2
<1> QED
  BY <1>3, <1>4, <1>5, <1>6, <1>7 DEF Next, vars

(***************************************************************************)
(* While a batch is leased, its status changes only in a transaction of    *)
(* the worker with its latest token: the fencing by lease_token holds      *)
(* however many workers, claims and overrun leases there are.              *)
(***************************************************************************)
THEOREM OnlyTheHolder == Spec => OnlyHolderChangesBatch
<1>1. BatchInv /\ [Next]_vars =>
        [\A b \in Batches :
            batch[b].lease = "live" /\ batch'[b].status # batch[b].status =>
               \E w \in Holder(b) : work'[w] # work[w]]_vars
  BY HolderActs
<1> QED
  BY <1>1, BatchInvariant, PTL DEF Spec, OnlyHolderChangesBatch

LEMMA CommitsWhole ==
    ASSUME BatchInv, [Next]_vars, NEW b \in Batches, NEW c \in Candidates,
           prop[<<b, c>>].status # "committed", prop'[<<b, c>>].status = "committed"
    PROVE  \A d \in batch[b].members :
              /\ prop'[<<b, d>>].status \in {"committed", "no_change", "awaiting_review"}
              /\ prop[<<b, d>>].delta.op \in Writing => Current(b, Target(b, d))
<1>1. ASSUME NEW w \in Workers, Commit(w)
      PROVE  \A d \in batch[b].members :
                /\ prop'[<<b, d>>].status \in {"committed", "no_change", "awaiting_review"}
                /\ prop[<<b, d>>].delta.op \in Writing => Current(b, Target(b, d))
  <2>1. PICK x \in Batches : x = work[w].batch
    BY <1>1, ClaimTyped DEF Commit, Step, BatchInv
  <2>2. /\ Owns(w) /\ batch[x].status = "proposed" /\ Step(w, "committing")
        /\ Committable(x, work[w].plan) /\ CommitPlan(x, work[w].plan)
    BY <1>1, <2>1 DEF Commit, proposalVars
  <2>3. work[w].plan = batch[x].members
    BY <2>1, <2>2, PlanIsMembers
  <2>4. batch[x].members \in SUBSET Candidates
    BY DEF BatchInv, TypeOK, BatchRow
  <2>5. CommitPlan(x, batch[x].members) /\ Committable(x, batch[x].members)
    BY <2>2, <2>3
  <2>6. \A y \in Batches, d \in Candidates :
          /\ y = x /\ d \in batch[x].members =>
                prop'[<<y, d>>].status = Outcome(prop[<<x, d>>].delta.op)
          /\ ~(y = x /\ d \in batch[x].members) => prop'[<<y, d>>] = prop[<<y, d>>]
    <3> DEFINE S == batch[x].members
    <3>1. S \in SUBSET Candidates /\ CommitPlan(x, S)
      BY <2>4, <2>5
    <3> HIDE DEF S
    <3> SUFFICES ASSUME NEW y \in Batches, NEW d \in Candidates
                 PROVE  /\ y = x /\ d \in S =>
                              prop'[<<y, d>>].status = Outcome(prop[<<x, d>>].delta.op)
                        /\ ~(y = x /\ d \in S) => prop'[<<y, d>>] = prop[<<y, d>>]
      BY DEF S
    <3> QED
      BY <3>1, CommitRows DEF BatchInv
  <2>7. b = x
    BY <2>6
  <2>8. \A op : Outcome(op) \in {"committed", "no_change", "awaiting_review"}
    BY DEF Outcome
  <2>9. \A d \in batch[b].members : prop[<<b, d>>].delta.op \in Writing => Current(b, Target(b, d))
    BY <2>5, <2>7 DEF Committable, Applicable, Writes
  <2> QED
    BY <2>4, <2>6, <2>7, <2>8, <2>9
<1>2. ASSUME NEW w \in Workers, RunOnce(w) \/ Failure(w), ~Commit(w)
      PROVE  FALSE
  <2>1. CASE Quiet(w) \/ ClaimNext(w) \/ Fail(w)
    BY <2>1, QuietTyped DEF BatchInv, ClaimNext, Fail, proposalVars
  <2>2. CASE Persist(w)
    BY <2>2, PairParts DEF Persist, BatchInv, TypeOK, ProposalRow
  <2>3. CASE PersistRejected(w)
    BY <2>3, PairParts DEF PersistRejected
  <2>4. CASE Release(w)
    <3>1. <<b, c>> \in Pairs /\ prop[<<b, c>>] \in ProposalRow
      BY PairParts DEF BatchInv, TypeOK
    <3>2. prop' # prop
      OBVIOUS
    <3>3. prop'[<<b, c>>] = IF <<b, c>>[1] = work[w].batch /\ prop[<<b, c>>].status = "proposed"
                            THEN [prop[<<b, c>>] EXCEPT !.status = "invalidated"]
                            ELSE prop[<<b, c>>]
      BY <2>4, <3>1, <3>2 DEF Release
    <3> QED
      BY <3>1, <3>3 DEF ProposalRow
  <2> QED
    BY <1>2, <2>1, <2>2, <2>3, <2>4, WorkerSteps
<1>3. ASSUME \/ UNCHANGED vars
             \/ \E d \in Candidates : CreateCandidate(d)
             \/ \E m \in Memories : ChangeHead(m)
             \/ \E x \in Batches : RequestBatch(x) \/ LeaseRunsOut(x) \/ LeaseOverrun(x)
      PROVE  FALSE
  BY <1>3 DEF vars, CreateCandidate, ChangeHead, RequestBatch, LeaseRunsOut, LeaseOverrun,
     proposalVars
<1> QED
  BY <1>1, <1>2, <1>3 DEF Next

(***************************************************************************)
(* A batch is committed whole and on what the Judge saw: when one of its   *)
(* proposals is committed, all are decided in that transaction, and every  *)
(* memory they write was at the frozen revision just before.               *)
(***************************************************************************)
THEOREM CommitIsWhole == Spec => CommittedWhole
<1>1. BatchInv /\ [Next]_vars =>
        [\A b \in Batches :
            (\E c \in Candidates : prop[<<b, c>>].status # "committed"
                                   /\ prop'[<<b, c>>].status = "committed") =>
               \A c \in batch[b].members :
                   /\ prop'[<<b, c>>].status \in {"committed", "no_change", "awaiting_review"}
                   /\ prop[<<b, c>>].delta.op \in Writing => Current(b, Target(b, c))]_vars
  BY CommitsWhole
<1> QED
  BY <1>1, BatchInvariant, PTL DEF Spec, CommittedWhole

-----------------------------------------------------------------------------
(***************************************************************************)
(* Review.                                                                 *)
(***************************************************************************)

\* A reviewer at work has a receipt, and its request is about a pair.
LEMMA DeskTyped ==
    ASSUME ReviewInv, NEW v \in Reviewers, desk[v] # Away
    PROVE  /\ desk[v] \in Desk /\ desk[v].receipt \in Receipts
           /\ Pair(v) \in Pairs /\ Pair(v)[1] \in Batches /\ Pair(v)[2] \in Candidates
           /\ Pair(v) = <<Pair(v)[1], Pair(v)[2]>>
           /\ Decision(v) \in Decisions
           /\ conflict[Pair(v)] # "none"
<1>1. desk[v] \in Desk /\ desk[v].receipt \in Receipts
  BY DEF ReviewInv, ReviewTypeOK, Desk
<1>2. conflict[Pair(v)] # "none"
  BY <1>1 DEF ReviewInv, RequestsInOrder
<1>3. Pair(v) \in Pairs /\ Decision(v) \in Decisions
  BY <1>1 DEF Desk, Pair, Decision
<1> QED
  BY <1>1, <1>2, <1>3, PairParts

LEMMA DesksUpdated ==
    /\ \A d \in Desk, ph \in DeskPhases : [d EXCEPT !.phase = ph] \in Desk
    /\ \A d \in Desk, ph \in DeskPhases, r \in Receipts :
          [d EXCEPT !.phase = ph, !.token = r] \in Desk
    /\ \A d \in Desk, ph \in DeskPhases, l \in BOOLEAN :
          [d EXCEPT !.phase = ph, !.lapsed = l] \in Desk
    /\ \A d \in Desk : d # Away
<1>1. ASSUME NEW d \in Desk
      PROVE  d # Away
  <2>1. d.phase \in DeskPhases
    BY DEF Desk
  <2>2. Away.phase = "away" /\ "away" \notin DeskPhases
    BY DEF Away, DeskPhases
  <2> QED
    BY <2>1, <2>2
<1>2. \A d \in Desk, ph \in DeskPhases : [d EXCEPT !.phase = ph] \in Desk
  BY DEF Desk
<1>3. \A d \in Desk, ph \in DeskPhases, r \in Receipts :
          [d EXCEPT !.phase = ph, !.token = r] \in Desk
  BY DEF Desk
<1>4. \A d \in Desk, ph \in DeskPhases, l \in BOOLEAN :
          [d EXCEPT !.phase = ph, !.lapsed = l] \in Desk
  BY DEF Desk
<1> QED
  BY <1>1, <1>2, <1>3, <1>4

DesksTyped == desk' \in [Reviewers -> Desk \cup {Away}]

LEMMA DeskSteps ==
    ASSUME ReviewInv, NEW v \in Reviewers, desk[v] # Away
    PROVE  /\ Quit(v) => DesksTyped
           /\ \A ph \in DeskPhases : Turn(v, ph) => DesksTyped
<1>1. desk[v] \in Desk /\ desk \in [Reviewers -> Desk \cup {Away}]
  BY DeskTyped DEF ReviewInv, ReviewTypeOK
<1>2. Quit(v) => DesksTyped
  BY <1>1 DEF Quit, DesksTyped
<1>3. ASSUME NEW ph \in DeskPhases, Turn(v, ph)
      PROVE  DesksTyped
  <2>1. desk' = [desk EXCEPT ![v] = [desk[v] EXCEPT !.phase = ph]]
    BY <1>3 DEF Turn
  <2> QED
    BY <1>1, <2>1, DesksUpdated DEF DesksTyped
<1> QED
  BY <1>2, <1>3

(***************************************************************************)
(* The workers of Batch leave a batch alone that is with the reviewers, or *)
(* settled; a conflict is opened as its batch comes to the reviewers; and  *)
(* a candidate that is settled and free stays so.                          *)
(***************************************************************************)
WithReviewers(b) == InReview(b) \/ batch[b].status = "settled"

WorkersLeave ==
    /\ \A b \in Batches : WithReviewers(b) => batch'[b] = batch[b]
    /\ \A p \in Pairs : \/ conflict'[p] = conflict[p]
                        \/ /\ conflict'[p] = "open" /\ ~WithReviewers(p[1])
                           /\ batch'[p[1]].status = "awaiting_review"
    /\ \A c \in Candidates : cand[c].status = "settled" /\ cand[c].batch = NoBatch =>
          cand'[c] = cand[c]
    /\ \A c \in Candidates : cand'[c].status = "settled" =>
          cand'[c] = cand[c] \/ cand'[c].batch = NoBatch

LEMMA WorkersStep ==
    ASSUME TypeOK, Next
    PROVE  WorkersLeave
<1> USE BatchAssumption DEF WorkersLeave, WithReviewers, InReview
<1>1. ASSUME NEW c \in Candidates, CreateCandidate(c)
      PROVE  WorkersLeave
  BY <1>1 DEF CreateCandidate, TypeOK, proposalVars
<1>2. ASSUME NEW m \in Memories, ChangeHead(m)
      PROVE  WorkersLeave
  BY <1>2 DEF ChangeHead, candidateVars, proposalVars
<1>3. ASSUME NEW b \in Batches, RequestBatch(b)
      PROVE  WorkersLeave
  <2>1. cand' = [c \in Candidates |-> IF c \in Ready
                                     THEN [status |-> "processing", batch |-> b]
                                     ELSE cand[c]]
    BY <1>3 DEF RequestBatch
  <2>2. \A d \in Batches : d # b => batch'[d] = batch[d]
    BY <1>3 DEF RequestBatch, TypeOK
  <2>3. batch[b].status = "none" /\ conflict' = conflict
    BY <1>3 DEF RequestBatch, proposalVars
  <2> QED
    BY <2>1, <2>2, <2>3 DEF Ready, Waiting, TypeOK
<1>4. ASSUME NEW b \in Batches, LeaseRunsOut(b) \/ LeaseOverrun(b)
      PROVE  WorkersLeave
  <2>1. \A d \in Batches : d # b => batch'[d] = batch[d]
    BY <1>4 DEF LeaseRunsOut, LeaseOverrun, Expire, TypeOK
  <2>2. InRun(b) /\ UNCHANGED <<cand, conflict>>
    BY <1>4 DEF LeaseRunsOut, LeaseOverrun, candidateVars, proposalVars
  <2> QED
    BY <2>1, <2>2 DEF InRun
<1>5. ASSUME NEW w \in Workers, RunOnce(w) \/ Failure(w)
      PROVE  WorkersLeave
  <2>1. CASE Quiet(w)
    BY <2>1, QuietTyped DEF candidateVars, proposalVars
  <2>2. CASE ClaimNext(w)
    <3>1. PICK b \in Batches : Claimable(b) /\ batch' = [batch EXCEPT ![b] = Leased(batch[b])]
      BY <2>2 DEF ClaimNext
    <3> QED
      BY <2>2, <3>1 DEF ClaimNext, Claimable, Waiting, TypeOK, candidateVars, proposalVars
  <2> DEFINE b == work[w].batch
  <2>3. CASE Persist(w)
    <3>1. \A d \in Batches : batch'[d] = batch[d] \/ (d = b /\ batch[b].status = "running")
      <4>1. \/ batch' = batch
            \/ batch' = [batch EXCEPT ![b].status = "proposed"] /\ batch[b].status = "running"
        BY <2>3 DEF Persist, ValidClaim, Mine
      <4> QED
        BY <4>1 DEF TypeOK
    <3>2. UNCHANGED <<cand, conflict>>
      BY <2>3 DEF Persist, candidateVars
    <3> QED
      BY <3>1, <3>2
  <2>4. CASE PersistRejected(w)
    <3>1. b \in Batches
      BY <2>4, ClaimTyped DEF PersistRejected, Step
    <3>2. \A d \in Batches : batch'[d] = batch[d] \/ (d = b /\ batch[b].status = "running")
      BY <2>4 DEF PersistRejected, ValidClaim, Mine, TypeOK
    <3> QED
      BY <2>4, <3>1, <3>2 DEF PersistRejected
  <2>5. CASE Release(w)
    <3>1. b \in Batches
      BY <2>5, ClaimTyped DEF Release, Step
    <3>2. \A d \in Batches : batch'[d] = batch[d] \/ (d = b /\ InRun(b))
      <4>1. \/ batch' = batch
            \/ batch' = [batch EXCEPT ![b] = Freed(batch[b], "settled")] /\ InRun(b)
        BY <2>5 DEF Release
      <4> QED
        BY <4>1 DEF TypeOK
    <3>3. conflict' = conflict
      BY <2>5 DEF Release
    <3>4. \A c \in Candidates :
            \/ cand'[c] = cand[c]
            \/ cand'[c] = [status |-> "retry", batch |-> NoBatch] /\ cand[c].batch = b
      <4>1. \/ cand' = cand
            \/ cand' = [c \in Candidates |->
                   IF cand[c].batch = b /\ cand[c].status = "processing"
                   THEN [status |-> "retry", batch |-> NoBatch]
                   ELSE cand[c]]
        BY <2>5 DEF Release, candidateVars
      <4> QED
        BY <4>1
    <3> QED
      BY <3>1, <3>2, <3>3, <3>4 DEF InRun
  <2>6. CASE Commit(w)
    <3> DEFINE S == work[w].plan
    <3>1. b \in Batches /\ S \in SUBSET Candidates
      BY <2>6, ClaimTyped DEF Commit, Step, Claims
    <3>2. CASE UNCHANGED <<head, candidateVars, batch, proposalVars>>
      BY <3>2 DEF candidateVars, proposalVars
    <3>3. CASE batch[b].status = "proposed" /\ Committable(b, S) /\ CommitPlan(b, S)
      <4>1. \A d \in Batches : d # b => batch'[d] = batch[d]
        BY <3>3 DEF CommitPlan, TypeOK
      <4>2. \A p \in Pairs : \/ conflict'[p] = conflict[p]
                             \/ /\ conflict'[p] = "open" /\ p[1] = b
                                /\ Conflicts(b, S) # {}
        BY <3>3, PairParts DEF CommitPlan
      <4>3. Conflicts(b, S) # {} => batch'[b].status = "awaiting_review"
        BY <3>1, <3>3 DEF CommitPlan, TypeOK, Freed
      <4>4. \A c \in Candidates :
              \/ cand'[c] = cand[c]
              \/ Held(b, c) /\ cand'[c] = [status |-> "awaiting_review", batch |-> b]
              \/ Held(b, c) /\ cand'[c] = [status |-> "settled", batch |-> NoBatch]
        BY <3>1, <3>3 DEF CommitPlan, Committable, Conflicts
      <4> QED
        BY <3>1, <3>3, <4>1, <4>2, <4>3, <4>4 DEF Held
    <3> QED
      BY <2>6, <3>2, <3>3 DEF Commit
  <2>7. CASE Fail(w)
    <3>1. \A d \in Batches : batch'[d] = batch[d] \/ (d = b /\ InRun(b))
      <4>1. \/ batch' = batch
            \/ batch' = [batch EXCEPT ![b] = Freed(batch[b], work[w].verdict)] /\ InRun(b)
        BY <2>7 DEF Fail
      <4> QED
        BY <4>1 DEF TypeOK
    <3> QED
      BY <2>7, <3>1 DEF Fail, InRun, candidateVars, proposalVars
  <2> QED
    BY <1>5, <2>1, <2>2, <2>3, <2>4, <2>5, <2>6, <2>7, WorkerSteps
<1> QED
  BY <1>1, <1>2, <1>3, <1>4, <1>5 DEF Next

\* What the review keeps besides the types.
DeskInvariant(v) ==
    desk[v] # Away =>
        /\ asked[desk[v].receipt] \in {Several, [pair |-> Pair(v), decision |-> Decision(v)]}
        /\ conflict[Pair(v)] # "none"
        /\ desk[v].phase \in {"checking", "starting", "committing", "stale"} =>
              Decision(v) = "accept_new"
        /\ desk[v].phase = "keeping" => Decision(v) = "accept_old"
        /\ desk[v].phase = "recording" => successor[desk[v].receipt] = "committed"

SettledFree == \A c \in Candidates : cand[c].status = "settled" => cand[c].batch = NoBatch

IsOpen(p)   == conflict[p] # "none"
EffectsReal == \A p \in Pairs : Effective(p) # {} => IsOpen(p)

LEMMA OrderParts ==
    /\ RequestsInOrder <=> /\ \A r \in Receipts : ReceiptInOrder(r)
                           /\ EffectsReal /\ SettledFree
                           /\ \A v \in Reviewers : DeskInvariant(v)
    /\ RequestsInOrder' <=> /\ \A r \in Receipts : ReceiptInOrder(r)'
                            /\ EffectsReal' /\ SettledFree'
                            /\ \A v \in Reviewers : DeskInvariant(v)'
  BY DEF RequestsInOrder, EffectsReal, IsOpen, SettledFree, DeskInvariant

LEMMA ReviewInitSafe == ReviewInit => ReviewInv
<1> SUFFICES ASSUME ReviewInit PROVE ReviewInv
  OBVIOUS
<1>1. ReviewTypeOK
  BY InitTyped DEF ReviewInit, ReviewTypeOK, SuccessorStatuses
<1>2. \A p \in Pairs : Effective(p) = {} /\ \A s : Settled(p, s) = {}
  BY DEF ReviewInit, Settled, Effective
<1>3. AcceptedOnce /\ RecordsTrue
  BY <1>2, PairParts DEF AcceptedOnce, RecordsTrue, ReviewInit, Init
<1>4. RequestsInOrder
  BY <1>2 DEF RequestsInOrder, ReceiptInOrder, ReviewInit, Init
<1> QED
  BY <1>1, <1>3, <1>4 DEF ReviewInv

LEMMA RequestsAreRequests ==
    /\ NoRequest \notin Request /\ Several \notin Request /\ NoRequest # Several
    /\ \A d \in Decisions : d # "none"
    /\ \A p \in Pairs, d \in Decisions : /\ [pair |-> p, decision |-> d] \in Request
                                         /\ [pair |-> p, decision |-> d].pair = p
                                         /\ [pair |-> p, decision |-> d].decision = d
<1>1. \A q \in Request : q.decision \notin {"none", "several"}
  BY DEF Request, Decisions
<1>2. NoRequest.decision = "none" /\ Several.decision = "several"
  BY DEF NoRequest, Several
<1>3. NoRequest # Several
  BY <1>2
<1> QED
  BY <1>1, <1>2, <1>3 DEF Request, Decisions

\* The request on a reviewer's desk.
LEMMA DeskAsked ==
    ASSUME ReviewInv, NEW v \in Reviewers, desk[v] # Away
    PROVE  /\ asked[desk[v].receipt] \in {Several, [pair |-> Pair(v), decision |-> Decision(v)]}
           /\ asked[desk[v].receipt] # NoRequest
<1>1. asked[desk[v].receipt] \in {Several, [pair |-> Pair(v), decision |-> Decision(v)]}
  BY DEF ReviewInv, RequestsInOrder
<1> QED
  BY <1>1, DeskTyped, RequestsAreRequests

LEMMA ResolveSafe ==
    ASSUME ReviewInv, NEW v \in Reviewers, Resolve(v)
    PROVE  ReviewInv'
<1>1. PICK r \in Receipts, p \in Pairs, d \in Decisions : Resolve(v)!2!(r, p, d)
  BY DEF Resolve
<1> DEFINE q == [pair |-> p, decision |-> d]
           e(ph) == [phase |-> ph, receipt |-> r, pair |-> p, decision |-> d,
                     status |-> batch[p[1]].status, token |-> token[p[1]],
                     held |-> cand[p[2]].batch = p[1], lapsed |-> FALSE]
<1>2. PICK phase \in DeskPhases :
        /\ desk' = [desk EXCEPT ![v] = e(phase)]
        /\ phase = "recording" => Reviewed(p[1], r, p)
        /\ phase \in {"checking", "starting", "committing", "stale"} => d = "accept_new"
        /\ phase = "keeping" => d = "accept_old"
  BY <1>1
<1>3. /\ UNCHANGED <<vars, made, successor, effect, receipts, resolution, token>>
      /\ conflict[p] # "none" /\ receipts[r] = "none"
      /\ asked' = [asked EXCEPT ![r] = IF @ \in {NoRequest, q} THEN q ELSE Several]
  BY <1>1 DEF Resolve
<1>4. /\ q \in Request /\ q # NoRequest /\ q # Several /\ q.pair = p /\ q.decision = d
      /\ e(phase) \in Desk
  <2>1. p[1] \in Batches /\ p[2] \in Candidates
    BY PairParts
  <2>2. batch[p[1]].status \in BatchStatuses /\ token[p[1]] \in Receipts \cup {NoReceipt}
    BY <2>1 DEF ReviewInv, ReviewTypeOK, TypeOK, BatchRow
  <2>3. q \in Request /\ q # NoRequest /\ q # Several /\ q.pair = p /\ q.decision = d
    BY RequestsAreRequests
  <2> QED
    BY <2>2, <2>3 DEF Desk
<1> HIDE DEF q
<1>5. ReviewTypeOK'
  <2>1. TypeOK'
    BY <1>3, StepTyped DEF ReviewInv, ReviewTypeOK
  <2>2. asked' \in [Receipts -> Request \cup {NoRequest, Several}]
    BY <1>3, <1>4 DEF ReviewInv, ReviewTypeOK
  <2>3. desk' \in [Reviewers -> Desk \cup {Away}]
    BY <1>2, <1>4 DEF ReviewInv, ReviewTypeOK
  <2> QED
    BY <1>3, <2>1, <2>2, <2>3 DEF ReviewInv, ReviewTypeOK
<1>6. /\ \A x \in Receipts : x # r => asked'[x] = asked[x]
      /\ asked[r] \in {NoRequest, q} => asked'[r] = q
      /\ asked[r] \notin {NoRequest, q} => asked'[r] = Several
  BY <1>3 DEF ReviewInv, ReviewTypeOK
<1>7. \A x \in Pairs : Effective(x)' = Effective(x) /\ \A s : Settled(x, s)' = Settled(x, s)
  BY <1>3 DEF Settled, Effective
<1>8. AcceptedOnce'
  BY <1>3, <1>7 DEF AcceptedOnce, ReviewInv, vars
<1>9. RecordsTrue'
  BY <1>3, <1>6 DEF RecordsTrue, TookEffect, ReviewInv, vars
<1>10. ASSUME NEW x \in Receipts
       PROVE  ReceiptInOrder(x)'
  <2>1. ReceiptInOrder(x)
    BY DEF ReviewInv, RequestsInOrder
  <2>2. CASE asked'[x] = asked[x]
    BY <1>3, <2>1, <2>2 DEF ReceiptInOrder, vars
  <2>3. CASE x = r /\ asked[r] = NoRequest
    BY <1>3, <1>4, <1>6, <2>1, <2>3 DEF ReceiptInOrder, vars
  <2>4. CASE asked'[x] = Several
    BY <1>3, <2>1, <2>4, RequestsAreRequests DEF ReceiptInOrder
  <2> QED
    BY <1>6, <2>2, <2>3, <2>4
<1>11. ASSUME NEW u \in Reviewers
       PROVE  DeskInvariant(u)'
  <2>1. CASE u = v
    <3>1. desk'[u] = e(phase)
      BY <1>2, <2>1 DEF ReviewInv, ReviewTypeOK
    <3>2. Pair(u)' = p /\ Decision(u)' = d /\ desk'[u].receipt = r /\ desk'[u].phase = phase
      BY <3>1 DEF Pair, Decision
    <3>3. asked'[r] \in {Several, q}
      BY <1>6
    <3>4. phase = "recording" => successor'[r] = "committed"
      BY <1>2, <1>3 DEF Reviewed
    <3> QED
      BY <1>2, <1>3, <3>2, <3>3, <3>4 DEF DeskInvariant, vars, q
  <2>2. CASE u # v
    <3>1. desk'[u] = desk[u]
      BY <1>2, <2>2 DEF ReviewInv, ReviewTypeOK
    <3>2. CASE desk[u] # Away
      <4>1. desk[u].receipt \in Receipts
            /\ asked[desk[u].receipt] # NoRequest
        BY <3>2, DeskTyped, DeskAsked
      <4>2. asked'[desk[u].receipt] \in {Several, asked[desk[u].receipt]}
        BY <1>6, <4>1
      <4>3. DeskInvariant(u)
        BY OrderParts DEF ReviewInv
      <4>4. Pair(u)' = Pair(u) /\ Decision(u)' = Decision(u)
        BY <3>1 DEF Pair, Decision
      <4> QED
        BY <1>3, <3>1, <3>2, <4>2, <4>3, <4>4 DEF DeskInvariant, vars
    <3> QED
      BY <3>1, <3>2 DEF DeskInvariant
  <2> QED
    BY <2>1, <2>2
<1>12. EffectsReal' /\ SettledFree'
  BY <1>3, <1>7, OrderParts DEF EffectsReal, IsOpen, SettledFree, ReviewInv, vars
<1>13. RequestsInOrder'
  BY <1>10, <1>11, <1>12, OrderParts
<1> QED
  BY <1>5, <1>8, <1>9, <1>13 DEF ReviewInv

\* A step in which no request comes into effect or is answered `settled`: a
\* successor proposal is made, or an open one invalidated.
NoEffect(r) ==
    \/ /\ made'[r] = made[r]
       /\ successor'[r] = successor[r]
          \/ {successor[r], successor'[r]} \subseteq {"proposed", "invalidated"}
    \/ /\ successor[r] = "none" /\ successor'[r] = "proposed"
       /\ \E p \in Pairs : /\ made'[r] = {p}
                           /\ asked[r] \in {Several, [pair |-> p, decision |-> "accept_new"]}

Uneventful ==
    /\ asked' = asked /\ resolution' = resolution /\ effect' = effect
    /\ \A r \in Receipts : NoEffect(r)
    /\ \A r \in Receipts : receipts'[r] = "settled" <=> receipts[r] = "settled"
    /\ \A p \in Pairs : /\ conflict[p] # "none" => conflict'[p] # "none"
                        /\ conflict'[p] = "resolved" => conflict[p] = "resolved"
    /\ \A c \in Candidates : cand[c].status = "settled" => cand'[c] = cand[c]
    /\ \A c \in Candidates : cand'[c].status = "settled" =>
          cand'[c] = cand[c] \/ cand'[c].batch = NoBatch

\* The desk of a reviewer who goes on with the same request, on the same way.
SameRequest(u) ==
    /\ desk[u] # Away
    /\ desk'[u].receipt = desk[u].receipt /\ Pair(u)' = Pair(u) /\ Decision(u)' = Decision(u)
    /\ desk'[u].phase \in {"checking", "starting", "committing", "stale"} =>
          desk[u].phase \in {"checking", "starting", "committing", "stale"}
    /\ desk'[u].phase = "keeping" => desk[u].phase = "keeping"

\* The desks of an uneventful step.
SameDesks ==
    \A u \in Reviewers : desk'[u] # Away =>
        /\ SameRequest(u)
        /\ desk'[u].phase = "recording" => desk[u].phase = "recording"

LEMMA SameEffects ==
    ASSUME effect' = effect, \A r \in Receipts : successor'[r] = successor[r] \/ NoEffect(r)
    PROVE  \A p \in Pairs : /\ \A s \in {"committed", "no_change"} : Settled(p, s)' = Settled(p, s)
                            /\ Effective(p)' = Effective(p)
<1>1. \A p \in Pairs, s \in {"committed", "no_change"} : Settled(p, s)' = Settled(p, s)
  BY DEF Settled, NoEffect
<1> QED
  BY <1>1 DEF Effective

\* A desk after a step in which requests, conflicts and commits stay.
LEMMA DeskStays ==
    ASSUME ReviewInv, NEW u \in Reviewers, desk'[u] # Away, SameRequest(u), asked' = asked,
           \A p \in Pairs : conflict[p] # "none" => conflict'[p] # "none",
           desk'[u].phase = "recording" => successor'[desk[u].receipt] = "committed"
    PROVE  DeskInvariant(u)'
<1>1. DeskInvariant(u) /\ Pair(u) \in Pairs
  BY OrderParts, DeskTyped DEF ReviewInv, SameRequest
<1> QED
  BY <1>1 DEF DeskInvariant, SameRequest

LEMMA UneventfulSafe ==
    ASSUME ReviewInv, Uneventful, SameDesks
    PROVE  AcceptedOnce' /\ RecordsTrue' /\ RequestsInOrder'
<1>1. \A p \in Pairs : /\ \A s \in {"committed", "no_change"} : Settled(p, s)' = Settled(p, s)
                       /\ Effective(p)' = Effective(p)
  BY SameEffects DEF Uneventful
<1>2. AcceptedOnce'
  BY <1>1, PairParts DEF AcceptedOnce, Uneventful, ReviewInv
<1>3. RecordsTrue'
  <2>1. \A r \in Receipts : /\ receipts'[r] = "settled" <=> receipts[r] = "settled"
                            /\ successor[r] \in {"committed", "no_change"} =>
                                  successor'[r] = successor[r]
    BY DEF Uneventful, NoEffect
  <2> QED
    BY <2>1 DEF RecordsTrue, TookEffect, Uneventful, ReviewInv
<1>4. ASSUME NEW r \in Receipts
      PROVE  ReceiptInOrder(r)'
  <2> DEFINE q == asked[r]
  <2>1. ReceiptInOrder(r) /\ NoEffect(r) /\ asked' = asked /\ effect' = effect
    BY DEF ReviewInv, RequestsInOrder, Uneventful
  <2>2. q \notin {NoRequest, Several} => q.pair \in Pairs
    BY DEF ReviewInv, ReviewTypeOK, Request
  <2>3. q \notin {NoRequest, Several} => conflict'[q.pair] # "none"
    BY <2>1, <2>2 DEF ReceiptInOrder, Uneventful
  <2>4. CASE made'[r] = made[r] /\ successor'[r] = successor[r]
    BY <2>1, <2>3, <2>4 DEF ReceiptInOrder
  <2>5. CASE /\ made'[r] = made[r]
             /\ {successor[r], successor'[r]} \subseteq {"proposed", "invalidated"}
    BY <2>1, <2>3, <2>5 DEF ReceiptInOrder
  <2>6. ASSUME NEW p \in Pairs, successor[r] = "none", successor'[r] = "proposed",
               made'[r] = {p}, q \in {Several, [pair |-> p, decision |-> "accept_new"]}
        PROVE  ReceiptInOrder(r)'
    <3>0. "accept_new" \in Decisions
      BY DEF Decisions
    <3>1. q # NoRequest /\ (q # Several => q.pair = p /\ q.decision = "accept_new")
      BY <2>6, <3>0, RequestsAreRequests
    <3> QED
      BY <2>1, <2>3, <2>6, <3>1 DEF ReceiptInOrder
  <2> QED
    BY <2>1, <2>4, <2>5, <2>6 DEF NoEffect
<1>5. ASSUME NEW u \in Reviewers
      PROVE  DeskInvariant(u)'
  <2>1. CASE desk'[u] = Away
    BY <2>1 DEF DeskInvariant
  <2>2. CASE desk'[u] # Away
    <3>1. SameRequest(u) /\ (desk'[u].phase = "recording" => desk[u].phase = "recording")
      BY <2>2 DEF SameDesks
    <3>2. desk[u].receipt \in Receipts /\ DeskInvariant(u)
      BY <3>1, DeskTyped, OrderParts DEF SameRequest, ReviewInv
    <3>3. successor[desk[u].receipt] = "committed" => successor'[desk[u].receipt] = "committed"
      BY <3>2 DEF Uneventful, NoEffect
    <3> QED
      BY <2>2, <3>1, <3>2, <3>3, DeskStays DEF Uneventful, DeskInvariant, SameRequest
  <2> QED
    BY <2>1, <2>2
<1>6. EffectsReal'
  BY <1>1, OrderParts DEF EffectsReal, IsOpen, Uneventful, ReviewInv
<1>7. SettledFree'
  BY OrderParts DEF SettledFree, Uneventful, ReviewInv
<1>8. RequestsInOrder'
  BY <1>4, <1>5, <1>6, <1>7, OrderParts
<1> QED
  BY <1>2, <1>3, <1>8

\* The step leaves the requests and what became of them as they are.
LEMMA NothingMoves ==
    ASSUME ReviewInv, UNCHANGED <<cand, conflict, asked, made, successor, effect, resolution>>,
           \A r \in Receipts : receipts'[r] = "settled" <=> receipts[r] = "settled"
    PROVE  Uneventful
  BY DEF Uneventful, NoEffect

\* A reviewer who leaves, and one who turns to another phase.
LEMMA DesksStay ==
    ASSUME ReviewInv, NEW v \in Reviewers, desk[v] # Away
    PROVE  /\ Quit(v) => SameDesks
           /\ desk' = desk => SameDesks
<1>1. \A u \in Reviewers : desk'[u] = desk[u] /\ desk[u] # Away => SameRequest(u)
  BY DEF SameRequest, Pair, Decision
<1>2. Quit(v) => \A u \in Reviewers : desk'[u] = Away \/ desk'[u] = desk[u]
  BY DEF Quit, ReviewInv, ReviewTypeOK
<1> QED
  BY <1>1, <1>2 DEF SameDesks

LEMMA WorkersSafe ==
    ASSUME ReviewInv, [Next]_vars, UNCHANGED reviewVars
    PROVE  ReviewInv'
<1>1. ReviewTypeOK'
  BY StepTyped DEF ReviewInv, ReviewTypeOK, reviewVars
<1>2. WorkersLeave
  BY WorkersStep DEF ReviewInv, ReviewTypeOK, vars, WorkersLeave
<1>3. Uneventful
  BY <1>2 DEF Uneventful, NoEffect, reviewVars, WorkersLeave, ReviewInv, RequestsInOrder
<1>4. SameDesks
  BY DEF SameDesks, SameRequest, Pair, Decision, reviewVars
<1> QED
  BY <1>1, <1>3, <1>4, UneventfulSafe DEF ReviewInv

LEMMA AnswerSafe ==
    ASSUME ReviewInv, NEW v \in Reviewers, Answer(v)
    PROVE  ReviewInv'
<1>1. /\ desk[v] # Away /\ desk[v].receipt \in Receipts /\ Quit(v)
      /\ UNCHANGED <<vars, asked, made, successor, effect, resolution, token>>
      /\ \E result \in {"rejected", "awaiting_review", "stale_review"} : Save(v, result)
  BY DeskTyped DEF Answer, At
<1>2. receipts' \in [Receipts -> Results \cup {"none"}]
      /\ \A r \in Receipts : receipts'[r] = "settled" <=> receipts[r] = "settled"
  BY <1>1 DEF Save, Results, ReviewInv, ReviewTypeOK
<1>3. TypeOK' /\ DesksTyped
  BY <1>1, StepTyped, DeskSteps DEF ReviewInv, ReviewTypeOK
<1>4. ReviewTypeOK'
  BY <1>1, <1>2, <1>3 DEF ReviewInv, ReviewTypeOK, DesksTyped
<1>5. Uneventful
  BY <1>1, <1>2, NothingMoves DEF vars
<1>6. SameDesks
  BY <1>1, DesksStay
<1> QED
  BY <1>4, <1>5, <1>6, UneventfulSafe DEF ReviewInv

\* The reviewer's desk after the comparison.
LEMMA CheckedDesk ==
    ASSUME ReviewInv, NEW v \in Reviewers, CheckTarget(v)
    PROVE  \E ph \in {"stale", "starting", "committing"}, l \in BOOLEAN :
              desk' = [desk EXCEPT ![v] = [desk[v] EXCEPT !.phase = ph, !.lapsed = l]]
<1> DEFINE b == Pair(v)[1]
           fresh == Current(b, Target(b, Pair(v)[2]))
           ph == IF ~fresh THEN "stale"
                 ELSE IF desk[v].status = "awaiting_review" THEN "starting"
                 ELSE "committing"
           l == desk[v].status = "review_committing" /\ batch[b].lease # "live"
<1>1. ph \in {"stale", "starting", "committing"} /\ l \in BOOLEAN
  OBVIOUS
<1>2. desk' = [desk EXCEPT ![v].phase = ph, ![v].lapsed = l]
  BY DEF CheckTarget
<1>3. desk' = [desk EXCEPT ![v] = [desk[v] EXCEPT !.phase = ph, !.lapsed = l]]
  <2> HIDE DEF ph, l
  <2> QED
    BY <1>2 DEF ReviewInv, ReviewTypeOK
<1> QED
  BY <1>1, <1>3

\* A desk that changes its phase and nothing of its request.
GoesOn(v, ph) ==
    /\ desk'[v] \in Desk /\ desk'[v].phase = ph
    /\ desk'[v].receipt = desk[v].receipt
    /\ desk'[v].pair = desk[v].pair /\ desk'[v].decision = desk[v].decision
    /\ \A u \in Reviewers : u # v => desk'[u] = desk[u]

LEMMA DeskGoesOn ==
    ASSUME ReviewInv, NEW v \in Reviewers, desk[v] # Away, NEW ph \in DeskPhases
    PROVE  /\ Turn(v, ph) => GoesOn(v, ph)
           /\ \A r \in Receipts :
                desk' = [desk EXCEPT ![v] = [desk[v] EXCEPT !.phase = ph, !.token = r]]
                    => GoesOn(v, ph)
           /\ \A l \in BOOLEAN :
                desk' = [desk EXCEPT ![v] = [desk[v] EXCEPT !.phase = ph, !.lapsed = l]]
                    => GoesOn(v, ph)
<1>1. desk[v] \in Desk /\ desk \in [Reviewers -> Desk \cup {Away}]
  BY DeskTyped DEF ReviewInv, ReviewTypeOK
<1>2. ASSUME NEW e \in Desk, desk' = [desk EXCEPT ![v] = e], e.phase = ph,
             e.receipt = desk[v].receipt, e.pair = desk[v].pair, e.decision = desk[v].decision
      PROVE  GoesOn(v, ph)
  BY <1>1, <1>2 DEF GoesOn
<1>3. ASSUME NEW e \in Desk, desk' = [desk EXCEPT ![v] = e],
             e = [desk[v] EXCEPT !.phase = ph]
             \/ (\E r \in Receipts : e = [desk[v] EXCEPT !.phase = ph, !.token = r])
             \/ (\E l \in BOOLEAN : e = [desk[v] EXCEPT !.phase = ph, !.lapsed = l])
      PROVE  GoesOn(v, ph)
  <2>1. /\ e.phase = ph /\ e.receipt = desk[v].receipt
        /\ e.pair = desk[v].pair /\ e.decision = desk[v].decision
    BY <1>1, <1>3 DEF Desk
  <2> QED
    BY <1>2, <1>3, <2>1
<1>4. Turn(v, ph) => desk' = [desk EXCEPT ![v] = [desk[v] EXCEPT !.phase = ph]]
  BY DEF Turn
<1> QED
  BY <1>1, <1>3, <1>4, DesksUpdated

LEMMA GoesOnSame ==
    ASSUME ReviewInv, NEW v \in Reviewers, desk[v] # Away, NEW ph \in DeskPhases, GoesOn(v, ph),
           ph # "keeping",
           ph \in {"checking", "starting", "committing", "stale"} =>
              desk[v].phase \in {"checking", "starting", "committing", "stale"}
    PROVE  /\ \A u \in Reviewers : desk'[u] # Away => SameRequest(u)
           /\ \A u \in Reviewers : u # v => desk'[u] = desk[u]
           /\ ph # "recording" => SameDesks
<1>1. SameRequest(v)
  BY DEF SameRequest, GoesOn, Pair, Decision
<1>2. \A u \in Reviewers : u # v => desk'[u] = desk[u]
  BY DEF GoesOn
<1>3. \A u \in Reviewers : u # v /\ desk'[u] # Away => SameRequest(u)
  BY <1>2 DEF SameRequest, Pair, Decision
<1> QED
  BY <1>1, <1>2, <1>3 DEF SameDesks, GoesOn

LEMMA CheckTargetSafe ==
    ASSUME ReviewInv, NEW v \in Reviewers, CheckTarget(v)
    PROVE  ReviewInv'
<1>1. PICK ph \in {"stale", "starting", "committing"}, l \in BOOLEAN :
        desk' = [desk EXCEPT ![v] = [desk[v] EXCEPT !.phase = ph, !.lapsed = l]]
  BY CheckedDesk
<1>2. /\ desk[v] # Away /\ desk[v] \in Desk /\ desk[v].phase = "checking"
      /\ UNCHANGED <<vars, asked, made, successor, effect, receipts, resolution, token>>
  BY DeskTyped DEF CheckTarget, At
<1>3. desk' \in [Reviewers -> Desk \cup {Away}]
  BY <1>1, <1>2, DesksUpdated DEF ReviewInv, ReviewTypeOK, DeskPhases
<1>4. ReviewTypeOK'
  BY <1>2, <1>3, StepTyped DEF ReviewInv, ReviewTypeOK
<1>5. Uneventful
  BY <1>2, NothingMoves DEF vars
<1>6. SameDesks
  <2>1. ph \in DeskPhases
    BY DEF DeskPhases
  <2>2. GoesOn(v, ph)
    BY <1>1, <1>2, <2>1, DeskGoesOn
  <2> QED
    BY <1>2, <2>1, <2>2, GoesOnSame
<1> QED
  BY <1>4, <1>5, <1>6, UneventfulSafe DEF ReviewInv

LEMMA StaleSafe ==
    ASSUME ReviewInv, NEW v \in Reviewers, Stale(v)
    PROVE  ReviewInv'
<1> DEFINE p == Pair(v)
           b == p[1]
<1>1. /\ desk[v] # Away /\ desk[v] \in Desk /\ b \in Batches /\ p \in Pairs
      /\ Turn(v, "saying_stale")
      /\ UNCHANGED <<head, candidateVars, conflict, work, faults, asked, made, effect, receipts,
                     resolution>>
  BY DeskTyped DEF Stale, At
<1>2. successor' = [r \in Receipts |->
                IF p \in made[r] /\ successor[r] = "proposed" THEN "invalidated"
                ELSE successor[r]]
  BY DEF Stale
<1>3. batch' \in [Batches -> BatchRow]
  <2>1. batch' = [batch EXCEPT ![b] = Freed(batch[b], "awaiting_review")]
    BY DEF Stale
  <2> QED
    BY <1>1, <2>1, RowsTyped DEF ReviewInv, ReviewTypeOK, TypeOK, BatchStatuses
<1>4. prop' \in [Pairs -> ProposalRow]
  <2>1. prop' = [prop EXCEPT ![p] = [prop[p] EXCEPT !.status = "invalidated"]]
    BY DEF Stale
  <2> QED
    BY <1>1, <2>1, RowsUpdated DEF ReviewInv, ReviewTypeOK, TypeOK, ProposalStatuses
<1>5. TypeOK' /\ DesksTyped
  BY <1>1, <1>3, <1>4, DeskSteps
  DEF ReviewInv, ReviewTypeOK, TypeOK, candidateVars, DeskPhases
<1>6. successor' \in [Receipts -> SuccessorStatuses] /\ token' \in [Batches -> Receipts \cup {NoReceipt}]
  BY <1>2 DEF Stale, ReviewInv, ReviewTypeOK, SuccessorStatuses
<1>7. ReviewTypeOK'
  BY <1>1, <1>5, <1>6 DEF ReviewInv, ReviewTypeOK, DesksTyped
<1>8. Uneventful
  BY <1>1, <1>2 DEF Uneventful, NoEffect, candidateVars, ReviewInv, RequestsInOrder
<1>9. SameDesks
  <2>1. "saying_stale" \in DeskPhases
    BY DEF DeskPhases
  <2>2. GoesOn(v, "saying_stale")
    BY <1>1, <2>1, DeskGoesOn
  <2> QED
    BY <1>1, <2>1, <2>2, GoesOnSame
<1> QED
  BY <1>7, <1>8, <1>9, UneventfulSafe DEF ReviewInv

\* The successor proposal of a request is made.
MakesSuccessor(v) ==
    LET r == desk[v].receipt
        p == Pair(v)
        b == p[1]
    IN  /\ successor[r] = "none"
        /\ successor' = [successor EXCEPT ![r] = "proposed"]
        /\ made' = [made EXCEPT ![r] = {p}]
        /\ prop' = [prop EXCEPT ![p].status = "superseded"]
        /\ batch' = [batch EXCEPT ![b].status = "review_committing",
                                  ![b].holder = "reviewer",
                                  ![b].lease = "live"]
        /\ token' = [token EXCEPT ![b] = r]
        /\ desk' = [desk EXCEPT ![v].phase = "committing", ![v].token = r]

LEMMA MakesSuccessorUneventful ==
    ASSUME ReviewInv, NEW v \in Reviewers, Start(v), MakesSuccessor(v)
    PROVE  /\ Uneventful
           /\ desk' = [desk EXCEPT ![v] =
                          [desk[v] EXCEPT !.phase = "committing", !.token = desk[v].receipt]]
           /\ GoesOn(v, "committing") /\ SameDesks
<1> DEFINE p == Pair(v)
           r == desk[v].receipt
<1>1. /\ desk[v] # Away /\ desk[v] \in Desk /\ p \in Pairs /\ r \in Receipts
      /\ desk[v].phase = "starting"
      /\ UNCHANGED <<head, candidateVars, conflict, work, faults, asked, effect, receipts,
                     resolution>>
  BY DeskTyped DEF Start, At
<1>2. asked[r] \in {Several, [pair |-> p, decision |-> "accept_new"]}
  BY <1>1 DEF ReviewInv, RequestsInOrder
<1>3. \A x \in Receipts : NoEffect(x)
  <2>1. \A x \in Receipts : x # r => made'[x] = made[x] /\ successor'[x] = successor[x]
    BY <1>1 DEF MakesSuccessor, ReviewInv, ReviewTypeOK
  <2>2. made'[r] = {p} /\ successor[r] = "none" /\ successor'[r] = "proposed"
    BY <1>1 DEF MakesSuccessor, ReviewInv, ReviewTypeOK
  <2> QED
    BY <1>1, <1>2, <2>1, <2>2 DEF NoEffect
<1>4. Uneventful
  BY <1>1, <1>3 DEF Uneventful, candidateVars, ReviewInv, RequestsInOrder
<1>5. desk' = [desk EXCEPT ![v] = [desk[v] EXCEPT !.phase = "committing", !.token = r]]
  BY <1>1 DEF MakesSuccessor, ReviewInv, ReviewTypeOK, Desk
<1>6. "committing" \in DeskPhases
  BY DEF DeskPhases
<1>7. GoesOn(v, "committing")
  BY <1>1, <1>5, <1>6, DeskGoesOn
<1> QED
  BY <1>1, <1>4, <1>5, <1>6, <1>7, GoesOnSame

LEMMA StartSafe ==
    ASSUME ReviewInv, NEW v \in Reviewers, Start(v)
    PROVE  ReviewInv'
<1> DEFINE p == Pair(v)
           b == p[1]
           r == desk[v].receipt
<1>1. /\ desk[v] # Away /\ desk[v] \in Desk /\ b \in Batches /\ p \in Pairs /\ r \in Receipts
      /\ UNCHANGED <<head, candidateVars, conflict, work, faults, asked, effect, receipts,
                     resolution>>
  BY DeskTyped DEF Start, At
<1>2. CASE /\ Quit(v)
           /\ UNCHANGED <<made, successor, prop, batch, token>>
  <2>1. TypeOK' /\ DesksTyped
    BY <1>1, <1>2, StepTyped, DeskSteps
    DEF ReviewInv, ReviewTypeOK, vars, candidateVars, proposalVars
  <2>2. ReviewTypeOK'
    BY <1>1, <1>2, <2>1 DEF ReviewInv, ReviewTypeOK, DesksTyped
  <2>3. Uneventful
    BY <1>1, <1>2, NothingMoves DEF candidateVars
  <2>4. SameDesks
    BY <1>1, <1>2, DesksStay
  <2> QED
    BY <2>2, <2>3, <2>4, UneventfulSafe DEF ReviewInv
<1>3. CASE MakesSuccessor(v)
  <2>1. batch' \in [Batches -> BatchRow]
    <3>1. batch[b] \in BatchRow
      BY <1>1 DEF ReviewInv, ReviewTypeOK, TypeOK
    <3>2. [batch[b] EXCEPT !.status = "review_committing", !.holder = "reviewer",
                           !.lease = "live"] \in BatchRow
      BY <3>1 DEF BatchRow, BatchStatuses
    <3>3. batch' = [batch EXCEPT ![b] =
            [batch[b] EXCEPT !.status = "review_committing", !.holder = "reviewer",
                             !.lease = "live"]]
      BY <1>3, <3>1 DEF MakesSuccessor, ReviewInv, ReviewTypeOK, TypeOK, BatchRow
    <3> QED
      BY <1>1, <3>2, <3>3 DEF ReviewInv, ReviewTypeOK, TypeOK
  <2>2. prop' \in [Pairs -> ProposalRow]
    <3>1. prop' = [prop EXCEPT ![p] = [prop[p] EXCEPT !.status = "superseded"]]
      BY <1>3 DEF MakesSuccessor
    <3> QED
      BY <1>1, <3>1, RowsUpdated DEF ReviewInv, ReviewTypeOK, TypeOK, ProposalStatuses
  <2>3. TypeOK'
    BY <1>1, <2>1, <2>2 DEF ReviewInv, ReviewTypeOK, TypeOK, candidateVars
  <2>4. Uneventful /\ SameDesks
        /\ desk' = [desk EXCEPT ![v] = [desk[v] EXCEPT !.phase = "committing", !.token = r]]
    BY <1>3, MakesSuccessorUneventful
  <2>5. desk' \in [Reviewers -> Desk \cup {Away}]
    BY <1>1, <2>4, DesksUpdated DEF ReviewInv, ReviewTypeOK, DeskPhases
  <2>6. /\ token' \in [Batches -> Receipts \cup {NoReceipt}]
        /\ successor' \in [Receipts -> SuccessorStatuses]
        /\ made' \in [Receipts -> SUBSET Pairs]
    BY <1>1, <1>3 DEF MakesSuccessor, ReviewInv, ReviewTypeOK, SuccessorStatuses
  <2>7. ReviewTypeOK'
    BY <1>1, <2>3, <2>5, <2>6 DEF ReviewInv, ReviewTypeOK
  <2> QED
    BY <2>4, <2>7, UneventfulSafe DEF ReviewInv
<1> QED
  BY <1>2, <1>3 DEF Start, MakesSuccessor

\* A request that takes effect: its successor proposal is open and then
\* committed, or new and without a change.
TakesEffect(r, p, s) ==
    /\ asked' = asked
    /\ effect' = [effect EXCEPT ![r] = {p}] /\ successor' = [successor EXCEPT ![r] = s]
    /\ \/ s = "committed" /\ successor[r] = "proposed" /\ made' = made
       \/ s = "no_change" /\ successor[r] = "none" /\ made' = [made EXCEPT ![r] = {p}]

Asks(r, p, s) ==
    \E d \in Decisions : /\ asked[r] \in {Several, [pair |-> p, decision |-> d]}
                         /\ s = "no_change" <=> d = "accept_old"

LEMMA EffectAdded ==
    ASSUME ReviewInv, NEW r \in Receipts, NEW p \in Pairs, NEW s, TakesEffect(r, p, s)
    PROVE  /\ Settled(p, s)' = Settled(p, s) \cup {r}
           /\ Effective(p)' = Effective(p) \cup {r}
           /\ \A q \in Pairs, t \in {"committed", "no_change"} :
                 q # p \/ t # s => Settled(q, t)' = Settled(q, t)
           /\ \A q \in Pairs : q # p => Effective(q)' = Effective(q)
           /\ \A x \in Receipts : x # r => successor'[x] = successor[x] /\ effect'[x] = effect[x]
           /\ successor'[r] = s /\ effect'[r] = {p} /\ effect[r] = {}
<1>1. \A x \in Receipts : /\ successor'[x] = IF x = r THEN s ELSE successor[x]
                          /\ effect'[x] = IF x = r THEN {p} ELSE effect[x]
  BY DEF TakesEffect, ReviewInv, ReviewTypeOK
<1>2. effect[r] = {}
  BY DEF TakesEffect, ReviewInv, RequestsInOrder, ReceiptInOrder
<1>3. \A q \in Pairs, t \in {"committed", "no_change"} :
        /\ q = p /\ t = s => Settled(q, t)' = Settled(q, t) \cup {r}
        /\ q # p \/ t # s => Settled(q, t)' = Settled(q, t)
  BY <1>1, <1>2 DEF Settled
<1>4. \A q \in Pairs : Effective(q)' = IF q = p THEN Effective(q) \cup {r} ELSE Effective(q)
  BY <1>1, <1>2 DEF Effective
<1>5. s \in {"committed", "no_change"}
  BY DEF TakesEffect
<1> QED
  BY <1>1, <1>2, <1>3, <1>4, <1>5

LEMMA EffectOrdered ==
    ASSUME ReviewInv, NEW r \in Receipts, NEW p \in Pairs, NEW s, TakesEffect(r, p, s),
           Asks(r, p, s), conflict[p] # "none",
           \A q \in Pairs : conflict[q] # "none" => conflict'[q] # "none"
    PROVE  EffectsReal' /\ \A x \in Receipts : ReceiptInOrder(x)'
<1>1. EffectsReal'
  <2>1. \A q \in Pairs : q # p => Effective(q)' = Effective(q)
    BY EffectAdded
  <2>2. EffectsReal
    BY OrderParts DEF ReviewInv
  <2> QED
    BY <2>1, <2>2 DEF EffectsReal, IsOpen
<1>2. ASSUME NEW x \in Receipts
      PROVE  ReceiptInOrder(x)'
  <2> DEFINE q == asked[x]
  <2>1. ReceiptInOrder(x) /\ asked' = asked
    BY DEF ReviewInv, RequestsInOrder, TakesEffect
  <2>2. q \notin {NoRequest, Several} => q.pair \in Pairs
    BY DEF ReviewInv, ReviewTypeOK, Request
  <2>3. q \notin {NoRequest, Several} => conflict'[q.pair] # "none"
    BY <2>1, <2>2 DEF ReceiptInOrder
  <2>4. CASE x # r
    <3>1. successor'[x] = successor[x] /\ effect'[x] = effect[x]
      BY <2>4, EffectAdded
    <3>2. made'[x] = made[x]
      BY <2>4 DEF TakesEffect, ReviewInv, ReviewTypeOK
    <3> QED
      BY <2>1, <2>3, <3>1, <3>2 DEF ReceiptInOrder
  <2>5. CASE x = r
    <3>1. successor'[r] = s /\ effect'[r] = {p} /\ s \in {"committed", "no_change"}
      BY EffectAdded DEF TakesEffect
    <3>2. PICK d \in Decisions : /\ q \in {Several, [pair |-> p, decision |-> d]}
                                 /\ s = "no_change" <=> d = "accept_old"
      BY <2>5 DEF Asks
    <3>3. q # NoRequest /\ (q # Several => q.pair = p /\ q.decision = d)
      BY <3>2, RequestsAreRequests
    <3>4. made'[r] # {} /\ (q # Several => made'[r] \subseteq {p})
      <4>1. CASE s = "committed"
        BY <2>1, <2>5, <3>3, <4>1 DEF TakesEffect, ReceiptInOrder
      <4>2. CASE s = "no_change"
        BY <4>2 DEF TakesEffect, ReviewInv, ReviewTypeOK
      <4> QED
        BY <3>1, <4>1, <4>2
    <3> QED
      BY <2>1, <2>3, <2>5, <3>1, <3>2, <3>3, <3>4 DEF ReceiptInOrder
  <2> QED
    BY <2>4, <2>5
<1> QED
  BY <1>1, <1>2

LEMMA CommitReviewSafe ==
    ASSUME ReviewInv, NEW v \in Reviewers, CommitReview(v)
    PROVE  ReviewInv'
<1> DEFINE p == Pair(v)
           b == p[1]
           c == p[2]
           r == desk[v].receipt
           m == Target(b, c)
<1>1. /\ desk[v] # Away /\ desk[v] \in Desk /\ b \in Batches /\ p \in Pairs /\ r \in Receipts
      /\ c \in Candidates /\ p = <<b, c>> /\ conflict[p] # "none"
      /\ desk[v].phase = "committing"
      /\ UNCHANGED <<proposalVars, work, faults, asked, made, receipts, resolution>>
  BY DeskTyped DEF CommitReview, At
<1>2. CASE /\ Quit(v)
           /\ UNCHANGED <<head, candidateVars, successor, effect, batch, token>>
  <2>1. TypeOK' /\ DesksTyped
    BY <1>1, <1>2, StepTyped, DeskSteps
    DEF ReviewInv, ReviewTypeOK, vars, candidateVars, proposalVars
  <2>2. ReviewTypeOK'
    BY <1>1, <1>2, <2>1 DEF ReviewInv, ReviewTypeOK, DesksTyped
  <2>3. Uneventful
    BY <1>1, <1>2, NothingMoves DEF candidateVars, proposalVars
  <2>4. SameDesks
    BY <1>1, <1>2, DesksStay
  <2> QED
    BY <2>2, <2>3, <2>4, UneventfulSafe DEF ReviewInv
<1>3. CASE /\ MayCommit(v)
           /\ head' = [head EXCEPT ![m] = NewHead(m, "refine")]
           /\ Dismiss(p)
           /\ successor' = [successor EXCEPT ![r] = "committed"]
           /\ effect' = [effect EXCEPT ![r] = {p}]
           /\ batch' = [batch EXCEPT ![b] = Freed(batch[b], "settled")]
           /\ token' = [token EXCEPT ![b] = NoReceipt]
           /\ Turn(v, "recording")
  <2>1. /\ successor[r] = "proposed" /\ Held(b, c) /\ Current(b, m)
    BY <1>3 DEF MayCommit
  <2>2. head' \in [Memories -> [state : {"active", "retired"}, rev : 1..MaxRevision]]
    <3>1. CASE m \in Memories
      <4>1. head[m].rev = batch[b].base[m] /\ batch[b].base[m] \in 0..(MaxRevision - 1)
        BY <1>1, <2>1, <3>1 DEF Current, ReviewInv, ReviewTypeOK, TypeOK, BatchRow
      <4>2. head[m].rev + 1 \in 1..MaxRevision
        BY <4>1, BatchAssumption
      <4> QED
        BY <1>3, <3>1, <4>2 DEF NewHead, ReviewInv, ReviewTypeOK, TypeOK
    <3>2. CASE m \notin Memories
      BY <1>3, <3>2 DEF ReviewInv, ReviewTypeOK, TypeOK
    <3> QED
      BY <3>1, <3>2
  <2>3. batch' \in [Batches -> BatchRow]
    BY <1>1, <1>3, RowsTyped DEF ReviewInv, ReviewTypeOK, TypeOK, BatchStatuses
  <2>4. cand' = [cand EXCEPT ![c] = [status |-> "settled", batch |-> NoBatch]]
        /\ open' \subseteq open
    BY <1>3 DEF Dismiss
  <2>5. TypeOK'
    BY <1>1, <2>2, <2>3, <2>4
    DEF ReviewInv, ReviewTypeOK, TypeOK, CandidateStatuses, proposalVars
  <2>6. DesksTyped
    BY <1>1, <1>3, DeskSteps DEF DeskPhases
  <2>7. ReviewTypeOK'
    BY <1>1, <1>3, <2>5, <2>6 DEF ReviewInv, ReviewTypeOK, DesksTyped, SuccessorStatuses
  <2>8. TakesEffect(r, p, "committed")
    BY <1>1, <1>3, <2>1 DEF TakesEffect
  <2>9. /\ cand'[c].status = "settled" /\ cand'[c].batch = NoBatch
        /\ \A d \in Candidates : d # c => cand'[d] = cand[d]
    BY <1>1, <2>4 DEF ReviewInv, ReviewTypeOK, TypeOK
  <2>10. AcceptedOnce'
    <3>1. Settled(p, "committed") = {}
      BY <1>1, <2>1 DEF ReviewInv, AcceptedOnce, Held
    <3>2. ASSUME NEW q \in Pairs, q = p
          PROVE  Settled(q, "committed")' = {r}
      <4>1. TakesEffect(r, q, "committed") /\ Settled(q, "committed") = {}
        BY <2>8, <3>1, <3>2
      <4> QED
        BY <1>1, <4>1, EffectAdded
    <3>3. \A q \in Pairs : q # p => Settled(q, "committed")' = Settled(q, "committed")
      BY <1>1, <2>8, EffectAdded
    <3>4. \A q \in Pairs : q[2] \in Candidates
      BY PairParts
    <3>5. ASSUME NEW q \in Pairs
          PROVE  /\ \A x, y \in Settled(q, "committed")' : x = y
                 /\ Settled(q, "committed")' # {} => cand'[q[2]].status = "settled"
      <4>1. CASE q = p
        BY <2>9, <3>2, <4>1
      <4>2. CASE q # p
        <5>1. /\ \A x, y \in Settled(q, "committed") : x = y
              /\ Settled(q, "committed") # {} => cand[q[2]].status = "settled"
          BY DEF ReviewInv, AcceptedOnce
        <5> QED
          BY <2>9, <3>3, <3>4, <4>2, <5>1
      <4> QED
        BY <4>1, <4>2
    <3> QED
      BY <3>5 DEF AcceptedOnce
  <2>11. RecordsTrue'
    <3>1. \A x \in Receipts : x # r => successor'[x] = successor[x] /\ effect'[x] = effect[x]
      BY <1>1, <2>8, EffectAdded
    <3>2. receipts[r] # "settled"
      BY <1>1, <2>1 DEF ReviewInv, RecordsTrue
    <3> QED
      BY <1>1, <3>1, <3>2 DEF RecordsTrue, TookEffect, ReviewInv, proposalVars
  <2>12. RequestsInOrder'
    <3>1. Asks(r, p, "committed")
      <4>1. Decision(v) = "accept_new" /\ Decision(v) \in Decisions
        BY <1>1, DeskTyped DEF ReviewInv, RequestsInOrder
      <4> QED
        BY <1>1, <4>1, DeskAsked DEF Asks
    <3>2. EffectsReal' /\ \A x \in Receipts : ReceiptInOrder(x)'
      BY <1>1, <2>8, <3>1, EffectOrdered DEF proposalVars
    <3>3. ASSUME NEW u \in Reviewers, desk'[u] # Away
          PROVE  DeskInvariant(u)'
      <4>1. "recording" \in DeskPhases
        BY DEF DeskPhases
      <4>2. GoesOn(v, "recording")
        BY <1>1, <1>3, <4>1, DeskGoesOn
      <4>3. SameRequest(u) /\ (u # v => desk'[u] = desk[u])
        BY <1>1, <3>3, <4>1, <4>2, GoesOnSame
      <4>4. desk[u].receipt \in Receipts /\ DeskInvariant(u)
        BY <4>3, DeskTyped, OrderParts DEF SameRequest, ReviewInv
      <4>5. desk'[u].phase = "recording" => successor'[desk[u].receipt] = "committed"
        <5>1. CASE desk[u].receipt = r
          BY <1>1, <2>8, <5>1, EffectAdded
        <5>2. CASE desk[u].receipt # r
          <6>1. u # v /\ successor'[desk[u].receipt] = successor[desk[u].receipt]
            BY <1>1, <2>8, <4>4, <5>2, EffectAdded
          <6> QED
            BY <3>3, <4>3, <4>4, <6>1 DEF DeskInvariant
        <5> QED
          BY <5>1, <5>2
      <4> QED
        BY <1>1, <3>3, <4>3, <4>5, DeskStays DEF proposalVars
    <3>4. \A u \in Reviewers : DeskInvariant(u)'
      BY <3>3 DEF DeskInvariant
    <3>5. SettledFree'
      BY <2>9, OrderParts DEF SettledFree, ReviewInv
    <3> QED
      BY <3>2, <3>4, <3>5, OrderParts
  <2> QED
    BY <2>7, <2>10, <2>11, <2>12 DEF ReviewInv
<1> QED
  BY <1>2, <1>3 DEF CommitReview

LEMMA RecordSafe ==
    ASSUME ReviewInv, NEW v \in Reviewers, Record(v)
    PROVE  ReviewInv'
<1> DEFINE p == Pair(v)
           r == desk[v].receipt
           d == Decision(v)
<1>1. /\ desk[v] # Away /\ desk[v] \in Desk /\ p \in Pairs /\ r \in Receipts /\ Quit(v)
      /\ d \in Decisions /\ conflict[p] # "none" /\ desk[v].phase = "recording"
      /\ asked[r] \in {Several, [pair |-> p, decision |-> d]}
      /\ UNCHANGED <<head, candidateVars, batch, prop, work, faults, asked, made, successor,
                     effect, token>>
  BY DeskTyped, DeskAsked DEF Record, At
<1>2. successor[r] = "committed" /\ (asked[r] # Several => TookEffect(r))
  <2>1. successor[r] = "committed"
    BY <1>1 DEF ReviewInv, RequestsInOrder
  <2>2. ReceiptInOrder(r)
    BY <1>1 DEF ReviewInv, RequestsInOrder
  <2>3. ASSUME asked[r] # Several
        PROVE  TookEffect(r)
    <3>1. asked[r] \notin {NoRequest, Several} /\ asked[r].pair = p
      BY <1>1, <2>3, RequestsAreRequests
    <3>2. effect[r] = {p} /\ asked[r].decision # "accept_old"
      BY <2>1, <2>2, <3>1 DEF ReceiptInOrder
    <3> QED
      BY <2>1, <3>1, <3>2 DEF TookEffect
  <2> QED
    BY <2>1, <2>3
<1>3. SameDesks /\ DesksTyped
  BY <1>1, DeskSteps, DesksStay
<1>4. CASE UNCHANGED <<conflict, resolution, receipts>>
  <2>1. ReviewTypeOK'
    BY <1>1, <1>3, <1>4, StepTyped DEF ReviewInv, ReviewTypeOK, vars, candidateVars, DesksTyped
  <2>2. Uneventful
    BY <1>1, <1>4, NothingMoves DEF candidateVars
  <2> QED
    BY <1>3, <2>1, <2>2, UneventfulSafe DEF ReviewInv
<1>5. CASE /\ conflict' = [conflict EXCEPT ![p] = "resolved"]
           /\ resolution' = [resolution EXCEPT ![p] = IF conflict[p] = "open"
                                                      THEN Decision(v) ELSE @]
           /\ receipts[r] = "none" /\ Save(v, "settled")
  <2>1. /\ conflict' \in [Pairs -> {"none", "open", "resolved"}]
        /\ resolution' \in [Pairs -> Decisions \cup {"none"}]
        /\ receipts' \in [Receipts -> Results \cup {"none"}]
    BY <1>1, <1>5 DEF ReviewInv, ReviewTypeOK, TypeOK, Save, Results
  <2>2. TypeOK'
    BY <1>1, <2>1 DEF ReviewInv, ReviewTypeOK, TypeOK, candidateVars
  <2>3. ReviewTypeOK'
    BY <1>1, <1>3, <2>1, <2>2 DEF ReviewInv, ReviewTypeOK, DesksTyped
  <2>4. \A q \in Pairs : /\ \A s \in {"committed", "no_change"} : Settled(q, s)' = Settled(q, s)
                         /\ Effective(q)' = Effective(q)
    BY <1>1, SameEffects
  <2>5. AcceptedOnce'
    BY <1>1, <2>4 DEF AcceptedOnce, ReviewInv, candidateVars
  <2>6. /\ \A x \in Receipts : receipts'[x] = "settled" <=> x = r \/ receipts[x] = "settled"
    BY <1>1, <1>5 DEF Save, ReviewInv, ReviewTypeOK
  <2>7. ASSUME NEW q \in Pairs, conflict'[q] = "resolved"
        PROVE  \E x \in Receipts :
                  /\ receipts'[x] = "settled"
                  /\ asked[x] \in {Several, [pair |-> q, decision |-> resolution'[q]]}
    <3>1. CASE q = p /\ conflict[p] = "open"
      <4>1. resolution'[p] = d
        BY <1>1, <1>5, <3>1 DEF ReviewInv, ReviewTypeOK
      <4> QED
        BY <1>1, <2>6, <3>1, <4>1
    <3>2. CASE ~(q = p /\ conflict[p] = "open")
      <4>1. resolution'[q] = resolution[q]
        BY <1>1, <1>5, <3>2 DEF ReviewInv, ReviewTypeOK
      <4>2. conflict[q] = "resolved"
        BY <1>1, <1>5, <2>7, <3>2 DEF ReviewInv, ReviewTypeOK, TypeOK
      <4> QED
        BY <2>6, <4>1, <4>2 DEF ReviewInv, RecordsTrue
    <3> QED
      BY <3>1, <3>2
  <2>8. RecordsTrue'
    <3>1. \A x \in Receipts : TookEffect(x)' <=> TookEffect(x)
      BY <1>1 DEF TookEffect
    <3>2. ASSUME NEW x \in Receipts, receipts'[x] = "settled"
          PROVE  /\ successor[x] \in {"committed", "no_change"}
                 /\ asked[x] # Several => TookEffect(x)
      BY <1>2, <2>6, <3>2 DEF RecordsTrue, ReviewInv
    <3> QED
      BY <1>1, <2>7, <3>1, <3>2 DEF RecordsTrue
  <2>9. RequestsInOrder'
    <3>1. \A q \in Pairs : conflict[q] # "none" => conflict'[q] # "none"
      BY <1>1, <1>5 DEF ReviewInv, ReviewTypeOK, TypeOK
    <3>2. ASSUME NEW x \in Receipts
          PROVE  ReceiptInOrder(x)'
      <4>1. asked[x] \notin {NoRequest, Several} => asked[x].pair \in Pairs
        BY DEF ReviewInv, ReviewTypeOK, Request
      <4>2. ReceiptInOrder(x)
        BY DEF ReviewInv, RequestsInOrder
      <4> QED
        BY <1>1, <3>1, <4>1, <4>2 DEF ReceiptInOrder
    <3>3. EffectsReal' /\ SettledFree'
      BY <1>1, <2>4, <3>1, OrderParts DEF EffectsReal, IsOpen, SettledFree, ReviewInv, candidateVars
    <3>4. ASSUME NEW u \in Reviewers, desk'[u] # Away
          PROVE  DeskInvariant(u)'
      <4>1. SameRequest(u) /\ (desk'[u].phase = "recording" => desk[u].phase = "recording")
        BY <1>3, <3>4 DEF SameDesks
      <4>2. desk'[u].phase = "recording" => successor'[desk[u].receipt] = "committed"
        BY <1>1, <4>1, OrderParts DEF DeskInvariant, ReviewInv, SameRequest
      <4> QED
        BY <1>1, <3>1, <3>4, <4>1, <4>2, DeskStays
    <3>5. \A u \in Reviewers : DeskInvariant(u)'
      BY <3>4 DEF DeskInvariant
    <3> QED
      BY <3>2, <3>3, <3>5, OrderParts
  <2> QED
    BY <2>3, <2>5, <2>8, <2>9 DEF ReviewInv
<1> QED
  BY <1>4, <1>5 DEF Record

LEMMA KeepSafe ==
    ASSUME ReviewInv, NEW v \in Reviewers, Keep(v)
    PROVE  ReviewInv'
<1> DEFINE p == Pair(v)
           b == p[1]
           c == p[2]
           r == desk[v].receipt
<1>1. /\ desk[v] # Away /\ desk[v] \in Desk /\ b \in Batches /\ p \in Pairs /\ r \in Receipts
      /\ c \in Candidates /\ Quit(v) /\ conflict[p] # "none"
      /\ desk[v].phase = "keeping"
      /\ UNCHANGED <<head, work, faults, asked, token>>
  BY DeskTyped DEF Keep, At
<1>2. /\ Decision(v) = "accept_old" /\ Decision(v) \in Decisions
      /\ asked[r] \in {Several, [pair |-> p, decision |-> "accept_old"]}
  BY <1>1, DeskTyped, DeskAsked DEF ReviewInv, RequestsInOrder
<1>3. SameDesks /\ DesksTyped
  BY <1>1, DeskSteps, DesksStay
<1>4. CASE UNCHANGED <<made, successor, effect, proposalVars, resolution, candidateVars,
                       batch, receipts>>
  <2>1. ReviewTypeOK'
    BY <1>1, <1>3, <1>4, StepTyped
    DEF ReviewInv, ReviewTypeOK, vars, candidateVars, proposalVars, DesksTyped
  <2>2. Uneventful
    BY <1>1, <1>4, NothingMoves DEF candidateVars, proposalVars
  <2> QED
    BY <1>3, <2>1, <2>2, UneventfulSafe DEF ReviewInv
<1>5. CASE /\ successor[r] = "none" /\ receipts[r] = "none"
           /\ successor' = [successor EXCEPT ![r] = "no_change"]
           /\ made' = [made EXCEPT ![r] = {p}] /\ effect' = [effect EXCEPT ![r] = {p}]
           /\ prop' = [prop EXCEPT ![p].status = "superseded"]
           /\ conflict' = [conflict EXCEPT ![p] = "resolved"]
           /\ resolution' = [resolution EXCEPT ![p] = Decision(v)]
           /\ cand' = IF cand[c] = [status |-> "awaiting_review", batch |-> b]
                      THEN [cand EXCEPT ![c] = [status |-> "settled", batch |-> NoBatch]]
                      ELSE cand
           /\ open' = open \ {p}
           /\ batch' = IF batch[b].status = "awaiting_review"
                       THEN [batch EXCEPT ![b].status = "settled"]
                       ELSE batch
           /\ Save(v, "settled")
  <2>1. batch' \in [Batches -> BatchRow]
    <3>1. [batch EXCEPT ![b].status = "settled"] = [batch EXCEPT ![b] = [batch[b] EXCEPT !.status = "settled"]]
      OBVIOUS
    <3>2. [batch[b] EXCEPT !.status = "settled"] \in BatchRow
      BY <1>1, RowsUpdated DEF ReviewInv, ReviewTypeOK, TypeOK, BatchStatuses
    <3> QED
      BY <1>1, <1>5, <3>1, <3>2 DEF ReviewInv, ReviewTypeOK, TypeOK
  <2>2. prop' \in [Pairs -> ProposalRow]
    <3>1. prop' = [prop EXCEPT ![p] = [prop[p] EXCEPT !.status = "superseded"]]
      BY <1>5
    <3> QED
      BY <1>1, <3>1, RowsUpdated DEF ReviewInv, ReviewTypeOK, TypeOK, ProposalStatuses
  <2>3. /\ conflict' \in [Pairs -> {"none", "open", "resolved"}]
        /\ resolution' \in [Pairs -> Decisions \cup {"none"}]
        /\ receipts' \in [Receipts -> Results \cup {"none"}]
        /\ successor' \in [Receipts -> SuccessorStatuses]
        /\ made' \in [Receipts -> SUBSET Pairs] /\ effect' \in [Receipts -> SUBSET Pairs]
    BY <1>1, <1>2, <1>5 DEF ReviewInv, ReviewTypeOK, TypeOK, Save, Results, SuccessorStatuses
  <2>4. \A d \in Candidates :
          \/ cand'[d] = cand[d]
          \/ cand[d].status = "awaiting_review"
             /\ cand'[d] = [status |-> "settled", batch |-> NoBatch]
    BY <1>1, <1>5 DEF ReviewInv, ReviewTypeOK, TypeOK
  <2>5. cand' \in [Candidates -> [status : CandidateStatuses, batch : Batches \cup {NoBatch}]]
    BY <1>1, <1>5 DEF ReviewInv, ReviewTypeOK, TypeOK, CandidateStatuses
  <2>6. TypeOK'
    BY <1>1, <1>5, <2>1, <2>2, <2>3, <2>5 DEF ReviewInv, ReviewTypeOK, TypeOK
  <2>7. ReviewTypeOK'
    BY <1>1, <1>3, <2>3, <2>6 DEF ReviewInv, ReviewTypeOK, DesksTyped
  <2>8. TakesEffect(r, p, "no_change")
    BY <1>1, <1>5 DEF TakesEffect
  <2>9. AcceptedOnce'
    <3>1. \A q \in Pairs : Settled(q, "committed")' = Settled(q, "committed")
      BY <1>1, <2>8, EffectAdded
    <3>2. \A q \in Pairs : cand[q[2]].status = "settled" => cand'[q[2]].status = "settled"
      BY <2>4, PairParts
    <3> QED
      BY <3>1, <3>2 DEF AcceptedOnce, ReviewInv
  <2>10. RecordsTrue'
    <3>1. \A x \in Receipts : receipts'[x] = "settled" <=> x = r \/ receipts[x] = "settled"
      BY <1>1, <1>5 DEF Save, ReviewInv, ReviewTypeOK
    <3>2. ASSUME NEW q \in Pairs, conflict'[q] = "resolved"
          PROVE  \E x \in Receipts :
                    /\ receipts'[x] = "settled"
                    /\ asked'[x] \in {Several, [pair |-> q, decision |-> resolution'[q]]}
      <4>1. CASE q = p
        <5>1. resolution'[p] = "accept_old"
          BY <1>1, <1>2, <1>5 DEF ReviewInv, ReviewTypeOK
        <5> QED
          BY <1>1, <1>2, <3>1, <4>1, <5>1
      <4>2. CASE q # p
        <5>1. resolution'[q] = resolution[q] /\ conflict[q] = "resolved"
          BY <1>1, <1>5, <3>2, <4>2 DEF ReviewInv, ReviewTypeOK, TypeOK
        <5> QED
          BY <1>1, <3>1, <5>1 DEF RecordsTrue, ReviewInv
      <4> QED
        BY <4>1, <4>2
    <3>3. /\ \A x \in Receipts : x # r => successor'[x] = successor[x] /\ effect'[x] = effect[x]
          /\ successor'[r] = "no_change" /\ effect'[r] = {p}
      BY <1>1, <2>8, EffectAdded
    <3>4. ASSUME NEW x \in Receipts, receipts'[x] = "settled"
          PROVE  /\ successor'[x] \in {"committed", "no_change"}
                 /\ asked'[x] # Several => TookEffect(x)'
      <4>1. CASE x = r
        <5>1. asked[r] # Several => asked[r].pair = p /\ asked[r].decision = "accept_old"
          BY <1>2
        <5> QED
          BY <1>1, <3>3, <4>1, <5>1 DEF TookEffect
      <4>2. CASE x # r
        BY <1>1, <3>1, <3>3, <3>4, <4>2 DEF RecordsTrue, TookEffect, ReviewInv
      <4> QED
        BY <4>1, <4>2
    <3> QED
      BY <3>2, <3>4 DEF RecordsTrue
  <2>11. RequestsInOrder'
    <3>1. \A q \in Pairs : conflict[q] # "none" => conflict'[q] # "none"
      BY <1>1, <1>5 DEF ReviewInv, ReviewTypeOK, TypeOK
    <3>2. Asks(r, p, "no_change")
      BY <1>2 DEF Asks
    <3>3. EffectsReal' /\ \A x \in Receipts : ReceiptInOrder(x)'
      BY <1>1, <2>8, <3>1, <3>2, EffectOrdered
    <3>4. ASSUME NEW u \in Reviewers, desk'[u] # Away
          PROVE  DeskInvariant(u)'
      <4>1. SameRequest(u) /\ (desk'[u].phase = "recording" => desk[u].phase = "recording")
        BY <1>3, <3>4 DEF SameDesks
      <4>2. desk[u].receipt \in Receipts /\ DeskInvariant(u)
        BY <4>1, DeskTyped, OrderParts DEF SameRequest, ReviewInv
      <4>3. \A x \in Receipts : x # r => successor'[x] = successor[x]
        BY <1>1, <2>8, EffectAdded
      <4>4. desk'[u].phase = "recording" => successor'[desk[u].receipt] = "committed"
        BY <1>5, <4>1, <4>2, <4>3 DEF DeskInvariant, SameRequest
      <4> QED
        BY <1>1, <3>1, <3>4, <4>1, <4>4, DeskStays
    <3>5. \A u \in Reviewers : DeskInvariant(u)'
      BY <3>4 DEF DeskInvariant
    <3>6. SettledFree'
      BY <2>4, OrderParts DEF SettledFree, ReviewInv
    <3> QED
      BY <3>3, <3>5, <3>6, OrderParts
  <2> QED
    BY <2>7, <2>9, <2>10, <2>11 DEF ReviewInv
<1> QED
  BY <1>4, <1>5 DEF Keep

LEMMA AbandonSafe ==
    ASSUME ReviewInv, NEW v \in Reviewers, Abandon(v)
    PROVE  ReviewInv'
<1>1. /\ Quit(v) /\ Fault /\ desk[v] # Away
      /\ UNCHANGED <<head, candidateVars, batch, proposalVars, work,
                     asked, made, successor, effect, receipts, resolution, token>>
  BY DEF Abandon
<1>2. SameDesks /\ DesksTyped
  BY <1>1, DeskSteps, DesksStay
<1>3. TypeOK'
  BY <1>1, BatchAssumption
  DEF Fault, ReviewInv, ReviewTypeOK, TypeOK, candidateVars, proposalVars
<1>4. ReviewTypeOK'
  BY <1>1, <1>2, <1>3 DEF ReviewInv, ReviewTypeOK, DesksTyped
<1>5. Uneventful
  BY <1>1, NothingMoves DEF candidateVars, proposalVars
<1> QED
  BY <1>2, <1>4, <1>5, UneventfulSafe DEF ReviewInv

LEMMA ReviewLeaseSafe ==
    ASSUME ReviewInv, NEW b \in Batches, ReviewLeaseRunsOut(b)
    PROVE  ReviewInv'
<1>1. /\ Expire(b)
      /\ UNCHANGED <<head, candidateVars, proposalVars, work, faults, reviewVars>>
  BY DEF ReviewLeaseRunsOut
<1>2. batch' \in [Batches -> BatchRow]
  <2>1. batch' = [batch EXCEPT ![b] = [batch[b] EXCEPT !.lease = "expired"]]
    BY <1>1 DEF Expire
  <2> QED
    BY <2>1, RowsUpdated DEF ReviewInv, ReviewTypeOK, TypeOK
<1>3. ReviewTypeOK'
  BY <1>1, <1>2 DEF ReviewInv, ReviewTypeOK, TypeOK, candidateVars, proposalVars, reviewVars
<1>4. Uneventful
  BY <1>1, NothingMoves DEF candidateVars, proposalVars, reviewVars
<1>5. SameDesks
  BY <1>1 DEF SameDesks, SameRequest, Pair, Decision, reviewVars
<1> QED
  BY <1>3, <1>4, <1>5, UneventfulSafe DEF ReviewInv

LEMMA ReviewStepSafe == ReviewInv /\ [ReviewNext]_allVars => ReviewInv'
<1> SUFFICES ASSUME ReviewInv, [ReviewNext]_allVars PROVE ReviewInv'
  OBVIOUS
<1>1. CASE [Next]_vars /\ UNCHANGED reviewVars
  BY <1>1, WorkersSafe
<1>2. ASSUME NEW v \in Reviewers, Resolve(v) \/ Proceed(v) \/ Abandon(v)
      PROVE  ReviewInv'
  BY <1>2, ResolveSafe, AnswerSafe, CheckTargetSafe, StaleSafe, StartSafe, CommitReviewSafe,
     RecordSafe, KeepSafe, AbandonSafe
  DEF Proceed
<1> QED
  BY <1>1, <1>2, ReviewLeaseSafe DEF ReviewNext, allVars

(***************************************************************************)
(* However many reviewers answer, and wherever one of them stops: the      *)
(* memory is changed at most once for a conflict, and every resolution and *)
(* every `settled` on record took effect (maintenance/review.py, resolve). *)
(***************************************************************************)
THEOREM ReviewInvariant == ReviewSpec => []ReviewInv
  BY ReviewInitSafe, ReviewStepSafe, PTL DEF ReviewSpec

(***************************************************************************)
(* One reviewer at a time.                                                 *)
(***************************************************************************)

\* An open conflict under review: nothing was decided about it, and no review
\* of its batch was committed.
LEMMA NothingDecided ==
    ASSUME ReviewInv, OneByOne, NEW p \in Pairs, InReview(p[1])
    PROVE  /\ \A q \in Pairs : q[1] = p[1] => Settled(q, "committed") = {}
           /\ conflict[p] = "open" => Effective(p) = {}
<1>1. \A q \in Pairs : q[1] = p[1] => Settled(q, "committed") = {}
  BY DEF OneByOne, ReviewsInOrder, InReview
<1>2. ASSUME conflict[p] = "open"
      PROVE  Settled(p, "no_change") = {}
  BY <1>2 DEF OneByOne, ReviewsInOrder
<1>3. Effective(p) \subseteq Settled(p, "committed") \cup Settled(p, "no_change")
  BY DEF Effective, Settled, ReviewInv, RequestsInOrder, ReceiptInOrder
<1> QED
  BY <1>1, <1>2, <1>3

\* In the middle of an answer the conflict of the request is as it was read.
LEMMA DeskOpen ==
    ASSUME ReviewInv, OneByOne, NEW v \in Reviewers, desk[v] # Away,
           desk[v].phase \in {"deferring", "checking", "stale", "starting", "committing", "keeping"}
    PROVE  /\ StillOpen(Pair(v))
           /\ receipts[desk[v].receipt] = "none"
           /\ Effective(Pair(v)) = {}
           /\ \A q \in Pairs : q[1] = Pair(v)[1] => Settled(q, "committed") = {}
<1>1. StillOpen(Pair(v)) /\ receipts[desk[v].receipt] = "none" /\ Pair(v) \in Pairs
  BY DeskTyped DEF OneByOne, ReviewsInOrder
<1> QED
  BY <1>1, NothingDecided DEF StillOpen

\* The records and the pairs of a step without effect.
LEMMA RecordsStay ==
    ASSUME ReviewInv, OneByOne, Uneventful
    PROVE  /\ DecidedOnce'
           /\ receipts' = receipts => ReceiptsTell'
<1>1. \A p \in Pairs : Effective(p)' = Effective(p)
  BY SameEffects DEF Uneventful
<1>2. DecidedOnce'
  BY <1>1 DEF DecidedOnce, OneByOne
<1>3. ASSUME receipts' = receipts
      PROVE  ReceiptsTell'
  BY <1>3 DEF ReceiptsTell, OneByOne, Uneventful, NoEffect
<1> QED
  BY <1>2, <1>3

PairsInOrder ==
    \A p \in Pairs :
        /\ conflict[p] # "none" => WithReviewers(p[1])
        /\ Settled(p, "committed") # {} => batch[p[1]].status = "settled"
        /\ \A r \in Settled(p, "no_change") : conflict[p] = "resolved" /\ receipts[r] = "settled"

DeskInOrder(v) ==
    desk[v] # Away =>
        /\ receipts[desk[v].receipt] = "none"
        /\ desk[v].phase \in {"deferring", "checking", "stale", "starting", "committing",
                              "keeping"} => StillOpen(Pair(v))
        /\ desk[v].phase = "saying_stale" => InReview(Pair(v)[1])
        /\ desk[v].phase = "refusing" =>
              asked[desk[v].receipt] = Several \/ effect[desk[v].receipt] = {}

LEMMA InOrderParts ==
    /\ ReviewsInOrder <=> PairsInOrder /\ \A v \in Reviewers : DeskInOrder(v)
    /\ ReviewsInOrder' <=> PairsInOrder' /\ \A v \in Reviewers : DeskInOrder(v)'
  BY DEF ReviewsInOrder, PairsInOrder, DeskInOrder, WithReviewers

LEMMA PairsStay ==
    ASSUME ReviewInv, OneByOne, Uneventful, conflict' = conflict, receipts' = receipts,
           \A b \in Batches : batch'[b].status = batch[b].status
    PROVE  PairsInOrder'
<1>1. \A p \in Pairs, s \in {"committed", "no_change"} : Settled(p, s)' = Settled(p, s)
  BY SameEffects DEF Uneventful
<1>2. PairsInOrder
  BY InOrderParts DEF OneByOne
<1> QED
  BY <1>1, <1>2, PairParts DEF PairsInOrder, WithReviewers, InReview

LEMMA WorkersOne ==
    ASSUME ReviewInv, OneByOne, [Next]_vars, UNCHANGED reviewVars
    PROVE  OneByOne'
<1>1. WorkersLeave
  BY WorkersStep DEF ReviewInv, ReviewTypeOK, vars, WorkersLeave
<1>2. Uneventful
  BY <1>1 DEF Uneventful, NoEffect, reviewVars, WorkersLeave, ReviewInv, RequestsInOrder
<1>3. DecidedOnce' /\ ReceiptsTell'
  BY <1>2, RecordsStay DEF reviewVars
<1>4. PairsInOrder /\ \A v \in Reviewers : DeskInOrder(v)
  BY InOrderParts DEF OneByOne
<1>5. \A p \in Pairs : /\ WithReviewers(p[1]) => batch'[p[1]] = batch[p[1]]
                       /\ conflict[p] # "none" => conflict'[p] = conflict[p]
  BY <1>1, <1>4, PairParts DEF PairsInOrder, WorkersLeave
<1>6. \A p \in Pairs : /\ \A s \in {"committed", "no_change"} : Settled(p, s)' = Settled(p, s)
                       /\ Effective(p)' = Effective(p)
  BY <1>2, SameEffects DEF Uneventful
<1>7. PairsInOrder'
  <2> SUFFICES ASSUME NEW p \in Pairs
               PROVE  /\ conflict'[p] # "none" => WithReviewers(p[1])'
                      /\ Settled(p, "committed")' # {} => batch'[p[1]].status = "settled"
                      /\ \A r \in Settled(p, "no_change")' :
                            conflict'[p] = "resolved" /\ receipts'[r] = "settled"
    BY DEF PairsInOrder
  <2>1. conflict'[p] # "none" => WithReviewers(p[1])'
    BY <1>1, <1>4, <1>5 DEF PairsInOrder, WorkersLeave, WithReviewers, InReview
  <2>2. Settled(p, "committed")' # {} => batch'[p[1]].status = "settled"
    BY <1>4, <1>5, <1>6 DEF PairsInOrder, WithReviewers
  <2>3. \A r \in Settled(p, "no_change")' : conflict'[p] = "resolved" /\ receipts'[r] = "settled"
    BY <1>4, <1>5, <1>6 DEF PairsInOrder, reviewVars
  <2> QED
    BY <2>1, <2>2, <2>3
<1>8. ASSUME NEW v \in Reviewers
      PROVE  DeskInOrder(v)'
  <2>1. CASE desk[v] = Away
    BY <2>1 DEF DeskInOrder, reviewVars
  <2>2. CASE desk[v] # Away
    <3> DEFINE p == Pair(v)
    <3>1. p \in Pairs /\ desk[v].receipt \in Receipts /\ DeskInOrder(v)
      BY <1>4, <2>2, DeskTyped
    <3>2. UNCHANGED <<desk, receipts, asked, effect>> /\ Pair(v)' = Pair(v)
      BY DEF reviewVars, Pair
    <3>3. StillOpen(p) => conflict'[p] = "open" /\ batch'[p[1]].status = batch[p[1]].status
      BY <1>5, <3>1 DEF StillOpen, WithReviewers
    <3>4. InReview(p[1]) => batch'[p[1]].status = batch[p[1]].status
      BY <1>5, <3>1 DEF WithReviewers
    <3>6. /\ receipts'[desk'[v].receipt] = "none"
          /\ desk'[v].phase \in {"deferring", "checking", "stale", "starting", "committing",
                              "keeping"} => StillOpen(Pair(v))'
      BY <2>2, <3>1, <3>2, <3>3 DEF DeskInOrder, StillOpen, InReview
    <3>7. desk'[v].phase = "saying_stale" => InReview(Pair(v)[1])'
      BY <2>2, <3>1, <3>2, <3>4 DEF DeskInOrder, InReview
    <3>8. desk'[v].phase = "refusing" =>
             asked'[desk'[v].receipt] = Several \/ effect'[desk'[v].receipt] = {}
      BY <2>2, <3>1, <3>2 DEF DeskInOrder
    <3> QED
      BY <3>6, <3>7, <3>8 DEF DeskInOrder
  <2> QED
    BY <2>1, <2>2
<1>9. ReviewsInOrder'
  BY <1>7, <1>8, InOrderParts
<1> QED
  BY <1>3, <1>9 DEF OneByOne

\* The reviewer is the only one.
Alone(v) == \A u \in Reviewers : u = v

LEMMA ResolveOne ==
    ASSUME ReviewInv, OneByOne, NEW v \in Reviewers, Alone(v), Resolve(v)
    PROVE  OneByOne'
<1>1. PICK r \in Receipts, p \in Pairs, d \in Decisions : Resolve(v)!2!(r, p, d)
  BY DEF Resolve
<1> DEFINE q == [pair |-> p, decision |-> d]
           undecided == conflict[p] = "open" /\ InReview(p[1])
<1>2. /\ receipts[r] = "none"
      /\ asked' = [asked EXCEPT ![r] = IF @ \in {NoRequest, q} THEN q ELSE Several]
      /\ UNCHANGED <<vars, made, successor, effect, receipts, resolution, token>>
  BY <1>1 DEF Resolve
<1>3. PICK phase \in DeskPhases :
        /\ desk' = [desk EXCEPT ![v] =
             [phase |-> phase, receipt |-> r, pair |-> p, decision |-> d,
              status |-> batch[p[1]].status, token |-> token[p[1]],
              held |-> cand[p[2]].batch = p[1], lapsed |-> FALSE]]
        /\ \/ Reviewed(p[1], r, p) /\ phase = "recording"
           \/ ~Reviewed(p[1], r, p) /\ ~undecided /\ phase = "refusing"
           \/ undecided /\ phase \in {"deferring", "checking", "keeping"}
  BY <1>1
<1>4. /\ q \in Request /\ q # NoRequest /\ q # Several /\ q.pair = p
      /\ \A x \in Receipts : x # r => asked'[x] = asked[x]
      /\ asked[r] \in {NoRequest, q} \/ asked'[r] = Several
  BY <1>2, RequestsAreRequests DEF ReviewInv, ReviewTypeOK
<1>5. \A x \in Pairs : /\ \A s : Settled(x, s)' = Settled(x, s)
                       /\ Effective(x)' = Effective(x)
  BY <1>2 DEF Settled, Effective
<1>6. DecidedOnce' /\ ReceiptsTell'
  BY <1>2, <1>4, <1>5 DEF DecidedOnce, ReceiptsTell, OneByOne
<1>7. PairsInOrder'
  BY <1>2, <1>5, InOrderParts DEF PairsInOrder, OneByOne, vars, WithReviewers, InReview
<1>8. desk'[v] = [phase |-> phase, receipt |-> r, pair |-> p, decision |-> d,
                  status |-> batch[p[1]].status, token |-> token[p[1]],
                  held |-> cand[p[2]].batch = p[1], lapsed |-> FALSE]
      /\ Pair(v)' = p
  BY <1>3 DEF ReviewInv, ReviewTypeOK, Pair
<1>9. ASSUME phase = "refusing", asked[r] \in {NoRequest, q}, effect[r] # {}
      PROVE  FALSE
  <2> HIDE DEF q
  <2>1. ReceiptInOrder(r) /\ ~Reviewed(p[1], r, p)
    BY <1>3, <1>9 DEF ReviewInv, RequestsInOrder
  <2>2. successor[r] \in {"committed", "no_change"} /\ made[r] # {}
    BY <1>9, <2>1 DEF ReceiptInOrder
  <2>3. asked[r] = q
    BY <1>9, <2>1, <2>2 DEF ReceiptInOrder
  <2>4. p \in effect[r] /\ p \in made[r]
    BY <1>4, <1>9, <2>1, <2>2, <2>3 DEF ReceiptInOrder
  <2>5. r \notin Settled(p, "no_change")
    BY <1>2 DEF OneByOne, ReviewsInOrder
  <2>6. r \in Settled(p, "committed") /\ successor[r] = "committed"
    BY <2>2, <2>4, <2>5 DEF Settled
  <2>7. batch[p[1]].status = "settled"
    BY <2>6 DEF OneByOne, ReviewsInOrder
  <2> QED
    BY <2>1, <2>4, <2>6, <2>7 DEF Reviewed
<1>10. DeskInOrder(v)'
  <2>1. phase \in {"deferring", "checking", "stale", "starting", "committing", "keeping"}
          => StillOpen(p)'
    BY <1>2, <1>3 DEF StillOpen, InReview, vars
  <2>2. phase # "saying_stale" /\ receipts'[r] = "none"
    BY <1>2, <1>3
  <2>3. phase = "refusing" => asked'[r] = Several \/ effect'[r] = {}
    BY <1>2, <1>4, <1>9
  <2>4. StillOpen(Pair(v))' <=> StillOpen(p)'
    BY <1>8 DEF StillOpen, InReview
  <2> QED
    BY <1>8, <2>1, <2>2, <2>3, <2>4 DEF DeskInOrder
<1>11. \A u \in Reviewers : DeskInOrder(u)'
  BY <1>10 DEF Alone
<1> QED
  BY <1>6, <1>7, <1>11, InOrderParts DEF OneByOne

LEMMA Leaves ==
    ASSUME ReviewInv, NEW v \in Reviewers, Alone(v), Quit(v)
    PROVE  \A u \in Reviewers : DeskInOrder(u)'
<1>1. desk'[v] = Away
  BY DEF Quit, ReviewInv, ReviewTypeOK
<1> QED
  BY <1>1 DEF DeskInOrder, Alone

LEMMA AnswerOne ==
    ASSUME ReviewInv, OneByOne, NEW v \in Reviewers, Alone(v), Answer(v)
    PROVE  OneByOne'
<1> DEFINE r == desk[v].receipt
           p == Pair(v)
<1>1. /\ desk[v] # Away /\ r \in Receipts /\ p \in Pairs /\ Quit(v)
      /\ asked[r] \in {Several, [pair |-> p, decision |-> Decision(v)]}
      /\ Decision(v) \in Decisions
      /\ UNCHANGED <<vars, asked, made, successor, effect, resolution, token>>
      /\ \E result \in {"rejected", "awaiting_review", "stale_review"} : Save(v, result)
      /\ desk[v].phase \in {"refusing", "deferring", "saying_stale"}
  BY DeskTyped, DeskAsked DEF Answer, At
<1>2. receipts[r] = "none"
  BY <1>1 DEF OneByOne, ReviewsInOrder
<1>3. \A x \in Receipts : x # r => receipts'[x] = receipts[x]
  BY <1>1 DEF Save, ReviewInv, ReviewTypeOK
<1>4. asked[r] = Several \/ effect[r] = {}
  <2>1. CASE desk[v].phase = "refusing"
    BY <1>1, <2>1 DEF OneByOne, ReviewsInOrder
  <2>2. CASE desk[v].phase # "refusing"
    <3> SUFFICES ASSUME asked[r] # Several, effect[r] # {}
                 PROVE  FALSE
      OBVIOUS
    <3>1. ReceiptInOrder(r) /\ asked[r] \notin {NoRequest, Several} /\ asked[r].pair = p
      BY <1>1, RequestsAreRequests DEF ReviewInv, RequestsInOrder
    <3>2. p \in effect[r] /\ successor[r] \in {"committed", "no_change"}
      BY <3>1 DEF ReceiptInOrder
    <3>3. r \notin Settled(p, "no_change")
      BY <1>1, <1>2 DEF OneByOne, ReviewsInOrder
    <3>4. r \in Settled(p, "committed")
      BY <1>1, <3>2, <3>3 DEF Settled
    <3>5. InReview(p[1])
      BY <1>1, <2>2 DEF OneByOne, ReviewsInOrder, StillOpen
    <3> QED
      BY <1>1, <3>4, <3>5, NothingDecided
  <2> QED
    BY <2>1, <2>2
<1>5. \A x \in Pairs : Effective(x)' = Effective(x) /\ \A s : Settled(x, s)' = Settled(x, s)
  BY <1>1 DEF Settled, Effective
<1>6. DecidedOnce'
  BY <1>5 DEF DecidedOnce, OneByOne
<1>7. ReceiptsTell'
  BY <1>1, <1>3, <1>4 DEF ReceiptsTell, OneByOne
<1>8. PairsInOrder'
  <2>1. PairsInOrder
    BY InOrderParts DEF OneByOne
  <2>2. \A x \in Pairs : /\ Settled(x, "no_change") \subseteq Receipts
                         /\ r \notin Settled(x, "no_change")
    BY <1>2, <2>1 DEF PairsInOrder, Settled
  <2> QED
    BY <1>1, <1>3, <1>5, <2>1, <2>2 DEF PairsInOrder, vars, WithReviewers, InReview
<1> QED
  BY <1>1, <1>6, <1>7, <1>8, Leaves, InOrderParts DEF OneByOne

LEMMA CheckTargetOne ==
    ASSUME ReviewInv, OneByOne, NEW v \in Reviewers, Alone(v), CheckTarget(v)
    PROVE  OneByOne'
<1>1. PICK ph \in {"stale", "starting", "committing"}, l \in BOOLEAN :
        desk' = [desk EXCEPT ![v] = [desk[v] EXCEPT !.phase = ph, !.lapsed = l]]
  BY CheckedDesk
<1>2. /\ desk[v] # Away /\ desk[v] \in Desk /\ desk[v].phase = "checking"
      /\ UNCHANGED <<vars, asked, made, successor, effect, receipts, resolution, token>>
  BY DeskTyped DEF CheckTarget, At
<1>3. Uneventful
  BY <1>2, NothingMoves DEF vars
<1>4. DecidedOnce' /\ ReceiptsTell' /\ PairsInOrder'
  BY <1>2, <1>3, RecordsStay, PairsStay DEF vars
<1>5. StillOpen(Pair(v)) /\ receipts[desk[v].receipt] = "none"
  BY <1>2, DeskOpen
<1>6. desk'[v].phase = ph /\ desk'[v].receipt = desk[v].receipt /\ Pair(v)' = Pair(v)
  BY <1>1, <1>2, DeskGoesOn DEF GoesOn, Pair, DeskPhases
<1>7. DeskInOrder(v)'
  <2>1. StillOpen(Pair(v))'
    BY <1>2, <1>5, <1>6 DEF StillOpen, InReview, vars
  <2> QED
    BY <1>2, <1>5, <1>6, <2>1 DEF DeskInOrder
<1> QED
  BY <1>4, <1>7, InOrderParts DEF OneByOne, Alone

LEMMA StaleOne ==
    ASSUME ReviewInv, OneByOne, NEW v \in Reviewers, Alone(v), Stale(v)
    PROVE  OneByOne'
<1>0. PICK p \in Pairs : p = Pair(v)
  BY DeskTyped DEF Stale, At
<1> DEFINE b == p[1]
<1>1. /\ desk[v] # Away /\ desk[v] \in Desk /\ b \in Batches /\ desk[v].phase = "stale"
      /\ Turn(v, "saying_stale")
      /\ UNCHANGED <<head, candidateVars, conflict, work, faults, asked, made, effect, receipts,
                     resolution>>
  BY <1>0, DeskTyped DEF Stale, At
<1>2. successor' = [r \in Receipts |->
                IF p \in made[r] /\ successor[r] = "proposed" THEN "invalidated"
                ELSE successor[r]]
  BY <1>0 DEF Stale
<1>3. Uneventful
  BY <1>1, <1>2 DEF Uneventful, NoEffect, candidateVars, ReviewInv, RequestsInOrder
<1>4. DecidedOnce' /\ ReceiptsTell'
  BY <1>1, <1>3, RecordsStay
<1>5. batch'[b].status = "awaiting_review" /\ \A d \in Batches : d # b => batch'[d] = batch[d]
  BY <1>0, <1>1 DEF Stale, Freed, ReviewInv, ReviewTypeOK, TypeOK
<1>6. /\ receipts[desk[v].receipt] = "none"
      /\ \A q \in Pairs : q[1] = b => Settled(q, "committed") = {}
  BY <1>0, <1>1, DeskOpen
<1>7. \A x \in Pairs, s \in {"committed", "no_change"} : Settled(x, s)' = Settled(x, s)
  BY <1>3, SameEffects DEF Uneventful
<1>8. PairsInOrder'
  <2>1. PairsInOrder
    BY InOrderParts DEF OneByOne
  <2>2. ASSUME NEW q \in Pairs
        PROVE  /\ conflict'[q] # "none" => WithReviewers(q[1])'
               /\ Settled(q, "committed")' # {} => batch'[q[1]].status = "settled"
               /\ \A r \in Settled(q, "no_change")' : conflict'[q] = "resolved" /\ receipts'[r] = "settled"
    <3>1. CASE q[1] = b
      BY <1>1, <1>5, <1>6, <1>7, <2>1, <3>1 DEF PairsInOrder, WithReviewers, InReview
    <3>2. CASE q[1] # b
      <4>1. batch'[q[1]] = batch[q[1]]
        BY <1>5, <3>2, PairParts
      <4> QED
        BY <1>1, <1>7, <2>1, <4>1 DEF PairsInOrder, WithReviewers, InReview
    <3> QED
      BY <3>1, <3>2
  <2> QED
    BY <2>2 DEF PairsInOrder
<1>9. DeskInOrder(v)'
  <2>1. desk'[v].phase = "saying_stale" /\ desk'[v].receipt = desk[v].receipt
        /\ Pair(v)' = Pair(v)
    BY <1>1, DeskGoesOn DEF GoesOn, Pair, DeskPhases
  <2>2. Pair(v)' = p
    BY <1>0, <2>1
  <2>3. InReview(Pair(v)[1])'
    BY <1>5, <2>2 DEF InReview
  <2> QED
    BY <1>1, <1>6, <2>1, <2>3 DEF DeskInOrder
<1> QED
  BY <1>4, <1>8, <1>9, InOrderParts DEF OneByOne, Alone

\* A reviewer leaves and nothing else happens to reviews.
LEMMA LeavesOne ==
    ASSUME ReviewInv, OneByOne, NEW v \in Reviewers, Alone(v), Quit(v), Uneventful,
           UNCHANGED <<batch, conflict, receipts>>
    PROVE  OneByOne'
  BY RecordsStay, PairsStay, Leaves, InOrderParts DEF OneByOne

LEMMA StartOne ==
    ASSUME ReviewInv, OneByOne, NEW v \in Reviewers, Alone(v), Start(v)
    PROVE  OneByOne'
<1>0. PICK p \in Pairs : p = Pair(v)
  BY DeskTyped DEF Start, At
<1> DEFINE b == p[1]
           r == desk[v].receipt
<1>1. /\ desk[v] # Away /\ desk[v] \in Desk /\ b \in Batches /\ r \in Receipts
      /\ desk[v].phase = "starting"
      /\ UNCHANGED <<head, candidateVars, conflict, work, faults, asked, effect, receipts,
                     resolution>>
  BY <1>0, DeskTyped DEF Start, At
<1>2. CASE /\ Quit(v)
           /\ UNCHANGED <<made, successor, prop, batch, token>>
  <2>1. Uneventful
    BY <1>1, <1>2, NothingMoves DEF candidateVars
  <2> QED
    BY <1>1, <1>2, <2>1, LeavesOne
<1>3. CASE MakesSuccessor(v)
  <2>1. Uneventful /\ GoesOn(v, "committing")
    BY <1>3, MakesSuccessorUneventful
  <2>2. DecidedOnce' /\ ReceiptsTell'
    BY <1>1, <2>1, RecordsStay
  <2>3. /\ batch'[b].status = "review_committing"
        /\ \A d \in Batches : d # b => batch'[d] = batch[d]
    BY <1>0, <1>1, <1>3 DEF MakesSuccessor, ReviewInv, ReviewTypeOK, TypeOK, BatchRow
  <2>4. /\ receipts[r] = "none" /\ conflict[p] = "open"
        /\ \A q \in Pairs : q[1] = b => Settled(q, "committed") = {}
    BY <1>0, <1>1, DeskOpen DEF StillOpen
  <2>5. \A x \in Pairs, s \in {"committed", "no_change"} : Settled(x, s)' = Settled(x, s)
    BY <2>1, SameEffects DEF Uneventful
  <2>6. ASSUME NEW q \in Pairs
        PROVE  /\ conflict'[q] # "none" => WithReviewers(q[1])'
               /\ Settled(q, "committed")' # {} => batch'[q[1]].status = "settled"
               /\ \A x \in Settled(q, "no_change")' : conflict'[q] = "resolved" /\ receipts'[x] = "settled"
    <3>0. PairsInOrder
      BY InOrderParts DEF OneByOne
    <3>1. CASE q[1] = b
      BY <1>1, <2>3, <2>4, <2>5, <3>0, <3>1 DEF PairsInOrder, WithReviewers, InReview
    <3>2. CASE q[1] # b
      <4>1. batch'[q[1]] = batch[q[1]]
        BY <2>3, <3>2, PairParts
      <4> QED
        BY <1>1, <2>5, <3>0, <4>1 DEF PairsInOrder, WithReviewers, InReview
    <3> QED
      BY <3>1, <3>2
  <2>7. DeskInOrder(v)'
    <3>2. desk'[v].phase = "committing" /\ desk'[v].receipt = r
      BY <2>1 DEF GoesOn
    <3>3. Pair(v)' = p
      BY <1>0, <2>1 DEF GoesOn, Pair
    <3>4. StillOpen(Pair(v))'
      BY <1>1, <2>3, <2>4, <3>3 DEF StillOpen, InReview
    <3> QED
      BY <1>1, <2>4, <3>2, <3>4 DEF DeskInOrder
  <2> QED
    BY <2>2, <2>6, <2>7, InOrderParts DEF OneByOne, PairsInOrder, Alone
<1> QED
  BY <1>0, <1>2, <1>3 DEF Start, MakesSuccessor

LEMMA CommitReviewOne ==
    ASSUME ReviewInv, OneByOne, NEW v \in Reviewers, Alone(v), CommitReview(v)
    PROVE  OneByOne'
<1>0. PICK p \in Pairs, r \in Receipts : p = Pair(v) /\ r = desk[v].receipt
  BY DeskTyped DEF CommitReview, At
<1> DEFINE b == p[1]
<1>1. /\ desk[v] # Away /\ desk[v] \in Desk /\ b \in Batches /\ desk[v].phase = "committing"
      /\ UNCHANGED <<proposalVars, work, faults, asked, made, receipts, resolution>>
  BY <1>0, DeskTyped DEF CommitReview, At
<1>2. CASE /\ Quit(v)
           /\ UNCHANGED <<head, candidateVars, successor, effect, batch, token>>
  <2>1. Uneventful
    BY <1>1, <1>2, NothingMoves DEF candidateVars, proposalVars
  <2> QED
    BY <1>1, <1>2, <2>1, LeavesOne DEF proposalVars
<1>3. CASE /\ successor[r] = "proposed"
           /\ successor' = [successor EXCEPT ![r] = "committed"]
           /\ effect' = [effect EXCEPT ![r] = {p}]
           /\ batch' = [batch EXCEPT ![b] = Freed(batch[b], "settled")]
           /\ Turn(v, "recording")
  <2>1. /\ receipts[r] = "none" /\ conflict[p] = "open" /\ Effective(p) = {}
        /\ \A q \in Pairs : q[1] = b => Settled(q, "committed") = {}
    BY <1>0, <1>1, DeskOpen DEF StillOpen
  <2>2. TakesEffect(r, p, "committed")
    BY <1>1, <1>3 DEF TakesEffect
  <2>3. /\ Effective(p)' = {r} /\ \A q \in Pairs : q # p => Effective(q)' = Effective(q)
        /\ \A q \in Pairs : Settled(q, "no_change")' = Settled(q, "no_change")
        /\ \A q \in Pairs : q # p => Settled(q, "committed")' = Settled(q, "committed")
        /\ \A x \in Receipts : x # r => successor'[x] = successor[x] /\ effect'[x] = effect[x]
    BY <2>1, <2>2, EffectAdded
  <2>4. DecidedOnce'
    BY <2>3 DEF DecidedOnce, OneByOne
  <2>5. ReceiptsTell'
    BY <1>1, <2>1, <2>3 DEF ReceiptsTell, OneByOne
  <2>6. batch'[b].status = "settled" /\ \A d \in Batches : d # b => batch'[d] = batch[d]
    BY <1>1, <1>3 DEF Freed, ReviewInv, ReviewTypeOK, TypeOK
  <2>7. ASSUME NEW q \in Pairs
        PROVE  /\ conflict'[q] # "none" => WithReviewers(q[1])'
               /\ Settled(q, "committed")' # {} => batch'[q[1]].status = "settled"
               /\ \A x \in Settled(q, "no_change")' : conflict'[q] = "resolved" /\ receipts'[x] = "settled"
    <3>0. PairsInOrder
      BY InOrderParts DEF OneByOne
    <3>1. CASE q[1] = b
      BY <1>1, <2>3, <2>6, <3>0, <3>1 DEF PairsInOrder, WithReviewers, proposalVars
    <3>2. CASE q[1] # b
      <4>1. batch'[q[1]] = batch[q[1]]
        BY <2>6, <3>2, PairParts
      <4> QED
        BY <1>1, <2>3, <3>0, <3>2, <4>1 DEF PairsInOrder, WithReviewers, InReview, proposalVars
    <3> QED
      BY <3>1, <3>2
  <2>8. DeskInOrder(v)'
    <3>1. desk'[v].phase = "recording" /\ desk'[v].receipt = r
      BY <1>0, <1>1, <1>3, DeskGoesOn DEF GoesOn, DeskPhases
    <3> QED
      BY <1>1, <2>1, <3>1 DEF DeskInOrder
  <2> QED
    BY <2>4, <2>5, <2>7, <2>8, InOrderParts DEF OneByOne, PairsInOrder, Alone
<1> QED
  BY <1>0, <1>2, <1>3 DEF CommitReview, MayCommit

LEMMA RecordOne ==
    ASSUME ReviewInv, OneByOne, NEW v \in Reviewers, Alone(v), Record(v)
    PROVE  OneByOne'
<1>0. PICK p \in Pairs, r \in Receipts : p = Pair(v) /\ r = desk[v].receipt
  BY DeskTyped DEF Record, At
<1>1. /\ desk[v] # Away /\ Quit(v) /\ conflict[p] # "none" /\ desk[v].phase = "recording"
      /\ UNCHANGED <<head, candidateVars, batch, prop, work, faults, asked, made, successor,
                     effect, token>>
  BY <1>0, DeskTyped DEF Record, At
<1>2. successor[r] = "committed"
  BY <1>0, <1>1 DEF ReviewInv, RequestsInOrder
<1>3. /\ \A q \in Pairs : /\ conflict[q] # "none" <=> conflict'[q] # "none"
                          /\ conflict[q] = "resolved" => conflict'[q] = "resolved"
      /\ \A x \in Receipts : x # r => receipts'[x] = receipts[x]
  BY <1>0, <1>1 DEF Record, Save, ReviewInv, ReviewTypeOK, TypeOK
<1>4. receipts'[r] = "settled"
  BY <1>0, <1>1 DEF Record, Save, ReviewInv, ReviewTypeOK, OneByOne, ReviewsInOrder
<1>5. \A q \in Pairs : /\ \A s \in {"committed", "no_change"} : Settled(q, s)' = Settled(q, s)
                       /\ Effective(q)' = Effective(q)
  BY <1>1, SameEffects
<1>6. DecidedOnce' /\ ReceiptsTell'
  BY <1>1, <1>3, <1>4, <1>5 DEF DecidedOnce, ReceiptsTell, OneByOne
<1>7. PairsInOrder'
  <2>1. PairsInOrder
    BY InOrderParts DEF OneByOne
  <2>2. \A q \in Pairs : Settled(q, "no_change") \subseteq Receipts
    BY DEF Settled
  <2> QED
    BY <1>1, <1>3, <1>4, <1>5, <2>1, <2>2 DEF PairsInOrder, WithReviewers, InReview
<1> QED
  BY <1>1, <1>6, <1>7, Leaves, InOrderParts DEF OneByOne

LEMMA KeepOne ==
    ASSUME ReviewInv, OneByOne, NEW v \in Reviewers, Alone(v), Keep(v)
    PROVE  OneByOne'
<1>0. PICK p \in Pairs, r \in Receipts : p = Pair(v) /\ r = desk[v].receipt
  BY DeskTyped DEF Keep, At
<1> DEFINE b == p[1]
<1>1. /\ desk[v] # Away /\ b \in Batches /\ desk[v].phase = "keeping"
      /\ Quit(v)
      /\ UNCHANGED <<head, work, faults, asked, token>>
  BY <1>0, DeskTyped DEF Keep, At
<1>2. CASE UNCHANGED <<made, successor, effect, proposalVars, resolution, candidateVars,
                       batch, receipts>>
  <2>1. Uneventful
    BY <1>1, <1>2, NothingMoves DEF candidateVars, proposalVars
  <2> QED
    BY <1>1, <1>2, <2>1, LeavesOne DEF proposalVars
<1>3. CASE /\ successor[r] = "none" /\ receipts[r] = "none"
           /\ successor' = [successor EXCEPT ![r] = "no_change"]
           /\ made' = [made EXCEPT ![r] = {p}] /\ effect' = [effect EXCEPT ![r] = {p}]
           /\ conflict' = [conflict EXCEPT ![p] = "resolved"]
           /\ batch' = IF batch[b].status = "awaiting_review"
                       THEN [batch EXCEPT ![b].status = "settled"]
                       ELSE batch
           /\ Save(v, "settled")
  <2>1. /\ conflict[p] = "open" /\ Effective(p) = {}
        /\ \A q \in Pairs : q[1] = b => Settled(q, "committed") = {}
    BY <1>0, <1>1, DeskOpen DEF StillOpen
  <2>2. TakesEffect(r, p, "no_change")
    BY <1>1, <1>3 DEF TakesEffect
  <2>3. /\ Effective(p)' = {r} /\ \A q \in Pairs : q # p => Effective(q)' = Effective(q)
        /\ \A q \in Pairs : Settled(q, "committed")' = Settled(q, "committed")
        /\ Settled(p, "no_change")' = Settled(p, "no_change") \cup {r}
        /\ \A q \in Pairs : q # p => Settled(q, "no_change")' = Settled(q, "no_change")
        /\ \A x \in Receipts : x # r => successor'[x] = successor[x] /\ effect'[x] = effect[x]
        /\ effect'[r] = {p}
    BY <2>1, <2>2, EffectAdded
  <2>4. receipts'[r] = "settled" /\ \A x \in Receipts : x # r => receipts'[x] = receipts[x]
    BY <1>0, <1>3 DEF Save, ReviewInv, ReviewTypeOK
  <2>5. DecidedOnce'
    BY <2>3 DEF DecidedOnce, OneByOne
  <2>6. ReceiptsTell'
    BY <1>1, <2>3, <2>4 DEF ReceiptsTell, OneByOne
  <2>7. /\ \A d \in Batches : batch'[d] = batch[d] \/ batch'[d].status = "settled"
        /\ conflict'[p] = "resolved" /\ \A q \in Pairs : q # p => conflict'[q] = conflict[q]
    BY <1>3 DEF ReviewInv, ReviewTypeOK, TypeOK, BatchRow
  <2>8. ASSUME NEW q \in Pairs
        PROVE  /\ conflict'[q] # "none" => WithReviewers(q[1])'
               /\ Settled(q, "committed")' # {} => batch'[q[1]].status = "settled"
               /\ \A x \in Settled(q, "no_change")' : conflict'[q] = "resolved" /\ receipts'[x] = "settled"
    <3>0. PairsInOrder /\ q[1] \in Batches
      BY InOrderParts, PairParts DEF OneByOne
    <3>1. conflict'[q] # "none" => WithReviewers(q[1])'
      BY <2>1, <2>7, <3>0 DEF PairsInOrder, WithReviewers, InReview
    <3>2. Settled(q, "committed")' # {} => batch'[q[1]].status = "settled"
      BY <2>3, <2>7, <3>0 DEF PairsInOrder
    <3>3. \A x \in Settled(q, "no_change")' : x = r \/ x \in Settled(q, "no_change")
      BY <2>3
    <3>4. r \in Settled(q, "no_change")' => q = p
      BY <2>3 DEF Settled
    <3>5. Settled(q, "no_change") \subseteq Receipts
      BY DEF Settled
    <3> QED
      BY <2>4, <2>7, <3>0, <3>1, <3>2, <3>3, <3>4, <3>5 DEF PairsInOrder
  <2> QED
    BY <1>1, <2>5, <2>6, <2>8, Leaves, InOrderParts DEF OneByOne, PairsInOrder
<1> QED
  BY <1>0, <1>2, <1>3 DEF Keep

LEMMA AbandonOne ==
    ASSUME ReviewInv, OneByOne, NEW v \in Reviewers, Alone(v), Abandon(v)
    PROVE  OneByOne'
<1>1. Quit(v) /\ UNCHANGED <<batch, conflict, receipts>>
  BY DEF Abandon, proposalVars
<1>2. Uneventful
  BY NothingMoves DEF Abandon, candidateVars, proposalVars
<1> QED
  BY <1>1, <1>2, LeavesOne

LEMMA ReviewLeaseOne ==
    ASSUME ReviewInv, OneByOne, NEW b \in Batches, ReviewLeaseRunsOut(b)
    PROVE  OneByOne'
<1>1. UNCHANGED <<cand, conflict, asked, made, successor, effect, receipts, resolution, desk>>
  BY DEF ReviewLeaseRunsOut, candidateVars, proposalVars, reviewVars
<1>2. \A d \in Batches : batch'[d].status = batch[d].status
  BY DEF ReviewLeaseRunsOut, Expire, ReviewInv, ReviewTypeOK, TypeOK, BatchRow
<1>3. Uneventful
  BY <1>1, NothingMoves
<1>4. DecidedOnce' /\ ReceiptsTell' /\ PairsInOrder'
  BY <1>1, <1>2, <1>3, RecordsStay, PairsStay
<1>5. ASSUME NEW v \in Reviewers
      PROVE  DeskInOrder(v)'
  <2>1. DeskInOrder(v)
    BY InOrderParts DEF OneByOne
  <2>2. desk[v] # Away => Pair(v)[1] \in Batches
    BY DeskTyped
  <2> QED
    BY <1>1, <1>2, <2>1, <2>2 DEF DeskInOrder, StillOpen, InReview, Pair
<1> QED
  BY <1>4, <1>5, InOrderParts DEF OneByOne

LEMMA ReviewInitOne == ReviewInit => OneByOne
<1> SUFFICES ASSUME ReviewInit PROVE OneByOne
  OBVIOUS
<1>1. \A p \in Pairs : Effective(p) = {} /\ \A s : Settled(p, s) = {}
  BY DEF ReviewInit, Settled, Effective
<1> QED
  BY <1>1, PairParts
  DEF OneByOne, DecidedOnce, ReceiptsTell, ReviewsInOrder, ReviewInit, Init

LEMMA OneStep ==
    ASSUME \A u, v \in Reviewers : u = v, ReviewInv, OneByOne, [ReviewNext]_allVars
    PROVE  OneByOne'
<1>1. CASE [Next]_vars /\ UNCHANGED reviewVars
  BY <1>1, WorkersOne
<1>2. ASSUME NEW v \in Reviewers, Resolve(v) \/ Proceed(v) \/ Abandon(v)
      PROVE  OneByOne'
  <2>1. Alone(v)
    BY DEF Alone
  <2> QED
    BY <1>2, <2>1, ResolveOne, AnswerOne, CheckTargetOne, StaleOne, StartOne, CommitReviewOne,
       RecordOne, KeepOne, AbandonOne
    DEF Proceed
<1> QED
  BY <1>1, <1>2, ReviewLeaseOne DEF ReviewNext, allVars

(***************************************************************************)
(* When reviewers come one after the other, wherever each of them stops: a *)
(* conflict is decided once, and every stored receipt of resolve tells     *)
(* whether its request took effect.                                        *)
(***************************************************************************)
THEOREM ReviewsOneByOne ==
    (\A u, v \in Reviewers : u = v) => (ReviewSpec => []OneByOne)
<1> SUFFICES ASSUME \A u, v \in Reviewers : u = v
             PROVE  ReviewSpec => []OneByOne
  OBVIOUS
<1>1. ReviewInit => ReviewInv /\ OneByOne
  BY ReviewInitSafe, ReviewInitOne
<1>2. (ReviewInv /\ OneByOne) /\ [ReviewNext]_allVars => (ReviewInv /\ OneByOne)'
  BY ReviewStepSafe, OneStep
<1>3. ReviewInv /\ OneByOne => OneByOne
  OBVIOUS
<1> QED
  BY <1>1, <1>2, PTL DEF ReviewSpec

-----------------------------------------------------------------------------
(***************************************************************************)
(* Schedule.                                                               *)
(***************************************************************************)

\* A step that touches one batch: its row, the proposals for its members and
\* the candidates in its hands; of another batch it may supersede a proposal
\* that is not to be decided.
Aside(d, c) ==
    prop'[<<d, c>>].status = prop[<<d, c>>].status
    \/ {prop[<<d, c>>].status, prop'[<<d, c>>].status}
          \cap {"none", "proposed", "awaiting_review"} = {}

Handles(b) ==
    /\ batch[b].status # "none" /\ batch'[b].status # "none"
    /\ batch'[b].members = batch[b].members
    /\ \A d \in Batches : d # b => batch'[d] = batch[d]
    /\ \A c \in Candidates :
          \/ cand'[c] = cand[c]
          \/ /\ cand[c].batch = b /\ cand'[c].batch \in {b, NoBatch}
             /\ cand'[c].batch # NoBatch <=> cand'[c].status \in {"processing", "awaiting_review"}
    /\ \A d \in Batches, c \in Candidates : d # b => Aside(d, c)
    /\ \A c \in Candidates :
          prop'[<<b, c>>].status # "none" => prop[<<b, c>>].status # "none" \/ c \in batch[b].members

\* Nobody becomes a holder of a batch that he froze.
NoNewRequest == \A v \in Workers : round'[v].phase = "requested" => round'[v] = round[v]

Accounted(b, c) ==
    /\ prop[<<b, c>>].status # "none" \/ cand[c].batch = b => c \in batch[b].members
    /\ batch[b].status = "none" => batch[b].members = {}

LEMMA ActiveRows ==
    ASSUME TypeOK, ActiveIffHeld, NEW c \in Candidates,
           cand[c].status \in {"none", "pending", "retry", "settled", "quarantined"}
    PROVE  cand[c].batch = NoBatch /\ cand[c].batch \notin Batches
  BY BatchAssumption DEF ActiveIffHeld

LEMMA HandledRows ==
    ASSUME ScheduleInv, NEW b \in Batches, Handles(b)
    PROVE  /\ ActiveIffHeld'
           /\ \A d \in Batches, c \in Candidates : Accounted(d, c)'
           /\ \A c \in Candidates :
                 cand[c].status \in {"none", "pending", "retry", "settled", "quarantined"}
                    => cand'[c] = cand[c]
           /\ \A d \in Batches, c \in Candidates : cand'[c].batch = d => cand[c].batch = d
           /\ \A d \in Batches, c \in Candidates : d # b /\ Entrusted(d, c) => Entrusted(d, c)'
<1>1. TypeOK /\ ActiveIffHeld /\ \A d \in Batches, c \in Candidates : Accounted(d, c)
  BY DEF ScheduleInv, ScheduleTypeOK, BatchesInOrder, Accounted
<1>2. ActiveIffHeld'
  BY <1>1 DEF ActiveIffHeld, Handles
<1>3. \A d \in Batches, c \in Candidates : cand'[c].batch = d => cand[c].batch = d
  BY BatchAssumption DEF Handles
<1>4. \A d \in Batches, c \in Candidates : Accounted(d, c)'
  <2> SUFFICES ASSUME NEW d \in Batches, NEW c \in Candidates
               PROVE  Accounted(d, c)'
    OBVIOUS
  <2>1. Accounted(d, c) /\ (cand'[c].batch = d => cand[c].batch = d)
    BY <1>1, <1>3
  <2>2. CASE d = b
    BY <2>1, <2>2 DEF Accounted, Handles
  <2>3. CASE d # b
    <3>1. batch'[d] = batch[d] /\ Aside(d, c)
      BY <2>3 DEF Handles
    <3> QED
      BY <2>1, <3>1 DEF Accounted, Aside
  <2> QED
    BY <2>2, <2>3
<1>5. \A c \in Candidates :
        cand[c].status \in {"none", "pending", "retry", "settled", "quarantined"}
           => cand'[c] = cand[c]
  BY <1>1, ActiveRows DEF Handles
<1>6. ASSUME NEW d \in Batches, NEW c \in Candidates, d # b, Entrusted(d, c)
      PROVE  Entrusted(d, c)'
  <2>1. batch'[d] = batch[d] /\ Aside(d, c)
    BY <1>6 DEF Handles
  <2>2. cand[c].batch = d => cand'[c] = cand[c]
    BY <1>6 DEF Handles
  <2> QED
    BY <1>6, <2>1, <2>2 DEF Entrusted, Underway, Aside
<1> QED
  BY <1>2, <1>3, <1>4, <1>5, <1>6

\* A cleared batch that is handled has nothing to decide, then as before.
ClearKept(b) ==
    b \in cleared =>
        /\ batch'[b].status \in {"settled", "awaiting_review"}
        /\ \A c \in Candidates : ~Undecided(prop'[<<b, c>>].status)

LEMMA HandledSafe ==
    ASSUME ScheduleInv, NEW b \in Batches, Handles(b), ClearKept(b), NoNewRequest,
           \A c \in Candidates : InForce(b) /\ Entrusted(b, c) => Entrusted(b, c)',
           UNCHANGED <<runs, owner, batchRun, cleared>>
    PROVE  BatchesInOrder' /\ RunsInOrder' /\ ClearedInOrder' /\ ClearedStaysEmpty'
<1>1. \A d \in Batches : InForce(d)' => InForce(d)
  BY DEF InForce, Live, NoNewRequest
<1>2. BatchesInOrder'
  BY <1>1, HandledRows DEF BatchesInOrder, Accounted, ScheduleInv
<1>3. RunsInOrder'
  BY DEF RunsInOrder, ScheduleInv, Handles
<1>4. ClearedInOrder'
  BY DEF ClearedInOrder, ScheduleInv, ScheduleTypeOK, Handles, ClearKept
<1>5. ClearedStaysEmpty'
  <2> SUFFICES ASSUME NEW d \in cleared, NEW c \in Candidates
               PROVE  ~Undecided(prop'[<<d, c>>].status) /\ cand'[c].batch # d
    BY DEF ClearedStaysEmpty
  <2>1. d \in Batches /\ ~Undecided(prop[<<d, c>>].status) /\ cand[c].batch # d
    BY DEF ScheduleInv, ScheduleTypeOK, ClearedStaysEmpty
  <2>2. cand'[c].batch # d
    BY <2>1, HandledRows
  <2>3. CASE d = b
    BY <2>2, <2>3 DEF ClearKept
  <2>4. CASE d # b
    BY <2>1, <2>2, <2>4 DEF Handles, Aside, Undecided
  <2> QED
    BY <2>3, <2>4
<1> QED
  BY <1>2, <1>3, <1>4, <1>5

\* A step that leaves the rows alone.
LEMMA RowsAlone ==
    ASSUME ScheduleInv, NoNewRequest, UNCHANGED <<cand, prop>>,
           \A d \in Batches : /\ batch'[d].status = batch[d].status
                              /\ batch'[d].members = batch[d].members,
           UNCHANGED <<runs, owner, batchRun, cleared>>
    PROVE  BatchesInOrder' /\ RunsInOrder' /\ ClearedInOrder' /\ ClearedStaysEmpty'
<1>1. \A d \in Batches : InForce(d)' => InForce(d)
  BY DEF InForce, Live, NoNewRequest
<1>2. BatchesInOrder'
  BY <1>1 DEF BatchesInOrder, ActiveIffHeld, Entrusted, Underway, ScheduleInv
<1>3. RunsInOrder'
  BY DEF RunsInOrder, ScheduleInv
<1>4. ClearedInOrder' /\ ClearedStaysEmpty'
  BY DEF ClearedInOrder, ClearedStaysEmpty, ScheduleInv, ScheduleTypeOK
<1> QED
  BY <1>2, <1>3, <1>4

\* Rounds go on, or end.
LEMMA RoundsGoOn ==
    ASSUME ScheduleInv, UNCHANGED <<runs, batchRun>>,
           \A d \in Batches : batch[d].status # "none" => batch'[d].status # "none",
           \A v \in Workers : \/ round'[v] = round[v] \/ round'[v] = Off
                              \/ /\ round[v].phase \in {"chosen", "inside", "answered"}
                                 /\ round'[v].phase \in {"chosen", "inside", "answered"}
                                 /\ round'[v].run = round[v].run
                                 /\ round'[v].batch = round[v].batch
    PROVE  RoundsInOrder' /\ NoNewRequest
<1>1. NoNewRequest
  BY DEF NoNewRequest, Off
<1>2. \A v \in Workers : round'[v] # Off =>
          round[v] # Off /\ round'[v].run = round[v].run /\ round'[v].batch = round[v].batch
          /\ (round'[v].phase = "requested" <=> round[v].phase = "requested")
          /\ round'[v].phase # "off"
  <2> SUFFICES ASSUME NEW v \in Workers, round'[v] # Off
               PROVE  /\ round[v] # Off /\ round'[v].run = round[v].run
                      /\ round'[v].batch = round[v].batch
                      /\ (round'[v].phase = "requested" <=> round[v].phase = "requested")
                      /\ round'[v].phase # "off"
    OBVIOUS
  <2>1. CASE round'[v] = round[v]
    BY <2>1 DEF RoundsInOrder, ScheduleInv
  <2>2. CASE round'[v] # round[v]
    <3>1. /\ round[v].phase \in {"chosen", "inside", "answered"}
          /\ round'[v].phase \in {"chosen", "inside", "answered"}
          /\ round'[v].run = round[v].run /\ round'[v].batch = round[v].batch
      BY <2>2
    <3>2. Off.phase = "off"
      BY DEF Off
    <3>3. round[v] # Off
      BY <3>1, <3>2
    <3> QED
      BY <3>1, <3>3
  <2> QED
    BY <2>1, <2>2
<1>3. NoBatch \notin Batches
  BY BatchAssumption
<1>4. \A v \in Workers : round'[v].batch \in Batches => round'[v] # Off
  BY <1>3 DEF Off
<1> QED
  BY <1>1, <1>2, <1>4 DEF RoundsInOrder, ScheduleInv

\* What is pending follows from what is in force.
LEMMA PendingFollows == BatchesInOrder => PendingIsHeld
  BY DEF BatchesInOrder, PendingIsHeld, InForce, Entrusted, Undecided

LEMMA PendingFollowsNext == BatchesInOrder' => PendingIsHeld'
  BY DEF BatchesInOrder, PendingIsHeld, InForce, Entrusted, Undecided, Live

\* A worker inside run_once has a batch of the run that its round is for.
LEMMA InsideRound ==
    ASSUME ScheduleInv, NEW w \in Workers, work[w] # Idle
    PROVE  /\ work[w] \in Claims /\ work[w].batch \in Batches /\ Decided(work[w])
           /\ batch[work[w].batch] \in BatchRow
           /\ round[w] \in Rounds /\ round[w] # Off
           /\ round[w].phase \in {"inside", "answered"}
           /\ round[w].batch = work[w].batch
           /\ round[w].run \in Runs /\ batchRun[work[w].batch] = round[w].run
           /\ batch[work[w].batch].status # "none"
<1>1. TypeOK
  BY DEF ScheduleInv, ScheduleTypeOK
<1>2. /\ work[w] \in Claims /\ work[w].batch \in Batches /\ Decided(work[w])
      /\ batch[work[w].batch] \in BatchRow
  BY <1>1, ClaimTyped DEF TypeOK, Mine
<1>3. /\ round[w] \in Rounds /\ round[w].phase \in {"inside", "answered"}
      /\ round[w].batch = work[w].batch
  BY DEF ScheduleInv, ScheduleTypeOK
<1>4. Off.phase = "off"
  BY DEF Off
<1>5. round[w] # Off
  BY <1>3, <1>4
<1> QED
  BY <1>2, <1>3, <1>5 DEF ScheduleInv, RoundsInOrder

\* The worker goes on with his batch, or returns.
WorkerMoves(w) ==
    /\ round' \in [Workers -> Rounds]
    /\ \A v \in Workers : v # w => work'[v] = work[v] /\ round'[v] = round[v]
    /\ \/ work'[w] = Idle /\ round'[w] = Off
       \/ /\ work[w] # Idle /\ work'[w] # Idle /\ work'[w].batch = work[w].batch
          /\ round'[w].phase \in {"inside", "answered"}
          /\ round'[w].run = round[w].run /\ round'[w].batch = round[w].batch

LEMMA MovesOn ==
    ASSUME ScheduleInv, NEW w \in Workers, WorkerMoves(w), UNCHANGED <<runs, batchRun>>,
           \A d \in Batches : batch[d].status # "none" => batch'[d].status # "none"
    PROVE  /\ RoundsInOrder' /\ NoNewRequest
           /\ \A v \in Workers : work'[v] # Idle <=> round'[v].phase \in {"inside", "answered"}
           /\ \A v \in Workers : work'[v] # Idle => round'[v].batch = work'[v].batch
<1>1. \A v \in Workers : \/ round'[v] = round[v] \/ round'[v] = Off
                         \/ /\ round[v].phase \in {"chosen", "inside", "answered"}
                            /\ round'[v].phase \in {"chosen", "inside", "answered"}
                            /\ round'[v].run = round[v].run
                            /\ round'[v].batch = round[v].batch
  BY InsideRound DEF WorkerMoves
<1>2. RoundsInOrder' /\ NoNewRequest
  BY <1>1, RoundsGoOn
<1>3. ASSUME NEW v \in Workers
      PROVE  /\ work'[v] # Idle <=> round'[v].phase \in {"inside", "answered"}
             /\ work'[v] # Idle => round'[v].batch = work'[v].batch
  <2>0. Off.phase = "off"
    BY DEF Off
  <2>1. /\ work[v] # Idle <=> round[v].phase \in {"inside", "answered"}
        /\ work[v] # Idle => round[v].batch = work[v].batch
    BY DEF ScheduleInv, ScheduleTypeOK
  <2>2. CASE v # w
    BY <2>1, <2>2 DEF WorkerMoves
  <2>3. CASE v = w
    BY <2>0, <2>1, <2>3 DEF WorkerMoves
  <2> QED
    BY <2>2, <2>3
<1> QED
  BY <1>2, <1>3

LEMMA Assembled ==
    ASSUME ScheduleTypeOK', BatchesInOrder', RunsInOrder', RoundsInOrder', ClearedInOrder',
           ClearedStaysEmpty'
    PROVE  ScheduleInv'
  BY PendingFollowsNext DEF ScheduleInv

\* A worker's step that leaves the rows alone.
LEMMA MovesAlone ==
    ASSUME ScheduleInv, NEW w \in Workers, WorkerMoves(w), TypeOK', UNCHANGED <<cand, prop>>,
           \A d \in Batches : /\ batch'[d].status = batch[d].status
                              /\ batch'[d].members = batch[d].members,
           UNCHANGED <<runs, owner, batchRun, checkpoint, managed, cleared>>
    PROVE  ScheduleInv'
<1>1. /\ RoundsInOrder' /\ NoNewRequest
      /\ \A v \in Workers : work'[v] # Idle <=> round'[v].phase \in {"inside", "answered"}
      /\ \A v \in Workers : work'[v] # Idle => round'[v].batch = work'[v].batch
  BY MovesOn
<1>2. BatchesInOrder' /\ RunsInOrder' /\ ClearedInOrder' /\ ClearedStaysEmpty'
  BY <1>1, RowsAlone
<1>3. ScheduleTypeOK'
  BY <1>1 DEF ScheduleInv, ScheduleTypeOK, WorkerMoves
<1> QED
  BY <1>1, <1>2, <1>3, Assembled

\* A worker's step on his batch.
LEMMA MovesHandling ==
    ASSUME ScheduleInv, NEW w \in Workers, WorkerMoves(w), TypeOK',
           NEW b \in Batches, Handles(b), ClearKept(b),
           \A c \in Candidates : InForce(b) /\ Entrusted(b, c) => Entrusted(b, c)',
           UNCHANGED <<runs, owner, batchRun, checkpoint, managed, cleared>>
    PROVE  ScheduleInv'
<1>1. \A d \in Batches : batch[d].status # "none" => batch'[d].status # "none"
  BY DEF Handles
<1>2. /\ RoundsInOrder' /\ NoNewRequest
      /\ \A v \in Workers : work'[v] # Idle <=> round'[v].phase \in {"inside", "answered"}
      /\ \A v \in Workers : work'[v] # Idle => round'[v].batch = work'[v].batch
  BY <1>1, MovesOn
<1>3. BatchesInOrder' /\ RunsInOrder' /\ ClearedInOrder' /\ ClearedStaysEmpty'
  BY <1>2, HandledSafe
<1>4. checkpoint' \subseteq {c \in Candidates : cand'[c].status = "pending"}
  BY HandledRows DEF ScheduleInv, ScheduleTypeOK
<1>5. ScheduleTypeOK'
  BY <1>2, <1>4 DEF ScheduleInv, ScheduleTypeOK, WorkerMoves
<1> QED
  BY <1>2, <1>3, <1>5, Assembled

\* What an idle desk and an unchanged round make of a step.
LEMMA RoundsUpdated ==
    ASSUME ScheduleInv, NEW w \in Workers
    PROVE  /\ Off \in Rounds
           /\ \A ph \in {"off", "requested", "chosen", "inside", "answered"} :
                 [round[w] EXCEPT !.phase = ph] \in Rounds
           /\ Leave(w) /\ Return(w) => WorkerMoves(w)
<1>1. Off \in Rounds
  BY DEF Off, Rounds
<1>2. round \in [Workers -> Rounds] /\ work \in [Workers -> Claims \cup {Idle}]
  BY DEF ScheduleInv, ScheduleTypeOK, TypeOK
<1>3. \A ph \in {"off", "requested", "chosen", "inside", "answered"} :
          [round[w] EXCEPT !.phase = ph] \in Rounds
  BY <1>2 DEF Rounds
<1>4. Leave(w) /\ Return(w) => WorkerMoves(w)
  BY <1>1, <1>2 DEF Leave, Return, WorkerMoves
<1> QED
  BY <1>1, <1>3, <1>4

\* The worker's steps of Batch that the round follows.
LEMMA WorkMoves ==
    ASSUME ScheduleInv, NEW w \in Workers, work[w] # Idle,
           \/ Leave(w) \/ \E ph \in Phases : Go(w, ph)
           \/ \E S \in SUBSET Candidates : Adopt(w, S) \/ \E x \in {"retry", "blocked"} : Decide(w, x),
           round' = [round EXCEPT ![w] = IF work'[w] = Idle THEN Off ELSE round[w]]
    PROVE  WorkerMoves(w)
<1>1. /\ round \in [Workers -> Rounds] /\ work \in [Workers -> Claims \cup {Idle}]
      /\ work[w] \in Claims /\ round[w].phase \in {"inside", "answered"} /\ Off \in Rounds
  BY InsideRound, RoundsUpdated DEF ScheduleInv, ScheduleTypeOK, TypeOK
<1>2. round' \in [Workers -> Rounds]
  BY <1>1
<1>3. \A v \in Workers : v # w => work'[v] = work[v] /\ round'[v] = round[v]
  BY <1>1 DEF Leave, Go, Adopt, Decide
<1>4. CASE Leave(w)
  BY <1>1, <1>2, <1>3, <1>4 DEF Leave, WorkerMoves
<1>5. CASE ~Leave(w)
  <2>1. work'[w].batch = work[w].batch /\ work'[w].phase \in Phases
    BY <1>1, <1>5 DEF Go, Adopt, Decide, Claims, Phases
  <2>2. work'[w] # Idle
    BY <2>1 DEF Idle, Phases
  <2>3. round'[w] = round[w]
    BY <1>1, <2>2
  <2> QED
    BY <1>1, <1>2, <1>3, <2>1, <2>2, <2>3 DEF WorkerMoves
<1> QED
  BY <1>4, <1>5

(***************************************************************************)
(* The steps of a worker that change rows.                                 *)
(***************************************************************************)
\* What handling a batch has to show of it.
Handled(b) ==
    /\ Handles(b) /\ ClearKept(b)
    /\ \A c \in Candidates : InForce(b) /\ Entrusted(b, c) => Entrusted(b, c)'

LEMMA ReleaseHandled ==
    ASSUME ScheduleInv, NEW w \in Workers, Release(w)
    PROVE  \/ UNCHANGED <<cand, prop, batch>>
           \/ \E b \in Batches : Handled(b)
<1>0. PICK b \in Batches : b = work[w].batch
  BY InsideRound DEF Release, Step
<1>1. CASE UNCHANGED <<cand, prop, batch>>
  BY <1>1
<1>2. CASE /\ InRun(b)
           /\ prop' = [p \in Pairs |->
                   IF p[1] = b /\ prop[p].status = "proposed"
                   THEN [prop[p] EXCEPT !.status = "invalidated"]
                   ELSE prop[p]]
           /\ cand' = [c \in Candidates |->
                   IF cand[c].batch = b /\ cand[c].status = "processing"
                   THEN [status |-> "retry", batch |-> NoBatch]
                   ELSE cand[c]]
           /\ batch' = [batch EXCEPT ![b] = Freed(batch[b], "settled")]
  <2>1. batch'[b] = Freed(batch[b], "settled") /\ \A d \in Batches : d # b => batch'[d] = batch[d]
    BY <1>2 DEF ScheduleInv, ScheduleTypeOK, TypeOK
  <2>2. \A d \in Batches, c \in Candidates :
          prop'[<<d, c>>] = IF d = b /\ prop[<<d, c>>].status = "proposed"
                            THEN [prop[<<d, c>>] EXCEPT !.status = "invalidated"]
                            ELSE prop[<<d, c>>]
    BY <1>2, PairParts
  <2>3. \A d \in Batches, c \in Candidates : prop[<<d, c>>] \in ProposalRow
    BY PairParts DEF ScheduleInv, ScheduleTypeOK, TypeOK
  <2>4. \A d \in Batches, c \in Candidates :
          prop'[<<d, c>>].status = IF d = b /\ prop[<<d, c>>].status = "proposed"
                                   THEN "invalidated" ELSE prop[<<d, c>>].status
    BY <2>2, <2>3 DEF ProposalRow
  <2>5. Handles(b)
    BY <1>2, <2>1, <2>4 DEF Handles, Aside, Freed, InRun
  <2>6. b \notin cleared
    BY <1>2 DEF ScheduleInv, ClearedInOrder, InRun
  <2>7. \A c \in Candidates : Entrusted(b, c) => Entrusted(b, c)'
    BY <1>2, <2>1, <2>4 DEF Entrusted, Underway, Freed, InRun
  <2> QED
    BY <2>5, <2>6, <2>7 DEF Handled, ClearKept
<1> QED
  BY <1>0, <1>1, <1>2 DEF Release, candidateVars

LEMMA FailHandled ==
    ASSUME ScheduleInv, NEW w \in Workers, Fail(w)
    PROVE  /\ UNCHANGED <<cand, prop>>
           /\ batch' = batch \/ \E b \in Batches : Handled(b)
<1>0. PICK b \in Batches : b = work[w].batch
  BY InsideRound DEF Fail, Step
<1>1. UNCHANGED <<cand, prop>> /\ work[w].verdict \in {"retry", "blocked"}
  BY InsideRound DEF Fail, Step, candidateVars, proposalVars, Decided, Claims
<1>2. CASE InRun(b) /\ batch' = [batch EXCEPT ![b] = Freed(batch[b], work[w].verdict)]
  <2>1. /\ batch'[b] = Freed(batch[b], work[w].verdict)
        /\ \A d \in Batches : d # b => batch'[d] = batch[d]
    BY <1>2 DEF ScheduleInv, ScheduleTypeOK, TypeOK
  <2>2. Handles(b)
    BY <1>1, <1>2, <2>1 DEF Handles, Aside, Freed, InRun
  <2>3. b \notin cleared
    BY <1>2 DEF ScheduleInv, ClearedInOrder, InRun
  <2>4. \A c \in Candidates : Entrusted(b, c) => Entrusted(b, c)'
    BY <1>1, <1>2, <2>1 DEF Entrusted, Underway, Freed, InRun
  <2> QED
    BY <1>1, <2>2, <2>3, <2>4 DEF Handled, ClearKept
<1> QED
  BY <1>0, <1>1, <1>2 DEF Fail

\* A predecessor is invalidated.
LEMMA PredecessorInvalidated ==
    ASSUME NEW c \in Candidates, NEW d \in Batches, d = Predecessor(c)
    PROVE  prop[<<d, c>>].status = "invalidated"
<1>1. Invalidated(c) # {}
  BY BatchAssumption DEF Predecessor
<1> QED
  BY <1>1 DEF Predecessor, Invalidated

LEMMA PersistHandled ==
    ASSUME ScheduleInv, NEW w \in Workers, Persist(w)
    PROVE  \/ UNCHANGED <<cand, prop, batch>>
           \/ \E b \in Batches : Handled(b)
<1>0. PICK b \in Batches : b = work[w].batch
  BY InsideRound DEF Persist, Step
<1> DEFINE members == batch[b].members
<1>1. CASE ~ValidClaim(w)
  BY <1>1 DEF Persist, candidateVars
<1>2. CASE ValidClaim(w)
  <2>1. batch[b].status = "running" /\ cand' = cand
    BY <1>0, <1>2 DEF Persist, ValidClaim, Mine, candidateVars
  <2>2. batch' = [batch EXCEPT ![b] = [batch[b] EXCEPT !.status = "proposed"]]
    BY <1>0, <1>2 DEF Persist
  <2>3. /\ batch'[b].status = "proposed" /\ batch'[b].members = members
        /\ \A d \in Batches : d # b => batch'[d] = batch[d]
    BY <2>2 DEF ScheduleInv, ScheduleTypeOK, TypeOK, BatchRow
  <2>4. PICK answer \in [members -> Delta] :
          prop' = [p \in Pairs |->
                      IF p[1] = b /\ p[2] \in members
                      THEN [status |-> "proposed", delta |-> answer[p[2]],
                            pred |-> Predecessor(p[2])]
                      ELSE IF p[2] \in members /\ p[1] = Predecessor(p[2])
                      THEN [prop[p] EXCEPT !.status = "superseded"]
                      ELSE prop[p]]
    BY <1>0, <1>2 DEF Persist, Input
  <2>5. \A d \in Batches, c \in Candidates : prop[<<d, c>>] \in ProposalRow
    BY PairParts DEF ScheduleInv, ScheduleTypeOK, TypeOK
  <2>6. ASSUME NEW c \in Candidates
        PROVE  prop'[<<b, c>>].status = "proposed" \/ c \notin members
    BY <2>4, PairParts
  <2>7. ASSUME NEW d \in Batches, NEW c \in Candidates, d # b \/ c \notin members
        PROVE  \/ prop'[<<d, c>>] = prop[<<d, c>>]
               \/ /\ c \in members /\ prop[<<d, c>>].status = "invalidated"
                  /\ prop'[<<d, c>>].status = "superseded"
    <3>1. prop'[<<d, c>>] = IF c \in members /\ d = Predecessor(c)
                            THEN [prop[<<d, c>>] EXCEPT !.status = "superseded"]
                            ELSE prop[<<d, c>>]
      BY <2>4, <2>7, PairParts
    <3>2. [prop[<<d, c>>] EXCEPT !.status = "superseded"].status = "superseded"
      BY <2>5 DEF ProposalRow
    <3> QED
      BY <3>1, <3>2, PredecessorInvalidated
  <2>8. Handles(b)
    <3>1. \A d \in Batches, c \in Candidates : d # b => Aside(d, c)
      BY <2>7 DEF Aside
    <3>2. \A c \in Candidates : prop'[<<b, c>>].status # "none" =>
              prop[<<b, c>>].status # "none" \/ c \in members
      BY <2>7
    <3> QED
      BY <2>1, <2>3, <3>1, <3>2 DEF Handles
  <2>9. b \notin cleared
    BY <2>1 DEF ScheduleInv, ClearedInOrder
  <2>10. ASSUME NEW c \in Candidates, Entrusted(b, c)
         PROVE  Entrusted(b, c)'
    <3>1. prop[<<b, c>>].status \in {"none", "proposed"}
      BY <2>1, <2>10 DEF Entrusted, Underway
    <3>2. prop'[<<b, c>>].status \in {"none", "proposed"}
      BY <2>6, <2>7, <3>1
    <3> QED
      BY <2>1, <2>3, <2>10, <3>2 DEF Entrusted, Underway
  <2> QED
    BY <2>8, <2>9, <2>10 DEF Handled, ClearKept
<1> QED
  BY <1>1, <1>2

LEMMA RejectedHandled ==
    ASSUME ScheduleInv, NEW w \in Workers, PersistRejected(w)
    PROVE  \E b \in Batches : Handled(b)
<1>0. PICK b \in Batches : b = work[w].batch
  BY InsideRound DEF PersistRejected, Step
<1>1. /\ batch[b].status = "running"
      /\ prop' = [p \in Pairs |->
                IF p[1] = b /\ p[2] \in batch[b].members
                THEN [status |-> "rejected", delta |-> NoDelta, pred |-> NoBatch]
                ELSE prop[p]]
      /\ cand' = [c \in Candidates |->
                IF cand[c].batch = b THEN [status |-> "quarantined", batch |-> NoBatch]
                ELSE cand[c]]
      /\ batch' = [batch EXCEPT ![b] = Freed(batch[b], "settled")]
  BY <1>0 DEF PersistRejected, ValidClaim, Mine
<1>2. batch'[b] = Freed(batch[b], "settled") /\ \A d \in Batches : d # b => batch'[d] = batch[d]
  BY <1>1 DEF ScheduleInv, ScheduleTypeOK, TypeOK
<1>3. \A d \in Batches, c \in Candidates :
        prop'[<<d, c>>].status = IF d = b /\ c \in batch[b].members THEN "rejected"
                                 ELSE prop[<<d, c>>].status
  BY <1>1, PairParts
<1>4. Handles(b)
  BY <1>1, <1>2, <1>3 DEF Handles, Aside, Freed
<1>5. b \notin cleared
  BY <1>1 DEF ScheduleInv, ClearedInOrder
<1>6. ASSUME NEW c \in Candidates, Entrusted(b, c)
      PROVE  Entrusted(b, c)'
  <2>1. prop[<<b, c>>].status # "none" => c \in batch[b].members
    BY DEF ScheduleInv, BatchesInOrder
  <2> QED
    BY <1>1, <1>2, <1>3, <1>6, <2>1 DEF Entrusted, Underway, Freed
<1> QED
  BY <1>4, <1>5, <1>6 DEF Handled, ClearKept

LEMMA HoldHandled ==
    ASSUME ScheduleInv, NEW b \in Batches, batch[b].status # "none", Hold(b)
    PROVE  Handled(b)
<1>1. batch'[b] = Freed(batch[b], "awaiting_review")
      /\ \A d \in Batches : d # b => batch'[d] = batch[d]
  BY DEF Hold, ScheduleInv, ScheduleTypeOK, TypeOK
<1>2. \A d \in Batches, c \in Candidates :
        prop'[<<d, c>>] = IF d = b /\ prop[<<d, c>>].status = "proposed"
                          THEN [prop[<<d, c>>] EXCEPT !.status = "awaiting_review"]
                          ELSE prop[<<d, c>>]
  BY PairParts DEF Hold
<1>3. \A d \in Batches, c \in Candidates : prop[<<d, c>>] \in ProposalRow
  BY PairParts DEF ScheduleInv, ScheduleTypeOK, TypeOK
<1>4. \A d \in Batches, c \in Candidates :
        prop'[<<d, c>>].status = IF d = b /\ prop[<<d, c>>].status = "proposed"
                                 THEN "awaiting_review" ELSE prop[<<d, c>>].status
  BY <1>2, <1>3 DEF ProposalRow
<1>5. \A c \in Candidates :
        /\ cand'[c].batch = cand[c].batch
        /\ cand'[c] # cand[c] => cand[c].batch = b /\ cand'[c].status = "awaiting_review"
  BY DEF Hold, ScheduleInv, ScheduleTypeOK, TypeOK
<1>6. Handles(b)
  BY <1>1, <1>4, <1>5, BatchAssumption DEF Handles, Aside, Freed
<1>7. ClearKept(b)
  BY <1>1, <1>4 DEF ClearKept, Freed, ScheduleInv, ClearedStaysEmpty, Undecided
<1>8. ASSUME NEW c \in Candidates, Entrusted(b, c)
      PROVE  Entrusted(b, c)'
  <2>1. prop[<<b, c>>].status # "none" => c \in batch[b].members
    BY DEF ScheduleInv, BatchesInOrder
  <2> QED
    BY <1>1, <1>4, <1>5, <1>8, <2>1 DEF Entrusted, Underway, Freed
<1> QED
  BY <1>6, <1>7, <1>8 DEF Handled

LEMMA HoldTyped ==
    ASSUME TypeOK, NEW b \in Batches, Hold(b), WorkTypedNext
    PROVE  TypeOK'
<1>1. batch' \in [Batches -> BatchRow]
  BY RowsTyped DEF Hold, TypeOK, BatchStatuses
<1>2. prop' \in [Pairs -> ProposalRow]
  <2>1. \A p \in Pairs : [prop[p] EXCEPT !.status = "awaiting_review"] \in ProposalRow
    BY RowsUpdated DEF TypeOK, ProposalStatuses
  <2> QED
    BY <2>1 DEF Hold, TypeOK
<1>3. cand' \in [Candidates -> [status : CandidateStatuses, batch : Batches \cup {NoBatch}]]
  BY DEF Hold, TypeOK, CandidateStatuses
<1> QED
  BY <1>1, <1>2, <1>3 DEF Hold, TypeOK, WorkTypedNext

LEMMA WorkSafe ==
    ASSUME ScheduleInv, NEW w \in Workers, Work(w)
    PROVE  ScheduleInv'
<1>0. TypeOK
  BY DEF ScheduleInv, ScheduleTypeOK
<1>1. /\ round' = [round EXCEPT ![w] = IF work'[w] = Idle THEN Off ELSE round[w]]
      /\ UNCHANGED <<runs, owner, batchRun, checkpoint, managed, cleared>>
  BY DEF Work
<1>2. CASE Resume(w)
  <2>1. Quiet(w)
    BY <1>2 DEF Quiet
  <2>2. TypeOK' /\ work[w] # Idle /\ UNCHANGED <<head, candidateVars, batch, proposalVars>>
    BY <1>0, <2>1, QuietTyped
  <2>3. \A b \in Batches : Proposed(b) \in SUBSET Candidates
    BY DEF Proposed
  <2>4. WorkerMoves(w)
    BY <1>1, <1>2, <2>2, <2>3, WorkMoves, InsideRound DEF Resume, Phases
  <2> QED
    BY <1>1, <2>2, <2>4, MovesAlone DEF candidateVars, proposalVars
<1>3. CASE Release(w)
  <2>1. TypeOK' /\ work[w] # Idle /\ Leave(w)
    BY <1>0, <1>3, ReleaseTyped DEF Release, Step
  <2>2. WorkerMoves(w)
    BY <1>1, <2>1, WorkMoves
  <2> QED
    BY <1>1, <1>3, <2>1, <2>2, ReleaseHandled, MovesAlone, MovesHandling DEF Handled
<1>4. CASE Fail(w)
  <2>1. TypeOK' /\ work[w] # Idle /\ Leave(w)
    BY <1>0, <1>4, FailTyped DEF Fail, Step
  <2>2. WorkerMoves(w)
    BY <1>1, <2>1, WorkMoves
  <2> QED
    BY <1>1, <1>4, <2>1, <2>2, FailHandled, MovesAlone, MovesHandling DEF Handled
<1>5. CASE Persist(w)
  <2>1. TypeOK' /\ work[w] # Idle /\ (Leave(w) \/ Go(w, "persisted"))
    BY <1>0, <1>5, PersistTyped DEF Persist, Step
  <2>2. WorkerMoves(w)
    BY <1>1, <2>1, WorkMoves DEF Phases
  <2> QED
    BY <1>1, <1>5, <2>1, <2>2, PersistHandled, MovesAlone, MovesHandling DEF Handled
<1>6. CASE PersistRejected(w)
  <2>1. TypeOK' /\ work[w] # Idle /\ Leave(w)
    BY <1>0, <1>6, PersistRejectedTyped DEF PersistRejected, Step
  <2>2. WorkerMoves(w)
    BY <1>1, <2>1, WorkMoves
  <2> QED
    BY <1>1, <1>6, <2>1, <2>2, RejectedHandled, MovesHandling DEF Handled
<1> QED
  BY <1>2, <1>3, <1>4, <1>5, <1>6 DEF Work

\* A round that stays.
LEMMA RoundStays ==
    ASSUME ScheduleInv, UNCHANGED round, NEW w \in Workers, work[w] # Idle,
           work' \in [Workers -> Claims \cup {Idle}],
           \A v \in Workers : v # w => work'[v] = work[v],
           work'[w] # Idle, work'[w].batch = work[w].batch
    PROVE  WorkerMoves(w)
  BY InsideRound DEF WorkerMoves, ScheduleInv, ScheduleTypeOK

LEMMA DecidesOn ==
    ASSUME ScheduleInv, NEW w \in Workers, work[w] # Idle, NEW x, Decide(w, x)
    PROVE  /\ work'[w] # Idle /\ work'[w].batch = work[w].batch
           /\ \A v \in Workers : v # w => work'[v] = work[v]
<1>1. work[w] \in Claims /\ work \in [Workers -> Claims \cup {Idle}]
  BY InsideRound DEF ScheduleInv, ScheduleTypeOK, TypeOK
<1>2. work'[w].batch = work[w].batch /\ work'[w].phase = "failing"
  BY <1>1 DEF Decide, Claims
<1>3. \A v \in Workers : v # w => work'[v] = work[v]
  BY <1>1 DEF Decide
<1>4. Idle.phase = "idle"
  BY DEF Idle
<1> QED
  BY <1>2, <1>3, <1>4

LEMMA TroublesSafe ==
    ASSUME ScheduleInv, NEW w \in Workers, Troubles(w)
    PROVE  ScheduleInv'
<1>0. TypeOK
  BY DEF ScheduleInv, ScheduleTypeOK
<1>1. /\ Quiet(w) /\ UNCHANGED runVars
      /\ \E x \in {"retry", "blocked"} : Decide(w, x)
  BY VerdictTyped DEF Troubles, Quiet, VersionChanged, JudgeFails
<1>2. TypeOK' /\ work[w] # Idle /\ UNCHANGED <<head, candidateVars, batch, proposalVars>>
  BY <1>0, <1>1, QuietTyped
<1>3. WorkerMoves(w)
  BY <1>1, <1>2, DecidesOn, RoundStays DEF runVars, TypeOK
<1> QED
  BY <1>1, <1>2, <1>3, MovesAlone DEF runVars, candidateVars, proposalVars

LEMMA JudgeAnswersSafe ==
    ASSUME ScheduleInv, NEW w \in Workers, JudgeAnswers(w)
    PROVE  ScheduleInv'
<1>0. TypeOK
  BY DEF ScheduleInv, ScheduleTypeOK
<1>1. /\ Step(w, "judging") /\ work[w] # Idle
      /\ UNCHANGED <<runs, owner, batchRun, checkpoint, managed, cleared>>
  BY DEF JudgeAnswers, Step
<1>2. CASE Enter(w, "answered") /\ UNCHANGED vars
  <2>1. TypeOK' /\ work' = work
    BY <1>0, <1>2, StepTyped DEF vars
  <2>2. round' = [round EXCEPT ![w] = [round[w] EXCEPT !.phase = "answered"]]
    BY <1>2 DEF Enter
  <2>3. round \in [Workers -> Rounds] /\ round[w] \in Rounds
    BY DEF ScheduleInv, ScheduleTypeOK
  <2>4. /\ round' \in [Workers -> Rounds] /\ \A v \in Workers : v # w => round'[v] = round[v]
        /\ round'[w].phase = "answered"
        /\ round'[w].run = round[w].run /\ round'[w].batch = round[w].batch
    BY <2>2, <2>3 DEF Rounds
  <2>5. WorkerMoves(w)
    BY <1>1, <2>1, <2>4 DEF WorkerMoves
  <2> QED
    BY <1>1, <1>2, <2>1, <2>5, MovesAlone DEF vars
<1>3. CASE /\ Decide(w, "blocked")
           /\ UNCHANGED <<head, candidateVars, batch, proposalVars, faults, round>>
  <2>1. WorkTypedNext
    BY <1>0, <1>1, <1>3, WorkTyped, InsideRound
  <2>2. TypeOK'
    BY <1>0, <1>3, <2>1 DEF TypeOK, WorkTypedNext, candidateVars, proposalVars
  <2>3. WorkerMoves(w)
    BY <1>1, <1>3, <2>1, DecidesOn, RoundStays DEF WorkTypedNext
  <2> QED
    BY <1>1, <1>3, <2>2, <2>3, MovesAlone DEF candidateVars, proposalVars
<1> QED
  BY <1>2, <1>3 DEF JudgeAnswers

LEMMA ProposesSafe ==
    ASSUME ScheduleInv, NEW w \in Workers, Proposes(w)
    PROVE  ScheduleInv'
<1>0. TypeOK
  BY DEF ScheduleInv, ScheduleTypeOK
<1>1. /\ work[w] # Idle /\ Leave(w) /\ Return(w)
      /\ UNCHANGED <<runs, owner, batchRun, checkpoint, managed, cleared>>
  BY DEF Proposes, Step
<1>2. WorkerMoves(w) /\ WorkTypedNext
  BY <1>0, <1>1, RoundsUpdated, WorkTyped
<1>3. CASE Hold(work[w].batch)
  BY <1>0, <1>1, <1>2, <1>3, InsideRound, HoldHandled, HoldTyped, MovesHandling DEF Handled
<1>4. CASE UNCHANGED <<head, candidateVars, batch, proposalVars, faults>>
  <2>1. TypeOK'
    BY <1>0, <1>2, <1>4 DEF TypeOK, WorkTypedNext, candidateVars, proposalVars
  <2> QED
    BY <1>1, <1>2, <1>4, <2>1, MovesAlone DEF candidateVars, proposalVars
<1> QED
  BY <1>3, <1>4 DEF Proposes

LEMMA DiesSafe ==
    ASSUME ScheduleInv, NEW w \in Workers, Dies(w)
    PROVE  ScheduleInv'
<1>0. TypeOK
  BY DEF ScheduleInv, ScheduleTypeOK
<1>1. /\ Fault /\ Leave(w) /\ Return(w)
      /\ UNCHANGED <<head, candidateVars, batch, proposalVars, runs, owner, batchRun,
                     checkpoint, managed, cleared>>
  BY DEF Dies
<1>2. WorkerMoves(w) /\ WorkTypedNext
  BY <1>0, <1>1, RoundsUpdated, WorkTyped
<1>3. TypeOK'
  BY <1>0, <1>1, <1>2, BatchAssumption
  DEF TypeOK, WorkTypedNext, candidateVars, proposalVars, Fault
<1> QED
  BY <1>1, <1>2, <1>3, MovesAlone DEF candidateVars, proposalVars

LEMMA ClaimSafeHere ==
    ASSUME ScheduleInv, NEW w \in Workers, Claim(w)
    PROVE  ScheduleInv'
<1>0. TypeOK /\ work[w] = Idle /\ round[w] # Off /\ round[w].batch \in Batches
      /\ round \in [Workers -> Rounds]
  <2>1. Off.phase = "off"
    BY DEF Off
  <2>2. round[w] # Off
    BY <2>1 DEF Claim
  <2> QED
    BY <2>2 DEF ScheduleInv, ScheduleTypeOK, Claim, RoundsInOrder
<1>1. round[w].phase = "chosen" /\ UNCHANGED <<runs, owner, batchRun, checkpoint, managed, cleared>>
  BY DEF Claim
<1>2. CASE Return(w) /\ UNCHANGED vars
  <2>1. work'[w] = Idle /\ \A v \in Workers : work'[v] = work[v]
    BY <1>0, <1>2 DEF vars
  <2>2. WorkerMoves(w)
    BY <1>0, <1>2, <2>1, RoundsUpdated DEF WorkerMoves, Return
  <2>3. TypeOK'
    BY <1>0, <1>2, StepTyped
  <2> QED
    BY <1>1, <1>2, <2>2, <2>3, MovesAlone DEF vars
<1>3. CASE ClaimNext(w) /\ work'[w].batch = round[w].batch /\ Enter(w, "inside")
  <2>1. TypeOK'
    BY <1>0, <1>3, ClaimNextTyped
  <2>2. PICK b \in Batches : /\ Claimable(b)
                             /\ batch' = [batch EXCEPT ![b] = Leased(batch[b])]
                             /\ work' = [work EXCEPT ![w] = ClaimOf(b)]
    BY <1>3 DEF ClaimNext
  <2>3. /\ batch'[b] = Leased(batch[b]) /\ \A d \in Batches : d # b => batch'[d] = batch[d]
        /\ work'[w] = ClaimOf(b) /\ \A v \in Workers : v # w => work'[v] = work[v]
    BY <1>0, <2>2 DEF TypeOK
  <2>4. work'[w] # Idle /\ work'[w].batch = b /\ b = round[w].batch
    BY <1>3, <2>3 DEF ClaimOf, Idle
  <2>5. UNCHANGED <<cand, prop>>
    BY <1>3 DEF ClaimNext, candidateVars, proposalVars
  <2>6. Handles(b)
    BY <2>2, <2>3, <2>5 DEF Handles, Aside, Leased, Claimable, Waiting
  <2>7. ClearKept(b)
    BY <2>2 DEF ClearKept, ScheduleInv, ClearedInOrder, Claimable, Waiting
  <2>8. \A c \in Candidates : Entrusted(b, c) => Entrusted(b, c)'
    BY <2>2, <2>3, <2>5 DEF Entrusted, Underway, Leased, Claimable, Waiting
  <2>9. round' = [round EXCEPT ![w] = [round[w] EXCEPT !.phase = "inside"]]
    BY <1>3 DEF Enter
  <2>10. /\ round' \in [Workers -> Rounds] /\ \A v \in Workers : v # w => round'[v] = round[v]
         /\ round'[w].phase = "inside"
         /\ round'[w].run = round[w].run /\ round'[w].batch = round[w].batch
    BY <1>0, <2>9 DEF Rounds
  <2>11. RoundsInOrder' /\ NoNewRequest
    <3>1. \A d \in Batches : batch[d].status # "none" => batch'[d].status # "none"
      BY <2>6 DEF Handles
    <3>2. \A v \in Workers : \/ round'[v] = round[v] \/ round'[v] = Off
                             \/ /\ round[v].phase \in {"chosen", "inside", "answered"}
                                /\ round'[v].phase \in {"chosen", "inside", "answered"}
                                /\ round'[v].run = round[v].run
                                /\ round'[v].batch = round[v].batch
      BY <1>1, <2>10
    <3> QED
      BY <1>1, <3>1, <3>2, RoundsGoOn
  <2>12. BatchesInOrder' /\ RunsInOrder' /\ ClearedInOrder' /\ ClearedStaysEmpty'
    BY <1>1, <2>6, <2>7, <2>8, <2>11, HandledSafe
  <2>13. ScheduleTypeOK'
    <3>1. \A v \in Workers : work'[v] # Idle <=> round'[v].phase \in {"inside", "answered"}
      BY <2>3, <2>4, <2>10 DEF ScheduleInv, ScheduleTypeOK
    <3>2. \A v \in Workers : work'[v] # Idle => round'[v].batch = work'[v].batch
      BY <2>3, <2>4, <2>10 DEF ScheduleInv, ScheduleTypeOK
    <3> QED
      BY <1>1, <2>1, <2>5, <2>10, <3>1, <3>2 DEF ScheduleInv, ScheduleTypeOK
  <2> QED
    BY <2>11, <2>12, <2>13, Assembled
<1> QED
  BY <1>2, <1>3 DEF Claim

(***************************************************************************)
(* Batches are requested, recorded, and begun.                             *)
(***************************************************************************)
LEMMA FreezeRows ==
    ASSUME ScheduleInv, NEW b \in Batches, RequestBatch(b)
    PROVE  /\ batch[b].status = "none" /\ batch'[b].status = "pending"
           /\ batchRun[b] = NoRun /\ b \notin cleared
           /\ \A w \in Workers : round[w].batch # b
           /\ \A d \in Batches : d # b => batch'[d] = batch[d]
           /\ UNCHANGED <<head, prop, conflict, work, faults>>
           /\ ActiveIffHeld' /\ \A d \in Batches, c \in Candidates : Accounted(d, c)'
           /\ \A c \in Candidates : Entrusted(b, c)'
           /\ \A d \in Batches, c \in Candidates : d # b /\ Entrusted(d, c) => Entrusted(d, c)'
           /\ \A c \in Candidates : c \notin Ready => cand'[c] = cand[c]
           /\ \A c \in Candidates, d \in Batches : cand'[c].batch = d => d = b \/ cand[c].batch = d
           /\ TypeOK'
<1>1. /\ TypeOK /\ ActiveIffHeld /\ \A d \in Batches, c \in Candidates : Accounted(d, c)
      /\ TypeOK'
  BY SessionTyped DEF ScheduleInv, ScheduleTypeOK, BatchesInOrder, Accounted
<1>2. /\ batch[b].status = "none" /\ UNCHANGED <<head, prop, conflict, work, faults>>
      /\ cand' = [c \in Candidates |-> IF c \in Ready
                                     THEN [status |-> "processing", batch |-> b]
                                     ELSE cand[c]]
      /\ \A c \in Ready : cand[c].batch = NoBatch
  BY DEF RequestBatch, proposalVars, Free
<1>3. /\ batch'[b].status = "pending" /\ batch'[b].members = Ready
      /\ \A d \in Batches : d # b => batch'[d] = batch[d]
  BY <1>1 DEF RequestBatch, TypeOK
<1>4. batchRun[b] = NoRun /\ b \notin cleared
  BY <1>2 DEF ScheduleInv, RunsInOrder, ClearedInOrder
<1>5. \A w \in Workers : round[w].batch # b
  <2>1. Off.batch = NoBatch
    BY DEF Off
  <2> QED
    BY <1>2, <2>1, BatchAssumption DEF ScheduleInv, RoundsInOrder
<1>6. \A c \in Candidates : prop[<<b, c>>].status = "none" /\ cand[c].batch # b
  BY <1>1, <1>2 DEF Accounted
<1>7. ActiveIffHeld'
  BY <1>1, <1>2, BatchAssumption DEF ActiveIffHeld
<1>8. \A c \in Candidates, d \in Batches : cand'[c].batch = d => (d = b /\ c \in Ready) \/ cand[c].batch = d
  BY <1>2
<1>9. \A d \in Batches, c \in Candidates : Accounted(d, c)'
  <2> SUFFICES ASSUME NEW d \in Batches, NEW c \in Candidates
               PROVE  Accounted(d, c)'
    OBVIOUS
  <2>1. Accounted(d, c)
    BY <1>1
  <2>2. CASE d = b
    BY <1>2, <1>3, <1>6, <2>2 DEF Accounted
  <2>3. CASE d # b
    BY <1>2, <1>3, <2>1, <2>3 DEF Accounted
  <2> QED
    BY <2>2, <2>3
<1>10. \A c \in Candidates : Entrusted(b, c)'
  BY <1>2, <1>3, <1>6 DEF Entrusted, Underway
<1>11. \A d \in Batches, c \in Candidates : d # b /\ Entrusted(d, c) => Entrusted(d, c)'
  BY <1>2, <1>3, BatchAssumption DEF Entrusted, Underway
<1> QED
  BY <1>1, <1>2, <1>3, <1>4, <1>5, <1>7, <1>8, <1>9, <1>10, <1>11

\* Freezing a batch, and taking it in hand.
LEMMA FreezeSafe ==
    ASSUME ScheduleInv, NEW w \in Workers, NEW n \in Runs, NEW b \in Batches, RequestBatch(b),
           Live(n), round[w] = Off, checkpoint' = checkpoint \ Ready,
           UNCHANGED <<runs, owner, managed, cleared>>,
           \/ /\ batchRun' = batchRun
              /\ round' = [round EXCEPT ![w] =
                    [phase |-> "requested", run |-> n, batch |-> b, call |-> TRUE]]
           \/ /\ batchRun' = [batchRun EXCEPT ![b] = n]
              /\ round' = [round EXCEPT ![w] =
                    [phase |-> "chosen", run |-> n, batch |-> b, call |-> FALSE]]
    PROVE  ScheduleInv'
<1>1. n # NoRun /\ runs[n] = "live" /\ NoRun \notin Runs
  BY DEF Live, Runs, NoRun
<1>2. PICK r \in Rounds :
        /\ r.phase \in {"requested", "chosen"} /\ r.run = n /\ r.batch = b
        /\ round' = [round EXCEPT ![w] = r]
        /\ r.phase = "requested" => batchRun' = batchRun
        /\ r.phase = "chosen" => batchRun' = [batchRun EXCEPT ![b] = n]
  <2> DEFINE x == [phase |-> "requested", run |-> n, batch |-> b, call |-> TRUE]
             y == [phase |-> "chosen", run |-> n, batch |-> b, call |-> FALSE]
  <2>1. x \in Rounds /\ y \in Rounds
    BY DEF Rounds
  <2> QED
    BY <2>1
<1>3. /\ round' \in [Workers -> Rounds] /\ round'[w] = r
      /\ \A v \in Workers : v # w => round'[v] = round[v]
  BY <1>2 DEF ScheduleInv, ScheduleTypeOK
<1>4. batchRun' \in [Batches -> Runs \cup {NoRun}] /\ \A d \in Batches : d # b => batchRun'[d] = batchRun[d]
  BY <1>2 DEF ScheduleInv, ScheduleTypeOK
<1>5. batchRun'[b] = IF r.phase = "requested" THEN NoRun ELSE n
  BY <1>2, FreezeRows DEF ScheduleInv, ScheduleTypeOK
<1>6. \A d \in Batches : d # b /\ InForce(d)' => InForce(d)
  BY <1>2, <1>3, <1>4 DEF InForce, Live
<1>7. BatchesInOrder'
  BY <1>6, FreezeRows DEF BatchesInOrder, Accounted, ScheduleInv
<1>8. RunsInOrder'
  <2>1. \A d \in Batches : batchRun'[d] # NoRun => runs[batchRun'[d]] # "none" /\ batch'[d].status # "none"
    BY <1>1, <1>4, <1>5, FreezeRows DEF RunsInOrder, ScheduleInv
  <2> QED
    BY <2>1 DEF RunsInOrder, ScheduleInv
<1>9. ClearedInOrder' /\ ClearedStaysEmpty'
  BY <1>4, FreezeRows DEF ClearedInOrder, ClearedStaysEmpty, ScheduleInv, ScheduleTypeOK
<1>10. RoundsInOrder'
  <2> SUFFICES ASSUME NEW v \in Workers, round'[v] # Off
               PROVE  /\ round'[v].phase # "off" /\ round'[v].run \in Runs
                      /\ round'[v].batch \in Batches
                      /\ runs[round'[v].run] # "none" /\ batch'[round'[v].batch].status # "none"
                      /\ IF round'[v].phase # "requested"
                         THEN batchRun'[round'[v].batch] = round'[v].run
                         ELSE /\ batchRun'[round'[v].batch] = NoRun
                              /\ \A u \in Workers : round'[u].batch = round'[v].batch => u = v
    BY DEF RoundsInOrder
  <2>1. \A u \in Workers : round[u].batch # b
    BY FreezeRows
  <2>2. CASE v = w
    BY <1>1, <1>2, <1>3, <1>5, <2>1, <2>2, FreezeRows
  <2>3. CASE v # w
    <3>1. round'[v] = round[v] /\ round[v].batch # b
      BY <1>3, <2>1, <2>3
    <3>2. /\ round[v].phase # "off" /\ round[v].run \in Runs /\ round[v].batch \in Batches
          /\ runs[round[v].run] # "none" /\ batch[round[v].batch].status # "none"
          /\ IF round[v].phase # "requested"
             THEN batchRun[round[v].batch] = round[v].run
             ELSE /\ batchRun[round[v].batch] = NoRun
                  /\ \A u \in Workers : round[u].batch = round[v].batch => u = v
      BY <3>1 DEF RoundsInOrder, ScheduleInv
    <3>3. batch'[round[v].batch] = batch[round[v].batch] /\ batchRun'[round[v].batch] = batchRun[round[v].batch]
      BY <1>4, <3>1, <3>2, FreezeRows
    <3> QED
      BY <1>2, <1>3, <3>1, <3>2, <3>3
  <2> QED
    BY <2>2, <2>3
<1>11. ScheduleTypeOK'
  <2>1. Off.phase = "off"
    BY DEF Off
  <2>2. \A v \in Workers : /\ work'[v] # Idle <=> round'[v].phase \in {"inside", "answered"}
                           /\ work'[v] # Idle => round'[v].batch = work'[v].batch
    BY <1>2, <1>3, <2>1, FreezeRows DEF ScheduleInv, ScheduleTypeOK
  <2>3. checkpoint' \subseteq {c \in Candidates : cand'[c].status = "pending"}
    BY FreezeRows DEF ScheduleInv, ScheduleTypeOK
  <2> QED
    BY <1>3, <1>4, <2>2, <2>3, FreezeRows DEF ScheduleInv, ScheduleTypeOK
<1> QED
  BY <1>7, <1>8, <1>9, <1>10, <1>11, Assembled

LEMMA CallSafe ==
    ASSUME ScheduleInv, NEW w \in Workers, NEW n \in Runs, Call(w, n)
    PROVE  ScheduleInv'
<1>1. PICK b \in Batches : RequestBatch(b) /\ Begin(w, "requested", n, b, TRUE)
  BY DEF Call
<1> QED
  BY <1>1, FreezeSafe DEF Call, Between, Begin

LEMMA ChooseSafe ==
    ASSUME ScheduleInv, NEW w \in Workers, NEW n \in Runs, Choose(w, n)
    PROVE  ScheduleInv'
<1>1. managed /\ round[w] = Off /\ Live(n) /\ UNCHANGED <<runs, owner, managed, cleared>>
  BY DEF Choose, Between
<1>2. ASSUME NEW b \in Batches, RequestBatch(b), batchRun' = [batchRun EXCEPT ![b] = n],
             checkpoint' = checkpoint \ Ready, Begin(w, "chosen", n, b, FALSE)
      PROVE  ScheduleInv'
  BY <1>1, <1>2, FreezeSafe DEF Begin
<1>3. ASSUME NEW b \in Batches, b \in Resumable(n), UNCHANGED <<vars, batchRun, checkpoint>>,
             Begin(w, "chosen", n, b, FALSE)
      PROVE  ScheduleInv'
  <2> DEFINE r == [phase |-> "chosen", run |-> n, batch |-> b, call |-> FALSE]
  <2>1. r \in Rounds /\ Off.phase = "off"
    BY DEF Rounds, Off
  <2>2. round' = [round EXCEPT ![w] = r] /\ round \in [Workers -> Rounds]
    BY <1>3 DEF Begin, ScheduleInv, ScheduleTypeOK
  <2>3. /\ round' \in [Workers -> Rounds] /\ round'[w] = r
        /\ \A v \in Workers : v # w => round'[v] = round[v]
    BY <2>1, <2>2
  <2>4. /\ batchRun[b] = n /\ batch[b].status # "none" /\ runs[n] = "live"
        /\ n # NoRun
    BY <1>1, <1>3 DEF Resumable, Claimable, Waiting, Live
  <2>5. TypeOK'
    BY <1>3, StepTyped DEF ScheduleInv, ScheduleTypeOK
  <2>6. NoNewRequest
    BY <2>3 DEF NoNewRequest
  <2>7. BatchesInOrder' /\ RunsInOrder' /\ ClearedInOrder' /\ ClearedStaysEmpty'
    BY <1>1, <1>3, <2>6, RowsAlone DEF vars
  <2>8. RoundsInOrder'
    <3> SUFFICES ASSUME NEW v \in Workers, round'[v] # Off
                 PROVE  /\ round'[v].phase # "off" /\ round'[v].run \in Runs
                        /\ round'[v].batch \in Batches
                        /\ runs[round'[v].run] # "none" /\ batch[round'[v].batch].status # "none"
                        /\ IF round'[v].phase # "requested"
                           THEN batchRun[round'[v].batch] = round'[v].run
                           ELSE /\ batchRun[round'[v].batch] = NoRun
                                /\ \A u \in Workers : round'[u].batch = round'[v].batch => u = v
      BY <1>1, <1>3 DEF RoundsInOrder, vars
    <3>1. CASE v = w
      BY <2>3, <2>4, <3>1
    <3>2. CASE v # w
      <4>1. round'[v] = round[v]
        BY <2>3, <3>2
      <4>2. /\ round[v].phase # "off" /\ round[v].run \in Runs /\ round[v].batch \in Batches
            /\ runs[round[v].run] # "none" /\ batch[round[v].batch].status # "none"
            /\ IF round[v].phase # "requested"
               THEN batchRun[round[v].batch] = round[v].run
               ELSE /\ batchRun[round[v].batch] = NoRun
                    /\ \A u \in Workers : round[u].batch = round[v].batch => u = v
        BY <4>1 DEF RoundsInOrder, ScheduleInv
      <4> QED
        BY <2>3, <2>4, <4>1, <4>2
    <3> QED
      BY <3>1, <3>2
  <2>9. ScheduleTypeOK'
    <3>1. \A v \in Workers : /\ work'[v] # Idle <=> round'[v].phase \in {"inside", "answered"}
                             /\ work'[v] # Idle => round'[v].batch = work'[v].batch
      BY <1>1, <1>3, <2>1, <2>3 DEF ScheduleInv, ScheduleTypeOK, vars
    <3> QED
      BY <1>1, <1>3, <2>3, <2>5, <3>1 DEF ScheduleInv, ScheduleTypeOK, vars
  <2> QED
    BY <2>7, <2>8, <2>9, Assembled
<1> QED
  BY <1>2, <1>3 DEF Choose

LEMMA RecordBatchSafe ==
    ASSUME ScheduleInv, NEW w \in Workers, RecordBatch(w)
    PROVE  ScheduleInv'
<1>0. Off.phase = "off" /\ NoRun \notin Runs
  BY DEF Off, NoRun, Runs
<1>1. PICK b \in Batches, n \in Runs :
        /\ b = round[w].batch /\ n = round[w].run /\ round[w].phase = "requested"
        /\ runs[n] # "none" /\ batch[b].status # "none" /\ batchRun[b] = NoRun
        /\ \A v \in Workers : round[v].batch = b => v = w
  BY <1>0 DEF RecordBatch, RoundsInOrder, ScheduleInv
<1>2. /\ batchRun' = [batchRun EXCEPT ![b] = n] /\ Enter(w, "chosen")
      /\ UNCHANGED <<vars, runs, owner, checkpoint, managed, cleared>>
  BY <1>1 DEF RecordBatch
<1>3. /\ batchRun' \in [Batches -> Runs \cup {NoRun}] /\ batchRun'[b] = n
      /\ \A d \in Batches : d # b => batchRun'[d] = batchRun[d]
  BY <1>2 DEF ScheduleInv, ScheduleTypeOK
<1>4. /\ round' \in [Workers -> Rounds] /\ round'[w].phase = "chosen"
      /\ round'[w].run = n /\ round'[w].batch = b
      /\ \A v \in Workers : v # w => round'[v] = round[v]
  <2>1. round' = [round EXCEPT ![w] = [round[w] EXCEPT !.phase = "chosen"]]
    BY <1>2 DEF Enter
  <2>2. round \in [Workers -> Rounds] /\ round[w] \in Rounds
    BY DEF ScheduleInv, ScheduleTypeOK
  <2> QED
    BY <1>1, <2>1, <2>2 DEF Rounds
<1>5. TypeOK'
  BY <1>2, StepTyped DEF ScheduleInv, ScheduleTypeOK
<1>6. \A d \in Batches : InForce(d)' => InForce(d)
  BY <1>1, <1>2, <1>3, <1>4 DEF InForce, Live
<1>7. BatchesInOrder'
  BY <1>2, <1>6 DEF BatchesInOrder, ScheduleInv, vars, ActiveIffHeld, Entrusted, Underway
<1>8. RunsInOrder'
  BY <1>1, <1>2, <1>3 DEF RunsInOrder, ScheduleInv, vars
<1>9. ClearedInOrder' /\ ClearedStaysEmpty'
  <2>1. b \notin cleared
    BY <1>1 DEF ScheduleInv, ClearedInOrder
  <2> QED
    BY <1>2, <1>3, <2>1
    DEF ClearedInOrder, ClearedStaysEmpty, ScheduleInv, ScheduleTypeOK, vars
<1>10. RoundsInOrder'
  <2> SUFFICES ASSUME NEW v \in Workers, round'[v] # Off
               PROVE  /\ round'[v].phase # "off" /\ round'[v].run \in Runs
                      /\ round'[v].batch \in Batches
                      /\ runs[round'[v].run] # "none" /\ batch[round'[v].batch].status # "none"
                      /\ IF round'[v].phase # "requested"
                         THEN batchRun'[round'[v].batch] = round'[v].run
                         ELSE /\ batchRun'[round'[v].batch] = NoRun
                              /\ \A u \in Workers : round'[u].batch = round'[v].batch => u = v
    BY <1>2 DEF RoundsInOrder, vars
  <2>1. CASE v = w
    BY <1>1, <1>3, <1>4, <2>1
  <2>2. CASE v # w
    <3>1. round'[v] = round[v] /\ round[v].batch # b
      BY <1>1, <1>4, <2>2
    <3>2. /\ round[v].phase # "off" /\ round[v].run \in Runs /\ round[v].batch \in Batches
          /\ runs[round[v].run] # "none" /\ batch[round[v].batch].status # "none"
          /\ IF round[v].phase # "requested"
             THEN batchRun[round[v].batch] = round[v].run
             ELSE /\ batchRun[round[v].batch] = NoRun
                  /\ \A u \in Workers : round[u].batch = round[v].batch => u = v
      BY <3>1 DEF RoundsInOrder, ScheduleInv
    <3> QED
      BY <1>3, <1>4, <3>1, <3>2
  <2> QED
    BY <2>1, <2>2
<1>11. ScheduleTypeOK'
  <2>1. \A v \in Workers : /\ work'[v] # Idle <=> round'[v].phase \in {"inside", "answered"}
                           /\ work'[v] # Idle => round'[v].batch = work'[v].batch
    BY <1>1, <1>2, <1>4 DEF ScheduleInv, ScheduleTypeOK, vars
  <2> QED
    BY <1>2, <1>3, <1>4, <1>5, <2>1 DEF ScheduleInv, ScheduleTypeOK, vars
<1> QED
  BY <1>7, <1>8, <1>9, <1>10, <1>11, Assembled

(***************************************************************************)
(* The run, its sessions and the daemon.                                   *)
(***************************************************************************)

\* A step that leaves the rows and the rounds alone.
LEMMA SessionSafe ==
    ASSUME ScheduleInv, TypeOK', ActiveIffHeld', UNCHANGED <<prop, work, round, batchRun, cleared>>,
           \A c \in Candidates : cand'[c].batch = cand[c].batch,
           \A c \in Candidates : cand[c].status = "processing" => cand'[c].status = "processing",
           \A d \in Batches : /\ batch'[d].status = batch[d].status
                              /\ batch'[d].members = batch[d].members,
           runs' \in [Runs -> {"none", "live", "stopping", "cleared", "stopped"}],
           RunsInOrder',
           \A k \in Runs : /\ runs[k] # "none" => runs'[k] # "none"
                           /\ runs[k] # "none" /\ runs'[k] = "live" => runs[k] = "live"
                           /\ runs[k] \in {"cleared", "stopped"} => runs'[k] \in {"cleared", "stopped"},
           owner' \in [Candidates -> Runs \cup {NoRun}], managed' \in BOOLEAN,
           checkpoint' \subseteq {c \in Candidates : cand'[c].status = "pending"}
    PROVE  ScheduleInv'
<1>0. NoRun \notin Runs /\ Off.phase = "off"
  BY DEF NoRun, Runs, Off
<1>1. \A d \in Batches : InForce(d)' => InForce(d)
  <2> SUFFICES ASSUME NEW d \in Batches, InForce(d)'
               PROVE  InForce(d)
    OBVIOUS
  <2>1. CASE Live(batchRun[d])'
    <3>1. batchRun[d] \in Runs /\ runs[batchRun[d]] # "none" /\ runs'[batchRun[d]] = "live"
      BY <2>1 DEF Live, ScheduleInv, ScheduleTypeOK, RunsInOrder
    <3> QED
      BY <1>0, <3>1 DEF InForce, Live
  <2>2. CASE ~Live(batchRun[d])'
    <3>1. PICK w \in Workers : /\ round[w].phase = "requested" /\ round[w].batch = d
                               /\ round[w].run # NoRun /\ runs'[round[w].run] = "live"
      BY <2>2 DEF InForce, Live
    <3>2. round[w].run \in Runs /\ runs[round[w].run] # "none"
      BY <1>0, <3>1 DEF ScheduleInv, RoundsInOrder
    <3> QED
      BY <3>1, <3>2 DEF InForce, Live
  <2> QED
    BY <2>1, <2>2
<1>2. BatchesInOrder'
  <2> SUFFICES ASSUME NEW d \in Batches, NEW c \in Candidates
               PROVE  Accounted(d, c)' /\ (InForce(d)' => Entrusted(d, c)')
    BY DEF BatchesInOrder, Accounted
  <2>1. Accounted(d, c) /\ (InForce(d) => Entrusted(d, c))
    BY DEF BatchesInOrder, Accounted, ScheduleInv
  <2> QED
    BY <1>1, <2>1 DEF Accounted, Entrusted, Underway
<1>3. RoundsInOrder'
  BY <1>0 DEF RoundsInOrder, ScheduleInv
<1>4. ClearedInOrder' /\ ClearedStaysEmpty'
  BY DEF ClearedInOrder, ClearedStaysEmpty, ScheduleInv, ScheduleTypeOK
<1>5. ScheduleTypeOK'
  BY DEF ScheduleInv, ScheduleTypeOK
<1> QED
  BY <1>2, <1>3, <1>4, <1>5, Assembled

\* A step of the run alone: n changes its status.
LEMMA RunSafe ==
    ASSUME ScheduleInv, NEW n \in Runs, UNCHANGED <<vars, owner, batchRun, checkpoint, managed, round, cleared>>,
           \/ /\ runs[n] = "none" /\ runs' = [runs EXCEPT ![n] = "live"]
              /\ \A k \in Runs : IF k < n THEN runs[k] = "stopped" ELSE runs[k] = "none"
           \/ runs[n] = "live" /\ runs' = [runs EXCEPT ![n] = "stopping"]
           \/ runs[n] = "cleared" /\ runs' = [runs EXCEPT ![n] = "stopped"]
    PROVE  ScheduleInv'
<1>1. /\ runs \in [Runs -> {"none", "live", "stopping", "cleared", "stopped"}]
      /\ runs' \in [Runs -> {"none", "live", "stopping", "cleared", "stopped"}]
      /\ \A k \in Runs : k # n => runs'[k] = runs[k]
      /\ runs'[n] # "none"
  BY DEF ScheduleInv, ScheduleTypeOK
<1>2. TypeOK' /\ ActiveIffHeld'
  BY StepTyped DEF ScheduleInv, ScheduleTypeOK, BatchesInOrder, vars, ActiveIffHeld
<1>3. RunsInOrder'
  <2>1. ASSUME NEW m \in Runs, runs'[m] \in {"live", "stopping", "cleared"}, NEW k \in Runs
        PROVE  IF k < m THEN runs'[k] = "stopped" ELSE k > m => runs'[k] = "none"
    <3>1. \A x \in Runs : runs[x] \in {"live", "stopping", "cleared"} =>
             \A y \in Runs : IF y < x THEN runs[y] = "stopped" ELSE y > x => runs[y] = "none"
      BY DEF ScheduleInv, RunsInOrder
    <3>2. Runs \subseteq Nat
      BY ScheduleAssumption DEF Runs
    <3> QED
      BY <1>1, <2>1, <3>1, <3>2
  <2>2. \A b \in Batches : batchRun'[b] # NoRun => runs'[batchRun'[b]] # "none" /\ batch'[b].status # "none"
    BY <1>1 DEF ScheduleInv, RunsInOrder, ScheduleTypeOK, vars
  <2> QED
    BY <2>1, <2>2 DEF RunsInOrder
<1>4. checkpoint' \subseteq {c \in Candidates : cand'[c].status = "pending"}
  BY DEF ScheduleInv, ScheduleTypeOK, vars
<1> QED
  BY <1>1, <1>2, <1>3, <1>4, SessionSafe DEF vars, ScheduleInv, ScheduleTypeOK

LEMMA ScheduleCandidateSafe ==
    ASSUME ScheduleInv, NEW c \in Candidates, NEW n \in Runs, Schedule(c, n)
    PROVE  ScheduleInv'
<1>1. /\ CreateCandidate(c) /\ owner' = [owner EXCEPT ![c] = n]
      /\ UNCHANGED <<runs, batchRun, checkpoint, managed, round, cleared>>
  BY DEF Schedule
<1>2. TypeOK' /\ TypeOK
  BY <1>1, SessionTyped DEF ScheduleInv, ScheduleTypeOK
<1>3. /\ cand[c].status = "none" /\ cand' = [cand EXCEPT ![c] = [cand[c] EXCEPT !.status = "pending"]]
      /\ UNCHANGED <<head, batch, open, proposalVars, work, faults>>
  BY <1>1 DEF CreateCandidate
<1>4. /\ cand'[c].status = "pending" /\ cand'[c].batch = cand[c].batch
      /\ \A d \in Candidates : d # c => cand'[d] = cand[d]
  BY <1>2, <1>3 DEF TypeOK
<1>5. ActiveIffHeld'
  BY <1>3, <1>4 DEF ActiveIffHeld, ScheduleInv, BatchesInOrder
<1>6. RunsInOrder'
  BY <1>1, <1>3 DEF RunsInOrder, ScheduleInv
<1>7. checkpoint' \subseteq {d \in Candidates : cand'[d].status = "pending"}
  BY <1>1, <1>4 DEF ScheduleInv, ScheduleTypeOK
<1>8. owner' \in [Candidates -> Runs \cup {NoRun}]
  BY <1>1 DEF ScheduleInv, ScheduleTypeOK
<1> QED
  BY <1>1, <1>2, <1>3, <1>4, <1>5, <1>6, <1>7, <1>8, SessionSafe
  DEF proposalVars, ScheduleInv, ScheduleTypeOK

LEMMA CheckpointSafe ==
    ASSUME ScheduleInv, NEW n \in Runs, Checkpoint(n)
    PROVE  ScheduleInv'
<1>1. /\ checkpoint' = checkpoint \cup {c \in Candidates : owner[c] = n /\ cand[c].status = "pending"}
      /\ UNCHANGED <<vars, runs, owner, batchRun, managed, round, cleared>>
  BY DEF Checkpoint
<1>2. TypeOK' /\ ActiveIffHeld' /\ RunsInOrder'
  BY <1>1, StepTyped
  DEF ScheduleInv, ScheduleTypeOK, BatchesInOrder, vars, ActiveIffHeld, RunsInOrder
<1>3. checkpoint' \subseteq {c \in Candidates : cand'[c].status = "pending"}
  BY <1>1 DEF ScheduleInv, ScheduleTypeOK, vars
<1> QED
  BY <1>1, <1>2, <1>3, SessionSafe DEF vars, ScheduleInv, ScheduleTypeOK

LEMMA RestartSafe ==
    ASSUME ScheduleInv, Restart
    PROVE  ScheduleInv'
<1>1. /\ managed' \in BOOLEAN
      /\ UNCHANGED <<vars, runs, owner, batchRun, checkpoint, round, cleared>>
  BY DEF Restart
<1>2. TypeOK' /\ ActiveIffHeld' /\ RunsInOrder'
  BY <1>1, StepTyped
  DEF ScheduleInv, ScheduleTypeOK, BatchesInOrder, vars, ActiveIffHeld, RunsInOrder
<1> QED
  BY <1>1, <1>2, SessionSafe DEF vars, ScheduleInv, ScheduleTypeOK

LEMMA OtherWriterSafe ==
    ASSUME ScheduleInv, NEW m \in Memories, OtherWriter(m)
    PROVE  ScheduleInv'
<1>1. UNCHANGED <<cand, batch, prop, work>> /\ UNCHANGED runVars /\ ChangeHead(m)
  BY DEF OtherWriter, ChangeHead, candidateVars, proposalVars
<1>2. TypeOK' /\ ActiveIffHeld' /\ RunsInOrder'
  BY <1>1, SessionTyped
  DEF ScheduleInv, ScheduleTypeOK, BatchesInOrder, ActiveIffHeld, RunsInOrder, runVars
<1> QED
  BY <1>1, <1>2, SessionSafe DEF runVars, ScheduleInv, ScheduleTypeOK

LEMMA ExpiresSafe ==
    ASSUME ScheduleInv, NEW b \in Batches, Expires(b)
    PROVE  ScheduleInv'
<1>1. /\ UNCHANGED <<cand, prop, work>> /\ UNCHANGED runVars /\ Expire(b)
      /\ LeaseRunsOut(b) \/ LeaseOverrun(b)
  BY DEF Expires, LeaseRunsOut, LeaseOverrun, candidateVars, proposalVars
<1>2. \A d \in Batches : batch'[d].status = batch[d].status /\ batch'[d].members = batch[d].members
  BY <1>1 DEF Expire, ScheduleInv, ScheduleTypeOK, TypeOK, BatchRow
<1>3. TypeOK' /\ ActiveIffHeld' /\ RunsInOrder'
  BY <1>1, <1>2, ExpiryTyped
  DEF ScheduleInv, ScheduleTypeOK, BatchesInOrder, ActiveIffHeld, RunsInOrder, runVars
<1> QED
  BY <1>1, <1>2, <1>3, SessionSafe DEF runVars, ScheduleInv, ScheduleTypeOK

(***************************************************************************)
(* The reviewer of the rollout, and the rollback.                          *)
(***************************************************************************)

\* A reviewer's step on a batch in force.
LEMMA ReviewHandling ==
    ASSUME ScheduleInv, TypeOK', NEW b \in Batches, Handled(b), UNCHANGED <<work, runVars>>
    PROVE  ScheduleInv'
<1>1. RoundsInOrder' /\ NoNewRequest
  BY RoundsGoOn DEF runVars, Handled, Handles
<1>2. BatchesInOrder' /\ RunsInOrder' /\ ClearedInOrder' /\ ClearedStaysEmpty'
  BY <1>1, HandledSafe DEF runVars, Handled
<1>3. ScheduleTypeOK'
  BY HandledRows DEF ScheduleInv, ScheduleTypeOK, runVars, Handled
<1> QED
  BY <1>1, <1>2, <1>3, Assembled

LEMMA NotCleared ==
    ASSUME ScheduleInv, NEW b \in Batches, Reviewable(b)
    PROVE  b \notin cleared /\ InForce(b) /\ batch[b].status = "awaiting_review"
  BY DEF ScheduleInv, ClearedInOrder, Reviewable, Live, InForce

\* What commit_batch writes is typed, whoever calls it.
LEMMA PlanTyped ==
    ASSUME TypeOK, NEW b \in Batches, NEW S \in SUBSET Candidates,
           Applicable(b, S), CommitPlan(b, S), WorkTypedNext, faults' \in 0..MaxFaults
    PROVE  TypeOK'
<1>1. head' \in [Memories -> [state : {"active", "retired"}, rev : 1..MaxRevision]]
  BY HeadsTyped
<1>2. batch' \in [Batches -> BatchRow]
  BY RowsTyped DEF CommitPlan, TypeOK, BatchStatuses
<1>3. cand' \in [Candidates -> [status : CandidateStatuses, batch : Batches \cup {NoBatch}]]
  BY DEF CommitPlan, TypeOK, CandidateStatuses
<1>4. \A r \in ProposalRow, op \in AllOperations :
        [r EXCEPT !.status = Outcome(op)] \in ProposalRow
  BY DEF ProposalRow, ProposalStatuses, Outcome
<1>5. \A p \in Pairs : prop[p] \in ProposalRow /\ prop[p].delta.op \in AllOperations
  BY DEF TypeOK, ProposalRow, Delta
<1>6. prop' = [p \in Pairs |->
            IF p \in {b} \X S
            THEN [prop[p] EXCEPT !.status = Outcome(prop[p].delta.op)]
            ELSE prop[p]]
  BY DEF CommitPlan
<1>7. prop' \in [Pairs -> ProposalRow]
  BY <1>4, <1>5, <1>6
<1>8. open' \subseteq Pairs /\ conflict' \in [Pairs -> {"none", "open", "resolved"}]
  BY DEF CommitPlan, TypeOK
<1> QED
  BY <1>1, <1>2, <1>3, <1>7, <1>8 DEF TypeOK, WorkTypedNext

LEMMA ApproveSafe ==
    ASSUME ScheduleInv, NEW b \in Batches, Approve(b)
    PROVE  ScheduleInv'
<1>0. PICK S \in SUBSET Candidates : S = Awaiting(b)
  BY DEF Awaiting
<1> DEFINE C == Conflicts(b, S)
<1>1. /\ TypeOK /\ Reviewable(b) /\ \A c \in S : Held(b, c)
      /\ Applicable(b, S) /\ CommitPlan(b, S) /\ UNCHANGED <<work, faults, runVars>>
  BY <1>0 DEF Approve, ScheduleInv, ScheduleTypeOK
<1>2. b \notin cleared /\ InForce(b) /\ batch[b].status = "awaiting_review"
  BY <1>1, NotCleared
<1>3. \A x \in Batches, c \in Candidates :
        /\ x = b /\ c \in S => prop'[<<x, c>>].status = Outcome(prop[<<b, c>>].delta.op)
        /\ ~(x = b /\ c \in S) => prop'[<<x, c>>] = prop[<<x, c>>]
  <2>1. \A x \in Batches, c \in Candidates :
                /\ x = b /\ c \in S =>
                      /\ prop'[<<x, c>>].status = Outcome(prop[<<b, c>>].delta.op)
                      /\ prop'[<<x, c>>].pred = prop[<<b, c>>].pred
                /\ ~(x = b /\ c \in S) => prop'[<<x, c>>] = prop[<<x, c>>]
                /\ <<x, c>> \in open' <=>
                      /\ <<x, c>> \in open
                      /\ ~(x = b /\ c \in S /\ c \notin Conflicts(b, S))
    BY <1>1, CommitRows, Zenon
  <2> QED
    BY <2>1
<1>4. \A c \in Candidates :
        /\ c \in C => cand'[c].status = "awaiting_review" /\ cand'[c].batch = b
        /\ c \in S /\ c \notin C => cand'[c].status = "settled" /\ cand'[c].batch = NoBatch
        /\ c \notin S => cand'[c] = cand[c]
  BY <1>1, CommitRows
<1>5. /\ batch'[b] = Freed(batch[b], IF C = {} THEN "settled" ELSE "awaiting_review")
      /\ \A d \in Batches : d # b => batch'[d] = batch[d]
  BY <1>1 DEF CommitPlan, TypeOK
<1>6. C \subseteq S /\ \A c \in S : cand[c].batch = b /\ prop[<<b, c>>].status = "awaiting_review"
  BY <1>0, <1>1 DEF Conflicts, Held, Awaiting
<1>7. Handles(b)
  <2>1. batch'[b].status \in {"settled", "awaiting_review"} /\ batch'[b].members = batch[b].members
    BY <1>5 DEF Freed
  <2>2. \A c \in Candidates :
          \/ cand'[c] = cand[c]
          \/ /\ cand[c].batch = b /\ cand'[c].batch \in {b, NoBatch}
             /\ cand'[c].batch # NoBatch <=> cand'[c].status \in {"processing", "awaiting_review"}
    BY <1>4, <1>6, BatchAssumption
  <2>3. \A c \in Candidates :
          prop'[<<b, c>>].status # "none" => prop[<<b, c>>].status # "none" \/ c \in batch[b].members
    BY <1>3, <1>6
  <2> QED
    BY <1>2, <1>3, <1>5, <2>1, <2>2, <2>3 DEF Handles, Aside
<1>8. ASSUME NEW c \in Candidates, Entrusted(b, c)
      PROVE  Entrusted(b, c)'
  <2>1. ~Underway(b)'
    BY <1>5 DEF Underway, Freed
  <2>2. prop'[<<b, c>>].status # "proposed"
    <3>1. prop[<<b, c>>].status # "proposed"
      BY <1>2, <1>8 DEF Entrusted, Underway
    <3> QED
      BY <1>3, <3>1 DEF Outcome
  <2>3. prop'[<<b, c>>].status = "awaiting_review" => c \in C
    <3>1. c \notin S => prop[<<b, c>>].status # "awaiting_review"
      BY <1>0 DEF Awaiting
    <3>2. c \in S /\ prop'[<<b, c>>].status = "awaiting_review" => prop[<<b, c>>].delta.op = "conflict"
      BY <1>3 DEF Outcome
    <3> QED
      BY <1>3, <3>1, <3>2 DEF Conflicts
  <2>4. C # {} => batch'[b].status = "awaiting_review"
    BY <1>5 DEF Freed
  <2> QED
    BY <1>4, <2>1, <2>2, <2>3, <2>4 DEF Entrusted
<1>9. TypeOK'
  <2>1. WorkTypedNext
    BY <1>1, WorkTyped DEF runVars, WorkTypedNext, TypeOK
  <2> QED
    BY <1>1, <2>1, PlanTyped DEF TypeOK
<1> QED
  BY <1>1, <1>2, <1>7, <1>8, <1>9, ReviewHandling DEF Handled, ClearKept

LEMMA RejectSafe ==
    ASSUME ScheduleInv, NEW b \in Batches, Reject(b)
    PROVE  ScheduleInv'
<1>1. /\ TypeOK /\ Reviewable(b) /\ UNCHANGED <<head, open, conflict, work, faults, runVars>>
  BY DEF Reject, ScheduleInv, ScheduleTypeOK
<1>2. b \notin cleared /\ InForce(b) /\ batch[b].status = "awaiting_review"
  BY <1>1, NotCleared
<1>3. batch'[b].status = "settled" /\ batch'[b].members = batch[b].members
      /\ \A d \in Batches : d # b => batch'[d] = batch[d]
  BY <1>1 DEF Reject, TypeOK, BatchRow
<1>4. \A d \in Batches, c \in Candidates :
        prop'[<<d, c>>].status = IF d = b /\ prop[<<d, c>>].status = "awaiting_review"
                                 THEN "rejected" ELSE prop[<<d, c>>].status
  <2>1. \A d \in Batches, c \in Candidates :
          /\ prop'[<<d, c>>] = IF d = b /\ c \in Awaiting(b) THEN Rejected(prop[<<d, c>>])
                               ELSE prop[<<d, c>>]
          /\ prop[<<d, c>>] \in ProposalRow
    BY <1>1, PairParts DEF Reject, TypeOK
  <2>2. \A c \in Candidates : c \in Awaiting(b) <=> prop[<<b, c>>].status = "awaiting_review"
    BY DEF Awaiting
  <2> QED
    BY <2>1, <2>2 DEF Rejected, ProposalRow
<1>5. \A c \in Candidates : cand'[c] = IF cand[c].batch = b
                                       THEN [status |-> "quarantined", batch |-> NoBatch]
                                       ELSE cand[c]
  BY DEF Reject
<1>6. Handles(b)
  BY <1>2, <1>3, <1>4, <1>5 DEF Handles, Aside
<1>7. \A c \in Candidates : Entrusted(b, c) => Entrusted(b, c)'
  BY <1>2, <1>3, <1>4 DEF Entrusted, Underway
<1>8. TypeOK'
  <2>1. batch' \in [Batches -> BatchRow]
    <3>1. batch' = [batch EXCEPT ![b] = [batch[b] EXCEPT !.status = "settled"]]
      BY DEF Reject
    <3> QED
      BY <1>1, <3>1, RowsUpdated DEF TypeOK, BatchStatuses
  <2>2. prop' \in [Pairs -> ProposalRow]
    <3>1. \A r \in ProposalRow : Rejected(r) \in ProposalRow
      BY RowsUpdated DEF Rejected, ProposalStatuses
    <3> QED
      BY <1>1, <3>1 DEF Reject, TypeOK
  <2>3. cand' \in [Candidates -> [status : CandidateStatuses, batch : Batches \cup {NoBatch}]]
    BY <1>1 DEF Reject, TypeOK, CandidateStatuses
  <2> QED
    BY <1>1, <2>1, <2>2, <2>3 DEF TypeOK
<1> QED
  BY <1>1, <1>2, <1>6, <1>7, <1>8, ReviewHandling DEF Handled, ClearKept

LEMMA ShadowSafe ==
    ASSUME ScheduleInv, NEW n \in Runs, Shadow(n)
    PROVE  ScheduleInv'
<1> DEFINE mine == {b \in Batches : batchRun[b] = n}
<1>0. TypeOK /\ NoRun \notin Runs /\ Runs \subseteq Nat
  BY ScheduleAssumption DEF ScheduleInv, ScheduleTypeOK, NoRun, Runs
<1>1. /\ runs[n] = "stopping" /\ ~Shared(n)
      /\ cand' = [c \in Candidates |-> IF owner[c] = n
                                        THEN [status |-> "quarantined", batch |-> NoBatch]
                                        ELSE cand[c]]
      /\ prop' = [p \in Pairs |-> IF p[1] \in mine /\ Undecided(prop[p].status)
                                   THEN [prop[p] EXCEPT !.status = "rejected"]
                                   ELSE prop[p]]
      /\ batch' = [b \in Batches |-> IF b \in mine THEN Shadowed(batch[b]) ELSE batch[b]]
      /\ open' = {p \in open : p[1] \notin mine}
      /\ cleared' = cleared \cup mine
      /\ checkpoint' = {c \in checkpoint : owner[c] # n}
      /\ runs' = [runs EXCEPT ![n] = "cleared"]
      /\ UNCHANGED <<head, conflict, work, faults, owner, batchRun, managed, round>>
  BY DEF Shadow
<1>2. /\ runs' \in [Runs -> {"none", "live", "stopping", "cleared", "stopped"}]
      /\ runs'[n] = "cleared" /\ \A k \in Runs : k # n => runs'[k] = runs[k]
  BY <1>1 DEF ScheduleInv, ScheduleTypeOK
<1>3. \A k \in Runs : runs'[k] # "live"
  <2> SUFFICES ASSUME NEW k \in Runs
               PROVE  runs'[k] # "live"
    OBVIOUS
  <2>1. IF k < n THEN runs[k] = "stopped" ELSE k > n => runs[k] = "none"
    BY <1>1 DEF ScheduleInv, RunsInOrder
  <2>2. k \in Nat /\ n \in Nat
    BY <1>0
  <2> QED
    BY <1>2, <2>1, <2>2
<1>4. \A b \in Batches : ~InForce(b)'
  <2>1. \A b \in Batches : batchRun[b] # NoRun => batchRun[b] \in Runs
    BY DEF ScheduleInv, ScheduleTypeOK
  <2>2. \A w \in Workers : round[w].run # NoRun => round[w].run \in Runs
    BY DEF ScheduleInv, ScheduleTypeOK, Rounds
  <2> QED
    BY <1>1, <1>3, <2>1, <2>2 DEF InForce, Live
<1>5. \A d \in Batches, c \in Candidates :
        /\ d \in mine => ~Undecided(prop'[<<d, c>>].status)
        /\ \/ prop'[<<d, c>>] = prop[<<d, c>>]
           \/ prop[<<d, c>>].status # "none" /\ ~Undecided(prop'[<<d, c>>].status)
  <2>1. \A d \in Batches, c \in Candidates :
          /\ prop'[<<d, c>>] = IF d \in mine /\ Undecided(prop[<<d, c>>].status)
                               THEN [prop[<<d, c>>] EXCEPT !.status = "rejected"]
                               ELSE prop[<<d, c>>]
          /\ prop[<<d, c>>] \in ProposalRow
    BY <1>0, <1>1, PairParts DEF TypeOK
  <2> QED
    BY <2>1 DEF Undecided, ProposalRow
<1>6. \A d \in Batches : /\ batch'[d].members = batch[d].members
                         /\ d \in mine => batch'[d].status = "settled"
                         /\ d \notin mine => batch'[d] = batch[d]
  BY <1>1 DEF Shadowed, Freed
<1>7. \A c \in Candidates, d \in Batches : cand'[c].batch = d => cand[c].batch = d /\ owner[c] # n
  BY <1>1, BatchAssumption
<1>8. BatchesInOrder'
  <2>1. ActiveIffHeld'
    BY <1>1 DEF ActiveIffHeld, ScheduleInv, BatchesInOrder
  <2>2. ASSUME NEW d \in Batches, NEW c \in Candidates
        PROVE  /\ prop'[<<d, c>>].status # "none" \/ cand'[c].batch = d => c \in batch'[d].members
               /\ batch'[d].status = "none" => batch'[d].members = {}
    <3>1. Accounted(d, c)
      BY DEF ScheduleInv, BatchesInOrder, Accounted
    <3> QED
      BY <1>5, <1>6, <1>7, <3>1 DEF Accounted
  <2> QED
    BY <1>4, <2>1, <2>2 DEF BatchesInOrder
<1>9. RunsInOrder'
  BY <1>0, <1>1, <1>2, <1>6 DEF RunsInOrder, ScheduleInv, ScheduleTypeOK
<1>10. RoundsInOrder'
  <2>1. \A v \in Workers : round[v] # Off => round[v].run \in Runs /\ round[v].batch \in Batches
    BY DEF ScheduleInv, RoundsInOrder
  <2> QED
    BY <1>1, <1>2, <1>6, <2>1 DEF RoundsInOrder, ScheduleInv
<1>11. ClearedInOrder'
  <2> SUFFICES ASSUME NEW b \in cleared'
               PROVE  /\ batchRun[b] # NoRun /\ runs'[batchRun[b]] \in {"cleared", "stopped"}
                      /\ batch'[b].status \in {"settled", "awaiting_review"}
    BY <1>1 DEF ClearedInOrder
  <2>1. CASE b \in mine
    BY <1>0, <1>2, <1>6, <2>1
  <2>2. CASE b \notin mine
    <3>1. b \in cleared /\ b \in Batches
      BY <1>1, <2>2 DEF ScheduleInv, ScheduleTypeOK
    <3>2. batchRun[b] # n /\ batchRun[b] \in Runs
      BY <2>2, <3>1 DEF ScheduleInv, ScheduleTypeOK, ClearedInOrder
    <3> QED
      BY <1>2, <1>6, <2>2, <3>1, <3>2 DEF ScheduleInv, ClearedInOrder
  <2> QED
    BY <2>1, <2>2
<1>12. ClearedStaysEmpty'
  <2> SUFFICES ASSUME NEW b \in cleared', NEW c \in Candidates
               PROVE  ~Undecided(prop'[<<b, c>>].status) /\ cand'[c].batch # b
    BY DEF ClearedStaysEmpty
  <2>1. CASE b \in mine
    <3>1. cand[c].batch = b => c \in batch[b].members
      BY <2>1 DEF ScheduleInv, BatchesInOrder
    <3>2. cand[c].batch = b => owner[c] = n
      BY <1>1, <2>1, <3>1 DEF Shared
    <3> QED
      BY <1>5, <1>7, <2>1, <3>2
  <2>2. CASE b \notin mine
    <3>1. b \in cleared /\ b \in Batches
      BY <1>1, <2>2 DEF ScheduleInv, ScheduleTypeOK
    <3>2. ~Undecided(prop[<<b, c>>].status) /\ cand[c].batch # b
      BY <3>1 DEF ScheduleInv, ClearedStaysEmpty
    <3> QED
      BY <1>5, <1>7, <3>1, <3>2
  <2> QED
    BY <2>1, <2>2
<1>13. ScheduleTypeOK'
  <2>1. batch' \in [Batches -> BatchRow]
    BY <1>0, <1>1, RowsTyped DEF TypeOK, Shadowed, BatchStatuses
  <2>2. prop' \in [Pairs -> ProposalRow]
    <3>1. \A r \in ProposalRow : [r EXCEPT !.status = "rejected"] \in ProposalRow
      BY RowsUpdated DEF ProposalStatuses
    <3> QED
      BY <1>0, <1>1, <3>1 DEF TypeOK
  <2>3. cand' \in [Candidates -> [status : CandidateStatuses, batch : Batches \cup {NoBatch}]]
    BY <1>0, <1>1 DEF TypeOK, CandidateStatuses
  <2>4. TypeOK'
    BY <1>0, <1>1, <2>1, <2>2, <2>3 DEF TypeOK
  <2>5. checkpoint' \subseteq {c \in Candidates : cand'[c].status = "pending"}
    BY <1>1 DEF ScheduleInv, ScheduleTypeOK
  <2> QED
    BY <1>1, <1>2, <2>4, <2>5 DEF ScheduleInv, ScheduleTypeOK
<1> QED
  BY <1>8, <1>9, <1>10, <1>11, <1>12, <1>13, Assembled

LEMMA RunsSafe ==
    ASSUME ScheduleInv, NEW n \in Runs, Activate(n) \/ Stop(n) \/ Verify(n)
    PROVE  ScheduleInv'
<1>1. CASE Activate(n)
  BY <1>1, RunSafe DEF Activate
<1>2. CASE Stop(n)
  BY <1>2, RunSafe DEF Stop, Live
<1>3. CASE Verify(n)
  BY <1>3, RunSafe DEF Verify
<1> QED
  BY <1>1, <1>2, <1>3

LEMMA ScheduleInitSafe == ScheduleInit => ScheduleInv
<1> SUFFICES ASSUME ScheduleInit PROVE ScheduleInv
  OBVIOUS
<1>1. TypeOK
  BY InitTyped DEF ScheduleInit
<1>2. Off.phase = "off" /\ Off \in Rounds /\ NoRun \notin Runs
  BY DEF Off, Rounds, NoRun, Runs
<1>3. /\ \A w \in Workers : round[w] = Off /\ work[w] = Idle
      /\ \A b \in Batches : batchRun[b] = NoRun /\ batch[b].status = "none" /\ batch[b].members = {}
      /\ \A c \in Candidates : cand[c].batch = NoBatch /\ cand[c].status = "none"
      /\ \A b \in Batches, c \in Candidates : prop[<<b, c>>].status = "none"
  BY PairParts DEF ScheduleInit, Init, NoBatchRow, NoProposal
<1>4. ScheduleTypeOK
  BY <1>1, <1>2, <1>3 DEF ScheduleInit, ScheduleTypeOK
<1>5. \A b \in Batches : ~InForce(b)
  BY <1>2, <1>3 DEF InForce, Live
<1>6. BatchesInOrder
  BY <1>3, <1>5, BatchAssumption DEF BatchesInOrder, ActiveIffHeld
<1>7. RunsInOrder
  BY <1>3 DEF RunsInOrder, ScheduleInit
<1>8. RoundsInOrder
  BY <1>3 DEF RoundsInOrder
<1>9. ClearedInOrder /\ ClearedStaysEmpty
  BY DEF ScheduleInit, ClearedInOrder, ClearedStaysEmpty
<1> QED
  BY <1>4, <1>6, <1>7, <1>8, <1>9, PendingFollows DEF ScheduleInv

LEMMA ScheduleStepSafe == ScheduleInv /\ [ScheduleNext]_svars => ScheduleInv'
<1> SUFFICES ASSUME ScheduleInv, [ScheduleNext]_svars PROVE ScheduleInv'
  OBVIOUS
<1>1. CASE UNCHANGED svars
  <2>1. UNCHANGED vars /\ UNCHANGED runVars
    BY <1>1 DEF svars
  <2>2. TypeOK' /\ ActiveIffHeld' /\ RunsInOrder'
    BY <2>1, StepTyped
    DEF ScheduleInv, ScheduleTypeOK, BatchesInOrder, vars, runVars, ActiveIffHeld, RunsInOrder
  <2> QED
    BY <2>1, <2>2, SessionSafe DEF vars, runVars, ScheduleInv, ScheduleTypeOK
<1>2. ASSUME NEW n \in Runs,
             Activate(n) \/ Checkpoint(n) \/ Stop(n) \/ Shadow(n) \/ Verify(n)
      PROVE  ScheduleInv'
  BY <1>2, RunsSafe, CheckpointSafe, ShadowSafe
<1>3. ASSUME NEW c \in Candidates, NEW n \in Runs, Schedule(c, n)
      PROVE  ScheduleInv'
  BY <1>3, ScheduleCandidateSafe
<1>4. ASSUME NEW m \in Memories, OtherWriter(m)
      PROVE  ScheduleInv'
  BY <1>4, OtherWriterSafe
<1>5. ASSUME NEW w \in Workers, TickStep(w) \/ Troubles(w) \/ Dies(w)
      PROVE  ScheduleInv'
  BY <1>5, ChooseSafe, ClaimSafeHere, JudgeAnswersSafe, WorkSafe, ProposesSafe,
     RecordBatchSafe, TroublesSafe, DiesSafe DEF TickStep
<1>6. ASSUME NEW w \in Workers, NEW n \in Runs, Call(w, n)
      PROVE  ScheduleInv'
  BY <1>6, CallSafe
<1>7. ASSUME NEW b \in Batches, Expires(b) \/ Approve(b) \/ Reject(b)
      PROVE  ScheduleInv'
  BY <1>7, ExpiresSafe, ApproveSafe, RejectSafe
<1> QED
  BY <1>1, <1>2, <1>3, <1>4, <1>5, <1>6, <1>7, RestartSafe DEF ScheduleNext

(***************************************************************************)
(* For any number of candidates, batches, workers and runs: what is        *)
(* pending in a live run is held by its batch, what a rollback cleared     *)
(* stays empty, and what these rest on holds (scheduler.py, rollout.py     *)
(* run_batch and review_batch, rollback.py shadow and verify).             *)
(***************************************************************************)
THEOREM ScheduleInvariant == ScheduleSpec => []ScheduleInv
  BY ScheduleInitSafe, ScheduleStepSafe, PTL DEF ScheduleSpec

\* What a step leaves as it was: quarantined candidates, and, but for a
\* request, the batches that are not pending.
SettledStays ==
    \A c \in Candidates : cand[c].status = "quarantined" => cand'[c].status = "quarantined"

NoneFrozen ==
    \A b \in Batches : batch'[b].status = "pending" => batch[b].status = "pending"

LEMMA FrozenRows ==
    ASSUME TypeOK, NEW d \in Batches, NEW r, r.status # "pending",
           batch' = [batch EXCEPT ![d] = r]
    PROVE  NoneFrozen
  BY DEF NoneFrozen, TypeOK

LEMMA WorkerLeaves ==
    ASSUME ScheduleInv, NEW w \in Workers,
           Claim(w) \/ JudgeAnswers(w) \/ Work(w) \/ Proposes(w) \/ RecordBatch(w)
           \/ Troubles(w) \/ Dies(w)
    PROVE  SettledStays /\ NoneFrozen
<1>0. TypeOK
  BY DEF ScheduleInv, ScheduleTypeOK
<1>1. CASE UNCHANGED <<cand, batch>>
  BY <1>1 DEF SettledStays, NoneFrozen
<1>2. CASE ClaimNext(w)
  <2>1. PICK d \in Batches : batch' = [batch EXCEPT ![d] = Leased(batch[d])]
    BY <1>2 DEF ClaimNext
  <2> QED
    BY <1>0, <1>2, <2>1, FrozenRows DEF ClaimNext, Leased, candidateVars, SettledStays
<1>3. CASE work[w] # Idle /\ Work(w)
  <2>1. work[w].batch \in Batches /\ batch[work[w].batch] \in BatchRow
        /\ work[w].verdict \in {"none", "retry", "blocked"}
    BY <1>3, InsideRound DEF Claims
  <2>2. CASE Resume(w)
    BY <1>1, <2>2 DEF Resume, candidateVars
  <2>3. CASE Release(w)
    BY <1>0, <1>1, <2>1, <2>3, FrozenRows DEF Release, Freed, SettledStays, candidateVars
  <2>4. CASE Fail(w)
    BY <1>0, <1>1, <2>1, <2>4, FrozenRows DEF Fail, Freed, SettledStays, candidateVars
  <2>5. CASE Persist(w)
    <3>1. CASE ValidClaim(w)
      <4>1. batch' = [batch EXCEPT ![work[w].batch] = [batch[work[w].batch] EXCEPT !.status = "proposed"]]
            /\ cand' = cand
        BY <2>5, <3>1 DEF Persist, candidateVars
      <4>2. [batch[work[w].batch] EXCEPT !.status = "proposed"].status # "pending"
        BY <2>1 DEF BatchRow
      <4> QED
        BY <1>0, <2>1, <4>1, <4>2, FrozenRows DEF SettledStays
    <3> QED
      BY <1>1, <2>5, <3>1 DEF Persist, candidateVars
  <2>6. CASE PersistRejected(w)
    <3>1. batch' = [batch EXCEPT ![work[w].batch] = Freed(batch[work[w].batch], "settled")]
      BY <2>6 DEF PersistRejected
    <3>2. Freed(batch[work[w].batch], "settled").status # "pending"
      BY DEF Freed
    <3>4. NoneFrozen
      BY <1>0, <2>1, <3>1, <3>2, FrozenRows, Zenon
    <3>3. SettledStays
      BY <2>6 DEF PersistRejected, SettledStays
    <3> QED
      BY <3>3, <3>4
  <2> QED
    BY <1>3, <2>2, <2>3, <2>4, <2>5, <2>6 DEF Work
<1>4. CASE work[w] # Idle /\ Hold(work[w].batch)
  <2>1. work[w].batch \in Batches
    BY <1>4, InsideRound
  <2>2. batch' = [batch EXCEPT ![work[w].batch] = Freed(batch[work[w].batch], "awaiting_review")]
    BY <1>4 DEF Hold
  <2>3. NoneFrozen
    <3>1. Freed(batch[work[w].batch], "awaiting_review").status # "pending"
      BY DEF Freed
    <3> QED
      BY <1>0, <2>1, <2>2, <3>1, FrozenRows, Zenon
  <2>4. SettledStays
    BY <1>4 DEF Hold, SettledStays
  <2> QED
    BY <2>3, <2>4
<1>5. CASE Claim(w)
  BY <1>1, <1>2, <1>5 DEF Claim, vars
<1>6. CASE JudgeAnswers(w) \/ RecordBatch(w) \/ Troubles(w) \/ Dies(w)
  BY <1>1, <1>6
  DEF JudgeAnswers, RecordBatch, Troubles, Dies, VersionChanged, JudgeFails, vars, candidateVars
<1>7. CASE Work(w)
  BY <1>3, <1>7 DEF Work, Resume, Release, Fail, Persist, PersistRejected, Step
<1>8. CASE Proposes(w)
  BY <1>1, <1>4, <1>8 DEF Proposes, Step, candidateVars
<1> QED
  BY <1>5, <1>6, <1>7, <1>8

LEMMA PlanLeaves ==
    ASSUME TypeOK, NEW b \in Batches, NEW S \in SUBSET Candidates, CommitPlan(b, S),
           \A c \in S : Held(b, c)
    PROVE  SettledStays /\ NoneFrozen
<1>1. /\ batch'[b] = Freed(batch[b], IF Conflicts(b, S) = {} THEN "settled" ELSE "awaiting_review")
      /\ \A d \in Batches : d # b => batch'[d] = batch[d]
  BY DEF CommitPlan, TypeOK
<1>2. batch'[b].status # "pending"
  BY <1>1 DEF Freed
<1>3. \A c \in Candidates : c \notin S => cand'[c] = cand[c]
  BY DEF CommitPlan, Conflicts
<1> QED
  BY <1>1, <1>2, <1>3 DEF Held, SettledStays, NoneFrozen

LEMMA OthersLeave ==
    ASSUME ScheduleInv,
           \/ \E n \in Runs : Activate(n) \/ Checkpoint(n) \/ Stop(n) \/ Shadow(n) \/ Verify(n)
           \/ \E c \in Candidates, n \in Runs : Schedule(c, n)
           \/ \E m \in Memories : OtherWriter(m)
           \/ \E b \in Batches : Expires(b) \/ Approve(b) \/ Reject(b)
           \/ Restart
    PROVE  SettledStays /\ NoneFrozen
<1>0. TypeOK
  BY DEF ScheduleInv, ScheduleTypeOK
<1>1. CASE UNCHANGED <<cand, batch>>
  BY <1>1 DEF SettledStays, NoneFrozen
<1>2. ASSUME NEW n \in Runs, Shadow(n)
      PROVE  SettledStays /\ NoneFrozen
  BY <1>0, <1>2 DEF Shadow, Shadowed, Freed, SettledStays, NoneFrozen
<1>3. ASSUME NEW c \in Candidates, NEW n \in Runs, Schedule(c, n)
      PROVE  SettledStays /\ NoneFrozen
  BY <1>0, <1>3 DEF Schedule, CreateCandidate, TypeOK, SettledStays, NoneFrozen
<1>4. ASSUME NEW b \in Batches, Expires(b)
      PROVE  SettledStays /\ NoneFrozen
  <2>1. cand' = cand /\ batch' = [batch EXCEPT ![b] = [batch[b] EXCEPT !.lease = "expired"]]
        /\ batch[b].status # "pending"
    BY <1>4 DEF Expires, LeaseRunsOut, LeaseOverrun, Expire, InRun, candidateVars
  <2>2. [batch[b] EXCEPT !.lease = "expired"].status = batch[b].status
    BY <1>0 DEF TypeOK, BatchRow
  <2> QED
    BY <1>0, <2>1, <2>2, FrozenRows DEF SettledStays
<1>5. ASSUME NEW b \in Batches, Approve(b)
      PROVE  SettledStays /\ NoneFrozen
  <2>1. PICK S \in SUBSET Candidates : S = Awaiting(b)
    BY DEF Awaiting
  <2>2. CommitPlan(b, S) /\ \A c \in S : Held(b, c)
    BY <1>5, <2>1 DEF Approve
  <2> QED
    BY <1>0, <2>2, PlanLeaves
<1>6. ASSUME NEW b \in Batches, Reject(b)
      PROVE  SettledStays /\ NoneFrozen
  BY <1>0, <1>6 DEF Reject, TypeOK, BatchRow, SettledStays, NoneFrozen
<1> QED
  BY <1>1, <1>2, <1>3, <1>4, <1>5, <1>6
  DEF Activate, Checkpoint, Stop, Verify, OtherWriter, ChangeHead, Restart, vars, candidateVars

\* A batch is frozen after the decisions about those before it.
FrozenInTurn ==
    \A b, d \in Batches :
        /\ batch[b].status = "none" /\ batch'[b].status = "pending" /\ managed
        /\ batchRun[d] = batchRun'[b] /\ batch[d].status # "blocked"
        => \A c \in Candidates : ~Undecided(prop[<<d, c>>].status)

LEMMA ChooseInTurn ==
    ASSUME ScheduleInv, NEW w \in Workers, NEW n \in Runs, Choose(w, n)
    PROVE  FrozenInTurn /\ SettledStays
<1>0. TypeOK
  BY DEF ScheduleInv, ScheduleTypeOK
<1>1. CASE UNCHANGED vars
  BY <1>1 DEF vars, FrozenInTurn, SettledStays
<1>2. ASSUME NEW x \in Batches, Outstanding(n) = {}, RequestBatch(x),
             batchRun' = [batchRun EXCEPT ![x] = n]
      PROVE  FrozenInTurn /\ SettledStays
  <2>1. SettledStays
    BY <1>2, FreezeRows DEF SettledStays, Ready, Waiting
  <2>2. ASSUME NEW b \in Batches, NEW d \in Batches, batch[b].status = "none",
               batch'[b].status = "pending", batchRun[d] = batchRun'[b],
               batch[d].status # "blocked", NEW c \in Candidates
        PROVE  ~Undecided(prop[<<d, c>>].status)
    <3>1. b = x
      BY <1>2, <2>2, FreezeRows
    <3>2. batchRun[d] = n /\ Live(n)
      BY <1>2, <2>2, <3>1 DEF ScheduleInv, ScheduleTypeOK, Choose
    <3>3. Entrusted(d, c) /\ batch[d].status \in BatchStatuses /\ batch[d].status # "none"
      BY <1>0, <3>2 DEF ScheduleInv, BatchesInOrder, RunsInOrder, InForce, Live, TypeOK, BatchRow
    <3>4. d \notin Outstanding(n)
      BY <1>2
    <3> QED
      BY <2>2, <3>2, <3>3, <3>4 DEF Outstanding, Entrusted, Underway, Undecided, BatchStatuses
  <2> QED
    BY <2>1, <2>2 DEF FrozenInTurn
<1> QED
  BY <1>1, <1>2 DEF Choose

LEMMA CallInTurn ==
    ASSUME ScheduleInv, NEW w \in Workers, NEW n \in Runs, Call(w, n)
    PROVE  FrozenInTurn /\ SettledStays
<1>1. PICK b \in Batches : RequestBatch(b)
  BY DEF Call
<1> QED
  BY <1>1, FreezeRows DEF Call, FrozenInTurn, SettledStays, Ready, Waiting

LEMMA StepInTurn == ScheduleInv /\ [ScheduleNext]_svars => FrozenInTurn /\ SettledStays
<1> SUFFICES ASSUME ScheduleInv, [ScheduleNext]_svars
             PROVE  FrozenInTurn /\ SettledStays
  OBVIOUS
<1>1. NoneFrozen => FrozenInTurn
  BY DEF NoneFrozen, FrozenInTurn
<1>2. CASE UNCHANGED svars
  BY <1>1, <1>2 DEF svars, vars, NoneFrozen, SettledStays
<1>3. CASE ScheduleNext
  BY <1>1, <1>3, WorkerLeaves, OthersLeave, ChooseInTurn, CallInTurn DEF ScheduleNext, TickStep
<1> QED
  BY <1>2, <1>3

(***************************************************************************)
(* Quarantine is final and the scheduler freezes a batch only after the    *)
(* decisions about the earlier ones of its run (scheduler.py, _batch).     *)
(***************************************************************************)
THEOREM DecisionsAreFinal == ScheduleSpec => DecisionsStand
<1>1. ScheduleInv /\ [ScheduleNext]_svars =>
          [\A c \in Candidates : cand[c].status = "quarantined"
                                    => cand'[c].status = "quarantined"]_svars
  BY StepInTurn DEF SettledStays
<1>2. ScheduleInv /\ [ScheduleNext]_svars =>
          [\A b, d \in Batches :
             /\ batch[b].status = "none" /\ batch'[b].status = "pending" /\ managed
             /\ batchRun[d] = batchRun'[b] /\ batch[d].status # "blocked"
             => \A c \in Candidates : ~Undecided(prop[<<d, c>>].status)]_svars
  BY StepInTurn DEF FrozenInTurn
<1> QED
  BY <1>1, <1>2, ScheduleInvariant, PTL
  DEF ScheduleSpec, DecisionsStand, QuarantineIsFinal, FrozenAfterDecisions

=============================================================================
