------------------------------- MODULE Batch -------------------------------
(***************************************************************************)
(* Batch maintenance of SagaContext: how candidates (things a session said *)
(* that may deserve remembering) are reconciled with the memories of the   *)
(* ledger.  A batch freezes the waiting candidates of a session together   *)
(* with the revisions of some anchor memories (maintenance/batches.py); a  *)
(* worker leases the batch, asks the Judge for one proposal per candidate, *)
(* persists them and commits them all in one transaction                   *)
(* (maintenance/reconcile.py, BatchWorker.run_once, and                    *)
(* Ledger.commit_batch).  One action is one transaction, or one read made  *)
(* outside a transaction; between two of them anything may happen.         *)
(*                                                                         *)
(* One session and one task.  stop_after_proposals is False and no rollout *)
(* owns the batch.  The Judge is any ProposalJudge: exactly one proposal   *)
(* per candidate, each on an anchor or, in PersistRejected, not (the       *)
(* conversion of a model's answer, convert_deltas, lets only the first     *)
(* kind through, and "no_change" only for a batch of one candidate; a      *)
(* judge with prepared answers may give all of them).                      *)
(***************************************************************************)
EXTENDS Naturals, FiniteSets

CONSTANTS
    Candidates,   \* candidate ids
    Batches,      \* batch ids
    NoBatch,      \* active_batch_id is NULL
    Memories,     \* memories that existed before, possible anchors
    NoMemory,     \* target_id is NULL
    Workers,      \* run_once callers, in any process
    Operations,   \* what the Judge may propose
    MaxRevision,  \* bound: revisions a memory may reach
    MaxAttempts,  \* max_attempts of run_once
    MaxFaults     \* bound: crashes, Judge and database failures, overrun leases

AllOperations == {"new", "confirm", "refine", "supersede", "conflict", "no_change"}

ASSUME BatchAssumption ==
    /\ NoBatch \notin Batches
    /\ NoMemory \notin Memories
    /\ Operations \subseteq AllOperations
    /\ MaxRevision \in Nat \ {0}
    /\ MaxAttempts \in Nat \ {0}
    /\ MaxFaults \in Nat

Writing   == {"confirm", "refine", "supersede"}  \* operations on an existing memory
Targeting == Writing \cup {"conflict"}

Waiting(status) == status \in {"pending", "retry"}

CandidateStatuses == {"none", "pending", "processing", "awaiting_review",
                      "settled", "quarantined", "retry"}

BatchStatuses == {"none", "pending", "running", "proposed", "awaiting_review",
                  "review_committing", "retry", "settled", "blocked"}

ProposalStatuses == {"none", "proposed", "committed", "no_change", "awaiting_review",
                     "rejected", "invalidated", "superseded"}

(***************************************************************************)
(* lease_token is a new uuid at every claim, when attempt_count goes up as *)
(* well: holder says who took the current token, attempts which claim it   *)
(* was.  base is batch_anchors: the frozen revision, or 0 (MaxRevision is  *)
(* never frozen, so that a commit stays within the bound).                 *)
(***************************************************************************)
BatchRow == [status   : BatchStatuses,
             attempts : Nat,
             holder   : {"none", "worker", "reviewer"},
             lease    : {"none", "live", "expired"},
             members  : SUBSET Candidates,
             base     : [Memories -> 0..(MaxRevision - 1)]]

NoBatchRow == [status |-> "none", attempts |-> 0, holder |-> "none", lease |-> "none",
               members |-> {}, base |-> [m \in Memories |-> 0]]

(***************************************************************************)
(* A proposal of a batch for one of its candidates.  fits: its memory type *)
(* and scope (for a confirm its payload and evidence too) are those that   *)
(* commit_batch demands of an operation on the target; for a conflict that *)
(* matters once a reviewer accepts it.  pred is the batch of the proposal  *)
(* in predecessor_id.                                                      *)
(***************************************************************************)
Delta == [op : AllOperations, target : Memories \cup {NoMemory}, fits : BOOLEAN]

ProposalRow == [status : ProposalStatuses,
                delta  : Delta,
                pred   : Batches \cup {NoBatch}]

NoDelta    == [op |-> "no_change", target |-> NoMemory, fits |-> TRUE]
NoProposal == [status |-> "none", delta |-> NoDelta, pred |-> NoBatch]

Phases == {"claimed", "judging", "persisted", "releasing", "committing", "failing"}

\* A worker inside run_once: its claim, the proposals its plan was built
\* from, and the status a failure is about to write.
Claims == [phase   : Phases,
           batch   : Batches,
           attempt : Nat,
           plan    : SUBSET Candidates,
           verdict : {"none", "retry", "blocked"}]

Decided(c) == c.phase = "failing" => c.verdict # "none"

Idle == [phase |-> "idle"]

VARIABLES
    head,      \* memories: state and current_revision
    cand,      \* candidates: status and active_batch_id
    batch,     \* batches, with batch_candidates and batch_anchors
    open,      \* batch_candidates rows that are not released
    prop,      \* proposals by batch and candidate
    conflict,  \* conflicts by batch and candidate
    work,      \* what each worker is doing
    faults     \* faults so far

vars == <<head, cand, batch, open, prop, conflict, work, faults>>
candidateVars == <<cand, open>>
proposalVars  == <<prop, conflict>>

Pairs == Batches \X Candidates

TypeOK ==
    /\ head \in [Memories -> [state : {"active", "retired"}, rev : 1..MaxRevision]]
    /\ cand \in [Candidates -> [status : CandidateStatuses, batch : Batches \cup {NoBatch}]]
    /\ batch \in [Batches -> BatchRow]
    /\ open \subseteq Pairs
    /\ prop \in [Pairs -> ProposalRow]
    /\ conflict \in [Pairs -> {"none", "open", "resolved"}]
    /\ work \in [Workers -> Claims \cup {Idle}]
    /\ faults \in 0..MaxFaults
    /\ \A w \in Workers : Decided(work[w])

Init ==
    /\ head = [m \in Memories |-> [state |-> "active", rev |-> 1]]
    /\ cand = [c \in Candidates |-> [status |-> "none", batch |-> NoBatch]]
    /\ batch = [b \in Batches |-> NoBatchRow]
    /\ open = {}
    /\ prop = [p \in Pairs |-> NoProposal]
    /\ conflict = [p \in Pairs |-> "none"]
    /\ work = [w \in Workers |-> Idle]
    /\ faults = 0

(***************************************************************************)
(* The session and the rest of the ledger.                                 *)
(***************************************************************************)
CreateCandidate(c) ==
    /\ cand[c].status = "none"
    /\ cand' = [cand EXCEPT ![c].status = "pending"]
    /\ UNCHANGED <<head, batch, open, proposalVars, work, faults>>

\* Another writer: an explicit commit of the user, or forget.
ChangeHead(m) ==
    /\ head[m].state = "active"
    /\ head[m].rev < MaxRevision
    /\ \E s \in {"active", "retired"} :
        head' = [head EXCEPT ![m] = [state |-> s, rev |-> head[m].rev + 1]]
    /\ UNCHANGED <<candidateVars, batch, proposalVars, work, faults>>

\* The candidates a new batch takes, and what request_batch would fail on.
Ready == {c \in Candidates : Waiting(cand[c].status)}
Free(c) == cand[c].batch = NoBatch /\ \A b \in Batches : <<b, c>> \notin open

(***************************************************************************)
(* request_batch: freeze every waiting candidate and the revisions of the  *)
(* anchors.  A batch frozen with no candidate is left out (the scheduler   *)
(* asks for none), and so are anchors that MaxRevision keeps from changing.*)
(***************************************************************************)
RequestBatch(b) ==
    /\ batch[b].status = "none"
    /\ Ready # {}
    /\ \A c \in Ready : Free(c)
    /\ \E anchors \in SUBSET {m \in Memories : head[m].state = "active"
                                               /\ head[m].rev < MaxRevision} :
        batch' = [batch EXCEPT ![b] =
            [status |-> "pending", attempts |-> 0, holder |-> "none", lease |-> "none",
             members |-> Ready,
             base |-> [m \in Memories |-> IF m \in anchors THEN head[m].rev ELSE 0]]]
    /\ cand' = [c \in Candidates |-> IF c \in Ready
                                     THEN [status |-> "processing", batch |-> b]
                                     ELSE cand[c]]
    /\ open' = open \cup ({b} \X Ready)
    /\ UNCHANGED <<head, proposalVars, work, faults>>

(***************************************************************************)
(* Slips in the code that the runs must notice stand before the definition *)
(* they would replace, named "...Slip".                                    *)
(*                                                                         *)
(* claim_next.  Without a target the code takes the oldest batch that may  *)
(* be claimed, with one that batch: here any.                              *)
(***************************************************************************)
Claimable(b) ==
    \/ Waiting(batch[b].status)
    \/ batch[b].status \in {"running", "proposed"} /\ batch[b].lease = "expired"

Leased(row) == [status   |-> IF row.status = "proposed" THEN "proposed" ELSE "running",
                attempts |-> row.attempts + 1, holder |-> "worker", lease |-> "live",
                members  |-> row.members, base |-> row.base]

Freed(row, status) == [status |-> status, attempts |-> row.attempts, holder |-> "none",
                       lease |-> "none", members |-> row.members, base |-> row.base]

ClaimOf(b) == [phase |-> "claimed", batch |-> b, attempt |-> batch[b].attempts + 1,
               plan |-> {}, verdict |-> "none"]

ClaimNext(w) ==
    /\ work[w] = Idle
    /\ \E b \in Batches :
        /\ Claimable(b)
        /\ batch' = [batch EXCEPT ![b] = Leased(batch[b])]
        /\ work' = [work EXCEPT ![w] = ClaimOf(b)]
    /\ UNCHANGED <<head, candidateVars, proposalVars, faults>>

(***************************************************************************)
(* The worker's transactions compare lease_token.  They compare            *)
(* lease_until with the time run_once started, which was before it: an     *)
(* expired lease is lost only when somebody else takes it.                 *)
(***************************************************************************)
Mine(w)        == batch[work[w].batch]
OwnsSlip(w)    == Mine(w).holder = "worker"
Owns(w)        == Mine(w).holder = "worker" /\ Mine(w).attempts = work[w].attempt
Holder(b)      == {w \in Workers : /\ work[w] # Idle
                                   /\ work[w].batch = b
                                   /\ work[w].attempt = batch[b].attempts}

Step(w, phase) == work[w] # Idle /\ work[w].phase = phase
Go(w, phase)   == work' = [work EXCEPT ![w].phase = phase]
Leave(w)       == work' = [work EXCEPT ![w] = Idle]
Decide(w, v)   == work' = [work EXCEPT ![w].phase = "failing", ![w].verdict = v]
Adopt(w, S)    == work' = [work EXCEPT ![w].phase = "committing", ![w].plan = S]

Fault == faults < MaxFaults /\ faults' = faults + 1

\* _retry_or_block, up to its transaction: whoever raised attempt_count.
Verdict(w) == IF Mine(w).attempts >= MaxAttempts THEN "blocked" ELSE "retry"

Proposed(b) == {c \in Candidates : prop[<<b, c>>].status = "proposed"}

Current(b, m) == head[m].state = "active" /\ head[m].rev = batch[b].base[m]

AnchorsAreCurrent(b) == \A m \in Memories : batch[b].base[m] # 0 => Current(b, m)

(***************************************************************************)
(* run_once after the claim: what an earlier worker persisted is resumed,  *)
(* or released when an anchor has moved; otherwise the Judge is asked.     *)
(***************************************************************************)
Resume(w) ==
    /\ Step(w, "claimed")
    /\ LET b == work[w].batch
       IN \/ /\ Proposed(b) = {}
             /\ Go(w, "judging")
          \/ /\ Proposed(b) # {}
             /\ ~AnchorsAreCurrent(b)
             /\ Go(w, "releasing")
          \/ /\ Proposed(b) # {}
             /\ AnchorsAreCurrent(b)
             /\ Adopt(w, Proposed(b))
    /\ UNCHANGED <<head, candidateVars, batch, proposalVars, faults>>

\* input_digest_changed or judge_version_changed: the frozen input no longer
\* has its digest, or the batch was made for another version of the Judge.
VersionChanged(w) ==
    /\ Step(w, "claimed")
    /\ Fault
    /\ Decide(w, "blocked")
    /\ UNCHANGED <<head, candidateVars, batch, proposalVars>>

\* JudgeError, retryable or not, or any other exception.
JudgeFails(w) ==
    /\ Step(w, "judging")
    /\ Fault
    /\ Decide(w, "blocked") \/ Decide(w, Verdict(w))
    /\ UNCHANGED <<head, candidateVars, batch, proposalVars>>

(***************************************************************************)
(* The Judge answered.  Its answer depends only on the frozen input, so it *)
(* is chosen here, in the transaction that persists it.                    *)
(***************************************************************************)
\* batch_input: what the Judge sees of a batch is what was frozen, however often
\* it is read: the candidates and the anchors at their revisions (the events and
\* the texts made of them are left out).
Input(b) == [candidates |-> batch[b].members,
             anchors    |-> {m \in Memories : batch[b].base[m] # 0}]

\* What _validate_targets lets through.
Acceptable(b, d) ==
    /\ d.op \in Operations
    /\ IF d.op \in Targeting THEN d.target \in Input(b).anchors ELSE d.target = NoMemory
    /\ d.op \notin Targeting => d.fits

\* The invalidated proposals of a candidate: the query takes the latest of
\* them, and there is at most one (see SupersededHasSuccessor).
Invalidated(c) == {b \in Batches : prop[<<b, c>>].status = "invalidated"}
Predecessor(c) == IF Invalidated(c) = {} THEN NoBatch
                  ELSE CHOOSE b \in Batches : b \in Invalidated(c)

\* validate_claim
ValidClaim(w) == Owns(w) /\ Mine(w).status = "running"

\* _persist, or batch_lease_fenced out of run_once
Persist(w) ==
    /\ Step(w, "judging")
    /\ LET b == work[w].batch
           members == Input(b).candidates
       IN \/ /\ ValidClaim(w)
             /\ \E answer \in [members -> Delta] :
                 /\ \A c \in members : Acceptable(b, answer[c])
                 /\ prop' = [p \in Pairs |->
                      IF p[1] = b /\ p[2] \in members
                      THEN [status |-> "proposed", delta |-> answer[p[2]],
                            pred |-> Predecessor(p[2])]
                      ELSE IF p[2] \in members /\ p[1] = Predecessor(p[2])
                      THEN [prop[p] EXCEPT !.status = "superseded"]
                      ELSE prop[p]]
             /\ batch' = [batch EXCEPT ![b].status = "proposed"]
             /\ Go(w, "persisted")
          \/ /\ ~ValidClaim(w)
             /\ Leave(w)
             /\ UNCHANGED <<prop, batch>>
    /\ UNCHANGED <<head, candidateVars, conflict, faults>>

\* The members of a batch leave its hands.
UnholdSlip(b) == open' = open
Unhold(b)     == open' = {p \in open : p[1] # b}

\* _persist_rejected: some operation is on a memory that is no anchor, or not
\* at its frozen revision.  Nothing reads what a rejected proposal proposed.
PersistRejected(w) ==
    /\ Step(w, "judging")
    /\ ValidClaim(w)
    /\ LET b == work[w].batch
       IN /\ prop' = [p \in Pairs |->
                IF p[1] = b /\ p[2] \in batch[b].members
                THEN [status |-> "rejected", delta |-> NoDelta, pred |-> NoBatch]
                ELSE prop[p]]
          /\ cand' = [c \in Candidates |->
                IF cand[c].batch = b THEN [status |-> "quarantined", batch |-> NoBatch]
                ELSE cand[c]]
          /\ Unhold(b)
          /\ batch' = [batch EXCEPT ![b] = Freed(batch[b], "settled")]
    /\ Leave(w)
    /\ UNCHANGED <<head, conflict, faults>>

\* run_once reads back what is proposed and builds its plan.
ReadBack(w) ==
    /\ Step(w, "persisted")
    /\ Adopt(w, Proposed(work[w].batch))
    /\ UNCHANGED <<head, candidateVars, batch, proposalVars, faults>>

(***************************************************************************)
(* invalidate_and_release, or nothing when the lease is somebody else's.   *)
(***************************************************************************)
InRun(b) == batch[b].status \in {"running", "proposed"}

Release(w) ==
    /\ Step(w, "releasing")
    /\ Leave(w)
    /\ LET b == work[w].batch
       IN \/ /\ Owns(w) /\ InRun(b)
             /\ prop' = [p \in Pairs |->
                   IF p[1] = b /\ prop[p].status = "proposed"
                   THEN [prop[p] EXCEPT !.status = "invalidated"]
                   ELSE prop[p]]
             /\ cand' = [c \in Candidates |->
                   IF cand[c].batch = b /\ cand[c].status = "processing"
                   THEN [status |-> "retry", batch |-> NoBatch]
                   ELSE cand[c]]
             /\ Unhold(b)
             /\ batch' = [batch EXCEPT ![b] = Freed(batch[b], "settled")]
          \/ /\ ~(Owns(w) /\ InRun(b))
             /\ UNCHANGED <<prop, candidateVars, batch>>
    /\ UNCHANGED <<head, conflict, faults>>

(***************************************************************************)
(* commit_batch: everything the plan says, or a ValueError and nothing.    *)
(***************************************************************************)
Writes(b, S)    == {c \in S : prop[<<b, c>>].delta.op \in Writing}
Conflicts(b, S) == {c \in S : prop[<<b, c>>].delta.op = "conflict"}
Target(b, c)    == prop[<<b, c>>].delta.target

Held(b, c) == cand[c].batch = b /\ cand[c].status \in {"processing", "awaiting_review"}

\* The expected revision is not compared.
ApplicableSlip(b, S) == \A c \in Writes(b, S) : prop[<<b, c>>].delta.fits

\* Each operation finds the revision it expects: an earlier one of the same
\* plan moves the head as well.
Applicable(b, S) ==
    \A c \in Writes(b, S) :
        /\ Current(b, Target(b, c))
        /\ prop[<<b, c>>].delta.fits
        /\ \A d \in Writes(b, S) : Target(b, d) = Target(b, c) => d = c

Committable(b, S) ==
    /\ \A c \in S : prop[<<b, c>>].status = "proposed" /\ Held(b, c)
    /\ Applicable(b, S)

Outcome(op) == CASE op = "no_change" -> "no_change"
                 [] op = "conflict"  -> "awaiting_review"
                 [] OTHER            -> "committed"

NewHead(m, op) == [state |-> IF op = "supersede" THEN "retired" ELSE "active",
                   rev   |-> head[m].rev + 1]

CommitPlan(b, S) ==
    LET writes    == Writes(b, S)
        conflicts == Conflicts(b, S)
    IN  /\ head' = [m \in Memories |->
              IF \E c \in writes : Target(b, c) = m
              THEN NewHead(m, prop[<<b, CHOOSE c \in writes : Target(b, c) = m>>].delta.op)
              ELSE head[m]]
        /\ conflict' = [p \in Pairs |->
              IF p \in {b} \X conflicts THEN "open" ELSE conflict[p]]
        /\ cand' = [c \in Candidates |->
              IF c \in conflicts THEN [status |-> "awaiting_review", batch |-> b]
              ELSE IF c \in S THEN [status |-> "settled", batch |-> NoBatch]
              ELSE cand[c]]
        /\ open' = open \ ({b} \X (S \ conflicts))
        /\ prop' = [p \in Pairs |->
              IF p \in {b} \X S
              THEN [prop[p] EXCEPT !.status = Outcome(prop[p].delta.op)]
              ELSE prop[p]]
        /\ batch' = [batch EXCEPT ![b] =
              Freed(batch[b], IF conflicts = {} THEN "settled" ELSE "awaiting_review")]

Commit(w) ==
    /\ Step(w, "committing")
    /\ LET b == work[w].batch
           mayCommit == /\ Owns(w)
                        /\ batch[b].status = "proposed"
                        /\ Committable(b, work[w].plan)
       IN \/ mayCommit /\ CommitPlan(b, work[w].plan) /\ Leave(w)
          \/ /\ ~mayCommit
             /\ Decide(w, Verdict(w))
             /\ UNCHANGED <<head, candidateVars, batch, proposalVars>>
    /\ UNCHANGED faults

\* The database refuses the transaction: sqlite3.DatabaseError, rolled back.
CommitFails(w) ==
    /\ Step(w, "committing")
    /\ Fault
    /\ Decide(w, Verdict(w))
    /\ UNCHANGED <<head, candidateVars, batch, proposalVars>>

\* fail_batch and block_batch
Fail(w) ==
    /\ Step(w, "failing")
    /\ Leave(w)
    /\ LET b == work[w].batch
       IN batch' = IF Owns(w) /\ InRun(b)
                   THEN [batch EXCEPT ![b] = Freed(batch[b], work[w].verdict)]
                   ELSE batch
    /\ UNCHANGED <<head, candidateVars, proposalVars, faults>>

(***************************************************************************)
(* The environment.                                                        *)
(***************************************************************************)
Crash(w) ==
    /\ work[w] # Idle
    /\ Fault
    /\ Leave(w)
    /\ UNCHANGED <<head, candidateVars, batch, proposalVars>>

Expire(b) == batch' = [batch EXCEPT ![b].lease = "expired"]

\* The lease of a worker that is gone runs out.
LeaseRunsOut(b) ==
    /\ InRun(b)
    /\ batch[b].lease = "live"
    /\ Holder(b) = {}
    /\ Expire(b)
    /\ UNCHANGED <<head, candidateVars, proposalVars, work, faults>>

\* A worker outlives its lease: run_once sets no limit to the Judge's time.
LeaseOverrun(b) ==
    /\ InRun(b)
    /\ batch[b].lease = "live"
    /\ Holder(b) # {}
    /\ Fault
    /\ Expire(b)
    /\ UNCHANGED <<head, candidateVars, proposalVars, work>>

RunOnce(w) ==
    \/ ClaimNext(w) \/ Resume(w) \/ Persist(w) \/ PersistRejected(w) \/ ReadBack(w)
    \/ Release(w) \/ Commit(w) \/ Fail(w)

Failure(w) == VersionChanged(w) \/ JudgeFails(w) \/ CommitFails(w) \/ Crash(w)

Next ==
    \/ \E c \in Candidates : CreateCandidate(c)
    \/ \E m \in Memories : ChangeHead(m)
    \/ \E b \in Batches : RequestBatch(b) \/ LeaseRunsOut(b) \/ LeaseOverrun(b)
    \/ \E w \in Workers : RunOnce(w) \/ Failure(w)

Spec == Init /\ [][Next]_vars

-----------------------------------------------------------------------------
(***************************************************************************)
(* Properties.                                                             *)
(***************************************************************************)

(***************************************************************************)
(* A candidate is in the hands of one batch at a time: its unreleased      *)
(* batch_candidates rows are exactly the one of its active batch.  So      *)
(* request_batch never finds a waiting candidate taken, and the unique     *)
(* index on unreleased rows never refuses one.                             *)
(***************************************************************************)
HeldByOneBatch ==
    \A c \in Candidates :
        {b \in Batches : <<b, c>> \in open} = {cand[c].batch} \ {NoBatch}

(***************************************************************************)
(* A settled batch leaves nothing behind: none of its candidates is still  *)
(* in its hands and none of its proposals is still to be decided.          *)
(***************************************************************************)
SettledLeavesNothing ==
    \A b \in Batches : batch[b].status = "settled" =>
        \A c \in Candidates :
            /\ cand[c].batch # b
            /\ prop[<<b, c>>].status \notin {"proposed", "awaiting_review"}

(***************************************************************************)
(* A candidate is reconciled at most once, in whatever batches it has      *)
(* been, and its own status agrees with the proposal that did it.          *)
(***************************************************************************)
Reconciled(c) == {b \in Batches : prop[<<b, c>>].status \in {"committed", "no_change"}}

ReconciledOnce ==
    \A c \in Candidates :
        /\ \A b, d \in Reconciled(c) : b = d
        /\ cand[c].status = "settled" <=> Reconciled(c) # {}

(***************************************************************************)
(* A superseded proposal has exactly one successor, and an invalidated one *)
(* awaits it: a candidate with an invalidated proposal is not forgotten.   *)
(***************************************************************************)
Succession(b, c) ==
    /\ prop[<<b, c>>].status = "superseded" <=> \E d \in Batches : prop[<<d, c>>].pred = b
    /\ prop[<<b, c>>].status = "invalidated"
         => cand[c].status \in {"retry", "processing", "quarantined"}

SupersededHasSuccessor ==
    \A c \in Candidates :
        /\ \A b, d \in Invalidated(c) : b = d
        /\ \A b \in Batches : Succession(b, c)

(***************************************************************************)
(* Why these invariants hold: the inductive invariant of batch maintenance.*)
(* While a batch is open its members are in its hands, processing; once it *)
(* has left the hands of the workers, each member is decided, under review *)
(* or released.  A token belongs to one worker, and the plan of the worker *)
(* that still has the token is exactly what is proposed.                   *)
(***************************************************************************)
Underway(b) == batch[b].status \in {"pending", "running", "proposed", "retry", "blocked"}
Closed(b)   == batch[b].status \in {"settled", "awaiting_review"}

\* Statuses the workers alone never reach, and rows that do not exist yet.
StatusesInOrder ==
    \A b \in Batches :
        /\ batch[b].status # "review_committing"
        /\ batch[b].status = "none" => \A c \in Candidates : prop[<<b, c>>].status = "none"
        /\ batch[b].status = "none" => batch[b].members = {} /\ batch[b].attempts = 0
        /\ batch[b].lease = "live" => InRun(b)

ActiveIffHeld ==
    \A c \in Candidates :
        cand[c].batch # NoBatch <=> cand[c].status \in {"processing", "awaiting_review"}

MemberHeld(b, c) ==
    /\ cand[c].batch = b => c \in batch[b].members
    /\ cand[c].batch = b /\ cand[c].status = "processing" => Underway(b)
    /\ cand[c].batch = b /\ cand[c].status = "awaiting_review" =>
          batch[b].status = "awaiting_review" /\ prop[<<b, c>>].status = "awaiting_review"
    /\ Underway(b) /\ c \in batch[b].members =>
          cand[c].batch = b /\ cand[c].status = "processing"

MembersHeld == \A b \in Batches, c \in Candidates : MemberHeld(b, c)

ProposalOfMember(b, c) ==
    /\ prop[<<b, c>>].status # "none" => c \in batch[b].members
    /\ prop[<<b, c>>].status = "proposed" => Underway(b)
    /\ Underway(b) => prop[<<b, c>>].status \in {"none", "proposed"}
    /\ prop[<<b, c>>].status = "awaiting_review" => cand[c].batch = b
    /\ batch[b].status = "proposed" /\ c \in batch[b].members =>
          prop[<<b, c>>].status = "proposed"
    /\ prop[<<b, c>>].status = "none" => prop[<<b, c>>].pred = NoBatch
    /\ prop[<<b, c>>].status = "proposed" => Invalidated(c) = {}

ProposalsOfMembers == \A b \in Batches, c \in Candidates : ProposalOfMember(b, c)

\* The Judge is asked only about a batch of which nothing is proposed.
JudgedAfresh ==
    \A w \in Workers : Step(w, "judging") /\ Owns(w) => Proposed(work[w].batch) = {}

ClaimsDistinct ==
    \A w \in Workers : work[w] # Idle =>
        /\ work[w].attempt <= Mine(w).attempts
        /\ Mine(w).status # "none"
        /\ \A v \in Workers : /\ work[v] # Idle
                                /\ work[v].batch = work[w].batch
                                /\ work[v].attempt = work[w].attempt
                                => v = w

PlansComplete ==
    \A w \in Workers : Step(w, "committing") /\ Owns(w) => work[w].plan = Proposed(work[w].batch)

BatchInv ==
    /\ TypeOK
    /\ StatusesInOrder
    /\ ActiveIffHeld
    /\ MembersHeld
    /\ ProposalsOfMembers
    /\ ClaimsDistinct
    /\ JudgedAfresh
    /\ PlansComplete
    /\ HeldByOneBatch
    /\ ReconciledOnce
    /\ SupersededHasSuccessor

(***************************************************************************)
(* While a batch is leased, it changes only with a step of the worker that *)
(* holds its latest token (or its lease expires): a worker that was        *)
(* overtaken neither persists, nor settles, nor fails the batch.           *)
(***************************************************************************)
OnlyHolderChangesBatch ==
    [][\A b \in Batches :
         batch[b].lease = "live" /\ batch'[b].status # batch[b].status =>
            \E w \in Holder(b) : work'[w] # work[w]]_vars

(***************************************************************************)
(* A batch is committed whole and on what the Judge saw: when one of its   *)
(* proposals is committed, all are decided in that step, and every memory  *)
(* they write was at the frozen revision just before.                      *)
(***************************************************************************)
CommittedWhole ==
    [][\A b \in Batches :
         (\E c \in Candidates : prop[<<b, c>>].status # "committed"
                                /\ prop'[<<b, c>>].status = "committed") =>
            \A c \in batch[b].members :
                /\ prop'[<<b, c>>].status \in {"committed", "no_change", "awaiting_review"}
                /\ prop[<<b, c>>].delta.op \in Writing => Current(b, Target(b, c))]_vars

(***************************************************************************)
(* The design document: when the frozen input, the anchors and the state   *)
(* of the proposals agree, what an earlier worker persisted is committed.  *)
(***************************************************************************)
Agrees(w) ==
    /\ Owns(w)
    /\ AnchorsAreCurrent(work[w].batch)
    /\ Committable(work[w].batch, work[w].plan)

ConsistentPlanCommits ==
    [][\A w \in Workers :
         Step(w, "committing") /\ Agrees(w) /\ faults' = faults /\ work'[w] # work[w]
            => batch'[work[w].batch].status
                  \in {"settled", "awaiting_review"}]_vars

=============================================================================
