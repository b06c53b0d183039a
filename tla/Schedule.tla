------------------------------ MODULE Schedule ------------------------------
(***************************************************************************)
(* Batches of a guarded rollout: who requests them, who holds them for     *)
(* review, who decides them and what a rollback does to them.  Together    *)
(* with the worker of Batch, which here stops after the proposals          *)
(* (stop_after_proposals), this is                                         *)
(*   - the daily scheduler, scheduler.py (one thread of the daemon), when  *)
(*     the daemon manages batches itself,                                  *)
(*   - rollout.py, run_batch, a request served when it does not,           *)
(*   - rollout.py, review_batch, and                                       *)
(*   - the "shadow" and "verify" phases of rollback.py.                    *)
(* One session, one task, one daemon.  A run that stops never becomes live *)
(* again, so that comparing rollout_id and the epoch (FencedJudge, tick)   *)
(* is to ask whether the run is live.                                      *)
(***************************************************************************)
EXTENDS Batch

CONSTANTS
    MaxRuns   \* bound: rollouts, one after the other

ASSUME ScheduleAssumption == MaxRuns \in Nat \ {0}

Runs  == 1..MaxRuns
NoRun == 0

(***************************************************************************)
(* A worker is the scheduler in a tick, or a request of run_batch: "off"   *)
(* or returned, "requested" (batch frozen, not yet recorded as the run's), *)
(* "chosen" (about to claim), "inside" run_once, "answered" (the fenced    *)
(* Judge found the run still live after its answer).                       *)
(***************************************************************************)
Rounds == [phase : {"off", "requested", "chosen", "inside", "answered"},
           run   : Runs \cup {NoRun},
           batch : Batches \cup {NoBatch},
           call  : BOOLEAN]

Off == [phase |-> "off", run |-> NoRun, batch |-> NoBatch, call |-> FALSE]

VARIABLES
    runs,        \* rollout_runs.status; "cleared" is stopping after the shadow phase
    owner,       \* rollout_candidates
    batchRun,    \* rollout_batches
    checkpoint,  \* pending candidates followed by a checkpoint or the session's end
    managed,     \* rollout_worker_enabled of the running daemon
    round,       \* the tick or the request a worker is in
    cleared      \* batches a shadow phase settled (history)

runVars == <<runs, owner, batchRun, checkpoint, managed, round, cleared>>
svars   == <<vars, runVars>>

ScheduleTypeOK ==
    /\ TypeOK
    /\ runs \in [Runs -> {"none", "live", "stopping", "cleared", "stopped"}]
    /\ owner \in [Candidates -> Runs \cup {NoRun}]
    /\ batchRun \in [Batches -> Runs \cup {NoRun}]
    /\ checkpoint \subseteq {c \in Candidates : cand[c].status = "pending"}
    /\ managed \in BOOLEAN
    /\ round \in [Workers -> Rounds]
    /\ cleared \subseteq Batches
    /\ \A w \in Workers : work[w] # Idle <=> round[w].phase \in {"inside", "answered"}
    /\ \A w \in Workers : work[w] # Idle => round[w].batch = work[w].batch

ScheduleInit ==
    /\ Init
    /\ runs = [n \in Runs |-> "none"]
    /\ owner = [c \in Candidates |-> NoRun]
    /\ batchRun = [b \in Batches |-> NoRun]
    /\ checkpoint = {}
    /\ managed \in BOOLEAN
    /\ round = [w \in Workers |-> Off]
    /\ cleared = {}

Live(n) == n # NoRun /\ runs[n] = "live"

-----------------------------------------------------------------------------
(***************************************************************************)
(* The rollout and what its sessions leave behind.                         *)
(***************************************************************************)
Activate(n) ==
    /\ runs[n] = "none"
    /\ \A k \in Runs : IF k < n THEN runs[k] = "stopped" ELSE runs[k] = "none"
    /\ runs' = [runs EXCEPT ![n] = "live"]
    /\ UNCHANGED <<vars, owner, batchRun, checkpoint, managed, round, cleared>>

\* schedule_candidate: for the run that was live when the prompt was let in,
\* which may have stopped since.
Schedule(c, n) ==
    /\ runs[n] # "none"
    /\ CreateCandidate(c)
    /\ owner' = [owner EXCEPT ![c] = n]
    /\ UNCHANGED <<runs, batchRun, checkpoint, managed, round, cleared>>

\* A checkpoint_requested or session_closed event of a live run.
Checkpoint(n) ==
    /\ Live(n)
    /\ checkpoint' = checkpoint \cup {c \in Candidates : owner[c] = n
                                                        /\ cand[c].status = "pending"}
    /\ checkpoint' # checkpoint
    /\ UNCHANGED <<vars, runs, owner, batchRun, managed, round, cleared>>

OtherWriter(m) == ChangeHead(m) /\ UNCHANGED runVars

Stop(n) ==
    /\ Live(n)
    /\ runs' = [runs EXCEPT ![n] = "stopping"]
    /\ UNCHANGED <<vars, owner, batchRun, checkpoint, managed, round, cleared>>

-----------------------------------------------------------------------------
(***************************************************************************)
(* The scheduler and run_batch.                                            *)
(***************************************************************************)
\* Between two ticks, or two requests.
Between(w) == round[w] = Off

Begin(w, phase, n, b, call) ==
    round' = [round EXCEPT ![w] = [phase |-> phase, run |-> n, batch |-> b, call |-> call]]

Enter(w, phase) == round' = [round EXCEPT ![w].phase = phase]
Return(w)       == round' = [round EXCEPT ![w] = Off]

\* Slips in the code that the runs must notice stand before the definition
\* they would replace, named "...Slip": here, expired leases are not resumed.
ResumableSlip(n) == {b \in Batches : batchRun[b] = n /\ Waiting(batch[b].status)}

\* What an earlier tick, or another worker that died, has left.
Resumable(n) == {b \in Batches : batchRun[b] = n /\ Claimable(b)}

\* A batch that was frozen and is not decided yet.
OutstandingSlip(n) == {b \in Batches : batchRun[b] = n
                          /\ batch[b].status \notin {"none", "settled"}}

Outstanding(n) == {b \in Batches : batchRun[b] = n
                      /\ batch[b].status \in {"pending", "running", "retry", "proposed",
                                              "awaiting_review"}}

Due(n) == {c \in Candidates : /\ owner[c] = n
                              /\ cand[c].status = "pending" /\ cand[c].batch = NoBatch
                              /\ c \in checkpoint}

FrozenAll(b) == \A m \in Memories : head[m].state = "active" /\ head[m].rev < MaxRevision
                                       => batch'[b].base[m] = head[m].rev

\* _batch, which looks for a live run once more: a batch to go on with, or a
\* new one once a candidate is due, with every current memory as an anchor,
\* recorded as the run's in the same transaction.
Choose(w, n) ==
    /\ managed /\ Between(w) /\ Live(n)
    /\ \E b \in Batches :
        \/ /\ b \in Resumable(n)
           /\ UNCHANGED <<vars, batchRun, checkpoint>>
           /\ Begin(w, "chosen", n, b, FALSE)
        \/ /\ Resumable(n) = {}
           /\ Due(n) # {} /\ Outstanding(n) = {}
           /\ RequestBatch(b) /\ FrozenAll(b)
           /\ batchRun' = [batchRun EXCEPT ![b] = n]
           /\ checkpoint' = checkpoint \ Ready
           /\ Begin(w, "chosen", n, b, FALSE)
    /\ UNCHANGED <<runs, owner, managed, cleared>>

\* run_batch up to its first transaction.  A request that finds no candidate
\* freezes an empty batch; that is left out.
Call(w, n) ==
    /\ ~managed /\ Between(w) /\ Live(n)
    /\ \E b \in Batches :
        /\ RequestBatch(b)
        /\ \A m \in Memories : batch'[b].base[m] = 0
        /\ Begin(w, "requested", n, b, TRUE)
    /\ checkpoint' = checkpoint \ Ready
    /\ UNCHANGED <<runs, owner, batchRun, managed, cleared>>

\* run_batch records the batch, in a transaction of its own.
RecordBatch(w) ==
    /\ round[w].phase = "requested"
    /\ batchRun' = [batchRun EXCEPT ![round[w].batch] = round[w].run]
    /\ Enter(w, "chosen")
    /\ UNCHANGED <<vars, runs, owner, checkpoint, managed, cleared>>

\* claim_next with target_batch_id
Claim(w) ==
    /\ round[w].phase = "chosen"
    /\ \/ ClaimNext(w) /\ work'[w].batch = round[w].batch /\ Enter(w, "inside")
       \/ ~Claimable(round[w].batch) /\ Return(w) /\ UNCHANGED vars
    /\ UNCHANGED <<runs, owner, batchRun, checkpoint, managed, cleared>>

\* FencedJudge asks before and after the Judge whether the run is live; only
\* the second time matters, since a run does not come back.
Fenced(w) == Live(round[w].run)

JudgeAnswers(w) ==
    /\ Step(w, "judging") /\ round[w].phase = "inside" /\ ~round[w].call
    /\ \/ Fenced(w) /\ Enter(w, "answered") /\ UNCHANGED vars
       \/ /\ ~Fenced(w)
          /\ Decide(w, "blocked")
          /\ UNCHANGED <<head, candidateVars, batch, proposalVars, faults, round>>
    /\ UNCHANGED <<runs, owner, batchRun, checkpoint, managed, cleared>>

\* The steps of run_once that are as in Batch.
Work(w) ==
    /\ \/ Resume(w) \/ Release(w) \/ Fail(w)
       \/ /\ round[w].call \/ round[w].phase = "answered"
          /\ Persist(w) \/ PersistRejected(w)
    /\ round' = [round EXCEPT ![w] = IF work'[w] = Idle THEN Off ELSE @]
    /\ UNCHANGED <<runs, owner, batchRun, checkpoint, managed, cleared>>

Troubles(w) ==
    /\ VersionChanged(w) \/ JudgeFails(w)
    /\ UNCHANGED runVars

\* Whatever was frozen with the batch, wherever it is now.
HoldSlip(b) ==
    /\ prop' = [p \in Pairs |-> IF p[1] = b /\ prop[p].status = "proposed"
                                THEN [prop[p] EXCEPT !.status = "awaiting_review"]
                                ELSE prop[p]]
    /\ cand' = [c \in Candidates |-> IF c \in batch[b].members
                                     THEN [cand[c] EXCEPT !.status = "awaiting_review"]
                                     ELSE cand[c]]
    /\ batch' = [batch EXCEPT ![b] = Freed(batch[b], "awaiting_review")]
    /\ UNCHANGED <<head, open, conflict, faults>>

\* _hold_for_review goes by the batch alone.
Hold(b) ==
    /\ prop' = [p \in Pairs |-> IF p[1] = b /\ prop[p].status = "proposed"
                                THEN [prop[p] EXCEPT !.status = "awaiting_review"]
                                ELSE prop[p]]
    /\ cand' = [c \in Candidates |-> IF cand[c].batch = b /\ cand[c].status = "processing"
                                     THEN [cand[c] EXCEPT !.status = "awaiting_review"]
                                     ELSE cand[c]]
    /\ batch' = [batch EXCEPT ![b] = Freed(batch[b], "awaiting_review")]
    /\ UNCHANGED <<head, open, conflict, faults>>

\* run_once returned "proposed", for proposals it persisted or resumed.  The
\* scheduler holds the batch if the run is still live, run_batch in any case.
Proposes(w) ==
    /\ Step(w, "persisted") \/ Step(w, "committing")
    /\ IF round[w].call \/ Live(round[w].run)
       THEN Hold(work[w].batch)
       ELSE UNCHANGED <<head, candidateVars, batch, proposalVars, faults>>
    /\ Leave(w)
    /\ Return(w)
    /\ UNCHANGED <<runs, owner, batchRun, checkpoint, managed, cleared>>

\* An exception, or the end of the daemon.
Dies(w) ==
    /\ Fault
    /\ ~Between(w)
    /\ Leave(w) /\ Return(w)
    /\ UNCHANGED <<head, candidateVars, batch, proposalVars, runs, owner, batchRun,
                   checkpoint, managed, cleared>>

\* The daemon starts again with another configuration.
Restart ==
    /\ \A w \in Workers : Between(w)
    /\ managed' = ~managed
    /\ UNCHANGED <<vars, runs, owner, batchRun, checkpoint, round, cleared>>

Expires(b) == (LeaseRunsOut(b) \/ LeaseOverrun(b)) /\ UNCHANGED runVars

-----------------------------------------------------------------------------
(***************************************************************************)
(* review_batch, in the transaction of its receipt.                        *)
(***************************************************************************)
Reviewable(b) == Live(batchRun[b]) /\ batch[b].status = "awaiting_review"

Awaiting(b) == {c \in Candidates : prop[<<b, c>>].status = "awaiting_review"}

\* What was committed as a conflict is still awaiting_review: a second
\* approval fails on the conflicts row it would insert again.
Committed(b) == {c \in Awaiting(b) : conflict[<<b, c>>] # "none"}

Approve(b) ==
    /\ Reviewable(b)
    /\ \A c \in Awaiting(b) : Held(b, c)
    /\ Applicable(b, Awaiting(b))
    /\ Committed(b) = {}
    /\ CommitPlan(b, Awaiting(b))
    /\ UNCHANGED <<work, faults, runVars>>

RejectedSlip(row) == row

Rejected(row) == [row EXCEPT !.status = "rejected"]

\* The rows of batch_candidates are not released.
Reject(b) ==
    /\ Reviewable(b)
    /\ prop' = [p \in Pairs |-> IF p[1] = b /\ p[2] \in Awaiting(b) THEN Rejected(prop[p])
                                ELSE prop[p]]
    /\ cand' = [c \in Candidates |-> IF cand[c].batch = b
                                     THEN [status |-> "quarantined", batch |-> NoBatch]
                                     ELSE cand[c]]
    /\ batch' = [batch EXCEPT ![b].status = "settled"]
    /\ UNCHANGED <<head, open, conflict, work, faults, runVars>>

-----------------------------------------------------------------------------
(***************************************************************************)
(* Rollback of a stopping run: the shadow phase and the verification.      *)
(***************************************************************************)
Shared(n) == \E b \in Batches : batchRun[b] = n
                /\ \E c \in batch[b].members : owner[c] # n

Shadowed(row) == Freed(row, "settled")

Undecided(status)     == status \in {"proposed", "awaiting_review"}

Shadow(n) ==
    /\ runs[n] = "stopping"
    /\ ~Shared(n)
    /\ LET mine == {b \in Batches : batchRun[b] = n} IN
       /\ cand' = [c \in Candidates |-> IF owner[c] = n
                                        THEN [status |-> "quarantined", batch |-> NoBatch]
                                        ELSE cand[c]]
       /\ prop' = [p \in Pairs |-> IF p[1] \in mine /\ Undecided(prop[p].status)
                                   THEN [prop[p] EXCEPT !.status = "rejected"]
                                   ELSE prop[p]]
       /\ batch' = [b \in Batches |-> IF b \in mine THEN Shadowed(batch[b]) ELSE batch[b]]
       /\ open' = {p \in open : p[1] \notin mine}
       /\ cleared' = cleared \cup mine
    /\ checkpoint' = {c \in checkpoint : owner[c] # n}
    /\ runs' = [runs EXCEPT ![n] = "cleared"]
    /\ UNCHANGED <<head, conflict, work, faults, owner, batchRun, managed, round>>

Verify(n) ==
    /\ runs[n] = "cleared"
    /\ \A c \in Candidates : owner[c] = n => cand[c].status = "quarantined"
    /\ runs' = [runs EXCEPT ![n] = "stopped"]
    /\ UNCHANGED <<vars, owner, batchRun, checkpoint, managed, round, cleared>>

-----------------------------------------------------------------------------
TickStep(w) ==
    \/ \E n \in Runs : Choose(w, n)
    \/ Claim(w) \/ JudgeAnswers(w) \/ Work(w) \/ Proposes(w) \/ RecordBatch(w)

ScheduleNext ==
    \/ \E n \in Runs : Activate(n) \/ Checkpoint(n) \/ Stop(n) \/ Shadow(n) \/ Verify(n)
    \/ \E c \in Candidates, n \in Runs : Schedule(c, n)
    \/ \E m \in Memories : OtherWriter(m)
    \/ \E w \in Workers : TickStep(w) \/ Troubles(w) \/ Dies(w)
    \/ \E w \in Workers, n \in Runs : Call(w, n)
    \/ \E b \in Batches : Expires(b) \/ Approve(b) \/ Reject(b)
    \/ Restart

ScheduleSpec == ScheduleInit /\ [][ScheduleNext]_svars

(***************************************************************************)
(* The thread ticks every two seconds and a dead worker's lease runs out.  *)
(***************************************************************************)
ScheduleFairSpec ==
    /\ ScheduleSpec
    /\ \A w \in Workers : WF_svars(TickStep(w))
    /\ \A b \in Batches : WF_svars(LeaseRunsOut(b) /\ UNCHANGED runVars)

-----------------------------------------------------------------------------
(***************************************************************************)
(* Properties.                                                             *)
(***************************************************************************)

(***************************************************************************)
(* What a rollback has cleared stays cleared: no proposal of such a batch  *)
(* is to be decided and no candidate is in its hands, although a worker    *)
(* may come back from the Judge afterwards, and run_batch may reopen it.   *)
(***************************************************************************)
ClearedStaysEmpty ==
    \A b \in cleared, c \in Candidates :
        /\ ~Undecided(prop[<<b, c>>].status)
        /\ cand[c].batch # b

(***************************************************************************)
(* In a live run, whatever is still to be decided is about a candidate in  *)
(* the hands of that very batch: no reviewer is asked about something that *)
(* was released, put aside or decided elsewhere in the meantime.           *)
(***************************************************************************)
PendingIsHeld ==
    \A b \in Batches, c \in Candidates :
        Live(batchRun[b]) /\ Undecided(prop[<<b, c>>].status) => cand[c].batch = b

(***************************************************************************)
(* What these rest on.  A batch is in force while its run is live, also    *)
(* between the two transactions of run_batch that freeze and record it:    *)
(* until its proposals are held for a reviewer, its members are in its     *)
(* hands and nothing of it is to be decided; and a batch that is settled   *)
(* leaves nothing to decide.  A stop ends this, and what a worker does to  *)
(* the batch afterwards.                                                   *)
(***************************************************************************)
InForce(b) ==
    \/ Live(batchRun[b])
    \/ \E w \in Workers : /\ round[w].phase = "requested"
                          /\ round[w].batch = b /\ Live(round[w].run)

Entrusted(b, c) ==
    /\ Underway(b) => prop[<<b, c>>].status \in {"none", "proposed"}
    /\ Underway(b) /\ c \in batch[b].members =>
          cand[c].batch = b /\ cand[c].status = "processing"
    /\ prop[<<b, c>>].status = "proposed" => Underway(b)
    /\ prop[<<b, c>>].status = "awaiting_review" =>
          batch[b].status = "awaiting_review" /\ cand[c].batch = b

BatchesInOrder ==
    /\ ActiveIffHeld
    /\ \A b \in Batches, c \in Candidates :
          /\ prop[<<b, c>>].status # "none" \/ cand[c].batch = b => c \in batch[b].members
          /\ batch[b].status = "none" => batch[b].members = {}
          /\ InForce(b) => Entrusted(b, c)

\* One run after the other; a batch is of a run that there is.
RunsInOrder ==
    /\ \A n \in Runs : runs[n] \in {"live", "stopping", "cleared"} =>
          \A k \in Runs : IF k < n THEN runs[k] = "stopped" ELSE k > n => runs[k] = "none"
    /\ \A b \in Batches : batchRun[b] # NoRun =>
          runs[batchRun[b]] # "none" /\ batch[b].status # "none"

\* A worker has a batch of its run, but for one that has not recorded it yet:
\* of that batch no other worker knows.
RoundsInOrder ==
    \A w \in Workers : round[w] # Off =>
        /\ round[w].phase # "off" /\ round[w].run \in Runs /\ round[w].batch \in Batches
        /\ runs[round[w].run] # "none" /\ batch[round[w].batch].status # "none"
        /\ IF round[w].phase # "requested"
           THEN batchRun[round[w].batch] = round[w].run
           ELSE /\ batchRun[round[w].batch] = NoRun
                /\ \A v \in Workers : round[v].batch = round[w].batch => v = w

\* A cleared batch is of a run that has ended, and out of the workers' hands.
ClearedInOrder ==
    \A b \in cleared :
        /\ batchRun[b] # NoRun /\ runs[batchRun[b]] \in {"cleared", "stopped"}
        /\ batch[b].status \in {"settled", "awaiting_review"}

(***************************************************************************)
(* Types, what is pending, what a rollback has cleared, and what they rest *)
(* on.                                                                     *)
(***************************************************************************)
ScheduleInv ==
    /\ ScheduleTypeOK
    /\ PendingIsHeld /\ ClearedStaysEmpty
    /\ BatchesInOrder /\ RunsInOrder /\ RoundsInOrder /\ ClearedInOrder

(***************************************************************************)
(* Quarantine is final: a candidate that a reviewer, a rollback or a       *)
(* rejected answer put aside is not judged again by a worker that was      *)
(* holding its batch.                                                      *)
(***************************************************************************)
QuarantineIsFinal ==
    [][\A c \in Candidates : cand[c].status = "quarantined"
                                => cand'[c].status = "quarantined"]_svars

(***************************************************************************)
(* The scheduler freezes a batch only when what it has let be judged in    *)
(* the session is decided (or blocked): memories accepted from an earlier  *)
(* batch are anchors of the next, as _batch's comment asks.                *)
(***************************************************************************)
FrozenAfterDecisions ==
    [][\A b, d \in Batches :
         /\ batch[b].status = "none" /\ batch'[b].status = "pending" /\ managed
         /\ batchRun[d] = batchRun'[b] /\ batch[d].status # "blocked"
         => \A c \in Candidates : ~Undecided(prop[<<d, c>>].status)]_svars

\* What was decided stands, and comes first.
DecisionsStand == QuarantineIsFinal /\ FrozenAfterDecisions

(***************************************************************************)
(* While the scheduler manages a live run, each of its batches comes to    *)
(* rest: with the reviewer, settled or blocked.                            *)
(***************************************************************************)
ManagedBatchRests ==
    \A b \in Batches :
        Live(batchRun[b]) /\ batch[b].status \in {"pending", "running", "proposed", "retry"}
            ~> \/ batch[b].status \in {"settled", "awaiting_review", "blocked"}
               \/ ~managed \/ ~Live(batchRun[b])

(***************************************************************************)
(* ... and a candidate that is due is taken into a batch, unless an        *)
(* earlier batch of the run still waits for a reviewer.                    *)
(***************************************************************************)
DueIsTaken ==
    \A c \in Candidates :
        c \in Due(owner[c]) /\ Live(owner[c])
            ~> \/ c \notin Due(owner[c]) \/ ~managed \/ ~Live(owner[c])
               \/ \E b \in Batches : /\ batchRun[b] = owner[c]
                                     /\ batch[b].status = "awaiting_review"
               \/ \A b \in Batches : batch[b].status # "none"

=============================================================================
