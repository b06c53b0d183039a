------------------------------ MODULE Rollback ------------------------------
(***************************************************************************)
(* The rollback runner (rollback.py) over the workers of Compensation.     *)
(* Five steps with durable receipts: freeze, memory, shadow, locator and   *)
(* verify.  A runner holds a lease it renews at every step; a later runner *)
(* takes over after a crash, skips the steps done (but repeats locator and *)
(* verify), and only the last step may call the run stopped.               *)
(***************************************************************************)
EXTENDS Compensation

CONSTANTS
    Throughs     \* the phases rollback is asked to end with, as step numbers

ASSUME RollbackAssumption == Throughs \subseteq 1..5 /\ 5 \in Throughs

Freeze == 1
Memory == 2
Shadow == 3
Locator == 4
Verify == 5

StepStatus == {"none", "running", "done", "cleanup_required"}

Desk == [phase : {"idle", "begin", "apply", "registered", "compensating", "settle",
                  "ending", "releasing"},
         step : 1..5, through : 1..5, targets : SUBSET Memories,
         todo : SUBSET Memories, at : SUBSET Memories, result : {"none", "done", "cleanup_required"}]

Away == [phase |-> "idle", step |-> 1, through |-> 5, targets |-> {},
         todo |-> {}, at |-> {}, result |-> "none"]

VARIABLES
    steps,  \* rollback_steps: status by step_no
    desk    \* what each runner is doing

rvars == <<run, overdue, head, row, del, att, op, confirmed, removed, items,
           late, stray, work, comp, rb, faults, steps, desk>>

RollbackTypeOK ==
    /\ TypeOK
    /\ steps \in [1..5 -> StepStatus]
    /\ desk \in [Runners -> Desk]

RollbackInit ==
    /\ Init
    /\ steps = [i \in 1..5 |-> "none"]
    /\ desk = [r \in Runners |-> Away]

kept == <<steps, desk>>

\* Everything a step of a runner leaves to the workers.
Untouched == UNCHANGED <<overdue, att, confirmed, removed, items, late, stray, work>>

(***************************************************************************)
(* The runner.                                                             *)
(***************************************************************************)
Holds(r) == rb.holder = r /\ rb.live

At(r, d) == desk' = [desk EXCEPT ![r] = d]

\* The first transaction of run: the first runner stops the rollout.
RunStart(r, through) ==
    /\ desk[r].phase = "idle"
    /\ ~rb.live
    /\ run' = IF rb.status = "none" THEN StoppedRun ELSE run
    /\ rb' = [status |-> "running", holder |-> r, live |-> TRUE]
    /\ At(r, [Away EXCEPT !.phase = "begin", !.through = through])
    /\ stray' = [m \in Memories |-> IF stray[m] = "no" THEN "no" ELSE "old"]
    /\ UNCHANGED <<head, row, del, op, comp, faults, steps>>
    /\ UNCHANGED <<overdue, att, confirmed, removed, items, late, work>>

\* _owns raises: the exception leaves run through its finally clause.
Fenced(r) ==
    /\ desk[r].phase \in {"begin", "settle", "ending"}
    /\ ~Holds(r)
    /\ At(r, [desk[r] EXCEPT !.phase = "releasing"])
    /\ UNCHANGED <<run, head, row, del, op, comp, rb, faults, steps>>
    /\ Untouched

\* After a step: the next one, or the end.
After(d) == IF d.step < d.through
            THEN [Away EXCEPT !.phase = "begin", !.step = d.step + 1, !.through = d.through]
            ELSE [d EXCEPT !.phase = "ending"]

\* Locators are not looked at again.
RepeatedSlip == {Verify}

Repeated == {Locator, Verify}

Committed == {m \in Memories : head[m] # "none"}

\* A step is begun, or skipped by its receipt.
BeginStep(r) ==
    LET d == desk[r] IN
    /\ d.phase = "begin" /\ Holds(r)
    /\ IF steps[d.step] = "done" /\ d.step \notin Repeated
       THEN At(r, After(d)) /\ UNCHANGED steps
       ELSE /\ steps' = [steps EXCEPT ![d.step] = "running"]
            /\ At(r, [d EXCEPT !.phase = "apply", !.todo = Committed, !.targets = Committed])
    /\ UNCHANGED <<run, head, row, del, op, comp, rb, faults>>
    /\ Untouched

ToSettle(r, result) == At(r, [desk[r] EXCEPT !.phase = "settle", !.result = result])

ApplyFreeze(r) ==
    /\ desk[r].phase = "apply" /\ desk[r].step = Freeze
    /\ ToSettle(r, "done")
    /\ UNCHANGED <<run, head, row, del, op, comp, rb, faults, steps>>
    /\ Untouched

\* All memories are forgotten in one transaction, or none when one of them
\* is no longer the rollout's alone.
ApplyMemory(r) ==
    LET d == desk[r] IN
    /\ d.phase = "apply" /\ d.step = Memory
    /\ IF \E m \in d.targets : head[m] = "changed"
       THEN ToSettle(r, "cleanup_required") /\ UNCHANGED <<head, del>>
       ELSE /\ head' = [m \in Memories |-> IF m \in d.targets THEN "deleted" ELSE head[m]]
            /\ del' = [m \in Memories |-> IF m \in d.targets /\ head[m] = "active"
                                          THEN Queued(del[m]) ELSE del[m]]
            /\ ToSettle(r, "done")
    /\ UNCHANGED <<run, row, op, comp, rb, faults, steps>>
    /\ Untouched

\* The candidates and batches of the rollout: module Schedule.
ApplyShadow(r) ==
    /\ desk[r].phase = "apply" /\ desk[r].step = Shadow
    /\ ToSettle(r, "done")
    /\ UNCHANGED <<run, head, row, del, op, comp, rb, faults, steps>>
    /\ Untouched

\* An operation is registered without a claim, or takes the locator of its
\* receipt.
Register(r, m) ==
    LET d == desk[r] IN
    /\ d.phase = "apply" /\ d.step = Locator /\ m \in d.todo
    /\ op' = [op EXCEPT ![m] =
          IF @.state = "absent" THEN [NoOp EXCEPT !.state = "registered", !.epoch = run.epoch]
          ELSE IF m \in confirmed
               THEN [@ EXCEPT !.locator = TRUE,
                              !.digest = IF op[m].digest = "none" THEN "body"
                                         ELSE op[m].digest]
               ELSE @]
    /\ At(r, [d EXCEPT !.phase = "registered", !.todo = @ \ {m}, !.at = {m}])
    /\ UNCHANGED <<run, head, row, del, comp, rb, faults, steps>>
    /\ Untouched

\* compensate(rollback=True): confirmed projections too, no claim is needed.
RunnerCompensates(r, m) ==
    LET d == desk[r] IN
    /\ d.phase = "registered" /\ m \in d.at
    /\ IF CompBusy(m)
       THEN ToSettle(r, "cleanup_required") /\ UNCHANGED <<op, comp>>
       ELSE CompStart(r, m) /\ At(r, [d EXCEPT !.phase = "compensating"])
    /\ UNCHANGED <<run, head, row, del, rb, faults, steps>>
    /\ Untouched

\* Its last transaction; unless it compensated, the step fails.
RunnerRecords(r, m) ==
    LET d == desk[r] IN
    /\ d.phase = "compensating" /\ m \in d.at
    /\ CompRecorded(r)
    /\ IF comp[r].status = "compensated" /\ op[m].comp = r
       THEN At(r, [d EXCEPT !.phase = "apply", !.at = {}])
       ELSE ToSettle(r, "cleanup_required")
    /\ UNCHANGED <<overdue, head, del, confirmed, items, late, stray, work, faults,
                   steps>>

\* The deletions forget queued are settled with the projections gone.
SettleDeletions(r) ==
    LET d == desk[r] IN
    /\ d.phase = "apply" /\ d.step = Locator /\ d.todo = {}
    /\ del' = [m \in Memories |-> IF m \in d.targets /\ del[m] # "absent"
                                  THEN "compensated" ELSE del[m]]
    /\ ToSettle(r, "done")
    /\ UNCHANGED <<run, head, row, op, comp, rb, faults, steps>>
    /\ Untouched

\* _verify: nothing of the rollout is left.
NoResidual ==
    \A m \in Committed :
        /\ head[m] = "deleted"
        /\ op[m].state \in {"absent", "compensated"}
        /\ row[m].status = "compensated"
        /\ del[m] \in {"absent", "compensated"}

ApplyVerify(r) ==
    /\ desk[r].phase = "apply" /\ desk[r].step = Verify
    /\ ToSettle(r, IF NoResidual THEN "done" ELSE "cleanup_required")
    /\ UNCHANGED <<run, head, row, del, op, comp, rb, faults, steps>>
    /\ Untouched

\* The receipt of the step; a failed step ends the run of the runner.
SettleStep(r) ==
    LET d == desk[r] IN
    /\ d.phase = "settle" /\ Holds(r)
    /\ steps' = [steps EXCEPT ![d.step] = d.result]
    /\ IF d.result = "done" THEN At(r, After(d)) /\ UNCHANGED rb
       ELSE /\ At(r, [d EXCEPT !.phase = "releasing"])
            /\ rb' = [rb EXCEPT !.status = "cleanup_required"]
    /\ UNCHANGED <<run, head, row, del, op, comp, faults>>
    /\ Untouched

\* The end without verifying again under the write lock.
EndSlip(r) ==
    LET d == desk[r] IN
    /\ d.phase = "ending" /\ Holds(r)
    /\ IF d.through = Verify
       THEN rb' = [rb EXCEPT !.status = "completed"] /\ run' = [run EXCEPT !.status = "stopped"]
       ELSE rb' = [rb EXCEPT !.status = "phase_completed"] /\ UNCHANGED run
    /\ At(r, [d EXCEPT !.phase = "releasing"])
    /\ UNCHANGED <<head, row, del, op, comp, faults, steps>>
    /\ Untouched

\* The last transaction verifies again; when something is left it is undone.
End(r) ==
    LET d == desk[r] IN
    /\ d.phase = "ending" /\ Holds(r)
    /\ IF d.through # Verify
       THEN rb' = [rb EXCEPT !.status = "phase_completed"] /\ UNCHANGED run
       ELSE IF NoResidual
       THEN rb' = [rb EXCEPT !.status = "completed"] /\ run' = [run EXCEPT !.status = "stopped"]
       ELSE UNCHANGED <<rb, run>>
    /\ At(r, [d EXCEPT !.phase = "releasing"])
    /\ UNCHANGED <<head, row, del, op, comp, faults, steps>>
    /\ Untouched

\* The finally clause gives the lease back if it is still the runner's.
Release(r) ==
    /\ desk[r].phase = "releasing"
    /\ rb' = IF rb.holder = r THEN [rb EXCEPT !.holder = NoProc, !.live = FALSE] ELSE rb
    /\ At(r, Away)
    /\ UNCHANGED <<run, head, row, del, op, comp, faults, steps>>
    /\ Untouched

RunnerCrash(r) ==
    /\ desk[r].phase # "idle"
    /\ Fault
    /\ At(r, Away)
    /\ comp' = [comp EXCEPT ![r] = NoCompensation]
    /\ UNCHANGED <<run, head, row, del, op, rb, steps>>
    /\ Untouched

\* A runner that outlives its lease was paused, which counts as a fault.
LapseRunner ==
    /\ rb.live
    /\ IF desk[rb.holder].phase = "idle" THEN UNCHANGED faults ELSE Fault
    /\ rb' = [rb EXCEPT !.live = FALSE]
    /\ UNCHANGED <<run, head, row, del, op, comp, steps, desk>>
    /\ Untouched

RunnerStep(r) ==
    \/ \E through \in Throughs : RunStart(r, through)
    \/ Fenced(r) \/ BeginStep(r)
    \/ ApplyFreeze(r) \/ ApplyMemory(r) \/ ApplyShadow(r) \/ ApplyVerify(r)
    \/ \E m \in Memories : Register(r, m) \/ RunnerCompensates(r, m) \/ RunnerRecords(r, m)
    \/ CompRemote(r) /\ UNCHANGED kept
    \/ SettleDeletions(r) \/ SettleStep(r) \/ End(r) \/ Release(r)

RollbackNext ==
    \/ WorkerNext /\ UNCHANGED kept
    \/ \E r \in Runners : RunnerStep(r) \/ RunnerCrash(r)
    \/ LapseRunner

RollbackSpec == RollbackInit /\ [][RollbackNext]_rvars

-----------------------------------------------------------------------------
(* What a stop and a rollback promise.                                     *)

\* An operation recorded as compensated has no projection left in the
\* backend, though workers whose call began before the stop keep returning,
\* runners crash and compensate again, and leases lapse; the exception is a
\* write that landed after its caller had given up or lost its lease, where
\* a compensation had looked (projection/protocol.py, compensate).
CompensatedMeansAbsent ==
    \A m \in Memories : op[m].state = "compensated" /\ m \in items => stray[m] # "no"

\* Nothing happens under a stopped run or an epoch no longer in force,
\* though the run may be stopped between any two steps of a worker: no
\* request begins, and no projection is confirmed (complete looks twice).
UnderEpoch ==
    [][/\ \A w \in Workers :
             (work'[w] # Idle /\ work'[w].phase = "calling" /\ work[w].phase # "calling")
                 => run.status = "live" /\ work[w].epoch = run.epoch
       /\ \A m \in confirmed' \ confirmed :
             /\ run.status = "live"
             /\ \E w \in Workers : work[w] # Idle /\ work[w].m = m /\ work[w].epoch = run.epoch]_rvars

\* A rollback completes only when every projection of the run is gone,
\* whatever workers did between the verify step and the last transaction;
\* what a late write put back after an earlier look, this rollback has removed
\* again (rollback.py, run), so the exception is one that has landed since it
\* began.  Only this makes the run stopped; and on the way the rollback
\* forgets no memory that its owner has changed.
StoppedMeansAbsent ==
    [][/\ rb.status # "completed" /\ rb'.status = "completed" =>
             /\ \A m \in items : stray[m] = "new"
             /\ \A m \in Committed : /\ head[m] = "deleted" /\ m \in removed
                                     /\ op[m].state = "compensated"
       /\ run.status # "stopped" /\ run'.status = "stopped" =>
             rb.status # "completed" /\ rb'.status = "completed"
       /\ \A m \in Memories : head[m] = "changed" => head'[m] = "changed"]_rvars

\* The outbox and the operations tell one story: what a row ended as, its
\* operation ended as, unless it is being compensated right now, although
\* workers, a stale worker and the runner write them by different keys.
RowTellsOperation ==
    \A m \in Memories : row[m].status \in Finished =>
        op[m].state \in {row[m].status, "compensating"}

\* Row and operation of a memory are of one attempt, a claim on an outbox row is
\* a claim on the operation, and before the stop nothing is compensated and no
\* later attempt has returned (register, claim_next).
RowInOrder(m) ==
    /\ op[m].token = row[m].attempts
    /\ op[m].state = "absent" => op[m] = NoOp
    /\ row[m].lease = "live" => op[m].live
    /\ head[m] = "none" =>
          /\ row[m].status \notin {"pending", "retry", "unknown", "running"}
          /\ m \notin items /\ \A n \in 1..MaxAttempts : <<m, n>> \notin late
    /\ stray[m] # "no" => m \in items
    /\ op[m].state = "compensated" => m \in removed
    /\ run.status = "live" =>
          /\ op[m].state \notin Compensated /\ op[m].comp = NoProc
          /\ \A n \in 1..MaxAttempts : n > row[m].attempts => ~att[m][n].finished

\* A request under way keeps others from the projection: the barrier of
\* compensate sees its attempt for as long as its lease lasts, and no later
\* attempt has begun.
CallHolds(w) ==
    LET m == work[w].m
        n == work[w].n IN
    /\ n = row[m].attempts
    /\ row[m].status \notin {"pending", "retry", "unknown"}
    /\ row[m].status = "running" => row[m].lease = "live"
    /\ op[m].comp = NoProc /\ op[m].state # "compensated"
    /\ att[m][n].started /\ ~att[m][n].finished

\* Workers began under the first epoch, each with an attempt of its own; one
\* that compensates, or is refused, does so after the stop.
ClaimInOrder(w) ==
    LET m == work[w].m IN
    /\ work[w].epoch = 1 /\ work[w].n <= row[m].attempts /\ head[m] # "none"
    /\ work[w].phase = "finishing" => work[w].verdict # "none"
    /\ work[w].phase \in {"compensate", "refused"} => run.status # "live"
    /\ work[w].phase \in {"claimed", "checked"} /\ run.status = "live" =>
          ~att[m][work[w].n].finished
    /\ work[w].phase = "calling" /\ InLease(work[w]) => CallHolds(w)

ClaimsApart ==
    \A v, w \in Workers :
        work[v] # Idle /\ work[w] # Idle /\ work[v].m = work[w].m /\ work[v].n = work[w].n
            => v = w

\* A process that removed a projection and still has the compensation lease finds
\* it removed when it records that.
CompensationHolds(p) ==
    /\ run.status # "live"
    /\ comp[p].status = "compensated" /\ op[comp[p].m].comp = p =>
          (comp[p].m \in items => stray[comp[p].m] # "no")

\* The epoch is raised by the stop and by the first runner; a rollback is of a
\* run that was stopped.
EpochsInOrder ==
    /\ run.status = "live" => run.epoch = 1 /\ rb.status = "none"
    /\ rb.status = "none" => run.epoch <= 2 /\ \A r \in Runners : desk[r].phase = "idle"

\* The runner that has the lease has looked for the projections of the memories
\* its locator step is done with, and is compensating the one it is at.
Cleaned(d) ==
    IF d.step = Verify \/ d.phase = "ending" THEN Memories
    ELSE IF d.step = Locator /\ d.phase \in {"apply", "registered", "compensating"}
    THEN Memories \ (d.todo \cup d.at)
    ELSE IF d.step = Locator /\ d.phase = "settle" /\ d.result = "done" THEN Memories
    ELSE {}

RunnerInOrder(r) ==
    LET d == desk[r] IN
    /\ d.phase \in {"begin", "apply"} => d.at = {}
    /\ d.phase = "registered" => \A k, l \in d.at : k = l
    /\ d.phase = "compensating" => d.at = {comp[r].m}
    /\ comp[r] # NoCompensation => d.phase = "compensating"
    /\ Holds(r) =>
          /\ rb.status = "completed" => d.phase \in {"idle", "releasing"}
          /\ comp[r].status = "compensated" => stray[comp[r].m] # "old"
          /\ d.through = Verify => \A m \in Cleaned(d) : stray[m] # "old"

\* What compensation rests on.
InOrder ==
    /\ \A m \in Memories : RowInOrder(m)
    /\ \A w \in Workers : work[w] # Idle => ClaimInOrder(w)
    /\ \A p \in Procs : comp[p] # NoCompensation => CompensationHolds(p)
    /\ \A r \in Runners : RunnerInOrder(r)
    /\ ClaimsApart /\ EpochsInOrder

\* Types, compensation, the agreement of rows and operations, and what they rest
\* on.
RollbackInv == RollbackTypeOK /\ CompensatedMeansAbsent /\ RowTellsOperation /\ InOrder

\* "A stopped run has nothing unfinished": violated by a worker that marks
\* its row after the rollback compensated it.
StoppedRowsSettled ==
    run.status = "stopped" => \A m \in Committed : row[m].status = "compensated"

\* What keeps a rollback from ending: a memory changed by its owner, or a
\* body erased after a call whose result was unknown.
Stuck ==
    \E m \in Memories : head[m] = "changed" \/ (op[m].digest = "erased" /\ m \in items)

\* A rollback that is asked for again and again ends with the run stopped,
\* unless something keeps it from ending.
RollbackEnds == [](run.status = "stopping" => <>(run.status = "stopped" \/ Stuck))

Fairness ==
    /\ \A w \in Workers : WF_rvars(WorkerStep(w) /\ UNCHANGED kept)
    /\ \A r \in Runners : WF_rvars(RunnerStep(r)) /\ SF_rvars(RunStart(r, Verify))
    /\ \A m \in Memories : /\ WF_rvars(LapseClaim(m) /\ UNCHANGED kept)
                           /\ WF_rvars(LapseBarrier(m) /\ UNCHANGED kept)
                           /\ WF_rvars(LapseCompensation(m) /\ UNCHANGED kept)
    /\ WF_rvars(LapseRunner)

RollbackFairSpec == RollbackSpec /\ Fairness
=============================================================================
