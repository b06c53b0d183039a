---------------------------- MODULE Compensation ----------------------------
(***************************************************************************)
(* Projections of a guarded rollout (projection/protocol.py and the        *)
(* rollout branches of projection/worker.py).  A stop raises the control   *)
(* epoch at any moment.  A worker whose call was under way under the old   *)
(* epoch must not confirm what it wrote: it records the result and removes *)
(* it again, under a compensation lease of its own, because the rollback   *)
(* runner (module Rollback) may be removing the same projection.           *)
(*                                                                         *)
(* One action is one transaction, one backend request, or one read that is *)
(* acted on later.  Every memory is created by a reviewed commit of the    *)
(* rollout and has one outbox row for upsert and at most one for delete.   *)
(***************************************************************************)
EXTENDS Naturals, FiniteSets

CONSTANTS
    Memories,     \* memories created by the rollout
    Workers,      \* callers of drain_once
    Runners,      \* callers of RollbackRunner.run
    NoProc,       \* no compensation lease, no rollback lease
    MaxAttempts,  \* max_attempts of drain_once
    MaxFaults,    \* bound: crashes, failed requests, lapsed live leases
    UsersAct      \* memories may be changed or forgotten by their owner

ASSUME CompensationAssumption ==
    /\ MaxAttempts \in Nat \ {0}
    /\ MaxFaults \in Nat
    /\ UsersAct \in BOOLEAN
    /\ Workers \cap Runners = {}
    /\ NoProc \notin Workers \cup Runners

Procs == Workers \cup Runners

Finished    == {"confirmed", "obsolete", "blocked", "compensated", "cleanup_required"}
RowStatuses == {"absent", "pending", "retry", "unknown", "running"} \cup Finished
OpStates    == RowStatuses \cup {"registered", "claimed", "calling", "compensating"}

\* An upsert row; attempts stands for its lease token, as in Projection.
Row == [status : RowStatuses, attempts : 0..MaxAttempts,
        lease : {"none", "live", "expired"}]

\* A projection_attempts row: epoch, call_started_at and call_finished_at.
Attempt == [epoch : 0..3, started : BOOLEAN, finished : BOOLEAN]

(***************************************************************************)
(* A projection_operations row: token and live are claim_token and whether *)
(* claim_until lies ahead, digest says from which body payload_digest was  *)
(* computed, comp and compLive are the compensation lease.                 *)
(***************************************************************************)
Op == [state : OpStates, token : 0..MaxAttempts, live : BOOLEAN,
       epoch : 0..3, locator : BOOLEAN,
       digest : {"none", "body", "erased"},
       comp : Procs \cup {NoProc}, compLive : BOOLEAN]

NoRow     == [status |-> "absent", attempts |-> 0, lease |-> "none"]
NoAttempt == [epoch |-> 0, started |-> FALSE, finished |-> FALSE]
NoOp      == [state |-> "absent", token |-> 0, live |-> FALSE, epoch |-> 0,
              locator |-> FALSE, digest |-> "none",
              comp |-> NoProc, compLive |-> FALSE]

Phases == {"claimed", "checked", "calling", "verifying", "returned", "recorded",
           "compensate", "refused", "inspecting", "settling", "finishing"}

\* A worker inside drain_once.
Claim == [phase : Phases, m : Memories, n : 1..MaxAttempts, epoch : 0..3,
          source : {"pending", "retry", "unknown"}, seen : BOOLEAN,
          verdict : {"none", "unknown", "retry", "obsolete", "blocked"}]

Idle == [phase |-> "idle"]

\* A process between the two transactions of compensate.
Compensating == [m : Memories, digest : {"none", "body", "erased"}, locator : BOOLEAN,
                 status : {"none", "compensated", "cleanup_required"}]

NoCompensation == [status |-> "idle"]

VARIABLES
    run,       \* rollout_runs: status and control_epoch
    overdue,   \* whether the deadline has passed
    head,      \* the memories: none, active, changed or deleted
    row,       \* outbox rows for upsert
    del,       \* status of the outbox rows for delete
    att,       \* projection_attempts by attempt number
    op,        \* projection_operations
    confirmed, \* memories with a projection_receipt
    removed,   \* rollout_compensation_receipts with status compensated
    items,     \* projections stored in the backend
    late,      \* writes given up by their callers, by attempt, still on their way
    stray,     \* history: projections that landed behind a compensation
    work,      \* what each worker is doing
    comp,      \* compensations under way
    rb,        \* the rollback_runs row
    faults     \* faults so far

vars == <<run, overdue, head, row, del, att, op, confirmed, removed, items,
          late, stray, work, comp, rb, faults>>

TypeOK ==
    /\ run \in [status : {"live", "stopping", "stopped"}, epoch : 1..3]
    /\ overdue \in BOOLEAN
    /\ head \in [Memories -> {"none", "active", "changed", "deleted"}]
    /\ row \in [Memories -> Row]
    /\ del \in [Memories -> {"absent", "pending", "compensated"}]
    /\ att \in [Memories -> [1..MaxAttempts -> Attempt]]
    /\ op \in [Memories -> Op]
    /\ confirmed \subseteq Memories
    /\ removed \subseteq Memories
    /\ items \subseteq Memories
    /\ late \subseteq Memories \X (1..MaxAttempts)
    /\ stray \in [Memories -> {"no", "new", "old"}]
    /\ work \in [Workers -> Claim \cup {Idle}]
    /\ comp \in [Procs -> Compensating \cup {NoCompensation}]
    /\ rb \in [status : {"none", "running", "cleanup_required",
                         "phase_completed", "completed"},
               holder : Runners \cup {NoProc}, live : BOOLEAN]
    /\ faults \in 0..MaxFaults

Init ==
    /\ run = [status |-> "live", epoch |-> 1]
    /\ overdue = FALSE
    /\ head = [m \in Memories |-> "none"]
    /\ row = [m \in Memories |-> NoRow]
    /\ del = [m \in Memories |-> "absent"]
    /\ att = [m \in Memories |-> [n \in 1..MaxAttempts |-> NoAttempt]]
    /\ op = [m \in Memories |-> NoOp]
    /\ confirmed = {}
    /\ removed = {}
    /\ items = {}
    /\ late = {}
    /\ stray = [m \in Memories |-> "no"]
    /\ work = [w \in Workers |-> Idle]
    /\ comp = [p \in Procs |-> NoCompensation]
    /\ rb = [status |-> "none", holder |-> NoProc, live |-> FALSE]
    /\ faults = 0

Fault == faults < MaxFaults /\ faults' = faults + 1

(***************************************************************************)
(* Reviewed commits, users, and the end of the rollout.                    *)
(***************************************************************************)
\* review_batch approves a batch with a new memory.
ReviewedCommit(m) ==
    /\ run.status = "live" /\ ~overdue
    /\ head[m] = "none"
    /\ head' = [head EXCEPT ![m] = "active"]
    /\ row' = [row EXCEPT ![m].status = "pending"]
    /\ UNCHANGED <<run, overdue, del, att, op, confirmed, removed, items,
                   late, stray, work, comp, rb, faults>>

\* The owner commits a later revision; rollback must then leave it alone.
UserChanges(m) ==
    /\ UsersAct
    /\ head[m] = "active"
    /\ head' = [head EXCEPT ![m] = "changed"]
    /\ UNCHANGED <<run, overdue, row, del, att, op, confirmed, removed, items,
                   late, stray, work, comp, rb, faults>>

\* forget: the delete row is queued unless there is one.
Queued(d) == IF d = "absent" THEN "pending" ELSE d

UserForgets(m) ==
    /\ UsersAct
    /\ head[m] = "active"
    /\ head' = [head EXCEPT ![m] = "deleted"]
    /\ del' = [del EXCEPT ![m] = Queued(@)]
    /\ UNCHANGED <<run, overdue, row, att, op, confirmed, removed, items,
                   late, stray, work, comp, rb, faults>>

DeadlinePasses ==
    /\ ~overdue
    /\ overdue' = TRUE
    /\ UNCHANGED <<run, head, row, del, att, op, confirmed, removed, items,
                   late, stray, work, comp, rb, faults>>

StoppedRun == [status |-> "stopping", epoch |-> run.epoch + 1]

\* stop, freeze_window, the first transaction of rollback, and _run when it
\* observes the stop file, mode off or the deadline.
Stop ==
    /\ run.status = "live"
    /\ run' = StoppedRun
    /\ UNCHANGED <<overdue, head, row, del, att, op, confirmed, removed, items,
                   late, stray, work, comp, rb, faults>>

(***************************************************************************)
(* Workers: drain_once for a row of the rollout.                           *)
(***************************************************************************)
Authorized(c) == run.status = "live" /\ run.epoch = c.epoch

Owns(c) == /\ row[c.m].status = "running"
           /\ row[c.m].attempts = c.n
           /\ row[c.m].lease = "live"

Move(w, c) == work' = [work EXCEPT ![w] = c]
Leave(w)   == Move(w, Idle)

\* What the sweep at the start of claim_next makes of a row.
Swept(m) ==
    IF row[m].status = "running" /\ row[m].lease = "expired"
    THEN [row[m] EXCEPT !.status = IF att[m][row[m].attempts].started
                                   THEN "unknown" ELSE "retry",
                        !.lease = "none"]
    ELSE row[m]

Compensated == {"compensating", "compensated", "cleanup_required"}

\* claim_next with its sweep, and register with a claim token.  The payload
\* digest is computed from what the ledger holds now.
ClaimNext(w, m) ==
    /\ work[w] = Idle
    /\ run.status = "live" /\ ~overdue
    /\ Swept(m).status \in {"pending", "retry", "unknown"}
    /\ row[m].attempts < MaxAttempts
    /\ op[m].state \notin Compensated
    /\ LET n == row[m].attempts + 1 IN
       /\ row' = [k \in Memories |->
             IF k = m THEN [status |-> "running", attempts |-> n, lease |-> "live"]
             ELSE Swept(k)]
       /\ att' = [att EXCEPT ![m][n].epoch = run.epoch]
       /\ op' = [op EXCEPT ![m].state = "claimed", ![m].token = n,
                           ![m].live = TRUE, ![m].epoch = run.epoch,
                           ![m].digest = IF head[m] = "deleted" THEN "erased" ELSE "body"]
       /\ Move(w, [phase |-> "claimed", m |-> m, n |-> n, epoch |-> run.epoch,
                   source |-> Swept(m).status, seen |-> FALSE, verdict |-> "none"])
    /\ UNCHANGED <<run, overdue, head, del, confirmed, removed, items, late, stray,
                   comp, rb, faults>>

\* A caller without rollout_id sweeps, and then finds nothing it may claim.
SweepOnly ==
    /\ run.status # "live" \/ overdue
    /\ \E m \in Memories : Swept(m) # row[m]
    /\ row' = [m \in Memories |-> Swept(m)]
    /\ UNCHANGED <<run, overdue, head, del, att, op, confirmed, removed, items,
                   late, stray, work, comp, rb, faults>>

Conclude(w, c, v) == Move(w, [c EXCEPT !.phase = "finishing", !.verdict = v])

\* drain_once reads the head before it calls the backend.
CheckHead(w) ==
    LET c == work[w] IN
    /\ c.phase = "claimed" /\ c.source # "unknown"
    /\ IF head[c.m] = "active"
       THEN Move(w, [c EXCEPT !.phase = "checked"])
       ELSE Conclude(w, c, "obsolete")
    /\ UNCHANGED <<run, overdue, head, row, del, att, op, confirmed, removed,
                   items, late, stray, comp, rb, faults>>

\* The first transaction of call_backend.  When it is fenced the exception
\* leaves drain_once, and the row stays leased.
StartCall(w) ==
    LET c == work[w] IN
    /\ c.phase = "checked"
    /\ IF Authorized(c) /\ ~overdue /\ Owns(c)
       THEN /\ att' = [att EXCEPT ![c.m][c.n].started = TRUE]
            /\ op' = [op EXCEPT ![c.m].state = IF op[c.m].token = c.n THEN "calling" ELSE @]
            /\ Move(w, [c EXCEPT !.phase = "calling"])
       ELSE Leave(w) /\ UNCHANGED <<att, op>>
    /\ UNCHANGED <<run, overdue, head, row, del, confirmed, removed, items,
                   late, stray, comp, rb, faults>>

\* _mark_call_started, before an unknown row is verified.
StartVerify(w) ==
    LET c == work[w] IN
    /\ c.phase = "claimed" /\ c.source = "unknown"
    /\ IF Authorized(c) /\ ~overdue /\ Owns(c)
       THEN /\ att' = [att EXCEPT ![c.m][c.n].started = TRUE]
            /\ Move(w, [c EXCEPT !.phase = "verifying"])
       ELSE Leave(w) /\ UNCHANGED att
    /\ UNCHANGED <<run, overdue, head, row, del, op, confirmed, removed, items,
                   late, stray, comp, rb, faults>>

LastAttempt(c) == c.n = MaxAttempts

\* FencedBackend of the scheduler: materialize is refused when the run is no
\* longer live, and observing the deadline stops the run.
FencedCall(w) ==
    LET c == work[w] IN
    /\ c.phase = "calling"
    /\ run.status # "live" \/ overdue
    /\ run' = IF run.status = "live" THEN StoppedRun ELSE run
    /\ Conclude(w, c, IF LastAttempt(c) THEN "blocked" ELSE "retry")
    /\ UNCHANGED <<overdue, head, row, del, att, op, confirmed, removed, items,
                   late, stray, comp, rb, faults>>

\* claim_until lies ahead, and the claim is the operation's current one.
InLease(c) == op[c.m].live /\ op[c.m].token = c.n

\* Nobody has removed the projection, or is removing it.
Unremoved(m) == op[m].state # "compensated" /\ op[m].comp = NoProc

\* A projection is stray when a write put it where a compensation had cleaned,
\* or was cleaning.  A call within its lease has no such excuse.
Written(m, excused) ==
    /\ items' = items \cup {m}
    /\ stray' = IF excused /\ ~Unremoved(m) /\ m \notin items
                THEN [stray EXCEPT ![m] = "new"] ELSE stray

\* The request.  FencedBackend looked at the run before it, so the run may
\* have been stopped since.
Materialize(w) ==
    LET c == work[w] IN
    /\ c.phase = "calling"
    /\ Written(c.m, ~InLease(c))
    /\ Move(w, [c EXCEPT !.phase = "returned"])
    /\ UNCHANGED <<run, overdue, head, row, del, att, op, confirmed, removed,
                   late, comp, rb, faults>>

\* A request whose answer is lost took effect, did not, or still may.
Unanswered(c) ==
    \/ UNCHANGED <<items, late, stray>>
    \/ Written(c.m, ~InLease(c)) /\ UNCHANGED late
    \/ late' = late \cup {<<c.m, c.n>>} /\ UNCHANGED <<items, stray>>

\* The request fails: definitely without an effect, or with an unknown one.
CallFails(w) ==
    LET c == work[w] IN
    /\ c.phase = "calling"
    /\ Fault
    /\ \/ /\ Conclude(w, c, IF LastAttempt(c) THEN "blocked" ELSE "retry")
          /\ UNCHANGED <<items, late, stray>>
       \/ /\ \/ Conclude(w, c, "unknown")
             \/ LastAttempt(c) /\ Conclude(w, c, "blocked")
          /\ Unanswered(c)
    /\ UNCHANGED <<run, overdue, head, row, del, att, op, confirmed, removed,
                   comp, rb>>

\* locate_projection for an unknown row.
Locate(w) ==
    LET c == work[w] IN
    /\ c.phase = "verifying"
    /\ IF c.m \in items
       THEN Move(w, [c EXCEPT !.phase = "returned"])
       ELSE Conclude(w, c, IF LastAttempt(c) THEN "blocked" ELSE "retry")
    /\ UNCHANGED <<run, overdue, head, row, del, att, op, confirmed, removed,
                   items, late, stray, comp, rb, faults>>

\* locate_projection or inspect_projection fails, without an answer or with a
\* rejection.
LookupFails(w) ==
    LET c == work[w] IN
    /\ c.phase \in {"verifying", "inspecting"}
    /\ Fault
    /\ \/ Conclude(w, c, IF LastAttempt(c) THEN "blocked" ELSE "unknown")
       \/ Conclude(w, c, "blocked")
    /\ UNCHANGED <<run, overdue, head, row, del, att, op, confirmed, removed,
                   items, late, stray, comp, rb>>

\* record_return: the result is recorded even when the lease is lost.
Record(w) ==
    LET c == work[w] IN
    /\ c.phase = "returned"
    /\ att' = [att EXCEPT ![c.m][c.n].finished = TRUE]
    /\ op' = [op EXCEPT ![c.m].locator = TRUE]
    /\ Move(w, [c EXCEPT !.phase = "recorded"])
    /\ UNCHANGED <<run, overdue, head, row, del, confirmed, removed, items,
                   late, stray, comp, rb, faults>>

\* complete reads the run; an overdue run is stopped first.
CheckRun(w) ==
    LET c == work[w] IN
    /\ c.phase = "recorded"
    /\ run' = IF run.status = "live" /\ overdue THEN StoppedRun ELSE run
    /\ IF ~Authorized(c) \/ overdue
       THEN Move(w, [c EXCEPT !.phase = "compensate"])
       ELSE IF Owns(c) THEN Move(w, [c EXCEPT !.phase = "inspecting"]) ELSE Leave(w)
    /\ UNCHANGED <<overdue, head, row, del, att, op, confirmed, removed, items,
                   late, stray, comp, rb, faults>>

Inspect(w) ==
    LET c == work[w] IN
    /\ c.phase = "inspecting"
    /\ Move(w, [c EXCEPT !.phase = "settling", !.seen = c.m \in items])
    /\ UNCHANGED <<run, overdue, head, row, del, att, op, confirmed, removed,
                   items, late, stray, comp, rb, faults>>

\* Row and operation are marked by outbox_id alone, whatever they are by now.
MarkedForCleanup(m) ==
    /\ row' = [row EXCEPT ![m].status = "cleanup_required"]
    /\ op' = [op EXCEPT ![m].state = "cleanup_required"]

\* _finish_owned: the operation follows only while the claim is its current one.
FinishOwned(c, status) ==
    /\ row' = [row EXCEPT ![c.m].status = status, ![c.m].lease = "none"]
    /\ att' = [att EXCEPT ![c.m][c.n].finished = TRUE]
    /\ op' = [op EXCEPT ![c.m].state = IF op[c.m].token = c.n THEN status ELSE @]

\* What an owner's last transaction writes: an obsolete projection also gets
\* a receipt, and its deletion is queued again.
SettleOwned(c) ==
    LET status == IF head[c.m] = "active" THEN "confirmed" ELSE "obsolete" IN
    IF ~c.seen THEN FinishOwned(c, "blocked") /\ UNCHANGED <<confirmed, del>>
    ELSE /\ row' = [row EXCEPT ![c.m].status = status, ![c.m].lease = "none"]
         /\ att' = [att EXCEPT ![c.m][c.n].finished = TRUE]
         /\ op' = [op EXCEPT ![c.m].state = status, ![c.m].locator = TRUE]
         /\ confirmed' = confirmed \cup {c.m}
         /\ del' = IF status = "obsolete" THEN [del EXCEPT ![c.m] = "pending"] ELSE del

\* The last transaction of complete without its second look at the run.
SettleSlip(w) ==
    LET c == work[w] IN
    /\ c.phase = "settling"
    /\ IF Owns(c) THEN SettleOwned(c) ELSE UNCHANGED <<row, att, op, confirmed, del>>
    /\ Leave(w)
    /\ UNCHANGED <<run, overdue, head, removed, items, late, stray, comp, rb, faults>>

\* The last transaction of complete.
Settle(w) ==
    LET c == work[w] IN
    /\ c.phase = "settling"
    /\ IF ~Authorized(c) THEN MarkedForCleanup(c.m) /\ UNCHANGED <<att, confirmed, del>>
       ELSE IF Owns(c) THEN SettleOwned(c) ELSE UNCHANGED <<row, att, op, confirmed, del>>
    /\ Leave(w)
    /\ UNCHANGED <<run, overdue, head, removed, items, late, stray, comp, rb, faults>>

FinishWithoutLocator(w) ==
    LET c == work[w] IN
    /\ c.phase = "finishing"
    /\ IF Owns(c) THEN FinishOwned(c, c.verdict) ELSE UNCHANGED <<row, att, op>>
    /\ Leave(w)
    /\ UNCHANGED <<run, overdue, head, del, confirmed, removed, items, late, stray,
                   comp, rb, faults>>

(***************************************************************************)
(* compensate: two transactions around the requests to the backend.        *)
(***************************************************************************)
\* A worker must show that its own call started under an epoch now stopped,
\* and may not undo what is confirmed.
WorkerMayCompensate(m) ==
    LET n == op[m].token IN
    /\ n # 0 /\ att[m][n].started /\ att[m][n].epoch = op[m].epoch
    /\ run.epoch > op[m].epoch
    /\ m \notin confirmed

\* The barrier of compensate reduced to the compensation lease.
CompBusySlip(m) == op[m].comp # NoProc /\ op[m].compLive

\* Another compensation holds its lease, or a call under way still has its own.
CompBusy(m) ==
    \/ op[m].comp # NoProc /\ op[m].compLive
    \/ op[m].live /\ \E n \in 1..MaxAttempts : att[m][n].started /\ ~att[m][n].finished

CompStart(p, m) ==
    /\ op' = [op EXCEPT ![m].state = "compensating", ![m].comp = p, ![m].compLive = TRUE]
    /\ comp' = [comp EXCEPT ![p] = [m |-> m, digest |-> op[m].digest,
                                    locator |-> op[m].locator, status |-> "none"]]

\* complete calls compensate: the first transaction.
WorkerCompensates(w) ==
    LET c == work[w] IN
    /\ c.phase = "compensate" /\ comp[w] = NoCompensation
    /\ IF ~WorkerMayCompensate(c.m)
       THEN Move(w, [c EXCEPT !.phase = "refused"]) /\ UNCHANGED <<op, comp>>
       ELSE IF CompBusy(c.m) THEN Leave(w) /\ UNCHANGED <<op, comp>>
       ELSE CompStart(w, c.m) /\ UNCHANGED work
    /\ UNCHANGED <<run, overdue, head, row, del, att, confirmed, removed, items,
                   late, stray, rb, faults>>

\* complete after compensate refused: another transaction.
MarkCleanup(w) ==
    /\ work[w].phase = "refused"
    /\ MarkedForCleanup(work[w].m)
    /\ Leave(w)
    /\ UNCHANGED <<run, overdue, head, del, att, confirmed, removed, items,
                   late, stray, comp, rb, faults>>

Erased(m) == items' = items \ {m} /\ stray' = [stray EXCEPT ![m] = "no"]

\* Locate, compare, remove and look again.  A body erased since it was
\* written no longer has the digest of the operation.
CompRemote(p) ==
    LET k == comp[p] IN
    /\ k.status = "none"
    /\ IF k.m \in items /\ k.digest = "erased"
       THEN /\ comp' = [comp EXCEPT ![p].status = "cleanup_required"]
            /\ UNCHANGED <<items, stray>>
       ELSE /\ comp' = [comp EXCEPT ![p].status = "compensated",
                                    ![p].locator = @ \/ k.m \in items]
            /\ Erased(k.m)
    /\ UNCHANGED <<run, overdue, head, row, del, att, op, confirmed, removed,
                   late, work, rb, faults>>

\* A request fails, before or after the removal took effect; a write that
\* arrives between the requests has the same outcome.
CompFails(p) ==
    /\ comp[p].status = "none"
    /\ Fault
    /\ comp' = [comp EXCEPT ![p].status = "cleanup_required"]
    /\ Erased(comp[p].m) \/ UNCHANGED <<items, stray>>
    /\ UNCHANGED <<run, overdue, head, row, del, att, op, confirmed, removed,
                   late, work, rb>>

\* The last transaction of compensate; nothing is done when the token is gone.
CompRecorded(p) ==
    LET k == comp[p] IN
    /\ k.status \in {"compensated", "cleanup_required"}
    /\ IF op[k.m].comp # p THEN UNCHANGED <<op, row, att, removed, rb, run>>
       ELSE /\ op' = [op EXCEPT ![k.m].state = k.status, ![k.m].locator = k.locator,
                                ![k.m].comp = NoProc, ![k.m].compLive = FALSE]
            /\ row' = [row EXCEPT ![k.m].status = k.status, ![k.m].lease = "none"]
            /\ IF k.status = "compensated"
               THEN /\ att' = [att EXCEPT ![k.m] =
                          [n \in 1..MaxAttempts |-> [@[n] EXCEPT !.finished = TRUE]]]
                    /\ removed' = removed \cup {k.m}
                    /\ UNCHANGED <<rb, run>>
               ELSE /\ rb' = [rb EXCEPT !.status = IF @ = "none" THEN @ ELSE "cleanup_required"]
                    /\ run' = [run EXCEPT !.status = "stopping"]
                    /\ UNCHANGED <<att, removed>>
    /\ comp' = [comp EXCEPT ![p] = NoCompensation]

WorkerRecords(w) ==
    /\ CompRecorded(w)
    /\ Leave(w)
    /\ UNCHANGED <<overdue, head, del, confirmed, items, late, stray, faults>>

(***************************************************************************)
(* Time and crashes.                                                       *)
(***************************************************************************)
Holder(m) == {w \in Workers : work[w] # Idle /\ work[w].m = m /\ work[w].n = row[m].attempts}

\* The lease of a row and claim_until have the same end.  A worker that
\* outlives it was paused, which counts as a fault.
LapseClaim(m) ==
    /\ row[m].lease = "live"
    /\ IF Holder(m) = {} THEN UNCHANGED faults ELSE Fault
    /\ row' = [row EXCEPT ![m].lease = "expired"]
    /\ op' = [op EXCEPT ![m].live = FALSE]
    /\ UNCHANGED <<run, overdue, head, del, att, confirmed, removed, items,
                   late, stray, work, comp, rb>>

\* claim_until of a row that is no longer leased passes.
LapseBarrier(m) ==
    /\ op[m].live /\ row[m].lease # "live"
    /\ IF \E w \in Workers : work[w] # Idle /\ work[w].m = m /\ work[w].phase = "calling"
       THEN Fault ELSE UNCHANGED faults
    /\ op' = [op EXCEPT ![m].live = FALSE]
    /\ UNCHANGED <<run, overdue, head, row, del, att, confirmed, removed, items,
                   late, stray, work, comp, rb>>

LapseCompensation(m) ==
    /\ op[m].compLive
    /\ IF comp[op[m].comp] # NoCompensation /\ comp[op[m].comp].m = m
       THEN Fault ELSE UNCHANGED faults
    /\ op' = [op EXCEPT ![m].compLive = FALSE]
    /\ UNCHANGED <<run, overdue, head, row, del, att, confirmed, removed, items,
                   late, stray, work, comp, rb>>

\* A request under way at the crash may still take effect.
Crash(w) ==
    /\ work[w] # Idle
    /\ Fault
    /\ IF work[w].phase = "calling" THEN Unanswered(work[w])
       ELSE UNCHANGED <<items, late, stray>>
    /\ comp' = [comp EXCEPT ![w] = NoCompensation]
    /\ Leave(w)
    /\ UNCHANGED <<run, overdue, head, row, del, att, op, confirmed, removed, rb>>

\* The write of a caller that has given it up lands after all.
LateWriteLands(m) ==
    /\ \E n \in 1..MaxAttempts : <<m, n>> \in late /\ late' = late \ {<<m, n>>}
    /\ Written(m, TRUE)
    /\ UNCHANGED <<run, overdue, head, row, del, att, op, confirmed, removed,
                   work, comp, rb, faults>>

WorkerStep(w) ==
    \/ \E m \in Memories : ClaimNext(w, m)
    \/ CheckHead(w) \/ StartCall(w) \/ StartVerify(w)
    \/ FencedCall(w) \/ Materialize(w) \/ Locate(w)
    \/ Record(w) \/ CheckRun(w) \/ Inspect(w) \/ Settle(w) \/ FinishWithoutLocator(w)
    \/ WorkerCompensates(w) \/ MarkCleanup(w)
    \/ CompRemote(w) \/ WorkerRecords(w)

WorkerNext ==
    \/ \E m \in Memories : ReviewedCommit(m) \/ UserChanges(m) \/ UserForgets(m)
    \/ DeadlinePasses \/ Stop \/ SweepOnly
    \/ \E w \in Workers : WorkerStep(w) \/ CallFails(w) \/ LookupFails(w) \/ Crash(w)
    \/ \E p \in Procs : CompFails(p)
    \/ \E m \in Memories : LapseClaim(m) \/ LapseBarrier(m) \/ LapseCompensation(m)
                           \/ LateWriteLands(m)
=============================================================================
