------------------------------- MODULE Control -------------------------------
(***************************************************************************)
(* The control plane of guarded rollouts (rollout.py): signing keys and    *)
(* their rotation, grants registered ahead of a rotation, action receipts  *)
(* that make requests replayable, and the life of a run.                   *)
(*                                                                         *)
(* Every process (daemon, operator command, watchdog) reads the            *)
(* configuration once, when it starts; the file may be edited while older  *)
(* processes keep running.  A controlled action is one transaction, except *)
(* rollback, which commits its authorization, works, and saves the result. *)
(* Tokens and digests are abstract: a request carries a key, a receipt and *)
(* a digest.                                                               *)
(***************************************************************************)
EXTENDS Naturals, FiniteSets

CONSTANTS
    Procs,      \* processes with a RolloutRuntime
    Keys,       \* key identifiers, each with one token and approver
    NoKey,      \* no previous key
    Receipts,   \* approval receipts chosen by the operator
    NoReceipt,
    Digests,    \* digests of signed requests
    MaxRuns,    \* bound on activations
    MaxEdits    \* bound on edits of the configuration file

ASSUME ControlAssumption ==
    /\ NoKey \notin Keys /\ NoReceipt \notin Receipts
    /\ MaxRuns \in Nat \ {0} /\ MaxEdits \in Nat

Live       == {"running", "draining"}
Unfinished == Live \cup {"stopping"}
Final      == {"completed", "ended"}   \* results of a rollback that are returned as they are

Config  == [key : Keys, prev : Keys \cup {NoKey}]
Stopped == [key |-> NoKey, prev |-> NoKey]   \* a process that is not running

Run == [status : Unfinished \cup {"none", "stopped"}, epoch : Nat,
        receipt : Receipts \cup {NoReceipt}, key : Keys \cup {NoKey}, overdue : BOOLEAN]

NoRun == [status |-> "none", epoch |-> 0, receipt |-> NoReceipt, key |-> NoKey,
          overdue |-> FALSE]

\* A row of rollout_action_receipts.  The result "authorized" is also that of
\* a rollback in progress: both are resumed by the same request.  "ended" is
\* frozen, a completed phase, or cleanup_required.
Action == [action : {"activation", "grant", "rollback"}, digest : Digests,
           run : 0..MaxRuns, result : {"done", "authorized"} \cup Final]

NoAction == [action |-> "none", result |-> "none"]

\* A row of rollout_approval_grants.
Grant == [digest : Digests, key : Keys, consumed : BOOLEAN, expired : BOOLEAN]

NoGrant == [key |-> NoKey, consumed |-> FALSE]

VARIABLES
    conf,     \* the configuration file
    edits,    \* edits so far
    cfg,      \* the configuration each process started with
    keys,     \* rollout_control_keys
    grants,   \* rollout_approval_grants by receipt
    receipts, \* rollout_action_receipts
    runs,     \* rollout_runs in order of creation
    began,    \* runs with a rollback_runs row
    job,      \* the rollback a process works on
    stop      \* whether the STOP file exists

cvars == <<conf, edits, cfg, keys, grants, receipts, runs, began, job, stop>>

NoJob == [phase |-> "idle"]

Jobs == [phase : {"running", "working", "saving"}, receipt : Receipts, run : 1..MaxRuns,
         result : {"authorized"} \cup Final]

ControlTypeOK ==
    /\ conf \in Config /\ edits \in 0..MaxEdits
    /\ cfg \in [Procs -> Config \cup {Stopped}]
    /\ keys \in [Keys -> {"none", "current", "retired"}]
    /\ grants \in [Receipts -> Grant \cup {NoGrant}]
    /\ receipts \in [Receipts -> Action \cup {NoAction}]
    /\ runs \in [1..MaxRuns -> Run]
    /\ began \subseteq 1..MaxRuns
    /\ job \in [Procs -> {NoJob} \cup Jobs]
    /\ stop \in BOOLEAN

ControlInit ==
    /\ conf \in [key : Keys, prev : {NoKey}]
    /\ edits = 0
    /\ cfg = [p \in Procs |-> Stopped]
    /\ keys = [k \in Keys |-> "none"]
    /\ grants = [r \in Receipts |-> NoGrant]
    /\ receipts = [r \in Receipts |-> NoAction]
    /\ runs = [n \in 1..MaxRuns |-> NoRun]
    /\ began = {}
    /\ job = [p \in Procs |-> NoJob]
    /\ stop = FALSE

(***************************************************************************)
(* Configuration and rotation.                                             *)
(***************************************************************************)
\* The operator edits the file, rightly or not.
EditConfig(c) ==
    /\ edits < MaxEdits
    /\ c.key # c.prev
    /\ conf' = c
    /\ edits' = edits + 1
    /\ UNCHANGED <<cfg, keys, grants, receipts, runs, began, job, stop>>

Current == {k \in Keys : keys[k] = "current"}

\* _sync_control_key: the configured key is the current one, or a new one
\* whose predecessor is.
SyncAllowed(c) ==
    \/ Current = {c.key}
    \/ keys[c.key] = "none" /\ Current \subseteq {c.prev}

\* A process starts: RolloutRuntime synchronises the key before anything
\* else, or the process does not start.
Start(p) ==
    /\ cfg[p] = Stopped
    /\ SyncAllowed(conf)
    /\ cfg' = [cfg EXCEPT ![p] = conf]
    /\ keys' = [k \in Keys |-> IF k = conf.key THEN "current"
                               ELSE IF keys[k] = "current" THEN "retired" ELSE keys[k]]
    /\ UNCHANGED <<conf, edits, grants, receipts, runs, began, job, stop>>

\* A process ends, also in the middle of a rollback.
Exit(p) ==
    /\ cfg[p] # Stopped
    /\ cfg' = [cfg EXCEPT ![p] = Stopped]
    /\ job' = [job EXCEPT ![p] = NoJob]
    /\ UNCHANGED <<conf, edits, keys, grants, receipts, runs, began, stop>>

(***************************************************************************)
(* _control_transaction.                                                   *)
(***************************************************************************)
\* ControlAuth.verify: the process's current key or, for an activation, its
\* previous one.
Verified(p, k, previousAllowed) ==
    \/ k = cfg[p].key
    \/ k = cfg[p].prev /\ previousAllowed

\* The key is verified and registered, and the process is not older than the
\* last rotation.
Authentic(p, k, previousAllowed) ==
    /\ cfg[p] # Stopped /\ job[p] = NoJob
    /\ k \in Keys /\ Verified(p, k, previousAllowed)
    /\ keys[k] # "none"
    /\ Current = {cfg[p].key}

\* A receipt without an action: a retired key needs a grant, and a grant must
\* fit the request and is used up.
Consumes(k, r, d) ==
    /\ keys[k] = "retired" => grants[r] # NoGrant
    /\ IF grants[r] = NoGrant THEN UNCHANGED grants
       ELSE /\ grants[r].digest = d /\ grants[r].key = k
            /\ ~grants[r].consumed /\ ~grants[r].expired
            /\ grants' = [grants EXCEPT ![r].consumed = TRUE]

\* register_grant: only with the current key, for a receipt never used.
RegisterGrant(p, k, r, d, target, td) ==
    /\ Authentic(p, k, FALSE) /\ receipts[r] = NoAction
    /\ grants[r] = NoGrant
    /\ target # r /\ receipts[target] = NoAction /\ grants[target] = NoGrant
    /\ grants' = [grants EXCEPT ![target] =
                     [digest |-> td, key |-> k, consumed |-> FALSE, expired |-> FALSE]]
    /\ receipts' = [receipts EXCEPT ![r] =
                     [action |-> "grant", digest |-> d, run |-> 0, result |-> "done"]]
    /\ UNCHANGED <<conf, edits, cfg, keys, runs, began, job, stop>>

GrantExpires(r) ==
    /\ grants[r] # NoGrant /\ ~grants[r].consumed /\ ~grants[r].expired
    /\ grants' = [grants EXCEPT ![r].expired = TRUE]
    /\ UNCHANGED <<conf, edits, cfg, keys, receipts, runs, began, job, stop>>

Created == {n \in 1..MaxRuns : runs[n].status # "none"}

NextRun == Cardinality(Created) + 1

MayActivate == \A n \in 1..MaxRuns : runs[n].status \notin Unfinished

\* The receipt of the action is not written.
ActivateSlip(p, k, r, d) ==
    /\ Authentic(p, k, TRUE) /\ receipts[r] = NoAction
    /\ Consumes(k, r, d)
    /\ ~stop /\ MayActivate
    /\ NextRun <= MaxRuns
    /\ runs' = [runs EXCEPT ![NextRun] =
                   [status |-> "running", epoch |-> 1, receipt |-> r, key |-> k,
                    overdue |-> FALSE]]
    /\ UNCHANGED <<conf, edits, cfg, keys, receipts, began, job, stop>>

\* activate; a replay of the same request changes nothing, and so is left out.
Activate(p, k, r, d) ==
    /\ Authentic(p, k, TRUE) /\ receipts[r] = NoAction
    /\ Consumes(k, r, d)
    /\ ~stop /\ MayActivate
    /\ NextRun <= MaxRuns
    /\ runs' = [runs EXCEPT ![NextRun] =
                   [status |-> "running", epoch |-> 1, receipt |-> r, key |-> k,
                    overdue |-> FALSE]]
    /\ receipts' = [receipts EXCEPT ![r] =
                   [action |-> "activation", digest |-> d, run |-> NextRun, result |-> "done"]]
    /\ UNCHANGED <<conf, edits, cfg, keys, began, job, stop>>

(***************************************************************************)
(* The end of a run.                                                       *)
(***************************************************************************)
DeadlinePasses(n) ==
    /\ runs[n].status \in Live /\ ~runs[n].overdue
    /\ runs' = [runs EXCEPT ![n].overdue = TRUE]
    /\ UNCHANGED <<conf, edits, cfg, keys, grants, receipts, began, job, stop>>

\* The STOP file is touched, or removed by hand or by the next window.
StopFile ==
    /\ stop' = ~stop
    /\ UNCHANGED <<conf, edits, cfg, keys, grants, receipts, runs, began, job>>

\* A new epoch, and nobody asks for the deadline any more.
Stopping(run) == [run EXCEPT !.status = "stopping", !.epoch = @ + 1, !.overdue = FALSE]

\* stop, which needs no key; and _run, which every request calls: it stops
\* a run whose deadline has passed or for which the STOP file exists.
StopRun(p, n) ==
    /\ cfg[p] # Stopped
    /\ runs[n].status \in Live
    /\ runs' = [runs EXCEPT ![n] = Stopping(@)]
    /\ UNCHANGED <<conf, edits, cfg, keys, grants, receipts, began, job, stop>>

\* rollback, first transaction: the authorization is committed, and the run
\* is stopped, before anything is undone; the phase freeze ends here.
Rollback(p, k, r, d, n, result) ==
    /\ Authentic(p, k, FALSE) /\ receipts[r] = NoAction
    /\ runs[n].status # "none"
    /\ Consumes(k, r, d)
    /\ runs' = [runs EXCEPT ![n] = IF @.status \in Live THEN Stopping(@) ELSE @]
    /\ receipts' = [receipts EXCEPT ![r] =
                       [action |-> "rollback", digest |-> d, run |-> n, result |-> result]]
    /\ job' = IF result = "ended" THEN job
              ELSE [job EXCEPT ![p] = [phase |-> "running", receipt |-> r, run |-> n,
                                       result |-> result]]
    /\ UNCHANGED <<conf, edits, cfg, keys, began, stop>>

\* The same request again: unless its result is final the work is resumed.
ResumeRollback(p, k, r, d) ==
    /\ Authentic(p, k, FALSE)
    /\ receipts[r].action = "rollback" /\ receipts[r].digest = d
    /\ receipts[r].result = "authorized"
    /\ job' = [job EXCEPT ![p] = [phase |-> "running", receipt |-> r,
                                  run |-> receipts[r].run, result |-> "authorized"]]
    /\ UNCHANGED <<conf, edits, cfg, keys, grants, receipts, runs, began, stop>>

\* RollbackRunner.run (module Rollback), first transaction: the first runner
\* of a run stops it under a new epoch, whatever its status was.
RunnerBegins(p) ==
    /\ job[p].phase = "running"
    /\ began' = began \cup {job[p].run}
    /\ runs' = IF job[p].run \in began THEN runs
               ELSE [runs EXCEPT ![job[p].run] = Stopping(@)]
    /\ job' = [job EXCEPT ![p].phase = "working"]
    /\ UNCHANGED <<conf, edits, cfg, keys, grants, receipts, stop>>

\* Another runner, at work or crashed, holds the lease.
RunnerRefused(p) ==
    /\ job[p].phase = "running" /\ job[p].run \in began
    /\ job' = [job EXCEPT ![p].phase = "saving"]
    /\ UNCHANGED <<conf, edits, cfg, keys, grants, receipts, runs, began, stop>>

\* The runner ends the run or a phase of it, gives up, or raises, which
\* leaves the receipt as it is.
RunnerReturns(p, result) ==
    LET j == job[p] IN
    /\ j.phase = "working"
    /\ runs' = IF result = "completed" THEN [runs EXCEPT ![j.run].status = "stopped"] ELSE runs
    /\ job' = [job EXCEPT ![p] = IF result = "raised" THEN NoJob
                                 ELSE [@ EXCEPT !.phase = "saving", !.result = result]]
    /\ UNCHANGED <<conf, edits, cfg, keys, grants, receipts, began, stop>>

\* Any result is saved over the one that is there.
SaveResultSlip(p) ==
    LET j == job[p] IN
    /\ j.phase = "saving"
    /\ receipts' = [receipts EXCEPT ![j.receipt].result = j.result]
    /\ job' = [job EXCEPT ![p] = NoJob]
    /\ UNCHANGED <<conf, edits, cfg, keys, grants, runs, began, stop>>

\* rollback, last transaction: a final result stays.
SaveResult(p) ==
    LET j == job[p] IN
    /\ j.phase = "saving"
    /\ receipts' = IF receipts[j.receipt].result = "authorized"
                   THEN [receipts EXCEPT ![j.receipt].result = j.result] ELSE receipts
    /\ job' = [job EXCEPT ![p] = NoJob]
    /\ UNCHANGED <<conf, edits, cfg, keys, grants, runs, began, stop>>

\* A worker's compensation fails after the rollback has ended (module
\* Compensation): the run is stopping again, unless another one is
\* unfinished by now: the index one_live_rollout_per_owner refuses two.
Reopen(n) ==
    /\ runs[n].status = "stopped"
    /\ MayActivate
    /\ runs' = [runs EXCEPT ![n].status = "stopping"]
    /\ UNCHANGED <<conf, edits, cfg, keys, grants, receipts, began, job, stop>>

ControlNext ==
    \/ \E c \in Config : EditConfig(c)
    \/ \E p \in Procs : \/ Start(p) \/ Exit(p) \/ RunnerBegins(p) \/ SaveResult(p)
                        \/ \E n \in 1..MaxRuns : StopRun(p, n)
                        \/ RunnerRefused(p)
                        \/ \E result \in {"raised"} \cup Final : RunnerReturns(p, result)
    \/ \E p \in Procs, k \in Keys, r \in Receipts, d \in Digests :
          \/ Activate(p, k, r, d) \/ ResumeRollback(p, k, r, d)
          \/ \E n \in 1..MaxRuns, result \in {"ended", "authorized"} :
                Rollback(p, k, r, d, n, result)
          \/ \E target \in Receipts, td \in Digests : RegisterGrant(p, k, r, d, target, td)
    \/ \E r \in Receipts : GrantExpires(r)
    \/ \E n \in 1..MaxRuns : DeadlinePasses(n) \/ Reopen(n)
    \/ StopFile

ControlSpec == ControlInit /\ [][ControlNext]_cvars

-----------------------------------------------------------------------------
\* A receipt opens at most one run, through replays by other processes,
\* crashes, rotations and grants (rollout.py, _control_transaction).
ActivationOnce ==
    \A m, n \in 1..MaxRuns : runs[m].receipt = runs[n].receipt /\ runs[m].receipt # NoReceipt
        => m = n

\* At most one run is unfinished, though runners stop and workers reopen
\* runs that are not the latest one.
OneLiveRun == Cardinality({n \in 1..MaxRuns : runs[n].status \in Unfinished}) <= 1

\* Rotations of the control key go one way: a retired key is never current
\* again, and what it opens it opens with a grant minted in time and used up
\* by it, whichever processes still run with the old file; a process started
\* before a rotation does nothing that has to be signed after it.
OldKeyNeedsGrant ==
    [][/\ \A k \in Keys : keys[k] = "retired" => keys'[k] = "retired"
       /\ \A n \in 1..MaxRuns :
             runs[n].status = "none" /\ runs'[n].status = "running" /\ keys[runs'[n].key] = "retired"
             => LET r == runs'[n].receipt IN
                grants[r] # NoGrant /\ ~grants[r].consumed /\ grants'[r].consumed
       /\ \A r \in Receipts : receipts[r] = NoAction /\ receipts'[r] # NoAction
             => \E p \in Procs : cfg[p] # Stopped /\ keys[cfg[p].key] = "current"]_cvars

\* Runs are created in order; their receipts are stored; a run is stopped by
\* the runner that began with it, for good; and a rollback, at work or to be
\* resumed, is one of a run there is.
RunsInOrder ==
    /\ \E k \in 0..MaxRuns : Created = 1..k
    /\ \A n \in 1..MaxRuns :
         /\ runs[n].receipt # NoReceipt => receipts[runs[n].receipt] # NoAction
         /\ runs[n].status = "stopped" => n \in began
         /\ n \in began => runs[n].status \in {"stopping", "stopped"}
    /\ \A r \in Receipts : receipts[r].action = "rollback" => receipts[r].run \in Created
    /\ \A p \in Procs : job[p] # NoJob =>
         /\ job[p].run \in Created
         /\ job[p].phase = "working" => job[p].run \in began

\* The inductive invariant: types, one run for a receipt and one run at a
\* time, and what these rest on.
ControlInv == ControlTypeOK /\ ActivationOnce /\ OneLiveRun /\ RunsInOrder

\* The result of a rollback request is final once it says so: a slower
\* process with the same request cannot overwrite it.
RollbackResultFinal ==
    [][\A r \in Receipts : receipts[r] # NoAction /\ receipts[r].result \in Final
          => receipts'[r] = receipts[r]]_cvars

\* A run that leaves the live states does so under a higher epoch: every
\* fence of workers, judges and reviews compares epochs only.
EpochFencesStop ==
    [][\A n \in 1..MaxRuns : runs[n].status \in Live /\ runs'[n].status \notin Live
          => runs'[n].epoch > runs[n].epoch]_cvars

\* What no step of the control plane does: open anything with a retired key and
\* no grant, replace the final result of a rollback, stop a run without fencing
\* off those who work for it.
ControlSteps == OldKeyNeedsGrant /\ RollbackResultFinal /\ EpochFencesStop
=============================================================================
