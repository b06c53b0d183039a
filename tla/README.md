# A formal model of SagaContext

SagaContext is the memory of coding agents: hosts report the events of a
session, candidates for memories are drawn from them, a judge (a language model)
proposes what to do with each candidate, a SQLite ledger keeps memories with
their revisions, and a projector copies the current revisions into an external
retrieval backend, from which sessions recall them.  Everything interesting
happens between processes that share one database and die at the wrong moment.
This directory models that in TLA+: TLC checks small instances of each module,
and TLAPS proves the most important results for instances of any size.

Paths below are relative to `src/sagacontext/` of the repository.

## 1. The system

| Component | State | Operations | Modules |
|---|---|---|---|
| Ledger (`ledger/service.py`, `schema.py`) | `memories`, `revisions`, `commit_receipts`, `suppression_rules`, `deletion_jobs`, `backend_generations` | opening and migrating, `commit`, `commit_batch`, `forget`; writes `outbox` rows in its own transactions | `Ledger`, `Projection` |
| Registry of places (`ledger/service.py`, `access.py`) | `projects`, `project_locations`, `sessions`, `tasks`, `session_task_bindings` | `register_project`, `bind_location`, `rebind_location`, `resolve_project`, `open_session`, `bind_task` | `Registry` |
| Projector (`projection/worker.py`) | `outbox`, `projection_attempts`, `projection_receipts` | `drain_once`: leases a row, calls the backend outside transactions, settles the row | `Projection`, `DerivedIndex` |
| Backend adapter (`backends/`) | the remote store | `materialize`, `locate_projection`, `inspect_projection`, `remove_projection`, `search` | in `Projection`, `Compensation` |
| Batch maintenance (`maintenance/batches.py`, `reconcile.py`) | `candidates`, `batches`, `batch_candidates`, `batch_anchors`, `proposals` | `create_candidate`, `request_batch`, `run_once` | `Batch`, `Schedule` |
| Conflict review (`maintenance/review.py`) | `conflicts`, `review_receipts`, review lease of a batch | `resolve` with `accept_old`, `accept_new`, `defer` | `Review` |
| Event journal (`maintenance/journal.py`) | `events`, `source_cursors`, `event_aliases`, `event_quarantine` | `append`, `record_invalid_line`, `add_alias` | `Journal` |
| Rollout runtime (`rollout.py`) | `rollout_runs` with a control epoch, budgets, keys, grants, action receipts | `activate`, `register_grant`, `stop`, `rollback`, `ingest`, `run_batch`, `review_batch`, `session_start` | `Control`, `Ingest`, `Schedule`, `Ledger`, `Registry` |
| Projection protocol (`projection/protocol.py`) | `projection_operations`, compensation receipts | `register`, `record_return`, `compensate` | `Compensation` |
| Rollback (`rollback.py`) | `rollback_runs`, `rollback_steps` | `run` in five steps | `Rollback`, `Schedule` |
| Scheduler (`scheduler.py`) | none of its own | `tick`: resume or request a batch, run it, hold it, drain the rollout's rows | `Schedule` |
| Observation window (`observation.py`, `daily_report.py`, `hosts/settings.py`, `hosts/pinning.py`) | host settings, the STOP file, receipts of a window, labels | `start_window`, `tick`, `freeze_window`, `finish_window`, `annotate` | `Window` |
| Recall (`recall_policy.py`) | none | assemble a bundle, verify it, inject it | `Ledger`, `Registry` |
| Model access and admission (`llm.py`, `maintenance/judge.py`, `bench/`) | result files | conversion of answers, retries, replay, acceptance | `Judge`, `Replay` |
| Hosts, hook, daemon, command line, console, setup scripts, legacy store, memory laboratory | settings files, HTTP | wiring, parsing, views | see section 6 |

### What is hard about it, and what makes each part correct

* **Projector.**  The backend is called outside every transaction.  Leases run
  out while their worker lives, answers are lost, a write may land after its
  caller was replaced, and a memory may be superseded or forgotten between the
  check of the head and the write.  It is correct when only the holder of the
  latest lease settles a row, the current revision is never removed, what is
  acknowledged is there, and what is retired or forgotten leaves no projection
  that no row accounts for.
* **Batch maintenance.**  A batch freezes candidates and revisions and is judged
  later, by a worker that may be overtaken.  It is correct when a candidate is
  in one batch at a time and is reconciled once, a batch is committed whole and
  on the revisions it froze, and only the holder of the latest lease changes it;
  the batches of a rollout come to rest.
* **Review.**  `resolve` reads outside transactions and then runs three of
  them; reviewers race and stop between them, and a receipt of which no result
  is stored yet may be sent again for something else.  It is correct when a
  conflict is decided once, the stored receipts tell what happened, and the batch
  ends settled or awaiting review.
* **Rollout, compensation, rollback.**  A stop raises the epoch; what was under
  way under the old epoch must end compensated or visible as needing cleanup,
  never confirmed.  A write whose caller gave up may land behind all of it.
  Budgets must hold through stops, restarts and second runs between the look at
  a run and the reservation in it, and a rollback must resume after a crash.
* **Scheduler and holds.**  Scheduler, `run_batch`, reviewers and rollbacks write
  the same batches, some of them by `batch_id` alone.  A decision must stand
  against a worker that comes late, and candidates that are due must be taken.
* **Observation window.**  Its commands change files beside a database
  transaction and may die between the two.  It is correct when nothing enters
  from freezing to closing, the user's settings are not forgotten, and a window
  with a reason to stop is frozen, and closed unless its rollback is held up.
* **Journal.**  An event that is delivered twice is stored once; a cursor never
  passes a line that was neither stored nor quarantined, nor does it go back.
* **Registry.**  Every call looks up before its transaction, and the daemon
  resolves a directory three times for one event.  What belongs to a project is
  stored for it and shown to its sessions, wherever directories are moved.
* **Ledger receipts.**  A request that is repeated with its receipt has its
  effect once; what was forgotten is not learnt again from the same source.
* **Recall.**  Whatever the backend returns and however the ledger changes
  meanwhile, nothing is injected that had been retired, forgotten or outdated
  before its bundle was verified.
* **Judges and replay.**  Retries must not mix the traces of two calls, files
  that were cut or merged must not be admitted, and an honest model must be.

## 2. Modules

| Module | What it is |
|---|---|
| `DerivedIndex` | Abstract specification of the projector: an index derived from the ledger heads, without outbox, leases or requests |
| `Projection` | Ledger heads, outbox, workers of `drain_once`, backend |
| `ProjectionProofs` | Theorems about `Projection`, its refinement of `DerivedIndex` among them |
| `Batch` | Candidates, batches, proposals, workers of `run_once`, `commit_batch` |
| `Review` | Extends `Batch` with reviewers inside `resolve` |
| `Schedule` | Extends `Batch` with rollouts: scheduler, `run_batch`, `review_batch`, the phases of a rollback that touch batches |
| `BatchProofs` | Theorems about `Batch`, `Review` and `Schedule`, in three parts |
| `Control` | Keys, grants, receipts and the life of a rollout |
| `Ingest` | Extends `Control` with the hosts' events and the budgets |
| `Compensation` | Outbox rows of a rollout: workers under a control epoch, compensation |
| `Rollback`, `RollbackProofs` | Extends `Compensation` with the rollback runner; theorems about both |
| `Window`, `WindowProofs` | Observation windows: commands that write files and the database, and die between the two; theorem about them |
| `Ledger`, `LedgerProofs` | Migrations, `commit`, `forget`, receipts, suppression, recall; theorems about them |
| `Journal` | Events, cursors, aliases, quarantine |
| `IngestProofs` | Theorems about what comes in: `Control`, `Ingest` and `Journal` |
| `Registry`, `RegistryProofs` | Projects, directories, sessions, tasks, and what follows from a session's place; theorems about them |
| `Judge`, `Replay`, `ReplayProofs` | What is made of a model's answer (operators); the replay benchmark, acceptance and audit of its files (extends `Judge`); theorems about both |
| `MC*` | Symmetry sets and structured constants for TLC; the `.cfg` files give the rest |

One action is one database transaction (`_write_transaction` is
`BEGIN IMMEDIATE`, so transactions are serial), one request to the backend or to
the model, one write of a file, or one read that the code makes outside a
transaction and acts on later.  What a process keeps in local variables between
two of them is its record in `work` (workers), `desk` (reviewers, runners),
`call` (callers) or `cmd` (commands).  Between two actions of a process any
other process may act, or the process may die.  Lease tokens are new whenever
they are taken, so a number of attempts or the name of a holder with a flag
stands for them; ids are positions or model values.

The parts share tables and are composed where they disturb each other:
`Review` and `Schedule` run over the workers of `Batch`, `Rollback` over the
workers of `Compensation`, `Ingest` over all of `Control`.  Where a module needs
only the effect of another part, that effect is one action which may happen at
any time (`ChangeHead` in `Batch`, `UserChanges` in `Compensation`, `BatchNew` in
`Ledger`, `Settle` in `Registry`, `DaemonStops` in `Window`).

### Projection

`head` is state and revision of each memory.  `outbox` maps
`<<action, <<memory, revision, generation>>>>`, the unique key of the table, to
the row with the facts of its latest attempt that anybody reads
(`call_started_at`, `target_locator`).  `items` is what the backend stores; a
locator is derived from the target, so a target stands for it.  `late` holds
requests whose caller gave up and that may still take effect.  The history
variable `unseen` has the targets of which the outbox cannot know: their
projection was written by a request whose row had been taken over or settled, or
their unknown row is leased by a verifier that has not recorded its start.  They
leave it when a holder of the row has looked.

| Code | Action |
|---|---|
| `commit`, `commit_batch` (one operation), `forget`, `register_backend_generation` | `CommitNew`, `CommitUpdate`, `Supersede`, `Forget`, `RegisterGeneration` |
| `claim_next` with its sweep of expired leases | `ClaimNext` |
| head check in `drain_once`; first transaction of `call_backend` / `_verify_unknown` | `CheckHead`; `StartCall` / `StartVerify` |
| the requests, and how they fail | `Materialize`, `RemoveRemote`, `CallFails`; `VerifyUnknown`, `VerifyFails` |
| `complete`: inspection, then its transaction | `Inspect`, `InspectFails`, `Complete` |
| `_finish_without_locator` | `FinishWithoutLocator` |
| time and processes | `LeaseRunsOut`, `LeaseOverrun`, `LateRequestLands`, `Crash` |

Left out: rows of a rollout (they are in `Compensation`), back-off
(`next_attempt_at` is never set by this code), more than one backend, `search`.

### Compensation and Rollback

One rollout, whose memories have one upsert row and at most one delete row each.
`run` has status and control epoch, `op` is `projection_operations` with its
compensation lease (`comp`, `compLive`), `items` the backend.  `late` holds the
writes whose callers gave up: a timed-out call is settled as `unknown` or
`blocked` with its `call_finished_at`, so the barrier of `compensate` no longer
sees it, and its write may land at any time (`LateWriteLands`; `rollback.py` says
so at lines 56-57).  The history variable `stray` marks projections that landed,
late or from a call that had outlived its lease, where a compensation had
removed or was removing: `new` since this rollback began, `old` before.  A worker reads the epoch
when it claims and compares it before the call and before it settles; a call
that began before a stop ends in `WorkerCompensates` or `MarkCleanup`.
`Rollback` adds the five steps of `RollbackRunner.run` with their receipts
(`steps`), the runner's lease, `RunnerCrash`, the repetition of the last two
steps by whoever takes over, and `End`, the only step that says stopped.

### Batch, Review and Schedule

`cand` holds status and `active_batch_id` of the candidates, `open` the
`batch_candidates` rows that are not released, `batch` the batches with their
frozen members and anchor revisions (`base`, 0 for no anchor), `prop` and
`conflict` a proposal and a conflict per batch and candidate.

| Code | Action |
|---|---|
| `create_candidate`, `request_batch` | `CreateCandidate`, `RequestBatch` |
| `claim_next` | `ClaimNext` |
| `run_once` up to the judge: digest and version, resume, anchors | `VersionChanged`, `Resume` |
| the judge; `_persist`, `_persist_rejected` | `JudgeFails`; `Persist`, `PersistRejected` |
| `_proposed` and `_plan`; `commit_batch` | `ReadBack`; `Commit`, `CommitFails` |
| `_retry_or_block` with `fail_batch`, `block_batch` | verdict in the failing step, then `Fail` |
| `invalidate_and_release` | `Release` |
| other writers of memories | `ChangeHead` |
| `review.py`, `resolve`: reads; transactions | `Resolve`; `Answer`, `CheckTarget`, `Stale`, `Start`, `CommitReview`, `Record`, `Keep` |
| `SchedulerThread` and `tick`; `run_batch` | `Choose`, `Call`, `RecordBatch`, `Claim`, `Fenced`, `JudgeAnswers`, `Work`; the same steps with `call` set |
| hold for review; `review_batch` | `Hold`, `Proposes`; `Approve`, `Reject` |
| phases `shadow` and `verify` of `rollback.py` | `Shadow`, `Verify` |

`new` operations create memories nobody else refers to, so `head` holds only
memories that can be anchors.  In `Review` a receipt stands for its successor
proposal and its review token, whose ids are derived from it, and not for one
request: `resolve` compares a receipt with its earlier request only when a
result is stored, so until then it may be sent for another decision or another
conflict.  The history variables `asked` and `effect` keep what it was sent for
(`Several` if for more than one thing) and what took effect.  In `Schedule` the worker of `Batch`
stops after the proposals; `batchRun` is `rollout_batches`, and `cleared` is a
stopping run after the shadow phase.  Left out: several sessions and daemons
(batches of different sessions share no candidate), a batch without candidates,
rollouts in shadow mode (they never hold a batch), the content of events.

### Control and Ingest

A process reads its configuration when it starts (`cfg`); the file may be edited
under older processes.  `keys` has the status of each signing key, `receipts`
the action receipts, `grants` the registered grants, `runs` the rollouts with
status and epoch, `job` what a process is doing for `rollback`, whose result is
saved in a second transaction.  `Ingest` adds the event under way in the daemon
(`Receive`, `StoreEvent`, `ScheduleCandidate` and the refusals), `journal`,
`reserved` (sessions), `runEvents` and `cands` (candidates).  Signatures are
left out: a request carries its key, receipt and digest, and a forged one is
turned away without a trace.  There is one event under way at a time, since the
handler of `/events` (`daemon.py`, line 143) awaits nothing but the body of the
request; the other endpoints and the other process act between its steps.
`authorized` and `in_progress` of a receipt are one value, as the same request
resumes both; `ended` stands for the results that no request goes on from.

### Window

One file lock serialises `start_window`, `tick`, `freeze_window`,
`finish_window`, so there is one command `cmd`, which may die anywhere; the
daemon, time, updates of hosts, and the operator's hand on the STOP file and on
labels go on.  `setting` is the switch of a host's updater, `record` the stored
originals of a window, `orphaned` the hosts whose original value was lost with
the start that read it, also by a read-back that failed after the write
(`DisableFails`).  `held` has the runs whose rollback did not end, for a reason
that may last (`RollbackStays`).  Left out: checks of the preflight other than pinning,
the exported reports, the installation of the watchdog, runs from before hosts
were pinned, labels that no stop depends on.

### Ledger

`conn` follows a process through opening and migrating; then it makes one call
after the other: `Ask` (lookup of the receipt and of what it will need) and a
transaction (`CommitNew`, `CommitChange`, `Forget`, or the refusals).  `Search`,
`Assemble`, `Verify` (the check of run and mode), `VerifyItem` (one head after
the other, other processes in between) and `Inject` are recall and
`session_start`; `lost` keeps which items had stopped being current when the
verification began.  The ledger's `sequence` is left out: nothing compares it.  `said`
and `evidence` keep what a memory ever was, `banned` is `suppression_rules`.
One owner and one piece of evidence for a request; a content stands for type,
scope and payload together.

### Journal

A call looks up (`Search`, `Lookup`) and commits (`Insert`, `Known`,
`Quarantine`, `AliasInsert`), or is refused, or its process dies.  Cursors count
lines in place of bytes; the generation of a source stands for the scope of a
key (owner, host, session, generation).

### Registry

Every call of `register_project` to `bind_task` is a lookup and a transaction;
`Receive`, `StoreEvent`, `ScheduleCandidate`, `MakeContext` and `Show` follow an
event of a hook through the three times its directory is resolved;
`RequestBatch` reads anchors in the context of the run's workspace.  One host
and one rollout, whose hosts run in the directory `Allowed`; the hosts name no
scope and no context; scopes by path are left out; what becomes of a batch is a
choice (`Settle`, `Commit`).

### Judge and Replay

`Judge` translates `convert_deltas` (`Convertible`, `Proposals`), the validation
of cases (`ValidCase`) and the scorer (`Score`).  Texts are values with a normal
form and, for conditions, a set of variants; an answer is a sequence of deltas
whose values the model may choose.  `Replay` is `run_replay` with its
retries (`Attempt`, `Fresh`, `Record`), then `Write`, and `Meddle` for whatever
happens to a file between the run and the audit; `Admitted`, `Accepted` and
`Equivalent` are the three judgements; `Accepted` counts the observations of one
case (`SameCase`, `Majority`) and of one repeat (`SameRepeat`, `Enough`).  One candidate in a case;
`setup.frozen` stands for the versions of timeout, prompt, schema and dataset,
`Models` for model, run and endpoint, `Repeats` for `FROZEN_REPEATS` and for the
literal 3 of `_acceptance_status`.

### Slips

Next to some definitions stands a variant named `...Slip`: the definition with
one mistake that a change of the code might make (a token not compared, a status
ignored, a row not released).  No action uses them.  They document, per
property, a mistake under which TLC finds the property violated; they are listed
under `mutants` in `PROJECT.json`.

## 3. What the runs check

| Run | Instance | States, time | What it shows |
|---|---|---|---|
| `projection_safe` | 1 memory, 2 revisions, 1 generation, 2 workers, 2 attempts, 2 faults; late requests, rejected reads, dying verifiers | 2.2 M, 57 s | What the projector guarantees whatever the backend does: the current revision is never removed, only the holder of a lease settles, receipts and rows agree, and it implements `DerivedIndex` |
| `projection_tells` | 1 memory, 1 revision, 2 generations, 2 workers, 3 attempts, 3 faults; late requests, rejected reads, dying verifiers | 397 k, 9 s | No orphans in any generation (`OrphanFree`), and `pending` and `retry` mean that nothing is there (`RetryHadNoEffect`), except for targets of which the outbox cannot know |
| `batch` | 2 candidates, 2 batches, 1 memory with 2 revisions, 2 workers, 2 attempts, 1 fault | 470 k, 15 s | Candidates are held and reconciled once (`BatchInv`), batches change in the hands of the last lease only and are committed whole |
| `review` | 2 candidates, 1 batch, 1 worker, 1 reviewer, 2 receipts, 3 revisions, 2 faults | 678 k, 20 s | A conflict is accepted once and its resolution is that of a request that took effect (`ReviewInv`); with this one reviewer at a time also decided once, with receipts that deny nothing that took effect (`OneByOne`), when he dies anywhere and sends the same or another receipt; what a receipt says that was sent for several requests is the exception |
| `rollback` | 1 memory, 2 workers, 1 runner, 2 attempts, 1 fault; the owner may change or forget the memory; late writes; fair | 766 k, 125 s | Nothing is confirmed under a stopped epoch, a run becomes stopped with nothing in the backend but what landed late behind the removal, rows and operations agree, a rollback ends |
| `rollout` | 2 processes, 2 keys, 3 receipts, 2 runs, 1 edit of the configuration, 2 sessions, budgets of 1 | 1.4 M, 128 s | One live run, one run for an approval, old keys only with grants, results final, budgets kept through stops, restarts and a second run |
| `window` | 2 hosts, 2 windows, 1 update of an executable, 2 faults; fair | 914 k, 100 s | The STOP file holds from freezing to closing, no sequence of windows and failures forgets a user's setting, every window with a reason to stop that lasts is frozen, and closed with the settings restored unless its rollback is held up |
| `schedule` | 2 candidates, 2 batches, 1 worker, 2 runs, 1 memory with 2 revisions, 1 fault; fair | 975 k, 148 s | Decisions of reviewers and rollbacks stand against workers that come late, due candidates are taken, the batches of a run come to rest |
| `ledger` | 2 processes, 2 memories, 2 contents, 2 receipts, 1 forget, 2 migrations | 1.6 M, 73 s | A request has its effect once, what is gone is suppressed whole and not created again by `commit`, and what had changed before a bundle was verified is not injected |
| `journal` | 2 callers, a source of three lines (one unreadable) and one of one line, 3 events of hooks, 2 deaths | 193 k, 5 s | Events once and in order, no line skipped, nothing taken back |
| `replay` | 2 cases, 2 repeats, 2 attempts, 2 models, 6 answers, 1 failure; 5 datasets, 3 of them refused | 885 k, 50 s | Records tell what happened through retries; files that were cut, repeated, merged or edited are not admitted unless every case came out right; an honest model is admitted |
| `registry` | 3 directories, one inside another, 1 session, 2 callers, 2 bound places, 1 move, 1 task, 2 events, 1 memory | 2.3 M, 45 s | Nothing of another project is stored for a session or shown to it |

### Where documents and code disagree

Each of these configurations checks one property that a document states, and TLC
finds a behaviour of the code that violates it.  S2 is
`docs/superpowers/specs/2026-09-05-s2-continuous-maintenance-design.md`, the
rollout design `2026-09-08-normal-workspace-guarded-rollout-design.md` beside it.

| Configuration | Property | Document | What happens |
|---|---|---|---|
| `MCProjectionRetry` | `RetryIsCertain` | S2, line 357: `retry` means known to have had no effect | A verifier of an unknown row dies before `_mark_call_started`; its attempt has no `call_started_at`, so the sweep makes it `retry` |
| `MCBatchResume` | `ConsistentPlanCommits` | S2, line 255: a consistent proposed plan is resumed and committed | After `retry` the batch is leased as `running`; `commit_batch` accepts only `proposed`, so the plan fails until the batch is blocked, with its candidates in it |
| `MCReviewMulti` | `SettledLeavesNothing` | S2, line 288: settles exactly its candidates and batch | One decided conflict settles the batch, the other conflict can never be decided |
| `MCReviewRace` | `SettledBatchStays` | S2, line 195: every status change is fenced | The stale branch reopens a settled batch |
| `MCReviewStuck` | `ReviewEnds` | S2, line 299: `review_committing` leads to settled or awaiting review | After a crash and the expiry of the lease every commit is fenced |
| `MCReviewReuse` | `EveryRecordTrue` | S2, line 327: a receipt reused for another conflict or decision is refused | Receipts are compared only when a result is stored (`review.py`, lines 48-50): after `accept_new` was committed and the reviewer died, the same receipt with `accept_old` records `accept_old` |
| `MCIngestLate` | `NothingEntersAfterStop` | rollout design, line 289: STOP, off and deadline are checked in the transactions of event and candidate | The gate looks at run and STOP file before the two transactions that write |
| `MCRollbackStale` | `StoppedRowsSettled` | rollout design, line 379: no stop while rows are unfinished or claims under way | A worker whose compensation failed marks its row after the rollback compensated it; the backend is clean all the same |
| `MCWindowUpdaters` | `UpdatersOff` | `2026-09-30-claude-code-admission-design.md`, line 14 | The watchdog restores the settings of an earlier window whose restore failed, while a later one is open |
| `MCJournalAlias` | `ResolvesOnce` | S2, lines 119 and 488 | `append` does not look at aliases: an event under the alias's own key takes the key over |
| `MCLedgerRevived` | `RevivesNothing` | S2, line 283: the commit checks the suppression again | `commit_batch` creates memories without looking at the rules |
| `MCRegistryAnchors` | `AnchorsOfTheSession` | `_batch` reads anchors for the session's work | A directory moves away between an event and its candidate, and back: the model reads anchors of another project |

More differences were met on the way.  S2, line 430 says that confirmed and
obsolete rows are never reset; an upsert that finds itself obsolete resets the
delete row of its target even if confirmed (`Requeued`), which is what keeps
orphans away, and `SettledStaysSettled` says exactly when.  S2, line 322 says
that `accept_old` writes no revision; since `Keep` does not look again at what
`resolve` read, it may report success after another reviewer's `accept_new` was
committed.  A receipt sent for another conflict of the same batch commits the
change of that conflict under the successor proposal of the first, since
`commit_batch` compares only batch, status and input of the successor.
`2026-09-06-real-judge-replay-design.md`, line 84, has `judge_schema_error`
block at once; `OpenAIJudge.judge` raises it as one to retry (`llm.py`, line 273)
and `run_replay` retries it, which is what `Retryable` in `Judge` says.

### Bounds

Counters are bounded in the guards of the actions that raise them: `MaxRevision`
(writes of a revision), `MaxFaults` and `MaxDeaths` (faults), `MaxRuns`,
`MaxEdits`, `MaxUpdates`, `MaxFailures`, and the bounds on rows of `Registry`.
`MaxAttempts`, `MaxSessions`, `MaxCandidates`, `CaseCount`, `Repeats` are
parameters of the code.  Two workers are the least that can overtake each other,
two revisions the least with an outdated one, two batches the least for a
candidate to be released and taken again, two receipts the least for a second
decision, three for a rotation between two actions of the control plane, two
windows or runs the least for what one leaves behind to meet the next, two
directories with one inside the other the least for a resolution to change.
Budgets of 1 are used up by the first session or candidate, so a second one
meets the limit in each run.  Three attempts are the least for a verification
between two calls to fail; one more fault than attempts used lets a late request
and a dying verifier meet.  Memories do not interact in
`Projection` except that `unknown` rows go first, which only decides who is
claimed next, nor in `Compensation`.  The theorems of section 4 need none of these bounds.

Deadlock is checked in `rollback` and `journal`.  Elsewhere the system may
really come to rest: once every row, batch or request is settled and the bounds
are used up, nothing need happen.

### Fairness

* `schedule`: a worker inside a tick goes on unless it crashes, the scheduler
  keeps calling it for the batches of its run (`SchedulerThread.run` ticks as
  long as the daemon lives, `scheduler.py`, lines 147-185), and the lease of a
  dead worker runs out (time passes).
* `rollback`: a worker and a runner go on unless they crash, leases run out, and
  the operator asks again for a rollback that is not
  finished, so that one that can begin again and again does (strong fairness of
  `RunStart`).
* `window`: the watchdog is started every minute and waits in `flock`; whatever
  other commands are tried, it has its turn in the end (strong fairness of
  `TickBegins`), and a command under way ends.

The projector, batch maintenance outside a rollout and the journal have no
liveness properties, since the package has nobody who keeps calling them: the
scheduler drains only rows of its rollout (it passes a `rollout_id`, and
`claim_next` then claims no others) and runs only its own batch up to the
proposals, S2 (lines 25 and 479) has no resident worker, and readers of sources
are not part of the package.  A row, a batch or a line is settled or received
when somebody runs the command.

Nothing forces a fault to happen or not to happen; faults are bounded.
`ReviewEnds` gets more than the code gives: reviewers that never tire of asking.
It fails nevertheless.  The other runs check safety only.

## 4. What is proved

| Theorem | Statement |
|---|---|
| `ProjectionProofs!TypeCorrect` | `Spec => []TypeOK` |
| `ProjectionProofs!SafetyInvariant` | `Spec => []SafetyInv` |
| `ProjectionProofs!LivePresent`, `DeletesAreStale` | the invariants `LiveProjectionPresent`, `DeleteNeverTargetsCurrent` |
| `ProjectionProofs!ReceiptsAndRows` | `Spec => []ReceiptMeansSettled` |
| `ProjectionProofs!HolderSettles`, `SettledIsSettled` | the action properties `OnlyHolderSettles`, `SettledStaysSettled` |
| `ProjectionProofs!RefinesIndex` | `Spec => ImplementsIndex` |
| `ProjectionProofs!NothingOrphaned`, `RetryIsRight` | `Spec => []OrphanFree`, `Spec => []RetryHadNoEffect` |
| `BatchProofs!TypeCorrect`, `BatchInvariant` | `Spec => []TypeOK`, `Spec => []BatchInv` |
| `BatchProofs!OnlyTheHolder`, `CommitIsWhole` | the action properties `OnlyHolderChangesBatch`, `CommittedWhole` |
| `BatchProofs!ReviewInvariant` | `ReviewSpec => []ReviewInv` |
| `BatchProofs!ReviewsOneByOne` | `(\A u, v \in Reviewers : u = v) => (ReviewSpec => []OneByOne)` |
| `BatchProofs!ScheduleInvariant` | `ScheduleSpec => []ScheduleInv` |
| `BatchProofs!DecisionsAreFinal` | the action properties of `DecisionsStand` |
| `RollbackProofs!RollbackInvariant` | `RollbackSpec => []RollbackInv` |
| `RollbackProofs!NothingUnderAnOldEpoch`, `StoppedIsClean` | the action properties `UnderEpoch`, `StoppedMeansAbsent` |
| `IngestProofs!IngestInvariant`, `BudgetsAlways` | `IngestSpec => []IngestInv`, `IngestSpec => []BudgetsHold` |
| `IngestProofs!NothingUndone` | the action properties of `NothingIsUndone` |
| `WindowProofs!WindowInvariant` | `WindowSpec => []WindowInv` |
| `LedgerProofs!LedgerInvariant`, `InjectedCurrent` | `LedgerSpec => []LedgerInv`, `LedgerSpec => []InjectedWasCurrent` |
| `LedgerProofs!GoneStaysGone` | the action property `CommitRevivesNothing` |
| `IngestProofs!JournalInvariant`, `CursorSkipsNothing` | `Spec => []JournalInv`, `Spec => []NothingSkipped` |
| `IngestProofs!JournalOnlyGrows` | `Spec => JournalGrows` |
| `RegistryProofs!RegistryInvariant`, `ShownWhereItBelongs` | `Spec => []RegistryInv`, `Spec => []ShownInPlace` |
| `RegistryProofs!WhatIsCheckedStays` | the action property `NothingMoves` |
| `ReplayProofs!ReplayInvariant`, `RecordsAreTrue` | `Spec => []ReplayInv`, `Spec => []RecordsTell` |
| `ReplayProofs!FilesAreTrue`, `HonestRunsPass`, `CasesHaveAnswers` | `Spec => []FilesTell`, `Spec => []HonestIsAdmitted`, `Spec => []CasesAnswerable` |

They hold for every set of memories, generations, workers, runners, candidates,
batches, hosts, processes, keys, receipts, directories and callers, every
source, all datasets, models and answers, and every value of the bounds, late requests and dying verifiers
included.  One theorem has a hypothesis, because what it states is false without
it: `ReviewsOneByOne` supposes one reviewer at a time, for the reason given below.
The only other assumptions are the ones named in the modules
(`ProjectionAssumption`, `BatchAssumption`, `CompensationAssumption`,
`RollbackAssumption`, `ScheduleAssumption`, `ControlAssumption`, `IngestAssumption`,
`WindowAssumption`, `NoRecordAssumption`, `LedgerAssumption`,
`JournalAssumption`, `RegistryAssumption`, `JudgeAssumption`,
`ReplayAssumption`), which TLC evaluates in every run of
those modules.  They say that bounds are numbers, that a value for "none" is
none of the others, that processes of two kinds are different ones, and that
the special ones (the daemon's process, prompts, keys of aliases) are among the
general ones.  Four say more:
`RollbackAssumption`, that a rollback may be asked to go through all five steps
(`RollbackRunner.run` by default does); `RegistryAssumption`, that the
directories are ordered as a file system orders them (two directories above the
same one are one above the other), which is what makes the nearest bound
directory unique; `JudgeAssumption`, that normalising a text twice is
normalising it once, that a text is among its own variants, and that no field of
a body takes blank texts (`_body_values_valid` refuses them); and
`ReplayAssumption`, that every dataset has `CaseCount` cases, that an answer is a
sequence of deltas, and that there are at least two repeats (`FROZEN_REPEATS` is
3), since `_acceptance_status` wants each case right twice.

**Projector.**  `LiveProjectionPresent` is not inductive: what protects a
confirmed projection of the current revision is that no delete can be on its
way.  `SafetyInv` adds that (i) delete rows and late deletes exist only for
revisions that are not current (`DeleteNeverTargetsCurrent`), which needs that
heads are numbered from 1 and rows are about committed revisions
(`HeadsNumbered`, `RowsCommitted`), so that no later revision can be mistaken
for one that has a delete row; (ii) claims, late requests and stored projections
go back to a row (`EffectsHaveRows`), so a worker that deletes has a delete row;
and (iii) what `complete` has observed of the current revision is still there
when it settles (`ObservationStands`), although it looks in one place and
settles in another.  The refinement maps the index to `items` and the
acknowledged targets to the confirmed upsert rows; each step is a step of
`DerivedIndex` or leaves its variables alone, by `SafetyInv`.

**Outbox.**  That what the outbox says of the backend is so cannot be seen from
the rows alone: a running row says nothing, and the row that a worker leaves
behind says what this worker knew.  `OutboxInv` therefore has one conjunct for
each claim (`ClaimTells`), one for each upsert row (`UpsertRowTells`), one for
each delete row (`DeleteRowTells`), all about the projections that the outbox is
to know of (`Sure`, those not `unseen`).  A claim is told that nothing is there
when it has not asked, when it was refused, or when it has looked
(`SaysAbsent`), and this stays so while it holds its row (`Held`): a request
that is recorded is made under a row that is held, what a request writes after
its row was lost is `unseen`, and a lost row is never regained, since `attempts`
only grows and two claims of a row have different attempts (`ClaimsApart`).  So
`retry` is written only when nothing is there, or by the sweep for an attempt
that never began to ask.  No orphan remains because a forgotten or superseded
memory has a delete row wherever it has an upsert row, and because a confirmed
delete finds its target removed unless the upsert row is still open
(`Unresolved`), whose worker, or the one that verifies after it, will find the
head moved and reset the delete row.  The exception cannot be done without:
`RetryIsCertain` is violated, and a request that lands after its delete was
confirmed leaves a projection that no row knows of.

**Batch.**  Types come first; they are not trivial where `commit_batch` counts
revisions: `NewHead` stays within the bound because a frozen revision is below
it and `Applicable` compares the head with the frozen revision.  `HeldByOneBatch`,
`ReconciledOnce` and `SupersededHasSuccessor` are what is wanted.  Not one of
them is inductive, since what a worker may do to a batch depends on what it has
in its hands.  `MemberHeld` says that the members of a batch under way
are processing and in this batch, and that a candidate is under review only in a
batch and with a proposal that are; `ProposalOfMember`, that everything proposed
is of a member of a batch under way, and that a candidate with a proposal has no
invalidated one left;
`ClaimsDistinct`, that a token belongs to one worker; `PlansComplete`, that the
plan of the worker that still has the token is exactly what is proposed; and
`JudgedAfresh`, that the judge is asked only about a batch of which nothing is
proposed, so that `_persist` overwrites no proposal.
`OnlyTheHolder` and `CommitIsWhole` follow from this invariant: the first from
the tokens, the second because the plan is complete and is checked against the
frozen revisions in the transaction that applies it.

**Review.**  The successor proposal is derived from the receipt, so what a
reviewer may still do depends on the successor of his own receipt, whatever that
receipt was sent for before.  `AcceptedOnce` and `RecordsTrue` become inductive
with `RequestsInOrder` (nothing is done for a receipt that nobody has asked
with; what is done for one that was sent for one request is done for that
request; the transaction that records comes after the one that commits), however
many reviewers there are: `commit_batch` needs the candidate in the batch and takes
it out, and there is no way back.  `DecidedOnce` and `ReceiptsTell` are false
with two reviewers at once, because `accept_old` does not look again at what
`resolve` has read (`Keep`): it may succeed after another's `accept_new`.  When
there is one at a time, `ReviewsInOrder` says that he finds the conflict as he
read it, open and with its batch in review; and that a request that took effect
has closed one of the two, so that the next one, also the same after a crash, is
refused or answered with what happened.

**Schedule.**  `BatchInv` does not hold here: after a stop, workers and
`run_batch` still touch batches whose candidates are gone.  What holds is said
of batches in force (`InForce`), those of a live run and the one that a request
of `run_batch` has frozen and not yet recorded: their members are in their hands
until a reviewer is asked, and only what is held is to be decided
(`Entrusted`).  A batch can only leave force, since a run that stops does not
become live again and one run comes after the other (`RunsInOrder`); a worker
writes only to the batch of its round, which is of its run (`RoundsInOrder`), and
what it writes after a stop is about batches no longer in force.  What the
shadow phase has cleared stays so because it is settled or with the reviewer
then, and no worker holds it or can claim it (`ClearedInOrder`).
`DecisionsAreFinal` reads its two halves off these: a candidate is put back to
work only from the hands of a batch, where a quarantined one is not, and the
scheduler freezes a batch after looking at every earlier one of the run.

**Compensation and rollback.**  The invariant has one conjunct for each row
(`RowInOrder`), each claim (`ClaimInOrder`), each compensation
(`CompensationHolds`), and the epochs (`EpochsInOrder`).  That what was
compensated stays out of the backend rests on two exclusions.  A request that is
within its lease bars others (`CallHolds`): its attempt is the latest of the
row, has begun and not finished, and the lease of the operation is live, so
`CompStart`, which looks for exactly such an attempt, is turned away, and the
row cannot be claimed or swept before the lease is over.  Conversely, whoever
holds the compensation lease when he records the removal finds the projection
removed, because a worker with a request under way never shares an operation
with a compensation.  Two workers never have the same attempt (`ClaimsApart`),
so "the worker of the latest attempt" is one process.  What neither exclusion
covers is a call that outlived its lease and a write whose caller gave up:
nothing bars them, and what they put where a compensation has looked is `stray`
until a compensation removes it, in the invariant as in the property.  The
locator step is repeated by every rollback, so what is stray of an earlier time
has gone when it is done with a memory (`Cleaned`, `RunnerInOrder`), and only
what landed since is left when a run is called stopped.
`EpochsInOrder` says that a run is live only under its
first epoch and before any rollback, so whoever compares epochs compares with
the stop.  For `StoppedIsClean`, `End` finds every row compensated; by
`RowTellsOperation` so is its operation, though rows and operations are written
by different keys, and by `CompensatedMeansAbsent` nothing of it is left but
what is stray.

**Control and Ingest.**  A check inside the transaction that writes is enough
only when nothing else grows what it counted.  `RunsInOrder` says that runs are
created one after the other, that their receipts are stored, and that a stopped
run was stopped by the runner that began with it for good; `DeliveriesInOrder`,
that a run not created has nothing and that a delivery under way is for a run
that was.  With them one live run, one activation for an approval and both
budgets are inductive.  `NothingUndone` splits into one lemma per kind of step:
a step of the control plane keeps to its rules and leaves the journal alone, a
step of a delivery the other way round.

**Window.**  `StopUntilClosed` and `OriginalKnown` are about files and database
at once, and a command may die between the two.  `StartInOrder` and `TickInOrder`
say how far the command under way has got, and what is on disk by then: no other
window is open while one starts, what the start has switched off is off, what it
opens has its record; a tick goes about windows that were opened, freezes only
under the STOP file, rolls back only what is frozen.  `OpenedInOrder` and
`RecordsKnow` say what earlier windows have left behind: a window that was
opened has a run and a record, and where one record has it that a switch was off
already, another tells what the user had chosen.  The second is stronger than
`OriginalKnown`, which is not inductive: which record is restored, and when, is
open, and the choice must be on some record after any of them.

**Ledger.**  `RowsInOrder` ties the head of a memory to its revisions and to
what it ever said; `CallsInOrder`, what a process has looked up to what is still
so; `MigratedFirst`, that whoever makes calls works on a database in which every
migration was applied, so no call meets a table it does not have.  From these,
receipts tell the revision they made and what is gone is suppressed whole.
For `InjectedCurrent`, what had stopped being current when a verification began
never becomes current again, since revisions only go up and nothing revives a
revision (`HeadGoesOn`, `StaysLost`), so it is never checked off
(`VerifyingInOrder`).  What changes after its own check is injected all the
same: the property is about what the verification can know.  `GoneStaysGone`
looks at the births of memories: `commit` reads the rules in the transaction
that creates, and by `GoneIsSuppressed` they cover everything that a memory gone
by then has said and was learnt from.

**Journal.**  That the cursor skips nothing is not inductive: a call commits
what it looked up before, while other calls stored rows and moved the cursor.
`Inv` joins `NothingSkipped` with `JournalInv`, whose conjunct `CallsHold` says
of every call under way that what it found is still so.  The argument has two
halves.  What was looked up survives the steps of others, because every step
extends the sequence of rows, and a cursor only moves up (`CallStays`).  And a
cursor moves by at most one line: `Ahead` bounds the line that a call has read
from above by the cursor at its commit, `Passes` bounds it from below, so the
line passed is the one that this call has just stored, found stored with the
same content, or quarantined.  `JournalOnlyGrows` follows from the same facts.

**Registry.**  Here too, lookups precede transactions, and the invariant is
taken apart by table: places, sessions and tasks, bindings, events, candidates,
batches, what is shown.  Tables only grow (`RegisterGrows`, `RecordGrows`), and
the columns that other rows are checked against do not change (`Stays`), so what
a caller has found holds when it writes (`LookupsHold`).  Only the directory of a
workspace moves, and the three resolutions of one event may differ; the
invariant has the request with the workspace of its session, and a context that
mixes that workspace with another project is refused (`ValidContext`).

**Replay.**  That a record tells what happened needs to know it while it is
made: `PresentTells` says of the observation under way, after any number of
attempts, that its errors were ones to retry and that the last trace and what
was made of it agree; `ResultTells`, that the i-th record is that account for
its own place, case `(i - 1) % CaseCount` of repeat `(i - 1) \div CaseCount`.
Three lemmas about the operators of `Judge` carry the rest.  The answer to a
valid case converts only if it is one delta at most, and then the scorer, which
looks at deltas and proposals again, agrees with the conversion
(`ConversionIsFaithful`); a score without fault means the change that the case
asks for (`RightIsGenuine`); and the annotation of a closed case converts and is
scored so (`ClosedIsAnswerable`).  `FilesTell` does not depend on where a file
comes from: admission scores every line afresh from its deltas.  What it needs is
a count.  An admitted file has as many lines as there are keys and a line for
each, so one for each (a surjection between finite sets of one size), which makes
`Repeats` lines of a case and `CaseCount` of a repeat, all without fault: the
numbers that `Accepted` asks for.

### Only model-checked

* Liveness, since the prover does not reason about `ENABLED`: the properties of
  rest and termination of `schedule`, `rollback` and `window`.
* The properties that documents state and the code does not satisfy, which are
  counterexamples and not theorems.

## 5. Plan

1. `Reconciliation`: an abstract specification of maintenance (a candidate is
   waiting, under review or decided, once) with `Batch` as its refinement.
2. `Schedule` with several sessions and with two daemons during an update.
3. The setup scripts around the daemon's pid file.

## 6. Not modelled, and why

The content of a migration: `Ledger` has who migrates and when, and a database
that lacks one; what a migration does to rows is SQL run once under the write
lock.  Hosts, hook, daemon, command line and console parse, format and wire;
their effects on shared state go through the components above, and `Registry`,
`Ingest` and `Window` have their threads and processes.  Prompts, HTTP and JSON
of the model access are left out; an answer is a choice.  Pure filters and
orderings of a bundle (budgets of characters) relate no two pieces of state.
The memory laboratory, the demonstrations, the fixture benchmarks and the audit
of settings are offline tools.  The legacy markdown store (`store.py`,
`writer.py`, `runner.py` and what they use) is imported by nothing but its own
tests.  The setup and probe scripts act on the operator's machine.  The race of
two processes for the first row of `owners` (`ledger/service.py`, line 151) and
the other hazards that no property covers are listed in `PROJECT.json` with the
reason.
