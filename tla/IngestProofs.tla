----------------------------- MODULE IngestProofs -----------------------------
(***************************************************************************)
(* Theorems about what comes in, for any number of processes, keys,        *)
(* receipts, digests, runs, edits, sessions, events, callers and sources.  *)
(*                                                                         *)
(* The control plane, and the events that enter through it: ControlInv is  *)
(* inductive for ControlNext, and with it IngestInv and BudgetsHold for    *)
(* IngestNext; what no step undoes follows from them step by step.         *)
(*                                                                         *)
(* The journal that keeps events: its invariant, that no cursor skips a    *)
(* line, and that no call takes the journal back.                          *)
(***************************************************************************)
EXTENDS Ingest, Journal, FiniteSetTheorems, SequenceTheorems, TLAPS

\* At most one run is unfinished, said of runs instead of their number.
AtMostOneLive ==
    \A m, n \in 1..MaxRuns :
        runs[m].status \in Unfinished /\ runs[n].status \in Unfinished => m = n

-----------------------------------------------------------------------------
(***************************************************************************)
(* Counting.                                                               *)
(***************************************************************************)
LEMMA AtMostOneElement ==
    ASSUME NEW S, IsFiniteSet(S)
    PROVE  Cardinality(S) <= 1 <=> \A x, y \in S : x = y
<1>1. ASSUME Cardinality(S) <= 1
      PROVE  \A x, y \in S : x = y
  <2>1. Cardinality(S) = 0 \/ Cardinality(S) = 1
    BY <1>1, FS_CardinalityType
  <2>2. S = {} \/ \E x : S = {x}
    BY <2>1, FS_EmptySet, FS_Singleton
  <2> QED
    BY <2>2
<1>2. ASSUME \A x, y \in S : x = y
      PROVE  Cardinality(S) <= 1
  <2>1. CASE S = {}
    BY <2>1, FS_EmptySet
  <2>2. CASE S # {}
    <3>1. PICK x : S = {x}
      BY <2>2, <1>2
    <3> QED
      BY <3>1, FS_Singleton
  <2> QED
    BY <2>1, <2>2
<1> QED
  BY <1>1, <1>2

LEMMA OneLiveMeans == OneLiveRun <=> AtMostOneLive
<1> DEFINE S == {n \in 1..MaxRuns : runs[n].status \in Unfinished}
<1>1. IsFiniteSet(S)
  <2>1. IsFiniteSet(1..MaxRuns)
    BY FS_Interval, ControlAssumption
  <2>2. S \in SUBSET (1..MaxRuns)
    OBVIOUS
  <2> HIDE DEF S
  <2> QED
    BY <2>1, <2>2, FS_Subset
<1>2. Cardinality(S) <= 1 <=> \A x, y \in S : x = y
  <2> HIDE DEF S
  <2> QED
    BY <1>1, AtMostOneElement
<1>3. (\A x, y \in S : x = y) <=> AtMostOneLive
  BY DEF AtMostOneLive
<1> QED
  BY <1>2, <1>3 DEF OneLiveRun

\* The run that is created next.
LEMMA NextRunIs ==
    ASSUME RunsInOrder
    PROVE  \E k \in 0..MaxRuns : Created = 1..k /\ NextRun = k + 1
<1>1. PICK k \in 0..MaxRuns : Created = 1..k
  BY DEF RunsInOrder
<1>2. Cardinality(1..k) = k
  <2>1. 1 \in Int /\ k \in Int /\ k \in Nat
    BY ControlAssumption
  <2> QED
    BY <2>1, FS_Interval
<1> QED
  BY <1>1, <1>2 DEF NextRun

\* A run that is stopped, a run that is not live any more.
LEMMA RunShape ==
    ASSUME NEW run \in Run
    PROVE  /\ Stopping(run) \in Run /\ Stopping(run).status = "stopping"
           /\ Stopping(run).epoch = run.epoch + 1
           /\ Stopping(run).receipt = run.receipt /\ Stopping(run).key = run.key
           /\ run.epoch \in Nat /\ run.status \in Unfinished \cup {"none", "stopped"}
           /\ run.receipt \in Receipts \cup {NoReceipt}
           /\ \A s \in Unfinished \cup {"none", "stopped"} :
                LET new == [run EXCEPT !.status = s] IN
                new \in Run /\ new.status = s /\ new.receipt = run.receipt
                /\ new.key = run.key /\ new.epoch = run.epoch
           /\ LET new == [run EXCEPT !.overdue = TRUE] IN
                new \in Run /\ new.status = run.status /\ new.receipt = run.receipt
                /\ new.key = run.key /\ new.epoch = run.epoch
<1>1. /\ run.epoch \in Nat /\ run.status \in Unfinished \cup {"none", "stopped"}
      /\ run.receipt \in Receipts \cup {NoReceipt}
  BY DEF Run
<1>2. /\ Stopping(run) = [run EXCEPT !.status = "stopping", !.epoch = run.epoch + 1,
                                     !.overdue = FALSE]
      /\ run.epoch + 1 \in Nat /\ "stopping" \in Unfinished
  BY <1>1 DEF Stopping, Unfinished
<1>3. /\ Stopping(run) \in Run /\ Stopping(run).status = "stopping"
      /\ Stopping(run).epoch = run.epoch + 1
      /\ Stopping(run).receipt = run.receipt /\ Stopping(run).key = run.key
  BY <1>2 DEF Run
<1>4. ASSUME NEW s \in Unfinished \cup {"none", "stopped"}
      PROVE  LET new == [run EXCEPT !.status = s] IN
             new \in Run /\ new.status = s /\ new.receipt = run.receipt
             /\ new.key = run.key /\ new.epoch = run.epoch
  BY DEF Run
<1>5. LET new == [run EXCEPT !.overdue = TRUE] IN
      new \in Run /\ new.status = run.status /\ new.receipt = run.receipt
      /\ new.key = run.key /\ new.epoch = run.epoch
  BY DEF Run
<1> QED
  BY <1>1, <1>3, <1>4, <1>5

LEMMA JobShape ==
    ASSUME ControlTypeOK, NEW p \in Procs, job[p] # NoJob
    PROVE  /\ job[p] \in Jobs /\ job[p].receipt \in Receipts /\ job[p].run \in 1..MaxRuns
           /\ job[p].result \in {"authorized"} \cup Final
           /\ job[p].phase \in {"running", "working", "saving"}
BY DEF ControlTypeOK, Jobs

LEMMA ControlInitInv == ControlInit => ControlInv
<1> SUFFICES ASSUME ControlInit PROVE ControlInv
  OBVIOUS
<1> USE ControlAssumption
<1>1. NoRun \in Run /\ NoRun.status = "none" /\ NoRun.receipt = NoReceipt
  BY DEF NoRun, Run
<1>2. ControlTypeOK
  <2>1. edits \in 0..MaxEdits /\ began \subseteq 1..MaxRuns
    BY DEF ControlInit
  <2>5. stop \in BOOLEAN
    BY DEF ControlInit
  <2>2. conf \in Config /\ cfg \in [Procs -> Config \cup {Stopped}]
    BY DEF ControlInit, Config
  <2>3. /\ keys \in [Keys -> {"none", "current", "retired"}]
        /\ grants \in [Receipts -> Grant \cup {NoGrant}]
        /\ receipts \in [Receipts -> Action \cup {NoAction}]
        /\ job \in [Procs -> {NoJob} \cup Jobs]
    BY DEF ControlInit
  <2>4. runs \in [1..MaxRuns -> Run]
    BY <1>1 DEF ControlInit
  <2> QED
    BY <2>1, <2>2, <2>3, <2>4, <2>5 DEF ControlTypeOK
<1>3. ActivationOnce /\ AtMostOneLive
  BY <1>1 DEF ControlInit, ActivationOnce, AtMostOneLive, Unfinished, Live
<1>4. Created = 1..0
  BY <1>1 DEF ControlInit, Created
<1>5. RunsInOrder
  BY <1>1, <1>4 DEF ControlInit, RunsInOrder, NoAction, NoJob
<1> QED
  BY <1>2, <1>3, <1>5, OneLiveMeans DEF ControlInv

-----------------------------------------------------------------------------
(***************************************************************************)
(* Steps that change no run.                                               *)
(***************************************************************************)
\* Receipts may be added, and results saved over; rollbacks are of runs there
\* are, and so are jobs.
LEMMA RunsUntouched ==
    ASSUME ControlInv, ControlTypeOK', UNCHANGED <<runs, began>>,
           \A r \in Receipts : receipts[r] # NoAction => receipts'[r] # NoAction,
           \A r \in Receipts : receipts'[r].action = "rollback" => receipts'[r].run \in Created,
           \A p \in Procs : job'[p] # NoJob =>
             /\ job'[p].run \in Created
             /\ job'[p].phase = "working" => job'[p].run \in began
    PROVE  ControlInv'
<1>1. ControlTypeOK /\ ActivationOnce /\ OneLiveRun /\ RunsInOrder
  BY DEF ControlInv
<1>2. ActivationOnce' /\ OneLiveRun'
  BY <1>1 DEF ActivationOnce, OneLiveRun
<1>3. Created' = Created
  BY DEF Created
<1>4. \A n \in 1..MaxRuns : runs[n].receipt # NoReceipt => runs[n].receipt \in Receipts
  BY <1>1, RunShape DEF ControlTypeOK
<1>5. RunsInOrder'
  BY <1>1, <1>3, <1>4 DEF RunsInOrder
<1> QED
  BY <1>2, <1>5 DEF ControlInv

LEMMA EditConfigKeeps == ASSUME ControlInv, NEW c \in Config, EditConfig(c) PROVE ControlInv'
<1>1. ControlTypeOK'
  BY ControlAssumption DEF ControlInv, ControlTypeOK, EditConfig
<1> QED
  BY <1>1, RunsUntouched DEF EditConfig, ControlInv, RunsInOrder

LEMMA StopFileKeeps == ASSUME ControlInv, StopFile PROVE ControlInv'
<1>1. stop' \in BOOLEAN
  BY DEF StopFile
<1>2. ControlTypeOK'
  BY <1>1 DEF ControlInv, ControlTypeOK, StopFile
<1> QED
  BY <1>2, RunsUntouched DEF StopFile, ControlInv, RunsInOrder

LEMMA StartKeeps == ASSUME ControlInv, NEW p \in Procs, Start(p) PROVE ControlInv'
<1>1. ControlTypeOK'
  BY DEF ControlInv, ControlTypeOK, Start
<1> QED
  BY <1>1, RunsUntouched DEF Start, ControlInv, RunsInOrder

LEMMA ExitKeeps == ASSUME ControlInv, NEW p \in Procs, Exit(p) PROVE ControlInv'
<1>1. ControlTypeOK'
  BY DEF ControlInv, ControlTypeOK, Exit
<1>2. \A w \in Procs : job'[w] = job[w] \/ job'[w] = NoJob
  BY DEF ControlInv, ControlTypeOK, Exit
<1> QED
  BY <1>1, <1>2, RunsUntouched DEF Exit, ControlInv, RunsInOrder

LEMMA RegisterGrantKeeps ==
    ASSUME ControlInv, NEW p \in Procs, NEW k \in Keys, NEW r \in Receipts, NEW d \in Digests,
           NEW target \in Receipts, NEW td \in Digests, RegisterGrant(p, k, r, d, target, td)
    PROVE  ControlInv'
<1> DEFINE g == [digest |-> td, key |-> k, consumed |-> FALSE, expired |-> FALSE]
           a == [action |-> "grant", digest |-> d, run |-> 0, result |-> "done"]
<1>1. g \in Grant /\ a \in Action /\ a.action = "grant" /\ a # NoAction
  <2>1. 0 \in 0..MaxRuns
    BY ControlAssumption
  <2>2. a.action # NoAction.action
    BY DEF NoAction
  <2>3. g \in Grant
    BY DEF Grant
  <2>4. a \in Action
    BY <2>1 DEF Action
  <2> QED
    BY <2>2, <2>3, <2>4
<1>2. /\ grants' = [grants EXCEPT ![target] = g] /\ receipts' = [receipts EXCEPT ![r] = a]
      /\ UNCHANGED <<conf, edits, cfg, keys, runs, began, job, stop>>
  BY DEF RegisterGrant
<1> HIDE DEF g, a
<1>3. ControlTypeOK'
  BY <1>1, <1>2 DEF ControlInv, ControlTypeOK
<1>4. \A s \in Receipts : receipts'[s] = IF s = r THEN a ELSE receipts[s]
  BY <1>2 DEF ControlInv, ControlTypeOK
<1> QED
  BY <1>1, <1>2, <1>3, <1>4, RunsUntouched DEF ControlInv, RunsInOrder

LEMMA GrantExpiresKeeps == ASSUME ControlInv, NEW r \in Receipts, GrantExpires(r) PROVE ControlInv'
<1> DEFINE g == [grants[r] EXCEPT !.expired = TRUE]
<1>1. grants[r] \in Grant
  BY DEF GrantExpires, ControlInv, ControlTypeOK
<1>2. g \in Grant
  BY <1>1 DEF Grant
<1>3. ControlTypeOK'
  <2>1. grants' = [grants EXCEPT ![r] = g]
    BY DEF GrantExpires
  <2> HIDE DEF g
  <2> QED
    BY <1>2, <2>1 DEF GrantExpires, ControlInv, ControlTypeOK
<1> QED
  BY <1>3, RunsUntouched DEF GrantExpires, ControlInv, RunsInOrder

\* What an action with a grant leaves of it.
LEMMA ConsumesShape ==
    ASSUME ControlTypeOK, NEW k, NEW r \in Receipts, NEW d, Consumes(k, r, d)
    PROVE  grants' \in [Receipts -> Grant \cup {NoGrant}]
<1>1. CASE grants[r] = NoGrant
  BY <1>1 DEF Consumes, ControlTypeOK
<1>2. CASE grants[r] # NoGrant
  <2> DEFINE g == [grants[r] EXCEPT !.consumed = TRUE]
  <2>1. grants[r] \in Grant
    BY <1>2 DEF ControlTypeOK
  <2>2. g \in Grant
    BY <2>1 DEF Grant
  <2>3. grants' = [grants EXCEPT ![r] = g]
    BY <1>2 DEF Consumes
  <2> HIDE DEF g
  <2> QED
    BY <2>2, <2>3 DEF ControlTypeOK
<1> QED
  BY <1>1, <1>2

\* The rollback of one process moves on, or ends.
LEMMA JobMoves ==
    ASSUME ControlInv, NEW p \in Procs, NEW j \in Jobs \cup {NoJob},
           job' = [job EXCEPT ![p] = j],
           j # NoJob => j.run \in Created /\ (j.phase = "working" => j.run \in began),
           UNCHANGED <<conf, edits, cfg, keys, grants, runs, began, stop>>,
           receipts' \in [Receipts -> Action \cup {NoAction}],
           \A r \in Receipts : /\ receipts[r] # NoAction => receipts'[r] # NoAction
                               /\ receipts'[r].action = "rollback" =>
                                    receipts[r].action = "rollback"
                                    /\ receipts'[r].run = receipts[r].run
    PROVE  ControlInv'
<1>1. ControlTypeOK'
  BY DEF ControlInv, ControlTypeOK
<1>2. \A w \in Procs : job'[w] = IF w = p THEN j ELSE job[w]
  BY DEF ControlInv, ControlTypeOK
<1>3. \A w \in Procs : job'[w] # NoJob =>
        job'[w].run \in Created /\ (job'[w].phase = "working" => job'[w].run \in began)
  BY <1>2 DEF ControlInv, RunsInOrder
<1>4. \A r \in Receipts : receipts'[r].action = "rollback" => receipts'[r].run \in Created
  BY DEF ControlInv, RunsInOrder
<1> QED
  BY <1>1, <1>3, <1>4, RunsUntouched

LEMMA ResumeRollbackKeeps ==
    ASSUME ControlInv, NEW p \in Procs, NEW k \in Keys, NEW r \in Receipts, NEW d \in Digests,
           ResumeRollback(p, k, r, d)
    PROVE  ControlInv'
<1> DEFINE j == [phase |-> "running", receipt |-> r, run |-> receipts[r].run,
                 result |-> "authorized"]
<1>1. receipts[r].run \in Created /\ Created \subseteq 1..MaxRuns
  BY DEF ResumeRollback, ControlInv, RunsInOrder, Created
<1>2. j \in Jobs /\ j.run = receipts[r].run /\ j.phase = "running"
  BY <1>1 DEF Jobs
<1>3. /\ job' = [job EXCEPT ![p] = j]
      /\ UNCHANGED <<conf, edits, cfg, keys, grants, receipts, runs, began, stop>>
  BY DEF ResumeRollback
<1> HIDE DEF j
<1>4. receipts' \in [Receipts -> Action \cup {NoAction}]
  BY <1>3 DEF ControlInv, ControlTypeOK
<1> QED
  BY <1>1, <1>2, <1>3, <1>4, JobMoves

LEMMA RunnerRefusedKeeps == ASSUME ControlInv, NEW p \in Procs, RunnerRefused(p) PROVE ControlInv'
<1> DEFINE j == [job[p] EXCEPT !.phase = "saving"]
<1>1. job[p] # NoJob
  BY DEF RunnerRefused, NoJob
<1>2. job[p] \in Jobs /\ job[p].run \in Created
  BY <1>1, JobShape DEF ControlInv, RunsInOrder
<1>3. j \in Jobs /\ j.run = job[p].run /\ j.phase = "saving"
  BY <1>2 DEF Jobs
<1>4. /\ job' = [job EXCEPT ![p] = j]
      /\ UNCHANGED <<conf, edits, cfg, keys, grants, receipts, runs, began, stop>>
  BY DEF RunnerRefused
<1> HIDE DEF j
<1>5. receipts' \in [Receipts -> Action \cup {NoAction}]
  BY <1>4 DEF ControlInv, ControlTypeOK
<1> QED
  BY <1>2, <1>3, <1>4, <1>5, JobMoves

\* A result is saved over "authorized" only.
LEMMA SaveResultKeeps == ASSUME ControlInv, NEW p \in Procs, SaveResult(p) PROVE ControlInv'
<1> DEFINE r == job[p].receipt
           a == [receipts[r] EXCEPT !.result = job[p].result]
<1>1. job[p] # NoJob
  BY DEF SaveResult, NoJob
<1>2. r \in Receipts /\ job[p].result \in {"authorized"} \cup Final
  BY <1>1, JobShape DEF ControlInv
<1>3. CASE receipts[r].result = "authorized"
  <2>1. receipts[r] \in Action
    BY <1>2, <1>3 DEF ControlInv, ControlTypeOK, NoAction
  <2>2. a \in Action /\ a.action = receipts[r].action /\ a.run = receipts[r].run
    BY <1>2, <2>1 DEF Action
  <2>3. a.action # "none" /\ NoAction.action = "none"
    BY <2>2 DEF Action, NoAction
  <2>4. receipts' = [receipts EXCEPT ![r] = a] /\ job' = [job EXCEPT ![p] = NoJob]
        /\ UNCHANGED <<conf, edits, cfg, keys, grants, runs, began, stop>>
    BY <1>3 DEF SaveResult
  <2> HIDE DEF a, r
  <2>5. /\ receipts' \in [Receipts -> Action \cup {NoAction}]
        /\ \A s \in Receipts : receipts'[s] = IF s = r THEN a ELSE receipts[s]
    BY <1>2, <2>2, <2>4 DEF ControlInv, ControlTypeOK
  <2>6. \A s \in Receipts : /\ receipts[s] # NoAction => receipts'[s] # NoAction
                            /\ receipts'[s].action = "rollback" =>
                                 receipts[s].action = "rollback"
                                 /\ receipts'[s].run = receipts[s].run
    BY <2>2, <2>3, <2>5
  <2> QED
    BY <2>4, <2>5, <2>6, JobMoves
<1>4. CASE receipts[r].result # "authorized"
  <2>1. /\ job' = [job EXCEPT ![p] = NoJob] /\ receipts' = receipts
        /\ UNCHANGED <<conf, edits, cfg, keys, grants, runs, began, stop>>
    BY <1>4 DEF SaveResult
  <2>2. receipts' \in [Receipts -> Action \cup {NoAction}]
    BY <2>1 DEF ControlInv, ControlTypeOK
  <2> QED
    BY <2>1, <2>2, JobMoves
<1> QED
  BY <1>3, <1>4

-----------------------------------------------------------------------------
(***************************************************************************)
(* Steps that change a run.                                                *)
(***************************************************************************)
\* A run there is changes: it stays unfinished, is finished, or is unfinished
\* again where no other is.
LEMMA RunMoves ==
    ASSUME ControlInv, NEW n \in 1..MaxRuns, n \in Created, NEW run \in Run,
           runs' = [runs EXCEPT ![n] = run],
           run.receipt = runs[n].receipt, run.status # "none",
           run.status \in Unfinished => runs[n].status \in Unfinished \/ MayActivate,
           began' \in {began, began \cup {n}},
           run.status = "stopped" => n \in began',
           n \in began' => run.status \in {"stopping", "stopped"},
           UNCHANGED <<conf, edits, cfg, keys, stop>>,
           grants' \in [Receipts -> Grant \cup {NoGrant}],
           receipts' \in [Receipts -> Action \cup {NoAction}],
           job' \in [Procs -> {NoJob} \cup Jobs],
           \A r \in Receipts : receipts[r] # NoAction => receipts'[r] # NoAction,
           \A r \in Receipts : receipts'[r].action = "rollback" => receipts'[r].run \in Created,
           \A p \in Procs : job'[p] # NoJob =>
             /\ job'[p].run \in Created
             /\ job'[p].phase = "working" => job'[p].run \in began'
    PROVE  ControlInv'
<1>1. ControlTypeOK /\ ActivationOnce /\ AtMostOneLive /\ RunsInOrder
  BY OneLiveMeans DEF ControlInv
<1>2. /\ runs' \in [1..MaxRuns -> Run]
      /\ \A m \in 1..MaxRuns : runs'[m] = IF m = n THEN run ELSE runs[m]
  BY <1>1 DEF ControlTypeOK
<1>3. ControlTypeOK'
  BY <1>1, <1>2 DEF ControlTypeOK
<1>4. ActivationOnce'
  <2>1. \A m \in 1..MaxRuns : runs'[m].receipt = runs[m].receipt
    BY <1>2
  <2> QED
    BY <2>1, <1>1 DEF ActivationOnce
<1>5. AtMostOneLive'
  BY <1>1, <1>2 DEF AtMostOneLive, MayActivate
<1>6. Created' = Created
  BY <1>2 DEF Created
<1>7. RunsInOrder'
  <2>1. \A m \in 1..MaxRuns : runs[m].receipt # NoReceipt => runs[m].receipt \in Receipts
    BY <1>1, RunShape DEF ControlTypeOK
  <2>2. ASSUME NEW m \in 1..MaxRuns
        PROVE  /\ runs'[m].receipt # NoReceipt => receipts'[runs'[m].receipt] # NoAction
               /\ runs'[m].status = "stopped" => m \in began'
               /\ m \in began' => runs'[m].status \in {"stopping", "stopped"}
    <3>1. CASE m = n
      BY <3>1, <2>1, <1>1, <1>2 DEF RunsInOrder
    <3>2. CASE m # n
      BY <3>2, <2>1, <1>1, <1>2 DEF RunsInOrder
    <3> QED
      BY <3>1, <3>2
  <2>3. \E k \in 0..MaxRuns : Created' = 1..k
    BY <1>1, <1>6 DEF RunsInOrder
  <2> QED
    BY <2>2, <2>3, <1>6 DEF RunsInOrder
<1> QED
  BY <1>3, <1>4, <1>5, <1>7, OneLiveMeans, PTL DEF ControlInv

\* The same where nothing but the run changes.
LEMMA RunMovesAlone ==
    ASSUME ControlInv, NEW n \in 1..MaxRuns, NEW run \in Run,
           runs' = [runs EXCEPT ![n] = run],
           run.receipt = runs[n].receipt, run.status # "none", runs[n].status # "none",
           run.status \in Unfinished => runs[n].status \in Unfinished \/ MayActivate,
           run.status = "stopped" => n \in began,
           n \in began => run.status \in {"stopping", "stopped"},
           UNCHANGED <<conf, edits, cfg, keys, grants, receipts, began, job, stop>>
    PROVE  ControlInv'
<1>1. /\ grants' \in [Receipts -> Grant \cup {NoGrant}]
      /\ receipts' \in [Receipts -> Action \cup {NoAction}]
      /\ job' \in [Procs -> {NoJob} \cup Jobs]
  BY DEF ControlInv, ControlTypeOK
<1>2. n \in Created
  BY DEF Created
<1>3. /\ \A r \in Receipts : receipts'[r].action = "rollback" => receipts'[r].run \in Created
      /\ \A p \in Procs : job'[p] # NoJob =>
           /\ job'[p].run \in Created
           /\ job'[p].phase = "working" => job'[p].run \in began'
  BY DEF ControlInv, RunsInOrder
<1> QED
  BY <1>1, <1>2, <1>3, RunMoves

LEMMA DeadlinePassesKeeps ==
    ASSUME ControlInv, NEW n \in 1..MaxRuns, DeadlinePasses(n)
    PROVE  ControlInv'
<1> DEFINE run == [runs[n] EXCEPT !.overdue = TRUE]
<1>1. runs[n] \in Run /\ runs[n].status \in Live
  BY DEF DeadlinePasses, ControlInv, ControlTypeOK
<1>2. run \in Run /\ run.status = runs[n].status /\ run.receipt = runs[n].receipt
  BY <1>1, RunShape
<1>3. n \notin began /\ runs[n].status \in Unfinished /\ run.status # "none"
      /\ run.status # "stopped"
  BY <1>1, <1>2 DEF ControlInv, RunsInOrder, Live, Unfinished
<1>4. /\ runs' = [runs EXCEPT ![n] = run]
      /\ UNCHANGED <<conf, edits, cfg, keys, grants, receipts, began, job, stop>>
  BY DEF DeadlinePasses
<1> HIDE DEF run
<1> QED
  BY <1>2, <1>3, <1>4, RunMovesAlone

LEMMA StopRunKeeps ==
    ASSUME ControlInv, NEW p \in Procs, NEW n \in 1..MaxRuns, StopRun(p, n)
    PROVE  ControlInv'
<1>1. runs[n] \in Run /\ runs[n].status \in Live
  BY DEF StopRun, ControlInv, ControlTypeOK
<1>2. /\ Stopping(runs[n]) \in Run /\ Stopping(runs[n]).status = "stopping"
      /\ Stopping(runs[n]).receipt = runs[n].receipt
  BY <1>1, RunShape
<1>3. n \notin began /\ runs[n].status \in Unfinished /\ runs[n].status # "none"
  BY <1>1 DEF ControlInv, RunsInOrder, Live, Unfinished
<1>4. /\ runs' = [runs EXCEPT ![n] = Stopping(runs[n])]
      /\ UNCHANGED <<conf, edits, cfg, keys, grants, receipts, began, job, stop>>
  BY DEF StopRun
<1> QED
  BY <1>2, <1>3, <1>4, RunMovesAlone

LEMMA ReopenKeeps == ASSUME ControlInv, NEW n \in 1..MaxRuns, Reopen(n) PROVE ControlInv'
<1> DEFINE run == [runs[n] EXCEPT !.status = "stopping"]
<1>1. runs[n] \in Run /\ runs[n].status = "stopped" /\ MayActivate
  BY DEF Reopen, ControlInv, ControlTypeOK
<1>2. run \in Run /\ run.status = "stopping" /\ run.receipt = runs[n].receipt
  BY <1>1 DEF Run, Unfinished, Live
<1>3. /\ runs' = [runs EXCEPT ![n] = run]
      /\ UNCHANGED <<conf, edits, cfg, keys, grants, receipts, began, job, stop>>
  BY DEF Reopen
<1> HIDE DEF run
<1> QED
  BY <1>1, <1>2, <1>3, RunMovesAlone

LEMMA RollbackKeeps ==
    ASSUME ControlInv, NEW p \in Procs, NEW k \in Keys, NEW r \in Receipts, NEW d \in Digests,
           NEW n \in 1..MaxRuns, NEW result \in {"ended", "authorized"},
           Rollback(p, k, r, d, n, result)
    PROVE  ControlInv'
<1> DEFINE run == IF runs[n].status \in Live THEN Stopping(runs[n]) ELSE runs[n]
           a == [action |-> "rollback", digest |-> d, run |-> n, result |-> result]
           j == [phase |-> "running", receipt |-> r, run |-> n, result |-> result]
<1>1. /\ receipts[r] = NoAction /\ runs[n].status # "none" /\ Consumes(k, r, d)
      /\ runs' = [runs EXCEPT ![n] = run]
      /\ receipts' = [receipts EXCEPT ![r] = a]
      /\ job' = job \/ job' = [job EXCEPT ![p] = j]
      /\ UNCHANGED <<conf, edits, cfg, keys, began, stop>>
  BY DEF Rollback
<1>2. runs[n] \in Run /\ n \in Created
  BY <1>1 DEF ControlInv, ControlTypeOK, Created
<1>3. /\ run \in Run /\ run.receipt = runs[n].receipt
      /\ run.status = IF runs[n].status \in Live THEN "stopping" ELSE runs[n].status
  BY <1>2, RunShape
<1>4. /\ run.status # "none"
      /\ run.status \in Unfinished => runs[n].status \in Unfinished
      /\ run.status = "stopped" => n \in began
      /\ n \in began => run.status \in {"stopping", "stopped"}
  BY <1>1, <1>3 DEF ControlInv, RunsInOrder, Live, Unfinished
<1>5. a \in Action /\ a # NoAction /\ a.run = n
  <2>1. a.action # NoAction.action
    BY DEF NoAction
  <2>2. n \in 0..MaxRuns
    BY ControlAssumption
  <2>3. a \in Action
    BY <2>2 DEF Action, Final
  <2> QED
    BY <2>1, <2>3
<1>6. j \in Jobs /\ j.run = n /\ j.phase = "running"
  <2>1. result \in {"authorized"} \cup Final
    BY DEF Final
  <2> QED
    BY <2>1 DEF Jobs
<1> HIDE DEF run, a, j
<1>7. /\ receipts' \in [Receipts -> Action \cup {NoAction}]
      /\ \A s \in Receipts : receipts'[s] = IF s = r THEN a ELSE receipts[s]
  BY <1>1, <1>5 DEF ControlInv, ControlTypeOK
<1>8. /\ job' \in [Procs -> {NoJob} \cup Jobs]
      /\ \A w \in Procs : job'[w] = job[w] \/ job'[w] = j
  BY <1>1, <1>6 DEF ControlInv, ControlTypeOK
<1>9. grants' \in [Receipts -> Grant \cup {NoGrant}]
  BY <1>1, ConsumesShape DEF ControlInv
<1>10. \A s \in Receipts : receipts[s] # NoAction => receipts'[s] # NoAction
  BY <1>5, <1>7
<1>11. \A s \in Receipts : receipts'[s].action = "rollback" => receipts'[s].run \in Created
  BY <1>2, <1>5, <1>7 DEF ControlInv, RunsInOrder
<1>12. \A w \in Procs : job'[w] # NoJob =>
         /\ job'[w].run \in Created
         /\ job'[w].phase = "working" => job'[w].run \in began'
  BY <1>1, <1>2, <1>6, <1>8 DEF ControlInv, RunsInOrder
<1> QED
  BY <1>1, <1>2, <1>3, <1>4, <1>7, <1>9, <1>8, <1>10, <1>11, <1>12, RunMoves

\* The first runner of a run finds it live or stopping.
LEMMA RunnerBeginsKeeps == ASSUME ControlInv, NEW p \in Procs, RunnerBegins(p) PROVE ControlInv'
<1> DEFINE n == job[p].run
           run == IF n \in began THEN runs[n] ELSE Stopping(runs[n])
           j == [job[p] EXCEPT !.phase = "working"]
<1>1. /\ job[p].phase = "running"
      /\ began' = began \cup {n}
      /\ runs' = IF n \in began THEN runs ELSE [runs EXCEPT ![n] = Stopping(runs[n])]
      /\ job' = [job EXCEPT ![p] = j]
      /\ UNCHANGED <<conf, edits, cfg, keys, grants, receipts, stop>>
  BY DEF RunnerBegins
<1>2. job[p] # NoJob
  BY <1>1 DEF NoJob
<1>3. job[p] \in Jobs /\ n \in Created /\ n \in 1..MaxRuns
  BY <1>2, JobShape DEF ControlInv, RunsInOrder
<1>4. runs[n] \in Run /\ runs[n].status # "none"
  BY <1>3 DEF ControlInv, ControlTypeOK, Created
<1>5. /\ run \in Run /\ run.receipt = runs[n].receipt
      /\ run.status = IF n \in began THEN runs[n].status ELSE "stopping"
  BY <1>4, RunShape
<1>6. runs' = [runs EXCEPT ![n] = run]
  BY <1>1, <1>3 DEF ControlInv, ControlTypeOK
<1>7. n \notin began => runs[n].status \in Unfinished
  BY <1>3, <1>4, RunShape DEF ControlInv, RunsInOrder
<1>8. /\ run.status # "none"
      /\ run.status \in Unfinished => runs[n].status \in Unfinished
      /\ run.status \in {"stopping", "stopped"}
  BY <1>3, <1>5, <1>7 DEF ControlInv, RunsInOrder
<1>9. j \in Jobs /\ j.run = n
  BY <1>3 DEF Jobs
<1> HIDE DEF run, j
<1>10. PICK m \in 1..MaxRuns : m = n
  BY <1>3
<1> HIDE DEF n
<1>11. /\ job' \in [Procs -> {NoJob} \cup Jobs]
       /\ \A w \in Procs : job'[w] = IF w = p THEN j ELSE job[w]
  BY <1>1, <1>9 DEF ControlInv, ControlTypeOK
<1>12. \A w \in Procs : job'[w] # NoJob =>
         /\ job'[w].run \in Created
         /\ job'[w].phase = "working" => job'[w].run \in began'
  BY <1>1, <1>3, <1>9, <1>11 DEF ControlInv, RunsInOrder
<1>13. /\ grants' \in [Receipts -> Grant \cup {NoGrant}]
       /\ receipts' \in [Receipts -> Action \cup {NoAction}]
  BY <1>1 DEF ControlInv, ControlTypeOK
<1>14. \A r \in Receipts : receipts'[r].action = "rollback" => receipts'[r].run \in Created
  BY <1>1 DEF ControlInv, RunsInOrder
<1> QED
  BY <1>1, <1>3, <1>5, <1>6, <1>8, <1>10, <1>11, <1>12, <1>13, <1>14, RunMoves

LEMMA RunnerReturnsKeeps ==
    ASSUME ControlInv, NEW p \in Procs, NEW result \in {"raised"} \cup Final,
           RunnerReturns(p, result)
    PROVE  ControlInv'
<1> DEFINE n == job[p].run
           run == [runs[n] EXCEPT !.status = "stopped"]
           j == IF result = "raised" THEN NoJob
                ELSE [job[p] EXCEPT !.phase = "saving", !.result = result]
<1>1. /\ job[p].phase = "working"
      /\ runs' = IF result = "completed" THEN [runs EXCEPT ![n] = run] ELSE runs
      /\ job' = [job EXCEPT ![p] = j]
      /\ UNCHANGED <<conf, edits, cfg, keys, grants, receipts, began, stop>>
  BY DEF RunnerReturns
<1>2. job[p] # NoJob
  BY <1>1 DEF NoJob
<1>3. job[p] \in Jobs /\ n \in Created /\ n \in 1..MaxRuns /\ n \in began
  BY <1>1, <1>2, JobShape DEF ControlInv, RunsInOrder
<1>4. runs[n] \in Run
  BY <1>3 DEF ControlInv, ControlTypeOK
<1>5. run \in Run /\ run.receipt = runs[n].receipt /\ run.status = "stopped"
  BY <1>4 DEF Run
<1>6. j \in Jobs \cup {NoJob} /\ (j # NoJob => j.run = n /\ j.phase = "saving")
  <2>1. CASE result = "raised"
    BY <2>1
  <2>2. CASE result # "raised"
    BY <2>2, <1>3 DEF Jobs
  <2> QED
    BY <2>1, <2>2
<1>7. receipts' \in [Receipts -> Action \cup {NoAction}]
  BY <1>1 DEF ControlInv, ControlTypeOK
<1>8. CASE result = "completed"
  <2> HIDE DEF run, j
  <2>1. PICK m \in 1..MaxRuns : m = n
    BY <1>3
  <2> HIDE DEF n
  <2>2. /\ job' \in [Procs -> {NoJob} \cup Jobs]
        /\ \A w \in Procs : job'[w] = IF w = p THEN j ELSE job[w]
    BY <1>1, <1>6 DEF ControlInv, ControlTypeOK
  <2>3. \A w \in Procs : job'[w] # NoJob =>
          /\ job'[w].run \in Created
          /\ job'[w].phase = "working" => job'[w].run \in began'
    BY <1>1, <1>3, <1>6, <2>2 DEF ControlInv, RunsInOrder
  <2>4. grants' \in [Receipts -> Grant \cup {NoGrant}]
    BY <1>1 DEF ControlInv, ControlTypeOK
  <2>5. \A r \in Receipts : receipts'[r].action = "rollback" => receipts'[r].run \in Created
    BY <1>1 DEF ControlInv, RunsInOrder
  <2>6. run.status \notin Unfinished /\ run.status # "none"
    BY <1>5 DEF Unfinished, Live
  <2> QED
    BY <1>1, <1>3, <1>5, <1>7, <1>8, <2>1, <2>2, <2>3, <2>4, <2>5, <2>6, RunMoves
<1>9. CASE result # "completed"
  <2> HIDE DEF run, j
  <2> QED
    BY <1>1, <1>3, <1>6, <1>7, <1>9, JobMoves
<1> QED
  BY <1>8, <1>9

\* The bound on activations leaves room, and the receipt was not used before:
\* the run that is added is the only unfinished one.
LEMMA ActivateKeeps ==
    ASSUME ControlInv, NEW p \in Procs, NEW k \in Keys, NEW r \in Receipts, NEW d \in Digests,
           Activate(p, k, r, d)
    PROVE  ControlInv'
<1> DEFINE run == [status |-> "running", epoch |-> 1, receipt |-> r, key |-> k,
                   overdue |-> FALSE]
<1>1. PICK c \in 0..MaxRuns : Created = 1..c /\ NextRun = c + 1
  BY NextRunIs DEF ControlInv
<1>2. PICK n \in 1..MaxRuns : n = c + 1
  BY <1>1, ControlAssumption DEF Activate
<1> DEFINE a == [action |-> "activation", digest |-> d, run |-> n, result |-> "done"]
<1>3. /\ receipts[r] = NoAction /\ Consumes(k, r, d) /\ MayActivate
      /\ runs' = [runs EXCEPT ![n] = run]
      /\ receipts' = [receipts EXCEPT ![r] = a]
      /\ UNCHANGED <<conf, edits, cfg, keys, began, job, stop>>
  BY <1>1, <1>2 DEF Activate
<1>4. run \in Run /\ run.status = "running" /\ run.receipt = r
  BY DEF Run, Unfinished, Live
<1>5. a \in Action /\ a # NoAction /\ a.action # "rollback"
  <2>1. a.action # NoAction.action
    BY DEF NoAction
  <2>2. n \in 0..MaxRuns
    BY ControlAssumption
  <2>3. a \in Action
    BY <2>2 DEF Action
  <2> QED
    BY <2>1, <2>3
<1> HIDE DEF run, a
<1>6. ControlTypeOK /\ ActivationOnce /\ RunsInOrder
  BY DEF ControlInv
<1>7. /\ runs' \in [1..MaxRuns -> Run]
      /\ \A m \in 1..MaxRuns : runs'[m] = IF m = n THEN run ELSE runs[m]
  BY <1>3, <1>4, <1>6 DEF ControlTypeOK
<1>8. /\ receipts' \in [Receipts -> Action \cup {NoAction}]
      /\ \A s \in Receipts : receipts'[s] = IF s = r THEN a ELSE receipts[s]
  BY <1>3, <1>5, <1>6 DEF ControlTypeOK
<1>9. n \notin Created /\ runs[n].status = "none" /\ n \notin began
  <2>1. n \notin Created
    BY <1>1, <1>2, ControlAssumption
  <2>2. runs[n].status = "none"
    BY <2>1 DEF Created
  <2> QED
    BY <2>1, <2>2, <1>6 DEF RunsInOrder
<1>10. ControlTypeOK'
  <2>1. grants' \in [Receipts -> Grant \cup {NoGrant}]
    BY <1>3, <1>6, ConsumesShape
  <2> QED
    BY <2>1, <1>3, <1>6, <1>7, <1>8 DEF ControlTypeOK
<1>11. \A m \in 1..MaxRuns : runs[m].receipt # r
  BY <1>3, <1>6, ControlAssumption DEF RunsInOrder
<1>12. ActivationOnce'
  BY <1>4, <1>6, <1>7, <1>11 DEF ActivationOnce
<1>13. AtMostOneLive'
  BY <1>3, <1>7 DEF AtMostOneLive, MayActivate
<1>14. Created' = Created \cup {n}
  BY <1>4, <1>7 DEF Created
<1>15. Created' = 1..(c + 1) /\ c + 1 \in 0..MaxRuns
  BY <1>1, <1>2, <1>14, ControlAssumption
<1>16. ASSUME NEW m \in 1..MaxRuns
       PROVE  /\ runs'[m].receipt # NoReceipt => receipts'[runs'[m].receipt] # NoAction
              /\ runs'[m].status = "stopped" => m \in began'
              /\ m \in began' => runs'[m].status \in {"stopping", "stopped"}
  <2>1. CASE m = n
    BY <2>1, <1>3, <1>4, <1>5, <1>7, <1>8, <1>9
  <2>2. CASE m # n
    <3>1. runs'[m] = runs[m] /\ (runs[m].receipt # NoReceipt => runs[m].receipt \in Receipts)
      BY <2>2, <1>6, <1>7, RunShape DEF ControlTypeOK
    <3> QED
      BY <3>1, <1>3, <1>5, <1>6, <1>8 DEF RunsInOrder
  <2> QED
    BY <2>1, <2>2
<1>17. \A s \in Receipts : receipts'[s].action = "rollback" => receipts'[s].run \in Created'
  BY <1>5, <1>6, <1>8, <1>14 DEF RunsInOrder
<1>18. \A w \in Procs : job'[w] # NoJob =>
         /\ job'[w].run \in Created'
         /\ job'[w].phase = "working" => job'[w].run \in began'
  BY <1>3, <1>6, <1>14 DEF RunsInOrder
<1>19. RunsInOrder'
  BY <1>15, <1>16, <1>17, <1>18 DEF RunsInOrder
<1> QED
  BY <1>10, <1>12, <1>13, <1>19, OneLiveMeans, PTL DEF ControlInv

LEMMA ControlNextKeeps == ControlInv /\ ControlNext => ControlInv'
<1> SUFFICES ASSUME ControlInv, ControlNext PROVE ControlInv'
  OBVIOUS
<1>1. CASE \E c \in Config : EditConfig(c)
  BY <1>1, EditConfigKeeps
<1>2. CASE StopFile
  BY <1>2, StopFileKeeps
<1>3. ASSUME NEW p \in Procs, Start(p) \/ Exit(p)
      PROVE  ControlInv'
  BY <1>3, StartKeeps, ExitKeeps
<1>4. ASSUME NEW p \in Procs, RunnerBegins(p) \/ SaveResult(p) \/ RunnerRefused(p)
      PROVE  ControlInv'
  BY <1>4, RunnerBeginsKeeps, SaveResultKeeps, RunnerRefusedKeeps
<1>5. ASSUME NEW p \in Procs, NEW n \in 1..MaxRuns, StopRun(p, n)
      PROVE  ControlInv'
  BY <1>5, StopRunKeeps
<1>6. ASSUME NEW p \in Procs, NEW result \in {"raised"} \cup Final, RunnerReturns(p, result)
      PROVE  ControlInv'
  BY <1>6, RunnerReturnsKeeps
<1>7. ASSUME NEW p \in Procs, NEW k \in Keys, NEW r \in Receipts, NEW d \in Digests,
             Activate(p, k, r, d)
      PROVE  ControlInv'
  BY <1>7, ActivateKeeps
<1>8. ASSUME NEW p \in Procs, NEW k \in Keys, NEW r \in Receipts, NEW d \in Digests,
             ResumeRollback(p, k, r, d)
      PROVE  ControlInv'
  BY <1>8, ResumeRollbackKeeps
<1>9. ASSUME NEW p \in Procs, NEW k \in Keys, NEW r \in Receipts, NEW d \in Digests,
             NEW n \in 1..MaxRuns, NEW result \in {"ended", "authorized"},
             Rollback(p, k, r, d, n, result)
      PROVE  ControlInv'
  BY <1>9, RollbackKeeps
<1>10. ASSUME NEW p \in Procs, NEW k \in Keys, NEW r \in Receipts, NEW d \in Digests,
              NEW target \in Receipts, NEW td \in Digests, RegisterGrant(p, k, r, d, target, td)
       PROVE  ControlInv'
  BY <1>10, RegisterGrantKeeps, ZenonT(60)
<1>11. ASSUME NEW r \in Receipts, GrantExpires(r)
       PROVE  ControlInv'
  BY <1>11, GrantExpiresKeeps
<1>12. ASSUME NEW n \in 1..MaxRuns, DeadlinePasses(n) \/ Reopen(n)
       PROVE  ControlInv'
  BY <1>12, DeadlinePassesKeeps, ReopenKeeps
<1> QED
  BY <1>1, <1>2, <1>3, <1>4, <1>5, <1>6, <1>7, <1>8, <1>9, <1>10, <1>11, <1>12
     DEF ControlNext
-----------------------------------------------------------------------------
(***************************************************************************)
(* What no step of the control plane does.                                 *)
(***************************************************************************)
KeysRetire == \A k \in Keys : keys[k] = "retired" => keys'[k] = "retired"

GrantsUsed ==
    \A n \in 1..MaxRuns :
        runs[n].status = "none" /\ runs'[n].status = "running" /\ keys[runs'[n].key] = "retired"
        => LET r == runs'[n].receipt IN
           grants[r] # NoGrant /\ ~grants[r].consumed /\ grants'[r].consumed

SignedNow ==
    \A r \in Receipts : receipts[r] = NoAction /\ receipts'[r] # NoAction
        => \E p \in Procs : cfg[p] # Stopped /\ keys[cfg[p].key] = "current"

ResultsStay ==
    \A r \in Receipts : receipts[r] # NoAction /\ receipts[r].result \in Final
        => receipts'[r] = receipts[r]

Fenced ==
    \A n \in 1..MaxRuns : runs[n].status \in Live /\ runs'[n].status \notin Live
        => runs'[n].epoch > runs[n].epoch

\* A run does not disappear, and none but a new one starts to run.
RunsGoOn ==
    \A n \in 1..MaxRuns :
        /\ runs[n].status # "none" => runs'[n].status # "none"
        /\ runs'[n].status = "running" => runs[n].status \in {"none", "running"}

Rules == KeysRetire /\ GrantsUsed /\ SignedNow /\ ResultsStay /\ Fenced /\ RunsGoOn

LEMMA QuietRules ==
    UNCHANGED <<keys, receipts, runs>> => Rules
BY DEF Rules, KeysRetire, GrantsUsed, SignedNow, ResultsStay, Fenced, RunsGoOn

\* One run changes, and is not opened.
LEMMA RunRules ==
    ASSUME ControlTypeOK, NEW n \in 1..MaxRuns, NEW run,
           runs' = [runs EXCEPT ![n] = run],
           runs[n].status # "none" => run.status # "none",
           run.status = "running" => runs[n].status = "running",
           runs[n].status \in Live /\ run.status \notin Live => run.epoch > runs[n].epoch
    PROVE  GrantsUsed /\ Fenced /\ RunsGoOn
<1>1. \A m \in 1..MaxRuns : runs'[m] = IF m = n THEN run ELSE runs[m]
  BY DEF ControlTypeOK
<1>2. GrantsUsed
  BY <1>1 DEF GrantsUsed
<1>3. Fenced
  BY <1>1 DEF Fenced
<1>4. RunsGoOn
  BY <1>1 DEF RunsGoOn
<1> QED
  BY <1>2, <1>3, <1>4

\* A request is signed with the key in force.
LEMMA AuthenticIsCurrent ==
    ASSUME ControlTypeOK, NEW p \in Procs, NEW k, NEW b, Authentic(p, k, b)
    PROVE  cfg[p] # Stopped /\ keys[cfg[p].key] = "current"
BY DEF Authentic, Current

LEMMA StartRules == ASSUME ControlInv, NEW p \in Procs, Start(p) PROVE Rules
<1>1. KeysRetire
  BY DEF Start, SyncAllowed, Current, KeysRetire, ControlInv, ControlTypeOK
<1>2. GrantsUsed /\ SignedNow /\ ResultsStay /\ Fenced /\ RunsGoOn
  BY DEF Start, GrantsUsed, SignedNow, ResultsStay, Fenced, RunsGoOn
<1> QED
  BY <1>1, <1>2 DEF Rules

LEMMA StoppingShape ==
    ASSUME NEW run \in Run
    PROVE  Stopping(run).status = "stopping" /\ Stopping(run).epoch > run.epoch
<1>1. /\ Stopping(run).status = "stopping" /\ Stopping(run).epoch = run.epoch + 1
      /\ run.epoch \in Nat
  BY RunShape
<1> QED
  BY <1>1

LEMMA RunStepRules ==
    ASSUME ControlInv, NEW n \in 1..MaxRuns, NEW p \in Procs,
           DeadlinePasses(n) \/ Reopen(n) \/ StopRun(p, n)
    PROVE  Rules
<1>1. ControlTypeOK /\ runs[n] \in Run
  BY DEF ControlInv, ControlTypeOK
<1>2. GrantsUsed /\ Fenced /\ RunsGoOn
  <2>1. CASE DeadlinePasses(n)
    <3> DEFINE run == [runs[n] EXCEPT !.overdue = TRUE]
    <3>1. run.status = runs[n].status
      BY <1>1 DEF Run
    <3>2. runs' = [runs EXCEPT ![n] = run]
      BY <2>1 DEF DeadlinePasses
    <3> HIDE DEF run
    <3> QED
      BY <1>1, <3>1, <3>2, RunRules
  <2>2. CASE Reopen(n)
    <3> DEFINE run == [runs[n] EXCEPT !.status = "stopping"]
    <3>1. run.status = "stopping"
      BY <1>1 DEF Run
    <3>3. runs[n].status \notin Live
      BY <2>2 DEF Reopen, Live
    <3>2. runs' = [runs EXCEPT ![n] = run]
      BY <2>2 DEF Reopen
    <3> HIDE DEF run
    <3> QED
      BY <1>1, <3>1, <3>2, <3>3, RunRules
  <2>3. CASE StopRun(p, n)
    <3>1. /\ Stopping(runs[n]).status = "stopping"
          /\ Stopping(runs[n]).epoch > runs[n].epoch
      BY <1>1, StoppingShape
    <3>2. runs' = [runs EXCEPT ![n] = Stopping(runs[n])]
      BY <2>3 DEF StopRun
    <3> QED
      BY <1>1, <3>1, <3>2, RunRules
  <2> QED
    BY <2>1, <2>2, <2>3
<1>3. KeysRetire /\ SignedNow /\ ResultsStay
  BY DEF DeadlinePasses, Reopen, StopRun, KeysRetire, SignedNow, ResultsStay
<1> QED
  BY <1>2, <1>3 DEF Rules

\* The receipt is new, and whoever writes it has the key in force.
LEMMA NewReceiptRules ==
    ASSUME ControlTypeOK, NEW p \in Procs, NEW k, NEW b, Authentic(p, k, b),
           NEW r \in Receipts, NEW a, receipts[r] = NoAction,
           receipts' = [receipts EXCEPT ![r] = a], UNCHANGED keys
    PROVE  KeysRetire /\ SignedNow /\ ResultsStay
<1>1. KeysRetire
  BY DEF KeysRetire
<1>2. SignedNow
  BY AuthenticIsCurrent DEF SignedNow
<1>3. ResultsStay
  BY DEF ResultsStay, ControlTypeOK
<1> QED
  BY <1>1, <1>2, <1>3

LEMMA RegisterGrantRules ==
    ASSUME ControlInv, NEW p \in Procs, NEW k \in Keys, NEW r \in Receipts, NEW d \in Digests,
           NEW target \in Receipts, NEW td \in Digests, RegisterGrant(p, k, r, d, target, td)
    PROVE  Rules
<1> DEFINE a == [action |-> "grant", digest |-> d, run |-> 0, result |-> "done"]
<1>1. /\ Authentic(p, k, FALSE) /\ receipts[r] = NoAction /\ ControlTypeOK
      /\ receipts' = [receipts EXCEPT ![r] = a] /\ UNCHANGED <<keys, runs>>
  BY DEF RegisterGrant, ControlInv
<1> HIDE DEF a
<1>2. KeysRetire /\ SignedNow /\ ResultsStay
  BY <1>1, NewReceiptRules, ZenonT(60)
<1>3. GrantsUsed /\ Fenced /\ RunsGoOn
  BY <1>1 DEF GrantsUsed, Fenced, RunsGoOn
<1> QED
  BY <1>2, <1>3 DEF Rules

LEMMA ActivateRules ==
    ASSUME ControlInv, NEW p \in Procs, NEW k \in Keys, NEW r \in Receipts, NEW d \in Digests,
           Activate(p, k, r, d)
    PROVE  Rules
<1> DEFINE run == [status |-> "running", epoch |-> 1, receipt |-> r, key |-> k,
                   overdue |-> FALSE]
           a == [action |-> "activation", digest |-> d, run |-> NextRun, result |-> "done"]
<1>1. /\ Authentic(p, k, TRUE) /\ receipts[r] = NoAction /\ Consumes(k, r, d)
      /\ runs' = [runs EXCEPT ![NextRun] = run]
      /\ receipts' = [receipts EXCEPT ![r] = a] /\ UNCHANGED keys
  BY DEF Activate
<1>2. ControlTypeOK /\ RunsInOrder
  BY DEF ControlInv
<1>3. PICK c \in 0..MaxRuns : Created = 1..c /\ NextRun = c + 1
  BY <1>2, NextRunIs
<1>4. NextRun \in 1..MaxRuns /\ runs[NextRun].status = "none"
  <2>1. NextRun \in 1..MaxRuns /\ NextRun \notin Created
    BY <1>3, ControlAssumption DEF Activate
  <2> QED
    BY <2>1 DEF Created
<1>5. run.status = "running" /\ run.receipt = r /\ run.key = k
  OBVIOUS
<1> HIDE DEF run, a
<1>6. KeysRetire /\ SignedNow /\ ResultsStay
  BY <1>1, <1>2, NewReceiptRules, ZenonT(60)
<1>7. \A n \in 1..MaxRuns : runs'[n] = IF n = NextRun THEN run ELSE runs[n]
  BY <1>1, <1>2, <1>4 DEF ControlTypeOK
<1>8. keys[k] = "retired" => grants[r] # NoGrant /\ ~grants[r].consumed /\ grants'[r].consumed
  <2> SUFFICES ASSUME keys[k] = "retired"
               PROVE  grants[r] # NoGrant /\ ~grants[r].consumed /\ grants'[r].consumed
    OBVIOUS
  <2> DEFINE g == [grants[r] EXCEPT !.consumed = TRUE]
  <2>1. /\ grants[r] # NoGrant /\ ~grants[r].consumed
        /\ grants' = [grants EXCEPT ![r] = g]
    BY <1>1 DEF Consumes
  <2>2. grants[r] \in Grant
    BY <1>2, <2>1 DEF ControlTypeOK
  <2>3. g.consumed
    BY <2>2 DEF Grant
  <2> HIDE DEF g
  <2>4. grants'[r] = g
    BY <1>2, <2>1 DEF ControlTypeOK
  <2> QED
    BY <2>1, <2>3, <2>4
<1>9. GrantsUsed
  BY <1>5, <1>7, <1>8 DEF GrantsUsed
<1>10. Fenced
  BY <1>5, <1>7 DEF Fenced, Live
<1>11. RunsGoOn
  BY <1>4, <1>5, <1>7 DEF RunsGoOn
<1> QED
  BY <1>6, <1>9, <1>10, <1>11 DEF Rules

LEMMA RollbackRules ==
    ASSUME ControlInv, NEW p \in Procs, NEW k \in Keys, NEW r \in Receipts, NEW d \in Digests,
           NEW n \in 1..MaxRuns, NEW result \in {"ended", "authorized"},
           Rollback(p, k, r, d, n, result)
    PROVE  Rules
<1> DEFINE run == IF runs[n].status \in Live THEN Stopping(runs[n]) ELSE runs[n]
           a == [action |-> "rollback", digest |-> d, run |-> n, result |-> result]
<1>1. /\ Authentic(p, k, FALSE) /\ receipts[r] = NoAction
      /\ runs' = [runs EXCEPT ![n] = run]
      /\ receipts' = [receipts EXCEPT ![r] = a] /\ UNCHANGED keys
  BY DEF Rollback
<1>2. ControlTypeOK /\ runs[n] \in Run
  BY DEF ControlInv, ControlTypeOK
<1>3. /\ run.status = IF runs[n].status \in Live THEN "stopping" ELSE runs[n].status
      /\ runs[n].status \in Live => run.epoch > runs[n].epoch
  <2>1. /\ Stopping(runs[n]).status = "stopping"
        /\ Stopping(runs[n]).epoch > runs[n].epoch
    BY <1>2, StoppingShape
  <2> QED
    BY <2>1
<1> HIDE DEF run, a
<1>4. KeysRetire /\ SignedNow /\ ResultsStay
  BY <1>1, <1>2, NewReceiptRules, ZenonT(60)
<1>5. GrantsUsed /\ Fenced /\ RunsGoOn
  BY <1>1, <1>2, <1>3, RunRules
<1> QED
  BY <1>4, <1>5 DEF Rules

LEMMA RunnerBeginsRules == ASSUME ControlInv, NEW p \in Procs, RunnerBegins(p) PROVE Rules
<1>1. job[p].phase = "running" /\ UNCHANGED <<keys, receipts>>
  BY DEF RunnerBegins
<1>2. job[p] # NoJob
  BY <1>1 DEF NoJob
<1>3. ControlTypeOK /\ job[p].run \in 1..MaxRuns
  BY <1>2, JobShape DEF ControlInv
<1>4. KeysRetire /\ SignedNow /\ ResultsStay
  BY <1>1 DEF KeysRetire, SignedNow, ResultsStay
<1>5. CASE job[p].run \in began
  BY <1>1, <1>5, QuietRules DEF RunnerBegins
<1>6. CASE job[p].run \notin began
  <2>1. PICK n \in 1..MaxRuns : n = job[p].run
    BY <1>3
  <2>2. runs' = [runs EXCEPT ![n] = Stopping(runs[n])] /\ runs[n] \in Run
    BY <1>3, <1>6, <2>1 DEF RunnerBegins, ControlTypeOK
  <2>3. /\ Stopping(runs[n]).status = "stopping"
        /\ Stopping(runs[n]).epoch > runs[n].epoch
    BY <2>2, StoppingShape
  <2>4. GrantsUsed /\ Fenced /\ RunsGoOn
    BY <1>3, <2>2, <2>3, RunRules
  <2> QED
    BY <1>4, <2>4 DEF Rules
<1> QED
  BY <1>5, <1>6

\* A run whose rollback has begun is not live: its runner need not fence it
\* again when it ends it.
LEMMA RunnerReturnsRules ==
    ASSUME ControlInv, NEW p \in Procs, NEW result, RunnerReturns(p, result)
    PROVE  Rules
<1>1. job[p].phase = "working" /\ UNCHANGED <<keys, receipts>>
  BY DEF RunnerReturns
<1>2. job[p] # NoJob
  BY <1>1 DEF NoJob
<1>3. ControlTypeOK /\ job[p].run \in 1..MaxRuns /\ job[p].run \in began
  BY <1>1, <1>2, JobShape DEF ControlInv, RunsInOrder
<1>4. KeysRetire /\ SignedNow /\ ResultsStay
  BY <1>1 DEF KeysRetire, SignedNow, ResultsStay
<1>5. CASE result # "completed"
  BY <1>1, <1>5, QuietRules DEF RunnerReturns
<1>6. CASE result = "completed"
  <2>1. PICK n \in 1..MaxRuns : n = job[p].run
    BY <1>3
  <2> DEFINE run == [runs[n] EXCEPT !.status = "stopped"]
  <2>2. runs' = [runs EXCEPT ![n] = run] /\ runs[n] \in Run
    BY <1>3, <1>6, <2>1 DEF RunnerReturns, ControlTypeOK
  <2>3. run.status = "stopped"
    BY <2>2 DEF Run
  <2>4. runs[n].status \notin Live
    BY <1>3, <2>1 DEF ControlInv, RunsInOrder, Live
  <2> HIDE DEF run
  <2>5. GrantsUsed /\ Fenced /\ RunsGoOn
    BY <1>3, <2>2, <2>3, <2>4, RunRules
  <2> QED
    BY <1>4, <2>5 DEF Rules
<1> QED
  BY <1>5, <1>6

LEMMA SaveResultRules == ASSUME ControlInv, NEW p \in Procs, SaveResult(p) PROVE Rules
<1>1. job[p].phase = "saving" /\ UNCHANGED <<keys, runs>>
  BY DEF SaveResult
<1>2. job[p] # NoJob
  BY <1>1 DEF NoJob
<1>3. PICK r \in Receipts : r = job[p].receipt
  BY <1>2, JobShape DEF ControlInv
<1>4. KeysRetire /\ GrantsUsed /\ Fenced /\ RunsGoOn
  BY <1>1 DEF KeysRetire, GrantsUsed, Fenced, RunsGoOn
<1>5. CASE receipts[r].result # "authorized"
  BY <1>1, <1>3, <1>5, QuietRules DEF SaveResult
<1>6. CASE receipts[r].result = "authorized"
  <2> DEFINE a == [receipts[r] EXCEPT !.result = job[p].result]
  <2>1. receipts' = [receipts EXCEPT ![r] = a]
    BY <1>3, <1>6 DEF SaveResult
  <2> HIDE DEF a
  <2>2. \A s \in Receipts : receipts'[s] = IF s = r THEN a ELSE receipts[s]
    BY <2>1 DEF ControlInv, ControlTypeOK
  <2>3. receipts[r] # NoAction
    BY <1>6 DEF NoAction
  <2>4. SignedNow
    BY <2>2, <2>3 DEF SignedNow
  <2>5. ResultsStay
    BY <1>6, <2>2 DEF ResultsStay, Final
  <2> QED
    BY <1>4, <2>4, <2>5 DEF Rules
<1> QED
  BY <1>5, <1>6

LEMMA ControlRules == ASSUME ControlInv, ControlNext PROVE Rules
<1>1. ASSUME NEW c \in Config, EditConfig(c)
      PROVE  Rules
  BY <1>1, QuietRules DEF EditConfig
<1>2. CASE StopFile
  BY <1>2, QuietRules DEF StopFile
<1>3. ASSUME NEW p \in Procs, Start(p) \/ RunnerBegins(p) \/ SaveResult(p)
      PROVE  Rules
  BY <1>3, StartRules, RunnerBeginsRules, SaveResultRules
<1>4. ASSUME NEW p \in Procs, Exit(p) \/ RunnerRefused(p)
      PROVE  Rules
  BY <1>4, QuietRules DEF Exit, RunnerRefused
<1>5. ASSUME NEW p \in Procs, NEW n \in 1..MaxRuns, StopRun(p, n)
      PROVE  Rules
  BY <1>5, RunStepRules
<1>6. ASSUME NEW p \in Procs, NEW result \in {"raised"} \cup Final, RunnerReturns(p, result)
      PROVE  Rules
  BY <1>6, RunnerReturnsRules
<1>7. ASSUME NEW p \in Procs, NEW k \in Keys, NEW r \in Receipts, NEW d \in Digests,
             Activate(p, k, r, d)
      PROVE  Rules
  BY <1>7, ActivateRules
<1>8. ASSUME NEW p \in Procs, NEW k \in Keys, NEW r \in Receipts, NEW d \in Digests,
             ResumeRollback(p, k, r, d)
      PROVE  Rules
  BY <1>8, QuietRules DEF ResumeRollback
<1>9. ASSUME NEW p \in Procs, NEW k \in Keys, NEW r \in Receipts, NEW d \in Digests,
             NEW n \in 1..MaxRuns, NEW result \in {"ended", "authorized"},
             Rollback(p, k, r, d, n, result)
      PROVE  Rules
  BY <1>9, RollbackRules
<1>10. ASSUME NEW p \in Procs, NEW k \in Keys, NEW r \in Receipts, NEW d \in Digests,
              NEW target \in Receipts, NEW td \in Digests, RegisterGrant(p, k, r, d, target, td)
       PROVE  Rules
  BY <1>10, RegisterGrantRules, ZenonT(60)
<1>11. ASSUME NEW r \in Receipts, GrantExpires(r)
       PROVE  Rules
  BY <1>11, QuietRules DEF GrantExpires
<1>12. ASSUME NEW n \in 1..MaxRuns, DeadlinePasses(n) \/ Reopen(n)
       PROVE  Rules
  <2>1. Daemon \in Procs
    BY IngestAssumption
  <2> QED
    BY <1>12, <2>1, RunStepRules
<1> QED
  BY <1>1, <1>2, <1>3, <1>4, <1>5, <1>6, <1>7, <1>8, <1>9, <1>10, <1>11, <1>12
     DEF ControlNext

-----------------------------------------------------------------------------
(***************************************************************************)
(* Deliveries.                                                             *)
(***************************************************************************)
\* What a run has of sessions, events and candidates.
BudgetOf(n) ==
    /\ Cardinality(reserved[n]) <= MaxSessions
    /\ Count(n) <= MaxCandidates
    /\ \A e \in Events : cands[n][e] <= 1 /\ (cands[n][e] = 1 => e \in runEvents[n])
    /\ \A e \in runEvents[n] : e[1] \in reserved[n] /\ journal[e] # NoPayload
    /\ runs[n].status = "running" => Cardinality(reserved[n]) < MaxSessions

OrderOf(n) ==
    /\ n \notin Created => reserved[n] = {}
    /\ IsFiniteSet(reserved[n]) /\ IsFiniteSet(Proposed(n))

DeliveryTypeOK ==
    /\ reserved \in [1..MaxRuns -> SUBSET Sessions]
    /\ journal \in [Events -> Payloads \cup {NoPayload}]
    /\ runEvents \in [1..MaxRuns -> SUBSET Events]
    /\ cands \in [1..MaxRuns -> [Events -> 0..2]]
    /\ req \in Request \cup {NoRequest}

RequestInOrder ==
    /\ req # NoRequest => req.run \in Created
    /\ req.phase = "accepted" => req.event \in runEvents[req.run]

Budgets == \A n \in 1..MaxRuns : BudgetOf(n)
Orders  == \A n \in 1..MaxRuns : OrderOf(n)

IInv == IngestInv /\ BudgetsHold

LEMMA IInvParts ==
    IInv <=> ControlInv /\ DeliveryTypeOK /\ RequestInOrder /\ Budgets /\ Orders
BY DEF Budgets, Orders, IInv, IngestInv, IngestTypeOK, ControlInv, DeliveryTypeOK, RequestInOrder, BudgetOf,
       OrderOf, BudgetsHold, DeliveriesInOrder

LEMMA InitIInv == IngestInit => IInv
<1> SUFFICES ASSUME IngestInit PROVE IInv
  OBVIOUS
<1>1. ControlInv
  BY ControlInitInv DEF IngestInit
<1>2. DeliveryTypeOK
  BY DEF IngestInit, DeliveryTypeOK
<1>3. RequestInOrder
  BY DEF IngestInit, RequestInOrder, NoRequest
<1>4. ASSUME NEW n \in 1..MaxRuns
      PROVE  BudgetOf(n) /\ OrderOf(n)
  <2>1. /\ reserved[n] = {} /\ runEvents[n] = {}
        /\ \A e \in Events : cands[n][e] = 0
    BY DEF IngestInit
  <2>2. Proposed(n) = {}
    BY <2>1 DEF Proposed
  <2>3. Cardinality({}) = 0 /\ IsFiniteSet({})
    BY FS_EmptySet
  <2>4. BudgetOf(n)
    BY <2>1, <2>2, <2>3, IngestAssumption DEF BudgetOf, Count
  <2>5. OrderOf(n)
    BY <2>1, <2>2, <2>3 DEF OrderOf
  <2> QED
    BY <2>4, <2>5
<1> QED
  BY <1>1, <1>2, <1>3, <1>4, IInvParts DEF Budgets, Orders

\* A new request, or the end of one.
LEMMA RequestMoves ==
    ASSUME IInv, UNCHANGED <<cvars, reserved, journal, runEvents, cands>>,
           req' \in Request \cup {NoRequest}, RequestInOrder'
    PROVE  IInv'
<1>1. Created' = Created
  BY DEF Created, cvars
<1>2. ControlInv'
  BY IInvParts DEF cvars, ControlInv, ControlTypeOK, ActivationOnce, OneLiveRun, RunsInOrder,
     Created
<1>3. DeliveryTypeOK'
  BY IInvParts DEF DeliveryTypeOK
<1>4. Budgets' /\ Orders'
  BY <1>1, IInvParts DEF Budgets, Orders, BudgetOf, OrderOf, Count, Proposed, cvars
<1> QED
  BY <1>2, <1>3, <1>4, IInvParts, PTL

LEMMA NoRequestLeft ==
    ASSUME IInv, UNCHANGED <<cvars, reserved, journal, runEvents, cands>>, req' = NoRequest
    PROVE  IInv'
<1>1. RequestInOrder'
  BY DEF RequestInOrder, NoRequest
<1> QED
  BY <1>1, RequestMoves

LEMMA ReceiveKeeps ==
    ASSUME IInv, NEW n \in 1..MaxRuns, NEW e \in Events, NEW x \in Payloads, Receive(n, e, x)
    PROVE  IInv'
<1> DEFINE q == [phase |-> "admitted", run |-> n, event |-> e, payload |-> x]
<1>1. q \in Request /\ q.phase = "admitted" /\ q.run = n
  BY DEF Request
<1>2. req' = q /\ UNCHANGED <<cvars, reserved, journal, runEvents, cands>>
  BY DEF Receive
<1> HIDE DEF q
<1>3. n \in Created /\ Created' = Created
  BY <1>2 DEF Receive, Created, Live, cvars
<1>4. RequestInOrder'
  BY <1>1, <1>2, <1>3 DEF RequestInOrder
<1> QED
  BY <1>1, <1>2, <1>4, RequestMoves

LEMMA RequestShape ==
    ASSUME IInv, req.phase \in {"admitted", "accepted"}
    PROVE  /\ req \in Request /\ req.run \in 1..MaxRuns /\ req.event \in Events
           /\ req.payload \in Payloads /\ req.run \in Created
           /\ req.event[1] \in Sessions
<1>1. req # NoRequest
  BY DEF NoRequest
<1>2. req \in Request /\ req.run \in Created
  BY <1>1, IInvParts DEF DeliveryTypeOK, RequestInOrder
<1>3. req.run \in 1..MaxRuns /\ req.event \in Events /\ req.payload \in Payloads
  BY <1>2 DEF Request
<1>4. req.event[1] \in Sessions
  BY <1>3 DEF Events
<1> QED
  BY <1>2, <1>3, <1>4

\* The candidate of an event that was stored in the run, where there is none.
LEMMA ScheduleCandidateKeeps == ASSUME IInv, ScheduleCandidate PROVE IInv'
<1>1. req.phase = "accepted" /\ req' = NoRequest
      /\ UNCHANGED <<cvars, reserved, journal, runEvents>>
  BY DEF ScheduleCandidate
<1>2. PICK n \in 1..MaxRuns : n = req.run
  BY <1>1, RequestShape
<1>3. PICK e \in Events : e = req.event
  BY <1>1, RequestShape
<1>4. CASE ~WantsCandidate(n, e)
  BY <1>1, <1>2, <1>3, <1>4, NoRequestLeft DEF ScheduleCandidate
<1>5. CASE WantsCandidate(n, e)
  <2>1. DeliveryTypeOK /\ ControlInv /\ RequestInOrder
        /\ \A m \in 1..MaxRuns : BudgetOf(m) /\ OrderOf(m)
    BY IInvParts DEF Budgets, Orders
  <2>2. cands' = [cands EXCEPT ![n][e] = cands[n][e] + 1] /\ cands[n][e] = 0
    BY <1>2, <1>3, <1>5 DEF ScheduleCandidate, WantsCandidate
  <2>3. /\ \A m \in 1..MaxRuns \ {n} : cands'[m] = cands[m]
        /\ \A f \in Events : cands'[n][f] = IF f = e THEN 1 ELSE cands[n][f]
        /\ cands'[n] \in [Events -> 0..2]
    BY <2>1, <2>2 DEF DeliveryTypeOK
  <2>4. cands' \in [1..MaxRuns -> [Events -> 0..2]]
    BY <2>1, <2>2, <2>3 DEF DeliveryTypeOK
  <2>5. DeliveryTypeOK'
    BY <1>1, <2>1, <2>4 DEF DeliveryTypeOK
  <2>6. Created' = Created /\ runs' = runs
    BY <1>1 DEF Created, cvars
  <2>7. ControlInv'
    BY <1>1, <2>1 DEF cvars, ControlInv, ControlTypeOK, ActivationOnce, OneLiveRun,
       RunsInOrder, Created
  <2>8. RequestInOrder'
    BY <1>1 DEF RequestInOrder, NoRequest
  <2>9. ASSUME NEW m \in 1..MaxRuns, m # n
        PROVE  BudgetOf(m)' /\ OrderOf(m)'
    BY <1>1, <2>1, <2>3, <2>6, <2>9 DEF BudgetOf, OrderOf, Count, Proposed
  <2>10. Proposed(n)' = Proposed(n) \cup {e} /\ e \notin Proposed(n)
    BY <2>2, <2>3 DEF Proposed
  <2>11. IsFiniteSet(Proposed(n))
    BY <2>1 DEF OrderOf
  <2>12. IsFiniteSet(Proposed(n)') /\ Cardinality(Proposed(n)') = Cardinality(Proposed(n)) + 1
    BY <2>10, <2>11, FS_AddElement
  <2>13. Cardinality(Proposed(n)) \in Nat /\ Cardinality(Proposed(n)) < MaxCandidates
    BY <1>5, <2>11, FS_CardinalityType DEF WantsCandidate, Count
  <2>14. Count(n)' <= MaxCandidates
    BY <2>12, <2>13, IngestAssumption DEF Count
  <2>15. e \in runEvents[n]
    BY <1>1, <1>2, <1>3, <2>1 DEF RequestInOrder
  <2>16. \A f \in Events : cands'[n][f] <= 1 /\ (cands'[n][f] = 1 => f \in runEvents'[n])
    BY <1>1, <2>1, <2>3, <2>15 DEF BudgetOf
  <2>17. BudgetOf(n)'
    BY <1>1, <2>1, <2>6, <2>14, <2>16 DEF BudgetOf
  <2>18. OrderOf(n)'
    BY <1>1, <2>1, <2>6, <2>12 DEF OrderOf
  <2>19. Budgets' /\ Orders'
    BY <2>9, <2>17, <2>18 DEF Budgets, Orders
  <2> QED
    BY <2>5, <2>7, <2>8, <2>19, IInvParts, PTL
<1> QED
  BY <1>4, <1>5

\* A run starts to drain with the session that uses its budget up.
LEMMA DrainKeeps ==
    ASSUME ControlInv, NEW n \in 1..MaxRuns, runs[n].status = "running",
           runs' = [runs EXCEPT ![n].status = "draining"],
           UNCHANGED <<conf, edits, cfg, keys, grants, receipts, began, job, stop>>
    PROVE  ControlInv'
<1> DEFINE run == [runs[n] EXCEPT !.status = "draining"]
<1>1. runs[n] \in Run
  BY DEF ControlInv, ControlTypeOK
<1>2. run \in Run /\ run.status = "draining" /\ run.receipt = runs[n].receipt
  BY <1>1 DEF Run, Unfinished, Live
<1>3. n \notin began
  BY DEF ControlInv, RunsInOrder
<1>4. runs' = [runs EXCEPT ![n] = run]
  OBVIOUS
<1>5. runs[n].status \in Unfinished
  BY DEF Unfinished, Live
<1> HIDE DEF run
<1> QED
  BY <1>2, <1>3, <1>4, <1>5, RunMovesAlone

LEMMA StoreEventKeeps == ASSUME IInv, StoreEvent PROVE IInv'
<1>1. /\ req.phase = "admitted"
      /\ UNCHANGED <<conf, edits, cfg, keys, grants, receipts, began, job, stop, cands>>
  BY DEF StoreEvent
<1>2. PICK n \in 1..MaxRuns : n = req.run
  BY <1>1, RequestShape
<1>3. PICK e \in Events : e = req.event
  BY <1>1, RequestShape
<1>4. PICK s \in Sessions : s = e[1]
  BY <1>1, <1>3, RequestShape
<1>5. req \in Request /\ req.payload \in Payloads /\ n \in Created
  BY <1>1, <1>2, RequestShape
<1>6. DeliveryTypeOK /\ ControlInv /\ RequestInOrder
      /\ \A m \in 1..MaxRuns : BudgetOf(m) /\ OrderOf(m)
  BY IInvParts DEF Budgets, Orders
<1>7. /\ HasRoom(n, s)
      /\ reserved' = [reserved EXCEPT ![n] = reserved[n] \cup {s}]
      /\ journal' = [journal EXCEPT ![e] = req.payload]
      /\ runEvents' = [runEvents EXCEPT ![n] = runEvents[n] \cup {e}]
      /\ runs' = IF FilledBy(n, s) /\ runs[n].status = "running"
                 THEN [runs EXCEPT ![n].status = "draining"] ELSE runs
      /\ req' = IF req.payload \in Prompts THEN [req EXCEPT !.phase = "accepted"] ELSE NoRequest
  BY <1>2, <1>3, <1>4 DEF StoreEvent
<1>8. /\ reserved' \in [1..MaxRuns -> SUBSET Sessions]
      /\ \A m \in 1..MaxRuns : reserved'[m] = IF m = n THEN reserved[n] \cup {s} ELSE reserved[m]
  BY <1>6, <1>7 DEF DeliveryTypeOK
<1>9. /\ runEvents' \in [1..MaxRuns -> SUBSET Events]
      /\ \A m \in 1..MaxRuns :
           runEvents'[m] = IF m = n THEN runEvents[n] \cup {e} ELSE runEvents[m]
  BY <1>6, <1>7 DEF DeliveryTypeOK
<1>10. /\ journal' \in [Events -> Payloads \cup {NoPayload}]
       /\ \A f \in Events : journal'[f] = IF f = e THEN req.payload ELSE journal[f]
  BY <1>5, <1>6, <1>7 DEF DeliveryTypeOK
<1>11. req' \in Request \cup {NoRequest} /\ (req' # NoRequest => req'.run = n /\ req'.event = e)
  BY <1>2, <1>3, <1>5, <1>7 DEF Request
<1>12. DeliveryTypeOK'
  BY <1>1, <1>6, <1>8, <1>9, <1>10, <1>11 DEF DeliveryTypeOK
<1>13. ControlInv'
  <2>1. CASE FilledBy(n, s) /\ runs[n].status = "running"
    BY <1>1, <1>6, <1>7, <2>1, DrainKeeps
  <2>2. CASE ~(FilledBy(n, s) /\ runs[n].status = "running")
    <3>1. runs' = runs
      BY <1>7, <2>2
    <3> QED
      BY <3>1, <1>1, <1>6 DEF ControlInv, ControlTypeOK, ActivationOnce, OneLiveRun,
         RunsInOrder, Created
  <2> QED
    BY <2>1, <2>2
<1>14. /\ \A m \in 1..MaxRuns : m # n => runs'[m] = runs[m]
       /\ runs'[n].status = "none" <=> runs[n].status = "none"
       /\ runs'[n].status = "running" => runs[n].status = "running" /\ ~FilledBy(n, s)
  BY <1>6, <1>7 DEF ControlInv, ControlTypeOK, Run
<1>15. Created' = Created
  BY <1>14 DEF Created
<1>16. RequestInOrder'
  <2>1. CASE req' = NoRequest
    BY <2>1 DEF RequestInOrder, NoRequest
  <2>2. CASE req' # NoRequest
    BY <2>2, <1>5, <1>9, <1>11, <1>15 DEF RequestInOrder
  <2> QED
    BY <2>1, <2>2
<1>17. \A f \in Events : journal[f] # NoPayload => journal'[f] # NoPayload
  BY <1>5, <1>10, IngestAssumption
<1>18. \A m \in 1..MaxRuns : runEvents[m] \subseteq Events
  BY <1>6 DEF DeliveryTypeOK
<1>19. ASSUME NEW m \in 1..MaxRuns, m # n
       PROVE  BudgetOf(m)' /\ OrderOf(m)'
  <2>1. /\ reserved'[m] = reserved[m] /\ runEvents'[m] = runEvents[m] /\ cands' = cands
        /\ runs'[m] = runs[m]
    BY <1>1, <1>8, <1>9, <1>14, <1>19
  <2>2. BudgetOf(m)'
    BY <2>1, <1>6, <1>17, <1>18 DEF BudgetOf, Count, Proposed
  <2>3. OrderOf(m)'
    BY <2>1, <1>6, <1>15 DEF OrderOf, Proposed
  <2> QED
    BY <2>2, <2>3
<1>20. IsFiniteSet(reserved[n]) /\ Cardinality(reserved[n]) \in Nat
  BY <1>6, FS_CardinalityType DEF OrderOf
<1>21. /\ IsFiniteSet(reserved'[n])
       /\ Cardinality(reserved'[n]) = IF s \in reserved[n] THEN Cardinality(reserved[n])
                                      ELSE Cardinality(reserved[n]) + 1
  BY <1>8, <1>20, FS_AddElement
<1>22. Cardinality(reserved'[n]) <= MaxSessions
  BY <1>6, <1>7, <1>20, <1>21, IngestAssumption DEF HasRoom, BudgetOf
<1>23. runs'[n].status = "running" => Cardinality(reserved'[n]) < MaxSessions
  BY <1>6, <1>14, <1>20, <1>21, IngestAssumption DEF FilledBy, BudgetOf
<1>24. \A f \in runEvents'[n] : f[1] \in reserved'[n] /\ journal'[f] # NoPayload
  <2>1. ASSUME NEW f \in runEvents[n]
        PROVE  f[1] \in reserved'[n] /\ journal'[f] # NoPayload
    BY <1>6, <1>8, <1>17, <1>18 DEF BudgetOf
  <2>2. e[1] \in reserved'[n] /\ journal'[e] # NoPayload
    BY <1>4, <1>5, <1>8, <1>10, IngestAssumption
  <2> QED
    BY <1>9, <2>1, <2>2
<1>25. \A f \in Events : cands'[n][f] <= 1 /\ (cands'[n][f] = 1 => f \in runEvents'[n])
  BY <1>1, <1>6, <1>9 DEF BudgetOf
<1>26. Proposed(n)' = Proposed(n) /\ Count(n)' = Count(n)
  BY <1>1 DEF Proposed, Count
<1>27. BudgetOf(n)'
  BY <1>6, <1>22, <1>23, <1>24, <1>25, <1>26 DEF BudgetOf
<1>28. OrderOf(n)'
  BY <1>5, <1>6, <1>15, <1>21, <1>26 DEF OrderOf
<1>29. Budgets' /\ Orders'
  BY <1>19, <1>27, <1>28 DEF Budgets, Orders
<1> QED
  BY <1>12, <1>13, <1>16, <1>29, IInvParts, PTL

\* A run that starts has nothing; every other that is running was.
LEMMA ControlStepKeeps == ASSUME IInv, ControlStep PROVE IInv'
<1>1. /\ ControlNext /\ UNCHANGED <<reserved, journal, runEvents, cands>>
      /\ req' \in {req, NoRequest}
  BY DEF ControlStep
<1>2. DeliveryTypeOK /\ ControlInv /\ RequestInOrder
      /\ \A m \in 1..MaxRuns : BudgetOf(m) /\ OrderOf(m)
  BY IInvParts DEF Budgets, Orders
<1>3. ControlInv' /\ Rules
  BY <1>1, <1>2, ControlNextKeeps, ControlRules
<1>4. Created \subseteq Created'
  BY <1>3 DEF Rules, RunsGoOn, Created
<1>5. DeliveryTypeOK'
  BY <1>1, <1>2 DEF DeliveryTypeOK
<1>6. RequestInOrder'
  <2>1. CASE req' = NoRequest
    BY <2>1 DEF RequestInOrder, NoRequest
  <2>2. CASE req' = req
    BY <2>2, <1>1, <1>2, <1>4 DEF RequestInOrder
  <2> QED
    BY <1>1, <2>1, <2>2
<1>7. ASSUME NEW m \in 1..MaxRuns
      PROVE  BudgetOf(m)' /\ OrderOf(m)'
  <2>1. runs'[m].status = "running" => Cardinality(reserved[m]) < MaxSessions
    <3>1. CASE runs[m].status = "running"
      BY <3>1, <1>2 DEF BudgetOf
    <3>2. CASE runs[m].status = "none"
      <4>1. reserved[m] = {}
        BY <3>2, <1>2 DEF OrderOf, Created
      <4> QED
        BY <4>1, FS_EmptySet, IngestAssumption
    <3> QED
      BY <3>1, <3>2, <1>3 DEF Rules, RunsGoOn
  <2>2. BudgetOf(m)'
    BY <1>1, <1>2, <2>1 DEF BudgetOf, Count, Proposed
  <2>3. OrderOf(m)'
    BY <1>1, <1>2, <1>4 DEF OrderOf, Proposed
  <2> QED
    BY <2>2, <2>3
<1>8. Budgets' /\ Orders'
  BY <1>7 DEF Budgets, Orders
<1> QED
  BY <1>3, <1>5, <1>6, <1>8, IInvParts, PTL

LEMMA IngestNextKeeps == IInv /\ [IngestNext]_<<cvars, ivars>> => IInv'
<1> SUFFICES ASSUME IInv, [IngestNext]_<<cvars, ivars>> PROVE IInv'
  OBVIOUS
<1>1. ASSUME NEW n \in 1..MaxRuns, NEW e \in Events, NEW x \in Payloads, Receive(n, e, x)
      PROVE  IInv'
  BY <1>1, ReceiveKeeps
<1>2. CASE StoreEvent
  BY <1>2, StoreEventKeeps
<1>3. CASE RefuseEvent \/ RefuseCandidate
  BY <1>3, NoRequestLeft DEF RefuseEvent, RefuseCandidate
<1>4. CASE ScheduleCandidate
  BY <1>4, ScheduleCandidateKeeps
<1>5. CASE ControlStep
  BY <1>5, ControlStepKeeps
<1>6. CASE UNCHANGED <<cvars, ivars>>
  <2>1. UNCHANGED <<cvars, reserved, journal, runEvents, cands>> /\ req' = req
    BY <1>6 DEF ivars
  <2>2. req' \in Request \cup {NoRequest} /\ RequestInOrder'
    BY <2>1, IInvParts DEF DeliveryTypeOK, RequestInOrder, Created, cvars
  <2> QED
    BY <2>1, <2>2, RequestMoves
<1> QED
  BY <1>1, <1>2, <1>3, <1>4, <1>5, <1>6 DEF IngestNext

-----------------------------------------------------------------------------
(***************************************************************************)
(* Results.                                                                *)
(***************************************************************************)
LEMMA IInvAlways == IngestSpec => []IInv
BY InitIInv, IngestNextKeeps, PTL DEF IngestSpec

\* At most one run for a receipt and one unfinished run at a time; and every
\* request, event and candidate belongs to a run that was created: through
\* replays, rotations, crashed rollbacks and workers that reopen a run
\* (rollout.py, _control_transaction, ingest).
THEOREM IngestInvariant == IngestSpec => []IngestInv
<1>1. IInv => IngestInv
  BY DEF IInv
<1> QED
  BY <1>1, IInvAlways, PTL

\* The budgets signed with the activation hold for every run, whatever stops,
\* restarts, repetitions and second runs come between the look at a run and the
\* reservation in it (rollout.py, ingest, schedule_candidate).
THEOREM BudgetsAlways == IngestSpec => []BudgetsHold
<1>1. IInv => BudgetsHold
  BY DEF IInv
<1> QED
  BY <1>1, IInvAlways, PTL

\* No step, of the control plane or of a delivery, opens a run with a retired
\* key and no grant, replaces the final result of a rollback, stops a run
\* without fencing off those who work for it, or changes an event that is in
\* the journal (rollout.py; maintenance/journal.py, append).
THEOREM NothingUndone == IngestSpec => NothingIsUndone
<1>1. ASSUME IInv, [IngestNext]_<<cvars, ivars>>
      PROVE  cvars' = cvars \/ Rules
  <2>1. ControlInv /\ DeliveryTypeOK
    BY <1>1, IInvParts
  <2>2. CASE ControlStep
    BY <2>1, <2>2, ControlRules DEF ControlStep
  <2>3. CASE StoreEvent
    <3>1. PICK n \in 1..MaxRuns : n = req.run
      BY <1>1, <2>3, RequestShape DEF StoreEvent
    <3>2. UNCHANGED <<keys, receipts>>
      BY <2>3 DEF StoreEvent
    <3>3. CASE runs' = runs
      BY <3>2, <3>3, QuietRules
    <3>4. CASE runs' # runs
      <4> DEFINE run == [runs[n] EXCEPT !.status = "draining"]
      <4>1. runs' = [runs EXCEPT ![n] = run] /\ runs[n] \in Run /\ ControlTypeOK
        BY <2>1, <2>3, <3>1, <3>4 DEF StoreEvent, ControlInv, ControlTypeOK
      <4>2. run.status = "draining"
        BY <4>1 DEF Run
      <4> HIDE DEF run
      <4>3. run.status \in Live
        BY <4>2 DEF Live
      <4>4. GrantsUsed /\ Fenced /\ RunsGoOn
        BY <4>1, <4>2, <4>3, RunRules
      <4>5. KeysRetire /\ SignedNow /\ ResultsStay
        BY <3>2 DEF KeysRetire, SignedNow, ResultsStay
      <4> QED
        BY <4>4, <4>5 DEF Rules
    <3> QED
      BY <3>3, <3>4
  <2> QED
    BY <1>1, <2>2, <2>3 DEF IngestNext, Receive, RefuseEvent, ScheduleCandidate, RefuseCandidate
<1>2. ASSUME IInv, [IngestNext]_<<cvars, ivars>>
      PROVE  \A e \in Events : journal[e] # NoPayload => journal'[e] = journal[e]
  <2>1. CASE StoreEvent
    <3>1. PICK e \in Events : e = req.event
      BY <1>2, <2>1, RequestShape DEF StoreEvent
    <3>2. journal' = [journal EXCEPT ![e] = req.payload] /\ journal[e] \in {NoPayload, req.payload}
      BY <2>1, <3>1 DEF StoreEvent, SameEvent
    <3> QED
      BY <1>2, <3>2, IInvParts DEF DeliveryTypeOK
  <2>2. CASE journal' = journal
    BY <2>2
  <2> QED
    BY <1>2, <2>1, <2>2 DEF IngestNext, Receive, RefuseEvent, ScheduleCandidate,
       RefuseCandidate, ControlStep, ivars
<1>3. ASSUME IInv, [IngestNext]_<<cvars, ivars>>
      PROVE  [KeysRetire /\ GrantsUsed /\ SignedNow]_cvars
             /\ [ResultsStay]_cvars /\ [Fenced]_cvars
  BY <1>1, <1>3 DEF Rules
<1>4. IngestSpec => [][KeysRetire /\ GrantsUsed /\ SignedNow]_cvars
  BY <1>3, IInvAlways, PTL DEF IngestSpec
<1>5. IngestSpec => [][ResultsStay]_cvars
  BY <1>3, IInvAlways, PTL DEF IngestSpec
<1>6. IngestSpec => [][Fenced]_cvars
  BY <1>3, IInvAlways, PTL DEF IngestSpec
<1>7. IngestSpec
        => [][\A e \in Events : journal[e] # NoPayload => journal'[e] = journal[e]]_ivars
  BY <1>2, IInvAlways, PTL DEF IngestSpec
<1>8. IngestSpec => OldKeyNeedsGrant
  BY <1>4, PTL DEF OldKeyNeedsGrant, KeysRetire, GrantsUsed, SignedNow
<1>9. IngestSpec => RollbackResultFinal
  BY <1>5, PTL DEF RollbackResultFinal, ResultsStay
<1>10. IngestSpec => EpochFencesStop
  BY <1>6, PTL DEF EpochFencesStop, Fenced
<1> QED
  BY <1>7, <1>8, <1>9, <1>10 DEF NothingIsUndone, ControlSteps

-----------------------------------------------------------------------------
(***************************************************************************)
(* The journal.                                                            *)
(***************************************************************************)
rows == <<events, cursor, alias, quarantine, deaths>>

\* What every step does to the rows at most: it adds some.
Extends ==
    /\ \A i \in DOMAIN events : i \in DOMAIN events' /\ events'[i] = events[i]
    /\ \A g \in Generations : cursor'[g] >= cursor[g]
    /\ quarantine \subseteq quarantine'
    /\ \A g \in Generations, k \in EventKeys : alias[g, k] # NoRow => alias'[g, k] = alias[g, k]

\* No row passes the end of its source.
InSource == \A g \in Generations : cursor[g] <= Len(Source[g])

Rest(c) == \A d \in Callers \ {c} : call'[d] = call[d]

-----------------------------------------------------------------------------
(***************************************************************************)
(* Facts about records and sequences.                                      *)
(***************************************************************************)

\* The calls of each phase are a set of their own.
LEMMA CallOfPhase ==
    ASSUME NEW asked \in Calls
    PROVE  /\ asked.phase \in {"lookup", "insert"} => asked \in Appending
           /\ asked.phase = "known" => asked \in Knowing
           /\ asked.phase = "bad" => asked \in Spoiling
           /\ asked.phase = "alias" => asked \in Aliasing
  BY DEF Calls, Appending, Knowing, Spoiling, Aliasing, Idle

LEMMA SourceLines ==
    ASSUME NEW g \in Generations
    PROVE  /\ Source[g] \in Seq(Event \cup Bad)
           /\ \A n \in 1..Len(Source[g]) :
                  /\ Source[g][n] \in Event \cup Bad
                  /\ Source[g][n].kind = "bad" => Source[g][n] \in Bad
                  /\ Source[g][n].kind # "bad" => Source[g][n] \in Event
<1>1. Source[g] \in Seq(Event \cup Bad)
  BY JournalAssumption
<1>2. \A n \in 1..Len(Source[g]) : Source[g][n] \in Event \cup Bad
  BY <1>1
<1>3. \A x \in Event \cup Bad : /\ x.kind = "bad" => x \in Bad
                                /\ x.kind # "bad" => x \in Event
  BY DEF Event, Bad
<1> QED
  BY <1>1, <1>2, <1>3

-----------------------------------------------------------------------------
(***************************************************************************)
(* Calls.  What a call has looked up is still so after a step of another   *)
(* caller, since the rows only grow.                                       *)
(***************************************************************************)

LEMMA CallStays ==
    ASSUME TypeOK, TypeOK', Extends, NEW d \in Callers,
           StillSo(call[d]), call'[d] = call[d]
    PROVE  StillSo(call[d])'
<1>1. call[d] \in Calls
  BY DEF TypeOK
<1>2. \A g \in Generations : \A n, line : Ahead(g, n, line) => Ahead(g, n, line)'
  <2> SUFFICES ASSUME NEW g \in Generations, NEW n, NEW line, Ahead(g, n, line)
               PROVE  Ahead(g, n, line)'
    OBVIOUS
  <2>1. cursor'[g] >= cursor[g] /\ cursor[g] \in Nat /\ cursor'[g] \in Nat
    BY DEF Extends, TypeOK
  <2>2. Source[g] \in Seq(Event \cup Bad)
    BY SourceLines
  <2> QED
    BY <2>1, <2>2 DEF Ahead
<1>3. CASE call[d].phase \in {"lookup", "insert"}
  <2>1. call[d].gen \in Generations
    BY <1>1, <1>3, CallOfPhase DEF Appending
  <2> QED
    BY <1>2, <1>3, <2>1 DEF StillSo, LineOf
<1>4. CASE call[d].phase = "known"
  <2>1. call[d].gen \in Generations
    BY <1>1, <1>4, CallOfPhase DEF Knowing
  <2>2. call[d].id \in DOMAIN events /\ events'[call[d].id] = events[call[d].id]
        /\ call[d].id \in DOMAIN events'
    BY <1>4 DEF StillSo, RowOf, Extends
  <2> QED
    BY <1>2, <1>4, <2>1, <2>2 DEF StillSo, RowOf, LineOf
<1>5. CASE call[d].phase = "bad"
  <2>1. call[d].gen \in Generations
    BY <1>1, <1>5, CallOfPhase DEF Spoiling
  <2> QED
    BY <1>2, <1>5, <2>1 DEF StillSo
<1>6. CASE call[d].phase = "alias"
  BY <1>6 DEF StillSo, RowOf, Extends
<1>7. CASE call[d].phase \notin {"lookup", "insert", "known", "bad", "alias"}
  BY <1>7 DEF StillSo
<1> QED
  BY <1>3, <1>4, <1>5, <1>6, <1>7

LEMMA CallsStay ==
    ASSUME TypeOK, TypeOK', Extends, CallsHold, NEW c \in Callers, Rest(c), StillSo(call[c])'
    PROVE  CallsHold'
<1>1. ASSUME NEW d \in Callers, d # c PROVE StillSo(call[d])'
  <2>1. StillSo(call[d]) /\ call'[d] = call[d]
    BY <1>1 DEF CallsHold, Rest
  <2> QED
    BY <2>1, CallStays
<1> QED
  BY <1>1 DEF CallsHold

\* A call that ends, or none of whose steps is left.
LEMMA CallEnds ==
    ASSUME TypeOK, NEW c \in Callers, Become(c, Idle)
    PROVE  call' \in [Callers -> Calls] /\ Rest(c) /\ StillSo(call[c])'
<1>1. call' = [call EXCEPT ![c] = Idle] /\ call \in [Callers -> Calls] /\ Idle \in Calls
  BY DEF Become, TypeOK, Calls
<1>2. call'[c] = Idle
  BY <1>1
<1> QED
  BY <1>1, <1>2 DEF Rest, StillSo, Idle

\* A new state of one call.
LEMMA CallChanges ==
    ASSUME TypeOK, NEW c \in Callers, NEW s \in Calls, Become(c, s)
    PROVE  call' \in [Callers -> Calls] /\ Rest(c) /\ call'[c] = s
  BY DEF Become, TypeOK, Rest

-----------------------------------------------------------------------------
(***************************************************************************)
(* The steps, one lemma for each kind.  Each ends in Kept: the invariant   *)
(* and the two properties that follow.                                     *)
(***************************************************************************)
Inv == JournalInv /\ NothingSkipped

\* Nothing but the call of c changes, and what it has looked up is so.
LEMMA OnlyCalls ==
    ASSUME Inv, NEW c \in Callers, UNCHANGED rows, call' \in [Callers -> Calls], Rest(c),
           StillSo(call[c])'
    PROVE  Inv' /\ Extends
<1>1. TypeOK' /\ Extends
  BY DEF Inv, JournalInv, TypeOK, Extends, rows
<1>2. CallsHold'
  BY <1>1, CallsStay DEF Inv, JournalInv
<1>3. ReceivedOnce' /\ NumberedInOrder' /\ AliasesInScope' /\ InSource'
  BY DEF Inv, JournalInv, ReceivedOnce, NumberedInOrder, AliasesInScope, InSource, rows
<1>4. NothingSkipped'
  BY DEF Inv, NothingSkipped, Received, Stored, rows
<1> QED
  BY <1>1, <1>2, <1>3, <1>4 DEF Inv, JournalInv, InSource

\* The lookup of append.
LEMMA SearchKept ==
    ASSUME Inv, NEW c \in Callers, NEW asked \in Appending, StillSo(asked), asked.phase = "lookup",
           Search(c, asked), UNCHANGED rows
    PROVE  Inv' /\ Extends
<1>1. TypeOK
  BY DEF Inv, JournalInv
<1>2. CASE Stored(asked.gen, asked.key) = {} /\ Become(c, [asked EXCEPT !.phase = "insert"])
  <2> DEFINE s == [asked EXCEPT !.phase = "insert"]
  <2>1. s \in Appending /\ s \in Calls /\ s.gen = asked.gen /\ s.key = asked.key /\ s.body = asked.body
        /\ s.to = asked.to /\ s.phase = "insert"
    BY DEF Appending, Calls
  <2>2. call' \in [Callers -> Calls] /\ Rest(c) /\ call'[c] = s
    BY <1>1, <1>2, <2>1, CallChanges
  <2>3. asked.to = NoRow \/ Ahead(asked.gen, asked.to, LineOf(asked))
    BY DEF StillSo
  <2>4. StillSo(call[c])'
    BY <2>1, <2>2, <2>3 DEF StillSo, Ahead, LineOf, rows
  <2> QED
    BY <2>2, <2>4, OnlyCalls
<1>3. CASE \E i \in Stored(asked.gen, asked.key) :
             Become(c, IF Reused(i, asked.body) THEN Idle
                       ELSE [phase |-> "known", gen |-> asked.gen, to |-> asked.to, id |-> i])
  <2>1. PICK i \in Stored(asked.gen, asked.key) :
             Become(c, IF Reused(i, asked.body) THEN Idle
                       ELSE [phase |-> "known", gen |-> asked.gen, to |-> asked.to, id |-> i])
    BY <1>3
  <2>2. CASE Reused(i, asked.body)
    BY <1>1, <2>1, <2>2, CallEnds, OnlyCalls
  <2>3. CASE ~Reused(i, asked.body)
    <3> DEFINE s == [phase |-> "known", gen |-> asked.gen, to |-> asked.to, id |-> i]
    <3>1. i \in DOMAIN events /\ events[i].gen = asked.gen /\ events[i].key = asked.key
          /\ events[i].body = asked.body
      BY <2>1, <2>3 DEF Stored, Reused
    <3>2. i \in Nat
      BY <1>1, <3>1 DEF TypeOK
    <3>3. s \in Calls
      BY <3>2 DEF Calls, Knowing, Appending
    <3>4. call' \in [Callers -> Calls] /\ Rest(c) /\ call'[c] = s
      BY <1>1, <2>1, <2>3, <3>3, CallChanges
    <3>5. asked.to = NoRow \/ Ahead(asked.gen, asked.to, LineOf(asked))
      BY DEF StillSo
    <3>6. LineOf(events[i]) = LineOf(asked)
      BY <3>1 DEF LineOf
    <3>7. StillSo(call[c])'
      BY <3>1, <3>4, <3>5, <3>6 DEF StillSo, Ahead, LineOf, RowOf, rows
    <3> QED
      BY <3>4, <3>7, OnlyCalls
  <2> QED
    BY <2>2, <2>3
<1> QED
  BY <1>2, <1>3 DEF Search
-----------------------------------------------------------------------------
(***************************************************************************)
(* Why the cursor skips nothing: a call moves it to the line that it has   *)
(* received, and that line is at most the next one.                        *)
(***************************************************************************)

LEMMA ReceivedStays ==
    ASSUME TypeOK, TypeOK', Extends, NEW g \in Generations, NEW n \in Nat, Received(g, n)
    PROVE  Received(g, n)'
<1>1. CASE Source[g][n].kind = "bad"
  BY <1>1 DEF Received, Extends
<1>2. CASE Source[g][n].kind # "bad"
  <2>1. PICK i \in Stored(g, Source[g][n].key) : events[i].body = Source[g][n].body
    BY <1>2 DEF Received
  <2>2. i \in DOMAIN events' /\ events'[i] = events[i]
    BY <2>1 DEF Stored, Extends
  <2> QED
    BY <1>2, <2>1, <2>2 DEF Received, Stored
<1> QED
  BY <1>1, <1>2

LEMMA CursorKept ==
    ASSUME Inv, TypeOK', Extends, NEW g \in Generations, NEW to \in Nat, NEW line,
           WriteCursor(g, to), Passes(g, to),
           to # NoRow => Ahead(g, to, line) /\ Received(g, to)'
    PROVE  NothingSkipped' /\ InSource'
<1>1. TypeOK /\ NothingSkipped /\ InSource
  BY DEF Inv, JournalInv, InSource
<1>2. \A h \in Generations : cursor[h] \in Nat /\ cursor[h] <= Len(Source[h])
  BY <1>1 DEF TypeOK, InSource
<1>3. \A h \in Generations : Len(Source[h]) \in Nat
  BY SourceLines
<1>4. ASSUME NEW h \in Generations, NEW n \in 1..cursor[h]
      PROVE  Received(h, n)'
  BY <1>1, <1>2, ReceivedStays DEF NothingSkipped
<1>5. CASE to = NoRow
  <2>1. cursor' = cursor
    BY <1>5 DEF WriteCursor
  <2> QED
    BY <1>2, <1>4, <2>1 DEF NothingSkipped, InSource
<1>6. CASE to # NoRow
  <2>1. cursor' = [cursor EXCEPT ![g] = to] /\ cursor \in [Generations -> Nat]
    BY <1>1, <1>6 DEF WriteCursor, TypeOK
  <2>2. to <= Len(Source[g]) /\ to <= cursor[g] + 1 /\ Received(g, to)'
    BY <1>3, <1>6 DEF Ahead
  <2>3. InSource'
    BY <1>2, <2>1, <2>2 DEF InSource
  <2>4. ASSUME NEW h \in Generations, NEW n \in 1..cursor'[h]
        PROVE  Received(h, n)'
    <3>1. CASE h = g
      <4>1. n \in 1..cursor[g] \/ n = to
        BY <1>2, <2>1, <2>2, <3>1
      <4> QED
        BY <1>4, <2>2, <3>1, <4>1
    <3>2. CASE h # g
      BY <1>4, <2>1, <3>2
    <3> QED
      BY <3>1, <3>2
  <2> QED
    BY <2>3, <2>4 DEF NothingSkipped
<1> QED
  BY <1>5, <1>6

\* A cursor that a call writes is one that it may write, so it does not go back.
LEMMA CursorAdvances ==
    ASSUME TypeOK, NEW g \in Generations, NEW to \in Nat, WriteCursor(g, to), Passes(g, to)
    PROVE  /\ cursor' \in [Generations -> Nat]
           /\ \A h \in Generations : cursor'[h] >= cursor[h]
  BY DEF WriteCursor, Passes, TypeOK

-----------------------------------------------------------------------------
\* A hook's append starts.
LEMMA HookKept ==
    ASSUME Inv, NEW c \in Callers, NEW e \in HookEvents, Hook(c, e)
    PROVE  Inv' /\ Extends
<1> DEFINE s == [phase |-> "lookup", gen |-> e.gen, key |-> e.key, body |-> e.body, to |-> NoRow]
<1>1. s \in Appending /\ StillSo(s) /\ s.phase = "lookup"
  BY JournalAssumption DEF Appending, StillSo, NoRow
<1>2. Search(c, s) /\ UNCHANGED rows
  BY DEF Hook, rows
<1> HIDE DEF s
<1> QED
  BY <1>1, <1>2, SearchKept

\* A reader takes the line behind the cursor.
LEMMA ReadKept ==
    ASSUME Inv, NEW c \in Callers, NEW g \in Generations, Read(c, g)
    PROVE  Inv' /\ Extends
<1> DEFINE n == cursor[g] + 1
           line == Source[g][n]
<1>1. TypeOK /\ cursor[g] \in Nat
  BY DEF Inv, JournalInv, TypeOK
<1>2. n \in 1..Len(Source[g]) /\ Len(Source[g]) \in Nat
  BY <1>1, SourceLines DEF Read
<1>3. /\ line.kind = "bad" => line \in Bad
      /\ line.kind # "bad" => line \in Event
  BY <1>2, SourceLines
<1>4. UNCHANGED rows /\ Become(c, IF line.kind = "bad"
             THEN [phase |-> "bad", gen |-> g, body |-> line.body, to |-> n]
             ELSE [phase |-> "lookup", gen |-> g, key |-> line.key, body |-> line.body, to |-> n])
  BY DEF Read, rows
<1>5. Ahead(g, n, line)
  BY <1>1, <1>2 DEF Ahead
<1> HIDE DEF n, line
<1>6. CASE line.kind = "bad"
  <2> DEFINE s == [phase |-> "bad", gen |-> g, body |-> line.body, to |-> n]
  <2>1. s \in Calls
    BY <1>2, <1>3, <1>6 DEF Calls, Spoiling, Bad
  <2>2. call' \in [Callers -> Calls] /\ Rest(c) /\ call'[c] = s
    BY <1>1, <1>4, <1>6, <2>1, CallChanges
  <2>3. line = [kind |-> "bad", body |-> line.body]
    BY <1>3, <1>6 DEF Bad
  <2>4. StillSo(call[c])'
    BY <1>4, <1>5, <2>2, <2>3 DEF StillSo, Ahead, rows
  <2> QED
    BY <1>4, <2>2, <2>4, OnlyCalls
<1>7. CASE line.kind # "bad"
  <2> DEFINE s == [phase |-> "lookup", gen |-> g, key |-> line.key, body |-> line.body, to |-> n]
  <2>1. s \in Calls
    BY <1>2, <1>3, <1>7 DEF Calls, Appending, Event
  <2>2. call' \in [Callers -> Calls] /\ Rest(c) /\ call'[c] = s
    BY <1>1, <1>4, <1>7, <2>1, CallChanges
  <2>3. line = LineOf(s)
    BY <1>3, <1>7 DEF Event, LineOf
  <2>4. StillSo(call[c])'
    BY <1>4, <1>5, <2>2, <2>3 DEF StillSo, Ahead, LineOf, rows
  <2> QED
    BY <1>4, <2>2, <2>4, OnlyCalls
<1> QED
  BY <1>6, <1>7

LEMMA LookupKept ==
    ASSUME Inv, NEW c \in Callers, Lookup(c)
    PROVE  Inv' /\ Extends
<1>1. call[c] \in Appending /\ StillSo(call[c])
  BY CallOfPhase DEF Inv, JournalInv, TypeOK, CallsHold, Lookup
<1>2. PICK asked \in Appending : asked = call[c]
  BY <1>1
<1>3. StillSo(asked) /\ asked.phase = "lookup" /\ Search(c, asked) /\ UNCHANGED rows
  BY <1>1, <1>2 DEF Lookup, rows
<1> QED
  BY <1>3, SearchKept

\* The transaction of append: one more row, with the next number.
LEMMA InsertKept ==
    ASSUME Inv, NEW c \in Callers, Insert(c)
    PROVE  Inv' /\ Extends
<1>1. PICK asked \in Appending : asked = call[c]
  BY CallOfPhase DEF Inv, JournalInv, TypeOK, Insert
<1> DEFINE row == [gen |-> asked.gen, key |-> asked.key, body |-> asked.body, seq |-> NextSequence]
<1>2. /\ asked.phase = "insert" /\ Free(asked.gen, asked.key) /\ Passes(asked.gen, asked.to)
      /\ events' = Append(events, row)
      /\ WriteCursor(asked.gen, asked.to) /\ Become(c, Idle)
      /\ alias' = alias /\ quarantine' = quarantine /\ deaths' = deaths
  BY <1>1 DEF Insert
<1>3. /\ TypeOK /\ ReceivedOnce /\ NumberedInOrder /\ AliasesInScope /\ CallsHold
      /\ asked.gen \in Generations /\ asked.key \in EventKeys /\ asked.body \in Bodies /\ asked.to \in Nat
  BY DEF Inv, JournalInv, Appending
<1>4. /\ events \in Seq(Row) /\ Len(events) \in Nat /\ DOMAIN events = 1..Len(events)
  BY <1>3 DEF TypeOK
<1>5. NextSequence = Len(events) + 1
  <2>1. CASE events = <<>>
    BY <2>1 DEF NextSequence
  <2>2. CASE events # <<>>
    <3>1. Len(events) \in DOMAIN events
      BY <1>4, <2>2
    <3> QED
      BY <1>3, <2>2, <3>1 DEF NextSequence, NumberedInOrder
  <2> QED
    BY <2>1, <2>2
<1>6. row \in Row /\ row.seq = Len(events) + 1
  BY <1>3, <1>4, <1>5 DEF Row
<1>7. row.gen = asked.gen /\ row.key = asked.key /\ row.body = asked.body
  OBVIOUS
<1> HIDE DEF row
<1>8. /\ events' \in Seq(Row) /\ DOMAIN events' = 1..(Len(events) + 1)
      /\ events'[Len(events) + 1] = row
      /\ \A i \in DOMAIN events : i \in DOMAIN events' /\ events'[i] = events[i]
  BY <1>2, <1>4, <1>6
<1>9. \A i \in DOMAIN events' : i \in DOMAIN events \/ i = Len(events) + 1
  BY <1>4, <1>8
<1>10. TypeOK' /\ Extends
  BY <1>2, <1>3, <1>8, CallEnds, CursorAdvances DEF TypeOK, Extends
<1>11. ReceivedOnce'
  <2>1. \A i \in DOMAIN events : ~(events[i].gen = asked.gen /\ events[i].key = asked.key)
    BY <1>2 DEF Free, Stored
  <2> QED
    BY <1>3, <1>7, <1>8, <1>9, <2>1 DEF ReceivedOnce
<1>12. NumberedInOrder'
  BY <1>3, <1>6, <1>8, <1>9 DEF NumberedInOrder
<1>13. AliasesInScope'
  BY <1>2, <1>3, <1>8 DEF AliasesInScope
<1>14. CallsHold'
  BY <1>2, <1>3, <1>10, CallEnds, CallsStay
<1>15. asked.to # NoRow => Ahead(asked.gen, asked.to, LineOf(asked)) /\ Received(asked.gen, asked.to)'
  <2> SUFFICES ASSUME asked.to # NoRow
               PROVE  Ahead(asked.gen, asked.to, LineOf(asked)) /\ Received(asked.gen, asked.to)'
    OBVIOUS
  <2>1. StillSo(asked)
    BY <1>1, <1>3 DEF CallsHold
  <2>2. Ahead(asked.gen, asked.to, LineOf(asked))
    BY <1>2, <2>1 DEF StillSo
  <2>3. /\ Source[asked.gen][asked.to].kind = "event" /\ Source[asked.gen][asked.to].key = asked.key
        /\ Source[asked.gen][asked.to].body = asked.body
    BY <2>2 DEF Ahead, LineOf
  <2>4. Len(events) + 1 \in Stored(asked.gen, asked.key)' /\ events'[Len(events) + 1].body = asked.body
    BY <1>4, <1>7, <1>8 DEF Stored
  <2> QED
    BY <2>2, <2>3, <2>4 DEF Received
<1>16. NothingSkipped' /\ InSource'
  BY <1>2, <1>3, <1>10, <1>15, CursorKept
<1> QED
  BY <1>10, <1>11, <1>12, <1>13, <1>14, <1>16 DEF Inv, JournalInv, InSource

\* A step that leaves the events and aliases alone, ends the call and moves the
\* cursor to a line that was received.
LEMMA CursorStep ==
    ASSUME Inv, NEW c \in Callers, NEW g \in Generations, NEW to \in Nat, NEW line,
           Become(c, Idle), WriteCursor(g, to), Passes(g, to),
           events' = events, alias' = alias, deaths' = deaths,
           quarantine \subseteq quarantine',
           quarantine' \subseteq [gen : Generations, at : Nat, body : Bodies],
           to # NoRow => Ahead(g, to, line) /\ Received(g, to)'
    PROVE  Inv' /\ Extends
<1>1. TypeOK /\ ReceivedOnce /\ NumberedInOrder /\ AliasesInScope /\ CallsHold
  BY DEF Inv, JournalInv
<1>2. TypeOK' /\ Extends
  BY <1>1, CallEnds, CursorAdvances DEF TypeOK, Extends
<1>3. ReceivedOnce' /\ NumberedInOrder' /\ AliasesInScope'
  BY <1>1 DEF ReceivedOnce, NumberedInOrder, AliasesInScope
<1>4. CallsHold'
  BY <1>1, <1>2, CallEnds, CallsStay
<1>5. NothingSkipped' /\ InSource'
  BY <1>2, CursorKept
<1> QED
  BY <1>2, <1>3, <1>4, <1>5 DEF Inv, JournalInv, InSource

\* append of a known event.
LEMMA KnownKept ==
    ASSUME Inv, NEW c \in Callers, Known(c)
    PROVE  Inv' /\ Extends
<1>1. PICK asked \in Knowing : asked = call[c]
  BY CallOfPhase DEF Inv, JournalInv, TypeOK, Known
<1>2. /\ asked.phase = "known" /\ Passes(asked.gen, asked.to) /\ WriteCursor(asked.gen, asked.to)
      /\ Become(c, Idle) /\ UNCHANGED <<events, alias, quarantine, deaths>>
  BY <1>1 DEF Known
<1>3. asked.gen \in Generations /\ asked.to \in Nat /\ TypeOK /\ StillSo(asked)
  BY <1>1 DEF Knowing, Inv, JournalInv, CallsHold
<1>4. asked.to # NoRow => /\ Ahead(asked.gen, asked.to, LineOf(events[asked.id]))
                        /\ Received(asked.gen, asked.to)'
  <2> SUFFICES ASSUME asked.to # NoRow
               PROVE  /\ Ahead(asked.gen, asked.to, LineOf(events[asked.id]))
                      /\ Received(asked.gen, asked.to)'
    OBVIOUS
  <2>1. /\ Ahead(asked.gen, asked.to, LineOf(events[asked.id]))
        /\ asked.id \in DOMAIN events /\ events[asked.id].gen = asked.gen
    BY <1>2, <1>3 DEF StillSo, RowOf
  <2>2. /\ Source[asked.gen][asked.to].kind = "event"
        /\ Source[asked.gen][asked.to].key = events[asked.id].key
        /\ Source[asked.gen][asked.to].body = events[asked.id].body
    BY <2>1 DEF Ahead, LineOf
  <2>3. asked.id \in Stored(asked.gen, Source[asked.gen][asked.to].key)'
    BY <1>2, <2>1, <2>2 DEF Stored
  <2> QED
    BY <1>2, <2>1, <2>2, <2>3 DEF Received
<1> QED
  BY <1>2, <1>3, <1>4, CursorStep DEF TypeOK

\* record_invalid_line.
LEMMA QuarantineKept ==
    ASSUME Inv, NEW c \in Callers, Quarantine(c)
    PROVE  Inv' /\ Extends
<1>1. PICK asked \in Spoiling : asked = call[c]
  BY CallOfPhase DEF Inv, JournalInv, TypeOK, Quarantine
<1>2. /\ asked.phase = "bad" /\ Passes(asked.gen, asked.to) /\ WriteCursor(asked.gen, asked.to)
      /\ quarantine' = quarantine \cup {[gen |-> asked.gen, at |-> asked.to, body |-> asked.body]}
      /\ Become(c, Idle) /\ UNCHANGED <<events, alias, deaths>>
  BY <1>1 DEF Quarantine
<1>3. /\ asked.gen \in Generations /\ asked.to \in Nat /\ asked.body \in Bodies
      /\ TypeOK /\ StillSo(asked)
  BY <1>1 DEF Spoiling, Inv, JournalInv, CallsHold
<1>4. Ahead(asked.gen, asked.to, [kind |-> "bad", body |-> asked.body])
  BY <1>2, <1>3 DEF StillSo
<1>5. Received(asked.gen, asked.to)'
  BY <1>2, <1>4 DEF Ahead, Received
<1>6. quarantine' \subseteq [gen : Generations, at : Nat, body : Bodies]
  BY <1>2, <1>3 DEF TypeOK
<1> QED
  BY <1>2, <1>3, <1>4, <1>5, <1>6, CursorStep

\* A transaction that raises, or a caller that dies.
LEMMA EndKept ==
    ASSUME Inv, NEW c \in Callers, Become(c, Idle),
           UNCHANGED <<events, cursor, alias, quarantine>>, deaths' \in 0..MaxDeaths
    PROVE  Inv' /\ Extends
<1>1. TypeOK /\ NoRow \in Nat /\ quarantine \subseteq [gen : Generations, at : Nat, body : Bodies]
  BY DEF Inv, JournalInv, TypeOK, NoRow
<1>2. TypeOK' /\ Extends
  BY <1>1, CallEnds DEF TypeOK, Extends
<1>3. CallsHold'
  BY <1>1, <1>2, CallEnds, CallsStay DEF Inv, JournalInv
<1>4. ReceivedOnce' /\ NumberedInOrder' /\ AliasesInScope' /\ InSource'
  BY DEF Inv, JournalInv, ReceivedOnce, NumberedInOrder, AliasesInScope, InSource
<1>5. NothingSkipped'
  BY DEF Inv, NothingSkipped, Received, Stored
<1> QED
  BY <1>2, <1>3, <1>4, <1>5 DEF Inv, JournalInv, InSource

\* The lookups of add_alias.
LEMMA AliasLookupKept ==
    ASSUME Inv, NEW c \in Callers, NEW g \in Generations, NEW k \in AliasKeys,
           NEW i \in DOMAIN events, AliasLookup(c, g, k, i)
    PROVE  Inv' /\ Extends
<1> DEFINE s == [phase |-> "alias", gen |-> g, key |-> k, id |-> i]
<1> HIDE DEF s
<1>1. TypeOK /\ i \in Nat
  BY DEF Inv, JournalInv, TypeOK
<1>A. events[i].gen = g /\ Become(c, s) /\ UNCHANGED rows
  BY DEF AliasLookup, rows, s
<1>2. s \in Calls /\ s.phase = "alias" /\ s.id = i /\ s.gen = g
  BY <1>1, JournalAssumption DEF Calls, Aliasing, s
<1>3. call' \in [Callers -> Calls] /\ Rest(c) /\ call'[c] = s
  BY <1>A, <1>1, <1>2, CallChanges
<1>4. StillSo(call[c])'
  BY <1>A, <1>2, <1>3 DEF StillSo, RowOf, rows
<1> QED
  BY <1>A, <1>3, <1>4, OnlyCalls

\* The insert of add_alias.
LEMMA AliasInsertKept ==
    ASSUME Inv, NEW c \in Callers, AliasInsert(c)
    PROVE  Inv' /\ Extends
<1>1. PICK asked \in Aliasing : asked = call[c]
  BY CallOfPhase DEF Inv, JournalInv, TypeOK, AliasInsert
<1>2. /\ asked.phase = "alias" /\ Become(c, Idle)
      /\ UNCHANGED <<events, cursor, quarantine, deaths>>
  BY <1>1 DEF AliasInsert
<1>3. /\ TypeOK /\ AliasesInScope /\ CallsHold
      /\ asked.gen \in Generations /\ asked.key \in EventKeys /\ asked.id \in Nat
      /\ asked.id \in DOMAIN events /\ events[asked.id].gen = asked.gen
  BY <1>1, <1>2 DEF Inv, JournalInv, CallsHold, StillSo, RowOf, Aliasing
<1>4. /\ alias' \in [Generations \X EventKeys -> Nat]
      /\ \A g \in Generations, k \in EventKeys :
            alias'[g, k] = IF g = asked.gen /\ k = asked.key THEN asked.id ELSE alias[g, k]
  <2>1. alias' = [alias EXCEPT ![<<asked.gen, asked.key>>] = asked.id]
    BY <1>1 DEF AliasInsert
  <2>2. alias \in [Generations \X EventKeys -> Nat]
    BY <1>3 DEF TypeOK
  <2> QED
    BY <1>3, <2>1, <2>2
<1>5. TypeOK' /\ Extends
  <2>1. TypeOK'
    BY <1>2, <1>3, <1>4, CallEnds DEF TypeOK
  <2>2. alias[asked.gen, asked.key] = NoRow
    BY <1>1 DEF AliasInsert
  <2>3. \A g \in Generations, k \in EventKeys : alias[g, k] # NoRow => alias'[g, k] = alias[g, k]
    BY <1>4, <2>2
  <2>4. \A g \in Generations : cursor[g] \in Nat
    BY <1>3 DEF TypeOK
  <2>5. /\ \A i \in DOMAIN events : i \in DOMAIN events' /\ events'[i] = events[i]
        /\ quarantine \subseteq quarantine'
    BY <1>2
  <2>6. \A g \in Generations : cursor'[g] >= cursor[g]
    BY <1>2, <2>4
  <2> QED
    BY <2>1, <2>3, <2>5, <2>6 DEF Extends
<1>6. AliasesInScope'
  BY <1>2, <1>3, <1>4 DEF AliasesInScope
<1>7. CallsHold'
  BY <1>2, <1>3, <1>5, CallEnds, CallsStay
<1>8. ReceivedOnce' /\ NumberedInOrder' /\ InSource'
  BY <1>2 DEF Inv, JournalInv, ReceivedOnce, NumberedInOrder, InSource
<1>9. NothingSkipped'
  BY <1>2 DEF Inv, NothingSkipped, Received, Stored
<1> QED
  BY <1>5, <1>6, <1>7, <1>8, <1>9 DEF Inv, JournalInv, InSource

-----------------------------------------------------------------------------
(***************************************************************************)
(* The theorems.                                                           *)
(***************************************************************************)

LEMMA InitKept == Init => Inv
<1> SUFFICES ASSUME Init PROVE Inv
  OBVIOUS
<1>1. TypeOK
  BY JournalAssumption DEF Init, TypeOK, Calls, NoRow
<1>2. ReceivedOnce /\ NumberedInOrder /\ AliasesInScope
  <2>1. DOMAIN events = {}
    BY DEF Init
  <2>2. \A g \in Generations, k \in EventKeys : alias[g, k] = NoRow
    BY DEF Init
  <2> QED
    BY <2>1, <2>2 DEF ReceivedOnce, NumberedInOrder, AliasesInScope
<1>3. CallsHold
  BY DEF Init, CallsHold, StillSo, Idle
<1>4. InSource
  BY SourceLines DEF Init, InSource
<1>5. NothingSkipped
  BY DEF Init, NothingSkipped
<1> QED
  BY <1>1, <1>2, <1>3, <1>4, <1>5 DEF Inv, JournalInv, InSource

LEMMA StepKept == Inv /\ [Next]_jvars => Inv' /\ (Extends \/ UNCHANGED jvars)
<1> SUFFICES ASSUME Inv, [Next]_jvars PROVE Inv' /\ (Extends \/ UNCHANGED jvars)
  OBVIOUS
<1>1. ASSUME NEW c \in Callers, NEW e \in HookEvents, Hook(c, e) PROVE Inv' /\ Extends
  BY <1>1, HookKept
<1>2. ASSUME NEW c \in Callers, NEW g \in Generations, Read(c, g) PROVE Inv' /\ Extends
  BY <1>2, ReadKept
<1>3. ASSUME NEW c \in Callers, NEW g \in Generations, NEW k \in AliasKeys,
             NEW i \in DOMAIN events, AliasLookup(c, g, k, i)
      PROVE  Inv' /\ Extends
  BY <1>3, AliasLookupKept
<1>4. ASSUME NEW c \in Callers, Ends(c) PROVE Inv' /\ Extends
  <2>1. CASE Refused(c)
    BY <2>1, EndKept DEF Refused, Inv, JournalInv, TypeOK
  <2> QED
    BY <1>4, <2>1, LookupKept, InsertKept, KnownKept, QuarantineKept, AliasInsertKept DEF Ends
<1>5. ASSUME NEW c \in Callers, Die(c) PROVE Inv' /\ Extends
  <2>1. deaths' \in 0..MaxDeaths
    BY <1>5, JournalAssumption DEF Die, Inv, JournalInv, TypeOK
  <2> QED
    BY <1>5, <2>1, EndKept DEF Die
<1>6. CASE UNCHANGED jvars
  <2>1. TypeOK' /\ InSource'
    BY <1>6 DEF Inv, JournalInv, TypeOK, InSource, jvars
  <2>2. ReceivedOnce' /\ NumberedInOrder' /\ AliasesInScope'
    BY <1>6 DEF Inv, JournalInv, ReceivedOnce, NumberedInOrder, AliasesInScope, jvars
  <2>3. CallsHold'
    BY <1>6 DEF Inv, JournalInv, CallsHold, StillSo, RowOf, Ahead, jvars
  <2>4. NothingSkipped'
    BY <1>6 DEF Inv, NothingSkipped, Received, Stored, jvars
  <2> QED
    BY <1>6, <2>1, <2>2, <2>3, <2>4 DEF Inv, JournalInv, InSource
<1> QED
  BY <1>1, <1>2, <1>3, <1>4, <1>5, <1>6 DEF Next

\* JournalInv holds whoever calls append, record_invalid_line and add_alias at
\* once: an event is one row, the rows are numbered without gaps, aliases stay
\* in their generation and every lookup still holds in its transaction.
THEOREM JournalInvariant == Spec => []JournalInv
<1>1. Inv => JournalInv
  BY DEF Inv
<1> QED
  BY <1>1, InitKept, StepKept, PTL DEF Spec

\* The cursor of a source passes no line that was not stored or quarantined,
\* for any source, any crashes and any events of hooks in between.
THEOREM CursorSkipsNothing == Spec => []NothingSkipped
<1>1. Inv => NothingSkipped
  BY DEF Inv
<1> QED
  BY <1>1, InitKept, StepKept, PTL DEF Spec

\* No call removes or rewrites a row or moves a cursor back.
THEOREM JournalOnlyGrows == Spec => JournalGrows
<1> DEFINE Grows == /\ IsPrefix(events, events')
                    /\ quarantine \subseteq quarantine'
                    /\ \A g \in Generations : cursor'[g] >= cursor[g]
                    /\ \A g \in Generations, k \in EventKeys :
                           alias[g, k] # NoRow => alias'[g, k] = alias[g, k]
<1>1. Inv /\ Inv' /\ Extends => Grows
  <2> SUFFICES ASSUME TypeOK, TypeOK', Extends PROVE Grows
    BY DEF Inv, JournalInv
  <2>1. events \in Seq(Row) /\ events' \in Seq(Row)
    BY DEF TypeOK
  <2>2. /\ Len(events) \in Nat /\ DOMAIN events = 1..Len(events)
        /\ Len(events') \in Nat /\ DOMAIN events' = 1..Len(events')
    BY <2>1
  <2>3. Len(events) <= Len(events')
    <3>1. CASE Len(events) = 0
      BY <2>2, <3>1
    <3>2. CASE Len(events) # 0
      <4>1. Len(events) \in DOMAIN events
        BY <2>2, <3>2
      <4>2. Len(events) \in DOMAIN events'
        BY <4>1 DEF Extends
      <4> QED
        BY <2>2, <4>2
    <3> QED
      BY <3>1, <3>2
  <2>4. \A i \in 1..Len(events) : events'[i] = events[i] /\ events[i] \in Row
    <3>1. \A i \in DOMAIN events : events'[i] = events[i]
      BY DEF Extends
    <3>2. \A i \in 1..Len(events) : events[i] \in Row
      BY <2>1
    <3> QED
      BY <2>2, <3>1, <3>2
  <2>5. /\ SubSeq(events', 1, Len(events)) \in Seq(Row)
        /\ Len(SubSeq(events', 1, Len(events))) = Len(events)
        /\ \A i \in 1..Len(events) : SubSeq(events', 1, Len(events))[i] = events'[i]
    <3>1. /\ SubSeq(events', 1, Len(events)) \in Seq(Row)
          /\ Len(SubSeq(events', 1, Len(events)))
             = IF 1 <= Len(events) THEN Len(events) - 1 + 1 ELSE 0
          /\ \A i \in 1..(Len(events) - 1 + 1) :
                SubSeq(events', 1, Len(events))[i] = events'[1 + i - 1]
      BY <2>2, <2>4, SubSeqProperties
    <3> QED
      BY <2>2, <3>1
  <2>6. SubSeq(events', 1, Len(events)) = events
    BY <2>1, <2>2, <2>4, <2>5, SeqEqual
  <2>7. IsPrefix(events, events')
    BY <2>1, <2>3, <2>6, SubSeqFull DEF IsPrefix
  <2> QED
    BY <2>7 DEF Extends
<1>2. Inv /\ [Next]_jvars => [Grows]_jvars
  BY <1>1, StepKept
<1> HIDE DEF Grows
<1>3. Spec => [][Grows]_jvars
  BY <1>2, InitKept, StepKept, PTL DEF Spec
<1> QED
  BY <1>3 DEF JournalGrows, Grows
=============================================================================
