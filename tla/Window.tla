-------------------------------- MODULE Window --------------------------------
(***************************************************************************)
(* Observation windows (observation.py): a rollout that is opened with the *)
(* updaters of its hosts switched off (hosts/settings.py), watched every   *)
(* minute, and closed by a rollback after which the settings come back.    *)
(*                                                                         *)
(* Every command holds one file lock, so one of them is under way at a     *)
(* time; it may die anywhere.  What it does to files (host settings, the   *)
(* STOP file, the record of original settings) is not part of the database *)
(* transaction around it.  The daemon, and the operator's hand on the STOP *)
(* file, go on in between.                                                 *)
(*                                                                         *)
(* Reasons for a tick to stop a window are its deadline, the STOP file, a  *)
(* run that is stopped, a host that is not the pinned executable any more  *)
(* (hosts/pinning.py) and an operator's label of a wrong recall            *)
(* (daily_report.py).  The others (quotas, failed processing, a daemon     *)
(* that does not answer) are a choice of the tick.  Exported reports, the  *)
(* preflight checks other than the pinning and the legacy runs without     *)
(* pinned hosts are left out.                                              *)
(***************************************************************************)
EXTENDS Naturals, FiniteSets

CONSTANTS
    Hosts,      \* hosts whose updater has a switch
    NoRecord,
    Injections, \* sessions that may be shown memories
    Receipts,   \* receipts of operators' labels
    Kinds,      \* kinds of labels, "wrong_recall" or "consumed"
    MaxRuns,    \* bound on windows
    MaxUpdates, \* bound on updates of a host's executable
    MaxFaults   \* bound on crashes and failures

ASSUME WindowAssumption ==
    /\ MaxRuns \in Nat \ {0} /\ MaxFaults \in Nat /\ MaxUpdates \in Nat
    /\ Kinds \subseteq {"wrong_recall", "consumed"}

Runs == 1..MaxRuns

Value == {"user", "off"}   \* what the user chose, or switched off for the window

Records == [orig : [Hosts -> Value], restored : BOOLEAN]

ASSUME NoRecordAssumption == NoRecord \notin Records

VARIABLES
    setting,  \* the updater switch in each host's settings file
    record,   \* host-settings.json of a window
    status,   \* status of a rollout run
    overdue,  \* runs whose deadline has passed
    opened,   \* runs with an observation_opened receipt
    frozen,   \* runs with an observation_stopping receipt
    closed,   \* runs with an observation_closed receipt
    stop,     \* whether the STOP file exists
    cmd,      \* the command that holds the lock
    faults,   \* crashes and failures so far
    orphaned, \* hosts a start left switched off when it died or could not undo
    drifted,  \* hosts whose entry point is not the configured executable
    updates,  \* updates so far
    ready,    \* whether a start has passed its preflight
    shown,    \* the run in which an injection showed memories, or 0
    labels,   \* quality_observation rows of rollout_audit
    held      \* runs whose rollback was held up, perhaps for ever

ovars == <<drifted, updates, ready, shown, labels, held>>
wvars == <<setting, record, status, overdue, opened, frozen, closed, stop, cmd, faults, orphaned,
           ovars>>

Idle == [phase |-> "idle"]

Starting == cmd.phase \in {"disable", "activate", "record", "open", "undo"}

Originals == UNION {[H -> Value] : H \in SUBSET Hosts}

Values(kind) == IF kind = "consumed" THEN {"yes", "no", "unknown"} ELSE {"yes", "no"}

Label == [run : Runs, receipt : Receipts, kind : Kinds, target : Injections,
          value : {"yes", "no", "unknown"}]

Starts   == [phase : {"disable", "activate", "record", "open", "undo"}, run : Runs,
             orig : Originals]
Closings == [phase : {"check", "touch", "freeze", "rollback", "close", "last"}, run : Runs]
Restores == [phase : {"restore"}, run : Runs, left : SUBSET Hosts, closing : BOOLEAN]
Sweeps   == [phase : {"sweep"}, left : SUBSET Runs]

WindowTypeOK ==
    /\ setting \in [Hosts -> Value]
    /\ record \in [Runs -> {NoRecord} \cup Records]
    /\ status \in [Runs -> {"none", "live", "stopping", "stopped"}]
    /\ overdue \subseteq Runs /\ opened \subseteq Runs
    /\ frozen \subseteq opened /\ closed \subseteq opened
    /\ stop \in BOOLEAN
    /\ cmd \in {Idle} \cup Starts \cup Closings \cup Restores \cup Sweeps
    /\ faults \in 0..MaxFaults
    /\ orphaned \subseteq Hosts
    /\ drifted \subseteq Hosts /\ updates \in 0..MaxUpdates
    /\ ready \in BOOLEAN
    /\ shown \in [Injections -> {0} \cup Runs]
    /\ labels \subseteq Label
    /\ held \subseteq opened

WindowInit ==
    /\ setting = [h \in Hosts |-> "user"]
    /\ record = [n \in Runs |-> NoRecord]
    /\ status = [n \in Runs |-> "none"]
    /\ overdue = {} /\ opened = {} /\ frozen = {} /\ closed = {} /\ orphaned = {}
    /\ stop = FALSE
    /\ cmd = Idle
    /\ faults = 0
    /\ drifted = {} /\ updates = 0 /\ ready = FALSE
    /\ shown = [i \in Injections |-> 0]
    /\ labels = {} /\ held = {}

Fault == faults < MaxFaults /\ faults' = faults + 1

(***************************************************************************)
(* start_window.  The database part commits at the end.                    *)
(***************************************************************************)
\* The hosts are pinned before the lock is taken: each entry point resolves
\* to the configured version.
Preflight ==
    /\ ~ready /\ drifted = {}
    /\ ready' = TRUE
    /\ UNCHANGED <<setting, record, status, overdue, opened, frozen, closed, stop, cmd, faults,
                   orphaned, drifted, updates, shown, labels, held>>

MayStart ==
    /\ \A n \in Runs : status[n] \in {"none", "stopped"}
    /\ opened \subseteq closed

StartRefused ==
    /\ cmd = Idle /\ ready /\ ~MayStart
    /\ ready' = FALSE
    /\ UNCHANGED <<setting, record, status, overdue, opened, frozen, closed, stop, cmd, faults,
                   orphaned, drifted, updates, shown, labels, held>>

StartBegins(n) ==
    /\ cmd = Idle /\ ready /\ MayStart
    /\ status[n] = "none" /\ \A m \in Runs : m < n => status[m] # "none"
    /\ ready' = FALSE
    /\ cmd' = [phase |-> "disable", run |-> n, orig |-> <<>>]
    /\ UNCHANGED <<setting, record, status, overdue, opened, frozen, closed, stop, faults,
                   orphaned, drifted, updates, shown, labels, held>>

\* The original is read after the switch has been written.
OriginalSlip(h) == "off"

Original(h) == setting[h]

\* disable: the current value is kept as the original one, and the switch
\* written and read back.
DisableHost(h) ==
    /\ cmd.phase = "disable" /\ h \notin DOMAIN cmd.orig
    /\ setting' = [setting EXCEPT ![h] = "off"]
    /\ cmd' = [cmd EXCEPT !.orig =
                  [g \in {h} \cup DOMAIN @ |-> IF g = h THEN Original(h) ELSE @[g]]]
    /\ UNCHANGED <<record, status, overdue, opened, frozen, closed, stop, faults,
                   orphaned, ovars>>

\* The switch is written and reading it back fails, so the start never gets
\* the original value; what was switched off before is undone.
DisableFails(h) ==
    /\ cmd.phase = "disable" /\ h \notin DOMAIN cmd.orig /\ Fault
    /\ setting' = [setting EXCEPT ![h] = "off"]
    /\ orphaned' = orphaned \cup {h}
    /\ stop' = TRUE
    /\ cmd' = [cmd EXCEPT !.phase = "undo"]
    /\ UNCHANGED <<record, status, overdue, opened, frozen, closed, ovars>>

\* The STOP file of the last window goes when every updater is off.
AllDisabled ==
    /\ cmd.phase = "disable" /\ DOMAIN cmd.orig = Hosts
    /\ stop' = FALSE
    /\ cmd' = [cmd EXCEPT !.phase = "activate"]
    /\ UNCHANGED <<setting, record, status, overdue, opened, frozen, closed, faults,
                   orphaned, ovars>>

\* activate looks at the STOP file again.
ActivateWindow ==
    /\ cmd.phase = "activate" /\ ~stop
    /\ cmd' = [cmd EXCEPT !.phase = "record"]
    /\ UNCHANGED <<setting, record, status, overdue, opened, frozen, closed, stop, faults,
                   orphaned, ovars>>

WriteRecord ==
    /\ cmd.phase = "record"
    /\ record' = [record EXCEPT ![cmd.run] = [orig |-> cmd.orig, restored |-> FALSE]]
    /\ cmd' = [cmd EXCEPT !.phase = "open"]
    /\ UNCHANGED <<setting, status, overdue, opened, frozen, closed, stop, faults,
                   orphaned, ovars>>

\* The run, its receipt and observation_opened are committed together.
Open ==
    /\ cmd.phase = "open"
    /\ status' = [status EXCEPT ![cmd.run] = "live"]
    /\ opened' = opened \cup {cmd.run}
    /\ cmd' = Idle
    /\ UNCHANGED <<setting, record, overdue, frozen, closed, stop, faults,
                   orphaned, ovars>>

\* Anything raised up to the commit: the STOP file comes back, then the
\* settings.
StartFails ==
    /\ cmd.phase \in {"disable", "activate", "record", "open"}
    /\ IF cmd.phase = "activate" /\ stop THEN UNCHANGED faults ELSE Fault
    /\ stop' = TRUE
    /\ cmd' = [cmd EXCEPT !.phase = "undo"]
    /\ UNCHANGED <<setting, record, status, overdue, opened, frozen, closed,
                   orphaned, ovars>>

UndoHost(h) ==
    /\ cmd.phase = "undo" /\ h \in DOMAIN cmd.orig
    /\ setting' = [setting EXCEPT ![h] = cmd.orig[h]]
    /\ cmd' = [cmd EXCEPT !.orig = [g \in DOMAIN @ \ {h} |-> @[g]]]
    /\ UNCHANGED <<record, status, overdue, opened, frozen, closed, stop, faults,
                   orphaned, ovars>>

\* All undone; or a restore raises, and the others are not tried.
UndoEnds ==
    /\ cmd.phase = "undo"
    /\ IF DOMAIN cmd.orig = {} THEN UNCHANGED faults ELSE Fault
    /\ orphaned' = orphaned \cup DOMAIN cmd.orig
    /\ cmd' = Idle
    /\ UNCHANGED <<setting, record, status, overdue, opened, frozen, closed, stop, ovars>>

StartStep ==
    \/ \E n \in Runs : StartBegins(n)
    \/ \E h \in Hosts : DisableHost(h) \/ DisableFails(h) \/ UndoHost(h)
    \/ AllDisabled \/ ActivateWindow \/ WriteRecord \/ Open \/ StartFails \/ UndoEnds

(***************************************************************************)
(* tick and finish_window.                                                 *)
(***************************************************************************)

Sweep == [phase |-> "sweep", left |-> {n \in closed : record[n] # NoRecord}]

\* Only windows that still run are looked after.
UnclosedSlip == {n \in opened \ closed : status[n] = "live"}

Unclosed == opened \ closed

TickBegins ==
    /\ cmd = Idle
    /\ cmd' = IF Unclosed = {} THEN Sweep
              ELSE [phase |-> "check", run |-> CHOOSE n \in Unclosed : TRUE]
    /\ UNCHANGED <<setting, record, status, overdue, opened, frozen, closed, stop, faults,
                   orphaned, ovars>>

\* observation_metrics: some injection of the run was labelled a wrong recall.
WrongRecall(n) ==
    \E l \in labels : l.run = n /\ l.kind = "wrong_recall" /\ l.value = "yes"

\* drift_reason: an entry point is gone or resolves to something else.
Drift == drifted # {}

\* stop_reason: deadline, STOP file, status, hosts and labels give one, the
\* other sources or the operator may.
CheckStops ==
    /\ cmd.phase = "check"
    /\ cmd' = [cmd EXCEPT !.phase = "touch"]
    /\ UNCHANGED <<setting, record, status, overdue, opened, frozen, closed, stop, faults,
                   orphaned, ovars>>

NoReason(n) ==
    /\ n \notin overdue /\ ~stop /\ status[n] = "live"
    /\ ~Drift /\ ~WrongRecall(n)

CheckGoesOn ==
    /\ cmd.phase = "check" /\ NoReason(cmd.run)
    /\ cmd' = Sweep
    /\ UNCHANGED <<setting, record, status, overdue, opened, frozen, closed, stop, faults,
                   orphaned, ovars>>

\* freeze_window: the STOP file first,
Touch ==
    /\ cmd.phase = "touch"
    /\ stop' = TRUE
    /\ cmd' = [cmd EXCEPT !.phase = "freeze"]
    /\ UNCHANGED <<setting, record, status, overdue, opened, frozen, closed, faults,
                   orphaned, ovars>>

\* then the run and the receipt; finish_window does both again, in vain.
Freeze ==
    /\ cmd.phase = "freeze"
    /\ status' = [status EXCEPT ![cmd.run] = IF @ = "live" THEN "stopping" ELSE @]
    /\ frozen' = frozen \cup {cmd.run}
    /\ cmd' = [cmd EXCEPT !.phase = "rollback"]
    /\ UNCHANGED <<setting, record, overdue, opened, closed, stop, faults,
                   orphaned, ovars>>

\* RolloutRuntime.rollback (module Rollback) ends the run, and what the
\* backend holds is inspected once more before anything is restored.
RollbackEndsRun ==
    /\ cmd.phase = "rollback"
    /\ status' = [status EXCEPT ![cmd.run] = "stopped"]
    /\ cmd' = [phase |-> "restore", run |-> cmd.run, left |-> Hosts, closing |-> TRUE]
    /\ UNCHANGED <<setting, record, overdue, opened, frozen, closed, stop, faults,
                   orphaned, ovars>>

\* A rollback that needs cleanup, or is another runner's, is left to the next
\* tick, and so is one after which the inspection fails: by a failure that
\* passes, or for ever, as when the owner has changed a memory of the run, a
\* body was erased after a call whose result is unknown (Rollback.Stuck), or
\* the backend is gone or holds what cannot be removed.
RollbackStays ==
    /\ cmd.phase = "rollback"
    /\ \/ Fault /\ UNCHANGED held
       \/ held' = held \cup {cmd.run} /\ UNCHANGED faults
    /\ \E s \in {status[cmd.run], "stopped"} : status' = [status EXCEPT ![cmd.run] = s]
    /\ cmd' = Sweep
    /\ UNCHANGED <<setting, record, overdue, opened, frozen, closed, stop,
                   orphaned, drifted, updates, ready, shown, labels>>

\* restore_host_settings, host by host; nothing for a record that is done.
RestoreHost(h) ==
    /\ cmd.phase = "restore" /\ h \in cmd.left /\ ~record[cmd.run].restored
    /\ setting' = [setting EXCEPT ![h] = record[cmd.run].orig[h]]
    /\ cmd' = [cmd EXCEPT !.left = @ \ {h}]
    /\ UNCHANGED <<record, status, overdue, opened, frozen, closed, stop, faults,
                   orphaned, ovars>>

AfterRestore ==
    IF cmd.closing THEN [phase |-> "close", run |-> cmd.run]
    ELSE [phase |-> "sweep", left |-> {}]

\* A settings file that cannot be read or written: the others are not tried,
\* the record stays, and the closing goes on.
RestoreFails ==
    /\ cmd.phase = "restore" /\ cmd.left # {} /\ ~record[cmd.run].restored /\ Fault
    /\ cmd' = AfterRestore
    /\ UNCHANGED <<setting, record, status, overdue, opened, frozen, closed, stop,
                   orphaned, ovars>>

RestoreDone ==
    /\ cmd.phase = "restore"
    /\ cmd.left = {} \/ record[cmd.run].restored
    /\ record' = [record EXCEPT ![cmd.run].restored = TRUE]
    /\ cmd' = AfterRestore
    /\ UNCHANGED <<setting, status, overdue, opened, frozen, closed, stop, faults,
                   orphaned, ovars>>

Close ==
    /\ cmd.phase = "close"
    /\ closed' = closed \cup {cmd.run}
    /\ cmd' = [cmd EXCEPT !.phase = "last"]
    /\ UNCHANGED <<setting, record, status, overdue, opened, frozen, stop, faults,
                   orphaned, ovars>>

\* After the windows, the records of closed ones that are still pending.
AfterClose ==
    /\ cmd.phase = "last"
    /\ cmd' = Sweep
    /\ UNCHANGED <<setting, record, status, overdue, opened, frozen, closed, stop, faults,
                   orphaned, ovars>>

SweepRecord(n) ==
    /\ cmd.phase = "sweep" /\ n \in cmd.left /\ ~record[n].restored
    /\ cmd' = [phase |-> "restore", run |-> n, left |-> Hosts, closing |-> FALSE]
    /\ UNCHANGED <<setting, record, status, overdue, opened, frozen, closed, stop, faults,
                   orphaned, ovars>>

TickEnds ==
    /\ cmd.phase = "sweep"
    /\ \A n \in cmd.left : record[n].restored
    /\ cmd' = Idle
    /\ UNCHANGED <<setting, record, status, overdue, opened, frozen, closed, stop, faults,
                   orphaned, ovars>>

\* A missing key, an export or a probe that fails: the STOP file is touched,
\* and the tick goes on with the records.
TickFails ==
    /\ cmd.phase \in {"check", "rollback", "close", "last"} /\ Fault
    /\ stop' = TRUE
    /\ cmd' = Sweep
    /\ UNCHANGED <<setting, record, status, overdue, opened, frozen, closed,
                   orphaned, ovars>>

TickStep ==
    \/ CheckStops \/ CheckGoesOn \/ Touch \/ Freeze \/ RollbackEndsRun \/ RollbackStays
    \/ \E h \in Hosts : RestoreHost(h)
    \/ RestoreFails \/ RestoreDone \/ Close \/ AfterClose \/ TickEnds \/ TickFails
    \/ \E n \in Runs : SweepRecord(n)

(***************************************************************************)
(* Everything else.                                                        *)
(***************************************************************************)
\* The command dies, or its commit fails; the lock and the transaction go.
Crash ==
    /\ cmd # Idle /\ Fault
    /\ orphaned' = IF Starting THEN orphaned \cup DOMAIN cmd.orig ELSE orphaned
    /\ cmd' = Idle
    /\ UNCHANGED <<setting, record, status, overdue, opened, frozen, closed, stop, ovars>>

DeadlinePasses(n) ==
    /\ status[n] # "none" /\ n \notin overdue
    /\ overdue' = overdue \cup {n}
    /\ UNCHANGED <<setting, record, status, opened, frozen, closed, stop, cmd, faults,
                   orphaned, ovars>>

\* The daemon meets a deadline or the STOP file (rollout.py, _run); not while
\* the transaction of a start holds the database.
DaemonStops(n) ==
    /\ status[n] = "live" /\ (stop \/ n \in overdue)
    /\ status' = [status EXCEPT ![n] = "stopping"]
    /\ UNCHANGED <<setting, record, overdue, opened, frozen, closed, stop, cmd, faults,
                   orphaned, ovars>>

OperatorStops ==
    /\ ~stop
    /\ stop' = TRUE
    /\ UNCHANGED <<setting, record, status, overdue, opened, frozen, closed, cmd, faults,
                   orphaned, ovars>>

\* A host is updated, or the configured version installed again.
UpdateHost(h) ==
    /\ h \notin drifted /\ updates < MaxUpdates
    /\ drifted' = drifted \cup {h} /\ updates' = updates + 1
    /\ UNCHANGED <<setting, record, status, overdue, opened, frozen, closed, stop, cmd, faults,
                   orphaned, ready, shown, labels, held>>

Reinstall(h) ==
    /\ h \in drifted
    /\ drifted' = drifted \ {h}
    /\ UNCHANGED <<setting, record, status, overdue, opened, frozen, closed, stop, cmd, faults,
                   orphaned, updates, ready, shown, labels, held>>

\* session_start shows memories to a session of a live run.
Inject(n, i) ==
    /\ status[n] = "live" /\ ~stop /\ n \notin overdue
    /\ shown[i] = 0
    /\ shown' = [shown EXCEPT ![i] = n]
    /\ UNCHANGED <<setting, record, status, overdue, opened, frozen, closed, stop, cmd, faults,
                   orphaned, drifted, updates, ready, labels, held>>

\* annotate: one label for an injection and kind, and one for a receipt; the
\* same again changes nothing.  A start under way holds the database.
Annotate(n, r, kind, i, value) ==
    LET new == [run |-> n, receipt |-> r, kind |-> kind, target |-> i, value |-> value] IN
    /\ ~Starting
    /\ shown[i] = n /\ value \in Values(kind)
    /\ \A l \in labels : l.receipt # r /\ ~(l.run = n /\ l.kind = kind /\ l.target = i)
    /\ labels' = labels \cup {new}
    /\ UNCHANGED <<setting, record, status, overdue, opened, frozen, closed, stop, cmd, faults,
                   orphaned, drifted, updates, ready, shown, held>>

Outside ==
    \/ OperatorStops
    \/ \E n \in Runs : DeadlinePasses(n) \/ DaemonStops(n)
    \/ \E h \in Hosts : UpdateHost(h) \/ Reinstall(h)
    \/ \E n \in Runs, i \in Injections :
           \/ Inject(n, i)
           \/ \E r \in Receipts, kind \in Kinds : \E v \in Values(kind) : Annotate(n, r, kind, i, v)

WindowNext ==
    Preflight \/ StartRefused \/ StartStep \/ TickBegins \/ TickStep \/ Crash \/ Outside

WindowSpec == WindowInit /\ [][WindowNext]_wvars

\* The watchdog is started every minute and waits in flock for its turn, so it
\* has it in the end however many starts are tried; and a command ends.
WindowFairSpec ==
    /\ WindowSpec
    /\ SF_wvars(TickBegins) /\ WF_wvars(TickStep)
    /\ WF_wvars(StartStep /\ cmd # Idle)

-----------------------------------------------------------------------------
\* From the moment a window is frozen until it is closed the STOP file is
\* there, over crashes, failed credentials and rollbacks that are repeated:
\* no event enters and no other window opens (observation.py, freeze_window,
\* start_window).
StopUntilClosed == frozen \ closed # {} => stop

\* A closed window was frozen and rolled back to the end, however many ticks
\* that took; it never lives again.
ClosedIsOver == \A n \in closed : n \in frozen /\ status[n] = "stopped"

\* The user's value of a switch that is off is on some record, or in the hands
\* of the start under way, unless a start died or could not undo: no sequence
\* of windows and failed restores forgets it (hosts/settings.py).
OriginalKnown ==
    \A h \in Hosts \ orphaned : setting[h] = "off" =>
        \/ \E n \in Runs : record[n] # NoRecord /\ record[n].orig[h] = "user"
        \/ Starting /\ h \in DOMAIN cmd.orig /\ cmd.orig[h] = "user"

\* Nothing is open but what is closed while a start is under way; what it has
\* switched off is off; and what it opens has its record.
StartInOrder ==
    Starting =>
        /\ opened \subseteq closed /\ status[cmd.run] = "none"
        /\ \A h \in DOMAIN cmd.orig : setting[h] = "off"
        /\ cmd.phase \in {"activate", "record", "open"} => DOMAIN cmd.orig = Hosts
        /\ cmd.phase = "open" => /\ record[cmd.run] # NoRecord
                                 /\ record[cmd.run].orig = cmd.orig

\* A tick goes about windows that were opened, in its order.
TickInOrder ==
    /\ cmd.phase \in {"check", "touch", "freeze", "rollback", "restore", "close"} =>
         cmd.run \in opened
    /\ cmd.phase = "freeze" => stop
    /\ cmd.phase = "rollback" => cmd.run \in frozen
    /\ cmd.phase = "close" \/ (cmd.phase = "restore" /\ cmd.closing) =>
         cmd.run \in frozen /\ status[cmd.run] = "stopped"
    /\ cmd.phase = "sweep" => cmd.left \subseteq opened

\* A window that was opened has a run and a record.
OpenedInOrder == \A n \in opened : status[n] # "none" /\ record[n] # NoRecord

OnRecord(h) == \E n \in opened : record[n].orig[h] = "user"

\* No record of an opened window has it that a switch was off but another one
\* tells what the user had chosen: whichever is restored, whenever, the
\* choice is not lost.
RecordsKnow ==
    \A h \in Hosts \ orphaned :
        /\ \A n \in opened : record[n].orig[h] = "off" => OnRecord(h)
        /\ setting[h] = "off" =>
             OnRecord(h) \/ (Starting /\ h \in DOMAIN cmd.orig /\ cmd.orig[h] = "user")

\* The inductive invariant: types, the STOP file from freezing to closing,
\* closed windows, what the user had chosen, and what these rest on.
WindowInv ==
    /\ WindowTypeOK
    /\ StopUntilClosed
    /\ ClosedIsOver
    /\ OriginalKnown
    /\ StartInOrder
    /\ TickInOrder
    /\ OpenedInOrder
    /\ RecordsKnow

Settled(n) == n \in closed /\ record[n] # NoRecord /\ record[n].restored

\* A reason for stopping a window: its deadline, the STOP file, a run stopped
\* by the daemon, a label of a wrong recall, or a host that is no longer the
\* pinned one.  Only the last can pass, when the host is installed again.
StopReason(n) == n \in overdue \/ stop \/ status[n] # "live" \/ WrongRecall(n) \/ Drift

\* A window with a reason to stop that does not pass is frozen in the end, so
\* no event enters any more, and it is closed and the user's settings are
\* restored unless its rollback is held up: by the watchdog alone and whichever
\* ticks fail or die, also when the restore failed while closing, and also for
\* a host updated between the preflight and the moment its updater was off.
WindowCloses ==
    \A n \in Runs :
        n \in opened /\ StopReason(n) ~>
            \/ n \in frozen /\ (Settled(n) \/ n \in held)
            \/ ~StopReason(n)

\* The updaters are off while a window is open, as the admission design asks.
UpdatersOff ==
    \A n \in opened : status[n] = "live" => \A h \in Hosts : setting[h] = "off"
=============================================================================
