----------------------------- MODULE WindowProofs -----------------------------
(***************************************************************************)
(* WindowInv is an invariant of the windows for any number of hosts,       *)
(* windows, injections and receipts, and any number of faults.             *)
(*                                                                         *)
(* A step outside the commands (OutsideStep) and a command that only goes  *)
(* on (CommandStep) have a lemma each; the steps that change what outlives *)
(* a command have one of their own.                                        *)
(***************************************************************************)
EXTENDS Window, TLAPS

Commands == {Idle} \cup Starts \cup Closings \cup Restores \cup Sweeps

\* The switches a start has in its hands with the value the user had chosen.
InHand(h) == Starting /\ h \in DOMAIN cmd.orig /\ cmd.orig[h] = "user"

-----------------------------------------------------------------------------
(***************************************************************************)
(* Shapes: the fields of a command by its phase.                           *)
(***************************************************************************)
LEMMA CommandShape ==
    ASSUME WindowTypeOK
    PROVE  /\ Starting => cmd \in Starts
           /\ cmd.phase \in {"check", "touch", "freeze", "rollback", "close", "last"} =>
                cmd \in Closings
           /\ cmd.phase = "restore" => cmd \in Restores
           /\ cmd.phase = "sweep" => cmd \in Sweeps
           /\ cmd \in Commands
BY DEF WindowTypeOK, Commands, Starting, Idle, Starts, Closings, Restores, Sweeps

\* The commands there are, and what a command becomes in its next phase.
LEMMA CommandMade ==
    /\ \A n \in Runs, ph \in {"check", "touch", "freeze", "rollback", "close", "last"} :
         [phase |-> ph, run |-> n] \in Closings
    /\ \A n \in Runs, left \in SUBSET Hosts, closing \in BOOLEAN :
         [phase |-> "restore", run |-> n, left |-> left, closing |-> closing] \in Restores
    /\ \A left \in SUBSET Runs : [phase |-> "sweep", left |-> left] \in Sweeps
BY DEF Closings, Restores, Sweeps

LEMMA NextPhase ==
    ASSUME NEW ph
    PROVE  /\ ph \in {"disable", "activate", "record", "open", "undo"} =>
                \A c \in Starts : LET d == [c EXCEPT !.phase = ph] IN
                  d \in Starts /\ d.phase = ph /\ d.run = c.run /\ d.orig = c.orig
           /\ ph \in {"check", "touch", "freeze", "rollback", "close", "last"} =>
                \A c \in Closings : LET d == [c EXCEPT !.phase = ph] IN
                  d \in Closings /\ d.phase = ph /\ d.run = c.run
BY DEF Starts, Closings

\* The values a start has taken so far.
LEMMA OriginalsShape ==
    ASSUME NEW o \in Originals
    PROVE  /\ DOMAIN o \subseteq Hosts
           /\ \A h \in DOMAIN o : o[h] \in Value
           /\ o = [h \in DOMAIN o |-> o[h]]
BY DEF Originals

LEMMA OriginalsMade ==
    ASSUME NEW H \in SUBSET Hosts, NEW o \in [H -> Value]
    PROVE  o \in Originals
BY DEF Originals

-----------------------------------------------------------------------------
\* What the user had chosen is known from the records of opened windows or
\* from the start under way.
LEMMA KnownFromRecords ==
    ASSUME WindowTypeOK, OpenedInOrder, RecordsKnow
    PROVE  OriginalKnown
<1> SUFFICES ASSUME NEW h \in Hosts \ orphaned, setting[h] = "off", ~ InHand(h)
             PROVE  \E n \in Runs : record[n] # NoRecord /\ record[n].orig[h] = "user"
  BY DEF OriginalKnown, InHand
<1>1. PICK n \in opened : record[n].orig[h] = "user"
  BY DEF RecordsKnow, OnRecord, InHand
<1> QED
  BY <1>1 DEF OpenedInOrder, WindowTypeOK

LEMMA InitInv == WindowInit => WindowInv
<1> SUFFICES ASSUME WindowInit PROVE WindowInv
  OBVIOUS
<1> USE WindowAssumption
<1>1. WindowTypeOK
  <2>1. stop \in BOOLEAN /\ ready \in BOOLEAN
    BY DEF WindowInit
  <2>2. /\ setting \in [Hosts -> Value]
        /\ status \in [Runs -> {"none", "live", "stopping", "stopped"}]
        /\ record \in [Runs -> {NoRecord} \cup Records]
        /\ cmd \in {Idle} \cup Starts \cup Closings \cup Restores \cup Sweeps
        /\ shown \in [Injections -> {0} \cup Runs]
    BY DEF WindowInit, Value
  <2>3. faults \in 0..MaxFaults /\ updates \in 0..MaxUpdates
    BY DEF WindowInit
  <2> QED
    BY <2>1, <2>2, <2>3 DEF WindowInit, WindowTypeOK
<1>2. StopUntilClosed /\ ClosedIsOver
  BY DEF WindowInit, StopUntilClosed, ClosedIsOver
<1>3. StartInOrder /\ TickInOrder
  BY DEF WindowInit, StartInOrder, TickInOrder, Starting, Idle
<1>4. OpenedInOrder /\ RecordsKnow
  BY DEF WindowInit, OpenedInOrder, RecordsKnow
<1> QED
  BY <1>1, <1>2, <1>3, <1>4, KnownFromRecords DEF WindowInv

-----------------------------------------------------------------------------
(***************************************************************************)
(* Outside the commands.                                                   *)
(***************************************************************************)
\* The command goes on where it is; a run that lives may be stopped, and the
\* STOP file may appear.
LEMMA OutsideStep ==
    ASSUME WindowInv, WindowTypeOK',
           UNCHANGED <<setting, record, opened, frozen, closed, cmd, orphaned>>,
           stop => stop',
           \A n \in Runs : status'[n] = status[n]
                           \/ (status[n] = "live" /\ status'[n] = "stopping")
    PROVE  WindowInv'
<1>1. WindowTypeOK /\ opened \subseteq Runs /\ closed \subseteq Runs
  BY DEF WindowInv, WindowTypeOK
<1>2. StopUntilClosed' /\ ClosedIsOver'
  BY <1>1 DEF WindowInv, StopUntilClosed, ClosedIsOver
<1>3. StartInOrder'
  <2>1. Starting => cmd.run \in Runs
    BY <1>1, CommandShape DEF Starts
  <2> QED
    BY <2>1 DEF WindowInv, StartInOrder, Starting
<1>4. TickInOrder'
  <2>1. cmd.phase = "close" \/ cmd.phase = "restore" => cmd.run \in Runs
    BY <1>1, CommandShape DEF Closings, Restores
  <2> QED
    BY <2>1 DEF WindowInv, TickInOrder
<1>5. OpenedInOrder'
  BY <1>1 DEF WindowInv, OpenedInOrder
<1>6. RecordsKnow'
  BY DEF WindowInv, RecordsKnow, OnRecord, Starting
<1> QED
  BY <1>2, <1>3, <1>4, <1>5, <1>6, KnownFromRecords, PTL DEF WindowInv

LEMMA OutsideKeeps == ASSUME WindowInv, Outside PROVE WindowInv'
<1>1. WindowTypeOK
  BY DEF WindowInv
<1>2. CASE OperatorStops
  <2>1. WindowTypeOK'
    BY <1>1, <1>2 DEF OperatorStops, WindowTypeOK, ovars
  <2> QED
    BY <1>2, <2>1, OutsideStep DEF OperatorStops
<1>3. ASSUME NEW n \in Runs, DeadlinePasses(n)
      PROVE  WindowInv'
  <2>1. WindowTypeOK'
    BY <1>1, <1>3 DEF DeadlinePasses, WindowTypeOK, ovars
  <2> QED
    BY <1>3, <2>1, OutsideStep DEF DeadlinePasses
<1>4. ASSUME NEW n \in Runs, DaemonStops(n)
      PROVE  WindowInv'
  <2>1. WindowTypeOK'
    BY <1>1, <1>4 DEF DaemonStops, WindowTypeOK, ovars
  <2>2. \A k \in Runs : status'[k] = status[k]
                        \/ (status[k] = "live" /\ status'[k] = "stopping")
    BY <1>1, <1>4 DEF DaemonStops, WindowTypeOK
  <2> QED
    BY <1>4, <2>1, <2>2, OutsideStep DEF DaemonStops
<1>5. ASSUME NEW h \in Hosts, UpdateHost(h) \/ Reinstall(h)
      PROVE  WindowInv'
  <2>1. WindowTypeOK'
    BY <1>1, <1>5, WindowAssumption DEF UpdateHost, Reinstall, WindowTypeOK
  <2> QED
    BY <1>5, <2>1, OutsideStep DEF UpdateHost, Reinstall
<1>6. ASSUME NEW n \in Runs, NEW i \in Injections, Inject(n, i)
      PROVE  WindowInv'
  <2>1. WindowTypeOK'
    BY <1>1, <1>6 DEF Inject, WindowTypeOK
  <2> QED
    BY <1>6, <2>1, OutsideStep DEF Inject
<1>7. ASSUME NEW n \in Runs, NEW i \in Injections, NEW r \in Receipts, NEW kind \in Kinds,
             NEW v \in Values(kind), Annotate(n, r, kind, i, v)
      PROVE  WindowInv'
  <2>1. [run |-> n, receipt |-> r, kind |-> kind, target |-> i, value |-> v] \in Label
    BY DEF Label, Values
  <2>2. WindowTypeOK'
    BY <1>1, <1>7, <2>1 DEF Annotate, WindowTypeOK
  <2> QED
    BY <1>7, <2>2, OutsideStep DEF Annotate
<1> QED
  BY <1>2, <1>3, <1>4, <1>5, <1>6, <1>7 DEF Outside

LEMMA PreflightKeeps == ASSUME WindowInv, Preflight \/ StartRefused PROVE WindowInv'
<1>1. WindowTypeOK'
  BY DEF Preflight, StartRefused, WindowInv, WindowTypeOK
<1> QED
  BY <1>1, OutsideStep DEF Preflight, StartRefused

-----------------------------------------------------------------------------
(***************************************************************************)
(* A command goes on, and what outlives it stays as it is.                 *)
(***************************************************************************)
\* The STOP file goes only while every frozen window is closed, and what a
\* start has in its hands stays there.
LEMMA CommandStep ==
    ASSUME WindowInv,
           UNCHANGED <<setting, record, status, overdue, opened, frozen, closed, orphaned,
                       drifted, updates, shown, labels, held>>,
           cmd' \in Commands, faults' \in 0..MaxFaults, ready' \in BOOLEAN, stop' \in BOOLEAN,
           stop' \/ stop' = stop \/ frozen \subseteq closed,
           StartInOrder', TickInOrder',
           \A h \in Hosts : InHand(h) => InHand(h)'
    PROVE  WindowInv'
<1>1. WindowTypeOK'
  BY DEF WindowInv, WindowTypeOK, Commands
<1>2. StopUntilClosed' /\ ClosedIsOver'
  BY DEF WindowInv, StopUntilClosed, ClosedIsOver
<1>3. OpenedInOrder'
  BY DEF WindowInv, OpenedInOrder
<1>4. RecordsKnow'
  <2> SUFFICES ASSUME NEW h \in Hosts \ orphaned
               PROVE  /\ \A n \in opened : record[n].orig[h] = "off" => OnRecord(h)
                      /\ setting[h] = "off" => OnRecord(h) \/ InHand(h)'
    BY DEF RecordsKnow, OnRecord, InHand
  <2>1. InHand(h) => InHand(h)'
    OBVIOUS
  <2> QED
    BY <2>1 DEF WindowInv, RecordsKnow, InHand
<1> QED
  BY <1>1, <1>2, <1>3, <1>4, KnownFromRecords, PTL DEF WindowInv

\* A start begins with nothing in its hands.
LEMMA StartBeginsKeeps == ASSUME WindowInv, NEW n \in Runs, StartBegins(n) PROVE WindowInv'
<1> DEFINE c == [phase |-> "disable", run |-> n, orig |-> <<>>]
<1>1. /\ cmd = Idle /\ MayStart /\ status[n] = "none" /\ cmd' = c /\ ready' = FALSE
      /\ UNCHANGED <<setting, record, status, overdue, opened, frozen, closed, stop, faults,
                     orphaned, drifted, updates, shown, labels, held>>
  BY DEF StartBegins
<1>2. DOMAIN <<>> = {} /\ <<>> \in [{} -> Value]
  OBVIOUS
<1>3. c \in Starts /\ c.phase = "disable" /\ c.run = n /\ c.orig = <<>>
  BY <1>2, OriginalsMade DEF Starts
<1> HIDE DEF c
<1>4. StartInOrder' /\ TickInOrder'
  BY <1>1, <1>2, <1>3 DEF StartInOrder, TickInOrder, Starting, MayStart
<1>5. \A h \in Hosts : ~InHand(h)
  BY <1>1 DEF InHand, Starting, Idle
<1>6. faults' \in 0..MaxFaults /\ stop' \in BOOLEAN
  BY <1>1 DEF WindowInv, WindowTypeOK
<1> QED
  BY <1>1, <1>3, <1>4, <1>5, <1>6, CommandStep DEF Commands

\* Everything is disabled, and the STOP file of the last window goes.
LEMMA AllDisabledKeeps == ASSUME WindowInv, AllDisabled \/ ActivateWindow PROVE WindowInv'
<1>1. WindowTypeOK /\ StartInOrder /\ frozen \subseteq opened
  BY DEF WindowInv, WindowTypeOK
<1>2. cmd \in Starts /\ Starting
  BY <1>1, CommandShape DEF AllDisabled, ActivateWindow, Starting
<1>3. PICK ph \in {"activate", "record"} : cmd' = [cmd EXCEPT !.phase = ph]
  BY DEF AllDisabled, ActivateWindow
<1>4. cmd' \in Starts /\ cmd'.phase = ph /\ cmd'.run = cmd.run /\ cmd'.orig = cmd.orig
  BY <1>2, <1>3, NextPhase
<1>5. /\ UNCHANGED <<setting, record, status, overdue, opened, frozen, closed, orphaned,
                     drifted, updates, shown, labels, held, faults, ready>>
      /\ DOMAIN cmd.orig = Hosts
  BY <1>1, <1>2 DEF AllDisabled, ActivateWindow, ovars, StartInOrder
<1>6. frozen \subseteq closed
  BY <1>1, <1>2 DEF StartInOrder
<1>7. StartInOrder' /\ TickInOrder'
  BY <1>1, <1>2, <1>4, <1>5 DEF StartInOrder, TickInOrder, Starting
<1>8. \A h \in Hosts : InHand(h) => InHand(h)'
  BY <1>4 DEF InHand, Starting
<1>9. faults' \in 0..MaxFaults /\ stop' \in BOOLEAN /\ ready' \in BOOLEAN
  BY <1>1, <1>5 DEF WindowTypeOK, AllDisabled, ActivateWindow
<1> QED
  BY <1>4, <1>5, <1>6, <1>7, <1>8, <1>9, CommandStep DEF Commands

\* The same for a tick, or for its end.
LEMMA TickGoesOn ==
    ASSUME WindowInv, ~Starting,
           UNCHANGED <<setting, record, status, overdue, opened, frozen, closed, orphaned, ovars>>,
           cmd' \in {Idle} \cup Closings \cup Restores \cup Sweeps,
           faults' \in 0..MaxFaults, stop' \/ stop' = stop, stop' \in BOOLEAN,
           TickInOrder'
    PROVE  WindowInv'
<1>1. ~Starting' /\ cmd' \in Commands
  BY DEF Starting, Idle, Closings, Restores, Sweeps, Commands
<1>2. StartInOrder'
  BY <1>1 DEF StartInOrder
<1>3. \A h \in Hosts : ~InHand(h)
  BY DEF InHand
<1>4. ready' \in BOOLEAN
  BY DEF ovars, WindowInv, WindowTypeOK
<1>5. UNCHANGED <<setting, record, status, overdue, opened, frozen, closed, orphaned,
                  drifted, updates, shown, labels, held>>
  BY DEF ovars
<1> QED
  BY <1>1, <1>2, <1>3, <1>4, <1>5, CommandStep

\* Only windows with records that were opened are looked after.
LEMMA SweepInOrder ==
    ASSUME WindowTypeOK, OpenedInOrder
    PROVE  Sweep \in Sweeps /\ Sweep.phase = "sweep" /\ Sweep.left \subseteq opened
BY DEF Sweep, Sweeps, WindowTypeOK

\* The bound on faults.
LEMMA FaultBound ==
    ASSUME WindowTypeOK, Fault \/ faults' = faults
    PROVE  faults' \in 0..MaxFaults
BY WindowAssumption DEF WindowTypeOK, Fault

\* A tick turns to the records, whatever it was at.
LEMMA TurnToSweep ==
    ASSUME WindowInv, ~Starting, cmd' = Sweep,
           UNCHANGED <<setting, record, status, overdue, opened, frozen, closed, orphaned, ovars>>,
           Fault \/ faults' = faults, stop' = TRUE \/ stop' = stop
    PROVE  WindowInv'
<1>1. Sweep \in Sweeps /\ Sweep.phase = "sweep" /\ Sweep.left \subseteq opened
  BY SweepInOrder DEF WindowInv
<1>2. TickInOrder'
  BY <1>1 DEF TickInOrder
<1>3. faults' \in 0..MaxFaults /\ stop' \in BOOLEAN
  BY FaultBound DEF WindowInv, WindowTypeOK
<1> QED
  BY <1>1, <1>2, <1>3, TickGoesOn

LEMMA TickBeginsKeeps == ASSUME WindowInv, TickBegins PROVE WindowInv'
<1>1. /\ cmd = Idle /\ ~Starting
      /\ UNCHANGED <<setting, record, status, overdue, opened, frozen, closed, stop, faults,
                     orphaned, ovars>>
  BY DEF TickBegins, Starting, Idle
<1>2. CASE Unclosed = {}
  BY <1>1, <1>2, TurnToSweep DEF TickBegins
<1>3. CASE Unclosed # {}
  <2> DEFINE n == CHOOSE k \in Unclosed : TRUE
  <2>1. n \in Unclosed
    BY <1>3
  <2>2. cmd' = [phase |-> "check", run |-> n]
    BY <1>3 DEF TickBegins
  <2> HIDE DEF n
  <2>3. n \in opened /\ n \in Runs
    BY <2>1 DEF Unclosed, WindowInv, WindowTypeOK
  <2>4. cmd' \in Closings /\ cmd'.phase = "check" /\ cmd'.run = n
    BY <2>2, <2>3, CommandMade
  <2>5. TickInOrder'
    BY <1>1, <2>3, <2>4 DEF TickInOrder
  <2>6. faults' \in 0..MaxFaults /\ stop' \in BOOLEAN
    BY <1>1 DEF WindowInv, WindowTypeOK
  <2> QED
    BY <1>1, <2>4, <2>5, <2>6, TickGoesOn
<1> QED
  BY <1>2, <1>3

LEMMA CheckKeeps == ASSUME WindowInv, CheckStops \/ CheckGoesOn PROVE WindowInv'
<1>1. /\ cmd.phase = "check" /\ ~Starting
      /\ UNCHANGED <<setting, record, status, overdue, opened, frozen, closed, stop, faults,
                     orphaned, ovars>>
  BY DEF CheckStops, CheckGoesOn, Starting
<1>2. CASE CheckGoesOn
  BY <1>1, <1>2, TurnToSweep DEF CheckGoesOn
<1>3. CASE CheckStops
  <2>1. cmd \in Closings
    BY <1>1, CommandShape DEF WindowInv
  <2>2. cmd' \in Closings /\ cmd'.phase = "touch" /\ cmd'.run = cmd.run
    BY <1>3, <2>1, NextPhase DEF CheckStops
  <2>3. TickInOrder'
    BY <1>1, <2>2 DEF TickInOrder, WindowInv
  <2>4. faults' \in 0..MaxFaults /\ stop' \in BOOLEAN
    BY <1>1 DEF WindowInv, WindowTypeOK
  <2> QED
    BY <1>1, <2>2, <2>3, <2>4, TickGoesOn
<1> QED
  BY <1>2, <1>3

LEMMA TurnsKeep == ASSUME WindowInv, AfterClose \/ TickFails PROVE WindowInv'
<1>1. ~Starting
  BY DEF AfterClose, TickFails, Starting
<1> QED
  BY <1>1, TurnToSweep DEF AfterClose, TickFails, ovars

LEMMA TickEndsKeeps == ASSUME WindowInv, TickEnds PROVE WindowInv'
<1>1. /\ ~Starting /\ cmd' = Idle
      /\ UNCHANGED <<setting, record, status, overdue, opened, frozen, closed, stop, faults,
                     orphaned, ovars>>
  BY DEF TickEnds, Starting
<1>2. TickInOrder'
  BY <1>1 DEF TickInOrder, Idle
<1>3. faults' \in 0..MaxFaults /\ stop' \in BOOLEAN
  BY <1>1 DEF WindowInv, WindowTypeOK
<1> QED
  BY <1>1, <1>2, <1>3, TickGoesOn

LEMMA SweepRecordKeeps == ASSUME WindowInv, NEW n \in Runs, SweepRecord(n) PROVE WindowInv'
<1>1. /\ cmd.phase = "sweep" /\ ~Starting /\ n \in cmd.left
      /\ cmd' = [phase |-> "restore", run |-> n, left |-> Hosts, closing |-> FALSE]
      /\ UNCHANGED <<setting, record, status, overdue, opened, frozen, closed, stop, faults,
                     orphaned, ovars>>
  BY DEF SweepRecord, Starting
<1>2. cmd' \in Restores /\ cmd'.phase = "restore" /\ cmd'.run = n /\ cmd'.closing = FALSE
  BY <1>1, CommandMade
<1>3. n \in opened
  BY <1>1 DEF WindowInv, TickInOrder
<1>4. TickInOrder'
  BY <1>1, <1>2, <1>3 DEF TickInOrder
<1>5. faults' \in 0..MaxFaults /\ stop' \in BOOLEAN
  BY <1>1 DEF WindowInv, WindowTypeOK
<1> QED
  BY <1>1, <1>2, <1>4, <1>5, TickGoesOn

\* Where a restore leads to, done or not.
LEMMA AfterRestoreInOrder ==
    ASSUME WindowInv, cmd.phase = "restore", cmd' = AfterRestore,
           UNCHANGED <<opened, frozen, status>>
    PROVE  TickInOrder' /\ cmd' \in Closings \cup Sweeps
<1>1. cmd \in Restores
  BY CommandShape DEF WindowInv
<1>2. cmd.run \in Runs /\ cmd.closing \in BOOLEAN
  BY <1>1 DEF Restores
<1>3. CASE cmd.closing
  <2>1. cmd' \in Closings /\ cmd'.phase = "close" /\ cmd'.run = cmd.run
    BY <1>2, <1>3, CommandMade DEF AfterRestore
  <2> QED
    BY <1>3, <2>1 DEF WindowInv, TickInOrder
<1>4. CASE ~cmd.closing
  <2>1. cmd' \in Sweeps /\ cmd'.phase = "sweep" /\ cmd'.left = {}
    BY <1>4, CommandMade DEF AfterRestore
  <2> QED
    BY <2>1 DEF TickInOrder
<1> QED
  BY <1>3, <1>4

LEMMA RestoreFailsKeeps == ASSUME WindowInv, RestoreFails PROVE WindowInv'
<1>1. /\ cmd.phase = "restore" /\ ~Starting /\ cmd' = AfterRestore /\ Fault
      /\ UNCHANGED <<setting, record, status, overdue, opened, frozen, closed, stop,
                     orphaned, ovars>>
  BY DEF RestoreFails, Starting
<1>2. TickInOrder' /\ cmd' \in Closings \cup Sweeps
  BY <1>1, AfterRestoreInOrder
<1>3. faults' \in 0..MaxFaults /\ stop' \in BOOLEAN
  BY <1>1, FaultBound DEF WindowInv, WindowTypeOK
<1> QED
  BY <1>1, <1>2, <1>3, TickGoesOn

\* A start fails: the STOP file, and undoing.
LEMMA StartFailsKeeps == ASSUME WindowInv, StartFails PROVE WindowInv'
<1>1. WindowTypeOK /\ StartInOrder
  BY DEF WindowInv
<1>2. cmd \in Starts /\ Starting
  BY <1>1, CommandShape DEF StartFails, Starting
<1>3. cmd' \in Starts /\ cmd'.phase = "undo" /\ cmd'.run = cmd.run /\ cmd'.orig = cmd.orig
  BY <1>2, NextPhase DEF StartFails
<1>4. /\ UNCHANGED <<setting, record, status, overdue, opened, frozen, closed, orphaned,
                     drifted, updates, shown, labels, held, ready>>
      /\ stop' = TRUE
  BY DEF StartFails, ovars
<1>5. StartInOrder' /\ TickInOrder'
  BY <1>1, <1>2, <1>3, <1>4 DEF StartInOrder, TickInOrder, Starting
<1>6. \A h \in Hosts : InHand(h) => InHand(h)'
  BY <1>3 DEF InHand, Starting
<1>7. faults' \in 0..MaxFaults /\ ready' \in BOOLEAN
  BY <1>1, <1>4, FaultBound DEF WindowTypeOK, StartFails
<1> QED
  BY <1>3, <1>4, <1>5, <1>6, <1>7, CommandStep DEF Commands

-----------------------------------------------------------------------------
(***************************************************************************)
(* A start: switches, record, and opening.                                 *)
(***************************************************************************)
\* What a start keeps in its hands when it switches one more host off is
\* what that host's switch was.
LEMMA DisableHostKeeps == ASSUME WindowInv, NEW h \in Hosts, DisableHost(h) PROVE WindowInv'
<1> DEFINE D == {h} \cup DOMAIN cmd.orig
           o == [g \in D |-> IF g = h THEN Original(h) ELSE cmd.orig[g]]
<1>1. /\ WindowTypeOK /\ StartInOrder /\ TickInOrder /\ RecordsKnow /\ OpenedInOrder
      /\ StopUntilClosed /\ ClosedIsOver
  BY DEF WindowInv
<1>2. /\ cmd \in Starts /\ Starting /\ cmd.phase = "disable" /\ h \notin DOMAIN cmd.orig
      /\ setting' = [setting EXCEPT ![h] = "off"]
      /\ cmd' = [cmd EXCEPT !.orig = o]
      /\ UNCHANGED <<record, status, overdue, opened, frozen, closed, stop, faults,
                     orphaned, ovars>>
  BY <1>1, CommandShape DEF DisableHost, Starting
<1>3. cmd.orig \in Originals /\ cmd.run \in Runs
  BY <1>2 DEF Starts
<1>4. DOMAIN cmd.orig \subseteq Hosts /\ \A g \in DOMAIN cmd.orig : cmd.orig[g] \in Value
  BY <1>3, OriginalsShape
<1>5. /\ DOMAIN o = D /\ D \subseteq Hosts /\ o \in [D -> Value]
      /\ o[h] = setting[h] /\ \A g \in DOMAIN cmd.orig : o[g] = cmd.orig[g]
  BY <1>1, <1>2, <1>4 DEF Original, WindowTypeOK
<1>6. o \in Originals
  <2> HIDE DEF o, D
  <2> QED
    BY <1>5, OriginalsMade
<1>7. DOMAIN o = {h} \cup DOMAIN cmd.orig
  OBVIOUS
<1> HIDE DEF o, D
<1>8. cmd' \in Starts /\ cmd'.phase = "disable" /\ cmd'.run = cmd.run /\ cmd'.orig = o
  BY <1>2, <1>3, <1>6 DEF Starts
<1>9. /\ setting' \in [Hosts -> Value]
      /\ \A g \in Hosts : setting'[g] = IF g = h THEN "off" ELSE setting[g]
  BY <1>1, <1>2 DEF WindowTypeOK, Value
<1>10. WindowTypeOK'
  BY <1>1, <1>2, <1>8, <1>9 DEF WindowTypeOK, ovars
<1>11. StopUntilClosed' /\ ClosedIsOver' /\ OpenedInOrder'
  BY <1>1, <1>2 DEF StopUntilClosed, ClosedIsOver, OpenedInOrder
<1>12. StartInOrder'
  BY <1>1, <1>2, <1>4, <1>7, <1>8, <1>9 DEF StartInOrder
<1>13. TickInOrder'
  BY <1>8 DEF TickInOrder
<1>14. RecordsKnow'
  <2> SUFFICES ASSUME NEW g \in Hosts \ orphaned
               PROVE  /\ \A n \in opened : record[n].orig[g] = "off" => OnRecord(g)
                      /\ setting'[g] = "off" => OnRecord(g) \/ InHand(g)'
    BY <1>2 DEF RecordsKnow, OnRecord, InHand
  <2>1. Starting'
    BY <1>8 DEF Starting
  <2>2. CASE g = h
    BY <2>1, <2>2, <1>1, <1>2, <1>5, <1>7, <1>8, <1>9 DEF RecordsKnow, InHand, WindowTypeOK, Value
  <2>3. CASE g # h
    BY <2>1, <2>3, <1>1, <1>2, <1>5, <1>7, <1>8, <1>9 DEF RecordsKnow, InHand
  <2> QED
    BY <2>2, <2>3
<1> QED
  BY <1>10, <1>11, <1>12, <1>13, <1>14, KnownFromRecords, PTL DEF WindowInv

\* What a failing start does not get into its hands is orphaned.
LEMMA DisableFailsKeeps == ASSUME WindowInv, NEW h \in Hosts, DisableFails(h) PROVE WindowInv'
<1>1. /\ WindowTypeOK /\ StartInOrder /\ RecordsKnow /\ OpenedInOrder
      /\ StopUntilClosed /\ ClosedIsOver
  BY DEF WindowInv
<1>2. /\ cmd \in Starts /\ Starting /\ cmd.phase = "disable" /\ h \notin DOMAIN cmd.orig
      /\ setting' = [setting EXCEPT ![h] = "off"] /\ orphaned' = orphaned \cup {h}
      /\ stop' = TRUE /\ cmd' = [cmd EXCEPT !.phase = "undo"] /\ Fault
      /\ UNCHANGED <<record, status, overdue, opened, frozen, closed, ovars>>
  BY <1>1, CommandShape DEF DisableFails, Starting
<1>3. cmd' \in Starts /\ cmd'.phase = "undo" /\ cmd'.run = cmd.run /\ cmd'.orig = cmd.orig
  BY <1>2, NextPhase
<1>4. /\ setting' \in [Hosts -> Value]
      /\ \A g \in Hosts : setting'[g] = IF g = h THEN "off" ELSE setting[g]
  BY <1>1, <1>2 DEF WindowTypeOK, Value
<1>5. faults' \in 0..MaxFaults
  BY <1>1, <1>2, FaultBound
<1>6. WindowTypeOK'
  BY <1>1, <1>2, <1>3, <1>4, <1>5 DEF WindowTypeOK, ovars
<1>7. StopUntilClosed' /\ ClosedIsOver' /\ OpenedInOrder'
  BY <1>1, <1>2 DEF StopUntilClosed, ClosedIsOver, OpenedInOrder
<1>8. StartInOrder'
  <2>1. DOMAIN cmd.orig \subseteq Hosts
    BY <1>2, OriginalsShape DEF Starts
  <2> QED
    BY <2>1, <1>1, <1>2, <1>3, <1>4 DEF StartInOrder
<1>9. TickInOrder'
  BY <1>3 DEF TickInOrder
<1>10. RecordsKnow'
  BY <1>1, <1>2, <1>3, <1>4 DEF RecordsKnow, OnRecord, Starting
<1> QED
  BY <1>6, <1>7, <1>8, <1>9, <1>10, KnownFromRecords, PTL DEF WindowInv

\* The record is of a window that was never opened.
LEMMA WriteRecordKeeps == ASSUME WindowInv, WriteRecord PROVE WindowInv'
<1> DEFINE row == [orig |-> cmd.orig, restored |-> FALSE]
<1>1. /\ WindowTypeOK /\ StartInOrder /\ TickInOrder /\ RecordsKnow /\ OpenedInOrder
      /\ StopUntilClosed /\ ClosedIsOver
  BY DEF WindowInv
<1>2. /\ cmd \in Starts /\ Starting /\ cmd.phase = "record"
      /\ record' = [record EXCEPT ![cmd.run] = row]
      /\ cmd' = [cmd EXCEPT !.phase = "open"]
      /\ UNCHANGED <<setting, status, overdue, opened, frozen, closed, stop, faults,
                     orphaned, ovars>>
  BY <1>1, CommandShape DEF WriteRecord, Starting
<1>3. /\ cmd.run \in Runs /\ cmd.run \notin opened /\ DOMAIN cmd.orig = Hosts
      /\ cmd.orig \in Originals
  BY <1>1, <1>2 DEF Starts, StartInOrder, OpenedInOrder
<1>4. cmd.orig \in [Hosts -> Value]
  BY <1>3, OriginalsShape
<1>5. row \in Records /\ row.orig = cmd.orig
  BY <1>4 DEF Records
<1> HIDE DEF row
<1>6. cmd' \in Starts /\ cmd'.phase = "open" /\ cmd'.run = cmd.run /\ cmd'.orig = cmd.orig
  BY <1>2, NextPhase
<1>7. /\ record' \in [Runs -> {NoRecord} \cup Records]
      /\ record'[cmd.run] = row
      /\ \A n \in opened : record'[n] = record[n]
  BY <1>1, <1>2, <1>3, <1>5 DEF WindowTypeOK
<1>8. WindowTypeOK'
  BY <1>1, <1>2, <1>6, <1>7 DEF WindowTypeOK, ovars
<1>9. StopUntilClosed' /\ ClosedIsOver' /\ OpenedInOrder'
  BY <1>1, <1>2, <1>7 DEF StopUntilClosed, ClosedIsOver, OpenedInOrder
<1>10. row # NoRecord
  BY <1>5, NoRecordAssumption
<1>11. StartInOrder'
  BY <1>1, <1>2, <1>3, <1>5, <1>6, <1>7, <1>10 DEF StartInOrder
<1>12. TickInOrder'
  BY <1>6 DEF TickInOrder
<1>13. RecordsKnow'
  BY <1>1, <1>2, <1>6, <1>7 DEF RecordsKnow, OnRecord, Starting
<1> QED
  BY <1>8, <1>9, <1>11, <1>12, <1>13, KnownFromRecords, PTL DEF WindowInv

\* What is opened has the record, with what the start had in its hands.
LEMMA OpenKeeps == ASSUME WindowInv, Open PROVE WindowInv'
<1>1. /\ WindowTypeOK /\ StartInOrder /\ TickInOrder /\ RecordsKnow /\ OpenedInOrder
      /\ StopUntilClosed /\ ClosedIsOver
  BY DEF WindowInv
<1>2. /\ cmd \in Starts /\ Starting /\ cmd.phase = "open"
      /\ status' = [status EXCEPT ![cmd.run] = "live"]
      /\ opened' = opened \cup {cmd.run}
      /\ cmd' = Idle
      /\ UNCHANGED <<setting, record, overdue, frozen, closed, stop, faults, orphaned, ovars>>
  BY <1>1, CommandShape DEF Open, Starting
<1>3. PICK n \in Runs : n = cmd.run
  BY <1>2 DEF Starts
<1>4. /\ n \notin closed /\ record[n] # NoRecord /\ record[n].orig = cmd.orig
      /\ DOMAIN cmd.orig = Hosts /\ n \notin frozen
  BY <1>1, <1>2, <1>3 DEF StartInOrder, ClosedIsOver, OpenedInOrder, WindowTypeOK
<1>5. \A k \in Runs : status'[k] = IF k = n THEN "live" ELSE status[k]
  BY <1>1, <1>2, <1>3 DEF WindowTypeOK
<1>6. ~Starting' /\ Idle.phase = "idle"
  BY <1>2 DEF Starting, Idle
<1>7. WindowTypeOK'
  BY <1>1, <1>2, <1>3 DEF WindowTypeOK, ovars
<1>8. StopUntilClosed' /\ ClosedIsOver'
  BY <1>1, <1>2, <1>4, <1>5 DEF StopUntilClosed, ClosedIsOver, WindowTypeOK
<1>9. OpenedInOrder'
  BY <1>1, <1>2, <1>3, <1>4, <1>5 DEF OpenedInOrder, WindowTypeOK
<1>10. StartInOrder' /\ TickInOrder'
  BY <1>2, <1>6 DEF StartInOrder, TickInOrder
<1>11. RecordsKnow'
  <2> SUFFICES ASSUME NEW h \in Hosts \ orphaned
               PROVE  /\ \A k \in opened' : record[k].orig[h] = "off" => OnRecord(h)'
                      /\ setting[h] = "off" => OnRecord(h)'
    BY <1>2 DEF RecordsKnow
  <2>1. OnRecord(h) => OnRecord(h)'
    BY <1>2 DEF OnRecord
  <2>2. setting[h] = "off" => OnRecord(h)'
    <3>1. CASE InHand(h)
      <4>1. record'[n].orig[h] = "user" /\ n \in opened'
        BY <3>1, <1>2, <1>3, <1>4 DEF InHand
      <4> QED
        BY <4>1 DEF OnRecord
    <3>2. CASE ~InHand(h)
      BY <3>2, <2>1, <1>1 DEF RecordsKnow, InHand
    <3> QED
      BY <3>1, <3>2
  <2>3. record[n].orig[h] = "off" => OnRecord(h)'
    BY <2>2, <1>1, <1>2, <1>4 DEF StartInOrder
  <2>4. \A k \in opened : record[k].orig[h] = "off" => OnRecord(h)'
    BY <2>1, <1>1 DEF RecordsKnow
  <2> QED
    BY <2>2, <2>3, <2>4, <1>2, <1>3
<1> QED
  BY <1>7, <1>8, <1>9, <1>10, <1>11, KnownFromRecords, PTL DEF WindowInv

\* A value that is put back is the user's, or the records know it.
LEMMA UndoHostKeeps == ASSUME WindowInv, NEW h \in Hosts, UndoHost(h) PROVE WindowInv'
<1> DEFINE D == DOMAIN cmd.orig \ {h}
           o == [g \in D |-> cmd.orig[g]]
<1>1. /\ WindowTypeOK /\ StartInOrder /\ TickInOrder /\ RecordsKnow /\ OpenedInOrder
      /\ StopUntilClosed /\ ClosedIsOver
  BY DEF WindowInv
<1>2. /\ cmd \in Starts /\ Starting /\ cmd.phase = "undo" /\ h \in DOMAIN cmd.orig
      /\ setting' = [setting EXCEPT ![h] = cmd.orig[h]]
      /\ cmd' = [cmd EXCEPT !.orig = o]
      /\ UNCHANGED <<record, status, overdue, opened, frozen, closed, stop, faults,
                     orphaned, ovars>>
  BY <1>1, CommandShape DEF UndoHost, Starting
<1>3. cmd.orig \in Originals /\ cmd.run \in Runs
  BY <1>2 DEF Starts
<1>4. DOMAIN cmd.orig \subseteq Hosts /\ \A g \in DOMAIN cmd.orig : cmd.orig[g] \in Value
  BY <1>3, OriginalsShape
<1>5. /\ DOMAIN o = D /\ D \subseteq Hosts /\ o \in [D -> Value]
      /\ \A g \in D : o[g] = cmd.orig[g]
  BY <1>4
<1>6. o \in Originals
  <2> HIDE DEF o, D
  <2> QED
    BY <1>5, OriginalsMade
<1>7. \A g \in Hosts : g \in D <=> g \in DOMAIN cmd.orig /\ g # h
  OBVIOUS
<1> HIDE DEF o, D
<1>8. cmd' \in Starts /\ cmd'.phase = "undo" /\ cmd'.run = cmd.run /\ cmd'.orig = o
  BY <1>2, <1>3, <1>6 DEF Starts
<1>9. /\ setting' \in [Hosts -> Value]
      /\ \A g \in Hosts : setting'[g] = IF g = h THEN cmd.orig[h] ELSE setting[g]
  BY <1>1, <1>2, <1>4 DEF WindowTypeOK
<1>10. WindowTypeOK'
  BY <1>1, <1>2, <1>8, <1>9 DEF WindowTypeOK, ovars
<1>11. StopUntilClosed' /\ ClosedIsOver' /\ OpenedInOrder'
  BY <1>1, <1>2 DEF StopUntilClosed, ClosedIsOver, OpenedInOrder
<1>12. StartInOrder'
  BY <1>1, <1>2, <1>5, <1>7, <1>8, <1>9 DEF StartInOrder
<1>13. TickInOrder'
  BY <1>8 DEF TickInOrder
<1>14. RecordsKnow'
  <2> SUFFICES ASSUME NEW g \in Hosts \ orphaned
               PROVE  /\ \A n \in opened : record[n].orig[g] = "off" => OnRecord(g)
                      /\ setting'[g] = "off" => OnRecord(g) \/ InHand(g)'
    BY <1>2 DEF RecordsKnow, OnRecord, InHand
  <2>1. Starting'
    BY <1>8 DEF Starting
  <2>2. CASE g = h
    <3>1. setting[h] = "off"
      BY <1>1, <1>2 DEF StartInOrder
    <3> QED
      BY <2>2, <3>1, <1>1, <1>2, <1>9 DEF RecordsKnow
  <2>3. CASE g # h
    BY <2>1, <2>3, <1>1, <1>2, <1>5, <1>7, <1>8, <1>9 DEF RecordsKnow, InHand
  <2> QED
    BY <2>2, <2>3
<1> QED
  BY <1>10, <1>11, <1>12, <1>13, <1>14, KnownFromRecords, PTL DEF WindowInv

\* A command that ends, its start's hosts orphaned.
LEMMA CommandEnds ==
    ASSUME WindowInv, cmd' = Idle, Fault \/ faults' = faults,
           orphaned \subseteq orphaned', orphaned' \subseteq Hosts,
           Starting => DOMAIN cmd.orig \subseteq orphaned',
           UNCHANGED <<setting, record, status, overdue, opened, frozen, closed, stop, ovars>>
    PROVE  WindowInv'
<1>1. ~Starting' /\ Idle.phase = "idle"
  BY DEF Starting, Idle
<1>2. WindowTypeOK'
  BY FaultBound DEF WindowInv, WindowTypeOK, ovars
<1>3. StopUntilClosed' /\ ClosedIsOver' /\ OpenedInOrder'
  BY DEF WindowInv, StopUntilClosed, ClosedIsOver, OpenedInOrder
<1>4. StartInOrder' /\ TickInOrder'
  BY <1>1 DEF StartInOrder, TickInOrder
<1>5. RecordsKnow'
  <2> SUFFICES ASSUME NEW h \in Hosts \ orphaned'
               PROVE  /\ \A n \in opened : record[n].orig[h] = "off" => OnRecord(h)
                      /\ setting[h] = "off" => OnRecord(h)
    BY DEF RecordsKnow, OnRecord
  <2>1. ~InHand(h)
    BY DEF InHand
  <2> QED
    BY <2>1 DEF WindowInv, RecordsKnow, InHand
<1> QED
  BY <1>2, <1>3, <1>4, <1>5, KnownFromRecords, PTL DEF WindowInv

LEMMA EndsKeep == ASSUME WindowInv, UndoEnds \/ Crash PROVE WindowInv'
<1>1. WindowTypeOK
  BY DEF WindowInv
<1>2. Starting => DOMAIN cmd.orig \subseteq Hosts
  <2>1. Starting => cmd.orig \in Originals
    BY <1>1, CommandShape DEF Starts
  <2> QED
    BY <2>1, OriginalsShape
<1>3. CASE UndoEnds
  <2>1. Starting /\ orphaned' = orphaned \cup DOMAIN cmd.orig
    BY <1>3 DEF UndoEnds, Starting
  <2>2. /\ orphaned \subseteq orphaned' /\ orphaned' \subseteq Hosts
        /\ DOMAIN cmd.orig \subseteq orphaned'
    BY <1>1, <1>2, <2>1 DEF WindowTypeOK
  <2> QED
    BY <1>3, <2>2, CommandEnds DEF UndoEnds
<1>4. CASE Crash
  <2>1. orphaned' = IF Starting THEN orphaned \cup DOMAIN cmd.orig ELSE orphaned
    BY <1>4 DEF Crash
  <2>2. /\ orphaned \subseteq orphaned' /\ orphaned' \subseteq Hosts
        /\ Starting => DOMAIN cmd.orig \subseteq orphaned'
    BY <1>1, <1>2, <2>1 DEF WindowTypeOK
  <2> QED
    BY <1>4, <2>2, CommandEnds DEF Crash
<1> QED
  BY <1>3, <1>4

-----------------------------------------------------------------------------
(***************************************************************************)
(* A tick: stopping, rolling back, restoring and closing.                  *)
(***************************************************************************)
\* A tick that changes the status of its run, the receipts or the STOP file,
\* and leaves the settings and the records alone.
LEMMA TickStops ==
    ASSUME WindowInv, ~Starting, ~Starting',
           UNCHANGED <<setting, record, opened, orphaned>>,
           WindowTypeOK', StopUntilClosed', ClosedIsOver', TickInOrder',
           \A n \in Runs : status'[n] = "none" => status[n] = "none"
    PROVE  WindowInv'
<1>1. StartInOrder'
  BY DEF StartInOrder
<1>2. OpenedInOrder'
  BY DEF WindowInv, WindowTypeOK, OpenedInOrder
<1>3. RecordsKnow'
  BY DEF WindowInv, RecordsKnow, OnRecord
<1> QED
  BY <1>1, <1>2, <1>3, KnownFromRecords, PTL DEF WindowInv

LEMMA TouchKeeps == ASSUME WindowInv, Touch PROVE WindowInv'
<1>1. /\ cmd.phase = "touch" /\ ~Starting
      /\ cmd' = [cmd EXCEPT !.phase = "freeze"]
      /\ stop' = TRUE
      /\ UNCHANGED <<setting, record, status, overdue, opened, frozen, closed, faults,
                     orphaned, ovars>>
  BY DEF Touch, Starting
<1>2. WindowTypeOK /\ TickInOrder
  BY DEF WindowInv
<1>3. cmd \in Closings
  BY <1>1, <1>2, CommandShape
<1>4. cmd' \in Closings /\ cmd'.phase = "freeze" /\ cmd'.run = cmd.run
  BY <1>1, <1>3, NextPhase
<1>5. TickInOrder'
  BY <1>1, <1>2, <1>4 DEF TickInOrder
<1>6. faults' \in 0..MaxFaults /\ stop' \in BOOLEAN
  BY <1>1, <1>2 DEF WindowTypeOK
<1> QED
  BY <1>1, <1>4, <1>5, <1>6, TickGoesOn

LEMMA FreezeKeeps == ASSUME WindowInv, Freeze PROVE WindowInv'
<1>1. /\ cmd.phase = "freeze" /\ ~Starting
      /\ status' = [status EXCEPT ![cmd.run] = IF @ = "live" THEN "stopping" ELSE @]
      /\ frozen' = frozen \cup {cmd.run}
      /\ cmd' = [cmd EXCEPT !.phase = "rollback"]
      /\ UNCHANGED <<setting, record, overdue, opened, closed, stop, faults, orphaned, ovars>>
  BY DEF Freeze, Starting
<1>2. WindowTypeOK /\ TickInOrder /\ StopUntilClosed /\ ClosedIsOver
  BY DEF WindowInv
<1>3. cmd \in Closings
  BY <1>1, <1>2, CommandShape
<1>4. cmd' \in Closings /\ cmd'.phase = "rollback" /\ cmd'.run = cmd.run
  BY <1>1, <1>3, NextPhase
<1>5. PICK n \in Runs : n = cmd.run
  BY <1>3 DEF Closings
<1>6. stop /\ n \in opened
  BY <1>1, <1>2, <1>5 DEF TickInOrder
<1>7. /\ status' \in [Runs -> {"none", "live", "stopping", "stopped"}]
      /\ \A k \in Runs : status'[k] = IF k = n /\ status[k] = "live" THEN "stopping"
                                      ELSE status[k]
  BY <1>1, <1>2, <1>5 DEF WindowTypeOK
<1>8. WindowTypeOK'
  BY <1>1, <1>2, <1>4, <1>5, <1>6, <1>7 DEF WindowTypeOK, ovars
<1>9. StopUntilClosed'
  BY <1>1, <1>6 DEF StopUntilClosed
<1>10. ClosedIsOver'
  BY <1>1, <1>2, <1>7 DEF ClosedIsOver, WindowTypeOK
<1>11. TickInOrder'
  BY <1>1, <1>4, <1>5, <1>6 DEF TickInOrder
<1>12. ~Starting'
  BY <1>4 DEF Starting
<1> QED
  BY <1>1, <1>7, <1>8, <1>9, <1>10, <1>11, <1>12, TickStops

LEMMA RollbackKeeps == ASSUME WindowInv, RollbackEndsRun \/ RollbackStays PROVE WindowInv'
<1>1. /\ cmd.phase = "rollback" /\ ~Starting
      /\ UNCHANGED <<setting, record, overdue, opened, frozen, closed, stop, orphaned,
                     drifted, updates, ready, shown, labels>>
      /\ Fault \/ faults' = faults
      /\ held' = held \/ held' = held \cup {cmd.run}
  BY DEF RollbackEndsRun, RollbackStays, Starting, ovars
<1>2. WindowTypeOK /\ TickInOrder /\ StopUntilClosed /\ ClosedIsOver
  BY DEF WindowInv
<1>3. cmd \in Closings
  BY <1>1, <1>2, CommandShape
<1>4. PICK n \in Runs : n = cmd.run
  BY <1>3 DEF Closings
<1>5. n \in opened /\ n \in frozen
  BY <1>1, <1>2, <1>4 DEF TickInOrder
<1>6. PICK s \in {status[n], "stopped"} :
        status' = [status EXCEPT ![n] = s] /\ (RollbackEndsRun => s = "stopped")
  BY <1>4 DEF RollbackEndsRun, RollbackStays
<1>7. /\ status' \in [Runs -> {"none", "live", "stopping", "stopped"}]
      /\ \A k \in Runs : status'[k] = IF k = n THEN s ELSE status[k]
  BY <1>2, <1>6 DEF WindowTypeOK
<1>8. StopUntilClosed' /\ ClosedIsOver'
  BY <1>1, <1>2, <1>6, <1>7 DEF StopUntilClosed, ClosedIsOver, WindowTypeOK
<1>9. faults' \in 0..MaxFaults
  BY <1>1, <1>2, FaultBound
<1>10. cmd' \in Restores \cup Sweeps /\ TickInOrder'
  <2>1. CASE RollbackEndsRun
    <3>1. cmd' \in Restores /\ cmd'.phase = "restore" /\ cmd'.run = n
      BY <2>1, <1>4, CommandMade DEF RollbackEndsRun
    <3>2. status'[n] = "stopped"
      BY <2>1, <1>6, <1>7
    <3> QED
      BY <3>1, <3>2, <1>1, <1>5 DEF TickInOrder
  <2>2. CASE RollbackStays
    <3>1. Sweep \in Sweeps /\ Sweep.phase = "sweep" /\ Sweep.left \subseteq opened
      BY SweepInOrder DEF WindowInv
    <3> QED
      BY <2>2, <3>1, <1>1 DEF RollbackStays, TickInOrder
  <2> QED
    BY <2>1, <2>2
<1>11. WindowTypeOK' /\ ~Starting'
  <2>1. held' \subseteq opened'
    BY <1>1, <1>2, <1>4, <1>5 DEF WindowTypeOK
  <2> QED
    BY <2>1, <1>1, <1>2, <1>7, <1>9, <1>10 DEF WindowTypeOK, Starting, Restores, Sweeps
<1>12. \A k \in Runs : status'[k] = "none" => status[k] = "none"
  BY <1>6, <1>7
<1> QED
  BY <1>1, <1>8, <1>10, <1>11, <1>12, TickStops

\* What is put back is the user's value, or the records know it.
LEMMA RestoreHostKeeps == ASSUME WindowInv, NEW h \in Hosts, RestoreHost(h) PROVE WindowInv'
<1>1. /\ cmd.phase = "restore" /\ ~Starting
      /\ setting' = [setting EXCEPT ![h] = record[cmd.run].orig[h]]
      /\ cmd' = [cmd EXCEPT !.left = @ \ {h}]
      /\ UNCHANGED <<record, status, overdue, opened, frozen, closed, stop, faults,
                     orphaned, ovars>>
  BY DEF RestoreHost, Starting
<1>2. /\ WindowTypeOK /\ TickInOrder /\ RecordsKnow /\ OpenedInOrder
      /\ StopUntilClosed /\ ClosedIsOver
  BY DEF WindowInv
<1>3. cmd \in Restores
  BY <1>1, <1>2, CommandShape
<1>4. PICK n \in Runs : n = cmd.run
  BY <1>3 DEF Restores
<1>5. n \in opened /\ record[n] \in Records
  BY <1>1, <1>2, <1>4 DEF TickInOrder, OpenedInOrder, WindowTypeOK
<1>6. record[n].orig[h] \in Value
  BY <1>5 DEF Records
<1>7. /\ setting' \in [Hosts -> Value]
      /\ \A g \in Hosts : setting'[g] = IF g = h THEN record[n].orig[h] ELSE setting[g]
  BY <1>1, <1>2, <1>4, <1>6 DEF WindowTypeOK
<1>8. /\ cmd' \in Restores /\ cmd'.phase = "restore" /\ cmd'.run = cmd.run
      /\ cmd'.closing = cmd.closing
  BY <1>1, <1>3 DEF Restores
<1>9. WindowTypeOK'
  BY <1>1, <1>2, <1>7, <1>8 DEF WindowTypeOK, ovars
<1>10. StopUntilClosed' /\ ClosedIsOver' /\ OpenedInOrder'
  BY <1>1, <1>2 DEF StopUntilClosed, ClosedIsOver, OpenedInOrder
<1>11. TickInOrder'
  BY <1>1, <1>2, <1>8 DEF TickInOrder
<1>12. ~Starting'
  BY <1>8 DEF Starting
<1>13. StartInOrder'
  BY <1>12 DEF StartInOrder
<1>14. RecordsKnow'
  <2> SUFFICES ASSUME NEW g \in Hosts \ orphaned
               PROVE  /\ \A k \in opened : record[k].orig[g] = "off" => OnRecord(g)
                      /\ setting'[g] = "off" => OnRecord(g)
    BY <1>1 DEF RecordsKnow, OnRecord
  <2>1. CASE g = h
    BY <2>1, <1>1, <1>2, <1>5, <1>7 DEF RecordsKnow
  <2>2. CASE g # h
    BY <2>2, <1>1, <1>2, <1>7 DEF RecordsKnow
  <2> QED
    BY <2>1, <2>2
<1> QED
  BY <1>9, <1>10, <1>11, <1>13, <1>14, KnownFromRecords, PTL DEF WindowInv

\* A record that is done keeps what it says.
LEMMA RestoreDoneKeeps == ASSUME WindowInv, RestoreDone PROVE WindowInv'
<1>1. /\ cmd.phase = "restore" /\ ~Starting
      /\ record' = [record EXCEPT ![cmd.run].restored = TRUE]
      /\ cmd' = AfterRestore
      /\ UNCHANGED <<setting, status, overdue, opened, frozen, closed, stop, faults,
                     orphaned, ovars>>
  BY DEF RestoreDone, Starting
<1>2. /\ WindowTypeOK /\ TickInOrder /\ RecordsKnow /\ OpenedInOrder
      /\ StopUntilClosed /\ ClosedIsOver
  BY DEF WindowInv
<1>3. cmd \in Restores
  BY <1>1, <1>2, CommandShape
<1>4. PICK n \in Runs : n = cmd.run
  BY <1>3 DEF Restores
<1>5. n \in opened /\ record[n] \in Records
  BY <1>1, <1>2, <1>4 DEF TickInOrder, OpenedInOrder, WindowTypeOK
<1> DEFINE row == [record[n] EXCEPT !.restored = TRUE]
<1>6. row \in Records /\ row.orig = record[n].orig /\ row # NoRecord
  <2>1. row \in Records /\ row.orig = record[n].orig
    BY <1>5 DEF Records
  <2> QED
    BY <2>1, NoRecordAssumption
<1>7. record' = [record EXCEPT ![n] = row]
  BY <1>1, <1>4
<1> HIDE DEF row
<1>8. /\ record' \in [Runs -> {NoRecord} \cup Records]
      /\ \A k \in Runs : record'[k] = IF k = n THEN row ELSE record[k]
  BY <1>2, <1>6, <1>7 DEF WindowTypeOK
<1>9. \A k \in opened : record'[k].orig = record[k].orig /\ record'[k] # NoRecord
  BY <1>2, <1>6, <1>8 DEF WindowTypeOK, OpenedInOrder
<1>10. TickInOrder' /\ cmd' \in Closings \cup Sweeps
  BY <1>1, AfterRestoreInOrder
<1>11. WindowTypeOK'
  BY <1>1, <1>2, <1>8, <1>10 DEF WindowTypeOK, ovars
<1>12. StopUntilClosed' /\ ClosedIsOver'
  BY <1>1, <1>2 DEF StopUntilClosed, ClosedIsOver
<1>13. OpenedInOrder'
  BY <1>1, <1>2, <1>9 DEF OpenedInOrder
<1>14. ~Starting'
  BY <1>10 DEF Starting, Closings, Sweeps
<1>15. StartInOrder'
  BY <1>14 DEF StartInOrder
<1>16. RecordsKnow'
  BY <1>1, <1>2, <1>9 DEF RecordsKnow, OnRecord
<1> QED
  BY <1>10, <1>11, <1>12, <1>13, <1>15, <1>16, KnownFromRecords, PTL DEF WindowInv

LEMMA CloseKeeps == ASSUME WindowInv, Close PROVE WindowInv'
<1>1. /\ cmd.phase = "close" /\ ~Starting
      /\ closed' = closed \cup {cmd.run}
      /\ cmd' = [cmd EXCEPT !.phase = "last"]
      /\ UNCHANGED <<setting, record, status, overdue, opened, frozen, stop, faults,
                     orphaned, ovars>>
  BY DEF Close, Starting
<1>2. WindowTypeOK /\ TickInOrder /\ StopUntilClosed /\ ClosedIsOver
  BY DEF WindowInv
<1>3. cmd \in Closings
  BY <1>1, <1>2, CommandShape
<1>4. cmd' \in Closings /\ cmd'.phase = "last"
  BY <1>1, <1>3, NextPhase
<1>5. cmd.run \in opened /\ cmd.run \in frozen /\ status[cmd.run] = "stopped"
  BY <1>1, <1>2 DEF TickInOrder
<1>6. WindowTypeOK' /\ ~Starting' /\ TickInOrder'
  BY <1>1, <1>2, <1>4, <1>5 DEF WindowTypeOK, ovars, Starting, TickInOrder
<1>7. StopUntilClosed' /\ ClosedIsOver'
  BY <1>1, <1>2, <1>5 DEF StopUntilClosed, ClosedIsOver
<1> QED
  BY <1>1, <1>6, <1>7, TickStops

-----------------------------------------------------------------------------
LEMMA NextKeeps == WindowInv /\ [WindowNext]_wvars => WindowInv'
<1> SUFFICES ASSUME WindowInv, [WindowNext]_wvars PROVE WindowInv'
  OBVIOUS
<1>1. CASE UNCHANGED wvars
  <2>1. WindowTypeOK'
    BY <1>1 DEF WindowInv, WindowTypeOK, wvars, ovars
  <2> QED
    BY <1>1, <2>1, OutsideStep DEF wvars
<1>2. CASE StartStep
  BY <1>2, StartBeginsKeeps, DisableHostKeeps, DisableFailsKeeps, UndoHostKeeps, AllDisabledKeeps,
     WriteRecordKeeps, OpenKeeps, StartFailsKeeps, EndsKeep DEF StartStep
<1>3. CASE TickStep
  BY <1>3, CheckKeeps, TouchKeeps, FreezeKeeps, RollbackKeeps, RestoreHostKeeps,
     RestoreFailsKeeps, RestoreDoneKeeps, CloseKeeps, TurnsKeep, TickEndsKeeps,
     SweepRecordKeeps DEF TickStep
<1> QED
  BY <1>1, <1>2, <1>3, PreflightKeeps, TickBeginsKeeps, EndsKeep, OutsideKeeps DEF WindowNext

\* From freezing to closing the STOP file is there, what is closed is over,
\* and the user's choice of a switch is never lost but by a start that died
\* or could not undo.
THEOREM WindowInvariant == WindowSpec => []WindowInv
<1> QED
  BY InitInv, NextKeeps, PTL DEF WindowSpec

=============================================================================
