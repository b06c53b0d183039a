-------------------------------- MODULE Ingest --------------------------------
(***************************************************************************)
(* Events of a host enter through the daemon: rollout.py, ingest, with the *)
(* gate NormalHostAdapter.ingest, the journal (maintenance/journal.py) and *)
(* schedule_candidate.  The daemon handles one event at a time, but the    *)
(* rest of the control plane moves on in between: the run is read once,    *)
(* the gate looks at the STOP file and the deadline once, then the event   *)
(* and the candidate are two transactions that look at neither again.      *)
(*                                                                         *)
(* Events are identified by a host session and a source key; what else the *)
(* gate checks (workspace, host, version, generation) is a request it      *)
(* turns away without a trace in the tables modelled.                      *)
(***************************************************************************)
EXTENDS Control

CONSTANTS
    Daemon,         \* the process that serves the hooks
    Sessions,       \* host sessions
    SourceKeys,     \* event keys chosen by the host
    Payloads,
    Prompts,        \* the payloads of prompts; other events make no candidate
    NoPayload,
    MaxSessions,    \* session budget of a run
    MaxCandidates   \* candidate budget of a run

ASSUME IngestAssumption ==
    /\ Daemon \in Procs /\ NoPayload \notin Payloads /\ Prompts \subseteq Payloads
    /\ MaxSessions \in Nat \ {0} /\ MaxCandidates \in Nat \ {0}

Events == Sessions \X SourceKeys

VARIABLES
    reserved,   \* rollout_sessions of a run
    journal,    \* events: the payload stored
    runEvents,  \* rollout_events of a run
    cands,      \* candidates and their reservation: how many a run has of an event
    req         \* the request the daemon handles

ivars == <<reserved, journal, runEvents, cands, req>>

NoRequest == [phase |-> "none"]

Request == [phase : {"admitted", "accepted"}, run : 1..MaxRuns, event : Events,
            payload : Payloads]

IngestTypeOK ==
    /\ ControlTypeOK
    /\ reserved \in [1..MaxRuns -> SUBSET Sessions]
    /\ journal \in [Events -> Payloads \cup {NoPayload}]
    /\ runEvents \in [1..MaxRuns -> SUBSET Events]
    /\ cands \in [1..MaxRuns -> [Events -> 0..2]]
    /\ req \in Request \cup {NoRequest}

IngestInit ==
    /\ ControlInit
    /\ reserved = [n \in 1..MaxRuns |-> {}]
    /\ journal = [e \in Events |-> NoPayload]
    /\ runEvents = [n \in 1..MaxRuns |-> {}]
    /\ cands = [n \in 1..MaxRuns |-> [e \in Events |-> 0]]
    /\ req = NoRequest

\* A hook calls, for the first time or again: _run finds a live run, and the
\* gate neither the STOP file nor a passed deadline.
Receive(n, e, x) ==
    /\ req = NoRequest /\ cfg[Daemon] # Stopped
    /\ runs[n].status \in Live /\ ~runs[n].overdue /\ ~stop
    /\ req' = [phase |-> "admitted", run |-> n, event |-> e, payload |-> x]
    /\ UNCHANGED <<cvars, reserved, journal, runEvents, cands>>

\* The limit is looked at after the session has been counted.
HasRoomSlip(n, s) == s \in reserved[n] \/ Cardinality(reserved[n]) <= MaxSessions

\* A session is reserved once, and then every event of it is let in.
HasRoom(n, s) == s \in reserved[n] \/ Cardinality(reserved[n]) < MaxSessions

\* Reserving this session uses the budget up: the run drains.
FilledBy(n, s) == s \notin reserved[n] /\ Cardinality(reserved[n]) + 1 >= MaxSessions

\* append: a duplicate is fine, a key with another payload is not.
SameEvent(e, x) == journal[e] \in {NoPayload, x}

\* The gate's transaction: the reservation, the journal's append, which
\* returns a duplicate or refuses a key used with another payload, and the
\* event's place in the run.
StoreEvent ==
    LET n == req.run
        e == req.event IN
    /\ req.phase = "admitted"
    /\ HasRoom(n, e[1])
    /\ SameEvent(e, req.payload)
    /\ reserved' = [reserved EXCEPT ![n] = @ \cup {e[1]}]
    /\ journal' = [journal EXCEPT ![e] = req.payload]
    /\ runEvents' = [runEvents EXCEPT ![n] = @ \cup {e}]
    /\ runs' = IF FilledBy(n, e[1]) /\ runs[n].status = "running"
               THEN [runs EXCEPT ![n].status = "draining"] ELSE runs
    /\ req' = IF req.payload \in Prompts THEN [req EXCEPT !.phase = "accepted"] ELSE NoRequest
    /\ UNCHANGED <<conf, edits, cfg, keys, grants, receipts, began, job, stop, cands>>

\* session_limit or source_event_key_reused: the transaction leaves nothing.
RefuseEvent ==
    /\ req.phase = "admitted"
    /\ ~HasRoom(req.run, req.event[1]) \/ ~SameEvent(req.event, req.payload)
    /\ req' = NoRequest
    /\ UNCHANGED <<cvars, reserved, journal, runEvents, cands>>

Proposed(n) == {e \in Events : cands[n][e] > 0}

Count(n) == Cardinality(Proposed(n))

\* No candidate was made of this event in this run, and there is room for one.
WantsCandidate(n, e) == cands[n][e] = 0 /\ Count(n) < MaxCandidates

\* schedule_candidate: the candidate and its reservation; or the one there
\* is; or quarantine.
ScheduleCandidate ==
    /\ req.phase = "accepted"
    /\ cands' = IF WantsCandidate(req.run, req.event)
                THEN [cands EXCEPT ![req.run][req.event] = @ + 1] ELSE cands
    /\ req' = NoRequest
    /\ UNCHANGED <<cvars, reserved, journal, runEvents>>

\* The candidate's data is not valid: recorded as candidate_error.
RefuseCandidate ==
    /\ req.phase = "accepted"
    /\ req' = NoRequest
    /\ UNCHANGED <<cvars, reserved, journal, runEvents, cands>>

\* The rest of the control plane; the request dies with the daemon.
ControlStep ==
    /\ ControlNext
    /\ req' = IF cfg'[Daemon] = Stopped THEN NoRequest ELSE req
    /\ UNCHANGED <<reserved, journal, runEvents, cands>>

IngestNext ==
    \/ \E n \in 1..MaxRuns, e \in Events, x \in Payloads : Receive(n, e, x)
    \/ StoreEvent \/ RefuseEvent \/ ScheduleCandidate \/ RefuseCandidate
    \/ ControlStep

IngestSpec == IngestInit /\ [][IngestNext]_<<cvars, ivars>>

-----------------------------------------------------------------------------
\* The budgets signed with the activation hold, whatever is repeated or
\* interrupted, and a run's candidates come from its own events, of sessions
\* it reserved, one for each event (rollout.py, ingest, schedule_candidate).
\* A run that has used up its sessions is draining, also when a stop or a
\* second run comes between the read and the reservation.
BudgetsHold ==
    \A n \in 1..MaxRuns :
        /\ Cardinality(reserved[n]) <= MaxSessions
        /\ Count(n) <= MaxCandidates
        /\ \A e \in Events : cands[n][e] <= 1 /\ (cands[n][e] = 1 => e \in runEvents[n])
        /\ \A e \in runEvents[n] : e[1] \in reserved[n] /\ journal[e] # NoPayload
        /\ runs[n].status = "running" => Cardinality(reserved[n]) < MaxSessions

\* A run that was not created has nothing, and a request is for one that was;
\* a candidate is asked for after its event was stored.  Sessions and events
\* are counted as long as there are finitely many.
DeliveriesInOrder ==
    /\ \A n \in 1..MaxRuns :
         /\ n \notin Created => reserved[n] = {}
         /\ IsFiniteSet(reserved[n]) /\ IsFiniteSet(Proposed(n))
    /\ req # NoRequest => req.run \in Created
    /\ req.phase = "accepted" => req.event \in runEvents[req.run]

\* Types of the whole, the promises of the control plane, and what the
\* budgets rest on.
IngestInv == IngestTypeOK /\ ControlInv /\ DeliveriesInOrder

\* The steps of the control plane keep to their rules while hosts deliver, and
\* what is in the journal is final: a second delivery under the same key changes
\* nothing, though it says something else and is accepted for another run.
NothingIsUndone ==
    /\ ControlSteps
    /\ [][\A e \in Events : journal[e] # NoPayload => journal'[e] = journal[e]]_ivars

\* No event and no candidate enters a run that was stopped.  The design
\* document asks for it; the code looks at the run before, not in, the
\* transactions that write.
NothingEntersAfterStop ==
    [][\A n \in 1..MaxRuns :
          runEvents'[n] # runEvents[n] \/ cands'[n] # cands[n] => runs[n].status \in Live]_<<cvars, ivars>>
=============================================================================
