------------------------------- MODULE Registry -------------------------------
(***************************************************************************)
(* Who belongs where: projects, the directories bound to them, sessions,   *)
(* tasks, and what follows from a session's place.  The registry is        *)
(* written by the command line and by the daemon's endpoints, each call    *)
(* in a thread or a process of its own and each with its lookup before its *)
(* transaction (ledger/service.py, register_project to bind_task).  The    *)
(* daemon's hooks resolve the allowed directory three times for one event: *)
(* before they store it, for the scope of its candidate, and for the       *)
(* context in which a session is shown memories (rollout.py, ingest,       *)
(* schedule_candidate, session_start); the scheduler reads anchors in the  *)
(* context of the workspace the run was activated in (scheduler.py,        *)
(* _batch).  In between directories are bound, and moved.                  *)
(*                                                                         *)
(* One owner, one host, one rollout; its budgets, its stop and the journal *)
(* are Ingest and Journal, the life of a batch is Batch and Schedule.  The *)
(* host names neither the scope nor the context of what it sends.  An id   *)
(* is the row's position; 0 is no row.                                     *)
(***************************************************************************)
EXTENDS Naturals, Sequences, FiniteSets, SequencesExt

CONSTANTS
    Callers,      \* command lines and daemon threads
    Paths,        \* resolved directories
    Below,        \* the pairs <<d, a>> of a directory and one that contains it
    Allowed,      \* allowed_workspace, the directory the hosts run in
    Sessions,     \* host_session_id
    MaxPlaces,    \* bound: rows of project_locations
    MaxTasks,     \* bound: rows of tasks
    MaxBindings,  \* bound: task bindings of a session
    MaxEvents,    \* bound: events in the journal
    MaxMemories,  \* bound: memories
    MaxMoves      \* bound: directories moved

ASSUME RegistryAssumption ==
    /\ Below \subseteq Paths \X Paths /\ Allowed \in Paths
    /\ \A a, b, c \in Paths : <<a, b>> \in Below /\ <<b, c>> \in Below => <<a, c>> \in Below
    /\ \A a \in Paths : <<a, a>> \notin Below
    /\ \A a, b, c \in Paths : <<a, b>> \in Below /\ <<a, c>> \in Below
           => b = c \/ <<b, c>> \in Below \/ <<c, b>> \in Below
    /\ {MaxPlaces, MaxTasks, MaxBindings, MaxEvents, MaxMemories, MaxMoves} \subseteq Nat

Kinds == {"start", "prompt", "checkpoint"}  \* SessionStart, UserPromptSubmit, Stop and SessionEnd

VARIABLES
    projects,  \* how many there are
    places,    \* project_locations: project and directory of each workspace
    tasks,     \* the project of each task
    home,      \* sessions: the workspace of each host session
    bindings,  \* task_bindings of each session; until is 0 in the open one
    events,    \* the journal: session, workspace and kind
    cands,     \* candidates: session, task, project of the scope, event, batch
    batches,   \* session, task, event_upper_sequence, anchors, outstanding
    mems,      \* active memories: the project and the task of the scope
    runPlace,  \* workspace_id of the run
    moves,
    call,      \* what each caller has looked up
    req,       \* the event the daemon handles
    shown      \* what the sessions were shown at their start

vars == <<projects, places, tasks, home, bindings, events, cands, batches, mems, runPlace,
          moves, call, req, shown>>

rowsOfPlaces  == <<projects, places, moves>>
rowsOfWork    == <<tasks, home, bindings>>
rowsOfEvents  == <<events, cands, batches, runPlace>>

Idle == [do |-> "none"]

Workspaces == DOMAIN places
ProjectOf(s) == places[home[s]].project
Taken(x) == \E w \in Workspaces : places[w].path = x

Covers(w, x) == places[w].path = x \/ <<x, places[w].path>> \in Below

\* resolve_project: the innermost directory that contains this one.
Resolve(x) ==
    LET matches == {w \in Workspaces : Covers(w, x)} IN
    IF matches = {} THEN 0
    ELSE CHOOSE w \in matches : \A v \in matches : Covers(v, places[w].path)

\* Scope: everything, a project, or a task of a project.
Scopes == {m \in [project : 0..projects, task : 0..Len(tasks)] : m.task # 0 => m.project # 0}

\* TaskContext, of the daemon and the scheduler: no task.
Context(p, w) == [project |-> p, workspace |-> w, task |-> 0]

Place   == [project : 1..projects, path : Paths]
Binding == [task : 1..Len(tasks), from : 1..MaxEvents, until : 0..MaxEvents]
Event   == [session : Sessions, workspace : Workspaces, kind : Kinds]
Candidate == [session : Sessions, task : 0..Len(tasks), project : 1..projects,
              event : 1..Len(events), batch : 0..Len(batches)]
Batch   == [session : Sessions, task : 0..Len(tasks), upper : 1..Len(events),
            anchors : SUBSET (1..Len(mems)), outstanding : BOOLEAN]

\* What a caller has looked up, and what the daemon has of the event it handles.
Lookup  == [do : {"place"}, project : 0..projects, path : Paths]
           \cup [do : {"open"}, session : Sessions, workspace : Workspaces]
           \cup [do : {"bind"}, session : Sessions, task : 1..Len(tasks), from : 1..Len(events)]
Request == [do : {"store", "candidate", "context"}, session : Sessions, kind : Kinds,
            workspace : Workspaces]
           \cup [do : {"show"}, session : Sessions,
                 context : [project : 1..projects, workspace : Workspaces, task : {0}]]

TypeOK ==
    /\ projects \in 0..MaxPlaces /\ moves \in 0..MaxMoves
    /\ places \in Seq(Place) /\ Len(places) <= MaxPlaces
    /\ tasks \in Seq(1..projects) /\ Len(tasks) <= MaxTasks
    /\ home \in [Sessions -> 0..Len(places)]
    /\ bindings \in [Sessions -> Seq(Binding)]
    /\ \A s \in Sessions : Len(bindings[s]) <= MaxBindings
    /\ events \in Seq(Event) /\ Len(events) <= MaxEvents
    /\ cands \in Seq(Candidate) /\ batches \in Seq(Batch)
    /\ mems \in Seq(Scopes) /\ Len(mems) <= MaxMemories
    /\ runPlace \in 0..Len(places)
    /\ shown \subseteq [session : Sessions, memory : 1..Len(mems)]
    /\ call \in [Callers -> {Idle} \cup Lookup]
    /\ req \in {Idle} \cup Request

Init ==
    /\ projects = 0 /\ places = <<>> /\ tasks = <<>> /\ events = <<>>
    /\ cands = <<>> /\ batches = <<>> /\ mems = <<>>
    /\ home = [s \in Sessions |-> 0]
    /\ bindings = [s \in Sessions |-> <<>>]
    /\ runPlace = 0 /\ moves = 0 /\ shown = {}
    /\ call = [c \in Callers |-> Idle] /\ req = Idle

-----------------------------------------------------------------------------
(* The registry.  A lookup that finds what is asked for, or an error, ends *)
(* the call and changes nothing.                                           *)

Begins(c, what) ==
    /\ call[c] = Idle /\ call' = [call EXCEPT ![c] = what]
    /\ UNCHANGED <<rowsOfPlaces, rowsOfWork, rowsOfEvents, mems, req, shown>>

\* register_project (no project yet), bind_location: the directory is not bound.
FindNoPlace(c, p, x) ==
    /\ Len(places) < MaxPlaces
    /\ ~Taken(x)
    /\ Begins(c, [do |-> "place", project |-> p, path |-> x])

\* The project, if it is new, and the location, in one transaction, unless the
\* directory has been bound meanwhile: UNIQUE(owner_id, realpath).
InsertPlace(c) ==
    LET p == IF call[c].project = 0 THEN projects + 1 ELSE call[c].project IN
    /\ call[c].do = "place"
    /\ Len(places) < MaxPlaces
    /\ call' = [call EXCEPT ![c] = Idle]
    /\ IF Taken(call[c].path) THEN UNCHANGED <<projects, places>>
       ELSE /\ projects' = IF call[c].project = 0 THEN p ELSE projects
            /\ places' = Append(places, [project |-> p, path |-> call[c].path])
    /\ UNCHANGED <<moves, rowsOfWork, rowsOfEvents, mems, req, shown>>

\* rebind_location: the workspace moves to a directory that no other has.
RebindLocation(w, x) ==
    /\ moves < MaxMoves
    /\ ~Taken(x)
    /\ places' = [places EXCEPT ![w].path = x]
    /\ moves' = moves + 1
    /\ UNCHANGED <<projects, rowsOfWork, rowsOfEvents, mems, call, req, shown>>

CreateTask(p) ==
    /\ Len(tasks) < MaxTasks
    /\ tasks' = Append(tasks, p)
    /\ UNCHANGED <<rowsOfPlaces, home, bindings, rowsOfEvents, mems, call, req, shown>>

\* open_session, called by the command line: no such session.
FindNoSession(c, s, w) ==
    /\ home[s] = 0
    /\ Begins(c, [do |-> "open", session |-> s, workspace |-> w])

\* Slip: a session that is there is opened again.
InsertSessionSlip(c) ==
    /\ call[c].do = "open"
    /\ call' = [call EXCEPT ![c] = Idle]
    /\ home' = [home EXCEPT ![call[c].session] = call[c].workspace]
    /\ UNCHANGED <<rowsOfPlaces, tasks, bindings, rowsOfEvents, mems, req, shown>>

\* UNIQUE(owner_id, host, host_session_id)
InsertSession(c) ==
    LET s == call[c].session IN
    /\ call[c].do = "open"
    /\ call' = [call EXCEPT ![c] = Idle]
    /\ home' = IF home[s] = 0 THEN [home EXCEPT ![s] = call[c].workspace] ELSE home
    /\ UNCHANGED <<rowsOfPlaces, tasks, bindings, rowsOfEvents, mems, req, shown>>

\* _validate_session_task, bind_task: of one project.
SameProject(s, t) == home[s] # 0 /\ tasks[t] = ProjectOf(s)

\* bind_task: the caller names the last event it knows of.
CheckTask(c, s, t) ==
    /\ events # <<>>
    /\ Len(bindings[s]) < MaxBindings
    /\ SameProject(s, t)
    /\ Begins(c, [do |-> "bind", session |-> s, task |-> t, from |-> Len(events)])

Closed(b, e) == IF b.until = 0 THEN [b EXCEPT !.until = e] ELSE b

\* The open binding ends where the new one begins.
BindTask(c) ==
    LET s == call[c].session IN
    /\ call[c].do = "bind"
    /\ Len(bindings[s]) < MaxBindings
    /\ bindings' = [bindings EXCEPT ![s] =
           Append([i \in DOMAIN @ |-> Closed(@[i], call[c].from)],
                  [task |-> call[c].task, from |-> call[c].from, until |-> 0])]
    /\ call' = [call EXCEPT ![c] = Idle]
    /\ UNCHANGED <<rowsOfPlaces, tasks, home, rowsOfEvents, mems, req, shown>>

-----------------------------------------------------------------------------
(* The daemon's hooks, one event at a time.                                *)

\* activate: the run is of the workspace that the directory resolves to.
Activate ==
    /\ runPlace = 0
    /\ runPlace' = Resolve(Allowed)
    /\ UNCHANGED <<rowsOfPlaces, rowsOfWork, events, cands, batches, mems, call, req, shown>>

\* ingest reads the workspace before its transaction.
Receive(s, kind) ==
    /\ runPlace # 0
    /\ req = Idle /\ Len(events) < MaxEvents
    /\ Resolve(Allowed) # 0
    /\ req' = [do |-> "store", session |-> s, kind |-> kind, workspace |-> Resolve(Allowed)]
    /\ UNCHANGED <<rowsOfPlaces, rowsOfWork, rowsOfEvents, mems, call, shown>>

\* Slip: the session is looked up by its host's id alone.
InScopeSlip(s, w) == TRUE

\* _validate_event: an event is of its session's workspace.
InScope(s, w) == home[s] \in {0, w}

\* What the daemon does when the event is in the journal.
After(kind) ==
    CASE kind = "start" -> [req EXCEPT !.do = "context"]
      [] kind = "prompt" -> [req EXCEPT !.do = "candidate"]
      [] OTHER -> Idle

\* The session, opened if there is none, and the event; or neither.
StoreEvent ==
    LET s == req.session IN
    /\ req.do = "store"
    /\ IF InScope(s, req.workspace)
       THEN /\ home' = [home EXCEPT ![s] = IF @ = 0 THEN req.workspace ELSE @]
            /\ events' = Append(events, [session |-> s, workspace |-> req.workspace, kind |-> req.kind])
            /\ req' = After(req.kind)
       ELSE req' = Idle /\ UNCHANGED <<home, events>>
    /\ UNCHANGED <<rowsOfPlaces, tasks, bindings, cands, batches, runPlace, mems, call, shown>>

\* _validate_candidate: the session's event, and a task of its project.
ValidCandidate(s, t, e) == (t = 0 \/ SameProject(s, t)) /\ events[e].session = s

\* schedule_candidate resolves the directory again, for the scope; the task is
\* the host's choice, of the session's project.  Nothing there any more, or
\* another project's task: no candidate.
ScheduleCandidate(t) ==
    LET s == req.session
        w == Resolve(Allowed) IN
    /\ req.do = "candidate"
    /\ req' = Idle
    /\ cands' = IF w # 0 /\ ValidCandidate(s, t, Len(events))
                THEN Append(cands, [session |-> s, task |-> t, project |-> places[w].project,
                                    event |-> Len(events), batch |-> 0])
                ELSE cands
    /\ UNCHANGED <<rowsOfPlaces, rowsOfWork, events, batches, runPlace, mems, call, shown>>

\* Slip: the workspace of a context is not compared with its project.
ValidContextSlip(context) ==
    /\ context.project \in 0..projects
    /\ context.task # 0 => tasks[context.task] = context.project

\* _context_is_valid
ValidContext(context) ==
    /\ context.project \in 0..projects
    /\ context.workspace # 0 => places[context.workspace].project = context.project
    /\ context.task # 0 => tasks[context.task] = context.project

\* scope_allows
ScopeAllows(m, context) ==
    \/ mems[m].project = 0
    \/ mems[m].project = context.project /\ mems[m].task \in {0, context.task}

\* get_current of every memory.
Readable(context) ==
    {m \in DOMAIN mems : ValidContext(context) /\ ScopeAllows(m, context)}

\* session_start makes the context of the workspace that the event was stored
\* under and of the project that the directory resolves to by now.
MakeContext ==
    /\ req.do = "context"
    /\ req' = IF Resolve(Allowed) = 0 THEN Idle
              ELSE [do |-> "show", session |-> req.session,
                    context |-> Context(places[Resolve(Allowed)].project, req.workspace)]
    /\ UNCHANGED <<rowsOfPlaces, rowsOfWork, rowsOfEvents, mems, call, shown>>

\* RecallPolicy.assemble
Show ==
    /\ req.do = "show"
    /\ shown' = shown \cup {[session |-> req.session, memory |-> m] : m \in Readable(req.context)}
    /\ req' = Idle
    /\ UNCHANGED <<rowsOfPlaces, rowsOfWork, rowsOfEvents, mems, call>>

-----------------------------------------------------------------------------
(* The scheduler.                                                          *)

\* A later event of its session asks for maintenance.
Due(i) ==
    /\ cands[i].batch = 0
    /\ \E e \in DOMAIN events : /\ e > cands[i].event /\ events[e].session = cands[i].session
                               /\ events[e].kind = "checkpoint"

Outstanding(s) == \E b \in DOMAIN batches : batches[b].session = s /\ batches[b].outstanding

\* _batch: the first candidate that is due, unless its session has a batch
\* outstanding; with it, every candidate of that session and task.
RequestBatch(i) ==
    LET s == cands[i].session
        t == cands[i].task
        b == Len(batches) + 1 IN
    /\ Due(i) /\ \A j \in DOMAIN cands : Due(j) => i <= j
    /\ ~Outstanding(s)
    /\ batches' = Append(batches,
           [session |-> s, task |-> t, outstanding |-> TRUE,
            upper |-> CHOOSE e \in DOMAIN events : /\ events[e].session = s
                          /\ \A f \in DOMAIN events : events[f].session = s => f <= e,
            anchors |-> Readable(Context(cands[i].project, runPlace))])
    /\ cands' = [j \in DOMAIN cands |->
           IF cands[j].batch = 0 /\ cands[j].session = s /\ cands[j].task = t
           THEN [cands[j] EXCEPT !.batch = b] ELSE cands[j]]
    /\ UNCHANGED <<rowsOfPlaces, rowsOfWork, events, runPlace, mems, call, req, shown>>

\* The batch is settled or blocked, its candidates with it.
Settle(b) ==
    /\ batches[b].outstanding
    /\ batches' = [batches EXCEPT ![b].outstanding = FALSE]
    /\ UNCHANGED <<rowsOfPlaces, rowsOfWork, events, cands, runPlace, mems, call, req, shown>>

\* A memory is committed; _validate_scope: its task is the project's.
Commit(scope) ==
    /\ Len(mems) < MaxMemories
    /\ scope.task # 0 => tasks[scope.task] = scope.project
    /\ mems' = Append(mems, scope)
    /\ UNCHANGED <<rowsOfPlaces, rowsOfWork, rowsOfEvents, call, req, shown>>

Next ==
    \/ \E c \in Callers :
          \/ \E p \in 0..projects, x \in Paths : FindNoPlace(c, p, x)
          \/ \E s \in Sessions, w \in Workspaces : FindNoSession(c, s, w)
          \/ \E s \in Sessions, t \in DOMAIN tasks : CheckTask(c, s, t)
          \/ InsertPlace(c) \/ InsertSession(c) \/ BindTask(c)
    \/ \E w \in Workspaces, x \in Paths : RebindLocation(w, x)
    \/ \E p \in 1..projects : CreateTask(p)
    \/ Activate
    \/ \E s \in Sessions, kind \in Kinds : Receive(s, kind)
    \/ StoreEvent \/ MakeContext \/ Show
    \/ \E t \in 0..Len(tasks) : ScheduleCandidate(t)
    \/ \E i \in DOMAIN cands : RequestBatch(i)
    \/ \E b \in DOMAIN batches : Settle(b)
    \/ \E scope \in Scopes : Commit(scope)

Spec == Init /\ [][Next]_vars

-----------------------------------------------------------------------------
\* A directory is bound once, and no project is left without a directory,
\* however many callers register it at a time (register_project,
\* bind_location, rebind_location).
PlacesAreUnique ==
    /\ \A v, w \in Workspaces : places[v].path = places[w].path => v = w
    /\ \A p \in 1..projects : \E w \in Workspaces : places[w].project = p

\* A session works on one task at a time, of its own project, and where one
\* ends the next begins, though bind_task checks outside its transaction.
BindingsFollow ==
    \A s \in Sessions : \A i \in DOMAIN bindings[s] :
        /\ SameProject(s, bindings[s][i].task)
        /\ bindings[s][i].until = IF i = Len(bindings[s]) THEN 0 ELSE bindings[s][i + 1].from

\* Every event was stored under the workspace of its session, every candidate
\* comes from a prompt of its session and has a task of the session's project,
\* and a batch holds candidates of its session and task from before its upper
\* sequence (ingest, _validate_candidate, request_batch).
WorkStaysHome ==
    /\ \A e \in DOMAIN events : home[events[e].session] = events[e].workspace
    /\ \A i \in DOMAIN cands :
           /\ events[cands[i].event].session = cands[i].session
           /\ events[cands[i].event].kind = "prompt"
           /\ cands[i].task # 0 => SameProject(cands[i].session, cands[i].task)
           /\ cands[i].batch # 0 =>
                  LET b == batches[cands[i].batch] IN
                  /\ b.session = cands[i].session /\ b.task = cands[i].task
                  /\ cands[i].event <= b.upper

\* What was looked up holds for as long as it is used: the task a caller binds
\* is of its session's project, the event that the daemon handles is the last
\* of the journal, and nothing is delivered, or shown to a session, that has no
\* place.
LookupsHold ==
    /\ projects <= Len(places)
    /\ \A c \in Callers : call[c].do = "bind" => SameProject(call[c].session, call[c].task)
    /\ runPlace = 0 => events = <<>> /\ req = Idle
    /\ req.do = "store" => Len(events) < MaxEvents
    /\ req.do \in {"candidate", "context"} =>
           /\ home[req.session] = req.workspace
           /\ events # <<>> /\ events[Len(events)].session = req.session
           /\ req.do = "candidate" => events[Len(events)].kind = "prompt"
    /\ req.do = "show" => home[req.session] = req.context.workspace
    /\ \A x \in shown : home[x.session] # 0

\* Types, the places of everything, and what these rest on.
RegistryInv == TypeOK /\ PlacesAreUnique /\ BindingsFollow /\ WorkStaysHome /\ LookupsHold

\* What a session is shown at its start is for all projects or of its own, and
\* of no task, and the anchors the model reads are for all or of the project of
\* the run's workspace, whatever is bound or moved between the three times that
\* the directory is resolved (session_start, _batch, _context_is_valid).
ShownInPlace ==
    /\ \A x \in shown : mems[x.memory].project \in {0, ProjectOf(x.session)} /\ mems[x.memory].task = 0
    /\ \A b \in DOMAIN batches : \A m \in batches[b].anchors :
           mems[m].project \in {0, places[runPlace].project} /\ mems[m].task = 0

\* No session changes its workspace, no workspace or task its project, and what
\* is bound, stored or shown stays: what a caller has checked before its
\* transaction still holds in it.
NothingMoves ==
    [][ /\ \A s \in Sessions : home[s] # 0 => home'[s] = home[s]
        /\ \A w \in Workspaces : w \in DOMAIN places' /\ places'[w].project = places[w].project
        /\ IsPrefix(tasks, tasks') /\ IsPrefix(events, events')
        /\ \A s \in Sessions : \A i \in DOMAIN bindings[s] :
               /\ i \in DOMAIN bindings'[s]
               /\ bindings[s][i].until # 0 => bindings'[s][i] = bindings[s][i] ]_vars

\* What the model reads for a session is for all or of that session's project.
\* So it is while directories are bound, or one of them moves once; not when one
\* moves away between an event and its candidate and back again (rollout.py,
\* schedule_candidate).
AnchorsOfTheSession ==
    \A b \in DOMAIN batches : \A m \in batches[b].anchors :
        mems[m].project \in {0, ProjectOf(batches[b].session)}

\* A candidate's memory will be of the project that its session worked on.  Not
\* so: the inner directory may be bound between the event and its candidate.
ScopeOfTheSession ==
    \A i \in DOMAIN cands : cands[i].project = ProjectOf(cands[i].session)
=============================================================================
