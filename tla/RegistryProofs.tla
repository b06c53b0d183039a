---------------------------- MODULE RegistryProofs ----------------------------
(***************************************************************************)
(* The registry for any number of callers, directories, sessions and rows. *)
(* RegistryInv is inductive together with ShownInPlace.  The invariant is  *)
(* taken apart by table; each part stays as it is when its own table does  *)
(* and the others only grow (Grows), so that for each action what is left  *)
(* are the parts of the tables it writes.                                  *)
(***************************************************************************)
EXTENDS Registry, FiniteSetTheorems, WellFoundedInduction, SequenceTheorems, TLAPS

IInv == RegistryInv /\ ShownInPlace

-----------------------------------------------------------------------------
(***************************************************************************)
(* The parts of the invariant.                                             *)
(***************************************************************************)
PlacesPart ==
    /\ projects \in 0..MaxPlaces /\ moves \in 0..MaxMoves
    /\ places \in Seq(Place) /\ Len(places) <= MaxPlaces /\ projects <= Len(places)
    /\ PlacesAreUnique

TasksPart == tasks \in Seq(1..projects) /\ Len(tasks) <= MaxTasks

HomePart == home \in [Sessions -> 0..Len(places)]

BindingsPart ==
    /\ bindings \in [Sessions -> Seq(Binding)]
    /\ \A s \in Sessions : Len(bindings[s]) <= MaxBindings
    /\ BindingsFollow

EventsPart ==
    /\ events \in Seq(Event) /\ Len(events) <= MaxEvents
    /\ \A e \in 1..Len(events) : home[events[e].session] = events[e].workspace

\* A candidate, and the batch it is in.
CandidateStands(c) ==
    /\ c \in Candidate
    /\ events[c.event].session = c.session
    /\ events[c.event].kind = "prompt"
    /\ c.task # 0 => SameProject(c.session, c.task)
    /\ c.batch # 0 => LET b == batches[c.batch] IN
                      b.session = c.session /\ b.task = c.task /\ c.event <= b.upper

CandsPart ==
    /\ cands \in Seq(Candidate)
    /\ \A i \in 1..Len(cands) : CandidateStands(cands[i])

AnchorsStand(b) ==
    \A m \in b.anchors : mems[m].project \in {0, places[runPlace].project} /\ mems[m].task = 0

BatchesPart ==
    /\ batches \in Seq(Batch)
    /\ \A b \in 1..Len(batches) : AnchorsStand(batches[b])

MemsPart == mems \in Seq(Scopes) /\ Len(mems) <= MaxMemories

ShownPart ==
    /\ shown \subseteq [session : Sessions, memory : 1..Len(mems)]
    /\ \A x \in shown :
           /\ home[x.session] # 0
           /\ mems[x.memory].project \in {0, ProjectOf(x.session)} /\ mems[x.memory].task = 0

RunPart == runPlace \in 0..Len(places) /\ (runPlace = 0 => events = <<>> /\ req = Idle)

CallStands(k) ==
    /\ k \in {Idle} \cup Lookup
    /\ k.do = "bind" => SameProject(k.session, k.task)

CallsPart == call \in [Callers -> {Idle} \cup Lookup] /\ \A c \in Callers : CallStands(call[c])

RequestPart ==
    /\ req \in {Idle} \cup Request
    /\ req.do = "store" => Len(events) < MaxEvents
    /\ req.do \in {"candidate", "context"} =>
           /\ home[req.session] = req.workspace
           /\ events # <<>> /\ events[Len(events)].session = req.session
           /\ req.do = "candidate" => events[Len(events)].kind = "prompt"
    /\ req.do = "show" => home[req.session] = req.context.workspace

Registered == PlacesPart /\ TasksPart /\ HomePart /\ BindingsPart
Recorded   == EventsPart /\ CandsPart /\ BatchesPart /\ RunPart
Parts      == Registered /\ Recorded /\ MemsPart /\ ShownPart /\ CallsPart /\ RequestPart

\* A sequence has a row at each position.
LEMMA RowOf ==
    ASSUME NEW S, NEW q \in Seq(S)
    PROVE  Len(q) \in Nat /\ DOMAIN q = 1..Len(q) /\ \A i \in 1..Len(q) : q[i] \in S
OBVIOUS

LEMMA InvParts == IInv <=> Parts
<1>1. ASSUME IInv PROVE Parts
  <2>1. TypeOK /\ PlacesAreUnique /\ BindingsFollow /\ WorkStaysHome /\ LookupsHold /\ ShownInPlace
    BY <1>1 DEF IInv, RegistryInv
  <2>2. PlacesPart /\ TasksPart /\ HomePart /\ BindingsPart /\ MemsPart
    BY <2>1 DEF TypeOK, PlacesPart, TasksPart, HomePart, BindingsPart, MemsPart, LookupsHold
  <2>3. RequestPart /\ RunPart /\ ShownPart
    BY <2>1 DEF TypeOK, RequestPart, RunPart, ShownPart, LookupsHold, ShownInPlace
  <2>4. EventsPart
    BY <2>1 DEF TypeOK, EventsPart, WorkStaysHome
  <2>5. CandsPart
    <3>1. cands \in Seq(Candidate)
      BY <2>1 DEF TypeOK
    <3>2. DOMAIN cands = 1..Len(cands) /\ \A i \in 1..Len(cands) : cands[i] \in Candidate
      BY <3>1, RowOf
    <3> QED
      BY <2>1, <3>1, <3>2 DEF CandsPart, CandidateStands, WorkStaysHome
  <2>6. BatchesPart
    BY <2>1 DEF TypeOK, BatchesPart, AnchorsStand, ShownInPlace
  <2>7. CallsPart
    BY <2>1 DEF TypeOK, CallsPart, CallStands, LookupsHold
  <2> QED
    BY <2>2, <2>3, <2>4, <2>5, <2>6, <2>7 DEF Parts, Registered, Recorded
<1>2. ASSUME Parts PROVE IInv
  <2>1. Registered /\ Recorded /\ MemsPart /\ ShownPart /\ CallsPart /\ RequestPart
    BY <1>2 DEF Parts
  <2>2. PlacesPart /\ TasksPart /\ HomePart /\ BindingsPart /\ EventsPart /\ CandsPart
        /\ BatchesPart /\ RunPart
    BY <2>1 DEF Registered, Recorded
  <2>3. TypeOK
    BY <2>1, <2>2 DEF TypeOK, PlacesPart, TasksPart, HomePart, BindingsPart, EventsPart,
       CandsPart, BatchesPart, MemsPart, ShownPart, RunPart, CallsPart, RequestPart
  <2>4. PlacesAreUnique /\ BindingsFollow
    BY <2>2 DEF PlacesPart, BindingsPart
  <2>5. DOMAIN events = 1..Len(events) /\ DOMAIN cands = 1..Len(cands)
        /\ DOMAIN batches = 1..Len(batches)
    BY <2>3 DEF TypeOK
  <2>6. WorkStaysHome
    BY <2>2, <2>5 DEF EventsPart, CandsPart, CandidateStands, WorkStaysHome
  <2>7. LookupsHold
    BY <2>1, <2>2 DEF PlacesPart, RunPart, CallsPart, CallStands, RequestPart, ShownPart,
       LookupsHold
  <2>8. ShownInPlace
    BY <2>1, <2>2, <2>5 DEF ShownPart, BatchesPart, AnchorsStand, ShownInPlace
  <2> QED
    BY <2>3, <2>4, <2>6, <2>7, <2>8 DEF IInv, RegistryInv
<1> QED
  BY <1>1, <1>2

-----------------------------------------------------------------------------
(***************************************************************************)
(* What no step takes back.                                                *)
(***************************************************************************)
RegisterGrows ==
    /\ projects \in Nat /\ projects' \in Nat /\ projects <= projects'
    /\ Len(places) \in Nat /\ Len(places') \in Nat /\ Len(places) <= Len(places')
    /\ \A w \in 1..Len(places) : places'[w].project = places[w].project
    /\ Len(tasks) \in Nat /\ Len(tasks') \in Nat /\ Len(tasks) <= Len(tasks')
    /\ \A t \in 1..Len(tasks) : tasks'[t] = tasks[t]
    /\ \A s \in Sessions : home[s] # 0 => home'[s] = home[s]

RecordGrows ==
    /\ Len(events) \in Nat /\ Len(events') \in Nat /\ Len(events) <= Len(events')
    /\ \A e \in 1..Len(events) : events'[e] = events[e]
    /\ Len(batches) \in Nat /\ Len(batches') \in Nat /\ Len(batches) <= Len(batches')
    /\ \A b \in 1..Len(batches) :
           /\ batches'[b].session = batches[b].session /\ batches'[b].task = batches[b].task
           /\ batches'[b].upper = batches[b].upper
    /\ Len(mems) \in Nat /\ Len(mems') \in Nat /\ Len(mems) <= Len(mems')
    /\ \A m \in 1..Len(mems) : mems'[m] = mems[m]
    /\ runPlace # 0 => runPlace' = runPlace

\* How long the tables are.
LEMMA Sizes ==
    ASSUME Parts
    PROVE  /\ projects \in Nat /\ Len(places) \in Nat /\ Len(tasks) \in Nat
           /\ Len(events) \in Nat /\ Len(cands) \in Nat /\ Len(batches) \in Nat
           /\ Len(mems) \in Nat
           /\ DOMAIN places = 1..Len(places) /\ DOMAIN tasks = 1..Len(tasks)
           /\ DOMAIN events = 1..Len(events) /\ DOMAIN cands = 1..Len(cands)
           /\ DOMAIN batches = 1..Len(batches) /\ DOMAIN mems = 1..Len(mems)
<1>1. /\ projects \in 0..MaxPlaces /\ places \in Seq(Place) /\ tasks \in Seq(1..projects)
      /\ events \in Seq(Event) /\ cands \in Seq(Candidate) /\ batches \in Seq(Batch)
      /\ mems \in Seq(Scopes)
  BY DEF Parts, Registered, Recorded, PlacesPart, TasksPart, EventsPart, CandsPart,
     BatchesPart, MemsPart
<1>2. projects \in Nat
  BY <1>1, RegistryAssumption
<1> QED
  BY <1>1, <1>2, RowOf

LEMMA RegisterStays ==
    ASSUME Parts, UNCHANGED <<projects, places, tasks, home>>
    PROVE  RegisterGrows
BY Sizes DEF RegisterGrows

LEMMA RecordStays ==
    ASSUME Parts, UNCHANGED <<events, batches, mems, runPlace>>
    PROVE  RecordGrows
BY Sizes DEF RecordGrows

LEMMA SameProjectStays ==
    ASSUME HomePart, RegisterGrows,
           NEW s \in Sessions, NEW t \in 1..Len(tasks), SameProject(s, t)
    PROVE  SameProject(s, t)'
<1>1. home[s] \in 1..Len(places) /\ home'[s] = home[s]
  BY DEF HomePart, SameProject, RegisterGrows
<1> QED
  BY <1>1 DEF SameProject, ProjectOf, RegisterGrows

\* Rows stay rows of their tables when other tables grow.
LEMMA RowsMore ==
    ASSUME NEW S, NEW T, S \subseteq T, NEW q \in Seq(S)
    PROVE  q \in Seq(T)
OBVIOUS

LEMMA TasksKept == ASSUME Parts, RegisterGrows, UNCHANGED tasks PROVE TasksPart'
<1>1. tasks \in Seq(1..projects) /\ Len(tasks) <= MaxTasks
  BY DEF Parts, Registered, TasksPart
<1>2. 1..projects \subseteq 1..projects'
  BY DEF RegisterGrows
<1> QED
  BY <1>1, <1>2, RowsMore DEF TasksPart

LEMMA HomeKept == ASSUME Parts, RegisterGrows, UNCHANGED home PROVE HomePart'
<1>1. 0..Len(places) \subseteq 0..Len(places')
  BY DEF RegisterGrows
<1> QED
  BY <1>1 DEF Parts, Registered, HomePart

LEMMA BindingsKept == ASSUME Parts, RegisterGrows, UNCHANGED bindings PROVE BindingsPart'
<1>1. BindingsPart /\ HomePart
  BY DEF Parts, Registered
<1>2. Binding \subseteq Binding'
  BY DEF Binding, RegisterGrows
<1>3. Seq(Binding) \subseteq Seq(Binding')
  BY <1>2, RowsMore
<1>4. bindings' \in [Sessions -> Seq(Binding')]
  BY <1>1, <1>3 DEF BindingsPart
<1>5. BindingsFollow'
  <2> SUFFICES ASSUME NEW s \in Sessions, NEW i \in DOMAIN bindings[s]
               PROVE  /\ SameProject(s, bindings[s][i].task)'
                      /\ bindings[s][i].until =
                           IF i = Len(bindings[s]) THEN 0 ELSE bindings[s][i + 1].from
    BY DEF BindingsFollow
  <2>1. bindings[s][i].task \in 1..Len(tasks)
    <3>1. bindings[s] \in Seq(Binding)
      BY <1>1 DEF BindingsPart
    <3>2. bindings[s][i] \in Binding
      BY <3>1, RowOf
    <3> QED
      BY <3>2 DEF Binding
  <2>2. SameProject(s, bindings[s][i].task)
    BY <1>1 DEF BindingsPart, BindingsFollow
  <2>3. \A t \in 1..Len(tasks) : SameProject(s, t) => SameProject(s, t)'
    BY <1>1, SameProjectStays
  <2>4. SameProject(s, bindings[s][i].task)'
    <3>1. PICK t \in 1..Len(tasks) : t = bindings[s][i].task
      BY <2>1
    <3>2. SameProject(s, t)'
      BY <2>2, <2>3, <3>1 DEF SameProject
    <3> QED
      BY <3>1, <3>2 DEF SameProject, ProjectOf
  <2> QED
    BY <1>1, <2>4 DEF BindingsPart, BindingsFollow
<1> QED
  BY <1>1, <1>4, <1>5 DEF BindingsPart

LEMMA EventsKept == ASSUME Parts, RegisterGrows, UNCHANGED events PROVE EventsPart'
<1>1. EventsPart /\ HomePart
  BY DEF Parts, Registered, Recorded
<1>2. DOMAIN places = 1..Len(places) /\ DOMAIN places' = 1..Len(places')
  <2>1. DOMAIN places = 1..Len(places)
    BY Sizes
  <2> QED
    BY <2>1
<1>3. Event \subseteq Event'
  BY <1>2 DEF Event, Workspaces, RegisterGrows
<1>4. events' \in Seq(Event')
  BY <1>1, <1>3, RowsMore DEF EventsPart
<1>5. \A e \in 1..Len(events) : home'[events[e].session] = events[e].workspace
  <2> SUFFICES ASSUME NEW e \in 1..Len(events)
               PROVE  home'[events[e].session] = events[e].workspace
    OBVIOUS
  <2>1. events[e] \in Event
    BY <1>1, RowOf DEF EventsPart
  <2>2. events[e].session \in Sessions /\ events[e].workspace \in 1..Len(places)
    BY <1>2, <2>1 DEF Event, Workspaces
  <2> QED
    BY <1>1, <2>2 DEF EventsPart, RegisterGrows
<1> QED
  BY <1>1, <1>4, <1>5 DEF EventsPart

\* A row of candidates stands while everything grows.
LEMMA CandidateKept ==
    ASSUME Parts, RegisterGrows, RecordGrows, NEW c, CandidateStands(c)
    PROVE  CandidateStands(c)'
<1>1. /\ c \in Candidate /\ c.session \in Sessions /\ c.task \in 0..Len(tasks)
      /\ c.event \in 1..Len(events) /\ c.batch \in 0..Len(batches)
  BY DEF CandidateStands, Candidate
<1>2. c \in Candidate'
  BY <1>1 DEF Candidate, RegisterGrows, RecordGrows
<1>3. events'[c.event] = events[c.event]
  BY <1>1 DEF RecordGrows
<1>4. c.task # 0 => SameProject(c.session, c.task)'
  <2>1. HomePart
    BY DEF Parts, Registered
  <2>2. PICK s \in Sessions, t \in 0..Len(tasks) : s = c.session /\ t = c.task
    BY <1>1
  <2>3. CASE t # 0
    <3>1. t \in 1..Len(tasks) /\ SameProject(s, t)
      BY <2>2, <2>3 DEF CandidateStands, RegisterGrows
    <3>2. SameProject(s, t)'
      BY <2>1, <3>1, SameProjectStays
    <3> QED
      BY <2>2, <3>2 DEF SameProject, ProjectOf
  <2> QED
    BY <2>2, <2>3
<1>5. c.batch # 0 => /\ batches'[c.batch].session = c.session /\ batches'[c.batch].task = c.task
                     /\ c.event <= batches'[c.batch].upper
  BY <1>1 DEF CandidateStands, RecordGrows
<1> QED
  BY <1>2, <1>3, <1>4, <1>5 DEF CandidateStands

LEMMA CandsKept ==
    ASSUME Parts, RegisterGrows, RecordGrows, UNCHANGED cands
    PROVE  CandsPart'
<1>1. CandsPart
  BY DEF Parts, Recorded
<1>2. Candidate \subseteq Candidate'
  BY DEF Candidate, RegisterGrows, RecordGrows
<1>3. cands' \in Seq(Candidate')
  BY <1>1, <1>2, RowsMore DEF CandsPart
<1>4. \A i \in 1..Len(cands) : CandidateStands(cands[i])'
  <2> SUFFICES ASSUME NEW i \in 1..Len(cands) PROVE CandidateStands(cands[i])'
    OBVIOUS
  <2>1. PICK c : c = cands[i]
    OBVIOUS
  <2>2. CandidateStands(c)
    BY <1>1, <2>1 DEF CandsPart
  <2>3. CandidateStands(c)'
    BY <2>2, CandidateKept
  <2> QED
    BY <2>1, <2>3 DEF CandidateStands, SameProject, ProjectOf
<1> QED
  BY <1>3, <1>4 DEF CandsPart

LEMMA AnchorsKept ==
    ASSUME Parts, RegisterGrows, RecordGrows, NEW b \in Batch, AnchorsStand(b), runPlace # 0
    PROVE  AnchorsStand(b)'
<1>1. runPlace \in 1..Len(places) /\ runPlace' = runPlace
  BY DEF Parts, Recorded, RunPart, RecordGrows, RegisterGrows
<1>2. b.anchors \subseteq 1..Len(mems)
  BY DEF Batch
<1> QED
  BY <1>1, <1>2 DEF AnchorsStand, RecordGrows, RegisterGrows

\* There are no batches before there is a run.
LEMMA BatchesOfRun == ASSUME Parts, Len(batches) # 0 \/ Len(cands) # 0 PROVE runPlace # 0
<1>1. Len(batches) \in Nat /\ Len(cands) \in Nat
  BY Sizes
<1>2. Len(events) # 0
  <2>1. CASE Len(batches) # 0
    <3>1. batches[1] \in Batch
      BY <1>1, <2>1 DEF Parts, Recorded, BatchesPart
    <3> QED
      BY <3>1 DEF Batch
  <2>2. CASE Len(cands) # 0
    <3>1. cands[1] \in Candidate
      BY <1>1, <2>2 DEF Parts, Recorded, CandsPart
    <3> QED
      BY <3>1 DEF Candidate
  <2> QED
    BY <2>1, <2>2
<1> QED
  BY <1>2 DEF Parts, Recorded, RunPart

LEMMA BatchesKept ==
    ASSUME Parts, RegisterGrows, RecordGrows, UNCHANGED batches
    PROVE  BatchesPart'
<1>1. BatchesPart
  BY DEF Parts, Recorded
<1>2. Batch \subseteq Batch'
  BY DEF Batch, RegisterGrows, RecordGrows
<1>3. batches' \in Seq(Batch')
  BY <1>1, <1>2, RowsMore DEF BatchesPart
<1>4. \A i \in 1..Len(batches) : AnchorsStand(batches[i])'
  <2> SUFFICES ASSUME NEW i \in 1..Len(batches) PROVE AnchorsStand(batches[i])'
    OBVIOUS
  <2>1. PICK b \in Batch : b = batches[i]
    BY <1>1, RowOf DEF BatchesPart
  <2>2. AnchorsStand(b) /\ runPlace # 0
    BY <1>1, <2>1, BatchesOfRun DEF BatchesPart
  <2>3. AnchorsStand(b)'
    BY <2>2, AnchorsKept
  <2> QED
    BY <2>1, <2>3 DEF AnchorsStand
<1> QED
  BY <1>3, <1>4 DEF BatchesPart

LEMMA MemsKept == ASSUME Parts, RegisterGrows, UNCHANGED mems PROVE MemsPart'
<1>1. Scopes \subseteq Scopes'
  BY DEF Scopes, RegisterGrows
<1> QED
  BY <1>1, RowsMore DEF Parts, MemsPart

LEMMA ShownKept ==
    ASSUME Parts, RegisterGrows, RecordGrows, UNCHANGED shown
    PROVE  ShownPart'
<1>1. ShownPart /\ HomePart
  BY DEF Parts, Registered
<1>2. ASSUME NEW x \in shown
      PROVE  /\ home'[x.session] # 0
             /\ mems'[x.memory].project \in {0, ProjectOf(x.session)'}
             /\ mems'[x.memory].task = 0
  <2>1. x.session \in Sessions /\ x.memory \in 1..Len(mems)
    BY <1>1 DEF ShownPart
  <2>2. home[x.session] \in 1..Len(places) /\ home'[x.session] = home[x.session]
    BY <1>1, <2>1 DEF ShownPart, HomePart, RegisterGrows
  <2>3. places'[home[x.session]].project = ProjectOf(x.session) /\ mems'[x.memory] = mems[x.memory]
    BY <2>1, <2>2 DEF ProjectOf, RegisterGrows, RecordGrows
  <2> QED
    BY <1>1, <2>2, <2>3 DEF ShownPart, ProjectOf
<1>3. shown \subseteq [session : Sessions, memory : 1..Len(mems')]
  BY <1>1 DEF ShownPart, RecordGrows
<1> QED
  BY <1>2, <1>3 DEF ShownPart

LEMMA RunKept ==
    ASSUME Parts, RegisterGrows, UNCHANGED <<runPlace, events, req>>
    PROVE  RunPart'
BY DEF Parts, Recorded, RunPart, RegisterGrows

LEMMA CallKept ==
    ASSUME Parts, RegisterGrows, RecordGrows, NEW k, CallStands(k)
    PROVE  CallStands(k)'
<1>1. DOMAIN places = 1..Len(places) /\ DOMAIN places' = 1..Len(places')
  BY Sizes
<1>2. CASE k = Idle
  BY <1>2 DEF CallStands, Idle
<1>3. CASE k \in Lookup
  <2>1. Lookup \subseteq Lookup'
    BY <1>1 DEF Lookup, Workspaces, RegisterGrows, RecordGrows
  <2>2. k.do = "bind" => k.session \in Sessions /\ k.task \in 1..Len(tasks)
    BY <1>3 DEF Lookup
  <2>3. k.do = "bind" => SameProject(k.session, k.task)'
    <3>1. CASE k.do = "bind"
      <4>1. PICK s \in Sessions, t \in 1..Len(tasks) : s = k.session /\ t = k.task
        BY <2>2, <3>1
      <4>2. SameProject(s, t)
        BY <3>1, <4>1 DEF CallStands
      <4>3. SameProject(s, t)'
        BY <4>2, SameProjectStays DEF Parts, Registered
      <4> QED
        BY <4>1, <4>3 DEF SameProject, ProjectOf
    <3> QED
      BY <3>1
  <2> QED
    BY <1>3, <2>1, <2>3 DEF CallStands
<1> QED
  BY <1>2, <1>3 DEF CallStands

LEMMA OtherCallsStand ==
    ASSUME Parts, RegisterGrows, RecordGrows, NEW c \in Callers, call'[c] = call[c]
    PROVE  CallStands(call[c])'
<1>1. PICK k : k = call[c]
  OBVIOUS
<1>2. CallStands(k)
  BY <1>1 DEF Parts, CallsPart
<1>3. CallStands(k)'
  BY <1>2, CallKept
<1> QED
  BY <1>1, <1>3 DEF CallStands, SameProject, ProjectOf

LEMMA CallsKept ==
    ASSUME Parts, RegisterGrows, RecordGrows, UNCHANGED call
    PROVE  CallsPart'
<1>1. \A c \in Callers : CallStands(call[c])'
  BY OtherCallsStand
<1>2. DOMAIN call = Callers /\ call = [c \in Callers |-> call[c]]
  BY DEF Parts, CallsPart
<1>3. \A c \in Callers : call'[c] \in ({Idle} \cup Lookup)'
  BY <1>1 DEF CallStands
<1> QED
  BY <1>1, <1>2, <1>3 DEF CallsPart

\* One caller has looked something up, or is done.
LEMMA CallsMove ==
    ASSUME Parts, RegisterGrows, RecordGrows, NEW c \in Callers, NEW k, CallStands(k)',
           call' = [call EXCEPT ![c] = k]
    PROVE  CallsPart'
<1>1. /\ DOMAIN call' = Callers /\ call' = [w \in Callers |-> call'[w]]
      /\ \A w \in Callers : call'[w] = IF w = c THEN k ELSE call[w]
  BY DEF Parts, CallsPart
<1>2. ASSUME NEW w \in Callers
      PROVE  CallStands(call[w])' 
  <2>1. CASE w = c
    BY <1>1, <2>1 DEF CallStands, SameProject, ProjectOf
  <2>2. CASE w # c
    BY <1>1, <2>2, OtherCallsStand
  <2> QED
    BY <2>1, <2>2
<1>3. \A w \in Callers : call'[w] \in ({Idle} \cup Lookup)'
  BY <1>2 DEF CallStands
<1> QED
  BY <1>1, <1>2, <1>3 DEF CallsPart

LEMMA RequestKept ==
    ASSUME Parts, RegisterGrows, UNCHANGED <<events, req>>
    PROVE  RequestPart'
<1>1. RequestPart /\ HomePart
  BY DEF Parts, Registered
<1>2. DOMAIN places = 1..Len(places) /\ DOMAIN places' = 1..Len(places')
  BY Sizes
<1>3. CASE req = Idle
  BY <1>3 DEF RequestPart, Idle
<1>4. CASE req \in Request
  <2>1. Request \subseteq Request'
    BY <1>2 DEF Request, Workspaces, RegisterGrows
  <2>2. /\ req.session \in Sessions
        /\ req.do \in {"store", "candidate", "context"} => req.workspace \in 1..Len(places)
        /\ req.do = "show" => req.context.workspace \in 1..Len(places)
    BY <1>2, <1>4 DEF Request, Workspaces
  <2>3. req.do \in {"candidate", "context"} => home'[req.session] = req.workspace
    BY <1>1, <2>2 DEF RequestPart, RegisterGrows
  <2>4. req.do = "show" => home'[req.session] = req.context.workspace
    BY <1>1, <2>2 DEF RequestPart, RegisterGrows
  <2> QED
    BY <1>1, <1>4, <2>1, <2>3, <2>4 DEF RequestPart
<1> QED
  BY <1>1, <1>3, <1>4 DEF RequestPart

LEMMA PlacesKept == ASSUME Parts, UNCHANGED <<projects, places, moves>> PROVE PlacesPart'
BY DEF Parts, Registered, PlacesPart, Place, PlacesAreUnique, Workspaces

\* Steps that leave the register alone, and steps that leave the rest alone.
LEMMA RegisteredKept ==
    ASSUME Parts, UNCHANGED <<rowsOfPlaces, rowsOfWork>>
    PROVE  Registered' /\ RegisterGrows
<1>1. UNCHANGED <<projects, places, moves>> /\ UNCHANGED <<tasks, home, bindings>>
  BY DEF rowsOfPlaces, rowsOfWork
<1>2. RegisterGrows
  BY <1>1, RegisterStays
<1>3. PlacesPart' /\ TasksPart' /\ HomePart' /\ BindingsPart'
  BY <1>1, <1>2, PlacesKept, TasksKept, HomeKept, BindingsKept
<1> QED
  BY <1>2, <1>3 DEF Registered

LEMMA RecordedKept ==
    ASSUME Parts, RegisterGrows, UNCHANGED <<rowsOfEvents, mems, req, shown>>
    PROVE  Recorded' /\ MemsPart' /\ ShownPart' /\ RequestPart' /\ RecordGrows
<1>1. UNCHANGED <<events, cands, batches, runPlace>>
  BY DEF rowsOfEvents
<1>2. RecordGrows
  BY <1>1, RecordStays
<1>3. EventsPart' /\ CandsPart' /\ BatchesPart' /\ RunPart'
  BY <1>1, <1>2, EventsKept, CandsKept, BatchesKept, RunKept
<1>4. MemsPart' /\ ShownPart' /\ RequestPart'
  BY <1>1, <1>2, MemsKept, ShownKept, RequestKept
<1> QED
  BY <1>2, <1>3, <1>4 DEF Recorded

\* A caller looks something up, or is done; nothing is written.
LEMMA OnlyCallsMove ==
    ASSUME Parts, NEW c \in Callers, NEW k, CallStands(k), call' = [call EXCEPT ![c] = k],
           UNCHANGED <<rowsOfPlaces, rowsOfWork, rowsOfEvents, mems, req, shown>>
    PROVE  Parts'
<1>1. Registered' /\ RegisterGrows
  BY RegisteredKept
<1>2. Recorded' /\ MemsPart' /\ ShownPart' /\ RequestPart' /\ RecordGrows
  BY <1>1, RecordedKept
<1>3. CallStands(k)'
  BY <1>1, <1>2, CallKept
<1>4. CallsPart'
  BY <1>1, <1>2, <1>3, CallsMove
<1> QED
  BY <1>1, <1>2, <1>4 DEF Parts

LEMMA IdleStands == CallStands(Idle)
BY DEF CallStands, Idle

-----------------------------------------------------------------------------
(***************************************************************************)
(* The register.                                                           *)
(***************************************************************************)
\* Of the directories that contain a directory one contains no other.
LEMMA ResolveFinds ==
    ASSUME Parts, NEW x \in Paths
    PROVE  /\ Resolve(x) \in 0..Len(places)
           /\ Resolve(x) # 0 => Covers(Resolve(x), x)
<1> DEFINE M == {w \in Workspaces : Covers(w, x)}
           path(w) == places[w].path
           Inner(w) == {v \in M : <<path(v), path(w)>> \in Below}
           I == {Inner(w) : w \in M}
           R == StrictSubsetOrdering(M)
<1>1. Workspaces = 1..Len(places) /\ Len(places) \in Nat
  BY Sizes DEF Workspaces
<1>2. \A w \in M : path(w) \in Paths
  <2>1. places \in Seq(Place)
    BY DEF Parts, Registered, PlacesPart
  <2>2. \A w \in 1..Len(places) : places[w] \in Place
    BY <2>1, RowOf
  <2> QED
    BY <1>1, <2>2 DEF Place
<1>3. CASE M = {}
  BY <1>1, <1>3 DEF Resolve
<1>4. CASE M # {}
  <2>1. IsFiniteSet(M)
    <3>1. IsFiniteSet(1..Len(places))
      BY <1>1, FS_Interval
    <3>2. M \subseteq 1..Len(places)
      BY <1>1
    <3> HIDE DEF M
    <3> QED
      BY <3>1, <3>2, FS_Subset
  <2>2. I \subseteq FiniteSubsetsOf(M)
    <3> SUFFICES ASSUME NEW w \in M PROVE Inner(w) \in FiniteSubsetsOf(M)
      OBVIOUS
    <3>1. Inner(w) \subseteq M
      OBVIOUS
    <3> HIDE DEF M, Inner
    <3>2. IsFiniteSet(Inner(w))
      BY <2>1, <3>1, FS_Subset
    <3> QED
      BY <3>1, <3>2 DEF FiniteSubsetsOf
  <2>3. PICK i \in I : \A j \in I : ~ (<<j, i>> \in R)
    <3>1. IsWellFoundedOn(R, FiniteSubsetsOf(M))
      BY FS_StrictSubsetOrderingWellFounded
    <3>2. I # {}
      BY <1>4
    <3> HIDE DEF I, R, M
    <3> QED
      BY <2>2, <3>1, <3>2, WFMin
  <2>4. PICK w \in M : i = Inner(w)
    BY <2>3
  <2>5. ASSUME NEW v \in M, ~Covers(v, path(w))
        PROVE  FALSE
    <3>1. path(v) # path(w) /\ <<path(w), path(v)>> \notin Below
      BY <2>5 DEF Covers
    <3>2. /\ path(v) = x \/ <<x, path(v)>> \in Below
          /\ path(w) = x \/ <<x, path(w)>> \in Below
      BY DEF Covers
    <3>3. path(v) \in Paths /\ path(w) \in Paths
      BY <1>2
    <3>4. <<path(v), path(w)>> \in Below
      <4>1. CASE path(w) = x
        BY <3>1, <3>2, <4>1
      <4>2. CASE path(v) = x
        BY <3>1, <3>2, <4>2
      <4>3. CASE <<x, path(v)>> \in Below /\ <<x, path(w)>> \in Below
        BY <3>1, <3>3, <4>3, RegistryAssumption
      <4> QED
        BY <3>2, <4>1, <4>2, <4>3
    <3>5. Inner(v) \subseteq Inner(w)
      BY <1>2, <3>3, <3>4, RegistryAssumption
    <3>6. v \in Inner(w)
      BY <3>4
    <3>7. v \notin Inner(v)
      BY <3>3, RegistryAssumption
    <3>8. Inner(v) \in I /\ Inner(v) \in SUBSET M /\ Inner(w) \in SUBSET M
      OBVIOUS
    <3> HIDE DEF Inner, I
    <3>9. <<Inner(v), Inner(w)>> \in R
      BY <3>5, <3>6, <3>7, <3>8 DEF StrictSubsetOrdering
    <3> QED
      BY <2>3, <2>4, <3>8, <3>9
  <2>6. \E u \in M : \A v \in M : Covers(v, places[u].path)
    BY <2>5
  <2>7. Resolve(x) = CHOOSE u \in M : \A v \in M : Covers(v, places[u].path)
    BY <1>4 DEF Resolve
  <2>8. Resolve(x) \in M
    <3> HIDE DEF M
    <3> QED
      BY <2>6, <2>7
  <2> QED
    BY <1>1, <2>8
<1> QED
  BY <1>3, <1>4

LEMMA FindsKeep ==
    ASSUME Parts, NEW c \in Callers, NEW k, CallStands(k), Begins(c, k)
    PROVE  Parts'
BY OnlyCallsMove DEF Begins

LEMMA FindNoPlaceKeeps ==
    ASSUME Parts, NEW c \in Callers, NEW p \in 0..projects, NEW x \in Paths,
           FindNoPlace(c, p, x)
    PROVE  Parts'
<1> DEFINE k == [do |-> "place", project |-> p, path |-> x]
<1>1. k \in Lookup /\ k.do = "place"
  BY DEF Lookup
<1>2. Begins(c, k)
  BY DEF FindNoPlace
<1> HIDE DEF k
<1>3. CallStands(k)
  BY <1>1 DEF CallStands
<1> QED
  BY <1>2, <1>3, FindsKeep

LEMMA FindNoSessionKeeps ==
    ASSUME Parts, NEW c \in Callers, NEW s \in Sessions, NEW w \in Workspaces,
           FindNoSession(c, s, w)
    PROVE  Parts'
<1> DEFINE k == [do |-> "open", session |-> s, workspace |-> w]
<1>1. k \in Lookup /\ k.do = "open"
  BY DEF Lookup
<1>2. Begins(c, k)
  BY DEF FindNoSession
<1> HIDE DEF k
<1>3. CallStands(k)
  BY <1>1 DEF CallStands
<1> QED
  BY <1>2, <1>3, FindsKeep

LEMMA CheckTaskKeeps ==
    ASSUME Parts, NEW c \in Callers, NEW s \in Sessions, NEW t \in DOMAIN tasks,
           CheckTask(c, s, t)
    PROVE  Parts'
<1> DEFINE k == [do |-> "bind", session |-> s, task |-> t, from |-> Len(events)]
<1>1. SameProject(s, t) /\ events # <<>> /\ Begins(c, k)
  BY DEF CheckTask
<1>2. t \in 1..Len(tasks)
  BY Sizes
<1>3. Len(events) \in 1..Len(events)
  <2>1. events \in Seq(Event)
    BY DEF Parts, Recorded, EventsPart
  <2> QED
    BY <1>1, <2>1
<1>4. k \in Lookup /\ k.do = "bind" /\ k.session = s /\ k.task = t
  BY <1>2, <1>3 DEF Lookup
<1> HIDE DEF k
<1>5. CallStands(k)
  BY <1>1, <1>4 DEF CallStands
<1> QED
  BY <1>1, <1>5, FindsKeep

\* The registration or the binding; two callers cannot bind one directory.
LEMMA InsertPlaceKeeps == ASSUME Parts, NEW c \in Callers, InsertPlace(c) PROVE Parts'
<1> DEFINE k == call[c]
           p == IF k.project = 0 THEN projects + 1 ELSE k.project
           row == [project |-> p, path |-> k.path]
<1>1. /\ k.do = "place" /\ Len(places) < MaxPlaces
      /\ call' = [call EXCEPT ![c] = Idle]
      /\ UNCHANGED <<moves, rowsOfWork, rowsOfEvents, mems, req, shown>>
  BY DEF InsertPlace
<1>2. k \in Lookup /\ k.project \in 0..projects /\ k.path \in Paths
  <2>1. k \in {Idle} \cup Lookup
    BY DEF Parts, CallsPart
  <2>2. k \in Lookup
    BY <1>1, <2>1 DEF Idle
  <2> QED
    BY <1>1, <2>2 DEF Lookup
<1>3. CASE Taken(k.path)
  <2>1. UNCHANGED <<rowsOfPlaces, rowsOfWork, rowsOfEvents, mems, req, shown>>
    BY <1>1, <1>3 DEF InsertPlace, rowsOfPlaces
  <2> QED
    BY <1>1, <2>1, IdleStands, OnlyCallsMove
<1>4. CASE ~Taken(k.path)
  <2>1. /\ projects' = IF k.project = 0 THEN projects + 1 ELSE projects
        /\ places' = Append(places, row)
    BY <1>4 DEF InsertPlace
  <2>2. PlacesPart /\ projects \in Nat /\ Len(places) \in Nat /\ places \in Seq(Place)
    BY Sizes DEF Parts, Registered, PlacesPart
  <2>3. /\ projects' \in Nat /\ projects <= projects' /\ projects' <= projects + 1
        /\ p \in 1..projects'
    BY <1>2, <2>1, <2>2
  <2>4. row \in Place' /\ row.project = p /\ row.path = k.path
    BY <1>2, <2>3 DEF Place
  <2>5. Place \subseteq Place'
    BY <2>2, <2>3 DEF Place
  <2> HIDE DEF row, p
  <2>6. /\ Len(places') = Len(places) + 1
        /\ \A w \in 1..Len(places) : places'[w] = places[w]
        /\ places'[Len(places) + 1] = row
    BY <2>1, <2>2
  <2>7. places' \in Seq(Place')
    <3>1. places \in Seq(Place')
      BY <2>2, <2>5, RowsMore
    <3> QED
      BY <2>1, <2>4, <3>1
  <2>8. DOMAIN places = 1..Len(places) /\ DOMAIN places' = 1..(Len(places) + 1)
    BY <2>2, <2>6, <2>7
  <2>9. ASSUME NEW v \in Workspaces', NEW w \in Workspaces', places'[v].path = places'[w].path
        PROVE  v = w
    <3>1. \A u \in 1..Len(places) : places[u].path # k.path
      BY <1>4, <2>8 DEF Taken, Workspaces
    <3> QED
      BY <2>2, <2>4, <2>6, <2>8, <2>9, <3>1 DEF Workspaces, PlacesPart, PlacesAreUnique
  <2>10. ASSUME NEW q \in 1..projects'
         PROVE  \E w \in Workspaces' : places'[w].project = q
    <3>1. CASE q \in 1..projects
      <4>1. PICK w \in 1..Len(places) : places[w].project = q
        BY <2>2, <2>8, <3>1 DEF PlacesPart, PlacesAreUnique, Workspaces
      <4> QED
        BY <2>2, <2>6, <2>8, <4>1 DEF Workspaces
    <3>2. CASE q \notin 1..projects
      <4>1. k.project = 0 /\ q = projects + 1
        BY <2>1, <2>2, <3>2
      <4>2. q = p
        BY <4>1 DEF p
      <4>3. Len(places) + 1 \in Workspaces'
        BY <2>2, <2>8 DEF Workspaces
      <4> QED
        BY <2>4, <2>6, <4>2, <4>3
    <3> QED
      BY <3>1, <3>2
  <2>11. PlacesAreUnique'
    BY <2>9, <2>10 DEF PlacesAreUnique
  <2>12. projects' <= Len(places') /\ Len(places') <= MaxPlaces /\ projects' \in 0..MaxPlaces
    BY <1>1, <2>2, <2>3, <2>6, RegistryAssumption DEF PlacesPart
  <2>13. PlacesPart'
    BY <1>1, <2>2, <2>7, <2>11, <2>12 DEF PlacesPart
  <2>14. UNCHANGED <<tasks, home, bindings>>
    BY <1>1 DEF rowsOfWork
  <2>15. RegisterGrows
    BY <2>2, <2>3, <2>6, <2>14, Sizes DEF RegisterGrows
  <2>16. TasksPart' /\ HomePart' /\ BindingsPart'
    BY <2>14, <2>15, TasksKept, HomeKept, BindingsKept
  <2>17. Recorded' /\ MemsPart' /\ ShownPart' /\ RequestPart' /\ RecordGrows
    BY <1>1, <2>15, RecordedKept
  <2>18. CallStands(Idle)'
    BY <2>15, <2>17, IdleStands, CallKept
  <2>19. CallsPart'
    BY <1>1, <2>15, <2>17, <2>18, CallsMove
  <2> QED
    BY <2>13, <2>16, <2>17, <2>19 DEF Parts, Registered
<1> QED
  BY <1>3, <1>4

LEMMA RebindLocationKeeps ==
    ASSUME Parts, NEW w \in Workspaces, NEW x \in Paths, RebindLocation(w, x)
    PROVE  Parts'
<1> DEFINE row == [places[w] EXCEPT !.path = x]
<1>1. /\ moves < MaxMoves /\ ~Taken(x) /\ moves' = moves + 1
      /\ places' = [places EXCEPT ![w] = row]
      /\ UNCHANGED <<projects, rowsOfWork, rowsOfEvents, mems, call, req, shown>>
  BY DEF RebindLocation
<1>2. /\ PlacesPart /\ projects \in Nat /\ Len(places) \in Nat /\ places \in Seq(Place)
      /\ DOMAIN places = 1..Len(places)
  BY Sizes DEF Parts, Registered, PlacesPart
<1>3. w \in 1..Len(places) /\ places[w] \in Place
  BY <1>2, RowOf DEF Workspaces
<1>4. row \in Place /\ row.path = x /\ row.project = places[w].project
  BY <1>3 DEF Place
<1> HIDE DEF row
<1>5. /\ places' \in Seq(Place) /\ Len(places') = Len(places)
      /\ \A v \in 1..Len(places) : places'[v] = IF v = w THEN row ELSE places[v]
  BY <1>1, <1>2, <1>3, <1>4, ExceptSeq
<1>6. DOMAIN places' = 1..Len(places) /\ Place' = Place
  BY <1>1, <1>5 DEF Place
<1>7. PlacesAreUnique'
  <2>1. ASSUME NEW u \in Workspaces', NEW v \in Workspaces', places'[u].path = places'[v].path
        PROVE  u = v
    <3>1. \A z \in 1..Len(places) : places[z].path # x
      BY <1>1, <1>2 DEF Taken, Workspaces
    <3> QED
      BY <1>2, <1>4, <1>5, <1>6, <2>1, <3>1 DEF Workspaces, PlacesPart, PlacesAreUnique
  <2>2. ASSUME NEW q \in 1..projects'
        PROVE  \E v \in Workspaces' : places'[v].project = q
    <3>1. PICK v \in 1..Len(places) : places[v].project = q
      BY <1>1, <1>2 DEF PlacesPart, PlacesAreUnique, Workspaces
    <3> QED
      BY <1>4, <1>5, <1>6, <3>1 DEF Workspaces
  <2> QED
    BY <2>1, <2>2 DEF PlacesAreUnique
<1>8. PlacesPart'
  <2>1. moves' \in 0..MaxMoves
    BY <1>1, <1>2, RegistryAssumption DEF PlacesPart
  <2> QED
    BY <1>1, <1>2, <1>5, <1>6, <1>7, <2>1 DEF PlacesPart
<1>9. UNCHANGED <<tasks, home, bindings>>
  BY <1>1 DEF rowsOfWork
<1>10. RegisterGrows
  BY <1>1, <1>2, <1>4, <1>5, <1>9, Sizes DEF RegisterGrows
<1>11. TasksPart' /\ HomePart' /\ BindingsPart'
  BY <1>9, <1>10, TasksKept, HomeKept, BindingsKept
<1>12. Recorded' /\ MemsPart' /\ ShownPart' /\ RequestPart' /\ RecordGrows
  BY <1>1, <1>10, RecordedKept
<1>13. CallsPart'
  BY <1>1, <1>10, <1>12, CallsKept
<1> QED
  BY <1>8, <1>11, <1>12, <1>13 DEF Parts, Registered

LEMMA CreateTaskKeeps == ASSUME Parts, NEW p \in 1..projects, CreateTask(p) PROVE Parts'
<1>1. /\ Len(tasks) < MaxTasks /\ tasks' = Append(tasks, p)
      /\ UNCHANGED <<rowsOfPlaces, home, bindings, rowsOfEvents, mems, call, req, shown>>
  BY DEF CreateTask
<1>2. UNCHANGED <<projects, places, moves>>
  BY <1>1 DEF rowsOfPlaces
<1>3. tasks \in Seq(1..projects) /\ Len(tasks) \in Nat
  BY Sizes DEF Parts, Registered, TasksPart
<1>4. /\ tasks' \in Seq(1..projects) /\ Len(tasks') = Len(tasks) + 1
      /\ \A t \in 1..Len(tasks) : tasks'[t] = tasks[t]
  BY <1>1, <1>3
<1>5. TasksPart'
  BY <1>1, <1>2, <1>3, <1>4, RegistryAssumption DEF TasksPart
<1>6. RegisterGrows
  BY <1>1, <1>2, <1>3, <1>4, Sizes DEF RegisterGrows
<1>7. PlacesPart' /\ HomePart' /\ BindingsPart'
  BY <1>1, <1>2, <1>6, PlacesKept, HomeKept, BindingsKept
<1>8. Recorded' /\ MemsPart' /\ ShownPart' /\ RequestPart' /\ RecordGrows
  BY <1>1, <1>6, RecordedKept
<1>9. CallsPart'
  BY <1>1, <1>6, <1>8, CallsKept
<1> QED
  BY <1>5, <1>7, <1>8, <1>9 DEF Parts, Registered

\* A session gets a workspace where it had none.
LEMMA HomeGrows ==
    ASSUME Parts, NEW s \in Sessions, NEW w \in Workspaces,
           home' = IF home[s] = 0 THEN [home EXCEPT ![s] = w] ELSE home,
           UNCHANGED <<projects, places, moves, tasks, bindings>>
    PROVE  Registered' /\ RegisterGrows
<1>1. HomePart /\ w \in 1..Len(places)
  BY Sizes DEF Parts, Registered, Workspaces
<1>2. /\ home' \in [Sessions -> 0..Len(places)]
      /\ \A z \in Sessions : home[z] # 0 => home'[z] = home[z]
  <2>1. CASE home[s] = 0
    BY <1>1, <2>1, Sizes DEF HomePart
  <2>2. CASE home[s] # 0
    BY <1>1, <2>2 DEF HomePart
  <2> QED
    BY <2>1, <2>2
<1>3. RegisterGrows
  BY <1>2, Sizes DEF RegisterGrows
<1>4. PlacesPart' /\ TasksPart' /\ BindingsPart'
  BY <1>3, PlacesKept, TasksKept, BindingsKept
<1>5. HomePart'
  BY <1>2 DEF HomePart
<1> QED
  BY <1>3, <1>4, <1>5 DEF Registered

LEMMA InsertSessionKeeps == ASSUME Parts, NEW c \in Callers, InsertSession(c) PROVE Parts'
<1>1. /\ call[c].do = "open" /\ call' = [call EXCEPT ![c] = Idle]
      /\ UNCHANGED <<rowsOfPlaces, tasks, bindings, rowsOfEvents, mems, req, shown>>
  BY DEF InsertSession
<1>2. call[c] \in Lookup
  <2>1. call[c] \in {Idle} \cup Lookup
    BY DEF Parts, CallsPart
  <2> QED
    BY <1>1, <2>1 DEF Idle
<1>3. PICK s \in Sessions, w \in Workspaces : s = call[c].session /\ w = call[c].workspace
  BY <1>1, <1>2 DEF Lookup
<1>4. home' = IF home[s] = 0 THEN [home EXCEPT ![s] = w] ELSE home
  BY <1>3 DEF InsertSession
<1>5. UNCHANGED <<projects, places, moves, tasks, bindings>>
  BY <1>1 DEF rowsOfPlaces
<1>6. Registered' /\ RegisterGrows
  BY <1>4, <1>5, HomeGrows
<1>7. Recorded' /\ MemsPart' /\ ShownPart' /\ RequestPart' /\ RecordGrows
  BY <1>1, <1>6, RecordedKept
<1>8. CallStands(Idle)'
  BY <1>6, <1>7, IdleStands, CallKept
<1>9. CallsPart'
  BY <1>1, <1>6, <1>7, <1>8, CallsMove
<1> QED
  BY <1>6, <1>7, <1>9 DEF Parts

\* A binding ends where the next begins.
LEMMA BindTaskKeeps == ASSUME Parts, NEW c \in Callers, BindTask(c) PROVE Parts'
<1>1. /\ call[c].do = "bind" /\ call' = [call EXCEPT ![c] = Idle]
      /\ UNCHANGED <<rowsOfPlaces, tasks, home, rowsOfEvents, mems, req, shown>>
  BY DEF BindTask
<1>2. CallStands(call[c]) /\ call[c] \in Lookup
  <2>1. CallStands(call[c]) /\ call[c] \in {Idle} \cup Lookup
    BY DEF Parts, CallsPart
  <2> QED
    BY <1>1, <2>1 DEF Idle
<1>3. PICK s \in Sessions, t \in 1..Len(tasks), f \in 1..Len(events) :
        s = call[c].session /\ t = call[c].task /\ f = call[c].from
  BY <1>1, <1>2 DEF Lookup
<1>4. SameProject(s, t)
  BY <1>1, <1>2, <1>3 DEF CallStands
<1> DEFINE old == bindings[s]
           ended == [i \in DOMAIN old |-> Closed(old[i], f)]
           b == [task |-> t, from |-> f, until |-> 0]
<1>5. Len(old) < MaxBindings /\ bindings' = [bindings EXCEPT ![s] = Append(ended, b)]
  BY <1>3 DEF BindTask
<1>6. BindingsPart /\ old \in Seq(Binding)
  BY DEF Parts, Registered, BindingsPart
<1>7. f \in 1..MaxEvents
  BY Sizes, RegistryAssumption DEF Parts, Recorded, EventsPart
<1>8. b \in Binding /\ b.task = t /\ b.from = f /\ b.until = 0
  BY <1>7, RegistryAssumption DEF Binding
<1>9. /\ Len(old) \in Nat /\ DOMAIN old = 1..Len(old)
      /\ \A i \in 1..Len(old) : old[i] \in Binding
  BY <1>6, RowOf
<1>10. \A i \in 1..Len(old) :
         /\ Closed(old[i], f) \in Binding
         /\ Closed(old[i], f).task = old[i].task /\ Closed(old[i], f).from = old[i].from
         /\ Closed(old[i], f).until = IF old[i].until = 0 THEN f ELSE old[i].until
  BY <1>7, <1>9 DEF Closed, Binding
<1>11. /\ ended \in Seq(Binding) /\ Len(ended) = Len(old)
       /\ \A i \in 1..Len(old) : ended[i] = Closed(old[i], f)
  BY <1>9, <1>10, IsASeq
<1> HIDE DEF b, ended
<1> DEFINE new == Append(ended, b)
<1>12. /\ new \in Seq(Binding) /\ Len(new) = Len(old) + 1
       /\ \A i \in 1..Len(old) : new[i] = Closed(old[i], f)
       /\ new[Len(old) + 1] = b
  BY <1>8, <1>9, <1>11
<1> HIDE DEF new
<1>13. bindings' = [bindings EXCEPT ![s] = new]
  BY <1>5 DEF new
<1>14. /\ bindings' \in [Sessions -> Seq(Binding)]
       /\ \A z \in Sessions : bindings'[z] = IF z = s THEN new ELSE bindings[z]
  BY <1>6, <1>12, <1>13 DEF BindingsPart
<1>15. UNCHANGED <<projects, places, moves>>
  BY <1>1 DEF rowsOfPlaces
<1>16. Binding' = Binding /\ \A z \in Sessions : \A u : SameProject(z, u)' = SameProject(z, u)
  BY <1>1, <1>15 DEF Binding, SameProject, ProjectOf
<1>17. ASSUME NEW i \in 1..(Len(old) + 1)
       PROVE  /\ SameProject(s, new[i].task)
              /\ new[i].until = IF i = Len(new) THEN 0 ELSE new[i + 1].from
  <2>1. CASE i = Len(old) + 1
    BY <1>4, <1>8, <1>9, <1>12, <2>1
  <2>2. CASE i = Len(old)
    <3>1. i \in 1..Len(old) /\ i # Len(new) /\ new[i + 1].from = f
      BY <1>8, <1>9, <1>12, <2>2
    <3>2. SameProject(s, old[i].task) /\ old[i].until = 0
      BY <1>6, <1>9, <2>2, <3>1 DEF BindingsPart, BindingsFollow
    <3> QED
      BY <1>10, <1>12, <3>1, <3>2
  <2>3. CASE i < Len(old)
    <3>1. i \in 1..Len(old) /\ i + 1 \in 1..Len(old) /\ i # Len(new) /\ i # Len(old)
      BY <1>9, <1>12, <2>3
    <3>2. SameProject(s, old[i].task) /\ old[i].until = old[i + 1].from
      BY <1>6, <1>9, <3>1 DEF BindingsPart, BindingsFollow
    <3>3. old[i].until # 0
      BY <1>9, <3>1, <3>2 DEF Binding
    <3> QED
      BY <1>10, <1>12, <3>1, <3>2, <3>3
  <2> QED
    BY <1>9, <2>1, <2>2, <2>3
<1>18. BindingsFollow'
  <2> SUFFICES ASSUME NEW z \in Sessions, NEW i \in DOMAIN bindings'[z]
               PROVE  /\ SameProject(z, bindings'[z][i].task)
                      /\ bindings'[z][i].until =
                           IF i = Len(bindings'[z]) THEN 0 ELSE bindings'[z][i + 1].from
    BY <1>1, <1>15 DEF BindingsFollow, SameProject, ProjectOf
  <2>1. CASE z = s
    <3>1. DOMAIN new = 1..(Len(old) + 1)
      BY <1>12
    <3> QED
      BY <1>14, <1>17, <2>1, <3>1
  <2>2. CASE z # s
    BY <1>6, <1>14, <2>2 DEF BindingsPart, BindingsFollow
  <2> QED
    BY <2>1, <2>2
<1>19. \A z \in Sessions : Len(bindings'[z]) <= MaxBindings
  <2>1. MaxBindings \in Nat
    BY RegistryAssumption
  <2>2. Len(new) <= MaxBindings
    BY <1>5, <1>9, <1>12, <2>1
  <2> QED
    BY <1>6, <1>14, <2>2 DEF BindingsPart
<1>20. BindingsPart'
  BY <1>14, <1>16, <1>18, <1>19 DEF BindingsPart
<1>21. RegisterGrows
  BY <1>1, <1>15, RegisterStays
<1>22. PlacesPart' /\ TasksPart' /\ HomePart'
  BY <1>1, <1>15, <1>21, PlacesKept, TasksKept, HomeKept
<1>23. Recorded' /\ MemsPart' /\ ShownPart' /\ RequestPart' /\ RecordGrows
  BY <1>1, <1>21, RecordedKept
<1>24. CallStands(Idle)'
  BY <1>21, <1>23, IdleStands, CallKept
<1>25. CallsPart'
  BY <1>1, <1>21, <1>23, <1>24, CallsMove
<1> QED
  BY <1>20, <1>22, <1>23, <1>25 DEF Parts, Registered

-----------------------------------------------------------------------------
(***************************************************************************)
(* Events, candidates and batches.                                         *)
(***************************************************************************)
\* The register and the callers are left alone, and the rest only grows.
LEMMA RegisterUntouched ==
    ASSUME Parts, UNCHANGED <<rowsOfPlaces, rowsOfWork, call>>, RecordGrows
    PROVE  Registered' /\ RegisterGrows /\ CallsPart'
<1>1. Registered' /\ RegisterGrows
  BY RegisteredKept DEF rowsOfPlaces, rowsOfWork
<1> QED
  BY <1>1, CallsKept

LEMMA ActivateKeeps == ASSUME Parts, Activate PROVE Parts'
<1>1. /\ runPlace = 0 /\ runPlace' = Resolve(Allowed)
      /\ UNCHANGED <<rowsOfPlaces, rowsOfWork, events, cands, batches, mems, call, req, shown>>
  BY DEF Activate
<1>2. RecordGrows
  BY <1>1, Sizes DEF RecordGrows
<1>3. Registered' /\ RegisterGrows /\ CallsPart'
  BY <1>1, <1>2, RegisterUntouched
<1>4. EventsPart' /\ CandsPart' /\ BatchesPart' /\ MemsPart' /\ ShownPart' /\ RequestPart'
  BY <1>1, <1>2, <1>3, EventsKept, CandsKept, BatchesKept, MemsKept, ShownKept, RequestKept
<1>5. RunPart'
  <2>1. Allowed \in Paths
    BY RegistryAssumption
  <2>2. Resolve(Allowed) \in 0..Len(places)
    BY <2>1, ResolveFinds
  <2> QED
    BY <1>1, <2>2 DEF Parts, Recorded, RunPart, rowsOfPlaces
<1> QED
  BY <1>3, <1>4, <1>5 DEF Parts, Recorded

\* The daemon moves on with the event it handles; the tables do not.
LEMMA OnlyRequestMoves ==
    ASSUME Parts, RequestPart', runPlace = 0 => req' = Idle,
           UNCHANGED <<rowsOfPlaces, rowsOfWork, rowsOfEvents, mems, call, shown>>
    PROVE  Parts'
<1>1. UNCHANGED <<events, cands, batches, runPlace>>
  BY DEF rowsOfEvents
<1>2. RecordGrows
  BY <1>1, RecordStays
<1>3. Registered' /\ RegisterGrows /\ CallsPart'
  BY <1>2, RegisterUntouched
<1>4. EventsPart' /\ CandsPart' /\ BatchesPart' /\ MemsPart' /\ ShownPart'
  BY <1>1, <1>2, <1>3, EventsKept, CandsKept, BatchesKept, MemsKept, ShownKept
<1>5. RunPart'
  BY <1>1 DEF Parts, Recorded, RunPart, rowsOfPlaces
<1> QED
  BY <1>3, <1>4, <1>5 DEF Parts, Recorded

LEMMA NoRequestStands == ASSUME req' = Idle PROVE RequestPart'
BY DEF RequestPart, Idle

LEMMA ReceiveKeeps ==
    ASSUME Parts, NEW s \in Sessions, NEW kind \in Kinds, Receive(s, kind)
    PROVE  Parts'
<1> DEFINE q == [do |-> "store", session |-> s, kind |-> kind, workspace |-> Resolve(Allowed)]
<1>1. /\ runPlace # 0 /\ Len(events) < MaxEvents /\ Resolve(Allowed) # 0
      /\ req' = q
      /\ UNCHANGED <<rowsOfPlaces, rowsOfWork, rowsOfEvents, mems, call, shown>>
  BY DEF Receive
<1>2. Allowed \in Paths
  BY RegistryAssumption
<1>3. Resolve(Allowed) \in Workspaces
  BY <1>1, <1>2, ResolveFinds, Sizes DEF Workspaces
<1>4. q \in Request /\ q.do = "store"
  BY <1>3 DEF Request
<1> HIDE DEF q
<1>5. RequestPart'
  <2>1. Request' = Request /\ events' = events
    BY <1>1 DEF Request, Workspaces, rowsOfPlaces, rowsOfEvents
  <2> QED
    BY <1>1, <1>4, <2>1 DEF RequestPart
<1> QED
  BY <1>1, <1>5, OnlyRequestMoves

\* The event is the last of the journal, of the workspace of its session.
LEMMA StoreEventKeeps == ASSUME Parts, StoreEvent PROVE Parts'
<1>1. /\ req.do = "store"
      /\ UNCHANGED <<rowsOfPlaces, tasks, bindings, cands, batches, runPlace, mems, call, shown>>
  BY DEF StoreEvent
<1>2. req \in Request /\ Len(events) < MaxEvents
  <2>1. req \in {Idle} \cup Request /\ Len(events) < MaxEvents
    BY <1>1 DEF Parts, RequestPart
  <2> QED
    BY <1>1, <2>1 DEF Idle
<1>3. PICK s \in Sessions, w \in Workspaces, kind \in Kinds :
        s = req.session /\ w = req.workspace /\ kind = req.kind
  BY <1>1, <1>2 DEF Request
<1>4. runPlace # 0
  BY <1>1 DEF Parts, Recorded, RunPart, Idle
<1>5. CASE ~InScope(s, w)
  <2>1. req' = Idle /\ UNCHANGED <<home, events>>
    BY <1>3, <1>5 DEF StoreEvent
  <2>2. UNCHANGED <<rowsOfPlaces, rowsOfWork, rowsOfEvents, mems, call, shown>>
    BY <1>1, <2>1 DEF rowsOfWork, rowsOfEvents
  <2> QED
    BY <2>1, <2>2, NoRequestStands, OnlyRequestMoves
<1>6. CASE InScope(s, w)
  <2> DEFINE e == [session |-> s, workspace |-> w, kind |-> kind]
             first == [req EXCEPT !.do = "context"]
             next == [req EXCEPT !.do = "candidate"]
  <2>1. /\ home' = [home EXCEPT ![s] = IF home[s] = 0 THEN w ELSE home[s]]
        /\ events' = Append(events, e)
    BY <1>3, <1>6 DEF StoreEvent
  <2>2. \/ kind = "start" /\ req' = first
        \/ kind = "prompt" /\ req' = next
        \/ req' = Idle
    BY <1>3, <1>6 DEF StoreEvent, After, Kinds
  <2>3. HomePart /\ EventsPart
    BY DEF Parts, Registered, Recorded
  <2>4. home' = IF home[s] = 0 THEN [home EXCEPT ![s] = w] ELSE home
    BY <2>1, <2>3 DEF HomePart
  <2>5. UNCHANGED <<projects, places, moves, tasks, bindings>>
    BY <1>1 DEF rowsOfPlaces
  <2>6. Registered' /\ RegisterGrows
    BY <2>4, <2>5, HomeGrows
  <2>7. home'[s] = w
    BY <1>6, <2>3, <2>4 DEF HomePart, InScope
  <2>8. events \in Seq(Event) /\ Len(events) \in Nat /\ e \in Event /\ Event' = Event
    BY <2>3, <2>5, Sizes DEF EventsPart, Event, Workspaces
  <2>9. e.session = s /\ e.workspace = w /\ e.kind = kind
    OBVIOUS
  <2> HIDE DEF e
  <2>10. /\ events' \in Seq(Event) /\ Len(events') = Len(events) + 1
         /\ \A i \in 1..Len(events) : events'[i] = events[i]
         /\ events'[Len(events) + 1] = e
    BY <2>1, <2>8
  <2>11. RecordGrows
    BY <1>1, <2>8, <2>10, Sizes DEF RecordGrows
  <2>12. EventsPart'
    <3>1. \A i \in 1..Len(events) : home'[events[i].session] = events[i].workspace
      <4> SUFFICES ASSUME NEW i \in 1..Len(events)
                   PROVE  home'[events[i].session] = events[i].workspace
        OBVIOUS
      <4>1. events[i] \in Event
        BY <2>8, RowOf
      <4>2. events[i].session \in Sessions /\ events[i].workspace \in Workspaces
        BY <4>1 DEF Event
      <4>3. home[events[i].session] = events[i].workspace /\ events[i].workspace # 0
        BY <2>3, <4>2, Sizes DEF EventsPart, Workspaces
      <4> QED
        BY <2>6, <4>2, <4>3 DEF RegisterGrows
    <3>2. Len(events') <= MaxEvents
      <4>1. MaxEvents \in Nat
        BY RegistryAssumption
      <4> QED
        BY <1>2, <2>8, <2>10, <4>1
    <3>3. \A i \in 1..Len(events') : home'[events'[i].session] = events'[i].workspace
      BY <2>7, <2>8, <2>9, <2>10, <3>1
    <3> QED
      BY <2>8, <2>10, <3>2, <3>3 DEF EventsPart
  <2>13. CandsPart' /\ BatchesPart' /\ MemsPart' /\ ShownPart' /\ CallsPart'
    BY <1>1, <2>6, <2>11, CandsKept, BatchesKept, MemsKept, ShownKept, CallsKept
  <2>14. RunPart'
    BY <1>1, <1>4 DEF Parts, Recorded, RunPart, rowsOfPlaces
  <2>15. RequestPart'
    <3>1. /\ first \in Request /\ first.session = s /\ first.workspace = w
          /\ first.do = "context"
      BY <1>1, <1>2, <1>3 DEF Request
    <3>2. /\ next \in Request /\ next.session = s /\ next.workspace = w
          /\ next.do = "candidate"
      BY <1>1, <1>2, <1>3 DEF Request
    <3>3. Request' = Request
      BY <2>5 DEF Request, Workspaces
    <3>4. events' # <<>> /\ events'[Len(events')] = e
      BY <2>8, <2>10
    <3> HIDE DEF first, next
    <3>5. CASE kind = "start" /\ req' = first
      BY <2>7, <2>9, <3>1, <3>3, <3>4, <3>5 DEF RequestPart
    <3>6. CASE kind = "prompt" /\ req' = next
      BY <2>7, <2>9, <3>2, <3>3, <3>4, <3>6 DEF RequestPart
    <3>7. CASE req' = Idle
      BY <3>7, NoRequestStands
    <3> QED
      BY <2>2, <3>5, <3>6, <3>7
  <2> QED
    BY <2>6, <2>12, <2>13, <2>14, <2>15 DEF Parts, Recorded
<1> QED
  BY <1>5, <1>6

LEMMA MakeContextKeeps == ASSUME Parts, MakeContext PROVE Parts'
<1>1. /\ req.do = "context"
      /\ UNCHANGED <<rowsOfPlaces, rowsOfWork, rowsOfEvents, mems, call, shown>>
  BY DEF MakeContext
<1>2. req \in Request /\ home[req.session] = req.workspace
  <2>1. req \in {Idle} \cup Request /\ home[req.session] = req.workspace
    BY <1>1 DEF Parts, RequestPart
  <2> QED
    BY <1>1, <2>1 DEF Idle
<1>3. PICK s \in Sessions, w \in Workspaces : s = req.session /\ w = req.workspace
  BY <1>1, <1>2 DEF Request
<1>4. runPlace # 0
  BY <1>1 DEF Parts, Recorded, RunPart, Idle
<1>5. CASE Resolve(Allowed) = 0
  <2>1. req' = Idle
    BY <1>5 DEF MakeContext
  <2> QED
    BY <1>1, <2>1, NoRequestStands, OnlyRequestMoves
<1>6. CASE Resolve(Allowed) # 0
  <2>1. Allowed \in Paths
    BY RegistryAssumption
  <2>2. PICK v \in 1..Len(places) : v = Resolve(Allowed)
    BY <1>6, <2>1, ResolveFinds, Sizes
  <2>3. places[v].project \in 1..projects
    <3>1. places \in Seq(Place)
      BY DEF Parts, Registered, PlacesPart
    <3>2. places[v] \in Place
      BY <3>1, RowOf
    <3> QED
      BY <3>2 DEF Place
  <2> DEFINE c == [project |-> places[v].project, workspace |-> w, task |-> 0]
             q == [do |-> "show", session |-> s, context |-> c]
  <2>4. req' = q
    BY <1>3, <1>6, <2>2 DEF MakeContext, Context
  <2>5. q \in Request /\ q.do = "show" /\ q.session = s /\ q.context.workspace = w
    BY <2>3 DEF Request
  <2> HIDE DEF q
  <2>6. RequestPart'
    <3>1. Request' = Request /\ home' = home
      BY <1>1 DEF Request, Workspaces, rowsOfPlaces, rowsOfWork
    <3> QED
      BY <1>2, <1>3, <2>4, <2>5, <3>1 DEF RequestPart
  <2> QED
    BY <1>1, <1>4, <2>6, OnlyRequestMoves
<1> QED
  BY <1>5, <1>6

\* What can be read in a context without a task.
LEMMA ReadableStands ==
    ASSUME Parts, NEW p, NEW w \in 1..Len(places), NEW m \in Readable(Context(p, w))
    PROVE  /\ m \in 1..Len(mems) /\ mems[m].task = 0
           /\ mems[m].project \in {0, places[w].project}
<1>1. m \in 1..Len(mems) /\ Len(mems) \in Nat /\ Len(tasks) \in Nat
  BY Sizes DEF Readable
<1>2. mems \in Seq(Scopes)
  BY DEF Parts, MemsPart
<1>3. mems[m] \in Scopes
  BY <1>1, <1>2, RowOf
<1>4. mems[m].task # 0 => mems[m].project # 0
  BY <1>3 DEF Scopes
<1>5. ValidContext(Context(p, w)) /\ ScopeAllows(m, Context(p, w))
  BY DEF Readable
<1>6. w # 0
  BY Sizes
<1> QED
  BY <1>1, <1>4, <1>5, <1>6 DEF ValidContext, ScopeAllows, Context

LEMMA ShowKeeps == ASSUME Parts, Show PROVE Parts'
<1>1. /\ req.do = "show" /\ req' = Idle
      /\ shown' = shown \cup {[session |-> req.session, memory |-> m] :
                                 m \in Readable(req.context)}
      /\ UNCHANGED <<rowsOfPlaces, rowsOfWork, rowsOfEvents, mems, call>>
  BY DEF Show
<1>2. req \in Request /\ home[req.session] = req.context.workspace
  <2>1. req \in {Idle} \cup Request /\ home[req.session] = req.context.workspace
    BY <1>1 DEF Parts, RequestPart
  <2> QED
    BY <1>1, <2>1 DEF Idle
<1>3. PICK s \in Sessions, w \in 1..Len(places), p \in 1..projects :
        s = req.session /\ req.context = Context(p, w)
  <2>1. /\ req.session \in Sessions
        /\ req.context \in [project : 1..projects, workspace : Workspaces, task : {0}]
    BY <1>1, <1>2 DEF Request
  <2> QED
    BY <2>1, Sizes DEF Workspaces, Context
<1>4. home[s] = w
  BY <1>2, <1>3 DEF Context
<1>5. UNCHANGED <<events, cands, batches, runPlace, projects, places, tasks, home>>
  BY <1>1 DEF rowsOfEvents, rowsOfPlaces, rowsOfWork
<1>6. RecordGrows
  BY <1>1, <1>5, RecordStays
<1>7. Registered' /\ RegisterGrows /\ CallsPart'
  BY <1>1, <1>6, RegisterUntouched
<1>8. EventsPart' /\ CandsPart' /\ BatchesPart' /\ MemsPart'
  BY <1>1, <1>5, <1>6, <1>7, EventsKept, CandsKept, BatchesKept, MemsKept
<1>9. ShownPart'
  <2>1. ShownPart
    BY DEF Parts
  <2>2. ASSUME NEW m \in Readable(Context(p, w))
        PROVE  /\ [session |-> s, memory |-> m] \in [session : Sessions, memory : 1..Len(mems)]
               /\ mems[m].project \in {0, places[home[s]].project} /\ mems[m].task = 0
    BY <1>4, <2>2, ReadableStands
  <2>3. home[s] # 0
    BY <1>4, Sizes
  <2> QED
    BY <1>1, <1>3, <1>5, <2>1, <2>2, <2>3 DEF ShownPart, ProjectOf
<1>10. RunPart'
  BY <1>1, <1>5 DEF Parts, Recorded, RunPart
<1> QED
  BY <1>1, <1>7, <1>8, <1>9, <1>10, NoRequestStands DEF Parts, Recorded

\* A row is added to the candidates, for a session and its last event.
LEMMA ScheduleCandidateKeeps ==
    ASSUME Parts, NEW t \in 0..Len(tasks), ScheduleCandidate(t)
    PROVE  Parts'
<1>1. /\ req.do = "candidate" /\ req' = Idle
      /\ UNCHANGED <<rowsOfPlaces, rowsOfWork, events, batches, runPlace, mems, call, shown>>
  BY DEF ScheduleCandidate
<1>2. req \in Request /\ events # <<>> /\ events[Len(events)].kind = "prompt"
  <2>1. /\ req \in {Idle} \cup Request
        /\ events # <<>> /\ events[Len(events)].kind = "prompt"
    BY <1>1 DEF Parts, RequestPart
  <2> QED
    BY <1>1, <2>1 DEF Idle
<1>3. PICK s \in Sessions : s = req.session
  BY <1>1, <1>2 DEF Request
<1> DEFINE w == Resolve(Allowed)
           valid == w # 0 /\ ValidCandidate(s, t, Len(events))
           c == [session |-> s, task |-> t, project |-> places[w].project,
                 event |-> Len(events), batch |-> 0]
<1>4. cands' = IF valid THEN Append(cands, c) ELSE cands
  BY <1>3 DEF ScheduleCandidate
<1>5. RecordGrows
  BY <1>1, RecordStays
<1>6. Registered' /\ RegisterGrows /\ CallsPart'
  BY <1>1, <1>5, RegisterUntouched
<1>7. EventsPart' /\ BatchesPart' /\ MemsPart' /\ ShownPart' /\ RequestPart'
  BY <1>1, <1>5, <1>6, EventsKept, BatchesKept, MemsKept, ShownKept, NoRequestStands
<1>8. RunPart'
  BY <1>1 DEF Parts, Recorded, RunPart, rowsOfPlaces
<1>9. CandsPart'
  <2>1. CASE ~valid
    BY <1>4, <1>5, <1>6, <2>1, CandsKept
  <2>2. CASE valid
    <3>1. w \in 1..Len(places)
      <4>1. Allowed \in Paths
        BY RegistryAssumption
      <4> QED
        BY <2>2, <4>1, ResolveFinds, Sizes
    <3>2. places[w].project \in 1..projects
      <4>1. places \in Seq(Place)
        BY DEF Parts, Registered, PlacesPart
      <4>2. places[w] \in Place
        BY <3>1, <4>1, RowOf
      <4> QED
        BY <4>2 DEF Place
    <3>3. Len(events) \in 1..Len(events)
      <4>1. events \in Seq(Event)
        BY DEF Parts, Recorded, EventsPart
      <4> QED
        BY <1>2, <4>1
    <3>4. c \in Candidate
      BY <3>2, <3>3, Sizes DEF Candidate
    <3>5. /\ c.session = s /\ c.task = t /\ c.event = Len(events) /\ c.batch = 0
          /\ events[Len(events)].session = s /\ (t # 0 => SameProject(s, t))
      BY <2>2 DEF ValidCandidate
    <3> HIDE DEF c, w
    <3>11. PICK k : k = c
      OBVIOUS
    <3>6. CandidateStands(k)
      BY <1>2, <3>4, <3>5, <3>11 DEF CandidateStands
    <3>7. CandidateStands(k)'
      BY <1>5, <1>6, <3>6, CandidateKept
    <3>8. cands \in Seq(Candidate) /\ Candidate \subseteq Candidate'
      BY <1>5, <1>6 DEF Parts, Recorded, CandsPart, Candidate, RegisterGrows, RecordGrows
    <3>9. /\ cands' \in Seq(Candidate') /\ Len(cands') = Len(cands) + 1 /\ Len(cands) \in Nat
          /\ \A i \in 1..Len(cands) : cands'[i] = cands[i]
          /\ cands'[Len(cands) + 1] = k
      <4>1. cands \in Seq(Candidate')
        BY <3>8, RowsMore
      <4>2. k \in Candidate'
        BY <3>4, <3>8, <3>11
      <4>3. cands' = Append(cands, k)
        BY <1>4, <2>2, <3>11
      <4> HIDE DEF valid
      <4> QED
        BY <4>1, <4>2, <4>3
    <3>10. ASSUME NEW i \in 1..Len(cands')
           PROVE  CandidateStands(cands[i])'
      <4>1. PICK d : d = cands'[i]
        OBVIOUS
      <4>2. CandidateStands(d)'
        <5>1. CASE i = Len(cands) + 1
          BY <3>7, <3>9, <4>1, <5>1 DEF CandidateStands, SameProject, ProjectOf
        <5>2. CASE i # Len(cands) + 1
          <6>1. i \in 1..Len(cands) /\ d = cands[i]
            BY <3>9, <4>1, <5>2
          <6>2. CandidateStands(d)
            BY <6>1 DEF Parts, Recorded, CandsPart
          <6> QED
            BY <1>5, <1>6, <6>2, CandidateKept
        <5> QED
          BY <5>1, <5>2
      <4> QED
        BY <4>1, <4>2 DEF CandidateStands, SameProject, ProjectOf
    <3> QED
      BY <3>9, <3>10 DEF CandsPart
  <2> QED
    BY <2>1, <2>2
<1> QED
  BY <1>6, <1>7, <1>8, <1>9 DEF Parts, Recorded

\* The last of some events.
LEMMA Greatest ==
    ASSUME NEW n \in Nat, NEW T, T \subseteq 1..n, T # {}
    PROVE  \E k \in T : \A j \in T : j <= k
<1> DEFINE I == {k..n : k \in T}
           R == StrictSubsetOrdering(Nat)
<1>1. I \subseteq FiniteSubsetsOf(Nat)
  <2> SUFFICES ASSUME NEW k \in T PROVE k..n \in FiniteSubsetsOf(Nat)
    OBVIOUS
  <2>1. IsFiniteSet(k..n)
    BY FS_Interval
  <2> QED
    BY <2>1 DEF FiniteSubsetsOf
<1>2. PICK s \in I : \A t \in I : ~ (<<t, s>> \in R)
  <2>1. IsWellFoundedOn(R, FiniteSubsetsOf(Nat))
    BY FS_StrictSubsetOrderingWellFounded
  <2>2. I # {}
    OBVIOUS
  <2> HIDE DEF I, R
  <2> QED
    BY <1>1, <2>1, <2>2, WFMin
<1>3. PICK k \in T : s = k..n
  OBVIOUS
<1>4. ASSUME NEW j \in T, j > k
      PROVE  FALSE
  <2>1. j..n \in I /\ j..n \in SUBSET Nat /\ k..n \in SUBSET Nat
    OBVIOUS
  <2>2. j..n \subseteq k..n /\ k \in k..n /\ k \notin j..n
    BY <1>4
  <2>3. <<j..n, k..n>> \in R
    BY <2>1, <2>2 DEF StrictSubsetOrdering
  <2> QED
    BY <1>2, <1>3, <2>1, <2>3
<1> QED
  BY <1>4

LEMMA RequestBatchKeeps == ASSUME Parts, NEW i \in DOMAIN cands, RequestBatch(i) PROVE Parts'
<1> DEFINE s == cands[i].session
           t == cands[i].task
           b == Len(batches) + 1
           last(e) == /\ events[e].session = s
                      /\ \A f \in DOMAIN events : events[f].session = s => f <= e
           u == CHOOSE e \in DOMAIN events : last(e)
           row == [session |-> s, task |-> t, outstanding |-> TRUE, upper |-> u,
                   anchors |-> Readable(Context(cands[i].project, runPlace))]
           In(j) == cands[j].batch = 0 /\ cands[j].session = s /\ cands[j].task = t
<1>1. /\ batches' = Append(batches, row)
      /\ cands' = [j \in DOMAIN cands |-> IF In(j) THEN [cands[j] EXCEPT !.batch = b]
                                          ELSE cands[j]]
      /\ UNCHANGED <<rowsOfPlaces, rowsOfWork, events, runPlace, mems, call, req, shown>>
  BY DEF RequestBatch
<1>2. /\ cands \in Seq(Candidate) /\ batches \in Seq(Batch)
      /\ \A j \in 1..Len(cands) : CandidateStands(cands[j])
      /\ \A j \in 1..Len(batches) : AnchorsStand(batches[j])
  BY DEF Parts, Recorded, CandsPart, BatchesPart
<1>3. /\ i \in 1..Len(cands) /\ Len(cands) \in Nat /\ DOMAIN cands = 1..Len(cands)
      /\ Len(batches) \in Nat /\ Len(events) \in Nat /\ DOMAIN events = 1..Len(events)
  BY Sizes
<1>4. \A j \in 1..Len(cands) :
        /\ cands[j] \in Candidate /\ cands[j].session \in Sessions
        /\ cands[j].task \in 0..Len(tasks) /\ cands[j].event \in 1..Len(events)
        /\ events[cands[j].event].session = cands[j].session
  BY <1>2 DEF CandidateStands, Candidate
<1>5. u \in 1..Len(events) /\ last(u)
  <2> DEFINE T == {e \in 1..Len(events) : events[e].session = s}
  <2>1. T # {}
    BY <1>3, <1>4
  <2>2. \E k \in T : \A j \in T : j <= k
    <3> HIDE DEF T
    <3>1. T \subseteq 1..Len(events)
      BY DEF T
    <3> QED
      BY <1>3, <2>1, <3>1, Greatest
  <2>3. \E e \in DOMAIN events : last(e)
    BY <1>3, <2>2
  <2> HIDE DEF last
  <2>4. u \in DOMAIN events /\ last(u)
    BY <2>3
  <2> QED
    BY <1>3, <2>4
<1>6. runPlace # 0 /\ runPlace \in 1..Len(places)
  <2>1. Len(cands) # 0
    BY <1>3
  <2>2. runPlace # 0
    BY <2>1, BatchesOfRun
  <2> QED
    BY <2>2, Sizes DEF Parts, Recorded, RunPart
<1>7. \A m \in Readable(Context(cands[i].project, runPlace)) :
        /\ m \in 1..Len(mems) /\ mems[m].task = 0
        /\ mems[m].project \in {0, places[runPlace].project}
  BY <1>6, ReadableStands
<1>8. /\ row \in Batch /\ AnchorsStand(row)
      /\ row.session = s /\ row.task = t /\ row.upper = u
  <2>1. row \in Batch
    BY <1>3, <1>4, <1>5, <1>7 DEF Batch
  <2> QED
    BY <1>7, <2>1 DEF AnchorsStand
<1> HIDE DEF row, u, last
<1>9. UNCHANGED <<projects, places, tasks, home>>
  BY <1>1 DEF rowsOfPlaces, rowsOfWork
<1>10. Batch' = Batch
  BY <1>1, <1>9 DEF Batch
<1>11. /\ batches' \in Seq(Batch) /\ Len(batches') = Len(batches) + 1
       /\ \A j \in 1..Len(batches) : batches'[j] = batches[j]
       /\ batches'[b] = row
  BY <1>1, <1>2, <1>3, <1>8
<1>12. RecordGrows
  BY <1>1, <1>3, <1>11, Sizes DEF RecordGrows
<1>13. Registered' /\ RegisterGrows /\ CallsPart'
  BY <1>1, <1>12, RegisterUntouched
<1>14. EventsPart' /\ MemsPart' /\ ShownPart' /\ RequestPart' /\ RunPart'
  BY <1>1, <1>12, <1>13, EventsKept, MemsKept, ShownKept, RequestKept, RunKept
<1>15. BatchesPart'
  <2>1. \A j \in 1..Len(batches') : AnchorsStand(batches'[j])
    BY <1>2, <1>3, <1>8, <1>11
  <2> QED
    BY <1>1, <1>9, <1>10, <1>11, <2>1 DEF BatchesPart, AnchorsStand
<1>16. ASSUME NEW j \in 1..Len(cands)
       PROVE  /\ cands'[j] \in Candidate'
              /\ CandidateStands(cands[j])'
  <2>1. PICK c : c = cands[j]
    OBVIOUS
  <2>2. CandidateStands(c)
    BY <1>2, <2>1
  <2>3. CandidateStands(c)'
    BY <1>12, <1>13, <2>2, CandidateKept
  <2>4. CASE ~In(j)
    <3>1. cands'[j] = c
      BY <1>1, <1>3, <2>1, <2>4
    <3> QED
      BY <2>3, <3>1 DEF CandidateStands, SameProject, ProjectOf
  <2>5. CASE In(j)
    <3>6. PICK d : d = [c EXCEPT !.batch = b]
      OBVIOUS
    <3>1. cands'[j] = d
      BY <1>1, <1>3, <2>1, <2>5, <3>6
    <3>2. c \in Candidate' /\ b \in 0..Len(batches')
      BY <1>3, <1>11, <2>3 DEF CandidateStands
    <3>3. /\ d \in Candidate' /\ d.session = c.session /\ d.task = c.task
          /\ d.event = c.event /\ d.project = c.project /\ d.batch = b
      BY <3>2, <3>6 DEF Candidate
    <3>4. c.session = s /\ c.task = t /\ c.event <= u
      BY <1>3, <1>4, <1>5, <2>1, <2>5 DEF last
    <3>5. CandidateStands(d)'
      BY <1>8, <1>11, <2>3, <3>3, <3>4 DEF CandidateStands, SameProject, ProjectOf
    <3> QED
      BY <3>1, <3>3, <3>5 DEF CandidateStands, SameProject, ProjectOf
  <2> QED
    BY <2>4, <2>5
<1>17. CandsPart'
  <2>1. cands' \in Seq(Candidate') /\ Len(cands') = Len(cands)
    <3>1. cands' = [j \in 1..Len(cands) |-> cands'[j]]
      BY <1>1, <1>3
    <3>2. \A j \in 1..Len(cands) : cands'[j] \in Candidate'
      BY <1>16
    <3> QED
      BY <1>3, <3>1, <3>2, IsASeq
  <2> QED
    BY <1>16, <2>1 DEF CandsPart
<1> QED
  BY <1>13, <1>14, <1>15, <1>17 DEF Parts, Recorded

LEMMA SettleKeeps == ASSUME Parts, NEW b \in DOMAIN batches, Settle(b) PROVE Parts'
<1> DEFINE row == [batches[b] EXCEPT !.outstanding = FALSE]
<1>1. /\ batches' = [batches EXCEPT ![b] = row]
      /\ UNCHANGED <<rowsOfPlaces, rowsOfWork, events, cands, runPlace, mems, call, req, shown>>
  BY DEF Settle
<1>2. /\ batches \in Seq(Batch) /\ \A j \in 1..Len(batches) : AnchorsStand(batches[j])
      /\ b \in 1..Len(batches) /\ Len(batches) \in Nat
  BY Sizes DEF Parts, Recorded, BatchesPart
<1>3. batches[b] \in Batch /\ AnchorsStand(batches[b])
  BY <1>2, RowOf
<1>4. /\ row \in Batch /\ row.session = batches[b].session /\ row.task = batches[b].task
      /\ row.upper = batches[b].upper /\ row.anchors = batches[b].anchors
  BY <1>3 DEF Batch
<1>5. AnchorsStand(row)
  BY <1>3, <1>4 DEF AnchorsStand
<1> HIDE DEF row
<1>6. /\ batches' \in Seq(Batch) /\ Len(batches') = Len(batches)
      /\ \A j \in 1..Len(batches) : batches'[j] = IF j = b THEN row ELSE batches[j]
  BY <1>1, <1>2, <1>4, ExceptSeq
<1>7. UNCHANGED <<projects, places, tasks, home>>
  BY <1>1 DEF rowsOfPlaces, rowsOfWork
<1>8. RecordGrows
  BY <1>1, <1>2, <1>4, <1>6, Sizes DEF RecordGrows
<1>9. Registered' /\ RegisterGrows /\ CallsPart'
  BY <1>1, <1>8, RegisterUntouched
<1>10. EventsPart' /\ CandsPart' /\ MemsPart' /\ ShownPart' /\ RequestPart' /\ RunPart'
  BY <1>1, <1>8, <1>9, EventsKept, CandsKept, MemsKept, ShownKept, RequestKept, RunKept
<1>11. BatchesPart'
  <2>1. Batch' = Batch
    BY <1>1, <1>7 DEF Batch
  <2>2. \A j \in 1..Len(batches') : AnchorsStand(batches'[j])
    BY <1>2, <1>5, <1>6
  <2> QED
    BY <1>1, <1>6, <1>7, <2>1, <2>2 DEF BatchesPart, AnchorsStand
<1> QED
  BY <1>9, <1>10, <1>11 DEF Parts, Recorded

LEMMA CommitKeeps == ASSUME Parts, NEW scope \in Scopes, Commit(scope) PROVE Parts'
<1>1. /\ Len(mems) < MaxMemories /\ mems' = Append(mems, scope)
      /\ UNCHANGED <<rowsOfPlaces, rowsOfWork, rowsOfEvents, call, req, shown>>
  BY DEF Commit
<1>2. UNCHANGED <<events, cands, batches, runPlace, projects, tasks>>
  BY <1>1 DEF rowsOfEvents, rowsOfPlaces, rowsOfWork
<1>3. mems \in Seq(Scopes) /\ Len(mems) \in Nat
  BY Sizes DEF Parts, MemsPart
<1>4. /\ mems' \in Seq(Scopes) /\ Len(mems') = Len(mems) + 1
      /\ \A m \in 1..Len(mems) : mems'[m] = mems[m]
  BY <1>1, <1>3
<1>5. RecordGrows
  BY <1>2, <1>3, <1>4, Sizes DEF RecordGrows
<1>6. Registered' /\ RegisterGrows /\ CallsPart'
  BY <1>1, <1>5, RegisterUntouched
<1>7. EventsPart' /\ CandsPart' /\ BatchesPart' /\ ShownPart' /\ RequestPart' /\ RunPart'
  BY <1>1, <1>2, <1>5, <1>6, EventsKept, CandsKept, BatchesKept, ShownKept, RequestKept, RunKept
<1>8. MemsPart'
  <2>1. Scopes' = Scopes
    BY <1>2 DEF Scopes
  <2>2. MaxMemories \in Nat
    BY RegistryAssumption
  <2> QED
    BY <1>1, <1>3, <1>4, <2>1, <2>2 DEF MemsPart
<1> QED
  BY <1>6, <1>7, <1>8 DEF Parts, Recorded

-----------------------------------------------------------------------------
(***************************************************************************)
(* Results.                                                                *)
(***************************************************************************)
LEMMA InitParts == Init => Parts
<1> SUFFICES ASSUME Init PROVE Parts
  OBVIOUS
<1>1. /\ MaxPlaces \in Nat /\ MaxTasks \in Nat /\ MaxBindings \in Nat /\ MaxEvents \in Nat
      /\ MaxMemories \in Nat /\ MaxMoves \in Nat
  BY RegistryAssumption
<1>2. PlacesPart
  BY <1>1 DEF Init, PlacesPart, PlacesAreUnique, Workspaces
<1>3. TasksPart /\ HomePart /\ BindingsPart
  BY <1>1 DEF Init, TasksPart, HomePart, BindingsPart, BindingsFollow
<1>4. EventsPart /\ CandsPart /\ BatchesPart /\ MemsPart
  BY <1>1 DEF Init, EventsPart, CandsPart, BatchesPart, MemsPart
<1>5. ShownPart /\ RunPart
  BY DEF Init, ShownPart, RunPart
<1>6. CallsPart
  BY IdleStands DEF Init, CallsPart
<1>7. RequestPart
  BY DEF Init, RequestPart, Idle
<1> QED
  BY <1>2, <1>3, <1>4, <1>5, <1>6, <1>7 DEF Parts, Registered, Recorded

LEMMA StutterKeeps == ASSUME Parts, UNCHANGED vars PROVE Parts'
<1>1. /\ UNCHANGED <<rowsOfPlaces, rowsOfWork, rowsOfEvents, mems, call, shown>>
      /\ UNCHANGED <<events, req>>
  BY DEF vars, rowsOfPlaces, rowsOfWork, rowsOfEvents
<1>2. RequestPart'
  BY <1>1, RegisteredKept, RequestKept
<1>3. runPlace = 0 => req' = Idle
  BY <1>1 DEF Parts, Recorded, RunPart
<1> QED
  BY <1>1, <1>2, <1>3, OnlyRequestMoves

LEMMA NextKeeps == Parts /\ [Next]_vars => Parts'
<1> SUFFICES ASSUME Parts, [Next]_vars PROVE Parts'
  OBVIOUS
<1>1. ASSUME NEW c \in Callers, NEW p \in 0..projects, NEW x \in Paths, FindNoPlace(c, p, x)
      PROVE  Parts'
  BY <1>1, FindNoPlaceKeeps
<1>2. ASSUME NEW c \in Callers, NEW s \in Sessions, NEW w \in Workspaces, FindNoSession(c, s, w)
      PROVE  Parts'
  BY <1>2, FindNoSessionKeeps
<1>3. ASSUME NEW c \in Callers, NEW s \in Sessions, NEW t \in DOMAIN tasks, CheckTask(c, s, t)
      PROVE  Parts'
  BY <1>3, CheckTaskKeeps
<1>4. ASSUME NEW c \in Callers, InsertPlace(c) \/ InsertSession(c) \/ BindTask(c)
      PROVE  Parts'
  BY <1>4, InsertPlaceKeeps, InsertSessionKeeps, BindTaskKeeps
<1>5. ASSUME NEW w \in Workspaces, NEW x \in Paths, RebindLocation(w, x)
      PROVE  Parts'
  BY <1>5, RebindLocationKeeps
<1>6. ASSUME NEW p \in 1..projects, CreateTask(p)
      PROVE  Parts'
  BY <1>6, CreateTaskKeeps
<1>7. CASE Activate \/ StoreEvent \/ MakeContext \/ Show
  BY <1>7, ActivateKeeps, StoreEventKeeps, MakeContextKeeps, ShowKeeps
<1>8. ASSUME NEW s \in Sessions, NEW kind \in Kinds, Receive(s, kind)
      PROVE  Parts'
  BY <1>8, ReceiveKeeps
<1>9. ASSUME NEW t \in 0..Len(tasks), ScheduleCandidate(t)
      PROVE  Parts'
  BY <1>9, ScheduleCandidateKeeps
<1>10. ASSUME NEW i \in DOMAIN cands, RequestBatch(i)
       PROVE  Parts'
  BY <1>10, RequestBatchKeeps
<1>11. ASSUME NEW b \in DOMAIN batches, Settle(b)
       PROVE  Parts'
  BY <1>11, SettleKeeps
<1>12. ASSUME NEW scope \in Scopes, Commit(scope)
       PROVE  Parts'
  BY <1>12, CommitKeeps
<1>13. CASE UNCHANGED vars
  BY <1>13, StutterKeeps
<1> QED
  BY <1>1, <1>2, <1>3, <1>4, <1>5, <1>6, <1>7, <1>8, <1>9, <1>10, <1>11, <1>12, <1>13 DEF Next

LEMMA PartsAlways == Spec => []Parts
BY InitParts, NextKeeps, PTL DEF Spec

\* A directory is bound once, a session works on tasks of its own project, one
\* after the other, and events, candidates and batches stay with the session
\* they came from, though every caller looks first and writes later
\* (ledger/service.py, register_project to bind_task; maintenance/batches.py).
THEOREM RegistryInvariant == Spec => []RegistryInv
<1>1. Parts => RegistryInv
  BY InvParts DEF IInv
<1> QED
  BY <1>1, PartsAlways, PTL

\* Nothing of another project is shown to a session or given to the model as an
\* anchor of the run, whatever is bound or moved between the three times that the
\* directory is resolved (rollout.py, session_start; scheduler.py, _batch;
\* ledger/service.py, _context_is_valid).
THEOREM ShownWhereItBelongs == Spec => []ShownInPlace
<1>1. Parts => ShownInPlace
  BY InvParts DEF IInv
<1> QED
  BY <1>1, PartsAlways, PTL

-----------------------------------------------------------------------------
\* What NothingMoves says of a step.
Stays ==
    /\ \A s \in Sessions : home[s] # 0 => home'[s] = home[s]
    /\ \A w \in Workspaces : w \in DOMAIN places' /\ places'[w].project = places[w].project
    /\ IsPrefix(tasks, tasks') /\ IsPrefix(events, events')
    /\ \A s \in Sessions : \A i \in DOMAIN bindings[s] :
           /\ i \in DOMAIN bindings'[s]
           /\ bindings[s][i].until # 0 => bindings'[s][i] = bindings[s][i]

LEMMA PrefixOfLonger ==
    ASSUME NEW S, NEW q \in Seq(S), NEW r \in Seq(S), Len(q) <= Len(r),
           \A i \in 1..Len(q) : r[i] = q[i]
    PROVE  IsPrefix(q, r)
<1>1. /\ SubSeq(q, 1, Len(q)) \in Seq(S) /\ Len(SubSeq(q, 1, Len(q))) = Len(q)
      /\ SubSeq(r, 1, Len(q)) \in Seq(S) /\ Len(SubSeq(r, 1, Len(q))) = Len(q)
  OBVIOUS
<1>2. \A i \in 1..Len(q) : SubSeq(q, 1, Len(q))[i] = SubSeq(r, 1, Len(q))[i]
  OBVIOUS
<1>3. SubSeq(q, 1, Len(q)) = SubSeq(r, 1, Len(q))
  BY <1>1, <1>2, SeqEqual
<1> QED
  BY <1>3 DEF IsPrefix

LEMMA PrefixOfAppend == ASSUME NEW S, NEW q \in Seq(S), NEW x PROVE IsPrefix(q, Append(q, x))
<1>1. q \in Seq(S \cup {x})
  BY RowsMore
<1>2. /\ Append(q, x) \in Seq(S \cup {x}) /\ Len(Append(q, x)) = Len(q) + 1
      /\ \A i \in 1..Len(q) : Append(q, x)[i] = q[i]
  BY <1>1
<1>3. Len(q) <= Len(Append(q, x))
  BY <1>2
<1>4. PICK r : r = Append(q, x)
  OBVIOUS
<1> QED
  BY <1>1, <1>2, <1>3, <1>4, PrefixOfLonger

LEMMA PrefixOfItself == ASSUME NEW S, NEW q \in Seq(S) PROVE IsPrefix(q, q)
BY PrefixOfLonger

\* The tables that NothingMoves looks at are as they were.
LEMMA NothingStirs ==
    ASSUME Parts
    PROVE  /\ UNCHANGED places => \A w \in Workspaces : /\ w \in DOMAIN places'
                                                      /\ places'[w].project = places[w].project
           /\ UNCHANGED home => \A s \in Sessions : home'[s] = home[s]
           /\ UNCHANGED tasks => IsPrefix(tasks, tasks')
           /\ UNCHANGED events => IsPrefix(events, events')
           /\ UNCHANGED bindings =>
                  \A s \in Sessions : \A i \in DOMAIN bindings[s] :
                      i \in DOMAIN bindings'[s] /\ bindings'[s][i] = bindings[s][i]
<1>1. IsPrefix(tasks, tasks)
  BY PrefixOfItself DEF Parts, Registered, TasksPart
<1>2. IsPrefix(events, events)
  BY PrefixOfItself DEF Parts, Recorded, EventsPart
<1> QED
  BY <1>1, <1>2 DEF Workspaces

LEMMA InsertPlaceStays == ASSUME Parts, NEW c \in Callers, InsertPlace(c) PROVE Stays
<1>1. UNCHANGED <<tasks, home, bindings>> /\ UNCHANGED events
  BY DEF InsertPlace, rowsOfWork, rowsOfEvents
<1>2. \A w \in Workspaces : w \in DOMAIN places' /\ places'[w].project = places[w].project
  <2>1. CASE Taken(call[c].path)
    BY <2>1, NothingStirs DEF InsertPlace
  <2>2. CASE ~Taken(call[c].path)
    <3>1. PICK row : places' = Append(places, row)
      BY <2>2 DEF InsertPlace
    <3>2. places \in Seq(Place)
      BY DEF Parts, Registered, PlacesPart
    <3> QED
      BY <3>1, <3>2 DEF Workspaces
  <2> QED
    BY <2>1, <2>2
<1> QED
  BY <1>1, <1>2, NothingStirs DEF Stays

LEMMA RebindLocationStays ==
    ASSUME Parts, NEW w \in Workspaces, NEW x \in Paths, RebindLocation(w, x)
    PROVE  Stays
<1>1. UNCHANGED <<tasks, home, bindings>> /\ UNCHANGED events
  BY DEF RebindLocation, rowsOfWork, rowsOfEvents
<1>2. ASSUME NEW v \in Workspaces
      PROVE  v \in DOMAIN places' /\ places'[v].project = places[v].project
  <2>1. places \in Seq(Place)
    BY DEF Parts, Registered, PlacesPart
  <2>2. places[v] \in Place
    BY <2>1, RowOf DEF Workspaces
  <2>3. DOMAIN places' = DOMAIN places
        /\ places'[v] = IF v = w THEN [places[v] EXCEPT !.path = x] ELSE places[v]
    BY <2>1 DEF RebindLocation, Workspaces
  <2> QED
    BY <2>2, <2>3 DEF Workspaces, Place
<1> QED
  BY <1>1, <1>2, NothingStirs DEF Stays

LEMMA CreateTaskStays == ASSUME Parts, NEW p \in 1..projects, CreateTask(p) PROVE Stays
<1>1. UNCHANGED <<places, home, bindings>> /\ UNCHANGED events
  BY DEF CreateTask, rowsOfPlaces, rowsOfEvents
<1>2. IsPrefix(tasks, tasks')
  BY PrefixOfAppend DEF CreateTask, Parts, Registered, TasksPart
<1> QED
  BY <1>1, <1>2, NothingStirs DEF Stays

LEMMA InsertSessionStays == ASSUME Parts, NEW c \in Callers, InsertSession(c) PROVE Stays
<1>1. UNCHANGED <<places, tasks, bindings>> /\ UNCHANGED events
  BY DEF InsertSession, rowsOfPlaces, rowsOfEvents
<1>2. ASSUME NEW s \in Sessions, home[s] # 0 PROVE home'[s] = home[s]
  BY <1>2 DEF InsertSession, Parts, Registered, HomePart
<1> QED
  BY <1>1, <1>2, NothingStirs DEF Stays

LEMMA BindTaskStays == ASSUME Parts, NEW c \in Callers, BindTask(c) PROVE Stays
<1>1. UNCHANGED <<places, tasks, home>> /\ UNCHANGED events
  BY DEF BindTask, rowsOfPlaces, rowsOfEvents
<1>2. ASSUME NEW s \in Sessions, NEW i \in DOMAIN bindings[s]
      PROVE  /\ i \in DOMAIN bindings'[s]
             /\ bindings[s][i].until # 0 => bindings'[s][i] = bindings[s][i]
  <2>1. bindings \in [Sessions -> Seq(Binding)]
    BY DEF Parts, Registered, BindingsPart
  <2>2. bindings[s] \in Seq(Binding)
    BY <2>1
  <2>3. CASE s = call[c].session
    <3> DEFINE done == [j \in DOMAIN bindings[s] |-> Closed(bindings[s][j], call[c].from)]
    <3>1. PICK row : bindings'[s] = Append(done, row)
      BY <2>1, <2>3 DEF BindTask
    <3>2. DOMAIN bindings[s] = 1..Len(bindings[s]) /\ Len(bindings[s]) \in Nat
      BY <2>2
    <3>3. PICK T : \A j \in 1..Len(bindings[s]) : done[j] \in T
      <4>1. \A j \in 1..Len(bindings[s]) : done[j] \in {done[k] : k \in DOMAIN bindings[s]}
        BY <3>2
      <4> QED
        BY <4>1
    <3>4. done \in Seq(T) /\ Len(done) = Len(bindings[s])
      <4>1. done \in [1..Len(bindings[s]) -> T]
        BY <3>2, <3>3
      <4> HIDE DEF done
      <4> QED
        BY <3>2, <4>1
    <3>5. done[i] = Closed(bindings[s][i], call[c].from)
      OBVIOUS
    <3> HIDE DEF done
    <3>6. i \in DOMAIN Append(done, row) /\ Append(done, row)[i] = done[i]
      BY <3>2, <3>4
    <3> QED
      BY <3>1, <3>5, <3>6 DEF Closed
  <2>4. CASE s # call[c].session
    BY <2>1, <2>4 DEF BindTask
  <2> QED
    BY <2>3, <2>4
<1> QED
  BY <1>1, <1>2, NothingStirs DEF Stays

LEMMA StoreEventStays == ASSUME Parts, StoreEvent PROVE Stays
<1>1. UNCHANGED <<places, tasks, bindings>>
  BY DEF StoreEvent, rowsOfPlaces
<1>2. ASSUME NEW s \in Sessions, home[s] # 0 PROVE home'[s] = home[s]
  BY <1>2 DEF StoreEvent, Parts, Registered, HomePart
<1>3. IsPrefix(events, events')
  <2>1. CASE UNCHANGED events
    BY <2>1, NothingStirs
  <2>2. CASE \E row : events' = Append(events, row)
    BY <2>2, PrefixOfAppend DEF Parts, Recorded, EventsPart
  <2> QED
    BY <2>1, <2>2 DEF StoreEvent
<1> QED
  BY <1>1, <1>2, <1>3, NothingStirs DEF Stays

\* What the others do not write.
Elsewhere == UNCHANGED <<places, tasks, home, bindings, events>>

LEMMA ElsewhereStays == ASSUME Parts, Elsewhere PROVE Stays
BY NothingStirs DEF Elsewhere, Stays

LEMMA NextStays == Parts /\ [Next]_vars => Stays
<1> SUFFICES ASSUME Parts, [Next]_vars PROVE Stays
  OBVIOUS
<1>1. ASSUME NEW c \in Callers,
             \/ \E p \in 0..projects, x \in Paths : FindNoPlace(c, p, x)
             \/ \E s \in Sessions, w \in Workspaces : FindNoSession(c, s, w)
             \/ \E s \in Sessions, t \in DOMAIN tasks : CheckTask(c, s, t)
      PROVE  Stays
  <2>1. Elsewhere
    BY <1>1 DEF FindNoPlace, FindNoSession, CheckTask, Begins, Elsewhere, rowsOfPlaces,
       rowsOfWork, rowsOfEvents
  <2> QED
    BY <2>1, ElsewhereStays
<1>2. ASSUME NEW c \in Callers, InsertPlace(c) \/ InsertSession(c) \/ BindTask(c)
      PROVE  Stays
  BY <1>2, InsertPlaceStays, InsertSessionStays, BindTaskStays
<1>3. ASSUME NEW w \in Workspaces, NEW x \in Paths, RebindLocation(w, x)
      PROVE  Stays
  BY <1>3, RebindLocationStays
<1>4. ASSUME NEW p \in 1..projects, CreateTask(p)
      PROVE  Stays
  BY <1>4, CreateTaskStays
<1>5. CASE StoreEvent
  BY <1>5, StoreEventStays
<1>6. CASE \/ Activate \/ MakeContext \/ Show
           \/ \E s \in Sessions, kind \in Kinds : Receive(s, kind)
           \/ \E t \in 0..Len(tasks) : ScheduleCandidate(t)
           \/ \E scope \in Scopes : Commit(scope)
  <2>1. Elsewhere
    BY <1>6 DEF Activate, MakeContext, Show, Receive, ScheduleCandidate, Commit, Elsewhere,
       rowsOfPlaces, rowsOfWork, rowsOfEvents
  <2> QED
    BY <2>1, ElsewhereStays
<1>7. CASE \/ \E i \in DOMAIN cands : RequestBatch(i)
           \/ \E b \in DOMAIN batches : Settle(b)
           \/ UNCHANGED vars
  <2>1. Elsewhere
    BY <1>7 DEF RequestBatch, Settle, vars, Elsewhere, rowsOfPlaces, rowsOfWork
  <2> QED
    BY <2>1, ElsewhereStays
<1> QED
  BY <1>1, <1>2, <1>3, <1>4, <1>5, <1>6, <1>7 DEF Next

\* What a caller has checked before its transaction still holds in it: no session
\* changes its workspace, no workspace or task its project, and what is bound or
\* stored stays (ledger/service.py, bind_task, rebind_location, open_session).
THEOREM WhatIsCheckedStays == Spec => NothingMoves
<1>1. Parts /\ [Next]_vars => [Stays]_vars
  BY NextStays
<1> QED
  BY <1>1, PartsAlways, PTL DEF Spec, NothingMoves, Stays
=============================================================================
