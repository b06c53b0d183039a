------------------------------- MODULE Journal -------------------------------
(***************************************************************************)
(* The event journal (maintenance/journal.py): events received once each,  *)
(* under a key of their source generation, cursors into the sources,       *)
(* aliases of keys and the quarantine of unreadable lines.                 *)
(*                                                                         *)
(* Every call looks up first, outside any transaction, and then commits    *)
(* one transaction; callers are processes with a connection of their own.  *)
(* A hook appends an event without a cursor (rollout.py, codex_shadow.py). *)
(* A reader goes through the lines of a source from its cursor on and      *)
(* passes the cursor behind the line; it calls again when a call failed.   *)
(* No reader is part of the package: Read is the caller that the cursor    *)
(* arguments are made for.  Sessions, hosts and owners are left out: the   *)
(* generation stands for the scope in which a key is unique.               *)
(***************************************************************************)
EXTENDS Naturals, Sequences, SequencesExt

CONSTANTS
    Callers,     \* processes that call the journal
    Generations, \* source generations, each with one locator
    EventKeys,   \* source event keys
    Bodies,      \* payloads and locators of events
    HookEvents,  \* events that hooks deliver
    AliasKeys,   \* keys that are given as aliases
    Source,      \* the complete lines of each generation
    MaxDeaths    \* bound on callers that die within a call

Event == [kind : {"event"}, key : EventKeys, body : Bodies]
Bad   == [kind : {"bad"}, body : Bodies]

ASSUME JournalAssumption ==
    /\ MaxDeaths \in Nat /\ AliasKeys \subseteq EventKeys
    /\ HookEvents \subseteq [gen : Generations, key : EventKeys, body : Bodies]
    /\ Source \in [Generations -> Seq(Event \cup Bad)]

VARIABLES
    events,     \* rows of events in the order of their insertion
    cursor,     \* byte_offset of source_cursors, counted in lines, or 0
    alias,      \* event_aliases: the position of the canonical event, or NoRow
    quarantine, \* rows of event_quarantine
    call,       \* what each caller is doing
    deaths      \* callers that died so far

jvars == <<events, cursor, alias, quarantine, call, deaths>>

NoRow == 0
Idle  == [phase |-> "idle"]

Row == [gen : Generations, key : EventKeys, body : Bodies, seq : Nat \ {0}]

\* A call between its lookup and its transaction; to is the cursor it writes.
Appending == [phase : {"lookup", "insert"}, gen : Generations, key : EventKeys,
              body : Bodies, to : Nat]
Knowing   == [phase : {"known"}, gen : Generations, to : Nat, id : Nat]
Spoiling  == [phase : {"bad"}, gen : Generations, body : Bodies, to : Nat]
Aliasing  == [phase : {"alias"}, gen : Generations, key : EventKeys, id : Nat]
Calls     == Appending \cup Knowing \cup Spoiling \cup Aliasing \cup {Idle}

TypeOK ==
    /\ events \in Seq(Row)
    /\ cursor \in [Generations -> Nat]
    /\ alias \in [Generations \X EventKeys -> Nat]
    /\ quarantine \subseteq [gen : Generations, at : Nat, body : Bodies]
    /\ call \in [Callers -> Calls]
    /\ deaths \in 0..MaxDeaths

Init ==
    /\ events = <<>>
    /\ cursor = [g \in Generations |-> 0]
    /\ alias = [k \in Generations \X EventKeys |-> NoRow]
    /\ quarantine = {}
    /\ call = [c \in Callers |-> Idle]
    /\ deaths = 0

-----------------------------------------------------------------------------
\* The rows with the identity of an event: UNIQUE makes it at most one.
Stored(g, k) == {i \in DOMAIN events : events[i].gen = g /\ events[i].key = k}

\* A row of the key can be inserted.  The slip: a table without the UNIQUE constraint.
FreeSlip(g, k) == TRUE

Free(g, k) == Stored(g, k) = {}

\* Slip: append takes every known key for a duplicate.
ReusedSlip(i, body) == FALSE

\* append: the key is taken by an event with another payload or locator.
Reused(i, body) == events[i].body # body

NextSequence == IF events = <<>> THEN 1 ELSE events[Len(events)].seq + 1

\* Slip: _write_cursor without its check.
PassesSlip(g, to) == TRUE

\* _write_cursor: a call without a cursor, or one that does not go back.
Passes(g, to) == to = NoRow \/ to >= cursor[g]

WriteCursor(g, to) == cursor' = IF to = NoRow THEN cursor ELSE [cursor EXCEPT ![g] = to]

Become(c, state) == call' = [call EXCEPT ![c] = state]

-----------------------------------------------------------------------------
\* append, the lookup: a new event, one that is known, or source_event_key_reused.
Search(c, job) ==
    \/ Stored(job.gen, job.key) = {} /\ Become(c, [job EXCEPT !.phase = "insert"])
    \/ \E i \in Stored(job.gen, job.key) :
           Become(c, IF Reused(i, job.body) THEN Idle
                     ELSE [phase |-> "known", gen |-> job.gen, to |-> job.to, id |-> i])

\* A hook hands over an event of the generation, with the key the host gave it.
Hook(c, e) ==
    /\ call[c] = Idle
    /\ Search(c, [phase |-> "lookup", gen |-> e.gen, key |-> e.key, body |-> e.body, to |-> NoRow])
    /\ UNCHANGED <<events, cursor, alias, quarantine, deaths>>

\* A reader takes the line behind the cursor.
Read(c, g) ==
    /\ call[c] = Idle
    /\ cursor[g] < Len(Source[g])
    /\ LET line == Source[g][cursor[g] + 1] IN
       Become(c, IF line.kind = "bad"
                 THEN [phase |-> "bad", gen |-> g, body |-> line.body, to |-> cursor[g] + 1]
                 ELSE [phase |-> "lookup", gen |-> g, key |-> line.key, body |-> line.body,
                       to |-> cursor[g] + 1])
    /\ UNCHANGED <<events, cursor, alias, quarantine, deaths>>

\* The lookup of a line that a reader appends.
Lookup(c) ==
    /\ call[c].phase = "lookup"
    /\ Search(c, call[c])
    /\ UNCHANGED <<events, cursor, alias, quarantine, deaths>>

\* append, the transaction of a new event: fails when another caller stored
\* the key first or the cursor has moved on.
Insert(c) ==
    LET job == call[c] IN
    /\ job.phase = "insert"
    /\ Free(job.gen, job.key) /\ Passes(job.gen, job.to)
    /\ events' = Append(events, [gen |-> job.gen, key |-> job.key, body |-> job.body,
                                 seq |-> NextSequence])
    /\ WriteCursor(job.gen, job.to)
    /\ Become(c, Idle)
    /\ UNCHANGED <<alias, quarantine, deaths>>

\* append of a known event: the cursor in a transaction of its own.
Known(c) ==
    LET job == call[c] IN
    /\ job.phase = "known"
    /\ Passes(job.gen, job.to)
    /\ WriteCursor(job.gen, job.to)
    /\ UNCHANGED <<events, alias, quarantine, deaths>>
    /\ Become(c, Idle)

\* record_invalid_line: the quarantine, once for the same bytes, and the cursor.
Quarantine(c) ==
    LET job == call[c] IN
    /\ job.phase = "bad"
    /\ Passes(job.gen, job.to)
    /\ quarantine' = quarantine \cup {[gen |-> job.gen, at |-> job.to, body |-> job.body]}
    /\ WriteCursor(job.gen, job.to)
    /\ Become(c, Idle)
    /\ UNCHANGED <<events, alias, deaths>>

\* The transaction raises and nothing is stored.
Refused(c) ==
    LET job == call[c] IN
    /\ \/ job.phase = "insert" /\ ~Free(job.gen, job.key)
       \/ job.phase \in {"insert", "known", "bad"} /\ ~Passes(job.gen, job.to)
       \/ job.phase = "alias" /\ alias[job.gen, job.key] # NoRow
    /\ Become(c, Idle)
    /\ UNCHANGED <<events, cursor, alias, quarantine, deaths>>

\* add_alias, the lookups: the canonical event is one of the same generation.
AliasLookup(c, g, k, i) ==
    /\ call[c] = Idle
    /\ events[i].gen = g
    /\ alias[g, k] = NoRow
    /\ Become(c, [phase |-> "alias", gen |-> g, key |-> k, id |-> i])
    /\ UNCHANGED <<events, cursor, alias, quarantine, deaths>>

AliasInsert(c) ==
    LET job == call[c] IN
    /\ job.phase = "alias"
    /\ alias[job.gen, job.key] = NoRow
    /\ alias' = [alias EXCEPT ![<<job.gen, job.key>>] = job.id]
    /\ Become(c, Idle)
    /\ UNCHANGED <<events, cursor, quarantine, deaths>>

\* A caller dies within a call and starts anew.
Die(c) ==
    /\ call[c] # Idle /\ deaths < MaxDeaths
    /\ deaths' = deaths + 1
    /\ Become(c, Idle)
    /\ UNCHANGED <<events, cursor, alias, quarantine>>

Ends(c) == Lookup(c) \/ Insert(c) \/ Known(c) \/ Quarantine(c) \/ AliasInsert(c) \/ Refused(c)

Next ==
    \E c \in Callers :
        \/ \E e \in HookEvents : Hook(c, e)
        \/ \E g \in Generations : Read(c, g)
        \/ \E g \in Generations, k \in AliasKeys : \E i \in DOMAIN events : AliasLookup(c, g, k, i)
        \/ Ends(c)
        \/ Die(c)

Spec == Init /\ [][Next]_jvars

-----------------------------------------------------------------------------
\* resolve_event_key: an event's own key before an alias.
Resolve(g, k) ==
    IF Stored(g, k) # {} THEN CHOOSE i \in Stored(g, k) : TRUE ELSE alias[g, k]

\* An event is one row, whoever delivers it and however often.
ReceivedOnce ==
    \A i, j \in DOMAIN events :
        events[i].gen = events[j].gen /\ events[i].key = events[j].key => i = j

\* ingest_sequence numbers the events of all generations without gaps, in the
\* order of their commits.
NumberedInOrder == \A i \in DOMAIN events : events[i].seq = i

\* An alias stands for an event of its own generation.
AliasesInScope ==
    \A g \in Generations, k \in EventKeys :
        alias[g, k] # NoRow => alias[g, k] \in DOMAIN events /\ events[alias[g, k]].gen = g

\* Why the cursor skips nothing: what a call has looked up is still so when it
\* commits.  The line it read is at most the next one, and the event or the
\* alias's event that it found is a row of the generation.
Ahead(g, n, line) == n \in 1..Len(Source[g]) /\ n <= cursor[g] + 1 /\ Source[g][n] = line

LineOf(x) == [kind |-> "event", key |-> x.key, body |-> x.body]

RowOf(job) == job.id \in DOMAIN events /\ events[job.id].gen = job.gen

StillSo(job) ==
    /\ job.phase \in {"lookup", "insert"} =>
           job.to = NoRow \/ Ahead(job.gen, job.to, LineOf(job))
    /\ job.phase = "known" =>
           RowOf(job) /\ (job.to = NoRow \/ Ahead(job.gen, job.to, LineOf(events[job.id])))
    /\ job.phase = "bad" => Ahead(job.gen, job.to, [kind |-> "bad", body |-> job.body])
    /\ job.phase = "alias" => RowOf(job)

CallsHold == \A c \in Callers : StillSo(call[c])

\* What journal.append and add_alias keep whoever calls them at once: one row
\* for an event, one gapless order over all sources, aliases within their
\* generation, and lookups that still hold in the transaction.
JournalInv ==
    /\ TypeOK
    /\ ReceivedOnce
    /\ NumberedInOrder
    /\ AliasesInScope
    /\ CallsHold
    /\ \A g \in Generations : cursor[g] <= Len(Source[g])

\* Line n of a source is stored with its own content, or quarantined.
Received(g, n) ==
    LET line == Source[g][n] IN
    IF line.kind = "bad"
    THEN [gen |-> g, at |-> n, body |-> line.body] \in quarantine
    ELSE \E i \in Stored(g, line.key) : events[i].body = line.body

\* Every line before the cursor was received: the cursor never passes a line
\* that was dropped by a crash between calls, by a reader that was overtaken or
\* by a key that another event had taken.
NothingSkipped == \A g \in Generations : \A n \in 1..cursor[g] : Received(g, n)

\* No call takes the journal back: events, receipts, aliases and the quarantine
\* only grow, and the cursor of a slow reader does not undo that of a fast one.
JournalGrows ==
    [][ /\ IsPrefix(events, events')
        /\ quarantine \subseteq quarantine'
        /\ \A g \in Generations : cursor'[g] >= cursor[g]
        /\ \A g \in Generations, k \in EventKeys : alias[g, k] # NoRow => alias'[g, k] = alias[g, k]
      ]_jvars

\* A key that was resolved keeps its event.  Not what the code does: append does
\* not look at aliases, and an event under the alias's own key takes it over.
ResolvesOnce ==
    [][\A g \in Generations, k \in EventKeys :
           Resolve(g, k) # NoRow => Resolve(g, k)' = Resolve(g, k)]_jvars

=============================================================================
