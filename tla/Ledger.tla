------------------------------- MODULE Ledger -------------------------------
(***************************************************************************)
(* The ledger of memories itself (ledger/service.py): opening the database *)
(* with its migrations, commit and forget with their receipts, what commit *)
(* of a batch creates, suppression of what was forgotten or superseded,    *)
(* and recall: a bundle assembled from the ledger (recall_policy.py) and   *)
(* verified before it is injected into a session (rollout.py,              *)
(* session_start).  Processes share the database file.  A receipt is       *)
(* looked up before the transaction that stores it, and a bundle is        *)
(* verified some time after it was assembled.                              *)
(*                                                                         *)
(* One owner.  The outbox is the subject of Projection.  A content stands  *)
(* for memory type, scope and payload together (the topic digest); a       *)
(* source for a source event and claim key.                                *)
(***************************************************************************)
EXTENDS Naturals, FiniteSets

CONSTANTS
    Procs,        \* processes with the database open
    Memories,     \* memory ids (uuids)
    NoMemory,
    Contents,
    Sources,
    Receipts,     \* receipts of commits
    Forgets,      \* receipts of forgets: a prefix keeps them apart
    NoReceipt,
    MaxRevision,  \* bound: revisions of a memory
    Version       \* SCHEMA_VERSION, here only the number of migrations

ASSUME LedgerAssumption ==
    /\ NoMemory \notin Memories /\ NoReceipt \notin Receipts \cup Forgets
    /\ Receipts \cap Forgets = {}
    /\ {"none", "erased"} \cap Contents = {} /\ "batch" \notin Receipts
    /\ MaxRevision \in Nat \ {0} /\ Version \in Nat \ {0}

Revisions == 1..MaxRevision
NoBody    == "none"
Erased    == "erased"    \* payload_json is '{}'
Batch     == "batch"     \* author of a revision that commit_batch made

(***************************************************************************)
(* Requests.  A commit of "new" gets a fresh memory id in commit, unless   *)
(* the caller chose one; the latter is left out.  "forget" has only a      *)
(* memory.                                                                 *)
(***************************************************************************)
Requests == [op : {"new"}, mem : {NoMemory}, base : {0}, content : Contents, source : Sources]
            \cup [op : {"refine", "confirm", "supersede"}, mem : Memories, base : Revisions,
                  content : Contents, source : Sources]
            \cup [op : {"forget"}, mem : Memories]

Results == [kind : {"rejected", "conflict", "forgotten"}]
           \cup [kind : {"committed"}, mem : Memories, rev : Revisions]

Empty == [kind |-> "none"]
Keys  == Receipts \cup Forgets

VARIABLES
    history,   \* schema_migrations
    conn,      \* what a process knows of them while it opens the database
    head,      \* memories: state and current_revision
    body,      \* revisions: the payload
    said,      \* every content a memory ever had (history)
    evidence,  \* sources linked to a memory by revision_evidence
    author,    \* the receipt a revision is due to (history)
    banned,    \* suppression_rules: contents and sources
    receipts,  \* commit_receipts: request_digest and result
    call       \* what a process is doing

lvars == <<history, conn, head, body, said, evidence, author, banned, receipts, call>>
store == <<head, body, said, evidence, author, banned, receipts>>

Closed == [phase |-> "closed"]
Idle   == [phase |-> "idle"]

Conns == [phase : {"opening"}, applied : SUBSET (1..Version)]

Calls == [phase : {"asked"}, receipt : Keys, req : Requests]
         \cup [phase : {"searched"}, hits : SUBSET (Memories \X Revisions)]
         \cup [phase : {"assembled"}, items : SUBSET (Memories \X Revisions)]
         \cup [phase : {"verifying"}, left : SUBSET (Memories \X Revisions),
               lost : SUBSET (Memories \X Revisions)]

LedgerTypeOK ==
    /\ history \subseteq 1..Version
    /\ conn \in [Procs -> Conns \cup {Closed, Idle}]
    /\ head \in [Memories -> [state : {"none", "active", "retired", "deleted"},
                              rev : 0..MaxRevision]]
    /\ body \in [Memories -> [Revisions -> Contents \cup {NoBody, Erased}]]
    /\ said \in [Memories -> SUBSET Contents]
    /\ evidence \in [Memories -> SUBSET Sources]
    /\ author \in [Memories -> [Revisions -> Receipts \cup {NoReceipt, Batch}]]
    /\ banned \subseteq Contents \cup Sources
    /\ receipts \in [Keys -> [req : Requests, result : Results] \cup {Empty}]
    /\ call \in [Procs -> Calls \cup {Idle}]

LedgerInit ==
    /\ history = {}
    /\ conn = [p \in Procs |-> Closed]
    /\ head = [m \in Memories |-> [state |-> "none", rev |-> 0]]
    /\ body = [m \in Memories |-> [n \in Revisions |-> NoBody]]
    /\ said = [m \in Memories |-> {}]
    /\ evidence = [m \in Memories |-> {}]
    /\ author = [m \in Memories |-> [n \in Revisions |-> NoReceipt]]
    /\ banned = {}
    /\ receipts = [r \in Keys |-> Empty]
    /\ call = [p \in Procs |-> Idle]

-----------------------------------------------------------------------------
(***************************************************************************)
(* Opening the database.  Which migrations have been applied is read once, *)
(* each missing one is a transaction.                                      *)
(***************************************************************************)
AllVersions == 1..Version

Connect(p) ==
    /\ conn[p] = Closed
    /\ conn' = [conn EXCEPT ![p] = [phase |-> "opening", applied |-> history]]
    /\ UNCHANGED <<history, store, call>>

\* The statements of a migration fail on tables that exist already.
MayApply(v) == v \notin history

Migrate(p) ==
    /\ conn[p].phase = "opening" /\ conn[p].applied # AllVersions
    /\ LET v == CHOOSE k \in AllVersions \ conn[p].applied :
                    \A j \in AllVersions \ conn[p].applied : k <= j
       IN \/ /\ MayApply(v)
             /\ history' = history \cup {v}
             /\ conn' = [conn EXCEPT ![p].applied = @ \cup {v}]
          \/ /\ ~MayApply(v)
             /\ conn' = [conn EXCEPT ![p] = Closed]
             /\ UNCHANGED history
    /\ UNCHANGED <<store, call>>

Opened(p) ==
    /\ conn[p].phase = "opening" /\ conn[p].applied = AllVersions
    /\ conn' = [conn EXCEPT ![p] = Idle]
    /\ UNCHANGED <<history, store, call>>

\* The process ends, or is killed, whatever it was doing.
Quit(p) ==
    /\ conn[p] # Closed
    /\ conn' = [conn EXCEPT ![p] = Closed]
    /\ call' = [call EXCEPT ![p] = Idle]
    /\ UNCHANGED <<history, store>>

Ready(p)      == conn[p] = Idle /\ call[p] = Idle
In(p, phase)  == call[p].phase = phase
Return(p)     == call' = [call EXCEPT ![p] = Idle]

-----------------------------------------------------------------------------
(***************************************************************************)
(* commit and forget.                                                      *)
(***************************************************************************)
\* The receipt is looked up: a stored one is answered from, or is refused
\* for another request, and changes nothing.
Ask(p, r, q) ==
    /\ Ready(p)
    /\ receipts[r] = Empty
    /\ r \in Forgets <=> q.op = "forget"
    /\ q.op # "new" => head[q.mem].state # "none"
    /\ call' = [call EXCEPT ![p] = [phase |-> "asked", receipt |-> r, req |-> q]]
    /\ UNCHANGED <<history, conn, store>>

Suppressed(q) == q.content \in banned \/ q.source \in banned

\* The conditions of commit for an existing memory.
Fits(q) ==
    /\ head[q.mem].state = "active"
    /\ head[q.mem].rev = q.base
    /\ q.op = "confirm" => body[q.mem][q.base] = q.content

\* The row of the first request is written over.
SavedSlip(r, q, result) == receipts' = [receipts EXCEPT ![r] = [req |-> q, result |-> result]]

\* The primary key of commit_receipts refuses a second row.
Saved(r, q, result) ==
    /\ receipts[r] = Empty
    /\ receipts' = [receipts EXCEPT ![r] = [req |-> q, result |-> result]]

\* _attach_evidence: the sources of a memory, each linked once.
Attach(m, sources) == evidence' = [evidence EXCEPT ![m] = @ \cup sources]

\* One more revision of m, by r.  The number the ledger gives it is left out:
\* bundles carry it, and nothing compares it.
Revise(m, content, sources, state, r) ==
    LET n == head[m].rev + 1 IN
    /\ n <= MaxRevision
    /\ head' = [head EXCEPT ![m] = [state |-> state, rev |-> n]]
    /\ body' = [body EXCEPT ![m][n] = content]
    /\ said' = [said EXCEPT ![m] = @ \cup {content}]
    /\ Attach(m, sources)
    /\ author' = [author EXCEPT ![m][n] = r]

Refuse(p, r, q, kind) ==
    /\ Saved(r, q, [kind |-> kind])
    /\ Return(p)
    /\ UNCHANGED <<history, conn, head, body, said, evidence, author, banned>>

\* The sources are not looked at.
CreatesSlip(q) == q.content \notin banned

\* commit looks at the content and at the sources, in the transaction.
Creates(q) == ~Suppressed(q)

CommitNew(p) ==
    /\ In(p, "asked")
    /\ LET q == call[p].req
           r == call[p].receipt
       IN /\ q.op = "new"
          /\ \/ /\ Creates(q)
                /\ \E m \in Memories :
                    /\ head[m].state = "none"
                    /\ Revise(m, q.content, {q.source}, "active", r)
                    /\ Saved(r, q, [kind |-> "committed", mem |-> m, rev |-> 1])
                /\ Return(p)
                /\ UNCHANGED <<history, conn, banned>>
             \/ ~Creates(q) /\ Refuse(p, r, q, "rejected")

\* _suppress_memory: the contents of all revisions and all linked sources.
Rules(m) == ({body[m][n] : n \in Revisions} \cap Contents) \cup evidence[m]

CommitChange(p) ==
    /\ In(p, "asked")
    /\ LET q == call[p].req
           r == call[p].receipt
           retired == q.op = "supersede"
       IN /\ q.op \in {"refine", "confirm", "supersede"}
          /\ \/ /\ Fits(q)
                /\ Revise(q.mem, q.content, {q.source},
                          IF retired THEN "retired" ELSE "active", r)
                /\ banned' = IF retired
                             THEN banned \cup Rules(q.mem) \cup {q.content, q.source}
                             ELSE banned
                /\ Saved(r, q, [kind |-> "committed", mem |-> q.mem, rev |-> q.base + 1])
                /\ Return(p)
                /\ UNCHANGED <<history, conn>>
             \/ ~Fits(q) /\ Refuse(p, r, q, "conflict")

\* forget of a memory that is deleted already answers with its job.
Forget(p) ==
    /\ In(p, "asked")
    /\ LET q == call[p].req
           r == call[p].receipt
           m == q.mem
       IN /\ q.op = "forget"
          /\ Saved(r, q, [kind |-> "forgotten"])
          /\ \/ /\ head[m].state # "deleted"
                /\ head' = [head EXCEPT ![m].state = "deleted"]
                /\ body' = [body EXCEPT ![m] = [n \in Revisions |->
                              IF @[n] = NoBody THEN NoBody ELSE Erased]]
                /\ banned' = banned \cup Rules(m)
             \/ head[m].state = "deleted" /\ UNCHANGED <<head, body, banned>>
    /\ Return(p)
    /\ UNCHANGED <<history, conn, said, evidence, author>>

\* The transaction fails on a receipt stored since it was looked up: the
\* caller gets sqlite3.IntegrityError and nothing is changed.
Raced(p) ==
    /\ In(p, "asked")
    /\ receipts[call[p].receipt] # Empty
    /\ Return(p)
    /\ UNCHANGED <<history, conn, store>>

\* commit_batch, "new": nobody asks what is suppressed.  The claim key of
\* its evidence is the proposal, which no other request names.
BatchNew(content) ==
    /\ \E p \in Procs : Ready(p)
    /\ \E m \in Memories : /\ head[m].state = "none"
                           /\ Revise(m, content, {}, "active", Batch)
    /\ UNCHANGED <<history, conn, banned, receipts, call>>

-----------------------------------------------------------------------------
(***************************************************************************)
(* Recall at the start of a session.  The backend answers with projections *)
(* of any age.                                                             *)
(***************************************************************************)
Known == {h \in Memories \X Revisions : body[h[1]][h[2]] # NoBody}

Search(p) ==
    /\ Ready(p)
    /\ \E hits \in SUBSET Known :
        /\ hits # {}
        /\ call' = [call EXCEPT ![p] = [phase |-> "searched", hits |-> hits]]
    /\ UNCHANGED <<history, conn, store>>

Current(h) == head[h[1]] = [state |-> "active", rev |-> h[2]]

Taken(hits) == {h \in hits : Current(h)}

\* assemble, in one snapshot of the ledger.  Hits the budget or the scope
\* leaves out are a bundle from fewer hits.
Assemble(p) ==
    /\ In(p, "searched")
    /\ call' = [call EXCEPT ![p] = [phase |-> "assembled", items |-> Taken(call[p].hits)]]
    /\ UNCHANGED <<history, conn, store>>

\* verify_bundle: refused when the run is over by now, else the heads are read
\* again.  What had stopped being current by then is remembered (history).
Verify(p) ==
    /\ In(p, "assembled")
    /\ LET items == call[p].items
       IN \/ Return(p)
          \/ call' = [call EXCEPT ![p] = [phase |-> "verifying", left |-> items,
                                          lost |-> {h \in items : ~Current(h)}]]
    /\ UNCHANGED <<history, conn, store>>

\* A memory's state is not looked at.
StandsSlip(h) == head[h[1]].rev = h[2]

Stands(h) == Current(h)

\* One by one; a bundle with an item that fails is not injected, any other is
\* (and recorded).
VerifyItem(p) ==
    /\ In(p, "verifying")
    /\ \E h \in call[p].left :
        \/ Stands(h) /\ call' = [call EXCEPT ![p].left = @ \ {h}]
        \/ ~Stands(h) /\ Return(p)
    /\ UNCHANGED <<history, conn, store>>

Inject(p) ==
    /\ In(p, "verifying") /\ call[p].left = {}
    /\ Return(p)
    /\ UNCHANGED <<history, conn, store>>

-----------------------------------------------------------------------------
Serve(p) ==
    \/ \E r \in Keys, q \in Requests : Ask(p, r, q)
    \/ CommitNew(p) \/ CommitChange(p) \/ Forget(p) \/ Raced(p)
    \/ Search(p) \/ Assemble(p) \/ Verify(p) \/ VerifyItem(p) \/ Inject(p)

Open(p) == Connect(p) \/ Migrate(p) \/ Opened(p)

LedgerNext ==
    \/ \E p \in Procs : Open(p) \/ Serve(p) \/ Quit(p)
    \/ \E x \in Contents : BatchNew(x)

LedgerSpec == LedgerInit /\ [][LedgerNext]_lvars

-----------------------------------------------------------------------------
\* The receipts and the revisions tell the same story: a receipt that says
\* committed names the revision its request made, and a revision by a
\* request has the receipt that says so.  No request is applied twice.
ReceiptsTellRevisions ==
    /\ \A r \in Receipts : receipts[r] # Empty =>
         LET res == receipts[r].result
         IN  res.kind = "committed" => author[res.mem][res.rev] = r
    /\ \A m \in Memories, n \in Revisions : author[m][n] \in Receipts =>
         /\ receipts[author[m][n]] # Empty
         /\ receipts[author[m][n]].result = [kind |-> "committed", mem |-> m, rev |-> n]

Gone(m) == head[m].state \in {"retired", "deleted"}

\* What is gone is suppressed whole: every content the memory ever had and
\* every source it was ever linked to, also those of revisions that were
\* replaced long before; of a forgotten one no body is left.
GoneIsSuppressed ==
    \A m \in Memories : Gone(m) =>
        /\ said[m] \cup evidence[m] \subseteq banned
        /\ head[m].state = "deleted" => \A n \in Revisions : body[m][n] \notin Contents

\* A memory that does not exist has nothing; nothing is written past the
\* current revision; until a memory is forgotten, what it said can be read.
RowsInOrder ==
    \A m \in Memories :
        /\ head[m].state = "none" => head[m].rev = 0 /\ said[m] = {} /\ evidence[m] = {}
        /\ \A n \in Revisions : n > head[m].rev =>
             body[m][n] = NoBody /\ author[m][n] = NoReceipt
        /\ head[m].state # "deleted" => said[m] \subseteq {body[m][n] : n \in Revisions}

\* A revision there is, current or not.
Made(h) == head[h[1]].state # "none" /\ h[2] <= head[h[1]].rev

\* What a process holds while it waits for its transaction, or to verify.
CallsInOrder ==
    \A p \in Procs :
        /\ In(p, "asked") =>
             /\ (call[p].receipt \in Forgets) <=> (call[p].req.op = "forget")
             /\ call[p].req.op # "new" => head[call[p].req.mem].state # "none"
        /\ In(p, "assembled") => \A h \in call[p].items : Made(h)
        /\ In(p, "verifying") => \A h \in call[p].lost : Made(h)

\* Nobody works on a database that lacks a migration.
MigratedFirst ==
    \A p \in Procs :
        /\ conn[p].phase = "opening" => conn[p].applied \subseteq history
        /\ conn[p] = Idle => history = AllVersions

\* The inductive invariant: receipts that agree with the revisions,
\* suppression of what is gone, and what these rest on.
LedgerInv ==
    /\ LedgerTypeOK
    /\ RowsInOrder
    /\ CallsInOrder
    /\ MigratedFirst
    /\ ReceiptsTellRevisions
    /\ GoneIsSuppressed

\* m comes into being with a content or a source that a memory had which is
\* gone by then.
Revived(m) ==
    /\ head[m].state = "none" /\ head'[m].state # "none"
    /\ \E g \in Memories : Gone(g) /\ \/ body'[m][1] \in said[g]
                                      \/ evidence'[m] \cap evidence[g] # {}

\* commit never brings back what was forgotten or superseded, whatever was
\* suppressed between the request and its transaction.
CommitRevivesNothing ==
    [][\A m \in Memories : Revived(m) => author'[m][1] = Batch]_lvars

\* Nothing brings it back, the commit of a batch included (the design of
\* the maintenance: the commit checks the suppression again).
RevivesNothing == [][\A m \in Memories : ~Revived(m)]_lvars

\* A bundle that is about to be injected has nothing in it that had stopped
\* being current, replaced, retired or forgotten, when its verification began,
\* however long before that it was searched and assembled and whatever other
\* processes did.  What stops being current after its own check is still
\* injected.
InjectedWasCurrent ==
    \A p \in Procs : In(p, "verifying") /\ call[p].left = {} => call[p].lost = {}

=============================================================================
