----------------------------- MODULE LedgerProofs -----------------------------
(***************************************************************************)
(* The ledger for any number of processes, memories, contents, sources,    *)
(* receipts, revisions and migrations.  LedgerInv is inductive together    *)
(* with VerifyingInOrder.  Whatever an action does to the rows of a         *)
(* memory is one more revision (Revised) or its erasure (Erasing); the     *)
(* rest leaves the store alone (StoreUntouched).                           *)
(***************************************************************************)
EXTENDS Ledger, FiniteSetTheorems, WellFoundedInduction, TLAPS

\* What had stopped being current when a verification began is not current, and
\* has not been checked off.
VerifyingInOrder ==
    \A p \in Procs : In(p, "verifying") =>
        call[p].lost \subseteq call[p].left /\ \A h \in call[p].lost : ~Current(h)

IInv == LedgerInv /\ VerifyingInOrder

-----------------------------------------------------------------------------
(***************************************************************************)
(* Shapes: what a request, a result or a call is by its kind.              *)
(***************************************************************************)
\* The fields of a request by its operation.
LEMMA RequestShape ==
    ASSUME NEW q \in Requests
    PROVE  /\ q.op \in {"new", "refine", "confirm", "supersede", "forget"}
           /\ q.op # "forget" => q.content \in Contents /\ q.source \in Sources
           /\ q.op # "new" => q.mem \in Memories
           /\ q.op \in {"refine", "confirm", "supersede"} => q.base \in Revisions
BY DEF Requests

\* The fields of a call by its phase.
LEMMA CallShape ==
    ASSUME LedgerTypeOK, NEW p \in Procs
    PROVE  /\ call[p].phase \in {"idle", "asked", "searched", "assembled", "verifying"}
           /\ call[p].phase = "asked" => call[p].receipt \in Keys /\ call[p].req \in Requests
           /\ call[p].phase = "searched" => call[p].hits \in SUBSET (Memories \X Revisions)
           /\ call[p].phase = "assembled" => call[p].items \in SUBSET (Memories \X Revisions)
           /\ call[p].phase = "verifying" => /\ call[p].left \in SUBSET (Memories \X Revisions)
                                             /\ call[p].lost \in SUBSET (Memories \X Revisions)
<1>1. call[p] \in Calls \cup {Idle}
  BY DEF LedgerTypeOK
<1> QED
  BY <1>1 DEF Calls, Idle

\* The calls there are.
LEMMA CallMade ==
    /\ Idle \in Calls \cup {Idle}
    /\ \A r \in Keys, q \in Requests :
         [phase |-> "asked", receipt |-> r, req |-> q] \in Calls
    /\ \A hits \in SUBSET (Memories \X Revisions) :
         [phase |-> "searched", hits |-> hits] \in Calls
    /\ \A items \in SUBSET (Memories \X Revisions) :
         [phase |-> "assembled", items |-> items] \in Calls
    /\ \A left, lost \in SUBSET (Memories \X Revisions) :
         [phase |-> "verifying", left |-> left, lost |-> lost] \in Calls
BY DEF Calls

\* The results there are.
LEMMA ResultMade ==
    /\ \A k \in {"rejected", "conflict", "forgotten"} : [kind |-> k] \in Results
    /\ \A m \in Memories, n \in Revisions :
         [kind |-> "committed", mem |-> m, rev |-> n] \in Results
BY DEF Results

\* A stored receipt, and a committed one.
LEMMA ReceiptShape ==
    ASSUME LedgerTypeOK, NEW r \in Keys, receipts[r] # Empty
    PROVE  /\ receipts[r].result \in Results
           /\ receipts[r].result.kind = "committed" =>
                receipts[r].result.mem \in Memories /\ receipts[r].result.rev \in Revisions
<1>1. receipts[r] \in [req : Requests, result : Results]
  BY DEF LedgerTypeOK
<1> QED
  BY <1>1 DEF Results

\* The initial state satisfies the invariant.
LEMMA InitIInv == LedgerInit => IInv
<1> SUFFICES ASSUME LedgerInit PROVE IInv
  OBVIOUS
<1> USE LedgerAssumption
<1>1. LedgerTypeOK
  BY DEF LedgerInit, LedgerTypeOK, Closed, Idle, Revisions
<1>2. RowsInOrder
  BY DEF LedgerInit, RowsInOrder, Revisions
<1>3. CallsInOrder
  BY DEF LedgerInit, CallsInOrder, In, Idle
<1>4. MigratedFirst
  BY DEF LedgerInit, MigratedFirst, Closed, Idle
<1>5. ReceiptsTellRevisions
  BY DEF LedgerInit, ReceiptsTellRevisions, Empty, Keys, Revisions
<1>6. GoneIsSuppressed
  BY DEF LedgerInit, GoneIsSuppressed, Gone
<1>7. VerifyingInOrder
  BY DEF LedgerInit, VerifyingInOrder, In, Idle
<1> QED
  BY <1>1, <1>2, <1>3, <1>4, <1>5, <1>6, <1>7 DEF IInv, LedgerInv

-----------------------------------------------------------------------------
(***************************************************************************)
(* What leaves the store alone: opening, reading, quitting.                *)
(***************************************************************************)
\* With the store unchanged, what speaks of the store alone stands.
LEMMA StoreUntouched ==
    ASSUME IInv, UNCHANGED store
    PROVE  RowsInOrder' /\ ReceiptsTellRevisions' /\ GoneIsSuppressed'
<1>1. RowsInOrder'
  BY DEF IInv, LedgerInv, RowsInOrder, store
<1>2. ReceiptsTellRevisions'
  BY DEF IInv, LedgerInv, ReceiptsTellRevisions, store
<1>3. GoneIsSuppressed'
  BY DEF IInv, LedgerInv, GoneIsSuppressed, Gone, store
<1> QED
  BY <1>1, <1>2, <1>3

\* A process's call becomes c, and c is in order.
LEMMA CallStep ==
    ASSUME IInv, NEW p \in Procs, NEW c \in Calls \cup {Idle},
           UNCHANGED <<history, conn, store>>,
           call' = [call EXCEPT ![p] = c],
           c.phase = "asked" => /\ (c.receipt \in Forgets) <=> (c.req.op = "forget")
                                /\ c.req.op # "new" => head[c.req.mem].state # "none",
           c.phase = "assembled" => \A h \in c.items : Made(h),
           c.phase = "verifying" => /\ c.lost \subseteq c.left
                                    /\ \A h \in c.lost : Made(h) /\ ~Current(h)
    PROVE  IInv'
<1> USE DEF store
<1>1. LedgerTypeOK'
  BY DEF IInv, LedgerInv, LedgerTypeOK
<1>2. \A w \in Procs : call'[w] = IF w = p THEN c ELSE call[w]
  BY DEF IInv, LedgerInv, LedgerTypeOK
<1>3. CallsInOrder'
  <2> SUFFICES ASSUME NEW w \in Procs
               PROVE  /\ In(w, "asked")' =>
                           /\ (call'[w].receipt \in Forgets) <=> (call'[w].req.op = "forget")
                           /\ call'[w].req.op # "new" => head[call'[w].req.mem].state # "none"
                      /\ In(w, "assembled")' => \A h \in call'[w].items : Made(h)
                      /\ In(w, "verifying")' => \A h \in call'[w].lost : Made(h)
    BY DEF CallsInOrder, Made
  <2>1. CASE w = p
    BY <2>1, <1>2 DEF In
  <2>2. CASE w # p
    BY <2>2, <1>2 DEF IInv, LedgerInv, CallsInOrder, In
  <2> QED
    BY <2>1, <2>2
<1>4. MigratedFirst'
  BY DEF IInv, LedgerInv, MigratedFirst
<1>5. VerifyingInOrder'
  <2> SUFFICES ASSUME NEW w \in Procs, In(w, "verifying")'
               PROVE  /\ call'[w].lost \subseteq call'[w].left
                      /\ \A h \in call'[w].lost : ~Current(h)
    BY DEF VerifyingInOrder, Current
  <2>1. CASE w = p
    BY <2>1, <1>2 DEF In
  <2>2. CASE w # p
    BY <2>2, <1>2 DEF IInv, VerifyingInOrder, In
  <2> QED
    BY <2>1, <2>2
<1> QED
  BY <1>1, <1>3, <1>4, <1>5, StoreUntouched DEF IInv, LedgerInv

-----------------------------------------------------------------------------
(***************************************************************************)
(* Opening, quitting and the actions that only read.                       *)
(***************************************************************************)
\* A set of numbers that is not empty has a smallest one: of the intervals
\* 1..k for its members, one contains no other.
LEMMA Least ==
    ASSUME NEW T, T \subseteq Nat, T # {}
    PROVE  \E k \in T : \A j \in T : k <= j
<1> DEFINE I == {1..k : k \in T}
           R == StrictSubsetOrdering(Nat)
<1>1. I \subseteq FiniteSubsetsOf(Nat)
  <2> SUFFICES ASSUME NEW k \in T PROVE 1..k \in FiniteSubsetsOf(Nat)
    OBVIOUS
  <2>1. IsFiniteSet(1..k)
    BY FS_Interval
  <2> QED
    BY <2>1 DEF FiniteSubsetsOf
<1>2. PICK s \in I : \A t \in I : ~ (<<t, s>> \in R)
  <2>1. IsWellFoundedOn(R, FiniteSubsetsOf(Nat))
    BY FS_StrictSubsetOrderingWellFounded
  <2>2. I # {}
    OBVIOUS
  <2> HIDE DEF I, R
  <2> QED
    BY <1>1, <2>1, <2>2, WFMin
<1>3. PICK k \in T : s = 1..k
  OBVIOUS
<1>4. ASSUME NEW j \in T, j < k
      PROVE  FALSE
  <2>1. 1..j \in I /\ 1..j \in SUBSET Nat /\ 1..k \in SUBSET Nat
    OBVIOUS
  <2>2. 1..j \subseteq 1..k /\ k \in 1..k /\ k \notin 1..j
    BY <1>4
  <2>3. <<1..j, 1..k>> \in R
    BY <2>1, <2>2 DEF StrictSubsetOrdering
  <2> QED
    BY <1>2, <1>3, <2>1, <2>3
<1> QED
  BY <1>4

\* The connection of p changes, perhaps with one migration more.
LEMMA OpenStep ==
    ASSUME IInv, NEW p \in Procs, NEW c \in Conns \cup {Closed, Idle},
           UNCHANGED <<store, call>>,
           conn' = [conn EXCEPT ![p] = c],
           history \subseteq history', history' \subseteq AllVersions,
           c.phase = "opening" => c.applied \subseteq history',
           c = Idle => history' = AllVersions
    PROVE  IInv'
<1>1. LedgerTypeOK'
  BY DEF IInv, LedgerInv, LedgerTypeOK, store, AllVersions
<1>2. \A w \in Procs : conn'[w] = IF w = p THEN c ELSE conn[w]
  BY DEF IInv, LedgerInv, LedgerTypeOK
<1>3. CallsInOrder'
  BY DEF IInv, LedgerInv, CallsInOrder, In, Made, store
<1>4. MigratedFirst'
  <2> SUFFICES ASSUME NEW w \in Procs
               PROVE  /\ conn'[w].phase = "opening" => conn'[w].applied \subseteq history'
                      /\ conn'[w] = Idle => history' = AllVersions
    BY DEF MigratedFirst
  <2>1. CASE w = p
    BY <2>1, <1>2
  <2>2. CASE w # p
    BY <2>2, <1>2 DEF IInv, LedgerInv, MigratedFirst
  <2> QED
    BY <2>1, <2>2
<1>5. VerifyingInOrder'
  BY DEF IInv, VerifyingInOrder, In, Current, store
<1> QED
  BY <1>1, <1>3, <1>4, <1>5, StoreUntouched DEF IInv, LedgerInv

LEMMA ConnectKeeps == ASSUME IInv, NEW p \in Procs, Connect(p) PROVE IInv'
<1> DEFINE c == [phase |-> "opening", applied |-> history]
<1>1. c \in Conns /\ history \subseteq AllVersions /\ c # Idle /\ c.applied = history
  BY DEF IInv, LedgerInv, LedgerTypeOK, Conns, AllVersions, Idle
<1>2. conn' = [conn EXCEPT ![p] = c] /\ UNCHANGED <<store, call>> /\ history' = history
  BY DEF Connect
<1> HIDE DEF c
<1> QED
  BY <1>1, <1>2, OpenStep

LEMMA MigrateKeeps == ASSUME IInv, NEW p \in Procs, Migrate(p) PROVE IInv'
<1> USE LedgerAssumption
<1> DEFINE missing == AllVersions \ conn[p].applied
           v == CHOOSE k \in missing : \A j \in missing : k <= j
<1>1. conn[p] \in Conns /\ conn[p].applied \subseteq AllVersions
      /\ history \subseteq AllVersions /\ conn[p].applied \subseteq history
  <2>1. conn[p] \in Conns \cup {Closed, Idle} /\ conn[p].phase = "opening"
    BY DEF IInv, LedgerInv, LedgerTypeOK, Migrate
  <2>2. conn[p] \in Conns /\ conn[p].applied \subseteq AllVersions
    BY <2>1 DEF Conns, Closed, Idle, AllVersions
  <2>3. history \subseteq AllVersions /\ conn[p].applied \subseteq history
    BY <2>1 DEF IInv, LedgerInv, LedgerTypeOK, MigratedFirst, AllVersions
  <2> QED
    BY <2>2, <2>3
<1>2. v \in missing
  <2>1. missing # {} /\ missing \subseteq Nat
    <3>1. conn[p].applied # AllVersions
      BY DEF Migrate
    <3>2. missing # {}
      <4> DEFINE a == conn[p].applied
      <4>1. a \subseteq AllVersions /\ a # AllVersions
        BY <1>1, <3>1
      <4> HIDE DEF a
      <4>2. \E k \in AllVersions : k \notin a
        BY <4>1, Zenon
      <4> QED
        BY <4>2 DEF a
    <3>3. missing \subseteq Nat
      BY DEF AllVersions
    <3> QED
      BY <3>2, <3>3
  <2>2. \E k \in missing : \A j \in missing : k <= j
    BY <2>1, Least
  <2> QED
    BY <2>2
<1>3. UNCHANGED <<store, call>>
  BY DEF Migrate
<1>4. CASE /\ history' = history \cup {v}
           /\ conn' = [conn EXCEPT ![p].applied = @ \cup {v}]
  <2> DEFINE c == [conn[p] EXCEPT !.applied = @ \cup {v}]
  <2>1. c \in Conns /\ c # Idle /\ c.applied \subseteq history'
    BY <1>1, <1>2, <1>4 DEF Conns, Idle, AllVersions
  <2>2. conn' = [conn EXCEPT ![p] = c]
    BY <1>4
  <2>3. history \subseteq history' /\ history' \subseteq AllVersions
    BY <1>1, <1>2, <1>4
  <2> HIDE DEF c, v, missing
  <2> QED
    BY <1>3, <2>1, <2>2, <2>3, OpenStep
<1>5. CASE conn' = [conn EXCEPT ![p] = Closed] /\ history' = history
  <2>1. Closed.phase # "opening" /\ Closed # Idle
    BY DEF Closed, Idle
  <2> QED
    BY <1>1, <1>3, <1>5, <2>1, OpenStep
<1> QED
  BY <1>4, <1>5 DEF Migrate

LEMMA OpenedKeeps == ASSUME IInv, NEW p \in Procs, Opened(p) PROVE IInv'
<1>1. history = AllVersions
  BY DEF Opened, IInv, LedgerInv, LedgerTypeOK, MigratedFirst, AllVersions
<1>2. Idle.phase # "opening"
  BY DEF Idle
<1>3. conn' = [conn EXCEPT ![p] = Idle] /\ UNCHANGED <<store, call>> /\ history' = history
  BY DEF Opened
<1> QED
  BY <1>1, <1>2, <1>3, OpenStep

\* Quitting is closing the connection and being idle: both, one after the
\* other, would be steps of the two lemmas above.
LEMMA QuitKeeps == ASSUME IInv, NEW p \in Procs, Quit(p) PROVE IInv'
<1>1. LedgerTypeOK'
  BY DEF IInv, LedgerInv, LedgerTypeOK, Quit, store
<1>2. /\ \A w \in Procs : call'[w] = call[w] \/ call'[w] = Idle
      /\ \A w \in Procs : conn'[w] = conn[w] \/ conn'[w] = Closed
  BY DEF IInv, LedgerInv, LedgerTypeOK, Quit
<1>3. UNCHANGED <<history, store>>
  BY DEF Quit
<1>4. CallsInOrder'
  BY <1>2, <1>3 DEF IInv, LedgerInv, CallsInOrder, In, Idle, Made, store
<1>5. MigratedFirst'
  BY <1>2, <1>3 DEF IInv, LedgerInv, MigratedFirst, Closed, Idle
<1>6. VerifyingInOrder'
  <2> SUFFICES ASSUME NEW w \in Procs, In(w, "verifying")'
               PROVE  /\ call'[w].lost \subseteq call'[w].left
                      /\ \A h \in call'[w].lost : ~Current(h)'
    BY DEF VerifyingInOrder
  <2>1. call'[w] = call[w] /\ In(w, "verifying")
    BY <1>2 DEF In, Idle
  <2> QED
    BY <2>1, <1>3 DEF IInv, VerifyingInOrder, Current, store
<1> QED
  BY <1>1, <1>3, <1>4, <1>5, <1>6, StoreUntouched DEF IInv, LedgerInv

\* A process that is done with its call, with nothing changed.
LEMMA DoneKeeps ==
    ASSUME IInv, NEW p \in Procs, Return(p), UNCHANGED <<history, conn, store>>
    PROVE  IInv'
<1>1. Idle.phase = "idle" /\ Idle \in Calls \cup {Idle}
  BY DEF Idle
<1> QED
  BY <1>1, CallStep DEF Return

LEMMA AskKeeps ==
    ASSUME IInv, NEW p \in Procs, NEW r \in Keys, NEW q \in Requests, Ask(p, r, q)
    PROVE  IInv'
<1> DEFINE c == [phase |-> "asked", receipt |-> r, req |-> q]
<1>1. c \in Calls \cup {Idle} /\ c.phase = "asked" /\ c.receipt = r /\ c.req = q
  BY CallMade
<1>2. /\ UNCHANGED <<history, conn, store>> /\ call' = [call EXCEPT ![p] = c]
      /\ (r \in Forgets) <=> (q.op = "forget")
      /\ q.op # "new" => head[q.mem].state # "none"
  BY DEF Ask
<1> HIDE DEF c
<1> QED
  BY <1>1, <1>2, CallStep

LEMMA SearchKeeps == ASSUME IInv, NEW p \in Procs, Search(p) PROVE IInv'
<1>1. PICK hits \in SUBSET Known :
        call' = [call EXCEPT ![p] = [phase |-> "searched", hits |-> hits]]
  BY DEF Search
<1> DEFINE c == [phase |-> "searched", hits |-> hits]
<1>2. c \in Calls \cup {Idle} /\ c.phase = "searched"
  BY CallMade DEF Known
<1>3. UNCHANGED <<history, conn, store>> /\ call' = [call EXCEPT ![p] = c]
  BY <1>1 DEF Search
<1> HIDE DEF c
<1> QED
  BY <1>2, <1>3, CallStep

LEMMA AssembleKeeps == ASSUME IInv, NEW p \in Procs, Assemble(p) PROVE IInv'
<1> DEFINE items == Taken(call[p].hits)
           c == [phase |-> "assembled", items |-> items]
<1>1. items \in SUBSET (Memories \X Revisions) /\ \A h \in items : Current(h)
  BY CallShape DEF Assemble, In, Taken, IInv, LedgerInv
<1>2. \A h \in items : Made(h)
  <2> SUFFICES ASSUME NEW h \in items PROVE Made(h)
    OBVIOUS
  <2>1. head[h[1]] = [state |-> "active", rev |-> h[2]] /\ h[2] \in Nat
    BY <1>1 DEF Current, Revisions
  <2> QED
    BY <2>1 DEF Made
<1>3. c \in Calls \cup {Idle}
  <2> HIDE DEF items
  <2> QED
    BY <1>1, CallMade
<1>4. c.phase = "assembled" /\ c.items = items
  OBVIOUS
<1>5. UNCHANGED <<history, conn, store>> /\ call' = [call EXCEPT ![p] = c]
  BY DEF Assemble
<1> HIDE DEF c, items
<1> QED
  BY <1>2, <1>3, <1>4, <1>5, CallStep

LEMMA VerifyKeeps == ASSUME IInv, NEW p \in Procs, Verify(p) PROVE IInv'
<1> DEFINE items == call[p].items
           lost == {h \in items : ~Current(h)}
           c == [phase |-> "verifying", left |-> items, lost |-> lost]
<1>1. UNCHANGED <<history, conn, store>> /\ In(p, "assembled")
  BY DEF Verify
<1>2. items \in SUBSET (Memories \X Revisions) /\ \A h \in items : Made(h)
  BY <1>1, CallShape DEF In, IInv, LedgerInv, CallsInOrder
<1>3. CASE Return(p)
  BY <1>1, <1>3, DoneKeeps
<1>4. CASE call' = [call EXCEPT ![p] = c]
  <2>1. lost \in SUBSET (Memories \X Revisions) /\ lost \subseteq items
        /\ \A h \in lost : Made(h) /\ ~Current(h)
    BY <1>2
  <2>2. c.phase = "verifying" /\ c.left = items /\ c.lost = lost
    OBVIOUS
  <2>3. c \in Calls \cup {Idle}
    <3> HIDE DEF items, lost
    <3> QED
      BY <1>2, <2>1, CallMade
  <2> HIDE DEF c, items, lost
  <2> QED
    BY <1>1, <1>4, <2>1, <2>2, <2>3, CallStep
<1> QED
  BY <1>3, <1>4 DEF Verify

LEMMA VerifyItemKeeps == ASSUME IInv, NEW p \in Procs, VerifyItem(p) PROVE IInv'
<1>1. UNCHANGED <<history, conn, store>> /\ In(p, "verifying")
  BY DEF VerifyItem
<1>2. CASE Return(p)
  BY <1>1, <1>2, DoneKeeps
<1>3. ASSUME NEW h \in call[p].left, Current(h), call' = [call EXCEPT ![p].left = @ \ {h}]
      PROVE  IInv'
  <2> DEFINE c == [call[p] EXCEPT !.left = @ \ {h}]
  <2>1. call[p] \in Calls
    BY <1>1 DEF IInv, LedgerInv, LedgerTypeOK, In, Idle
  <2>2. c \in Calls /\ c.phase = "verifying" /\ c.lost = call[p].lost /\ c.left = call[p].left \ {h}
    BY <1>1, <2>1 DEF In, Calls
  <2>3. /\ call[p].lost \subseteq call[p].left
        /\ \A i \in call[p].lost : Made(i) /\ ~Current(i)
    BY <1>1 DEF IInv, LedgerInv, CallsInOrder, VerifyingInOrder
  <2>4. call' = [call EXCEPT ![p] = c]
    BY <1>3
  <2>5. c.lost \subseteq c.left
    BY <1>3, <2>2, <2>3
  <2> HIDE DEF c
  <2> QED
    BY <1>1, <2>2, <2>3, <2>4, <2>5, CallStep
<1> QED
  BY <1>2, <1>3 DEF VerifyItem, Stands

-----------------------------------------------------------------------------
(***************************************************************************)
(* The transactions.                                                       *)
(***************************************************************************)
\* A memory stays, its revisions are counted up, and what is no longer active
\* is active again, if at all, at another revision.
HeadGoesOn(m) ==
    head[m].state # "none" =>
        /\ head'[m].state # "none" /\ head[m].rev <= head'[m].rev
        /\ head'[m].rev = head[m].rev /\ head'[m].state = "active" => head[m].state = "active"

\* What is not current any more does not become current again.
LEMMA StaysLost ==
    ASSUME LedgerTypeOK, NEW h \in Memories \X Revisions, Made(h), HeadGoesOn(h[1]),
           head' \in [Memories -> [state : {"none", "active", "retired", "deleted"},
                                   rev : 0..MaxRevision]]
    PROVE  Made(h)' /\ (~Current(h) => ~Current(h)')
<1> DEFINE m == h[1]
<1>1. m \in Memories /\ h[2] \in Nat
  BY DEF Revisions
<1>2. /\ head[m] = [state |-> head[m].state, rev |-> head[m].rev] /\ head[m].rev \in Nat
      /\ head'[m] = [state |-> head'[m].state, rev |-> head'[m].rev] /\ head'[m].rev \in Nat
  BY <1>1, LedgerAssumption DEF LedgerTypeOK
<1>3. /\ Current(h) <=> head[m].state = "active" /\ head[m].rev = h[2]
      /\ Current(h)' <=> head'[m].state = "active" /\ head'[m].rev = h[2]
  BY <1>2 DEF Current
<1> QED
  BY <1>1, <1>2, <1>3 DEF Made, HeadGoesOn

\* Whoever is at work on something else goes on.
LEMMA OthersGoOn ==
    ASSUME IInv, NEW p \in Procs, Return(p) \/ call' = call,
           UNCHANGED <<history, conn>>,
           head' \in [Memories -> [state : {"none", "active", "retired", "deleted"},
                                   rev : 0..MaxRevision]],
           \A m \in Memories : HeadGoesOn(m)
    PROVE  /\ call' \in [Procs -> Calls \cup {Idle}]
           /\ CallsInOrder' /\ MigratedFirst' /\ VerifyingInOrder'
<1> USE DEF Return
<1>1. call' \in [Procs -> Calls \cup {Idle}]
  BY DEF IInv, LedgerInv, LedgerTypeOK
<1>2. \A w \in Procs : call'[w] = call[w] \/ call'[w] = Idle
  BY DEF IInv, LedgerInv, LedgerTypeOK
<1>3. ASSUME NEW w \in Procs, call'[w] # Idle
      PROVE  /\ call'[w] = call[w]
             /\ In(w, "assembled") => \A h \in call[w].items : Made(h)'
             /\ In(w, "verifying") => /\ call[w].lost \subseteq call[w].left
                                      /\ \A h \in call[w].lost : Made(h)' /\ ~Current(h)'
  <2>1. call'[w] = call[w]
    BY <1>2, <1>3
  <2>2. ASSUME In(w, "assembled"), NEW h \in call[w].items
        PROVE  Made(h)'
    <3>1. h \in Memories \X Revisions /\ Made(h)
      BY <2>2, CallShape DEF In, IInv, LedgerInv, CallsInOrder
    <3>2. h[1] \in Memories
      BY <3>1
    <3> QED
      BY <3>1, <3>2, StaysLost DEF IInv, LedgerInv
  <2>3. ASSUME In(w, "verifying"), NEW h \in call[w].lost
        PROVE  Made(h)' /\ ~Current(h)'
    <3>1. h \in Memories \X Revisions /\ Made(h) /\ ~Current(h)
      BY <2>3, CallShape DEF In, IInv, LedgerInv, CallsInOrder, VerifyingInOrder
    <3>2. h[1] \in Memories
      BY <3>1
    <3> QED
      BY <3>1, <3>2, StaysLost DEF IInv, LedgerInv
  <2>4. In(w, "verifying") => call[w].lost \subseteq call[w].left
    BY DEF IInv, VerifyingInOrder
  <2> QED
    BY <2>1, <2>2, <2>3, <2>4
<1>4. CallsInOrder'
  <2> SUFFICES ASSUME NEW w \in Procs
               PROVE  /\ In(w, "asked")' =>
                           /\ (call'[w].receipt \in Forgets) <=> (call'[w].req.op = "forget")
                           /\ call'[w].req.op # "new" => head'[call'[w].req.mem].state # "none"
                      /\ In(w, "assembled")' => \A h \in call'[w].items : Made(h)'
                      /\ In(w, "verifying")' => \A h \in call'[w].lost : Made(h)'
    BY DEF CallsInOrder
  <2>1. CASE call'[w] = Idle
    BY <2>1 DEF In, Idle
  <2>2. CASE call'[w] # Idle
    <3>1. ASSUME In(w, "asked")
          PROVE  /\ (call[w].receipt \in Forgets) <=> (call[w].req.op = "forget")
                 /\ call[w].req.op # "new" => head'[call[w].req.mem].state # "none"
      <4>1. call[w].req \in Requests
        BY <3>1, CallShape DEF In, IInv, LedgerInv
      <4>2. call[w].req.op # "new" => call[w].req.mem \in Memories
        BY <4>1, RequestShape
      <4> QED
        BY <3>1, <4>2 DEF IInv, LedgerInv, CallsInOrder, HeadGoesOn
    <3> QED
      BY <2>2, <3>1, <1>3 DEF In
  <2> QED
    BY <2>1, <2>2
<1>5. MigratedFirst'
  BY DEF IInv, LedgerInv, MigratedFirst
<1>6. VerifyingInOrder'
  <2> SUFFICES ASSUME NEW w \in Procs, In(w, "verifying")'
               PROVE  /\ call'[w].lost \subseteq call'[w].left
                      /\ \A h \in call'[w].lost : ~Current(h)'
    BY DEF VerifyingInOrder
  <2>1. call'[w] # Idle
    BY DEF In, Idle
  <2> QED
    BY <2>1, <1>3 DEF In
<1> QED
  BY <1>1, <1>4, <1>5, <1>6

\* A receipt stored for a request that made no revision.
LEMMA SlipOnly ==
    ASSUME IInv, NEW r \in Keys, NEW q \in Requests,
           NEW kind \in {"rejected", "conflict", "forgotten"},
           Saved(r, q, [kind |-> kind]), UNCHANGED author
    PROVE  ReceiptsTellRevisions' /\ receipts' \in [Keys -> [req : Requests, result : Results] \cup {Empty}]
<1> DEFINE row == [req |-> q, result |-> [kind |-> kind]]
<1>1. row \in [req : Requests, result : Results] /\ row.result.kind # "committed"
  BY ResultMade
<1>2. /\ receipts[r] = Empty
      /\ receipts' = [receipts EXCEPT ![r] = row]
      /\ receipts \in [Keys -> [req : Requests, result : Results] \cup {Empty}]
  BY DEF Saved, IInv, LedgerInv, LedgerTypeOK
<1> HIDE DEF row
<1>3. \A k \in Keys : receipts'[k] = IF k = r THEN row ELSE receipts[k]
  BY <1>2
<1>4. ReceiptsTellRevisions'
  <2>1. ASSUME NEW k \in Receipts, receipts'[k] # Empty, receipts'[k].result.kind = "committed"
        PROVE  author'[receipts'[k].result.mem][receipts'[k].result.rev] = k
    BY <1>1, <1>3, <2>1 DEF IInv, LedgerInv, ReceiptsTellRevisions, Keys
  <2>2. ASSUME NEW m \in Memories, NEW n \in Revisions, author'[m][n] \in Receipts
        PROVE  /\ receipts'[author'[m][n]] # Empty
               /\ receipts'[author'[m][n]].result = [kind |-> "committed", mem |-> m, rev |-> n]
    BY <1>2, <1>3, <2>2 DEF IInv, LedgerInv, ReceiptsTellRevisions, Keys
  <2> QED
    BY <2>1, <2>2 DEF ReceiptsTellRevisions
<1> QED
  BY <1>1, <1>2, <1>4

\* A refusal.
LEMMA RefuseKeeps ==
    ASSUME IInv, NEW p \in Procs, NEW r \in Keys, NEW q \in Requests,
           NEW kind \in {"rejected", "conflict"}, Refuse(p, r, q, kind)
    PROVE  IInv'
<1>1. /\ Saved(r, q, [kind |-> kind]) /\ Return(p)
      /\ UNCHANGED <<history, conn, head, body, said, evidence, author, banned>>
  BY DEF Refuse
<1>2. /\ ReceiptsTellRevisions'
      /\ receipts' \in [Keys -> [req : Requests, result : Results] \cup {Empty}]
  BY <1>1, SlipOnly
<1>3. head' \in [Memories -> [state : {"none", "active", "retired", "deleted"},
                               rev : 0..MaxRevision]]
      /\ \A m \in Memories : HeadGoesOn(m)
  BY <1>1 DEF IInv, LedgerInv, LedgerTypeOK, HeadGoesOn
<1>4. /\ call' \in [Procs -> Calls \cup {Idle}]
      /\ CallsInOrder' /\ MigratedFirst' /\ VerifyingInOrder'
  BY <1>1, <1>3, OthersGoOn
<1>5. LedgerTypeOK'
  BY <1>1, <1>2, <1>4 DEF IInv, LedgerInv, LedgerTypeOK
<1>6. RowsInOrder' /\ GoneIsSuppressed'
  BY <1>1 DEF IInv, LedgerInv, RowsInOrder, GoneIsSuppressed, Gone
<1> QED
  BY <1>2, <1>4, <1>5, <1>6 DEF IInv, LedgerInv

-----------------------------------------------------------------------------
(***************************************************************************)
(* One more revision of a memory that can have one.                        *)
(***************************************************************************)
\* What Revise does to each row.
Revised(m, content, sources, state, a) ==
    LET n == head[m].rev + 1 IN
    /\ n \in Revisions
    /\ head' \in [Memories -> [state : {"none", "active", "retired", "deleted"},
                               rev : 0..MaxRevision]]
    /\ body' \in [Memories -> [Revisions -> Contents \cup {NoBody, Erased}]]
    /\ said' \in [Memories -> SUBSET Contents]
    /\ evidence' \in [Memories -> SUBSET Sources]
    /\ author' \in [Memories -> [Revisions -> Receipts \cup {NoReceipt, Batch}]]
    /\ head'[m].state = state /\ head'[m].rev = n
    /\ said'[m] = said[m] \cup {content}
    /\ evidence'[m] = evidence[m] \cup sources
    /\ \A k \in Revisions : body'[m][k] = IF k = n THEN content ELSE body[m][k]
    /\ \A k \in Revisions : author'[m][k] = IF k = n THEN a ELSE author[m][k]
    /\ \A g \in Memories \ {m} : /\ head'[g] = head[g] /\ body'[g] = body[g]
                                 /\ said'[g] = said[g] /\ evidence'[g] = evidence[g]
                                 /\ author'[g] = author[g]

\* It does.
LEMMA RevisedRows ==
    ASSUME IInv, NEW m \in Memories, NEW content \in Contents,
           NEW sources \in SUBSET Sources, NEW state \in {"active", "retired"},
           NEW a \in Receipts \cup {Batch}, Revise(m, content, sources, state, a)
    PROVE  Revised(m, content, sources, state, a)
<1> DEFINE n == head[m].rev + 1
<1>1. LedgerTypeOK
  BY DEF IInv, LedgerInv
<1>2. n \in Revisions /\ n \in 0..MaxRevision
  BY <1>1, LedgerAssumption DEF LedgerTypeOK, Revise, Revisions
<1>3. /\ head' = [head EXCEPT ![m] = [state |-> state, rev |-> n]]
      /\ body' = [body EXCEPT ![m][n] = content]
      /\ said' = [said EXCEPT ![m] = @ \cup {content}]
      /\ evidence' = [evidence EXCEPT ![m] = @ \cup sources]
      /\ author' = [author EXCEPT ![m][n] = a]
  BY DEF Revise, Attach
<1> HIDE DEF n
<1>4. /\ head' \in [Memories -> [state : {"none", "active", "retired", "deleted"},
                                 rev : 0..MaxRevision]]
      /\ head'[m].state = state /\ head'[m].rev = n
      /\ \A g \in Memories \ {m} : head'[g] = head[g]
  BY <1>1, <1>2, <1>3 DEF LedgerTypeOK
<1>5. /\ body' \in [Memories -> [Revisions -> Contents \cup {NoBody, Erased}]]
      /\ \A k \in Revisions : body'[m][k] = IF k = n THEN content ELSE body[m][k]
      /\ \A g \in Memories \ {m} : body'[g] = body[g]
  BY <1>1, <1>2, <1>3 DEF LedgerTypeOK
<1>6. /\ author' \in [Memories -> [Revisions -> Receipts \cup {NoReceipt, Batch}]]
      /\ \A k \in Revisions : author'[m][k] = IF k = n THEN a ELSE author[m][k]
      /\ \A g \in Memories \ {m} : author'[g] = author[g]
  BY <1>1, <1>2, <1>3 DEF LedgerTypeOK
<1>7. /\ said' \in [Memories -> SUBSET Contents]
      /\ said'[m] = said[m] \cup {content}
      /\ \A g \in Memories \ {m} : said'[g] = said[g]
  BY <1>1, <1>3 DEF LedgerTypeOK
<1>8. /\ evidence' \in [Memories -> SUBSET Sources]
      /\ evidence'[m] = evidence[m] \cup sources
      /\ \A g \in Memories \ {m} : evidence'[g] = evidence[g]
  BY <1>1, <1>3 DEF LedgerTypeOK
<1> QED
  BY <1>2, <1>4, <1>5, <1>6, <1>7, <1>8 DEF n, Revised

\* The rows stay in order, and a memory that this revision retires is
\* suppressed whole: every content it had before is that of a revision.
LEMMA RevisedInOrder ==
    ASSUME IInv, NEW m \in Memories, NEW content \in Contents,
           NEW sources \in SUBSET Sources, NEW state \in {"active", "retired"},
           NEW a \in Receipts \cup {Batch}, Revise(m, content, sources, state, a),
           head[m].state # "deleted",
           banned \subseteq banned',
           state = "retired" => Rules(m) \cup {content} \cup sources \subseteq banned'
    PROVE  RowsInOrder' /\ GoneIsSuppressed'
<1> DEFINE n == head[m].rev + 1
<1>1. LedgerTypeOK /\ RowsInOrder /\ GoneIsSuppressed
  BY DEF IInv, LedgerInv
<1>2. /\ n \in Revisions
      /\ head'[m].state = state /\ head'[m].rev = n
      /\ said'[m] = said[m] \cup {content}
      /\ evidence'[m] = evidence[m] \cup sources
      /\ \A k \in Revisions : body'[m][k] = IF k = n THEN content ELSE body[m][k]
      /\ \A k \in Revisions : author'[m][k] = IF k = n THEN a ELSE author[m][k]
      /\ \A g \in Memories \ {m} : /\ head'[g] = head[g] /\ body'[g] = body[g]
                                   /\ said'[g] = said[g] /\ evidence'[g] = evidence[g]
                                   /\ author'[g] = author[g]
  <2>1. Revised(m, content, sources, state, a)
    BY RevisedRows
  <2> QED
    BY <2>1 DEF Revised
<1>3. head[m].rev \in Nat /\ head[m].rev < n
  BY <1>1 DEF LedgerTypeOK
<1>4. body[m][n] = NoBody
  BY <1>1, <1>2, <1>3 DEF RowsInOrder
<1>5. ASSUME NEW x \in said[m]
      PROVE  \E k \in Revisions \ {n} : body[m][k] = x
  <2>1. x \in Contents /\ x # NoBody
    BY <1>1, LedgerAssumption DEF LedgerTypeOK, NoBody
  <2>2. PICK k \in Revisions : body[m][k] = x
    BY <1>1 DEF RowsInOrder
  <2> QED
    BY <2>1, <2>2, <1>4
<1>6. ASSUME NEW g \in Memories
      PROVE  /\ head'[g].state = "none" =>
                  head'[g].rev = 0 /\ said'[g] = {} /\ evidence'[g] = {}
             /\ \A k \in Revisions : k > head'[g].rev =>
                  body'[g][k] = NoBody /\ author'[g][k] = NoReceipt
             /\ head'[g].state # "deleted" => said'[g] \subseteq {body'[g][k] : k \in Revisions}
  <2>1. CASE g # m
    BY <2>1, <1>1, <1>2 DEF RowsInOrder
  <2>2. CASE g = m
    <3>1. \A k \in Revisions : k > n => k > head[m].rev /\ k # n
      BY <1>2, <1>3 DEF Revisions
    <3>2. \A k \in Revisions : k > n => body'[m][k] = NoBody /\ author'[m][k] = NoReceipt
      BY <1>1, <1>2, <3>1 DEF RowsInOrder
    <3>3. ASSUME NEW x \in said'[m]
          PROVE  x \in {body'[m][k] : k \in Revisions}
      <4>1. CASE x = content
        BY <4>1, <1>2
      <4>2. CASE x \in said[m]
        <5>1. PICK k \in Revisions \ {n} : body[m][k] = x
          BY <4>2, <1>5
        <5>2. body'[m][k] = x
          BY <5>1, <1>2
        <5> QED
          BY <5>2
      <4> QED
        BY <1>2, <4>1, <4>2
    <3> QED
      BY <2>2, <1>2, <3>2, <3>3
  <2> QED
    BY <2>1, <2>2
<1>7. ASSUME NEW g \in Memories, Gone(g)'
      PROVE  /\ said'[g] \cup evidence'[g] \subseteq banned'
             /\ head'[g].state = "deleted" => \A k \in Revisions : body'[g][k] \notin Contents
  <2>1. CASE g # m
    BY <2>1, <1>1, <1>2, <1>7 DEF GoneIsSuppressed, Gone
  <2>2. CASE g = m
    <3>1. state = "retired"
      BY <2>2, <1>2, <1>7 DEF Gone
    <3>2. said[m] \subseteq Rules(m)
      <4> SUFFICES ASSUME NEW x \in said[m] PROVE x \in Rules(m)
        OBVIOUS
      <4>1. PICK k \in Revisions \ {n} : body[m][k] = x
        BY <1>5
      <4>2. x \in Contents
        BY <1>1 DEF LedgerTypeOK
      <4> QED
        BY <4>1, <4>2 DEF Rules
    <3>3. evidence[m] \subseteq Rules(m)
      BY DEF Rules
    <3>4. Rules(m) \cup {content} \cup sources \subseteq banned'
      BY <3>1
    <3> QED
      BY <2>2, <1>2, <3>1, <3>2, <3>3, <3>4
  <2> QED
    BY <2>1, <2>2
<1> QED
  BY <1>6, <1>7 DEF RowsInOrder, GoneIsSuppressed

\* The revision is by a commit that stores its receipt, or by a batch.
LEMMA RevisedReceipts ==
    ASSUME IInv, NEW m \in Memories, NEW content \in Contents,
           NEW sources \in SUBSET Sources, NEW state \in {"active", "retired"},
           NEW a \in Receipts \cup {Batch}, Revise(m, content, sources, state, a),
           NEW q \in Requests,
           \/ a = Batch /\ receipts' = receipts
           \/ /\ a \in Receipts
              /\ Saved(a, q, [kind |-> "committed", mem |-> m, rev |-> head[m].rev + 1])
    PROVE  ReceiptsTellRevisions' /\ receipts' \in [Keys -> [req : Requests, result : Results] \cup {Empty}]
<1> DEFINE n == head[m].rev + 1
           res == [kind |-> "committed", mem |-> m, rev |-> n]
           row == [req |-> q, result |-> res]
<1>0. Revised(m, content, sources, state, a)
  <2> HIDE DEF n, res, row
  <2> QED
    BY RevisedRows, ZenonT(60)
<1> USE LedgerAssumption
<1>1. LedgerTypeOK /\ RowsInOrder /\ ReceiptsTellRevisions
  BY DEF IInv, LedgerInv
<1>2. /\ n \in Revisions
      /\ \A k \in Revisions : author'[m][k] = IF k = n THEN a ELSE author[m][k]
      /\ \A g \in Memories \ {m} : author'[g] = author[g]
  BY <1>0 DEF Revised
<1>3. author[m][n] = NoReceipt
  BY <1>1, <1>2 DEF RowsInOrder, LedgerTypeOK
<1>4. row \in [req : Requests, result : Results] /\ row.result = res
  BY <1>2, ResultMade
<1>5. res.kind = "committed" /\ res.mem = m /\ res.rev = n
  OBVIOUS
<1>6. row # Empty
  BY DEF Empty
<1>7. \/ a = Batch /\ receipts' = receipts
      \/ a \in Receipts /\ receipts[a] = Empty /\ receipts' = [receipts EXCEPT ![a] = row]
  BY DEF Saved
<1> HIDE DEF row, res, n
<1>8. ASSUME NEW k \in Receipts, receipts[k] # Empty, receipts[k].result.kind = "committed"
      PROVE  author'[receipts[k].result.mem][receipts[k].result.rev] = k
  <2> DEFINE g == receipts[k].result.mem
             j == receipts[k].result.rev
  <2>1. g \in Memories /\ j \in Revisions
    BY <1>1, <1>8, ReceiptShape DEF Keys
  <2>2. author[g][j] = k
    BY <1>1, <1>8 DEF ReceiptsTellRevisions
  <2>3. ~ (g = m /\ j = n)
    BY <2>2, <1>3, <1>8
  <2> QED
    BY <1>2, <2>1, <2>2, <2>3
<1>9. ASSUME NEW g \in Memories, NEW j \in Revisions, author'[g][j] \in Receipts,
             ~ (g = m /\ j = n)
      PROVE  /\ author'[g][j] = author[g][j]
             /\ receipts[author[g][j]] # Empty
             /\ receipts[author[g][j]].result = [kind |-> "committed", mem |-> g, rev |-> j]
  <2>1. author'[g][j] = author[g][j]
    BY <1>2, <1>9
  <2> QED
    BY <2>1, <1>1, <1>9 DEF ReceiptsTellRevisions
<1>10. CASE a = Batch /\ receipts' = receipts
  <2>1. a \notin Receipts
    BY <1>10 DEF Batch
  <2>2. author'[m][n] = a
    BY <1>2
  <2>3. receipts' \in [Keys -> [req : Requests, result : Results] \cup {Empty}]
    BY <1>1, <1>10 DEF LedgerTypeOK
  <2> QED
    BY <1>8, <1>9, <1>10, <2>1, <2>2, <2>3 DEF ReceiptsTellRevisions
<1>11. CASE a \in Receipts /\ receipts[a] = Empty /\ receipts' = [receipts EXCEPT ![a] = row]
  <2>1. a \in Keys /\ receipts \in [Keys -> [req : Requests, result : Results] \cup {Empty}]
    BY <1>1, <1>11 DEF Keys, LedgerTypeOK
  <2>2. receipts' \in [Keys -> [req : Requests, result : Results] \cup {Empty}]
    BY <1>4, <1>11, <2>1
  <2>3. \A k \in Keys : receipts'[k] = IF k = a THEN row ELSE receipts[k]
    BY <1>11, <2>1
  <2>4. author'[m][n] = a
    BY <1>2
  <2>5. ASSUME NEW k \in Receipts, receipts'[k] # Empty, receipts'[k].result.kind = "committed"
        PROVE  author'[receipts'[k].result.mem][receipts'[k].result.rev] = k
    <3>1. CASE k = a
      BY <3>1, <2>1, <2>3, <2>4, <1>4, <1>5
    <3>2. CASE k # a
      BY <3>2, <2>3, <2>5, <1>8 DEF Keys
    <3> QED
      BY <3>1, <3>2
  <2>6. ASSUME NEW g \in Memories, NEW j \in Revisions, author'[g][j] \in Receipts
        PROVE  /\ receipts'[author'[g][j]] # Empty
               /\ receipts'[author'[g][j]].result = [kind |-> "committed", mem |-> g, rev |-> j]
    <3>1. CASE g = m /\ j = n
      BY <3>1, <2>1, <2>3, <2>4, <1>4, <1>6 DEF res
    <3>2. CASE ~ (g = m /\ j = n)
      <4>1. /\ author'[g][j] = author[g][j]
            /\ receipts[author[g][j]] # Empty
            /\ receipts[author[g][j]].result = [kind |-> "committed", mem |-> g, rev |-> j]
        BY <1>9, <2>6, <3>2
      <4>2. author[g][j] \in Keys /\ author[g][j] # a
        BY <4>1, <2>6, <1>11 DEF Keys
      <4> QED
        BY <4>1, <4>2, <2>3
    <3> QED
      BY <3>1, <3>2
  <2> QED
    BY <2>2, <2>5, <2>6 DEF ReceiptsTellRevisions
<1> QED
  BY <1>7, <1>10, <1>11

\* A revision by a request of p, or by a batch, keeps the invariant.
LEMMA RevisionKeeps ==
    ASSUME IInv, NEW p \in Procs, Return(p) \/ call' = call, UNCHANGED <<history, conn>>,
           NEW m \in Memories, NEW content \in Contents,
           NEW sources \in SUBSET Sources, NEW state \in {"active", "retired"},
           NEW a \in Receipts \cup {Batch}, Revise(m, content, sources, state, a),
           head[m].state # "deleted",
           banned \subseteq banned', banned' \subseteq Contents \cup Sources,
           state = "retired" => Rules(m) \cup {content} \cup sources \subseteq banned',
           NEW q \in Requests,
           \/ a = Batch /\ receipts' = receipts
           \/ /\ a \in Receipts
              /\ Saved(a, q, [kind |-> "committed", mem |-> m, rev |-> head[m].rev + 1])
    PROVE  IInv'
<1>1. Revised(m, content, sources, state, a)
  BY RevisedRows, ZenonT(60)
<1>2. RowsInOrder' /\ GoneIsSuppressed'
  BY RevisedInOrder, ZenonT(60)
<1>3. /\ ReceiptsTellRevisions'
      /\ receipts' \in [Keys -> [req : Requests, result : Results] \cup {Empty}]
  BY RevisedReceipts, ZenonT(60)
<1>4. /\ call' \in [Procs -> Calls \cup {Idle}]
      /\ CallsInOrder' /\ MigratedFirst' /\ VerifyingInOrder'
  <2>1. \A g \in Memories : head[g].rev \in Nat
    BY LedgerAssumption DEF IInv, LedgerInv, LedgerTypeOK
  <2>2. ASSUME NEW g \in Memories PROVE HeadGoesOn(g)
    BY <1>1, <2>1 DEF Revised, HeadGoesOn
  <2> QED
    BY <1>1, <2>2, OthersGoOn DEF Revised
<1>5. LedgerTypeOK'
  BY <1>1, <1>3, <1>4 DEF IInv, LedgerInv, LedgerTypeOK, Revised
<1> QED
  BY <1>2, <1>3, <1>4, <1>5 DEF IInv, LedgerInv

LEMMA CommitNewKeeps == ASSUME IInv, NEW p \in Procs, CommitNew(p) PROVE IInv'
<1> DEFINE q == call[p].req
           r == call[p].receipt
<1>1. /\ q \in Requests /\ r \in Keys /\ q.op = "new"
      /\ q.content \in Contents /\ q.source \in Sources /\ r \in Receipts
  <2>1. In(p, "asked") /\ q.op = "new"
    BY DEF CommitNew
  <2>2. q \in Requests /\ r \in Keys
    BY <2>1, CallShape DEF In, IInv, LedgerInv
  <2>3. r \notin Forgets
    BY <2>1 DEF IInv, LedgerInv, CallsInOrder
  <2> QED
    BY <2>1, <2>2, <2>3, RequestShape DEF Keys
<1>2. CASE Refuse(p, r, q, "rejected")
  BY <1>1, <1>2, RefuseKeeps
<1>3. ASSUME NEW m \in Memories, head[m].state = "none",
             Revise(m, q.content, {q.source}, "active", r),
             Saved(r, q, [kind |-> "committed", mem |-> m, rev |-> 1]),
             Return(p), UNCHANGED <<history, conn, banned>>
      PROVE  IInv'
  <2>1. head[m].rev + 1 = 1
    BY <1>3 DEF IInv, LedgerInv, RowsInOrder
  <2>2. banned' = banned /\ banned \subseteq Contents \cup Sources
    BY <1>3 DEF IInv, LedgerInv, LedgerTypeOK
  <2>3. {q.source} \in SUBSET Sources
    BY <1>1
  <2> HIDE DEF q, r
  <2>4. Saved(r, q, [kind |-> "committed", mem |-> m, rev |-> head[m].rev + 1])
    BY <1>3, <2>1
  <2> QED
    BY <1>1, <1>3, <2>2, <2>3, <2>4, RevisionKeeps
<1> QED
  BY <1>2, <1>3 DEF CommitNew

LEMMA CommitChangeKeeps == ASSUME IInv, NEW p \in Procs, CommitChange(p) PROVE IInv'
<1> DEFINE q == call[p].req
           r == call[p].receipt
           retired == q.op = "supersede"
           state == IF retired THEN "retired" ELSE "active"
<1>1. /\ q \in Requests /\ r \in Keys /\ q.op \in {"refine", "confirm", "supersede"}
      /\ q.mem \in Memories /\ q.base \in Revisions
      /\ q.content \in Contents /\ q.source \in Sources /\ r \in Receipts
  <2>1. In(p, "asked") /\ q.op \in {"refine", "confirm", "supersede"}
    BY DEF CommitChange
  <2>2. q \in Requests /\ r \in Keys
    BY <2>1, CallShape DEF In, IInv, LedgerInv
  <2>3. r \notin Forgets
    BY <2>1 DEF IInv, LedgerInv, CallsInOrder
  <2> QED
    BY <2>1, <2>2, <2>3, RequestShape DEF Keys
<1>2. CASE Refuse(p, r, q, "conflict")
  BY <1>1, <1>2, RefuseKeeps
<1>3. ASSUME Fits(q), Revise(q.mem, q.content, {q.source}, state, r),
             banned' = IF retired
                       THEN banned \cup Rules(q.mem) \cup {q.content, q.source}
                       ELSE banned,
             Saved(r, q, [kind |-> "committed", mem |-> q.mem, rev |-> q.base + 1]),
             Return(p), UNCHANGED <<history, conn>>
      PROVE  IInv'
  <2>1. head[q.mem].state = "active" /\ head[q.mem].rev = q.base
    BY <1>3 DEF Fits
  <2>2. banned \subseteq Contents \cup Sources /\ Rules(q.mem) \subseteq Contents \cup Sources
    BY <1>1 DEF IInv, LedgerInv, LedgerTypeOK, Rules
  <2>3. /\ banned \subseteq banned' /\ banned' \subseteq Contents \cup Sources
        /\ state = "retired" => Rules(q.mem) \cup {q.content} \cup {q.source} \subseteq banned'
    BY <1>1, <1>3, <2>2
  <2>4. {q.source} \in SUBSET Sources /\ state \in {"active", "retired"}
    BY <1>1
  <2>5. Saved(r, q, [kind |-> "committed", mem |-> q.mem, rev |-> head[q.mem].rev + 1])
    BY <1>3, <2>1
  <2>6. PICK m \in Memories : m = q.mem
    BY <1>1
  <2> HIDE DEF q, r, state, retired
  <2>7. head[m].state # "deleted"
    BY <2>1, <2>6
  <2> QED
    BY <1>1, <1>3, <2>3, <2>4, <2>5, <2>6, <2>7, RevisionKeeps
<1>4. \/ /\ Fits(q)
         /\ Revise(q.mem, q.content, {q.source}, state, r)
         /\ banned' = IF retired
                      THEN banned \cup Rules(q.mem) \cup {q.content, q.source}
                      ELSE banned
         /\ Saved(r, q, [kind |-> "committed", mem |-> q.mem, rev |-> q.base + 1])
         /\ Return(p)
         /\ UNCHANGED <<history, conn>>
      \/ Refuse(p, r, q, "conflict")
  BY DEF CommitChange
<1> QED
  BY <1>2, <1>3, <1>4

LEMMA BatchNewKeeps == ASSUME IInv, NEW x \in Contents, BatchNew(x) PROVE IInv'
<1>1. PICK p \in Procs : Ready(p)
  BY DEF BatchNew
<1>2. PICK m \in Memories : head[m].state = "none" /\ Revise(m, x, {}, "active", Batch)
  BY DEF BatchNew
<1>3. UNCHANGED <<history, conn, banned, receipts, call>>
  BY DEF BatchNew
<1>4. banned \subseteq Contents \cup Sources
  BY DEF IInv, LedgerInv, LedgerTypeOK
<1>5. {} \in SUBSET Sources /\ head[m].state # "deleted"
  BY <1>2
\* Any request serves where none is stored.
<1>6. PICK q \in Requests : q = [op |-> "forget", mem |-> m]
  BY DEF Requests
<1> QED
  BY <1>2, <1>3, <1>4, <1>5, <1>6, RevisionKeeps

\* An erasure: the rows that are there keep nothing that could be read.
LEMMA ForgetKeeps == ASSUME IInv, NEW p \in Procs, Forget(p) PROVE IInv'
<1> USE LedgerAssumption
<1> DEFINE q == call[p].req
           r == call[p].receipt
           m == q.mem
<1>1. LedgerTypeOK /\ RowsInOrder /\ GoneIsSuppressed
  BY DEF IInv, LedgerInv
<1>2. In(p, "asked") /\ q.op = "forget"
  BY DEF Forget
<1>3. q \in Requests /\ r \in Keys /\ m \in Memories /\ head[m].state # "none"
  <2>1. q \in Requests /\ r \in Keys
    BY <1>1, <1>2, CallShape DEF In
  <2> QED
    BY <1>2, <2>1, RequestShape DEF IInv, LedgerInv, CallsInOrder
<1>4. /\ Saved(r, q, [kind |-> "forgotten"]) /\ Return(p)
      /\ UNCHANGED <<history, conn, said, evidence, author>>
  BY DEF Forget
<1>5. \/ /\ head[m].state # "deleted"
         /\ head' = [head EXCEPT ![m].state = "deleted"]
         /\ body' = [body EXCEPT ![m] = [n \in Revisions |->
                       IF @[n] = NoBody THEN NoBody ELSE Erased]]
         /\ banned' = banned \cup Rules(m)
      \/ head[m].state = "deleted" /\ UNCHANGED <<head, body, banned>>
  BY DEF Forget
<1> HIDE DEF m
<1>6. /\ ReceiptsTellRevisions'
      /\ receipts' \in [Keys -> [req : Requests, result : Results] \cup {Empty}]
  BY <1>3, <1>4, SlipOnly
<1>7. CASE head[m].state = "deleted" /\ UNCHANGED <<head, body, banned>>
  <2>1. head' \in [Memories -> [state : {"none", "active", "retired", "deleted"},
                                 rev : 0..MaxRevision]]
        /\ \A g \in Memories : HeadGoesOn(g)
    BY <1>1, <1>7 DEF LedgerTypeOK, HeadGoesOn
  <2>2. /\ call' \in [Procs -> Calls \cup {Idle}]
        /\ CallsInOrder' /\ MigratedFirst' /\ VerifyingInOrder'
    BY <1>4, <1>7, <2>1, OthersGoOn
  <2>3. LedgerTypeOK'
    BY <1>1, <1>4, <1>6, <1>7, <2>2 DEF LedgerTypeOK
  <2>4. RowsInOrder' /\ GoneIsSuppressed'
    BY <1>1, <1>4, <1>7 DEF RowsInOrder, GoneIsSuppressed, Gone
  <2> QED
    BY <1>6, <2>2, <2>3, <2>4 DEF IInv, LedgerInv
<1>8. ASSUME head[m].state # "deleted",
             head' = [head EXCEPT ![m].state = "deleted"],
             body' = [body EXCEPT ![m] = [n \in Revisions |->
                        IF @[n] = NoBody THEN NoBody ELSE Erased]],
             banned' = banned \cup Rules(m)
      PROVE  IInv'
  <2>1. /\ head' \in [Memories -> [state : {"none", "active", "retired", "deleted"},
                                   rev : 0..MaxRevision]]
        /\ head'[m].state = "deleted" /\ head'[m].rev = head[m].rev
        /\ \A g \in Memories \ {m} : head'[g] = head[g]
    <3> DEFINE H == [state : {"none", "active", "retired", "deleted"}, rev : 0..MaxRevision]
    <3>1. head \in [Memories -> H] /\ head[m] \in H
      BY <1>1, <1>3 DEF LedgerTypeOK
    <3>2. head' = [head EXCEPT ![m] = [head[m] EXCEPT !.state = "deleted"]]
      BY <1>8
    <3>3. /\ [head[m] EXCEPT !.state = "deleted"] \in H
          /\ [head[m] EXCEPT !.state = "deleted"].state = "deleted"
          /\ [head[m] EXCEPT !.state = "deleted"].rev = head[m].rev
      BY <3>1
    <3> HIDE DEF H
    <3>4. head' \in [Memories -> H]
      BY <3>1, <3>2, <3>3
    <3> QED
      BY <1>3, <3>1, <3>2, <3>3, <3>4 DEF H
  <2>2. /\ body' \in [Memories -> [Revisions -> Contents \cup {NoBody, Erased}]]
        /\ \A n \in Revisions : body'[m][n] = IF body[m][n] = NoBody THEN NoBody ELSE Erased
        /\ \A g \in Memories \ {m} : body'[g] = body[g]
    BY <1>1, <1>3, <1>8 DEF LedgerTypeOK
  <2>4. banned' \subseteq Contents \cup Sources
    BY <1>1, <1>3, <1>8 DEF LedgerTypeOK, Rules
  <2>5. /\ call' \in [Procs -> Calls \cup {Idle}]
        /\ CallsInOrder' /\ MigratedFirst' /\ VerifyingInOrder'
    <3>1. \A g \in Memories : head[g].rev \in Nat
      BY <1>1, LedgerAssumption DEF LedgerTypeOK
    <3>2. ASSUME NEW g \in Memories PROVE HeadGoesOn(g)
      BY <2>1, <3>1 DEF HeadGoesOn
    <3> QED
      BY <1>4, <2>1, <3>2, OthersGoOn
  <2>6. LedgerTypeOK'
    BY <1>1, <1>4, <1>6, <2>1, <2>2, <2>4, <2>5 DEF LedgerTypeOK
  <2>7. RowsInOrder'
    <3> SUFFICES ASSUME NEW g \in Memories
                 PROVE  /\ head'[g].state = "none" =>
                             head'[g].rev = 0 /\ said'[g] = {} /\ evidence'[g] = {}
                        /\ \A n \in Revisions : n > head'[g].rev =>
                             body'[g][n] = NoBody /\ author'[g][n] = NoReceipt
                        /\ head'[g].state # "deleted" =>
                             said'[g] \subseteq {body'[g][n] : n \in Revisions}
      BY DEF RowsInOrder
    <3>1. CASE g # m
      BY <3>1, <1>1, <1>4, <2>1, <2>2 DEF RowsInOrder
    <3>2. CASE g = m
      BY <3>2, <1>1, <1>4, <2>1, <2>2 DEF RowsInOrder
    <3> QED
      BY <3>1, <3>2
  <2>8. GoneIsSuppressed'
    <3> SUFFICES ASSUME NEW g \in Memories, Gone(g)'
                 PROVE  /\ said'[g] \cup evidence'[g] \subseteq banned'
                        /\ head'[g].state = "deleted" =>
                             \A n \in Revisions : body'[g][n] \notin Contents
      BY DEF GoneIsSuppressed
    <3>1. CASE g # m
      BY <3>1, <1>1, <1>4, <1>8, <2>1, <2>2 DEF GoneIsSuppressed, Gone
    <3>2. CASE g = m
      <4>1. said[m] \subseteq Rules(m)
        BY <1>1, <1>3, <1>8 DEF RowsInOrder, LedgerTypeOK, Rules
      <4>2. evidence[m] \subseteq Rules(m)
        BY DEF Rules
      <4>3. \A n \in Revisions : body'[m][n] \notin Contents
        BY <2>2 DEF NoBody, Erased
      <4> QED
        BY <3>2, <4>1, <4>2, <4>3, <1>4, <1>8
    <3> QED
      BY <3>1, <3>2
  <2> QED
    BY <1>6, <2>5, <2>6, <2>7, <2>8 DEF IInv, LedgerInv
<1> QED
  BY <1>5, <1>7, <1>8

-----------------------------------------------------------------------------
(***************************************************************************)
(* Every step, and the theorems.                                           *)
(***************************************************************************)
LEMMA NextKeeps == IInv /\ [LedgerNext]_lvars => IInv'
<1> SUFFICES ASSUME IInv, [LedgerNext]_lvars PROVE IInv'
  OBVIOUS
<1>1. CASE UNCHANGED lvars
  <2>1. UNCHANGED <<history, conn, store, call>>
    BY <1>1 DEF lvars, store
  <2>2. LedgerTypeOK' /\ CallsInOrder' /\ MigratedFirst'
    BY <2>1 DEF IInv, LedgerInv, LedgerTypeOK, CallsInOrder, MigratedFirst, In, Made, store
  <2>3. VerifyingInOrder'
    BY <2>1 DEF IInv, VerifyingInOrder, In, Current, store
  <2> QED
    BY <2>1, <2>2, <2>3, StoreUntouched DEF IInv, LedgerInv
<1>2. ASSUME NEW p \in Procs, Open(p) PROVE IInv'
  BY <1>2, ConnectKeeps, MigrateKeeps, OpenedKeeps DEF Open
<1>3. ASSUME NEW p \in Procs, Serve(p) PROVE IInv'
  <2>1. CASE \E r \in Keys, q \in Requests : Ask(p, r, q)
    BY <2>1, AskKeeps
  <2>2. CASE Raced(p) \/ Inject(p)
    BY <2>2, DoneKeeps DEF Raced, Inject
  <2> QED
    BY <1>3, <2>1, <2>2, CommitNewKeeps, CommitChangeKeeps, ForgetKeeps, SearchKeeps,
       AssembleKeeps, VerifyKeeps, VerifyItemKeeps DEF Serve
<1> QED
  BY <1>1, <1>2, <1>3, QuitKeeps, BatchNewKeeps DEF LedgerNext

\* The conjunction is an invariant.
LEMMA IInvAlways == LedgerSpec => []IInv
<1> QED
  BY InitIInv, NextKeeps, PTL DEF LedgerSpec

\* Receipts and revisions tell the same story, what is gone stays suppressed
\* whole, and nobody works on a database that lacks a migration.
THEOREM LedgerInvariant == LedgerSpec => []LedgerInv
<1>1. IInv => LedgerInv
  BY DEF IInv
<1> QED
  BY <1>1, IInvAlways, PTL

\* A bundle that is about to be injected holds nothing that had stopped being
\* current when its verification began, however many processes change the
\* ledger while it is checked item by item.
THEOREM InjectedCurrent == LedgerSpec => []InjectedWasCurrent
<1>1. IInv => InjectedWasCurrent
  <2> SUFFICES ASSUME IInv, NEW p \in Procs, In(p, "verifying"), call[p].left = {}
               PROVE  call[p].lost = {}
    BY DEF InjectedWasCurrent
  <2> QED
    BY DEF IInv, VerifyingInOrder
<1> QED
  BY <1>1, IInvAlways, PTL

-----------------------------------------------------------------------------
(***************************************************************************)
(* What is gone does not come back by a commit.                            *)
(***************************************************************************)
\* A memory comes into being by commit, with a content and a source that are
\* not suppressed, or by the commit of a batch.
LEMMA Births ==
    ASSUME IInv, [LedgerNext]_lvars, NEW m \in Memories, Revived(m)
    PROVE  author'[m][1] = Batch
<1> USE LedgerAssumption
<1>1. head' # head /\ head[m].state = "none" /\ head'[m].state # "none"
  BY DEF Revived
<1>2. LedgerTypeOK /\ RowsInOrder /\ GoneIsSuppressed
  BY DEF IInv, LedgerInv
<1>3. head[m].rev = 0 /\ said[m] = {} /\ evidence[m] = {}
  BY <1>1, <1>2 DEF RowsInOrder
<1>4. ASSUME NEW g \in Memories, NEW content \in Contents, NEW sources \in SUBSET Sources,
             NEW state \in {"active", "retired"}, NEW a \in Receipts \cup {Batch},
             Revise(g, content, sources, state, a)
      PROVE  /\ g = m /\ body'[m][1] = content /\ author'[m][1] = a
             /\ evidence'[m] = sources
  <2>1. Revised(g, content, sources, state, a)
    BY <1>4, RevisedRows, ZenonT(60)
  <2>2. g = m
    BY <2>1, <1>1 DEF Revised
  <2> QED
    BY <2>1, <2>2, <1>3 DEF Revised, Revisions
<1>5. ASSUME NEW p \in Procs, CommitNew(p)
      PROVE  author'[m][1] = Batch
  <2> DEFINE q == call[p].req
             r == call[p].receipt
  <2>1. /\ q \in Requests /\ r \in Keys /\ q.op = "new"
        /\ q.content \in Contents /\ q.source \in Sources /\ r \in Receipts
    <3>1. In(p, "asked") /\ q.op = "new"
      BY <1>5 DEF CommitNew
    <3>2. q \in Requests /\ r \in Keys
      BY <3>1, <1>2, CallShape DEF In
    <3>3. r \notin Forgets
      BY <3>1 DEF IInv, LedgerInv, CallsInOrder
    <3> QED
      BY <3>1, <3>2, <3>3, RequestShape DEF Keys
  <2>2. ~ Refuse(p, r, q, "rejected")
    BY <1>1 DEF Refuse
  <2>3. PICK k \in Memories : Creates(q) /\ Revise(k, q.content, {q.source}, "active", r)
    BY <1>5, <2>2 DEF CommitNew
  <2>4. {q.source} \in SUBSET Sources
    BY <2>1
  <2> HIDE DEF q, r
  <2>5. body'[m][1] = q.content /\ evidence'[m] = {q.source}
    BY <1>4, <2>1, <2>3, <2>4
  <2>6. q.content \notin banned /\ q.source \notin banned
    BY <2>3 DEF Creates, Suppressed
  <2>7. PICK g \in Memories : Gone(g) /\ \/ body'[m][1] \in said[g]
                                         \/ evidence'[m] \cap evidence[g] # {}
    BY DEF Revived
  <2>8. said[g] \cup evidence[g] \subseteq banned
    BY <2>7, <1>2 DEF GoneIsSuppressed
  <2> QED
    BY <2>5, <2>6, <2>7, <2>8
<1>6. ASSUME NEW p \in Procs, CommitChange(p)
      PROVE  FALSE
  <2> DEFINE q == call[p].req
             r == call[p].receipt
             state == IF q.op = "supersede" THEN "retired" ELSE "active"
  <2>1. /\ q \in Requests /\ r \in Keys /\ q.mem \in Memories
        /\ q.content \in Contents /\ q.source \in Sources /\ r \in Receipts
    <3>1. In(p, "asked") /\ q.op \in {"refine", "confirm", "supersede"}
      BY <1>6 DEF CommitChange
    <3>2. q \in Requests /\ r \in Keys
      BY <3>1, <1>2, CallShape DEF In
    <3>3. r \notin Forgets
      BY <3>1 DEF IInv, LedgerInv, CallsInOrder
    <3> QED
      BY <3>1, <3>2, <3>3, RequestShape DEF Keys
  <2>2. ~ Refuse(p, r, q, "conflict")
    BY <1>1 DEF Refuse
  <2>3. Fits(q) /\ Revise(q.mem, q.content, {q.source}, state, r)
    BY <1>6, <2>2 DEF CommitChange
  <2>4. {q.source} \in SUBSET Sources /\ state \in {"active", "retired"}
    BY <2>1
  <2>5. PICK k \in Memories : k = q.mem
    BY <2>1
  <2> HIDE DEF q, r, state
  <2>6. k = m
    BY <1>4, <2>1, <2>3, <2>4, <2>5
  <2> QED
    BY <1>1, <2>3, <2>5, <2>6 DEF Fits
<1>7. ASSUME NEW p \in Procs, Forget(p)
      PROVE  FALSE
  <2> DEFINE q == call[p].req
             g == q.mem
  <2>1. g \in Memories /\ head[g].state # "none"
    <3>1. In(p, "asked") /\ q.op = "forget"
      BY <1>7 DEF Forget
    <3>2. q \in Requests
      BY <1>2, <3>1, CallShape DEF In
    <3> QED
      BY <3>1, <3>2, RequestShape DEF IInv, LedgerInv, CallsInOrder
  <2>2. head' = [head EXCEPT ![g].state = "deleted"]
    BY <1>1, <1>7 DEF Forget
  <2>3. g # m
    BY <1>1, <2>1
  <2> HIDE DEF g
  <2> QED
    BY <1>1, <1>2, <2>1, <2>2, <2>3 DEF LedgerTypeOK
<1>8. ASSUME NEW x \in Contents, BatchNew(x)
      PROVE  author'[m][1] = Batch
  <2>1. PICK k \in Memories : Revise(k, x, {}, "active", Batch)
    BY <1>8 DEF BatchNew
  <2>2. {} \in SUBSET Sources
    OBVIOUS
  <2> QED
    BY <1>4, <2>1, <2>2
<1>9. ~ UNCHANGED lvars
  BY <1>1 DEF lvars
<1>10. ASSUME NEW p \in Procs, Open(p) \/ Quit(p)
       PROVE  FALSE
  BY <1>1, <1>10 DEF Open, Connect, Migrate, Opened, Quit, store
<1>11. ASSUME NEW p \in Procs, Serve(p)
       PROVE  CommitNew(p) \/ CommitChange(p) \/ Forget(p)
  BY <1>1, <1>11 DEF Serve, Ask, Raced, Search, Assemble, Verify, VerifyItem, Inject, store
<1> QED
  BY <1>5, <1>6, <1>7, <1>8, <1>9, <1>10, <1>11 DEF LedgerNext

\* A commit of new content that was forgotten or superseded, or whose source
\* was, creates nothing, whatever happened since it was asked for.
THEOREM GoneStaysGone == LedgerSpec => CommitRevivesNothing
<1>1. IInv /\ [LedgerNext]_lvars => [\A m \in Memories : Revived(m) => author'[m][1] = Batch]_lvars
  BY Births
<1> QED
  BY <1>1, IInvAlways, PTL DEF LedgerSpec, CommitRevivesNothing

=============================================================================
