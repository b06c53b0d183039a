----------------------------- MODULE Projection -----------------------------
(***************************************************************************)
(* The projector of SagaContext: how a change of a memory in the SQLite    *)
(* ledger reaches the external retrieval backend.  The ledger writes the   *)
(* memory head and the outbox rows in one transaction; workers             *)
(* (projection/worker.py, Projector.drain_once) lease a row, call the      *)
(* backend outside every transaction, inspect what they wrote and settle   *)
(* the row in a second transaction.  One action is one transaction or one  *)
(* backend request; between two actions of a worker anything may happen.   *)
(*                                                                         *)
(* Rows of a guarded rollout carry an epoch as well; they are not modelled *)
(* here (claim.rollout_id is None throughout).                             *)
(***************************************************************************)
EXTENDS Naturals, FiniteSets

CONSTANTS
    Memories,       \* memory ids
    Generations,    \* generations of the one registered backend
    NoGeneration,   \* no generation is active yet
    Workers,        \* drain_once callers, in any process
    MaxRevision,    \* bound: revisions a memory may reach
    MaxAttempts,    \* max_attempts of drain_once
    MaxFaults,      \* bound: crashes, failed requests and lapsed live leases
    Enumerable,     \* capabilities(): stable ids and an enumerable area
    LateCalls       \* a request may take effect after its caller gave up

ASSUME ProjectionAssumption ==
    /\ MaxRevision \in Nat \ {0}
    /\ MaxAttempts \in Nat \ {0}
    /\ MaxFaults \in Nat
    /\ {Enumerable, LateCalls} \subseteq BOOLEAN
    /\ NoGeneration \notin Generations

Targets == Memories \X (1..MaxRevision) \X Generations
Actions == {"upsert", "delete"}
Keys    == Actions \X Targets

Upsert(t) == <<"upsert", t>>
Delete(t) == <<"delete", t>>

Waiting  == {"pending", "retry"}
Terminal == {"confirmed", "obsolete", "blocked"}
Statuses == {"absent", "unknown", "running"} \cup Waiting \cup Terminal

(***************************************************************************)
(* An outbox row.  attempts doubles as lease_token: claim_next takes a new *)
(* uuid together with attempt_count + 1, so the latest token of a row and  *)
(* its attempt number identify each other.  started is call_started_at of  *)
(* the latest attempt, locator whether target_locator was written (the     *)
(* backend derives the locator itself from the identity of the target).    *)
(***************************************************************************)
Row == [status   : Statuses,
        attempts : Nat,
        lease    : {"none", "live", "expired"},
        started  : BOOLEAN,
        locator  : BOOLEAN]

NoRow == [status |-> "absent", attempts |-> 0, lease |-> "none",
          started |-> FALSE, locator |-> FALSE]

(***************************************************************************)
(* A worker inside drain_once.  erased: the claim was built after the      *)
(* payload of the memory was erased, so its digest is that of the empty    *)
(* payload; found: it holds a locator; seen: inspect_projection returned a *)
(* projection; verdict: the status it is about to write.                   *)
(***************************************************************************)
Phases == {"claimed", "checked", "calling", "verifying",
           "returned", "inspected", "finishing"}

Claims == [phase   : Phases,
           key     : Keys,
           attempt : Nat,
           source  : {"pending", "retry", "unknown"},
           erased  : BOOLEAN,
           found   : BOOLEAN,
           seen    : BOOLEAN,
           verdict : {"none", "unknown", "retry", "obsolete", "blocked"}]

Decided(c) == c.phase = "finishing" => c.verdict # "none"

NoClaim == [phase |-> "idle"]

HeadStates == {"none", "active", "retired", "deleted"}

VARIABLES
    head,      \* memories: state and current_revision
    active,    \* the active backend generation
    outbox,    \* outbox rows by (action, target), with the latest attempt
    receipts,  \* projection_receipts by operation key
    work,      \* what each worker is doing
    items,     \* projections stored in the backend
    late,      \* requests given up by their caller, still on their way
    unseen,    \* history: targets whose projection the outbox may not know of
    faults     \* faults so far

vars == <<head, active, outbox, receipts, work, items, late, unseen, faults>>
ledgerVars  == <<head, active>>
backendVars == <<items, late, unseen>>

OperationKeys == Actions \X Targets \X BOOLEAN

TypeOK ==
    /\ head \in [Memories -> [state : HeadStates, rev : 0..MaxRevision]]
    /\ active \in Generations \cup {NoGeneration}
    /\ outbox \in [Keys -> Row]
    /\ receipts \subseteq OperationKeys
    /\ work \in [Workers -> Claims \cup {NoClaim}]
    /\ items \subseteq Targets
    /\ late \subseteq Keys
    /\ unseen \subseteq Targets
    /\ faults \in 0..MaxFaults
    /\ \A w \in Workers : Decided(work[w])

Init ==
    /\ head = [m \in Memories |-> [state |-> "none", rev |-> 0]]
    /\ active = NoGeneration
    /\ outbox = [k \in Keys |-> NoRow]
    /\ receipts = {}
    /\ work = [w \in Workers |-> NoClaim]
    /\ items = {}
    /\ late = {}
    /\ unseen = {}
    /\ faults = 0

(***************************************************************************)
(* The ledger side: every change of a head enqueues its rows in the same   *)
(* transaction.                                                            *)
(***************************************************************************)
IsCurrent(t) == head[t[1]].state = "active" /\ head[t[1]].rev = t[2]

Fresh == [NoRow EXCEPT !.status = "pending"]

\* _enqueue_projection(memory, revision, "upsert"): the active generation only.
EnqueueUpsert(m, r) ==
    outbox' = [k \in Keys |->
        IF active # NoGeneration /\ k = Upsert(<<m, r, active>>)
              /\ outbox[k].status = "absent"
        THEN Fresh ELSE outbox[k]]

\* Slips in the code that the runs must notice stand before the definition
\* they would replace, named "...Slip".  Here: a delete row that exists is
\* queued anew, or only the active generation is cleaned.
EnqueueDeletesAnewSlip(m) ==
    outbox' = [k \in Keys |->
        IF k[1] = "delete" /\ k[2][1] = m /\ outbox[Upsert(k[2])].status # "absent"
        THEN Fresh ELSE outbox[k]]

EnqueueDeletesActiveSlip(m) ==
    outbox' = [k \in Keys |->
        IF /\ k[1] = "delete"
           /\ k[2][1] = m
           /\ k[2][3] = active
           /\ outbox[Upsert(k[2])].status # "absent"
           /\ outbox[k].status = "absent"
        THEN Fresh ELSE outbox[k]]

\* _enqueue_projection(memory, _, "delete"): every revision and generation
\* that was ever queued for upsert; INSERT OR IGNORE keeps an old delete row.
EnqueueDeletes(m) ==
    outbox' = [k \in Keys |->
        IF /\ k[1] = "delete"
           /\ k[2][1] = m
           /\ outbox[Upsert(k[2])].status # "absent"
           /\ outbox[k].status = "absent"
        THEN Fresh ELSE outbox[k]]

CommitNew(m) ==
    /\ head[m].state = "none"
    /\ head' = [head EXCEPT ![m] = [state |-> "active", rev |-> 1]]
    /\ EnqueueUpsert(m, 1)
    /\ UNCHANGED <<active, receipts, work, backendVars, faults>>

\* operations "update" and "confirm" of commit
CommitUpdate(m) ==
    /\ head[m].state = "active"
    /\ head[m].rev < MaxRevision
    /\ head' = [head EXCEPT ![m] = [state |-> "active", rev |-> head[m].rev + 1]]
    /\ EnqueueUpsert(m, head[m].rev + 1)
    /\ UNCHANGED <<active, receipts, work, backendVars, faults>>

Supersede(m) ==
    /\ head[m].state = "active"
    /\ head[m].rev < MaxRevision
    /\ head' = [head EXCEPT ![m] = [state |-> "retired", rev |-> head[m].rev + 1]]
    /\ EnqueueDeletes(m)
    /\ UNCHANGED <<active, receipts, work, backendVars, faults>>

Forget(m) ==
    /\ head[m].state \in {"active", "retired"}
    /\ head' = [head EXCEPT ![m] = [state |-> "deleted", rev |-> head[m].rev]]
    /\ EnqueueDeletes(m)
    /\ UNCHANGED <<active, receipts, work, backendVars, faults>>

\* register_backend_generation(active=True): existing memories are not requeued.
RegisterGeneration(g) ==
    /\ active # g
    /\ active' = g
    /\ UNCHANGED <<head, outbox, receipts, work, backendVars, faults>>

(***************************************************************************)
(* Leases.                                                                 *)
(***************************************************************************)

\* Whether the call had started is ignored.
SweptSlip(k) ==
    IF outbox[k].status = "running" /\ outbox[k].lease = "expired"
    THEN [outbox[k] EXCEPT !.status = "retry", !.lease = "none"]
    ELSE outbox[k]

\* The row as claim_next leaves it when its lease has expired.
Swept(k) ==
    IF outbox[k].status = "running" /\ outbox[k].lease = "expired"
    THEN [outbox[k] EXCEPT !.status = IF outbox[k].started THEN "unknown" ELSE "retry",
                           !.lease = "none"]
    ELSE outbox[k]

Claimable(k) ==
    \/ Swept(k).status = "unknown"
    \/ /\ Swept(k).status \in Waiting
       /\ \A j \in Keys : Swept(j).status # "unknown"

(***************************************************************************)
(* claim_next: expire what has expired, then lease one row, unknown rows   *)
(* first.  Within a class the code takes the smallest outbox_id; here any  *)
(* row may come first.                                                     *)
(***************************************************************************)
Leased(row) == [status |-> "running", attempts |-> row.attempts + 1, lease |-> "live",
                started |-> FALSE, locator |-> row.locator]

ClaimOf(k) == [phase   |-> "claimed",
               key     |-> k,
               attempt |-> outbox[k].attempts + 1,
               source  |-> Swept(k).status,
               erased  |-> head[k[2][1]].state = "deleted",
               found   |-> FALSE,
               seen    |-> FALSE,
               verdict |-> "none"]

ClaimNext(w) ==
    /\ work[w] = NoClaim
    /\ \E k \in Keys :
        /\ Claimable(k)
        /\ outbox' = [j \in Keys |-> IF j = k THEN Leased(Swept(k)) ELSE Swept(j)]
        /\ work' = [work EXCEPT ![w] = ClaimOf(k)]
        /\ unseen' = IF k[1] = "upsert" /\ Swept(k).status = "unknown"
                     THEN unseen \cup {k[2]} ELSE unseen
    /\ UNCHANGED <<ledgerVars, receipts, items, late, faults>>

\* The token is not compared.
OwnsSlip(w) ==
    LET row == outbox[work[w].key]
    IN  row.status = "running" /\ row.lease = "live"

\* _owns
Owns(w) ==
    LET row == outbox[work[w].key]
    IN  /\ row.status = "running"
        /\ row.lease = "live"
        /\ row.attempts = work[w].attempt

Holder(k) == {w \in Workers : /\ work[w] # NoClaim
                              /\ work[w].key = k
                              /\ work[w].attempt = outbox[k].attempts}

Step(w, phase) ==
    /\ work[w].phase = phase
    /\ UNCHANGED <<ledgerVars, faults>>

Go(w, phase)  == work' = [work EXCEPT ![w].phase = phase]
Leave(w)      == work' = [work EXCEPT ![w] = NoClaim]
Decide(w, v)  == work' = [work EXCEPT ![w].phase = "finishing", ![w].verdict = v]

IsUpsert(w) == work[w].key[1] = "upsert"
Target(w)   == work[w].key[2]

\* What a failure becomes once the attempts are used up.
Exhausted(w, v) == IF work[w].attempt >= MaxAttempts THEN "blocked" ELSE v

(***************************************************************************)
(* The history variable unseen.  A target enters it when its projection is *)
(* written behind the back of the outbox, by a request whose row has been  *)
(* taken over or settled since; and when its unknown row is leased, since  *)
(* a verifier that dies before it has recorded its start leaves the row in *)
(* retry.  It leaves when a verification is recorded to have started, and  *)
(* when the holder of its row has looked.                                  *)
(***************************************************************************)
Behind(k, known) == unseen' = IF k[1] = "upsert" /\ ~known THEN unseen \cup {k[2]} ELSE unseen

Looked(w) == unseen' = IF IsUpsert(w) THEN unseen \ {Target(w)} ELSE unseen

(***************************************************************************)
(* Before the call.                                                        *)
(***************************************************************************)

\* drain_once, lines 107-118: the head is read outside the transaction that
\* records the start of the call.  (A receipt for a claimable upsert, which
\* lines 107-113 look for, never exists: see ReceiptMeansSettled.)
CheckHead(w) ==
    /\ Step(w, "claimed")
    /\ work[w].source # "unknown"
    /\ IF IsUpsert(w) /\ ~IsCurrent(Target(w))
       THEN Decide(w, "obsolete")
       ELSE Go(w, "checked")
    /\ UNCHANGED <<outbox, receipts, backendVars>>

\* The first transaction of call_backend and of _verify_unknown: record
\* call_started_at, or raise projection_lease_fenced.
Started(row) == [row EXCEPT !.started = TRUE]

MarkStarted(w, phase) ==
    /\ UNCHANGED <<receipts, items, late>>
    /\ \/ /\ Owns(w)
          /\ outbox' = [outbox EXCEPT ![work[w].key] = Started(@)]
          /\ Go(w, phase)
       \/ /\ ~Owns(w)
          /\ Leave(w)
          /\ UNCHANGED outbox

StartCall(w)   == Step(w, "checked") /\ MarkStarted(w, "calling") /\ UNCHANGED unseen
StartVerify(w) == /\ Step(w, "claimed")
                  /\ work[w].source = "unknown"
                  /\ MarkStarted(w, "verifying")
                  /\ IF Owns(w) THEN Looked(w) ELSE UNCHANGED unseen

(***************************************************************************)
(* The requests to the backend.                                            *)
(***************************************************************************)
\* The backend's locator names the memory and not the revision.
ApplySlip(k) ==
    items' = IF k[1] = "upsert" THEN items \cup {k[2]} ELSE {t \in items : t[1] # k[2][1]}

Apply(k) == items' = IF k[1] = "upsert" THEN items \cup {k[2]} ELSE items \ {k[2]}

\* The row is still at the attempt the worker is making.
AtAttempt(w) == outbox[work[w].key].attempts = work[w].attempt

\* materialize returned: it wrote the projection or found its own write.
Materialize(w) ==
    /\ Step(w, "calling")
    /\ IsUpsert(w)
    /\ Apply(work[w].key)
    /\ Behind(work[w].key, AtAttempt(w))
    /\ work' = [work EXCEPT ![w].phase = "returned", ![w].found = TRUE]
    /\ UNCHANGED <<outbox, receipts, late>>

\* remove_projection returned, at target_locator or at the locator found.
RemoveRemote(w) ==
    /\ Step(w, "calling")
    /\ ~IsUpsert(w)
    /\ Apply(work[w].key)
    /\ work' = [work EXCEPT ![w].phase = "returned",
                            ![w].found = outbox[work[w].key].locator \/ Target(w) \in items]
    /\ UNCHANGED <<outbox, receipts, late, unseen>>

\* A request whose answer is lost took effect, did not, or still may.
Unanswered(w) ==
    LET k == work[w].key
    IN  \/ UNCHANGED backendVars
        \/ Apply(k) /\ Behind(k, AtAttempt(w)) /\ UNCHANGED late
        \/ LateCalls /\ late' = late \cup {k} /\ UNCHANGED <<items, unseen>>

Faulty(w, phase) ==
    /\ work[w].phase = phase
    /\ faults < MaxFaults
    /\ faults' = faults + 1
    /\ UNCHANGED <<ledgerVars, outbox, receipts>>

\* BackendUnknownError, BackendVerificationTimeout, BackendDefiniteError
CallFails(w) ==
    /\ Faulty(w, "calling")
    /\ \/ Decide(w, "unknown") /\ Unanswered(w)
       \/ Decide(w, Exhausted(w, "unknown")) /\ UNCHANGED backendVars
       \/ Decide(w, Exhausted(w, "retry")) /\ UNCHANGED backendVars

\* _verify_unknown: locate, and for a delete inspect as well.
VerifyUnknown(w) ==
    /\ Step(w, "verifying")
    /\ LET there == Target(w) \in items
       IN \/ /\ IsUpsert(w)
             /\ there
             /\ work' = [work EXCEPT ![w].phase = "returned", ![w].found = TRUE]
          \/ /\ IsUpsert(w)
             /\ ~there
             /\ Decide(w, IF Enumerable THEN Exhausted(w, "retry") ELSE "blocked")
          \/ /\ ~IsUpsert(w)
             /\ there
             /\ Decide(w, Exhausted(w, "retry"))
          \/ /\ ~IsUpsert(w)
             /\ ~there
             /\ work' = [work EXCEPT ![w].phase = "returned",
                                     ![w].found = outbox[work[w].key].locator]
    /\ UNCHANGED <<outbox, receipts, backendVars>>

\* A read that times out leaves the outcome open; a rejected one blocks.
ReadFails(w) ==
    \/ Decide(w, Exhausted(w, "unknown"))
    \/ Decide(w, "blocked")

VerifyFails(w) ==
    /\ Faulty(w, "verifying")
    /\ ReadFails(w)
    /\ UNCHANGED backendVars

\* complete, up to inspect_projection: an empty locator is not inspected.
Inspect(w) ==
    /\ Step(w, "returned")
    /\ IF Owns(w)
       THEN /\ work' = [work EXCEPT ![w].phase = "inspected",
                                    ![w].seen = work[w].found /\ Target(w) \in items]
            /\ Looked(w)
       ELSE Leave(w) /\ UNCHANGED unseen
    /\ UNCHANGED <<outbox, receipts, items, late>>

InspectFails(w) ==
    /\ Faulty(w, "returned")
    /\ Owns(w)
    /\ work[w].found
    /\ ReadFails(w)
    /\ UNCHANGED backendVars

(***************************************************************************)
(* The transactions that settle a row.                                     *)
(***************************************************************************)
Settled(row, status) == [row EXCEPT !.status = status, !.lease = "none"]

\* A deleted head has lost its body: the observed projection stands in for it.
Matches(w) ==
    IF IsUpsert(w)
    THEN work[w].seen /\ (~work[w].erased \/ head[Target(w)[1]].state = "deleted")
    ELSE ~work[w].seen

\* The delete row that an upsert leaves behind when it finds itself obsolete:
\* INSERT ... ON CONFLICT DO UPDATE, attempt_count is kept.
Requeued(row) == [row EXCEPT !.status = "pending", !.lease = "none", !.locator = TRUE]

\* The head is not read again after the inspection.
CompleteBlindSlip(w) ==
    /\ Step(w, "inspected")
    /\ Leave(w)
    /\ UNCHANGED backendVars
    /\ LET k == work[w].key
       IN IF Owns(w) /\ Matches(w)
          THEN /\ receipts' = receipts \cup {<<k[1], Target(w), outbox[k].locator>>}
               /\ outbox' = [outbox EXCEPT ![k] = Settled(@, "confirmed")]
          ELSE /\ outbox' = IF Owns(w) THEN [outbox EXCEPT ![k] = Settled(@, "blocked")]
                            ELSE outbox
               /\ UNCHANGED receipts

\* the last transaction of complete
Complete(w) ==
    /\ Step(w, "inspected")
    /\ Leave(w)
    /\ UNCHANGED backendVars
    /\ LET k == work[w].key
           t == Target(w)
       IN \/ /\ ~Owns(w)
             /\ UNCHANGED <<outbox, receipts>>
          \/ /\ Owns(w)
             /\ ~Matches(w)
             /\ outbox' = [outbox EXCEPT ![k] = Settled(@, "blocked")]
             /\ UNCHANGED receipts
          \/ /\ Owns(w)
             /\ Matches(w)
             /\ receipts' = receipts \cup {<<k[1], t, outbox[k].locator>>}
             /\ IF IsUpsert(w) /\ ~IsCurrent(t)
                THEN outbox' = [outbox EXCEPT ![k] = Settled(@, "obsolete"),
                                              ![Delete(t)] = Requeued(@)]
                ELSE outbox' = [outbox EXCEPT ![k] = Settled(@, "confirmed")]

\* _finish_without_locator
FinishWithoutLocator(w) ==
    /\ Step(w, "finishing")
    /\ Leave(w)
    /\ outbox' = IF Owns(w)
                 THEN [outbox EXCEPT ![work[w].key] = Settled(@, work[w].verdict)]
                 ELSE outbox
    /\ UNCHANGED <<receipts, backendVars>>

(***************************************************************************)
(* The environment: a worker dies, time passes, a late request lands.      *)
(***************************************************************************)
Crash(w) ==
    /\ work[w] # NoClaim
    /\ faults < MaxFaults
    /\ faults' = faults + 1
    /\ Leave(w)
    /\ IF work[w].phase = "calling"
       THEN Unanswered(w)
       ELSE UNCHANGED backendVars
    /\ UNCHANGED <<ledgerVars, outbox, receipts>>

\* The lease of a dead worker runs out.
LeaseRunsOut(k) ==
    /\ outbox[k].lease = "live"
    /\ Holder(k) = {}
    /\ outbox' = [outbox EXCEPT ![k].lease = "expired"]
    /\ UNCHANGED <<ledgerVars, receipts, work, backendVars, faults>>

\* A living worker overruns its lease.  lease_duration exceeds
\* backend_timeout + local_completion_margin, so it does not happen while a
\* request is under way unless requests may be late.
LeaseOverrun(k) ==
    /\ outbox[k].lease = "live"
    /\ faults < MaxFaults
    /\ faults' = faults + 1
    /\ \E w \in Holder(k) : work[w].phase = "calling" => LateCalls
    /\ outbox' = [outbox EXCEPT ![k].lease = "expired"]
    /\ UNCHANGED <<ledgerVars, receipts, work, backendVars>>

LateRequestLands(k) ==
    /\ k \in late
    /\ late' = late \ {k}
    /\ Apply(k)
    /\ Behind(k, outbox[k].status = "unknown")
    /\ UNCHANGED <<ledgerVars, outbox, receipts, work, faults>>

Ledger(m) == CommitNew(m) \/ CommitUpdate(m) \/ Supersede(m) \/ Forget(m)

DrainOnce(w) ==
    \/ ClaimNext(w) \/ CheckHead(w) \/ StartCall(w) \/ StartVerify(w)
    \/ Materialize(w) \/ RemoveRemote(w) \/ VerifyUnknown(w)
    \/ Inspect(w) \/ Complete(w) \/ FinishWithoutLocator(w)

Fault(w) == CallFails(w) \/ VerifyFails(w) \/ InspectFails(w) \/ Crash(w)

Next ==
    \/ \E m \in Memories : Ledger(m)
    \/ \E g \in Generations : RegisterGeneration(g)
    \/ \E w \in Workers : DrainOnce(w) \/ Fault(w)
    \/ \E k \in Keys : LeaseRunsOut(k) \/ LeaseOverrun(k) \/ LateRequestLands(k)

Spec == Init /\ [][Next]_vars

-----------------------------------------------------------------------------
(***************************************************************************)
(* Properties.                                                             *)
(***************************************************************************)
Gone(t) == head[t[1]].state \in {"retired", "deleted"}

(***************************************************************************)
(* The projection of the current revision, once confirmed, is in the       *)
(* backend: no worker, however late its request lands, removes it.         *)
(***************************************************************************)
LiveProjectionPresent ==
    \A t \in Targets :
        outbox[Upsert(t)].status = "confirmed" /\ IsCurrent(t) => t \in items

(***************************************************************************)
(* Nothing ever sets out to remove the current revision: a delete row, and *)
(* a delete request still on its way, exist only for a revision that has   *)
(* been replaced, retired or forgotten.                                    *)
(***************************************************************************)
DeleteNeverTargetsCurrent ==
    \A t \in Targets :
        outbox[Delete(t)].status # "absent" \/ Delete(t) \in late => ~IsCurrent(t)

(***************************************************************************)
(* Why the two invariants above hold: the inductive invariant of the       *)
(* projector.  Every row is about a revision the ledger has committed;     *)
(* every claim, late request and stored projection goes back to a row; and *)
(* what complete has observed of the current revision is still there when  *)
(* it settles, although it looks in one transaction and settles in another.*)
(***************************************************************************)
Committed(t) == t[2] <= head[t[1]].rev
Known(k)     == outbox[k].status # "absent"

HeadsNumbered == \A m \in Memories : head[m].state = "none" <=> head[m].rev = 0

RowsCommitted == \A k \in Keys : Known(k) => Committed(k[2])

EffectsHaveRows ==
    /\ \A w \in Workers : work[w] # NoClaim => Known(work[w].key)
    /\ \A k \in late : Known(k)
    /\ \A t \in items : Known(Upsert(t))

Observed(c) == c.phase = "inspected" /\ c.seen /\ c.key[1] = "upsert"

ObservationStands ==
    \A w \in Workers : Observed(work[w]) /\ IsCurrent(Target(w)) => Target(w) \in items

SafetyInv ==
    /\ TypeOK
    /\ HeadsNumbered
    /\ RowsCommitted
    /\ EffectsHaveRows
    /\ ObservationStands
    /\ DeleteNeverTargetsCurrent
    /\ LiveProjectionPresent

(***************************************************************************)
(* A receipt for an upsert exists only once its row is settled, so the     *)
(* shortcut of drain_once for a claimable upsert that already has a        *)
(* receipt is never taken, and no row is confirmed without its receipt.    *)
(***************************************************************************)
ReceiptMeansSettled ==
    \A k \in Keys :
        /\ k[1] = "upsert" /\ <<k[1], k[2], FALSE>> \in receipts
              => outbox[k].status \in {"confirmed", "obsolete"}
        /\ outbox[k].status = "confirmed"
              => <<k[1], k[2], outbox[k].locator>> \in receipts

(***************************************************************************)
(* A retired or forgotten memory has no projection left that no row        *)
(* accounts for, whatever was lost, came late or died on the way: while    *)
(* the projection is there, its delete row is still open (or blocked, for  *)
(* the operator to see), or its upsert row is held, unresolved or blocked. *)
(* The exception is what was written behind the back of the outbox and has *)
(* not been looked at since.                                               *)
(***************************************************************************)
OrphanFree ==
    \A t \in Targets \ unseen :
        Gone(t) /\ t \in items =>
            \/ outbox[Delete(t)].status \notin {"absent", "confirmed"}
            \/ outbox[Upsert(t)].status \in {"running", "unknown", "blocked"}

(***************************************************************************)
(* A row in `pending` or `retry`, which the next worker projects without   *)
(* looking first, is one whose projection is not in the backend, with the  *)
(* same exception, however its earlier attempts were interrupted.          *)
(***************************************************************************)
RetryHadNoEffect ==
    \A t \in Targets \ unseen : outbox[Upsert(t)].status \in Waiting => t \notin items

(***************************************************************************)
(* The same without the exception, which is what the design says of retry. *)
(***************************************************************************)
RetryIsCertain == \A t \in Targets : outbox[Upsert(t)].status = "retry" => t \notin items

(***************************************************************************)
(* A running row leaves that status only by its lease expiring, by the     *)
(* late upsert of the same target requeueing its delete, or by the one     *)
(* worker that holds the latest attempt within its lease: a worker that    *)
(* was overtaken changes nothing.                                          *)
(***************************************************************************)
OnlyHolderSettles ==
    [][\A k \in Keys :
         outbox[k].status = "running" /\ outbox'[k].status \in Terminal =>
            /\ outbox[k].lease = "live"
            /\ \E w \in Holder(k) : work'[w] = NoClaim]_vars

(***************************************************************************)
(* A settled row stays settled, with one exception: an upsert that finds   *)
(* itself obsolete reopens the delete row of its target.                   *)
(***************************************************************************)
SettledStaysSettled ==
    [][\A k \in Keys :
         outbox[k].status \in Terminal /\ outbox'[k].status # outbox[k].status =>
            /\ k[1] = "delete"
            /\ outbox'[k].status = "pending"
            /\ outbox[Upsert(k[2])].status = "running"
            /\ outbox'[Upsert(k[2])].status = "obsolete"]_vars

(***************************************************************************)
(* The projector implements the derived index.                             *)
(***************************************************************************)
Index == INSTANCE DerivedIndex
            WITH index <- items,
                 acked <- {t \in Targets : outbox[Upsert(t)].status = "confirmed"}

ImplementsIndex == Index!IndexSpec

=============================================================================
