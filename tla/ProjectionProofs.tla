-------------------------- MODULE ProjectionProofs --------------------------
(***************************************************************************)
(* Theorems about module Projection, for every number of memories,         *)
(* generations, workers, attempts and faults, and whether or not requests  *)
(* outlive their callers: typing, the inductive invariant of the           *)
(* projector's safety, that it implements the derived index, and that the  *)
(* outbox knows what is in the backend.                                    *)
(***************************************************************************)
EXTENDS Projection, TLAPS

USE DEF Actions, Keys, Upsert, Delete

-----------------------------------------------------------------------------
(***************************************************************************)
(* Typing.                                                                 *)
(***************************************************************************)

\* What a key and a target are made of.
LEMMA KeyParts ==
    /\ \A k \in Keys : /\ k[1] \in Actions
                       /\ k[2] \in Targets
                       /\ k = <<k[1], k[2]>>
                       /\ k[1] = "upsert" => k = Upsert(k[2])
                       /\ k[1] = "delete" => k = Delete(k[2])
    /\ \A t \in Targets : /\ t[1] \in Memories
                          /\ t[2] \in 1..MaxRevision
                          /\ Upsert(t) \in Keys
                          /\ Delete(t) \in Keys
                          /\ Upsert(t)[2] = t /\ Delete(t)[2] = t
                          /\ Upsert(t)[1] = "upsert" /\ Delete(t)[1] = "delete"
                          /\ Upsert(t) # Delete(t)
    /\ \A t, u \in Targets : /\ Upsert(t) = Upsert(u) => t = u
                             /\ Delete(t) = Delete(u) => t = u
                             /\ Upsert(t) # Delete(u)
  BY DEF Targets

\* A worker in any phase of drain_once holds a well-formed claim.
LEMMA ClaimTyped ==
    ASSUME TypeOK, NEW w \in Workers, work[w] # NoClaim
    PROVE  work[w] \in Claims
  BY DEF TypeOK

\* The idle record is none of the phases.
LEMMA BusyPhase ==
    ASSUME TypeOK, NEW w \in Workers, work[w].phase \in Phases
    PROVE  work[w] # NoClaim /\ work[w] \in Claims
  BY ClaimTyped DEF NoClaim, Phases, Claims

\* The rows an operation can leave behind are rows.
LEMMA RowsTyped ==
    /\ NoRow \in Row /\ Fresh \in Row
    /\ \A r \in Row : /\ Requeued(r) \in Row
                      /\ Leased(r) \in Row
                      /\ Started(r) \in Row
    /\ \A r \in Row, s \in Statuses : Settled(r, s) \in Row
<1> USE DEF Row, Statuses, Waiting, Terminal
<1>1. NoRow \in Row /\ Fresh \in Row
  BY DEF NoRow, Fresh
<1>2. \A r \in Row : Requeued(r) \in Row
  BY DEF Requeued
<1>3. \A r \in Row : Leased(r) \in Row
  BY DEF Leased
<1>4. \A r \in Row : Started(r) \in Row
  BY DEF Started
<1>5. \A r \in Row, s \in Statuses : Settled(r, s) \in Row
  BY DEF Settled
<1> QED
  BY <1>1, <1>2, <1>3, <1>4, <1>5

LEMMA SweptTyped ==
    ASSUME TypeOK, NEW k \in Keys
    PROVE  Swept(k) \in Row
  BY DEF TypeOK, Swept, Row, Statuses, Waiting, Terminal

LEMMA InitTyped == Init => TypeOK
  BY ProjectionAssumption, RowsTyped
  DEF Init, TypeOK, HeadStates, OperationKeys, Decided, NoClaim

LEMMA LedgerTyped ==
    ASSUME TypeOK, NEW m \in Memories, Ledger(m)
    PROVE  TypeOK'
<1> USE RowsTyped, ProjectionAssumption
<1>1. CASE CommitNew(m)
  <2>1. head' \in [Memories -> [state : HeadStates, rev : 0..MaxRevision]]
    BY <1>1 DEF CommitNew, TypeOK, HeadStates
  <2>2. outbox' \in [Keys -> Row]
    BY <1>1 DEF CommitNew, EnqueueUpsert, TypeOK
  <2> QED
    BY <1>1, <2>1, <2>2 DEF CommitNew, TypeOK, backendVars
<1>2. CASE CommitUpdate(m)
  <2>1. head' \in [Memories -> [state : HeadStates, rev : 0..MaxRevision]]
    BY <1>2 DEF CommitUpdate, TypeOK
  <2>2. outbox' \in [Keys -> Row]
    BY <1>2 DEF CommitUpdate, EnqueueUpsert, TypeOK
  <2> QED
    BY <1>2, <2>1, <2>2 DEF CommitUpdate, TypeOK, backendVars
<1>3. CASE Supersede(m)
  <2>1. head' \in [Memories -> [state : HeadStates, rev : 0..MaxRevision]]
    BY <1>3 DEF Supersede, TypeOK, HeadStates
  <2>2. outbox' \in [Keys -> Row]
    BY <1>3 DEF Supersede, EnqueueDeletes, TypeOK
  <2> QED
    BY <1>3, <2>1, <2>2 DEF Supersede, TypeOK, backendVars
<1>4. CASE Forget(m)
  <2>1. head' \in [Memories -> [state : HeadStates, rev : 0..MaxRevision]]
    BY <1>4 DEF Forget, TypeOK, HeadStates
  <2>2. outbox' \in [Keys -> Row]
    BY <1>4 DEF Forget, EnqueueDeletes, TypeOK
  <2> QED
    BY <1>4, <2>1, <2>2 DEF Forget, TypeOK, backendVars
<1> QED
  BY <1>1, <1>2, <1>3, <1>4 DEF Ledger

\* Every change of work[w] that the steps of a worker make is typed.
WorkTypedNext ==
    /\ work' \in [Workers -> Claims \cup {NoClaim}]
    /\ \A w \in Workers : Decided(work'[w])

LEMMA WorkTyped ==
    ASSUME TypeOK, NEW w \in Workers
    PROVE  /\ UNCHANGED work => WorkTypedNext
           /\ Leave(w) => WorkTypedNext
           /\ \A p \in Phases \ {"finishing"} :
                 work[w] \in Claims /\ Go(w, p) => WorkTypedNext
           /\ \A v \in {"unknown", "retry", "obsolete", "blocked"} :
                 work[w] \in Claims /\ Decide(w, v) => WorkTypedNext
           /\ \A f \in BOOLEAN : work[w] \in Claims
                 /\ work' = [work EXCEPT ![w].phase = "returned", ![w].found = f]
                 => WorkTypedNext
           /\ \A s \in BOOLEAN : work[w] \in Claims
                 /\ work' = [work EXCEPT ![w].phase = "inspected", ![w].seen = s]
                 => WorkTypedNext
<1>1. UNCHANGED work => WorkTypedNext
  BY DEF TypeOK, Decided, WorkTypedNext
<1>2. Leave(w) => WorkTypedNext
  BY DEF TypeOK, Decided, WorkTypedNext, Leave, NoClaim
\* It is enough that the claim of w becomes another claim.
<1>3. ASSUME NEW c, c \in Claims, Decided(c), work' = [work EXCEPT ![w] = c]
      PROVE  WorkTypedNext
  BY <1>3 DEF TypeOK, WorkTypedNext
<1>4. ASSUME NEW p \in Phases \ {"finishing"}, work[w] \in Claims, Go(w, p)
      PROVE  WorkTypedNext
  <2> DEFINE c == [work[w] EXCEPT !.phase = p]
  <2>1. c \in Claims /\ Decided(c)
    BY <1>4 DEF Claims, Decided
  <2> QED
    BY <2>1, <1>3, <1>4 DEF Go
<1>5. ASSUME NEW v \in {"unknown", "retry", "obsolete", "blocked"},
             work[w] \in Claims, Decide(w, v)
      PROVE  WorkTypedNext
  <2> DEFINE c == [work[w] EXCEPT !.phase = "finishing", !.verdict = v]
  <2>1. c \in Claims /\ Decided(c)
    BY <1>5 DEF Claims, Decided, Phases
  <2>2. work' = [work EXCEPT ![w] = c]
    BY <1>5 DEF Decide, TypeOK, Claims
  <2> QED
    BY <2>1, <2>2, <1>3
<1>6. ASSUME NEW f \in BOOLEAN, work[w] \in Claims,
             work' = [work EXCEPT ![w].phase = "returned", ![w].found = f]
      PROVE  WorkTypedNext
  <2> DEFINE c == [work[w] EXCEPT !.phase = "returned", !.found = f]
  <2>1. c \in Claims /\ Decided(c)
    BY <1>6 DEF Claims, Decided, Phases
  <2>2. work' = [work EXCEPT ![w] = c]
    BY <1>6 DEF TypeOK, Claims
  <2> QED
    BY <2>1, <2>2, <1>3
<1>7. ASSUME NEW s \in BOOLEAN, work[w] \in Claims,
             work' = [work EXCEPT ![w].phase = "inspected", ![w].seen = s]
      PROVE  WorkTypedNext
  <2> DEFINE c == [work[w] EXCEPT !.phase = "inspected", !.seen = s]
  <2>1. c \in Claims /\ Decided(c)
    BY <1>7 DEF Claims, Decided, Phases
  <2>2. work' = [work EXCEPT ![w] = c]
    BY <1>7 DEF TypeOK, Claims
  <2> QED
    BY <2>1, <2>2, <1>3
<1> QED
  BY <1>1, <1>2, <1>4, <1>5, <1>6, <1>7

\* The history of writes behind the back of the outbox is about targets.
LEMMA UnseenTyped ==
    ASSUME TypeOK
    PROVE  /\ \A k \in Keys, b \in BOOLEAN : Behind(k, b) => unseen' \subseteq Targets
           /\ \A w \in Workers : Looked(w) => unseen' \subseteq Targets
  BY KeyParts DEF Behind, Looked, TypeOK

LEMMA ClaimNextTyped ==
    ASSUME TypeOK, NEW w \in Workers, ClaimNext(w)
    PROVE  TypeOK'
<1>1. PICK k \in Keys :
        /\ Claimable(k)
        /\ outbox' = [j \in Keys |-> IF j = k THEN Leased(Swept(k)) ELSE Swept(j)]
        /\ work' = [work EXCEPT ![w] = ClaimOf(k)]
  BY DEF ClaimNext
<1>2. outbox' \in [Keys -> Row]
  BY <1>1, SweptTyped, RowsTyped
<1>3. Swept(k).status \in {"pending", "retry", "unknown"}
  BY <1>1 DEF Claimable, Waiting
<1>4. outbox[k].attempts + 1 \in Nat
  BY DEF TypeOK, Row
<1>5. ClaimOf(k) \in Claims /\ Decided(ClaimOf(k))
  BY <1>3, <1>4 DEF Claims, Phases, ClaimOf, Decided
<1>7. work' \in [Workers -> Claims \cup {NoClaim}] /\ \A v \in Workers : Decided(work'[v])
  BY <1>1, <1>5 DEF TypeOK
<1>6. UNCHANGED <<ledgerVars, receipts, items, late, faults>>
  BY DEF ClaimNext
<1>8. unseen' \subseteq Targets
  BY KeyParts DEF ClaimNext, TypeOK
<1> HIDE DEF Keys, Actions
<1> QED
  BY <1>2, <1>6, <1>7, <1>8 DEF TypeOK, ledgerVars

LEMMA DrainTyped ==
    ASSUME TypeOK, NEW w \in Workers, DrainOnce(w)
    PROVE  TypeOK'
<1> HIDE DEF Keys, Actions
<1> USE DEF Step
<1>0. ASSUME work[w].phase \in Phases
      PROVE  /\ work[w] \in Claims /\ work[w].key \in Keys
             /\ Target(w) \in Targets
             /\ outbox[work[w].key] \in Row
  BY <1>0, BusyPhase, KeyParts DEF Claims, TypeOK, Target
<1>1. CASE ClaimNext(w)
  BY <1>1, ClaimNextTyped
<1>2. CASE CheckHead(w)
  <2>1. WorkTypedNext
    BY <1>2, <1>0, WorkTyped DEF CheckHead, Phases
  <2> QED
    BY <1>2, <2>1 DEF WorkTypedNext, CheckHead, TypeOK, ledgerVars, backendVars
<1>3. ASSUME NEW p \in {"calling", "verifying"}, work[w].phase \in Phases,
             MarkStarted(w, p), UNCHANGED <<ledgerVars, faults>>, unseen' \subseteq Targets
      PROVE  TypeOK'
  <2>1. outbox' \in [Keys -> Row]
    BY <1>3, <1>0, RowsTyped DEF MarkStarted, TypeOK
  <2>2. WorkTypedNext
    BY <1>3, <1>0, WorkTyped DEF MarkStarted, Phases
  <2> QED
    BY <1>3, <2>1, <2>2 DEF WorkTypedNext, MarkStarted, TypeOK, ledgerVars
<1>4. CASE StartCall(w)
  BY <1>4, <1>3 DEF StartCall, Phases, TypeOK
<1>5. CASE StartVerify(w)
  BY <1>5, <1>3, UnseenTyped DEF StartVerify, Phases, TypeOK
<1>7. CASE Materialize(w)
  <2>1. WorkTypedNext
    BY <1>7, <1>0, WorkTyped DEF Materialize, Phases
  <2>2. items' \subseteq Targets
    BY <1>7, <1>0 DEF Materialize, Apply, Target, TypeOK, Phases
  <2>3. unseen' \subseteq Targets
    BY <1>7, <1>0, UnseenTyped DEF Materialize, AtAttempt, Phases
  <2> QED
    BY <1>7, <2>1, <2>2, <2>3 DEF WorkTypedNext, Materialize, TypeOK, ledgerVars
<1>8. CASE RemoveRemote(w)
  <2>1. (outbox[work[w].key].locator \/ Target(w) \in items) \in BOOLEAN
    OBVIOUS
  <2>2. WorkTypedNext
    BY <1>8, <1>0, <2>1, WorkTyped DEF RemoveRemote, Phases
  <2>3. items' \subseteq Targets
    BY <1>8, <1>0 DEF RemoveRemote, Apply, Target, TypeOK, Phases
  <2> QED
    BY <1>8, <2>2, <2>3 DEF WorkTypedNext, RemoveRemote, TypeOK, ledgerVars
<1>9. CASE VerifyUnknown(w)
  <2>1. outbox[work[w].key].locator \in BOOLEAN
    BY <1>9, <1>0 DEF VerifyUnknown, Row, Phases
  <2>2. WorkTypedNext
    BY <1>9, <1>0, <2>1, WorkTyped DEF VerifyUnknown, Exhausted, Phases
  <2> QED
    BY <1>9, <2>2 DEF WorkTypedNext, VerifyUnknown, TypeOK, ledgerVars, backendVars
<1>10. CASE Inspect(w)
  <2>1. (work[w].found /\ Target(w) \in items) \in BOOLEAN
    OBVIOUS
  <2>2. WorkTypedNext
    BY <1>10, <1>0, <2>1, WorkTyped DEF Inspect, Phases
  <2>3. unseen' \subseteq Targets
    BY <1>10, UnseenTyped DEF Inspect, TypeOK
  <2> QED
    BY <1>10, <2>2, <2>3 DEF WorkTypedNext, Inspect, TypeOK, ledgerVars
<1>11. CASE Complete(w)
  <2>1. WorkTypedNext
    BY <1>11, WorkTyped DEF Complete
  <2>2. outbox' \in [Keys -> Row]
    BY <1>11, <1>0, RowsTyped, KeyParts
    DEF Complete, TypeOK, Phases, Statuses, Terminal
  <2>3. receipts' \subseteq OperationKeys
    BY <1>11, <1>0, KeyParts DEF Complete, TypeOK, Phases, OperationKeys, Row, Target
  <2> QED
    BY <1>11, <2>1, <2>2, <2>3
    DEF WorkTypedNext, Complete, TypeOK, ledgerVars, backendVars
<1>12. CASE FinishWithoutLocator(w)
  <2>1. WorkTypedNext
    BY <1>12, WorkTyped DEF FinishWithoutLocator
  <2>2. work[w].verdict \in Statuses
    BY <1>12, <1>0
    DEF FinishWithoutLocator, TypeOK, Decided, Claims, Phases, Statuses, Waiting, Terminal
  <2>3. outbox' \in [Keys -> Row]
    BY <1>12, <1>0, <2>2, RowsTyped DEF FinishWithoutLocator, TypeOK, Phases
  <2> QED
    BY <1>12, <2>1, <2>3
    DEF WorkTypedNext, FinishWithoutLocator, TypeOK, ledgerVars, backendVars
<1> QED
  BY <1>1, <1>2, <1>4, <1>5, <1>7, <1>8, <1>9, <1>10, <1>11, <1>12 DEF DrainOnce

LEMMA FaultTyped ==
    ASSUME TypeOK, NEW w \in Workers, Fault(w)
    PROVE  TypeOK'
<1> HIDE DEF Keys, Actions
<1>0. ASSUME work[w].phase \in Phases
      PROVE  /\ work[w] \in Claims /\ work[w].key \in Keys
             /\ Target(w) \in Targets
  BY <1>0, BusyPhase, KeyParts DEF Claims, TypeOK, Target
<1>1. faults' \in 0..MaxFaults
  BY ProjectionAssumption DEF Fault, CallFails, VerifyFails, InspectFails, Crash, Faulty, TypeOK
<1>2. ASSUME work[w].key \in Keys, Unanswered(w)
      PROVE  items' \subseteq Targets /\ late' \subseteq Keys /\ unseen' \subseteq Targets
  BY <1>2, KeyParts, UnseenTyped DEF Unanswered, Apply, AtAttempt, TypeOK, backendVars
<1>3. ASSUME ReadFails(w), work[w].phase \in Phases
      PROVE  WorkTypedNext
  BY <1>3, <1>0, WorkTyped DEF ReadFails, Exhausted
<1>4. CASE CallFails(w)
  <2>1. WorkTypedNext
    BY <1>4, <1>0, WorkTyped DEF CallFails, Faulty, Exhausted, Phases
  <2>2. items' \subseteq Targets /\ late' \subseteq Keys /\ unseen' \subseteq Targets
    BY <1>4, <1>0, <1>2 DEF CallFails, Faulty, Phases, TypeOK, backendVars
  <2> QED
    BY <1>4, <1>1, <2>1, <2>2 DEF WorkTypedNext, CallFails, Faulty, TypeOK, ledgerVars
<1>5. CASE VerifyFails(w)
  <2>1. WorkTypedNext
    BY <1>5, <1>3 DEF VerifyFails, Faulty, Phases
  <2> QED
    BY <1>5, <1>1, <2>1 DEF WorkTypedNext, VerifyFails, Faulty, TypeOK, ledgerVars, backendVars
<1>6. CASE InspectFails(w)
  <2>1. WorkTypedNext
    BY <1>6, <1>3 DEF InspectFails, Faulty, Phases
  <2> QED
    BY <1>6, <1>1, <2>1 DEF WorkTypedNext, InspectFails, Faulty, TypeOK, ledgerVars, backendVars
<1>7. CASE Crash(w)
  <2>1. WorkTypedNext
    BY <1>7, WorkTyped DEF Crash
  <2>2. items' \subseteq Targets /\ late' \subseteq Keys /\ unseen' \subseteq Targets
    BY <1>7, <1>0, <1>2 DEF Crash, Phases, TypeOK, backendVars
  <2> QED
    BY <1>7, <1>1, <2>1, <2>2 DEF WorkTypedNext, Crash, TypeOK, ledgerVars
<1> QED
  BY <1>4, <1>5, <1>6, <1>7 DEF Fault

LEMMA EnvironmentTyped ==
    ASSUME TypeOK, NEW k \in Keys,
           LeaseRunsOut(k) \/ LeaseOverrun(k) \/ LateRequestLands(k)
    PROVE  TypeOK'
<1> HIDE DEF Keys, Actions
<1>1. [outbox[k] EXCEPT !.lease = "expired"] \in Row
  BY DEF TypeOK, Row
<1>2. CASE LeaseRunsOut(k)
  BY <1>1, <1>2 DEF LeaseRunsOut, TypeOK, ledgerVars, backendVars
<1>3. CASE LeaseOverrun(k)
  BY <1>1, <1>3, ProjectionAssumption DEF LeaseOverrun, TypeOK, ledgerVars, backendVars
<1>4. CASE LateRequestLands(k)
  BY <1>4, KeyParts, UnseenTyped DEF LateRequestLands, Apply, TypeOK, ledgerVars
<1> QED
  BY <1>2, <1>3, <1>4

(***************************************************************************)
(* Type correctness: whatever the interleaving, every outbox row, receipt  *)
(* and claim stays well formed; in particular _finish_without_locator      *)
(* never writes a status nobody decided on.                                *)
(***************************************************************************)
THEOREM TypeCorrect == Spec => []TypeOK
<1>1. Init => TypeOK
  BY InitTyped
<1>2. TypeOK /\ [Next]_vars => TypeOK'
  <2> SUFFICES ASSUME TypeOK, [Next]_vars PROVE TypeOK'
    OBVIOUS
  <2>1. CASE \E m \in Memories : Ledger(m)
    BY <2>1, LedgerTyped
  <2>2. CASE \E g \in Generations : RegisterGeneration(g)
    BY <2>2 DEF RegisterGeneration, TypeOK, backendVars
  <2>3. CASE \E w \in Workers : DrainOnce(w) \/ Fault(w)
    BY <2>3, DrainTyped, FaultTyped
  <2>4. CASE \E k \in Keys : LeaseRunsOut(k) \/ LeaseOverrun(k) \/ LateRequestLands(k)
    BY <2>4, EnvironmentTyped
  <2>5. CASE UNCHANGED vars
    BY <2>5 DEF vars, TypeOK
  <2> QED
    BY <2>1, <2>2, <2>3, <2>4, <2>5 DEF Next
<1> QED
  BY <1>1, <1>2, PTL DEF Spec

-----------------------------------------------------------------------------
(***************************************************************************)
(* What any step may do to the heads, the rows, the backend and the claims *)
(* without endangering the invariant.                                      *)
(***************************************************************************)

\* A revision that has been committed and is not current never becomes it.
HeadsMoveOn ==
    /\ HeadsNumbered'
    /\ \A t \in Targets : Committed(t) => /\ Committed(t)'
                                          /\ IsCurrent(t)' => IsCurrent(t)

\* Rows stay; a new one is about a committed revision, and a new delete row
\* about one that is not current.
RowsStay ==
    \A k \in Keys :
        /\ Known(k) => Known(k)'
        /\ Known(k)' => \/ Known(k)
                        \/ /\ Committed(k[2])'
                           /\ k[1] = "delete" => ~IsCurrent(k[2])'

ConfirmsSeen ==
    \A t \in Targets :
        outbox'[Upsert(t)].status = "confirmed" /\ IsCurrent(t)' =>
            outbox[Upsert(t)].status = "confirmed" \/ t \in items

\* Whoever writes to the backend, or removes from it, has a row for it.
EffectsByRows ==
    /\ \A t \in items' : t \in items \/ Known(Upsert(t))
    /\ \A t \in items : t \in items' \/ Known(Delete(t))
    /\ \A k \in late' : k \in late \/ Known(k)

ClaimsByRows ==
    \A w \in Workers :
        \/ work'[w] = NoClaim
        \/ work'[w] = work[w]
        \/ /\ work'[w].key \in Keys
           /\ Known(work'[w].key)
           /\ Observed(work'[w]) => work'[w].key[2] \in items

LEMMA SafeStep ==
    ASSUME SafetyInv, TypeOK', HeadsMoveOn, RowsStay, ConfirmsSeen,
           EffectsByRows, ClaimsByRows
    PROVE  SafetyInv'
<1>1. RowsCommitted'
  BY KeyParts DEF SafetyInv, RowsCommitted, RowsStay, HeadsMoveOn
\* The key of a claim is named, so that it means the same before and after.
<1>2. ASSUME NEW w \in Workers, work'[w] # NoClaim
      PROVE  \E k \in Keys : k = work'[w].key /\ k[2] \in Targets /\ Known(k)
  <2>1. work'[w] = work[w] => work[w].key \in Keys /\ Known(work[w].key)
    BY <1>2, ClaimTyped DEF SafetyInv, EffectsHaveRows, Claims
  <2> QED
    BY <1>2, <2>1, KeyParts DEF ClaimsByRows
<1>3. EffectsHaveRows'
  <2>1. ASSUME NEW w \in Workers, work'[w] # NoClaim
        PROVE  outbox'[work'[w].key].status # "absent"
    BY <2>1, <1>2 DEF RowsStay, Known
  <2>2. \A k \in late' : Known(k)'
    BY DEF SafetyInv, TypeOK, EffectsHaveRows, EffectsByRows, RowsStay
  <2>3. \A t \in items' : Known(Upsert(t))'
    BY KeyParts DEF SafetyInv, TypeOK, EffectsHaveRows, EffectsByRows, RowsStay
  <2> QED
    BY <2>1, <2>2, <2>3 DEF EffectsHaveRows, Known
<1>4. \A k \in Keys : k[1] = "delete" /\ Known(k)' => ~IsCurrent(k[2])'
  <2> SUFFICES ASSUME NEW k \in Keys, k[1] = "delete", Known(k), Known(k)'
               PROVE  ~IsCurrent(k[2])'
    BY DEF RowsStay
  <2>1. k[2] \in Targets /\ k = Delete(k[2])
    BY KeyParts
  <2>2. Committed(k[2]) /\ ~IsCurrent(k[2])
    BY <2>1 DEF SafetyInv, RowsCommitted, DeleteNeverTargetsCurrent, Known
  <2> QED
    BY <2>1, <2>2 DEF HeadsMoveOn
<1>5. DeleteNeverTargetsCurrent'
  BY <1>3, <1>4, KeyParts DEF DeleteNeverTargetsCurrent, EffectsHaveRows, Known
\* What is there and is still current stays there.
<1>6. ASSUME NEW t \in Targets, t \in items, IsCurrent(t), Committed(t), IsCurrent(t)'
      PROVE  t \in items'
  BY <1>6, KeyParts DEF EffectsByRows, SafetyInv, DeleteNeverTargetsCurrent, Known
<1>7. ObservationStands'
  <2> SUFFICES ASSUME NEW w \in Workers, Observed(work[w])', NEW t \in Targets,
                      t = Target(w)', IsCurrent(t)'
               PROVE  t \in items'
    <3>1. ASSUME NEW w \in Workers, Observed(work[w])'
          PROVE  Target(w)' \in Targets
      BY <3>1, <1>2 DEF Observed, NoClaim, Target
    <3> QED
      BY <3>1 DEF ObservationStands, IsCurrent
  <2>1. work'[w] # NoClaim
    BY DEF Observed, NoClaim
  <2>2. Committed(t)
    BY <2>1, <1>2 DEF SafetyInv, RowsCommitted, Target
  <2>3. IsCurrent(t)
    BY <2>2 DEF HeadsMoveOn
  <2>4. t \in items
    BY <2>1, <2>3 DEF ClaimsByRows, SafetyInv, ObservationStands, Target, Observed
  <2> QED
    BY <2>2, <2>3, <2>4, <1>6
<1>8. LiveProjectionPresent'
  <2> SUFFICES ASSUME NEW t \in Targets, outbox'[Upsert(t)].status = "confirmed", IsCurrent(t)'
               PROVE  t \in items'
    BY DEF LiveProjectionPresent
  <2>1. Known(Upsert(t))
    BY KeyParts DEF ConfirmsSeen, SafetyInv, EffectsHaveRows, Known
  <2>2. Committed(t) /\ IsCurrent(t)
    BY <2>1, KeyParts DEF HeadsMoveOn, SafetyInv, RowsCommitted
  <2>3. t \in items
    BY <2>2 DEF ConfirmsSeen, SafetyInv, LiveProjectionPresent
  <2> QED
    BY <2>2, <2>3, <1>6
<1> QED
  BY <1>1, <1>3, <1>5, <1>7, <1>8 DEF SafetyInv, HeadsMoveOn

-----------------------------------------------------------------------------
(***************************************************************************)
(* Every step is such a step.                                              *)
(***************************************************************************)
LEMMA InitSafe == Init => SafetyInv
<1> SUFFICES ASSUME Init PROVE SafetyInv
  OBVIOUS
<1>1. TypeOK
  BY InitTyped
<1>2. HeadsNumbered /\ RowsCommitted /\ EffectsHaveRows
  BY DEF Init, HeadsNumbered, RowsCommitted, EffectsHaveRows, Known, NoRow
<1>3. ObservationStands
  BY DEF Init, ObservationStands, Observed, NoClaim
<1>4. DeleteNeverTargetsCurrent /\ LiveProjectionPresent
  BY KeyParts DEF Init, DeleteNeverTargetsCurrent, LiveProjectionPresent, NoRow
<1> QED
  BY <1>1, <1>2, <1>3, <1>4 DEF SafetyInv

LEMMA HeadsRest ==
    ASSUME SafetyInv, UNCHANGED head
    PROVE  HeadsMoveOn
  BY DEF SafetyInv, HeadsMoveOn, HeadsNumbered, Committed, IsCurrent

\* Rows that keep their status are rows that stay.
LEMMA RowsRest ==
    ASSUME \A k \in Keys : outbox'[k].status = outbox[k].status
    PROVE  RowsStay /\ ConfirmsSeen
  BY KeyParts DEF RowsStay, ConfirmsSeen, Known

\* The steps of a worker that look at nothing keep its claim by its row.
LEMMA ClaimsRest ==
    ASSUME SafetyInv, NEW w \in Workers
    PROVE  /\ UNCHANGED work => ClaimsByRows
           /\ Leave(w) => ClaimsByRows
           /\ \A p \in Phases \ {"inspected"} :
                 work[w] \in Claims /\ Go(w, p) => ClaimsByRows
           /\ \A v : work[w] \in Claims /\ Decide(w, v) => ClaimsByRows
           /\ \A f : work[w] \in Claims
                 /\ work' = [work EXCEPT ![w].phase = "returned", ![w].found = f]
                 => ClaimsByRows
<1>1. UNCHANGED work => ClaimsByRows
  BY DEF ClaimsByRows
<1>2. Leave(w) => ClaimsByRows
  BY DEF SafetyInv, TypeOK, ClaimsByRows, Leave
\* It is enough that the key stays and nothing is newly observed.
<1>3. ASSUME work[w] \in Claims, NEW c, c.key = work[w].key, c.phase # "inspected",
             work' = [work EXCEPT ![w] = c]
      PROVE  ClaimsByRows
  <2>1. work[w] # NoClaim /\ work[w].key \in Keys
    BY <1>3 DEF Claims, NoClaim, Phases
  <2> QED
    BY <2>1, <1>3 DEF SafetyInv, TypeOK, EffectsHaveRows, ClaimsByRows, Observed
<1>4. ASSUME NEW p \in Phases \ {"inspected"}, work[w] \in Claims, Go(w, p)
      PROVE  ClaimsByRows
  <2> DEFINE c == [work[w] EXCEPT !.phase = p]
  <2>1. c.key = work[w].key /\ c.phase # "inspected"
    BY <1>4 DEF Claims
  <2> QED
    BY <1>3, <1>4, <2>1 DEF Go
<1>5. ASSUME NEW v, work[w] \in Claims, Decide(w, v)
      PROVE  ClaimsByRows
  <2> DEFINE c == [work[w] EXCEPT !.phase = "finishing", !.verdict = v]
  <2>1. c.key = work[w].key /\ c.phase # "inspected"
    BY <1>5 DEF Claims
  <2>2. work' = [work EXCEPT ![w] = c]
    BY <1>5 DEF Decide, SafetyInv, TypeOK, Claims
  <2> QED
    BY <1>3, <1>5, <2>1, <2>2
<1>6. ASSUME NEW f, work[w] \in Claims,
             work' = [work EXCEPT ![w].phase = "returned", ![w].found = f]
      PROVE  ClaimsByRows
  <2> DEFINE c == [work[w] EXCEPT !.phase = "returned", !.found = f]
  <2>1. c.key = work[w].key /\ c.phase # "inspected"
    BY <1>6 DEF Claims
  <2>2. work' = [work EXCEPT ![w] = c]
    BY <1>6 DEF SafetyInv, TypeOK, Claims
  <2> QED
    BY <1>3, <1>6, <2>1, <2>2
<1> QED
  BY <1>1, <1>2, <1>4, <1>5, <1>6

LEMMA LedgerSafe ==
    ASSUME SafetyInv, NEW m \in Memories, Ledger(m)
    PROVE  SafetyInv'
<1>0. TypeOK /\ TypeOK' /\ HeadsNumbered /\ RowsCommitted
  BY LedgerTyped DEF SafetyInv
<1>1. EffectsByRows /\ ClaimsByRows
  BY DEF Ledger, CommitNew, CommitUpdate, Supersede, Forget, backendVars,
         EffectsByRows, ClaimsByRows
<1>2. HeadsMoveOn
  <2>1. CASE CommitNew(m)
    BY <2>1, <1>0 DEF CommitNew, HeadsMoveOn, HeadsNumbered, Committed, IsCurrent, TypeOK, Targets
  <2>2. CASE CommitUpdate(m)
    BY <2>2, <1>0 DEF CommitUpdate, HeadsMoveOn, HeadsNumbered, Committed, IsCurrent, TypeOK, Targets
  <2>3. CASE Supersede(m)
    BY <2>3, <1>0 DEF Supersede, HeadsMoveOn, HeadsNumbered, Committed, IsCurrent, TypeOK, Targets
  <2>4. CASE Forget(m)
    BY <2>4, <1>0 DEF Forget, HeadsMoveOn, HeadsNumbered, Committed, IsCurrent, TypeOK, Targets
  <2> QED
    BY <2>1, <2>2, <2>3, <2>4 DEF Ledger
\* Commits queue the new revision; retirements queue the removal of known ones.
<1>3. ASSUME NEW r \in 1..MaxRevision, EnqueueUpsert(m, r), head'[m].rev = r
      PROVE  RowsStay /\ ConfirmsSeen
  <2>1. \A k \in Keys : outbox'[k] = outbox[k] \/ (k = Upsert(<<m, r, active>>)
                            /\ outbox[k].status = "absent" /\ outbox'[k] = Fresh)
    BY <1>3 DEF EnqueueUpsert
  <2>2. Upsert(<<m, r, active>>)[1] = "upsert" /\ Upsert(<<m, r, active>>)[2][1] = m
        /\ Upsert(<<m, r, active>>)[2][2] = r
    BY DEF Upsert
  <2>3. RowsStay
    BY <1>3, <2>1, <2>2, <1>0 DEF RowsStay, Known, Committed, TypeOK
  <2>4. Fresh.status = "pending"
    BY DEF Fresh, NoRow
  <2> QED
    BY <2>1, <2>3, <2>4, KeyParts DEF ConfirmsSeen
<1>4. ASSUME EnqueueDeletes(m), head'[m].state # "active"
      PROVE  RowsStay /\ ConfirmsSeen
  <2>1. \A k \in Keys : outbox'[k] = outbox[k]
            \/ (k[1] = "delete" /\ k[2][1] = m /\ Known(Upsert(k[2]))
                /\ outbox[k].status = "absent" /\ outbox'[k] = Fresh)
    BY <1>4 DEF EnqueueDeletes, Known
  <2>2. Fresh.status = "pending"
    BY DEF Fresh, NoRow
  <2>3. ASSUME NEW k \in Keys, Known(Upsert(k[2]))
        PROVE  Committed(k[2])'
    BY <2>3, <1>0, <1>2, KeyParts DEF RowsCommitted, HeadsMoveOn
  <2>4. RowsStay
    BY <1>4, <2>1, <2>3 DEF RowsStay, Known, IsCurrent
  <2> QED
    BY <2>1, <2>2, <2>4, KeyParts DEF ConfirmsSeen
<1>5. RowsStay /\ ConfirmsSeen
  <2>1. CASE CommitNew(m)
    BY <2>1, <1>3, <1>0, ProjectionAssumption DEF CommitNew, TypeOK
  <2>2. CASE CommitUpdate(m)
    <3>1. head[m].rev + 1 \in 1..MaxRevision /\ head'[m].rev = head[m].rev + 1
      BY <2>2, <1>0, ProjectionAssumption DEF CommitUpdate, TypeOK
    <3> QED
      BY <2>2, <3>1, <1>3 DEF CommitUpdate
  <2>3. CASE Supersede(m)
    BY <2>3, <1>4, <1>0 DEF Supersede, TypeOK
  <2>4. CASE Forget(m)
    BY <2>4, <1>4, <1>0 DEF Forget, TypeOK
  <2> QED
    BY <2>1, <2>2, <2>3, <2>4 DEF Ledger
<1> QED
  BY <1>0, <1>1, <1>2, <1>5, SafeStep

LEMMA WorkerParts ==
    ASSUME SafetyInv, NEW w \in Workers, work[w].phase \in Phases
    PROVE  /\ work[w] # NoClaim /\ work[w] \in Claims
           /\ work[w].key \in Keys /\ Known(work[w].key)
           /\ Target(w) \in Targets
           /\ IsUpsert(w) => work[w].key = Upsert(Target(w))
           /\ ~IsUpsert(w) => work[w].key = Delete(Target(w))
<1>1. work[w] # NoClaim /\ work[w] \in Claims
  BY BusyPhase DEF SafetyInv
<1> QED
  BY <1>1, KeyParts DEF Claims, SafetyInv, EffectsHaveRows, Target, IsUpsert, Actions

\* What a request may do to the backend, now or later.
LEMMA RequestEffects ==
    ASSUME SafetyInv, NEW k \in Keys, Known(k)
    PROVE  /\ Apply(k) /\ late' \subseteq late => EffectsByRows
           /\ \A w \in Workers : work[w].key = k /\ Unanswered(w) => EffectsByRows
           /\ UNCHANGED <<items, late>> => EffectsByRows
<1>1. Apply(k) => /\ \A t \in items' : t \in items \/ Known(Upsert(t))
                  /\ \A t \in items : t \in items' \/ Known(Delete(t))
  BY KeyParts DEF Apply, SafetyInv, TypeOK, Actions
<1> QED
  BY <1>1 DEF Unanswered, EffectsByRows, backendVars, SafetyInv, TypeOK

LEMMA ClaimNextSafe ==
    ASSUME SafetyInv, NEW w \in Workers, ClaimNext(w)
    PROVE  SafetyInv'
<1>0. TypeOK /\ TypeOK' /\ HeadsMoveOn
  BY ClaimNextTyped, HeadsRest DEF SafetyInv, ClaimNext, ledgerVars
<1>1. PICK k \in Keys :
        /\ Claimable(k)
        /\ outbox' = [j \in Keys |-> IF j = k THEN Leased(Swept(k)) ELSE Swept(j)]
        /\ work' = [work EXCEPT ![w] = ClaimOf(k)]
  BY DEF ClaimNext
<1>2. ASSUME NEW j \in Keys
      PROVE  /\ Swept(j).status = "absent" <=> outbox[j].status = "absent"
             /\ Swept(j).status = "confirmed" <=> outbox[j].status = "confirmed"
  BY <1>0 DEF Swept, TypeOK, Row
<1>3. Known(k) /\ outbox[k].status # "confirmed"
  BY <1>1, <1>2 DEF Claimable, Waiting, Known
<1>4. Leased(Swept(k)).status = "running"
  BY DEF Leased
<1>5. RowsStay /\ ConfirmsSeen
  BY <1>1, <1>2, <1>3, <1>4, KeyParts DEF RowsStay, ConfirmsSeen, Known
<1>6. ClaimsByRows
  <2>1. ClaimOf(k).key = k /\ ~Observed(ClaimOf(k))
    BY DEF ClaimOf, Observed
  <2> QED
    BY <1>0, <1>1, <1>3, <2>1 DEF ClaimsByRows, TypeOK
<1>7. EffectsByRows
  BY DEF ClaimNext, backendVars, EffectsByRows
<1> QED
  BY <1>0, <1>5, <1>6, <1>7, SafeStep

LEMMA CompleteSafe ==
    ASSUME SafetyInv, NEW w \in Workers, Complete(w)
    PROVE  SafetyInv'
<1>0. TypeOK /\ TypeOK' /\ HeadsMoveOn /\ EffectsByRows /\ ClaimsByRows
  BY DrainTyped, HeadsRest, ClaimsRest
  DEF SafetyInv, Complete, Step, ledgerVars, backendVars, DrainOnce, EffectsByRows
<1>1. PICK k \in Keys, t \in Targets :
        /\ k = work[w].key /\ t = Target(w)
        /\ work[w].phase = "inspected" /\ Known(k)
        /\ IsUpsert(w) => k = Upsert(t)
  BY WorkerParts DEF Complete, Step, Phases
<1>2. \/ UNCHANGED outbox
      \/ outbox' = [outbox EXCEPT ![k] = Settled(@, "blocked")]
      \/ /\ IsUpsert(w) /\ ~IsCurrent(t)
         /\ outbox' = [outbox EXCEPT ![k] = Settled(@, "obsolete"), ![Delete(t)] = Requeued(@)]
      \/ /\ IsUpsert(w) => IsCurrent(t) /\ work[w].seen
         /\ outbox' = [outbox EXCEPT ![k] = Settled(@, "confirmed")]
  BY <1>1 DEF Complete, Matches
<1>3. \A r \in Row, s \in Statuses : Settled(r, s).status = s
  BY DEF Settled, Row
<1>4. \A r \in Row : Requeued(r).status = "pending"
  BY DEF Requeued, Row
<1>5. RowsStay
  <2>1. outbox \in [Keys -> Row] /\ Delete(t) \in Keys
    BY <1>0, <1>1, KeyParts DEF TypeOK
  <2>2. {"blocked", "obsolete", "confirmed"} \subseteq Statuses
    BY DEF Statuses, Terminal
  <2>3. ASSUME NEW j \in Keys
        PROVE  /\ Known(j) => Known(j)'
               /\ Known(j)' => Known(j) \/ (IsUpsert(w) /\ ~IsCurrent(t) /\ j = Delete(t))
    <3>1. Known(k)
      BY <1>1
    <3>2. CASE UNCHANGED outbox
      BY <3>2 DEF Known
    <3>3. CASE \E s \in Statuses \ {"absent"} : outbox' = [outbox EXCEPT ![k] = Settled(@, s)]
      <4>1. PICK s \in Statuses \ {"absent"} : outbox' = [outbox EXCEPT ![k] = Settled(@, s)]
        BY <3>3
      <4>2. outbox'[k].status = s /\ (j # k => outbox'[j] = outbox[j])
        BY <1>3, <2>1, <4>1
      <4> QED
        BY <3>1, <4>2 DEF Known
    <3>4. CASE /\ IsUpsert(w) /\ ~IsCurrent(t)
               /\ outbox' = [outbox EXCEPT ![k] = Settled(@, "obsolete"), ![Delete(t)] = Requeued(@)]
      <4>1. k # Delete(t)
        BY <1>1, <3>4, KeyParts
      <4>2. /\ outbox'[k].status = "obsolete" /\ outbox'[Delete(t)].status = "pending"
            /\ j # k /\ j # Delete(t) => outbox'[j] = outbox[j]
        BY <1>3, <1>4, <2>1, <2>2, <3>4, <4>1
      <4> QED
        BY <3>1, <3>4, <4>2 DEF Known
    <3>5. {"blocked", "obsolete", "confirmed"} \subseteq Statuses \ {"absent"}
      BY <2>2
    <3> QED
      BY <1>2, <3>2, <3>3, <3>4, <3>5
  <2>4. IsUpsert(w) => Committed(t)' /\ (~IsCurrent(t) => ~IsCurrent(t)')
    BY <1>0, <1>1, KeyParts DEF SafetyInv, RowsCommitted, HeadsMoveOn
  <2> QED
    BY <1>1, <2>3, <2>4, KeyParts DEF RowsStay
<1>6. ConfirmsSeen
  <2>1. IsUpsert(w) /\ work[w].seen /\ IsCurrent(t) => t \in items
    BY <1>1 DEF SafetyInv, ObservationStands, Observed, IsUpsert
  <2> QED
    BY <1>0, <1>1, <1>2, <1>3, <1>4, <2>1, KeyParts
    DEF ConfirmsSeen, TypeOK, IsUpsert, Statuses, Terminal
<1> QED
  BY <1>0, <1>5, <1>6, SafeStep

LEMMA DrainSafe ==
    ASSUME SafetyInv, NEW w \in Workers, DrainOnce(w)
    PROVE  SafetyInv'
<1> USE DEF Step
<1>0. TypeOK /\ TypeOK'
  BY DrainTyped DEF SafetyInv
\* A step that leaves the heads, the rows and the backend alone.
<1>1. ASSUME UNCHANGED <<ledgerVars, outbox, items, late>>, ClaimsByRows
      PROVE  SafetyInv'
  BY <1>0, <1>1, HeadsRest, RowsRest, SafeStep DEF ledgerVars, EffectsByRows
<1>2. CASE ClaimNext(w)
  BY <1>2, ClaimNextSafe
<1>3. CASE CheckHead(w)
  <2>1. ClaimsByRows
    BY <1>3, WorkerParts, ClaimsRest DEF CheckHead, Phases
  <2> QED
    BY <1>1, <1>3, <2>1 DEF CheckHead, backendVars
<1>4. ASSUME NEW p \in {"calling", "verifying"}, work[w].phase \in Phases,
             MarkStarted(w, p), UNCHANGED <<ledgerVars, faults>>
      PROVE  SafetyInv'
  <2>1. ClaimsByRows
    BY <1>4, WorkerParts, ClaimsRest DEF MarkStarted, Phases
  <2>2. \A r \in Row : Started(r).status = r.status
    BY DEF Started, Row
  <2>3. \A k \in Keys : outbox'[k].status = outbox[k].status
    BY <1>0, <1>4, <2>2, WorkerParts DEF MarkStarted, TypeOK
  <2> QED
    BY <1>0, <1>4, <2>1, <2>3, HeadsRest, RowsRest, SafeStep
    DEF MarkStarted, ledgerVars, backendVars, EffectsByRows
<1>5. CASE StartCall(w)
  BY <1>5, <1>4 DEF StartCall, Phases
<1>6. CASE StartVerify(w)
  BY <1>6, <1>4 DEF StartVerify, Phases
<1>7. CASE Materialize(w) \/ RemoveRemote(w)
  <2>1. ClaimsByRows
    BY <1>7, WorkerParts, ClaimsRest DEF Materialize, RemoveRemote, Phases
  <2>2. EffectsByRows
    BY <1>7, WorkerParts, RequestEffects DEF Materialize, RemoveRemote, Phases
  <2> QED
    BY <1>0, <1>7, <2>1, <2>2, HeadsRest, RowsRest, SafeStep
    DEF Materialize, RemoveRemote, ledgerVars
<1>8. CASE VerifyUnknown(w)
  <2>1. ClaimsByRows
    BY <1>8, WorkerParts, ClaimsRest DEF VerifyUnknown, Exhausted, Phases
  <2> QED
    BY <1>1, <1>8, <2>1 DEF VerifyUnknown, backendVars
<1>9. CASE Inspect(w)
  <2>1. /\ work[w] # NoClaim /\ work[w] \in Claims
        /\ work[w].key \in Keys /\ Known(work[w].key)
    BY <1>9, WorkerParts DEF Inspect, Phases
  <2> DEFINE c == [work[w] EXCEPT !.phase = "inspected",
                                  !.seen = work[w].found /\ Target(w) \in items]
  <2>2. c.key = work[w].key /\ (c.seen => c.key[2] \in items)
    BY <2>1 DEF Claims, Target
  <2>3. Owns(w) => work' = [work EXCEPT ![w] = c]
    BY <1>9, <1>0, <2>1 DEF Inspect, TypeOK, Claims
  <2>4. Owns(w) => ClaimsByRows
    BY <1>0, <2>1, <2>2, <2>3 DEF ClaimsByRows, Observed, TypeOK
  <2>5. ClaimsByRows
    BY <1>9, <2>4, ClaimsRest DEF Inspect
  <2> QED
    BY <1>1, <1>9, <2>5 DEF Inspect
<1>10. CASE Complete(w)
  BY <1>10, CompleteSafe
<1>11. CASE FinishWithoutLocator(w)
  <2>1. ClaimsByRows
    BY <1>11, ClaimsRest DEF FinishWithoutLocator
  <2>2. work[w].verdict \in {"unknown", "retry", "obsolete", "blocked"} /\ work[w].key \in Keys
    BY <1>11, <1>0, WorkerParts DEF FinishWithoutLocator, TypeOK, Decided, Claims, Phases
  <2>3. \A r \in Row, s \in Statuses : Settled(r, s).status = s
    BY DEF Settled, Row
  <2>4. RowsStay /\ ConfirmsSeen
    BY <1>11, <1>0, <2>2, <2>3, KeyParts, WorkerParts
    DEF FinishWithoutLocator, RowsStay, ConfirmsSeen, Known, TypeOK, Phases,
        Statuses, Waiting, Terminal
  <2> QED
    BY <1>0, <1>11, <2>1, <2>4, HeadsRest, SafeStep
    DEF FinishWithoutLocator, ledgerVars, backendVars, EffectsByRows
<1> QED
  BY <1>2, <1>3, <1>5, <1>6, <1>7, <1>8, <1>9, <1>10, <1>11 DEF DrainOnce

LEMMA FaultSafe ==
    ASSUME SafetyInv, NEW w \in Workers, Fault(w)
    PROVE  SafetyInv'
<1>0. TypeOK'
  BY FaultTyped DEF SafetyInv
<1>1. HeadsMoveOn /\ RowsStay /\ ConfirmsSeen
  BY HeadsRest, RowsRest
  DEF Fault, CallFails, VerifyFails, InspectFails, Crash, Faulty, ledgerVars
<1>2. EffectsByRows
  BY WorkerParts, RequestEffects
  DEF Fault, CallFails, VerifyFails, InspectFails, Crash, Faulty, Phases, backendVars, EffectsByRows
<1>3. ClaimsByRows
  BY WorkerParts, ClaimsRest
  DEF Fault, CallFails, VerifyFails, InspectFails, Crash, Faulty, ReadFails, Exhausted, Phases
<1> QED
  BY <1>0, <1>1, <1>2, <1>3, SafeStep

LEMMA EnvironmentSafe ==
    ASSUME SafetyInv, NEW k \in Keys,
           LeaseRunsOut(k) \/ LeaseOverrun(k) \/ LateRequestLands(k)
    PROVE  SafetyInv'
<1>0. TypeOK /\ TypeOK'
  BY EnvironmentTyped DEF SafetyInv
<1>1. \A j \in Keys : outbox'[j].status = outbox[j].status
  BY <1>0 DEF LeaseRunsOut, LeaseOverrun, LateRequestLands, TypeOK, Row
<1>2. HeadsMoveOn /\ RowsStay /\ ConfirmsSeen /\ ClaimsByRows
  BY <1>1, HeadsRest, RowsRest
  DEF LeaseRunsOut, LeaseOverrun, LateRequestLands, ledgerVars, ClaimsByRows
<1>3. EffectsByRows
  <2>1. CASE LateRequestLands(k)
    BY <2>1, RequestEffects DEF LateRequestLands, SafetyInv, EffectsHaveRows
  <2>2. CASE LeaseRunsOut(k) \/ LeaseOverrun(k)
    BY <2>2 DEF LeaseRunsOut, LeaseOverrun, backendVars, EffectsByRows
  <2> QED
    BY <2>1, <2>2
<1> QED
  BY <1>0, <1>2, <1>3, SafeStep

-----------------------------------------------------------------------------
(***************************************************************************)
(* The invariant of the projector holds in every reachable state.          *)
(***************************************************************************)
THEOREM SafetyInvariant == Spec => []SafetyInv
<1>1. Init => SafetyInv
  BY InitSafe
<1>2. SafetyInv /\ [Next]_vars => SafetyInv'
  <2> SUFFICES ASSUME SafetyInv, [Next]_vars PROVE SafetyInv'
    OBVIOUS
  <2>1. CASE \E m \in Memories : Ledger(m)
    BY <2>1, LedgerSafe
  <2>2. CASE (\E g \in Generations : RegisterGeneration(g)) \/ UNCHANGED vars
    <3>1. TypeOK'
      BY <2>2 DEF RegisterGeneration, vars, SafetyInv, TypeOK, backendVars
    <3>2. UNCHANGED <<head, outbox, work, items, late>>
      BY <2>2 DEF RegisterGeneration, vars, backendVars
    <3> QED
      BY <3>1, <3>2, HeadsRest, RowsRest, SafeStep DEF EffectsByRows, ClaimsByRows
  <2>3. CASE \E w \in Workers : DrainOnce(w) \/ Fault(w)
    BY <2>3, DrainSafe, FaultSafe
  <2>4. CASE \E k \in Keys : LeaseRunsOut(k) \/ LeaseOverrun(k) \/ LateRequestLands(k)
    BY <2>4, EnvironmentSafe
  <2> QED
    BY <2>1, <2>2, <2>3, <2>4 DEF Next
<1> QED
  BY <1>1, <1>2, PTL DEF Spec

(***************************************************************************)
(* The confirmed projection of a current revision is never taken out of    *)
(* the backend, not by a late request and not by an overtaken worker.      *)
(***************************************************************************)
THEOREM LivePresent == Spec => []LiveProjectionPresent
<1>1. SafetyInv => LiveProjectionPresent
  BY DEF SafetyInv
<1> QED
  BY <1>1, SafetyInvariant, PTL

(***************************************************************************)
(* No delete row and no delete request is ever about a current revision.   *)
(***************************************************************************)
THEOREM DeletesAreStale == Spec => []DeleteNeverTargetsCurrent
<1>1. SafetyInv => DeleteNeverTargetsCurrent
  BY DEF SafetyInv
<1> QED
  BY <1>1, SafetyInvariant, PTL

-----------------------------------------------------------------------------
(***************************************************************************)
(* The projector implements the derived index.                             *)
(***************************************************************************)
IndexStep == [Index!IndexNext]_(Index!indexVars)

Acked == {t \in Targets : outbox[Upsert(t)].status = "confirmed"}

\* A request that has a row publishes or withdraws, whenever it takes effect.
LEMMA ApplyIsStep ==
    ASSUME SafetyInv, NEW k \in Keys, Known(k), Apply(k), UNCHANGED head, Acked' = Acked
    PROVE  IndexStep
<1>1. k[2] \in Index!IndexTargets
  BY KeyParts DEF Index!IndexTargets, Targets
<1>2. Index!Committed(k[2])
  BY DEF Index!Committed, SafetyInv, RowsCommitted, Committed
<1>3. CASE k[1] = "upsert"
  <2>1. Index!Publish(k[2])
    BY <1>2, <1>3 DEF Index!Publish, Apply, Acked
  <2> QED
    BY <1>1, <2>1 DEF Index!IndexNext, IndexStep
<1>4. CASE k[1] # "upsert"
  <2>1. ~Index!Current(k[2])
    BY <1>4, KeyParts
    DEF Index!Current, IsCurrent, SafetyInv, DeleteNeverTargetsCurrent, Known, Actions
  <2>2. Index!Withdraw(k[2])
    BY <1>2, <1>4, <2>1 DEF Index!Withdraw, Apply, Acked
  <2> QED
    BY <1>1, <2>2 DEF Index!IndexNext, IndexStep
<1> QED
  BY <1>3, <1>4

\* Nothing the index can see has changed.
LEMMA StutterIsStep ==
    ASSUME UNCHANGED <<head, items>>, Acked' = Acked
    PROVE  IndexStep
  BY DEF IndexStep, Index!indexVars, Acked

LEMMA AckedRest ==
    ASSUME \A t \in Targets : outbox'[Upsert(t)].status = "confirmed"
                                  <=> outbox[Upsert(t)].status = "confirmed"
    PROVE  Acked' = Acked
  BY DEF Acked

LEMMA LedgerIsStep ==
    ASSUME SafetyInv, NEW m \in Memories, Ledger(m)
    PROVE  IndexStep
<1>0. TypeOK /\ TypeOK' /\ HeadsNumbered
  BY LedgerTyped DEF SafetyInv
<1>1. Acked' = Acked
  <2>1. Fresh.status = "pending"
    BY DEF Fresh, NoRow
  <2> QED
    BY <2>1, AckedRest, KeyParts
    DEF Ledger, CommitNew, CommitUpdate, Supersede, Forget, EnqueueUpsert, EnqueueDeletes
<1>2. UNCHANGED items
  BY DEF Ledger, CommitNew, CommitUpdate, Supersede, Forget, backendVars
<1>3. ASSUME NEW new \in [state : {"active", "retired", "deleted"}, rev : 1..MaxRevision],
             Index!Later(new, head[m]), head' = [head EXCEPT ![m] = new]
      PROVE  IndexStep
  <2>1. Index!ChangeHead(m)
    BY <1>1, <1>2, <1>3 DEF Index!ChangeHead, Acked
  <2> QED
    BY <2>1 DEF Index!IndexNext, IndexStep
<1>4. CASE CommitNew(m)
  <2> DEFINE new == [state |-> "active", rev |-> 1]
  <2>1. Index!Later(new, head[m])
    BY <1>0, <1>4 DEF Index!Later, CommitNew, HeadsNumbered, TypeOK
  <2>2. new.rev \in 1..MaxRevision
    BY ProjectionAssumption
  <2> QED
    BY <1>3, <1>4, <2>1, <2>2 DEF CommitNew
<1>5. CASE CommitUpdate(m)
  <2> DEFINE new == [state |-> "active", rev |-> head[m].rev + 1]
  <2>1. Index!Later(new, head[m])
    BY <1>0, <1>5 DEF Index!Later, CommitUpdate, TypeOK
  <2>2. new.rev \in 1..MaxRevision
    BY <1>0, <1>5, ProjectionAssumption DEF CommitUpdate, TypeOK
  <2> QED
    BY <1>3, <1>5, <2>1, <2>2 DEF CommitUpdate
<1>6. CASE Supersede(m)
  <2> DEFINE new == [state |-> "retired", rev |-> head[m].rev + 1]
  <2>1. Index!Later(new, head[m])
    BY <1>0, <1>6 DEF Index!Later, Supersede, TypeOK
  <2>2. new.rev \in 1..MaxRevision
    BY <1>0, <1>6, ProjectionAssumption DEF Supersede, TypeOK
  <2> QED
    BY <1>3, <1>6, <2>1, <2>2 DEF Supersede
<1>7. CASE Forget(m)
  <2> DEFINE new == [state |-> "deleted", rev |-> head[m].rev]
  <2>1. Index!Later(new, head[m])
    BY <1>0, <1>7 DEF Index!Later, Forget, TypeOK
  <2>2. new.rev \in 1..MaxRevision
    BY <1>0, <1>7, ProjectionAssumption DEF Forget, HeadsNumbered, TypeOK
  <2> QED
    BY <1>3, <1>7, <2>1, <2>2 DEF Forget
<1> QED
  BY <1>4, <1>5, <1>6, <1>7 DEF Ledger

LEMMA CompleteIsStep ==
    ASSUME SafetyInv, NEW w \in Workers, Complete(w)
    PROVE  IndexStep
<1>1. PICK k \in Keys, t \in Targets :
        /\ k = work[w].key /\ t = Target(w)
        /\ work[w].phase = "inspected"
        /\ IsUpsert(w) => k = Upsert(t)
        /\ ~IsUpsert(w) => k = Delete(t)
  BY WorkerParts DEF Complete, Step, Phases
<1>2. outbox \in [Keys -> Row] /\ {"blocked", "obsolete", "confirmed"} \subseteq Statuses
  BY DEF SafetyInv, TypeOK, Statuses, Terminal
<1>3. /\ \A r \in Row, s \in Statuses : Settled(r, s).status = s
      /\ \A r \in Row : Requeued(r).status = "pending"
  BY DEF Settled, Requeued, Row
<1>4. UNCHANGED <<head, items>>
  BY DEF Complete, Step, ledgerVars, backendVars
<1>5. CASE IsUpsert(w) /\ Owns(w) /\ Matches(w) /\ IsCurrent(t)
  <2>1. t \in items
    BY <1>1, <1>5 DEF SafetyInv, ObservationStands, Observed, IsUpsert, Matches
  <2>2. outbox' = [outbox EXCEPT ![k] = Settled(@, "confirmed")]
    BY <1>1, <1>5 DEF Complete
  <2>3. Acked' = Acked \cup {t}
    BY <1>1, <1>2, <1>3, <1>5, <2>2, KeyParts DEF Acked
  <2>4. Index!Acknowledge(t) /\ t \in Index!IndexTargets
    BY <1>4, <1>5, <2>1, <2>3
    DEF Index!Acknowledge, Index!Current, IsCurrent, Acked, Index!IndexTargets, Targets
  <2> QED
    BY <2>4 DEF Index!IndexNext, IndexStep
<1>6. CASE ~(IsUpsert(w) /\ Owns(w) /\ Matches(w) /\ IsCurrent(t))
  \* The row it settles was running, so it was not acknowledged before either.
  <2>1. Owns(w) => outbox[k].status = "running"
    BY <1>1 DEF Owns
  <2>2. \/ UNCHANGED outbox
        \/ /\ Owns(w)
           /\ outbox' = [outbox EXCEPT ![k] = Settled(@, "blocked")]
        \/ /\ Owns(w)
           /\ outbox' = [outbox EXCEPT ![k] = Settled(@, "obsolete"), ![Delete(t)] = Requeued(@)]
        \/ /\ ~IsUpsert(w)
           /\ outbox' = [outbox EXCEPT ![k] = Settled(@, "confirmed")]
    BY <1>1, <1>6 DEF Complete
  <2>3. \A u \in Targets : outbox'[Upsert(u)].status = "confirmed"
                              <=> outbox[Upsert(u)].status = "confirmed"
    <3> SUFFICES ASSUME NEW u \in Targets
                 PROVE  outbox'[Upsert(u)].status = "confirmed"
                           <=> outbox[Upsert(u)].status = "confirmed"
      OBVIOUS
    <3>1. /\ Upsert(u) \in Keys /\ Delete(t) \in Keys
          /\ Upsert(u) # Delete(t) /\ (~IsUpsert(w) => Upsert(u) # k)
      BY <1>1, KeyParts
    <3>2. CASE UNCHANGED outbox
      BY <3>2
    <3>3. CASE Owns(w) /\ outbox' = [outbox EXCEPT ![k] = Settled(@, "blocked")]
      <4>1. outbox'[k].status = "blocked" /\ (Upsert(u) # k => outbox'[Upsert(u)] = outbox[Upsert(u)])
        BY <1>2, <1>3, <3>1, <3>3
      <4> QED
        BY <2>1, <3>3, <4>1
    <3>4. CASE /\ Owns(w)
               /\ outbox' = [outbox EXCEPT ![k] = Settled(@, "obsolete"), ![Delete(t)] = Requeued(@)]
      <4>1. /\ k # Delete(t) => outbox'[k].status = "obsolete"
            /\ Upsert(u) # k => outbox'[Upsert(u)] = outbox[Upsert(u)]
        BY <1>2, <1>3, <3>1, <3>4
      <4> QED
        BY <2>1, <3>1, <3>4, <4>1
    <3>5. CASE ~IsUpsert(w) /\ outbox' = [outbox EXCEPT ![k] = Settled(@, "confirmed")]
      BY <3>1, <3>5
    <3> QED
      BY <2>2, <3>2, <3>3, <3>4, <3>5
  <2> QED
    BY <1>4, <2>3, AckedRest, StutterIsStep
<1> QED
  BY <1>5, <1>6

LEMMA DrainIsStep ==
    ASSUME SafetyInv, NEW w \in Workers, DrainOnce(w)
    PROVE  IndexStep
<1>0. TypeOK
  BY DEF SafetyInv
<1>1. CASE ClaimNext(w)
  <2>1. PICK k \in Keys :
          /\ Claimable(k)
          /\ outbox' = [j \in Keys |-> IF j = k THEN Leased(Swept(k)) ELSE Swept(j)]
    BY <1>1 DEF ClaimNext
  <2>2. \A j \in Keys : Swept(j).status = "confirmed" <=> outbox[j].status = "confirmed"
    BY <1>0 DEF Swept, TypeOK, Row
  <2>3. outbox[k].status # "confirmed" /\ Leased(Swept(k)).status = "running"
    BY <2>1, <2>2 DEF Claimable, Waiting, Leased
  <2>4. Acked' = Acked
    BY <2>1, <2>2, <2>3, AckedRest, KeyParts
  <2> QED
    BY <1>1, <2>4, StutterIsStep DEF ClaimNext, ledgerVars, backendVars
<1>2. CASE StartCall(w) \/ StartVerify(w)
  <2>1. \A r \in Row : Started(r).status = r.status
    BY DEF Started, Row
  <2>2. \A k \in Keys : outbox'[k].status = outbox[k].status
    BY <1>0, <1>2, <2>1, WorkerParts
    DEF StartCall, StartVerify, Step, MarkStarted, TypeOK, Phases
  <2>3. Acked' = Acked
    BY <2>2, AckedRest, KeyParts
  <2> QED
    BY <1>2, <2>3, StutterIsStep
    DEF StartCall, StartVerify, Step, MarkStarted, ledgerVars, backendVars
<1>3. CASE Materialize(w) \/ RemoveRemote(w)
  <2>1. work[w].key \in Keys /\ Known(work[w].key) /\ Apply(work[w].key)
        /\ UNCHANGED head /\ Acked' = Acked
    BY <1>3, WorkerParts DEF Materialize, RemoveRemote, Step, ledgerVars, Phases, Acked
  <2> QED
    BY <2>1, ApplyIsStep
<1>4. CASE CheckHead(w) \/ VerifyUnknown(w) \/ Inspect(w)
  BY <1>4, StutterIsStep
  DEF CheckHead, VerifyUnknown, Inspect, Step, ledgerVars, backendVars, Acked
<1>5. CASE Complete(w)
  BY <1>5, CompleteIsStep
<1>6. CASE FinishWithoutLocator(w)
  <2>1. PICK k \in Keys, v \in {"unknown", "retry", "obsolete", "blocked"} :
          k = work[w].key /\ v = work[w].verdict
    BY <1>0, <1>6, WorkerParts
    DEF FinishWithoutLocator, Step, TypeOK, Decided, Claims, Phases
  <2>2. \A r \in Row, s \in Statuses : Settled(r, s).status = s
    BY DEF Settled, Row
  <2>3. \A j \in Keys : outbox'[j].status = "confirmed" <=> outbox[j].status = "confirmed"
    BY <1>0, <1>6, <2>1, <2>2
    DEF FinishWithoutLocator, Owns, TypeOK, Statuses, Waiting, Terminal
  <2>4. Acked' = Acked
    BY <2>3, AckedRest, KeyParts
  <2> QED
    BY <1>6, <2>4, StutterIsStep DEF FinishWithoutLocator, Step, ledgerVars, backendVars
<1> QED
  BY <1>1, <1>2, <1>3, <1>4, <1>5, <1>6 DEF DrainOnce

LEMMA FaultIsStep ==
    ASSUME SafetyInv, NEW w \in Workers, Fault(w)
    PROVE  IndexStep
<1>1. UNCHANGED head /\ Acked' = Acked
  BY DEF Fault, CallFails, VerifyFails, InspectFails, Crash, Faulty, ledgerVars, Acked
<1>2. \/ UNCHANGED items
      \/ work[w].phase = "calling" /\ Apply(work[w].key)
  BY DEF Fault, CallFails, VerifyFails, InspectFails, Crash, Faulty, Unanswered, backendVars
<1> QED
  BY <1>1, <1>2, WorkerParts, ApplyIsStep, StutterIsStep DEF Phases

LEMMA EnvironmentIsStep ==
    ASSUME SafetyInv, NEW k \in Keys,
           LeaseRunsOut(k) \/ LeaseOverrun(k) \/ LateRequestLands(k)
    PROVE  IndexStep
<1>1. \A j \in Keys : outbox'[j].status = outbox[j].status
  BY DEF SafetyInv, LeaseRunsOut, LeaseOverrun, LateRequestLands, TypeOK, Row
<1>2. Acked' = Acked /\ UNCHANGED head
  BY <1>1, AckedRest, KeyParts DEF LeaseRunsOut, LeaseOverrun, LateRequestLands, ledgerVars
<1>3. UNCHANGED items \/ (k \in late /\ Apply(k))
  BY DEF LeaseRunsOut, LeaseOverrun, LateRequestLands, backendVars
<1> QED
  BY <1>2, <1>3, ApplyIsStep, StutterIsStep DEF SafetyInv, EffectsHaveRows

(***************************************************************************)
(* Refinement: for all the leases, attempts, crashes and requests that     *)
(* outlive their callers, what the projector does to the backend and       *)
(* reports as confirmed is what the derived index allows.                  *)
(***************************************************************************)
THEOREM RefinesIndex == Spec => ImplementsIndex
<1>1. Init => Index!IndexInit
  BY KeyParts DEF Init, Index!IndexInit, NoRow
<1>2. SafetyInv /\ [Next]_vars => IndexStep
  <2> SUFFICES ASSUME SafetyInv, [Next]_vars PROVE IndexStep
    OBVIOUS
  <2>1. CASE \E m \in Memories : Ledger(m)
    BY <2>1, LedgerIsStep
  <2>2. CASE (\E g \in Generations : RegisterGeneration(g)) \/ UNCHANGED vars
    BY <2>2, StutterIsStep DEF RegisterGeneration, vars, backendVars, Acked
  <2>3. CASE \E w \in Workers : DrainOnce(w) \/ Fault(w)
    BY <2>3, DrainIsStep, FaultIsStep
  <2>4. CASE \E k \in Keys : LeaseRunsOut(k) \/ LeaseOverrun(k) \/ LateRequestLands(k)
    BY <2>4, EnvironmentIsStep
  <2> QED
    BY <2>1, <2>2, <2>3, <2>4 DEF Next
<1> QED
  BY <1>1, <1>2, SafetyInvariant, PTL DEF Spec, ImplementsIndex, Index!IndexSpec, IndexStep

-----------------------------------------------------------------------------
(***************************************************************************)
(* Who settles a row.                                                      *)
(***************************************************************************)

\* The status of a row after each kind of step that writes rows.
LEMMA StatusAfter ==
    /\ \A r \in Row, s \in Statuses : Settled(r, s).status = s
    /\ \A r \in Row : /\ Requeued(r).status = "pending"
                      /\ Leased(r).status = "running"
                      /\ Started(r).status = r.status
    /\ \A r \in Row : Leased(r).locator = r.locator /\ Started(r).locator = r.locator
    /\ Fresh.status = "pending"
  BY DEF Settled, Requeued, Leased, Started, Fresh, NoRow, Row

LEMMA SweptStatus ==
    ASSUME TypeOK, NEW k \in Keys
    PROVE  \/ Swept(k).status = outbox[k].status
           \/ outbox[k].status = "running" /\ Swept(k).status \in {"unknown", "retry"}
  BY DEF Swept, TypeOK, Row

LEMMA SweptLocator ==
    ASSUME TypeOK, NEW k \in Keys
    PROVE  Swept(k).locator = outbox[k].locator
  BY DEF Swept, TypeOK, Row

\* Steps other than the two that settle: none of them makes a row terminal or
\* takes it out of a terminal status, and none writes a locator.
RowUnsettled(k) ==
    /\ outbox'[k].status \in Terminal => outbox'[k].status = outbox[k].status
    /\ outbox[k].status \in Terminal =>
          outbox'[k].status = outbox[k].status /\ outbox'[k].locator = outbox[k].locator

LEMMA OthersSettleNothing ==
    ASSUME TypeOK, [Next]_vars, NEW k \in Keys,
           \A w \in Workers : ~Complete(w) /\ ~FinishWithoutLocator(w)
    PROVE  RowUnsettled(k)
<1> USE DEF Terminal, RowUnsettled
<1>1. CASE UNCHANGED outbox
  BY <1>1
<1>2. CASE \E m \in Memories : Ledger(m)
  BY <1>2, StatusAfter
  DEF Ledger, CommitNew, CommitUpdate, Supersede, Forget, EnqueueUpsert, EnqueueDeletes
<1>3. ASSUME NEW w \in Workers, ClaimNext(w)
      PROVE  RowUnsettled(k)
  <2>1. PICK j \in Keys :
          /\ Swept(j).status \notin Terminal
          /\ outbox' = [i \in Keys |-> IF i = j THEN Leased(Swept(j)) ELSE Swept(i)]
    BY <1>3 DEF ClaimNext, Claimable, Waiting
  <2>2. Leased(Swept(j)).status = "running"
    BY SweptTyped, StatusAfter
  <2> QED
    BY <2>1, <2>2, SweptStatus, SweptLocator, SweptTyped, StatusAfter
<1>4. ASSUME NEW w \in Workers, StartCall(w) \/ StartVerify(w)
      PROVE  RowUnsettled(k)
  BY <1>4, BusyPhase, StatusAfter
  DEF StartCall, StartVerify, Step, MarkStarted, TypeOK, Claims, Phases
<1>5. ASSUME NEW j \in Keys, LeaseRunsOut(j) \/ LeaseOverrun(j)
      PROVE  RowUnsettled(k)
  BY <1>5 DEF LeaseRunsOut, LeaseOverrun, TypeOK, Row
<1>6. \/ UNCHANGED outbox
      \/ \E m \in Memories : Ledger(m)
      \/ \E w \in Workers : ClaimNext(w) \/ StartCall(w) \/ StartVerify(w)
      \/ \E j \in Keys : LeaseRunsOut(j) \/ LeaseOverrun(j)
  BY DEF Next, vars, DrainOnce, Fault, RegisterGeneration, CheckHead, Materialize,
         RemoveRemote, VerifyUnknown, Inspect, CallFails, VerifyFails, InspectFails,
         Faulty, Crash, LateRequestLands
<1> QED
  BY <1>1, <1>2, <1>3, <1>4, <1>5, <1>6

\* The two steps that settle, and the rows they touch.
LEMMA WhatSettles ==
    ASSUME TypeOK, NEW w \in Workers, Complete(w) \/ FinishWithoutLocator(w),
           NEW k \in Keys, outbox'[k].status # outbox[k].status
    PROVE  /\ Owns(w) /\ work'[w] = NoClaim
           /\ \/ k = work[w].key
              \/ /\ IsUpsert(w) /\ k = Delete(Target(w))
                 /\ outbox'[k].status = "pending"
                 /\ outbox'[work[w].key].status = "obsolete"
<1>1. work[w] \in Claims /\ work[w].key \in Keys /\ Target(w) \in Targets
      /\ (IsUpsert(w) => work[w].key = Upsert(Target(w)))
  BY BusyPhase, KeyParts
  DEF Complete, FinishWithoutLocator, Step, Phases, Claims, Target, IsUpsert
<1>2. Owns(w) /\ work'[w] = NoClaim
  BY DEF Complete, FinishWithoutLocator, Leave, TypeOK
<1>3. CASE FinishWithoutLocator(w)
  <2>1. k = work[w].key
    BY <1>1, <1>3 DEF FinishWithoutLocator, TypeOK
  <2> QED
    BY <1>2, <2>1
<1>4. CASE Complete(w) /\ k # work[w].key
  <2>1. /\ IsUpsert(w)
        /\ outbox' = [outbox EXCEPT ![work[w].key] = Settled(@, "obsolete"),
                                    ![Delete(Target(w))] = Requeued(@)]
    BY <1>1, <1>4 DEF Complete, TypeOK
  <2>2. k = Delete(Target(w)) /\ outbox'[k] = Requeued(outbox[k])
    BY <1>1, <1>4, <2>1, KeyParts DEF TypeOK
  <2>3. outbox'[work[w].key] = Settled(outbox[work[w].key], "obsolete")
    BY <1>1, <2>1, KeyParts DEF TypeOK
  <2> QED
    BY <1>1, <1>2, <2>1, <2>2, <2>3, StatusAfter DEF TypeOK, Statuses, Terminal
<1> QED
  BY <1>2, <1>3, <1>4

(***************************************************************************)
(* A running row is settled by the worker that holds its latest attempt    *)
(* within its lease and by nobody else.                                    *)
(***************************************************************************)
THEOREM HolderSettles == Spec => OnlyHolderSettles
<1> DEFINE Rule == \A k \in Keys :
         outbox[k].status = "running" /\ outbox'[k].status \in Terminal =>
            /\ outbox[k].lease = "live"
            /\ \E w \in Holder(k) : work'[w] = NoClaim
<1>1. TypeOK /\ [Next]_vars => Rule
  <2> SUFFICES ASSUME TypeOK, [Next]_vars, NEW k \in Keys,
                      outbox[k].status = "running", outbox'[k].status \in Terminal
               PROVE  /\ outbox[k].lease = "live"
                      /\ \E w \in Holder(k) : work'[w] = NoClaim
    OBVIOUS
  <2>1. PICK w \in Workers : Complete(w) \/ FinishWithoutLocator(w)
    BY OthersSettleNothing DEF RowUnsettled, Terminal
  <2>2. Owns(w) /\ work'[w] = NoClaim /\ k = work[w].key
    BY <2>1, WhatSettles DEF Terminal
  <2>3. w \in Holder(k)
    BY <2>1, <2>2, BusyPhase
    DEF Holder, Owns, Complete, FinishWithoutLocator, Step, Phases
  <2> QED
    BY <2>2, <2>3 DEF Owns
<1> QED
  BY <1>1, TypeCorrect, PTL DEF Spec, OnlyHolderSettles

(***************************************************************************)
(* A settled row is reopened only when the upsert of the same target finds *)
(* itself obsolete, and then only if it is the delete row.                 *)
(***************************************************************************)
THEOREM SettledIsSettled == Spec => SettledStaysSettled
<1> DEFINE Rule == \A k \in Keys :
         outbox[k].status \in Terminal /\ outbox'[k].status # outbox[k].status =>
            /\ k[1] = "delete"
            /\ outbox'[k].status = "pending"
            /\ outbox[Upsert(k[2])].status = "running"
            /\ outbox'[Upsert(k[2])].status = "obsolete"
<1>1. TypeOK /\ [Next]_vars => Rule
  <2> SUFFICES ASSUME TypeOK, [Next]_vars, NEW k \in Keys,
                      outbox[k].status \in Terminal, outbox'[k].status # outbox[k].status
               PROVE  /\ k[1] = "delete"
                      /\ outbox'[k].status = "pending"
                      /\ outbox[Upsert(k[2])].status = "running"
                      /\ outbox'[Upsert(k[2])].status = "obsolete"
    OBVIOUS
  <2>1. PICK w \in Workers : Complete(w) \/ FinishWithoutLocator(w)
    BY OthersSettleNothing DEF RowUnsettled
  <2>2. k # work[w].key /\ outbox[work[w].key].status = "running"
    BY <2>1, WhatSettles DEF Owns, Terminal
  <2>3. /\ IsUpsert(w) /\ k = Delete(Target(w))
        /\ outbox'[k].status = "pending"
        /\ outbox'[work[w].key].status = "obsolete"
    BY <2>1, <2>2, WhatSettles
  <2>4. work[w].key = Upsert(Target(w)) /\ Target(w) \in Targets
    BY <2>1, <2>3, BusyPhase, KeyParts
    DEF Complete, FinishWithoutLocator, Step, Phases, Claims, Target, IsUpsert
  <2> QED
    BY <2>2, <2>3, <2>4, KeyParts
<1> QED
  BY <1>1, TypeCorrect, PTL DEF Spec, SettledStaysSettled

\* Rows and receipts change together, in complete.
LEMMA ReceiptStep ==
    ASSUME TypeOK, ReceiptMeansSettled, NEW w \in Workers, Complete(w)
    PROVE  ReceiptMeansSettled'
<1>1. PICK k \in Keys, t \in Targets :
        /\ k = work[w].key /\ t = Target(w) /\ k[2] = t
        /\ IsUpsert(w) => k = Upsert(t)
        /\ ~IsUpsert(w) => k = Delete(t)
  BY BusyPhase, KeyParts
  DEF Complete, Step, Phases, Claims, Target, IsUpsert, Actions
<1>2. /\ outbox \in [Keys -> Row]
      /\ {"blocked", "obsolete", "confirmed"} \subseteq Statuses
      /\ Owns(w) => outbox[k].status = "running"
      /\ \A r \in Row, s \in Statuses : Settled(r, s).locator = r.locator
  BY <1>1 DEF TypeOK, Statuses, Terminal, Settled, Row, Owns
<1>3. CASE UNCHANGED <<outbox, receipts>>
  BY <1>3 DEF ReceiptMeansSettled
<1>4. CASE Owns(w) /\ UNCHANGED receipts
           /\ outbox' = [outbox EXCEPT ![k] = Settled(@, "blocked")]
  BY <1>1, <1>2, <1>4, StatusAfter DEF ReceiptMeansSettled
<1>5. CASE Owns(w) /\ receipts' = receipts \cup {<<k[1], t, outbox[k].locator>>}
           /\ outbox' = [outbox EXCEPT ![k] = Settled(@, "confirmed")]
  <2>1. outbox'[k].status = "confirmed" /\ outbox'[k].locator = outbox[k].locator
    BY <1>2, <1>5, StatusAfter
  <2>2. \A j \in Keys \ {k} : outbox'[j] = outbox[j]
    BY <1>2, <1>5
  <2>3. \A j \in Keys, b \in BOOLEAN :
            <<j[1], j[2], b>> = <<k[1], t, outbox[k].locator>> => j = k /\ b = outbox[k].locator
    BY <1>1, KeyParts
  <2>4. <<k[1], k[2], outbox[k].locator>> \in receipts'
    BY <1>1, <1>5
  <2> QED
    BY <1>2, <1>5, <2>1, <2>2, <2>3, <2>4 DEF ReceiptMeansSettled, Row
<1>6. CASE Owns(w) /\ IsUpsert(w)
           /\ receipts' = receipts \cup {<<k[1], t, outbox[k].locator>>}
           /\ outbox' = [outbox EXCEPT ![k] = Settled(@, "obsolete"), ![Delete(t)] = Requeued(@)]
  <2>1. outbox'[k].status = "obsolete"
    BY <1>1, <1>2, <1>6, StatusAfter, KeyParts
  <2>2. outbox'[Delete(t)].status = "pending" /\ Delete(t)[1] = "delete"
    BY <1>2, <1>6, StatusAfter, KeyParts
  <2>3. \A j \in Keys \ {k, Delete(t)} : outbox'[j] = outbox[j]
    BY <1>2, <1>6
  <2>4. \A j \in Keys, b \in BOOLEAN :
            <<j[1], j[2], b>> = <<k[1], t, outbox[k].locator>> => j = k
    BY <1>1, KeyParts
  <2> QED
    BY <1>2, <1>6, <2>1, <2>2, <2>3, <2>4 DEF ReceiptMeansSettled, Row
<1> QED
  BY <1>1, <1>3, <1>4, <1>5, <1>6 DEF Complete

(***************************************************************************)
(* A receipt of an upsert is found only beside a settled row, so the       *)
(* shortcut of drain_once for a claimed upsert that already has a receipt  *)
(* is dead code; and every confirmed row has its receipt.                  *)
(***************************************************************************)
THEOREM ReceiptsAndRows == Spec => []ReceiptMeansSettled
<1>1. Init => ReceiptMeansSettled
  BY DEF Init, ReceiptMeansSettled, NoRow
<1>2. TypeOK /\ ReceiptMeansSettled /\ [Next]_vars => ReceiptMeansSettled'
  <2> SUFFICES ASSUME TypeOK, ReceiptMeansSettled, [Next]_vars
               PROVE  ReceiptMeansSettled'
    OBVIOUS
  <2>1. CASE \E w \in Workers : Complete(w)
    BY <2>1, ReceiptStep
  <2>2. CASE \E w \in Workers : FinishWithoutLocator(w)
    <3>1. PICK w \in Workers : FinishWithoutLocator(w)
      BY <2>2
    <3>2. UNCHANGED receipts
      BY <3>1 DEF FinishWithoutLocator
    <3>3. ASSUME NEW k \in Keys, outbox'[k] # outbox[k]
          PROVE  outbox[k].status = "running" /\ outbox'[k].status # "confirmed"
      BY <3>1, <3>3, BusyPhase, StatusAfter
      DEF FinishWithoutLocator, Step, Owns, TypeOK, Decided, Claims, Phases,
          Statuses, Waiting, Terminal
    <3> QED
      BY <3>2, <3>3 DEF ReceiptMeansSettled
  <2>3. CASE \A w \in Workers : ~Complete(w) /\ ~FinishWithoutLocator(w)
    <3>1. UNCHANGED receipts
      BY <2>3
      DEF Next, vars, Ledger, CommitNew, CommitUpdate, Supersede, Forget, RegisterGeneration,
          DrainOnce, ClaimNext, CheckHead, StartCall, StartVerify, MarkStarted, Materialize,
          RemoveRemote, VerifyUnknown, Inspect, Fault, CallFails, VerifyFails, InspectFails,
          Faulty, Crash, LeaseRunsOut, LeaseOverrun, LateRequestLands
    <3>2. \A k \in Keys : RowUnsettled(k)
      BY <2>3, OthersSettleNothing
    <3> QED
      BY <3>1, <3>2 DEF ReceiptMeansSettled, RowUnsettled, Terminal
  <2> QED
    BY <2>1, <2>2, <2>3
<1> QED
  BY <1>1, <1>2, TypeCorrect, PTL DEF Spec

-----------------------------------------------------------------------------
(***************************************************************************)
(* The outbox and the backend.  What the rows say holds because every      *)
(* claim knows enough: OutboxInv says for each claim what it may take for  *)
(* granted while it holds its row, and for each row what it says when      *)
(* nobody does.                                                            *)
(***************************************************************************)
HIDE DEF Actions, Keys, Upsert, Delete

\* The projections that the outbox is to know of.
Sure == items \ unseen

\* A claim c is told that its projection is not in the backend: it has not
\* asked yet, or has looked, or its request was refused.
SaysAbsent(c) ==
    \/ c.phase = "claimed" /\ c.source # "unknown"
    \/ c.phase \in {"checked", "calling"}
    \/ c.phase = "inspected" /\ ~c.seen
    \/ c.phase = "finishing" /\ c.verdict \in {"retry", "obsolete"}

\* It has done nothing that must be verified after it.
NotBegun(c) ==
    \/ c.phase \in {"claimed", "checked"}
    \/ c.phase = "finishing" /\ c.verdict = "obsolete"

\* _owns, of a claim.
Held(c) ==
    /\ outbox[c.key].status = "running"
    /\ outbox[c.key].lease = "live"
    /\ outbox[c.key].attempts = c.attempt

\* The upsert row leaves open what became of its request.
Unresolved(t) == outbox[Upsert(t)].status \in {"running", "unknown", "blocked"}

\* The row says that somebody has begun to ask the backend, or is to ask it
\* before anything else.
Asked(k) ==
    \/ outbox[k].status = "unknown"
    \/ outbox[k].status = "running" /\ outbox[k].started

UpsertTells(c) ==
    /\ c.phase = "calling" /\ c.attempt = outbox[c.key].attempts => Asked(c.key)
    /\ c.phase = "returned" => c.found
    /\ Held(c) /\ SaysAbsent(c) => c.key[2] \notin Sure
    /\ Held(c) /\ ~NotBegun(c) => outbox[c.key].started

DeleteTells(c) ==
    /\ Held(c)
    /\ c.phase = "returned" \/ (c.phase = "inspected" /\ ~c.seen)
    => c.key[2] \notin Sure \/ Unresolved(c.key[2])

ClaimTells(c) ==
    /\ c.attempt <= outbox[c.key].attempts
    /\ c.phase \in {"checked", "calling"} => c.source # "unknown"
    /\ c.phase = "verifying" => c.source = "unknown"
    /\ c.erased => head[c.key[2][1]].state = "deleted"
    /\ c.key[1] = "upsert" => UpsertTells(c)
    /\ c.key[1] = "delete" => DeleteTells(c)

ClaimsTell == \A w \in Workers : work[w] # NoClaim => ClaimTells(work[w])

\* Two claims of one row have different attempts.
ClaimsApart ==
    \A v, w \in Workers :
        /\ work[v] # NoClaim /\ work[w] # NoClaim
        /\ work[v].key = work[w].key /\ work[v].attempt = work[w].attempt
        => v = w

\* The upsert row of a target.
UpsertRowTells(t) ==
    LET row == outbox[Upsert(t)]
    IN  /\ row.lease # "none" => row.status = "running"
        /\ row.status \in {"pending", "retry"} => t \notin Sure
        /\ row.status = "running" /\ ~row.started => t \notin Sure

\* Its delete row.
DeleteRowTells(t) ==
    /\ Gone(t) /\ Known(Upsert(t)) => Known(Delete(t))
    /\ outbox[Delete(t)].status = "confirmed" /\ t \in Sure => Unresolved(t)

OutboxInv ==
    /\ ClaimsTell
    /\ ClaimsApart
    /\ \A t \in Targets : UpsertRowTells(t) /\ DeleteRowTells(t)


(***************************************************************************)
(* What a step may do around the claims and rows it is not about.          *)
(***************************************************************************)
Spares(c) ==
    /\ outbox[c.key].attempts <= outbox'[c.key].attempts
    /\ Held(c)' => Held(c) /\ (outbox[c.key].started => outbox'[c.key].started)
    /\ c.key[1] = "upsert" /\ c.attempt = outbox'[c.key].attempts /\ Asked(c.key)
          => c.attempt = outbox[c.key].attempts /\ Asked(c.key)'
    /\ c.key[1] = "upsert" /\ Held(c)' /\ c.key[2] \in Sure' => c.key[2] \in Sure
    /\ c.key[1] = "delete" /\ Held(c)' /\ (c.key[2] \notin Sure \/ Unresolved(c.key[2]))
          => c.key[2] \notin Sure' \/ Unresolved(c.key[2])'
    /\ head[c.key[2][1]].state = "deleted" => head'[c.key[2][1]].state = "deleted"

Alike(k) ==
    /\ outbox'[k].status = outbox[k].status
    /\ outbox'[k].lease = outbox[k].lease
    /\ outbox'[k].attempts = outbox[k].attempts
    /\ outbox[k].started => outbox'[k].started

SparesUpsert(t) ==
    /\ Alike(Upsert(t))
    /\ t \in Sure' => t \in Sure \/ Asked(Upsert(t))'

SparesDelete(t) ==
    /\ Known(Delete(t)) => Known(Delete(t))'
    /\ Gone(t)' /\ Known(Upsert(t))' => (Gone(t) /\ Known(Upsert(t))) \/ Known(Delete(t))'
    /\ outbox'[Delete(t)].status = "confirmed" =>
          /\ outbox[Delete(t)].status = "confirmed"
          /\ t \in Sure' => t \in Sure \/ Unresolved(t)'
          /\ Unresolved(t) => t \notin Sure' \/ Unresolved(t)'

\* The claim of v becomes another, which tells what is so.
Moves(v) ==
    \E c \in Claims :
        /\ c = work'[v]
        /\ ClaimTells(c)'
        /\ \A u \in Workers \ {v} :
              /\ work'[u] = work[u]
              /\ work[u] # NoClaim /\ work[u].key = c.key => work[u].attempt # c.attempt

LEMMA ClaimSpared ==
    ASSUME NEW c \in Claims, ClaimTells(c), Spares(c),
           outbox[c.key].attempts \in Nat, outbox'[c.key].attempts \in Nat
    PROVE  ClaimTells(c)'
<1>0. c.attempt \in Nat /\ c.key \in Keys
  BY DEF Claims
<1>1. /\ c.attempt \in Nat /\ c.key \in Keys
      /\ c.key[1] = "upsert" \/ c.key[1] = "delete"
  BY <1>0, KeyParts DEF Actions
<1>2. c.attempt <= outbox[c.key].attempts /\ c.attempt <= outbox'[c.key].attempts
  BY <1>1 DEF ClaimTells, Spares
<1>3. SaysAbsent(c)' => SaysAbsent(c)
  BY DEF SaysAbsent
<1>4. ASSUME c.key[1] = "upsert"
      PROVE  UpsertTells(c)'
  <2>1. UpsertTells(c)
    BY <1>4 DEF ClaimTells
  <2>2. c.phase = "calling" /\ c.attempt = outbox'[c.key].attempts => Asked(c.key)'
    <3>1. SUFFICES ASSUME c.phase = "calling", c.attempt = outbox'[c.key].attempts
                   PROVE  Asked(c.key)'
      OBVIOUS
    <3>2. c.attempt = outbox[c.key].attempts
      BY <1>1, <1>2, <3>1 DEF Spares
    <3>3. Asked(c.key)
      BY <2>1, <3>1, <3>2 DEF UpsertTells
    <3> QED
      BY <1>4, <3>1, <3>3 DEF Spares
  <2>3. /\ c.phase = "returned" => c.found
        /\ Held(c)' /\ ~NotBegun(c) => outbox'[c.key].started
    BY <1>4, <2>1 DEF UpsertTells, Spares
  <2>4. Held(c)' /\ SaysAbsent(c)' => c.key[2] \notin Sure'
    BY <1>3, <1>4, <2>1 DEF UpsertTells, Spares
  <2> QED
    BY <2>2, <2>3, <2>4 DEF UpsertTells, NotBegun
<1>5. ASSUME c.key[1] = "delete"
      PROVE  DeleteTells(c)'
  BY <1>5 DEF ClaimTells, DeleteTells, Spares
<1> QED
  BY <1>1, <1>2, <1>4, <1>5 DEF ClaimTells, Spares

LEMMA UpsertSpared ==
    ASSUME NEW t \in Targets, UpsertRowTells(t), SparesUpsert(t)
    PROVE  UpsertRowTells(t)'
  BY DEF UpsertRowTells, SparesUpsert, Alike, Asked

LEMMA DeleteSpared ==
    ASSUME NEW t \in Targets, DeleteRowTells(t), SparesDelete(t)
    PROVE  DeleteRowTells(t)'
  BY DEF DeleteRowTells, SparesDelete

LEMMA TellingStep ==
    ASSUME TypeOK, TypeOK', OutboxInv,
           \A v \in Workers : \/ work'[v] = NoClaim
                              \/ work'[v] = work[v] /\ (work[v] # NoClaim => Spares(work[v]))
                              \/ Moves(v),
           \A t \in Targets : /\ SparesUpsert(t) \/ UpsertRowTells(t)'
                              /\ SparesDelete(t) \/ DeleteRowTells(t)'
    PROVE  OutboxInv'
<1>2. ClaimsTell'
  <2> SUFFICES ASSUME NEW v \in Workers, NEW c, c = work'[v], c # NoClaim
               PROVE  ClaimTells(c)'
    BY DEF ClaimsTell
  <2>1. CASE Moves(v)
    BY <2>1 DEF Moves
  <2>2. CASE work'[v] = work[v] /\ Spares(work[v])
    <3>1. c \in Claims /\ ClaimTells(c) /\ Spares(c)
      BY <2>2, ClaimTyped DEF OutboxInv, ClaimsTell
    <3>2. outbox[c.key].attempts \in Nat /\ outbox'[c.key].attempts \in Nat
      BY <3>1 DEF Claims, TypeOK, Row
    <3> QED
      BY <3>1, <3>2, ClaimSpared
  <2> QED
    BY <2>1, <2>2
<1>3. ClaimsApart'
  BY DEF OutboxInv, ClaimsApart, Moves
<1>4. \A t \in Targets : UpsertRowTells(t)' /\ DeleteRowTells(t)'
  BY UpsertSpared, DeleteSpared DEF OutboxInv
<1> QED
  BY <1>2, <1>3, <1>4 DEF OutboxInv


\* What is so at the beginning, and what follows for the outbox.
LEMMA InitTells == Init => OutboxInv
<1> SUFFICES ASSUME Init PROVE OutboxInv
  OBVIOUS
<1>1. ClaimsTell /\ ClaimsApart
  BY DEF Init, ClaimsTell, ClaimsApart
<1>2. ASSUME NEW t \in Targets
      PROVE  outbox[Upsert(t)] = NoRow /\ outbox[Delete(t)] = NoRow /\ t \notin Sure
  BY KeyParts DEF Init, Sure
<1>3. /\ NoRow.status = "absent" /\ NoRow.lease = "none" /\ NoRow.attempts = 0
  BY DEF NoRow
<1>4. \A t \in Targets : UpsertRowTells(t) /\ DeleteRowTells(t)
  BY <1>2, <1>3 DEF UpsertRowTells, DeleteRowTells, Known
<1> QED
  BY <1>1, <1>4 DEF OutboxInv

LEMMA InvTells == SafetyInv /\ OutboxInv => OrphanFree /\ RetryHadNoEffect
<1> SUFFICES ASSUME SafetyInv, OutboxInv PROVE OrphanFree /\ RetryHadNoEffect
  OBVIOUS
<1>1. OrphanFree
  <2> SUFFICES ASSUME NEW t \in Targets, t \notin unseen, Gone(t), t \in items,
                      outbox[Delete(t)].status \in {"absent", "confirmed"}
               PROVE  outbox[Upsert(t)].status \in {"running", "unknown", "blocked"}
    BY DEF OrphanFree
  <2>1. Known(Upsert(t))
    BY DEF SafetyInv, EffectsHaveRows
  <2>2. DeleteRowTells(t) /\ t \in Sure
    BY DEF OutboxInv, Sure
  <2> QED
    BY <2>1, <2>2 DEF DeleteRowTells, Unresolved, Known
<1>2. RetryHadNoEffect
  BY DEF OutboxInv, UpsertRowTells, RetryHadNoEffect, Waiting, Sure
<1> QED
  BY <1>1, <1>2

(***************************************************************************)
(* Commits and retirements: rows appear, and the claims of others and what *)
(* they are about stay.                                                    *)
(***************************************************************************)
LEMMA LedgerGrows ==
    ASSUME SafetyInv, NEW m \in Memories, Ledger(m)
    PROVE  /\ \A k \in Keys : outbox'[k] = outbox[k]
                                 \/ (outbox[k].status = "absent" /\ outbox'[k] = Fresh)
           /\ \A n \in Memories : head[n].state = "deleted" => head'[n].state = "deleted"
           /\ \A t \in Targets : Gone(t)' /\ Known(Upsert(t))'
                 => (Gone(t) /\ Known(Upsert(t))) \/ Known(Delete(t))'
<1>0. /\ TypeOK
      /\ \A t \in Targets : t[1] \in Memories
  BY KeyParts DEF SafetyInv
<1>1. ASSUME NEW r, EnqueueUpsert(m, r), head'[m].state = "active",
             \A n \in Memories \ {m} : head'[n] = head[n]
      PROVE  /\ \A k \in Keys : outbox'[k] = outbox[k]
                                 \/ (outbox[k].status = "absent" /\ outbox'[k] = Fresh)
             /\ \A t \in Targets : Gone(t)' /\ Known(Upsert(t))'
                 => Gone(t) /\ Known(Upsert(t))
  <2>1. \A k \in Keys : outbox'[k] = outbox[k]
            \/ (k = Upsert(<<m, r, active>>) /\ outbox[k].status = "absent" /\ outbox'[k] = Fresh)
    BY <1>1 DEF EnqueueUpsert
  <2>2. Upsert(<<m, r, active>>)[2][1] = m
    BY DEF Upsert
  <2>3. ASSUME NEW t \in Targets, Gone(t)', Known(Upsert(t))'
        PROVE  Gone(t) /\ Known(Upsert(t))
    <3>1. t[1] # m /\ head'[t[1]] = head[t[1]]
      BY <1>0, <1>1, <2>3 DEF Gone
    <3>2. Upsert(t) # Upsert(<<m, r, active>>) /\ Upsert(t) \in Keys
      BY <2>2, <3>1, KeyParts
    <3> QED
      BY <2>1, <2>3, <3>1, <3>2 DEF Gone, Known
  <2> QED
    BY <2>1, <2>3
<1>2. ASSUME EnqueueDeletes(m), \A n \in Memories \ {m} : head'[n] = head[n]
      PROVE  /\ \A k \in Keys : outbox'[k] = outbox[k]
                                 \/ (outbox[k].status = "absent" /\ outbox'[k] = Fresh)
             /\ \A t \in Targets : Gone(t)' /\ Known(Upsert(t))'
                 => (Gone(t) /\ Known(Upsert(t))) \/ Known(Delete(t))'
  <2>1. Fresh.status = "pending"
    BY DEF Fresh, NoRow
  <2>2. ASSUME NEW t \in Targets
        PROVE  /\ outbox'[Upsert(t)] = outbox[Upsert(t)]
               /\ t[1] = m /\ Known(Upsert(t)) => Known(Delete(t))'
    <3>1. outbox'[Upsert(t)] = outbox[Upsert(t)]
      BY <1>2, KeyParts DEF EnqueueDeletes
    <3>2. ASSUME t[1] = m, Known(Upsert(t))
          PROVE  Known(Delete(t))'
      <4>1. Delete(t) \in Keys /\ Delete(t)[1] = "delete" /\ Delete(t)[2] = t
        BY KeyParts
      <4> QED
        BY <1>2, <2>1, <3>2, <4>1 DEF EnqueueDeletes, Known
    <3> QED
      BY <3>1, <3>2
  <2>3. ASSUME NEW t \in Targets, Gone(t)', Known(Upsert(t))'
        PROVE  (Gone(t) /\ Known(Upsert(t))) \/ Known(Delete(t))'
    BY <1>0, <1>2, <2>2, <2>3 DEF Gone, Known
  <2>4. \A k \in Keys : outbox'[k] = outbox[k]
                           \/ (outbox[k].status = "absent" /\ outbox'[k] = Fresh)
    BY <1>2 DEF EnqueueDeletes
  <2> QED
    BY <2>3, <2>4
<1>3. CASE CommitNew(m)
  <2>1. head'[m].state = "active" /\ \A n \in Memories \ {m} : head'[n] = head[n]
    BY <1>0, <1>3 DEF CommitNew, TypeOK
  <2> QED
    BY <1>1, <1>3, <2>1 DEF CommitNew
<1>4. CASE CommitUpdate(m)
  <2>1. head'[m].state = "active" /\ \A n \in Memories \ {m} : head'[n] = head[n]
    BY <1>0, <1>4 DEF CommitUpdate, TypeOK
  <2>2. EnqueueUpsert(m, head[m].rev + 1) /\ head[m].state = "active"
    BY <1>4 DEF CommitUpdate
  <2> QED
    BY <1>1, <2>1, <2>2
<1>5. CASE Supersede(m)
  <2>1. \A n \in Memories \ {m} : head'[n] = head[n]
    BY <1>0, <1>5 DEF Supersede, TypeOK
  <2> QED
    BY <1>2, <1>5, <2>1 DEF Supersede
<1>6. CASE Forget(m)
  <2>1. /\ \A n \in Memories \ {m} : head'[n] = head[n]
        /\ head[m].state # "deleted"
    BY <1>0, <1>6 DEF Forget, TypeOK
  <2> QED
    BY <1>2, <1>6, <2>1 DEF Forget
<1> QED
  BY <1>3, <1>4, <1>5, <1>6 DEF Ledger

LEMMA LedgerTells ==
    ASSUME SafetyInv, SafetyInv', OutboxInv, NEW m \in Memories, Ledger(m)
    PROVE  OutboxInv'
<1>1. UNCHANGED <<work, items, unseen>> /\ Sure' = Sure
  BY DEF Ledger, CommitNew, CommitUpdate, Supersede, Forget, backendVars, Sure
<1>2. TypeOK /\ TypeOK'
  BY DEF SafetyInv
<1>3. \A k \in Keys : Known(k) => outbox'[k] = outbox[k]
  BY LedgerGrows DEF Known
<1>4. ASSUME NEW v \in Workers, work[v] # NoClaim
      PROVE  Spares(work[v])
  <2>1. PICK c \in Claims : c = work[v]
    BY <1>2, <1>4, ClaimTyped
  <2>2. /\ c.key \in Keys /\ Known(c.key)
        /\ c.key[2] \in Targets /\ c.key[2][1] \in Memories /\ Upsert(c.key[2]) \in Keys
    BY <1>4, <2>1, KeyParts DEF Claims, SafetyInv, EffectsHaveRows
  <2>3. outbox'[c.key] = outbox[c.key] /\ outbox[c.key].attempts \in Nat
    BY <1>2, <1>3, <2>2 DEF TypeOK, Row
  <2>4. Unresolved(c.key[2]) => Unresolved(c.key[2])'
    BY <1>3, <2>2 DEF Unresolved, Known
  <2>5. Spares(c)
    BY <1>1, <2>2, <2>3, <2>4, LedgerGrows DEF Spares, Held, Asked
  <2> QED
    BY <2>1, <2>5
<1>5. ASSUME NEW t \in Targets
      PROVE  SparesUpsert(t) \/ UpsertRowTells(t)'
  <2>1. Upsert(t) \in Keys /\ UpsertRowTells(t)
    BY KeyParts DEF OutboxInv
  <2>2. CASE outbox'[Upsert(t)] = outbox[Upsert(t)]
    BY <1>1, <2>2 DEF SparesUpsert, Alike
  <2>3. CASE outbox[Upsert(t)].status = "absent" /\ outbox'[Upsert(t)] = Fresh
    <3>1. t \notin Sure'
      BY <1>1, <2>3 DEF SafetyInv, EffectsHaveRows, Known, Sure
    <3>2. Fresh.status = "pending" /\ Fresh.lease = "none"
      BY DEF Fresh, NoRow
    <3> QED
      BY <2>3, <3>1, <3>2 DEF UpsertRowTells
  <2> QED
    BY <2>1, <2>2, <2>3, LedgerGrows
<1>6. ASSUME NEW t \in Targets
      PROVE  SparesDelete(t)
  <2>1. Upsert(t) \in Keys /\ Delete(t) \in Keys
    BY KeyParts
  <2>2. Fresh.status = "pending"
    BY DEF Fresh, NoRow
  <2>3. Known(Delete(t)) => Known(Delete(t))'
    BY <1>3, <2>1 DEF Known
  <2>4. Unresolved(t) => Unresolved(t)'
    BY <1>3, <2>1 DEF Unresolved, Known
  <2>5. outbox'[Delete(t)].status = "confirmed" => outbox[Delete(t)].status = "confirmed"
    BY <2>1, <2>2, LedgerGrows
  <2> QED
    BY <1>1, <2>3, <2>4, <2>5, LedgerGrows DEF SparesDelete
<1> QED
  BY <1>1, <1>2, <1>4, <1>5, <1>6, TellingStep


(***************************************************************************)
(* A worker that moves, with its row, while others look on.  It adds to    *)
(* what the outbox is to know of only while its row is at its attempt and  *)
(* says that the backend has been, or is to be, asked.                     *)
(***************************************************************************)
ItemsBy(w) ==
    \/ Sure' \subseteq Sure
    \/ /\ IsUpsert(w) /\ AtAttempt(w)
       /\ \E k \in Keys : k = work[w].key /\ Asked(k)'
       /\ Sure' \subseteq Sure \cup {Target(w)}

\* A worker in terms of its claim.
LEMMA TellingParts ==
    ASSUME SafetyInv, OutboxInv, NEW w \in Workers, work[w] # NoClaim
    PROVE  \E c \in Claims, k \in Keys, t \in Targets :
              /\ c = work[w] /\ k = c.key /\ t = k[2] /\ t = Target(w)
              /\ c # NoClaim
              /\ ClaimTells(c) /\ Known(k) /\ (Owns(w) <=> Held(c))
              /\ outbox[k] \in Row /\ outbox[k].attempts \in Nat /\ c.attempt \in Nat
              /\ \/ k[1] = "upsert" /\ k = Upsert(t) /\ IsUpsert(w) /\ UpsertTells(c)
                 \/ k[1] = "delete" /\ k = Delete(t) /\ ~IsUpsert(w) /\ DeleteTells(c)
<1>1. PICK c \in Claims : c = work[w]
  BY ClaimTyped DEF SafetyInv
<1>2. /\ c.key \in Keys /\ c.attempt \in Nat /\ Known(c.key)
      /\ ClaimTells(c) /\ (Owns(w) <=> Held(c))
  BY <1>1 DEF Claims, SafetyInv, EffectsHaveRows, OutboxInv, ClaimsTell, Owns, Held
<1>3. outbox[c.key] \in Row /\ outbox[c.key].attempts \in Nat
  BY <1>2 DEF SafetyInv, TypeOK, Row
<1>4. /\ c.key[2] \in Targets /\ c.key[2] = Target(w) /\ (IsUpsert(w) <=> c.key[1] = "upsert")
      /\ \/ c.key[1] = "upsert" /\ c.key = Upsert(c.key[2])
         \/ c.key[1] = "delete" /\ c.key = Delete(c.key[2])
  BY <1>1, <1>2, KeyParts DEF Target, IsUpsert, Actions
<1> QED
  BY <1>1, <1>2, <1>3, <1>4 DEF ClaimTells

\* A row is at the attempt of one claim.
LEMMA HeldOnce ==
    ASSUME OutboxInv, NEW v \in Workers, NEW w \in Workers,
           work[v] # NoClaim, work[w] # NoClaim, work[v].key = work[w].key,
           AtAttempt(v), AtAttempt(w)
    PROVE  v = w
  BY DEF OutboxInv, ClaimsApart, AtAttempt

LEMMA OthersSpared ==
    ASSUME SafetyInv, OutboxInv, NEW w \in Workers, work[w] # NoClaim,
           NEW v \in Workers, v # w, work[v] # NoClaim,
           \A k \in Keys : Alike(k), ItemsBy(w), UNCHANGED head
    PROVE  Spares(work[v])
<1>1. PICK c \in Claims, k \in Keys, t \in Targets :
        /\ c = work[w] /\ k = c.key /\ t = k[2] /\ t = Target(w)
        /\ \/ k[1] = "upsert" /\ k = Upsert(t) /\ IsUpsert(w)
           \/ k[1] = "delete" /\ k = Delete(t) /\ ~IsUpsert(w)
  BY TellingParts
<1>2. PICK d \in Claims, j \in Keys, u \in Targets :
        /\ d = work[v] /\ j = d.key /\ u = j[2]
        /\ outbox[j].attempts \in Nat
        /\ \/ j[1] = "upsert" /\ j = Upsert(u)
           \/ j[1] = "delete" /\ j = Delete(u)
  BY TellingParts
<1>3. Alike(j) /\ Alike(Upsert(u)) /\ Upsert(u) \in Keys
  BY KeyParts
<1>4. /\ outbox[j].attempts <= outbox'[j].attempts
      /\ outbox'[j].attempts = outbox[j].attempts
      /\ Held(d)' <=> Held(d)
      /\ outbox[j].started => outbox'[j].started
      /\ Unresolved(u)' <=> Unresolved(u)
      /\ Asked(j) => Asked(j)'
  BY <1>2, <1>3 DEF Alike, Held, Unresolved, Asked
\* What is added is of the upsert row at whose attempt w is.
<1>5. ASSUME u \in Sure', u \notin Sure
      PROVE  u = t /\ k = Upsert(t) /\ AtAttempt(w) /\ Unresolved(u)'
  <2>1. IsUpsert(w) /\ AtAttempt(w) /\ u = t /\ k = Upsert(t) /\ Asked(k)'
    BY <1>1, <1>5 DEF ItemsBy
  <2> QED
    BY <2>1 DEF Asked, Unresolved
<1>6. ASSUME j[1] = "upsert", Held(d), u \in Sure'
      PROVE  u \in Sure
  <2> SUFFICES ASSUME u \notin Sure PROVE FALSE
    OBVIOUS
  <2>1. d.key = c.key
    BY <1>1, <1>2, <1>5, <1>6, KeyParts
  <2>2. AtAttempt(v)
    BY <1>2, <1>6 DEF Held, AtAttempt
  <2> QED
    BY <1>1, <1>2, <1>5, <1>6, <2>1, <2>2, HeldOnce
<1>7. Spares(d)
  BY <1>2, <1>4, <1>5, <1>6 DEF Spares
<1> QED
  BY <1>2, <1>7

\* The rows, when w moves or leaves.
LEMMA RowsSpared ==
    ASSUME SafetyInv, OutboxInv, NEW w \in Workers, work[w] # NoClaim, NEW t \in Targets,
           \A k \in Keys : Alike(k), ItemsBy(w), UNCHANGED head
    PROVE  SparesUpsert(t) /\ SparesDelete(t)
<1>1. PICK c \in Claims, k \in Keys, u \in Targets :
        /\ c = work[w] /\ k = c.key /\ u = k[2] /\ u = Target(w)
        /\ \/ k[1] = "upsert" /\ k = Upsert(u) /\ IsUpsert(w)
           \/ k[1] = "delete" /\ k = Delete(u) /\ ~IsUpsert(w)
  BY TellingParts
<1>2. Alike(Upsert(t)) /\ Alike(Delete(t))
  BY KeyParts
<1>3. ASSUME t \in Sure', t \notin Sure
      PROVE  Asked(Upsert(t))' /\ Unresolved(t)'
  <2>1. IsUpsert(w) /\ u = t /\ k = Upsert(t) /\ Asked(k)'
    BY <1>1, <1>3 DEF ItemsBy
  <2> QED
    BY <2>1 DEF Asked, Unresolved
<1>4. SparesUpsert(t)
  BY <1>2, <1>3 DEF SparesUpsert
<1>5. Unresolved(t)' <=> Unresolved(t)
  BY <1>2 DEF Alike, Unresolved
<1>6. SparesDelete(t)
  BY <1>2, <1>3, <1>5 DEF SparesDelete, Alike, Known, Gone
<1> QED
  BY <1>4, <1>6

LEMMA MoveTells ==
    ASSUME SafetyInv, SafetyInv', OutboxInv, NEW w \in Workers, work[w] # NoClaim,
           NEW c \in Claims, c.key = work[w].key, c.attempt = work[w].attempt,
           work' = [work EXCEPT ![w] = c], ClaimTells(c)',
           \A k \in Keys : Alike(k), ItemsBy(w), UNCHANGED head
    PROVE  OutboxInv'
<1>1. TypeOK /\ TypeOK' /\ c # NoClaim /\ work'[w] = c
      /\ \A v \in Workers \ {w} : work'[v] = work[v]
  <2>1. c # NoClaim
    BY DEF Claims, NoClaim, Phases
  <2> QED
    BY <2>1 DEF SafetyInv, TypeOK
<1>2. Moves(w)
  BY <1>1 DEF Moves, OutboxInv, ClaimsApart
<1>3. \A v \in Workers \ {w} : work[v] # NoClaim => Spares(work[v])
  BY OthersSpared
<1>4. \A t \in Targets : SparesUpsert(t) /\ SparesDelete(t)
  BY RowsSpared
<1> QED
  BY <1>1, <1>2, <1>3, <1>4, TellingStep

LEMMA LeaveTells ==
    ASSUME SafetyInv, SafetyInv', OutboxInv, NEW w \in Workers, work[w] # NoClaim, Leave(w),
           UNCHANGED <<head, outbox>>, ItemsBy(w)
    PROVE  OutboxInv'
<1>1. TypeOK /\ TypeOK' /\ work'[w] = NoClaim
      /\ \A v \in Workers \ {w} : work'[v] = work[v]
  BY DEF SafetyInv, TypeOK, Leave
<1>2. \A k \in Keys : Alike(k)
  BY DEF Alike
<1>3. \A v \in Workers \ {w} : work[v] # NoClaim => Spares(work[v])
  BY <1>2, OthersSpared
<1>4. \A t \in Targets : SparesUpsert(t) /\ SparesDelete(t)
  BY <1>2, RowsSpared
<1> QED
  BY <1>1, <1>3, <1>4, TellingStep


(***************************************************************************)
(* The steps of a worker.  A claim d becomes c, with the same row.         *)
(***************************************************************************)
SameRow(d, c) ==
    c.key = d.key /\ c.attempt = d.attempt /\ c.source = d.source /\ c.erased = d.erased

UpsertFits(d, c) ==
    /\ c.phase = "calling" => Asked(c.key)'
    /\ c.phase = "returned" => c.found
    /\ Held(d) /\ SaysAbsent(c) => c.key[2] \notin Sure'
    /\ Held(d) => NotBegun(c) \/ outbox'[c.key].started

DeleteFits(d, c) ==
    Held(d) /\ (c.phase = "returned" \/ (c.phase = "inspected" /\ ~c.seen))
        => c.key[2] \notin Sure' \/ Unresolved(c.key[2])'

SourceFits(c) ==
    /\ c.phase \in {"checked", "calling"} => c.source # "unknown"
    /\ c.phase = "verifying" => c.source = "unknown"

LEMMA StepTells ==
    ASSUME SafetyInv, SafetyInv', OutboxInv, NEW w \in Workers, work[w] # NoClaim,
           NEW c \in Claims, SameRow(work[w], c), work' = [work EXCEPT ![w] = c],
           SourceFits(c),
           IsUpsert(w) => UpsertFits(work[w], c),
           ~IsUpsert(w) => DeleteFits(work[w], c),
           \A k \in Keys : Alike(k), ItemsBy(w), UNCHANGED head
    PROVE  OutboxInv'
<1>1. PICK d \in Claims, k \in Keys :
        /\ d = work[w] /\ k = d.key
        /\ ClaimTells(d)
        /\ \/ k[1] = "upsert" /\ IsUpsert(w) /\ UpsertTells(d)
           \/ k[1] = "delete" /\ ~IsUpsert(w)
  BY TellingParts
<1>2. /\ SameRow(d, c) /\ c.key = k /\ c.attempt = d.attempt
      /\ Alike(k)
  BY <1>1 DEF SameRow
<1>3. Held(c)' <=> Held(d)
  BY <1>1, <1>2 DEF Held, Alike
<1>4. c.attempt <= outbox'[c.key].attempts
  BY <1>1, <1>2 DEF ClaimTells, Alike
<1>5. c.erased => head'[c.key[2][1]].state = "deleted"
  BY <1>1, <1>2 DEF ClaimTells, SameRow
<1>6. ASSUME c.key[1] = "upsert"
      PROVE  UpsertTells(c)'
  <2>1. UpsertFits(d, c) /\ UpsertTells(d)
    BY <1>1, <1>2, <1>6
  <2>2. SaysAbsent(c)' <=> SaysAbsent(c)
    BY DEF SaysAbsent
  <2> QED
    BY <1>3, <2>1, <2>2 DEF UpsertTells, UpsertFits, NotBegun
<1>7. ASSUME c.key[1] = "delete"
      PROVE  DeleteTells(c)'
  BY <1>1, <1>2, <1>3, <1>7 DEF DeleteTells, DeleteFits
<1>8. ClaimTells(c)'
  BY <1>4, <1>5, <1>6, <1>7 DEF ClaimTells, SourceFits
<1> QED
  BY <1>1, <1>2, <1>8, MoveTells

\* What the steps of a worker leave alone.
LEMMA Quiet ==
    /\ UNCHANGED outbox => \A k \in Keys : Alike(k)
    /\ UNCHANGED <<items, unseen>> => Sure' = Sure /\ \A w \in Workers : ItemsBy(w)
  BY DEF Alike, ItemsBy, Sure

\* What becomes of a claim that goes on, decides, comes back or has looked.
LEMMA ClaimGoes ==
    ASSUME SafetyInv, NEW w \in Workers, NEW d \in Claims, d = work[w],
           NEW p \in Phases,
           Go(w, p)
    PROVE  \E c \in Claims : /\ SameRow(d, c) /\ work' = [work EXCEPT ![w] = c]
                            /\ c.phase = p
<1>1. work \in [Workers -> Claims \cup {NoClaim}]
  BY DEF SafetyInv, TypeOK
<1> DEFINE c == [d EXCEPT !.phase = p]
<1>2. c \in Claims /\ SameRow(d, c) /\ c.phase = p
  BY DEF Claims, SameRow, Phases
<1>3. work' = [work EXCEPT ![w] = c]
  BY <1>1 DEF Go
<1> QED
  BY <1>2, <1>3

LEMMA ClaimDecides ==
    ASSUME SafetyInv, NEW w \in Workers, NEW d \in Claims, d = work[w],
           NEW v \in {"unknown", "retry", "obsolete", "blocked"},
           Decide(w, v)
    PROVE  \E c \in Claims : /\ SameRow(d, c) /\ work' = [work EXCEPT ![w] = c]
                            /\ c.phase = "finishing" /\ c.verdict = v
<1>1. work \in [Workers -> Claims \cup {NoClaim}]
  BY DEF SafetyInv, TypeOK
<1> DEFINE c == [d EXCEPT !.phase = "finishing", !.verdict = v]
<1>2. c \in Claims /\ SameRow(d, c) /\ c.phase = "finishing" /\ c.verdict = v
  BY DEF Claims, SameRow, Phases
<1>3. work' = [work EXCEPT ![w] = c]
  BY <1>1 DEF Decide
<1> QED
  BY <1>2, <1>3

LEMMA ClaimReturns ==
    ASSUME SafetyInv, NEW w \in Workers, NEW d \in Claims, d = work[w],
           NEW f \in BOOLEAN,
           work' = [work EXCEPT ![w].phase = "returned", ![w].found = f]
    PROVE  \E c \in Claims : /\ SameRow(d, c) /\ work' = [work EXCEPT ![w] = c]
                            /\ c.phase = "returned" /\ c.found = f
<1>1. work \in [Workers -> Claims \cup {NoClaim}]
  BY DEF SafetyInv, TypeOK
<1> DEFINE c == [d EXCEPT !.phase = "returned", !.found = f]
<1>2. c \in Claims /\ SameRow(d, c) /\ c.phase = "returned" /\ c.found = f
  BY DEF Claims, SameRow, Phases
<1>3. work' = [work EXCEPT ![w] = c]
  BY <1>1
<1> QED
  BY <1>2, <1>3

LEMMA ClaimLooked ==
    ASSUME SafetyInv, NEW w \in Workers, NEW d \in Claims, d = work[w],
           NEW f \in BOOLEAN,
           work' = [work EXCEPT ![w].phase = "inspected", ![w].seen = f]
    PROVE  \E c \in Claims : /\ SameRow(d, c) /\ work' = [work EXCEPT ![w] = c]
                            /\ c.phase = "inspected" /\ (c.seen <=> f)
<1>1. work \in [Workers -> Claims \cup {NoClaim}]
  BY DEF SafetyInv, TypeOK
<1> DEFINE c == [d EXCEPT !.phase = "inspected", !.seen = f]
<1>2. c \in Claims /\ SameRow(d, c) /\ c.phase = "inspected" /\ c.seen = f
  BY DEF Claims, SameRow, Phases
<1>3. work' = [work EXCEPT ![w] = c]
  BY <1>1
<1> QED
  BY <1>2, <1>3

LEMMA CheckHeadTells ==
    ASSUME SafetyInv, SafetyInv', OutboxInv, NEW w \in Workers, CheckHead(w)
    PROVE  OutboxInv'
<1>1. /\ work[w].phase = "claimed" /\ work[w].source # "unknown"
      /\ UNCHANGED <<outbox, items, unseen, head>>
      /\ Go(w, "checked") \/ (IsUpsert(w) /\ Decide(w, "obsolete"))
  BY DEF CheckHead, Step, ledgerVars, backendVars
<1>2. work[w] # NoClaim /\ work[w] \in Claims
  BY <1>1, WorkerParts DEF Phases
<1>3. PICK d \in Claims : d = work[w] /\ (IsUpsert(w) => UpsertTells(d))
  BY <1>2, TellingParts
<1>4. PICK c \in Claims :
        /\ SameRow(d, c) /\ work' = [work EXCEPT ![w] = c]
        /\ c.phase = "checked" \/ (IsUpsert(w) /\ c.phase = "finishing" /\ c.verdict = "obsolete")
  <2>1. "checked" \in Phases
    BY DEF Phases
  <2>2. ASSUME Go(w, "checked")
        PROVE  \E c \in Claims : /\ SameRow(d, c) /\ work' = [work EXCEPT ![w] = c]
                                /\ c.phase = "checked"
    BY <1>3, <2>1, <2>2, ClaimGoes
  <2>3. CASE IsUpsert(w) /\ Decide(w, "obsolete")
    BY <1>3, <2>3, ClaimDecides
  <2> QED
    BY <1>1, <2>2, <2>3
<1>5. SourceFits(c)
  BY <1>1, <1>3, <1>4 DEF SourceFits, SameRow
<1>6. IsUpsert(w) => UpsertFits(d, c)
  BY <1>1, <1>3, <1>4, Quiet DEF UpsertFits, UpsertTells, SaysAbsent, NotBegun, SameRow
<1>7. ~IsUpsert(w) => DeleteFits(d, c)
  BY <1>4 DEF DeleteFits
<1> QED
  BY <1>1, <1>2, <1>3, <1>4, <1>5, <1>6, <1>7, Quiet, StepTells


LEMMA MarkTells ==
    ASSUME SafetyInv, SafetyInv', OutboxInv, NEW w \in Workers, NEW p \in {"calling", "verifying"},
           work[w].phase \in {"claimed", "checked"},
           work[w].source = "unknown" <=> p = "verifying",
           MarkStarted(w, p), UNCHANGED head,
           IF p = "verifying" /\ Owns(w) THEN Looked(w) ELSE UNCHANGED unseen
    PROVE  OutboxInv'
<1>1. UNCHANGED <<items, head>> /\ p \in Phases
  BY DEF MarkStarted, Phases
<1>2. work[w] # NoClaim /\ work[w] \in Claims
  BY WorkerParts DEF Phases
<1>3. PICK d \in Claims, k \in Keys :
        /\ d = work[w] /\ k = d.key /\ k[2] = Target(w) /\ (Owns(w) <=> Held(d))
        /\ outbox[k] \in Row
        /\ \/ k[1] = "upsert" /\ IsUpsert(w) /\ UpsertTells(d)
           \/ k[1] = "delete" /\ ~IsUpsert(w)
  BY <1>2, TellingParts
<1>4. CASE Owns(w)
  <2>1. Go(w, p) /\ outbox' = [outbox EXCEPT ![k] = Started(@)]
    BY <1>3, <1>4 DEF MarkStarted
  <2>2. PICK c \in Claims : SameRow(d, c) /\ work' = [work EXCEPT ![w] = c] /\ c.phase = p
    BY <1>1, <1>3, <2>1, ClaimGoes
  <2>3. outbox'[k] = Started(outbox[k]) /\ \A j \in Keys \ {k} : outbox'[j] = outbox[j]
    BY <2>1 DEF SafetyInv, TypeOK
  <2>4. Started(outbox[k]).started /\ \A j \in Keys : Alike(j)
    BY <1>3, <2>3 DEF Started, Row, Alike
  <2>5. SourceFits(c)
    BY <1>3, <2>2 DEF SourceFits, SameRow
  <2>6. Asked(k)'
    BY <1>3, <1>4, <2>3, <2>4 DEF Asked, Alike, Held
  <2>7. ItemsBy(w) /\ (p = "calling" => Sure' = Sure)
    <3>1. CASE p = "calling" \/ ~IsUpsert(w)
      BY <1>1, <3>1, Quiet DEF Looked
    <3>2. CASE p = "verifying" /\ IsUpsert(w)
      <4>1. unseen' = unseen \ {Target(w)}
        BY <1>4, <3>2 DEF Looked
      <4>2. AtAttempt(w)
        BY <1>3, <1>4 DEF Held, AtAttempt
      <4> QED
        BY <1>1, <1>3, <2>6, <3>2, <4>1, <4>2 DEF ItemsBy, Sure
    <3> QED
      BY <3>1, <3>2
  <2>8. ASSUME IsUpsert(w)
        PROVE  UpsertFits(d, c)
    <3>1. SaysAbsent(c) => SaysAbsent(d) /\ p = "calling"
      BY <1>3, <2>2 DEF SaysAbsent
    <3>2. SaysAbsent(c) => c.key[2] \notin Sure'
      BY <1>3, <1>4, <2>2, <2>7, <2>8, <3>1 DEF UpsertTells, SameRow
    <3> QED
      BY <1>3, <2>2, <2>3, <2>4, <2>6, <3>2 DEF UpsertFits, SameRow
  <2>9. DeleteFits(d, c)
    BY <2>2 DEF DeleteFits
  <2> QED
    BY <1>1, <1>2, <1>3, <2>2, <2>4, <2>5, <2>7, <2>8, <2>9, StepTells
<1>5. CASE ~Owns(w)
  <2>1. Leave(w) /\ UNCHANGED <<outbox, unseen>>
    BY <1>5 DEF MarkStarted
  <2> QED
    BY <1>1, <1>2, <2>1, Quiet, LeaveTells
<1> QED
  BY <1>4, <1>5

\* A request of an upsert takes effect: the outbox is to know of it while the
\* row is at the attempt of the caller, and then it has been asked.
LEMMA WriteTells ==
    ASSUME SafetyInv, OutboxInv, NEW w \in Workers,
           work[w].phase = "calling", UNCHANGED outbox,
           Apply(work[w].key), Behind(work[w].key, AtAttempt(w))
    PROVE  ItemsBy(w)
<1>1. work[w] # NoClaim
  BY WorkerParts DEF Phases
<1>2. PICK d \in Claims, k \in Keys :
        /\ d = work[w] /\ k = d.key /\ k[2] = Target(w)
        /\ \/ k[1] = "upsert" /\ IsUpsert(w) /\ UpsertTells(d)
           \/ k[1] = "delete" /\ ~IsUpsert(w)
  BY <1>1, TellingParts
<1>3. CASE ~IsUpsert(w)
  BY <1>2, <1>3 DEF ItemsBy, Sure, Apply, Behind
<1>4. CASE IsUpsert(w) /\ ~AtAttempt(w)
  <2>1. items' = items \cup {k[2]} /\ unseen' = unseen \cup {k[2]}
    BY <1>2, <1>4 DEF Apply, Behind
  <2> QED
    BY <2>1 DEF ItemsBy, Sure
<1>5. CASE IsUpsert(w) /\ AtAttempt(w)
  <2>1. items' = items \cup {k[2]} /\ unseen' = unseen
    BY <1>2, <1>5 DEF Apply, Behind
  <2>2. Asked(k)
    BY <1>2, <1>5 DEF UpsertTells, AtAttempt
  <2>3. Asked(k)'
    BY <2>2 DEF Asked
  <2> QED
    BY <1>2, <1>5, <2>1, <2>3 DEF ItemsBy, Sure
<1> QED
  BY <1>3, <1>4, <1>5

LEMMA MaterializeTells ==
    ASSUME SafetyInv, SafetyInv', OutboxInv, NEW w \in Workers, Materialize(w)
    PROVE  OutboxInv'
<1>1. /\ work[w].phase = "calling" /\ IsUpsert(w)
      /\ UNCHANGED <<outbox, head>>
      /\ work' = [work EXCEPT ![w].phase = "returned", ![w].found = TRUE]
  BY DEF Materialize, Step, ledgerVars
<1>2. work[w] # NoClaim /\ work[w] \in Claims
  BY <1>1, WorkerParts DEF Phases
<1>3. PICK d \in Claims : d = work[w] /\ UpsertTells(d)
  BY <1>1, <1>2, TellingParts
<1>4. PICK c \in Claims : /\ SameRow(d, c) /\ work' = [work EXCEPT ![w] = c]
                          /\ c.phase = "returned" /\ c.found = TRUE
  BY <1>1, <1>3, ClaimReturns
<1>5. ItemsBy(w)
  BY <1>1, WriteTells DEF Materialize
<1>6. UpsertFits(d, c)
  BY <1>1, <1>3, <1>4 DEF UpsertFits, UpsertTells, SaysAbsent, NotBegun, SameRow
<1>7. SourceFits(c)
  BY <1>4 DEF SourceFits
<1> QED
  BY <1>1, <1>2, <1>3, <1>4, <1>5, <1>6, <1>7, Quiet, StepTells

LEMMA RemoveTells ==
    ASSUME SafetyInv, SafetyInv', OutboxInv, NEW w \in Workers, RemoveRemote(w)
    PROVE  OutboxInv'
<1>1. /\ work[w].phase = "calling" /\ ~IsUpsert(w)
      /\ UNCHANGED <<outbox, unseen, head>>
      /\ items' = items \ {Target(w)}
  BY DEF RemoveRemote, Step, ledgerVars, Apply, IsUpsert, Target
<1>2. work[w] # NoClaim /\ work[w] \in Claims
  BY <1>1, WorkerParts DEF Phases
<1>3. PICK d \in Claims : d = work[w] /\ d.key[2] = Target(w)
  BY <1>2 DEF Target
<1>4. PICK f \in BOOLEAN : work' = [work EXCEPT ![w].phase = "returned", ![w].found = f]
  <2>1. (outbox[work[w].key].locator \/ Target(w) \in items) \in BOOLEAN
    OBVIOUS
  <2> QED
    BY <2>1 DEF RemoveRemote
<1>5. PICK c \in Claims : SameRow(d, c) /\ work' = [work EXCEPT ![w] = c] /\ c.phase = "returned"
  BY <1>3, <1>4, ClaimReturns
<1>6. ItemsBy(w) /\ c.key[2] \notin Sure'
  BY <1>1, <1>3, <1>5 DEF ItemsBy, SameRow, Sure
<1>7. DeleteFits(d, c) /\ SourceFits(c)
  BY <1>5, <1>6 DEF DeleteFits, SourceFits
<1> QED
  BY <1>1, <1>2, <1>3, <1>5, <1>6, <1>7, Quiet, StepTells

LEMMA VerifyTells ==
    ASSUME SafetyInv, SafetyInv', OutboxInv, NEW w \in Workers, VerifyUnknown(w)
    PROVE  OutboxInv'
<1>1. work[w].phase = "verifying" /\ UNCHANGED <<outbox, items, unseen, head>>
  BY DEF VerifyUnknown, Step, ledgerVars, backendVars
<1>2. work[w] # NoClaim /\ work[w] \in Claims
  BY <1>1, WorkerParts DEF Phases
<1>3. PICK d \in Claims, k \in Keys :
        /\ d = work[w] /\ k = d.key /\ Target(w) = k[2] /\ d.source = "unknown"
        /\ outbox[k] \in Row /\ (IsUpsert(w) => UpsertTells(d))
  BY <1>1, <1>2, TellingParts DEF ClaimTells
<1>4. outbox[k].locator \in BOOLEAN
  BY <1>3 DEF Row
<1>5. PICK c \in Claims :
        /\ SameRow(d, c) /\ work' = [work EXCEPT ![w] = c]
        /\ \/ IsUpsert(w) /\ c.phase = "returned" /\ c.found = TRUE
           \/ /\ IsUpsert(w) /\ Target(w) \notin items
              /\ c.phase = "finishing" /\ c.verdict \in {"retry", "blocked"}
           \/ ~IsUpsert(w) /\ c.phase = "finishing"
           \/ ~IsUpsert(w) /\ Target(w) \notin items /\ c.phase = "returned"
  <2>1. CASE IsUpsert(w) /\ Target(w) \in items
    <3>1. work' = [work EXCEPT ![w].phase = "returned", ![w].found = TRUE]
      BY <2>1 DEF VerifyUnknown
    <3> QED
      BY <1>3, <2>1, <3>1, ClaimReturns
  <2>2. CASE IsUpsert(w) /\ Target(w) \notin items
    <3>1. Decide(w, "retry") \/ Decide(w, "blocked")
      BY <2>2 DEF VerifyUnknown, Exhausted
    <3> QED
      BY <1>3, <2>2, <3>1, ClaimDecides
  <2>3. CASE ~IsUpsert(w) /\ Target(w) \in items
    <3>1. Decide(w, "retry") \/ Decide(w, "blocked")
      BY <2>3 DEF VerifyUnknown, Exhausted
    <3> QED
      BY <1>3, <2>3, <3>1, ClaimDecides
  <2>4. CASE ~IsUpsert(w) /\ Target(w) \notin items
    <3>1. CASE outbox[k].locator
      <4>1. work' = [work EXCEPT ![w].phase = "returned", ![w].found = TRUE]
        BY <1>3, <1>4, <2>4, <3>1 DEF VerifyUnknown
      <4> QED
        BY <1>3, <2>4, <4>1, ClaimReturns
    <3>2. CASE ~outbox[k].locator
      <4>1. work' = [work EXCEPT ![w].phase = "returned", ![w].found = FALSE]
        BY <1>3, <1>4, <2>4, <3>2 DEF VerifyUnknown
      <4> QED
        BY <1>3, <2>4, <4>1, ClaimReturns
    <3> QED
      BY <3>1, <3>2
  <2> QED
    BY <2>1, <2>2, <2>3, <2>4
<1>6. SourceFits(c)
  BY <1>5 DEF SourceFits
<1>7. ASSUME IsUpsert(w)
      PROVE  UpsertFits(d, c)
  <2>1. Held(d) => outbox[k].started
    BY <1>1, <1>3, <1>7 DEF UpsertTells, NotBegun
  <2>2. SaysAbsent(c) => c.key[2] \notin Sure'
    BY <1>1, <1>3, <1>5, <1>7 DEF SaysAbsent, SameRow, Sure
  <2> QED
    BY <1>1, <1>3, <1>5, <1>7, <2>1, <2>2 DEF UpsertFits, SameRow
<1>8. ~IsUpsert(w) => DeleteFits(d, c)
  BY <1>1, <1>3, <1>5 DEF DeleteFits, SameRow, Sure
<1> QED
  BY <1>1, <1>2, <1>3, <1>5, <1>6, <1>7, <1>8, Quiet, StepTells

LEMMA InspectTells ==
    ASSUME SafetyInv, SafetyInv', OutboxInv, NEW w \in Workers, Inspect(w)
    PROVE  OutboxInv'
<1>1. work[w].phase = "returned" /\ UNCHANGED <<outbox, items, head>>
  BY DEF Inspect, Step, ledgerVars
<1>2. work[w] # NoClaim /\ work[w] \in Claims
  BY <1>1, WorkerParts DEF Phases
<1>3. PICK d \in Claims, k \in Keys :
        /\ d = work[w] /\ k = d.key /\ Target(w) = k[2] /\ (IsUpsert(w) => k = Upsert(k[2]))
        /\ (Owns(w) <=> Held(d)) /\ (IsUpsert(w) => UpsertTells(d))
        /\ (~IsUpsert(w) => DeleteTells(d))
  BY <1>2, TellingParts
<1>4. CASE Owns(w)
  <2>1. work' = [work EXCEPT ![w].phase = "inspected", ![w].seen = d.found /\ Target(w) \in items]
    BY <1>3, <1>4 DEF Inspect
  <2>2. PICK f \in BOOLEAN : /\ f = (d.found /\ Target(w) \in items)
                             /\ work' = [work EXCEPT ![w].phase = "inspected", ![w].seen = f]
    BY <2>1
  <2>7. work' = [work EXCEPT ![w].phase = "inspected", ![w].seen = f] /\ d = work[w]
    BY <1>3, <2>2
  <2>3. PICK c \in Claims :
          /\ SameRow(d, c) /\ work' = [work EXCEPT ![w] = c]
          /\ c.phase = "inspected" /\ (c.seen <=> f)
    BY <2>7, ClaimLooked
  <2>4. SourceFits(c)
    BY <2>3 DEF SourceFits
  <2>5. ASSUME IsUpsert(w)
        PROVE  UpsertFits(d, c)
    <3>1. d.found /\ outbox[k].started
      BY <1>1, <1>3, <1>4, <2>5 DEF UpsertTells, NotBegun
    <3>2. SaysAbsent(c) => c.key[2] \notin Sure'
      BY <1>1, <1>3, <2>2, <2>3, <3>1 DEF SaysAbsent, SameRow, Sure
    <3> QED
      BY <1>1, <1>3, <2>3, <3>1, <3>2 DEF UpsertFits, SameRow
  <2>8. /\ ItemsBy(w)
        /\ ~IsUpsert(w) => Sure' = Sure
    <3>1. CASE ~IsUpsert(w)
      BY <1>1, <1>4, <3>1, Quiet DEF Inspect, Looked
    <3>2. CASE IsUpsert(w)
      <4>1. unseen' = unseen \ {Target(w)}
        BY <1>4, <3>2 DEF Inspect, Looked
      <4>2. outbox[k].started
        BY <1>1, <1>3, <1>4, <3>2 DEF UpsertTells, NotBegun
      <4>3. AtAttempt(w) /\ Asked(k)'
        BY <1>1, <1>3, <1>4, <4>2 DEF Held, AtAttempt, Asked
      <4> QED
        BY <1>1, <1>3, <3>2, <4>1, <4>3 DEF ItemsBy, Sure
    <3> QED
      BY <3>1, <3>2
  <2>6. ASSUME ~IsUpsert(w) PROVE DeleteFits(d, c)
    <3>1. CASE d.found
      BY <1>1, <1>3, <2>2, <2>3, <2>6, <2>8, <3>1 DEF DeleteFits, DeleteTells, Unresolved, SameRow, Sure
    <3>2. CASE ~d.found
      BY <1>1, <1>3, <2>2, <2>3, <2>6, <2>8, <3>2 DEF DeleteFits, DeleteTells, Unresolved, SameRow
    <3> QED
      BY <3>1, <3>2
  <2> QED
    BY <1>1, <1>2, <1>3, <2>3, <2>4, <2>5, <2>6, <2>8, Quiet, StepTells
<1>5. CASE ~Owns(w)
  <2>1. Leave(w) /\ UNCHANGED unseen
    BY <1>5 DEF Inspect
  <2> QED
    BY <1>1, <1>2, <2>1, Quiet, LeaveTells
<1> QED
  BY <1>4, <1>5


(***************************************************************************)
(* Faults.                                                                 *)
(***************************************************************************)
LEMMA ReadFailsTells ==
    ASSUME SafetyInv, SafetyInv', OutboxInv, NEW w \in Workers,
           Faulty(w, "verifying") \/ Faulty(w, "returned"), ReadFails(w), UNCHANGED backendVars
    PROVE  OutboxInv'
<1>1. /\ work[w].phase \in {"verifying", "returned"}
      /\ UNCHANGED <<outbox, items, unseen, head>>
  BY DEF Faulty, ledgerVars, backendVars
<1>2. work[w] # NoClaim /\ work[w] \in Claims
  BY <1>1, WorkerParts DEF Phases
<1>3. PICK d \in Claims : d = work[w] /\ (IsUpsert(w) => UpsertTells(d))
  BY <1>2, TellingParts
<1>4. PICK v \in {"unknown", "blocked"} : Decide(w, v)
  BY DEF ReadFails, Exhausted
<1>5. PICK c \in Claims : /\ SameRow(d, c) /\ work' = [work EXCEPT ![w] = c]
                          /\ c.phase = "finishing" /\ c.verdict = v
  BY <1>3, <1>4, ClaimDecides
<1>6. SourceFits(c) /\ DeleteFits(d, c)
  BY <1>5 DEF SourceFits, DeleteFits
<1>7. ASSUME IsUpsert(w)
      PROVE  UpsertFits(d, c)
  <2>1. ~SaysAbsent(c)
    BY <1>5 DEF SaysAbsent
  <2>2. Held(d) => outbox[c.key].started
    BY <1>1, <1>3, <1>5, <1>7 DEF UpsertTells, NotBegun, SameRow
  <2> QED
    BY <1>1, <1>5, <2>1, <2>2 DEF UpsertFits
<1> QED
  BY <1>1, <1>2, <1>3, <1>5, <1>6, <1>7, Quiet, StepTells

\* A request is lost: what may have become of it.
LEMMA LostTells ==
    ASSUME SafetyInv, OutboxInv, NEW w \in Workers,
           work[w].phase = "calling", UNCHANGED outbox, Unanswered(w)
    PROVE  ItemsBy(w)
<1>1. CASE UNCHANGED <<items, unseen>>
  BY <1>1, Quiet
<1>2. CASE Apply(work[w].key) /\ Behind(work[w].key, AtAttempt(w))
  BY <1>2, WriteTells
<1> QED
  BY <1>1, <1>2 DEF Unanswered, backendVars

LEMMA CallFailsTells ==
    ASSUME SafetyInv, SafetyInv', OutboxInv, NEW w \in Workers, CallFails(w)
    PROVE  OutboxInv'
<1>1. work[w].phase = "calling" /\ UNCHANGED <<outbox, head>>
  BY DEF CallFails, Faulty, ledgerVars
<1>2. work[w] # NoClaim /\ work[w] \in Claims
  BY <1>1, WorkerParts DEF Phases
<1>3. PICK d \in Claims : d = work[w] /\ (IsUpsert(w) => UpsertTells(d))
  BY <1>2, TellingParts
<1>4. ItemsBy(w)
  BY <1>1, LostTells, Quiet DEF CallFails, backendVars
<1>5. PICK v \in {"unknown", "retry", "blocked"} :
        Decide(w, v) /\ (v = "retry" => UNCHANGED <<items, unseen>>)
  <2>1. \A v \in {"unknown", "retry"} : Exhausted(w, v) \in {v, "blocked"}
    BY DEF Exhausted
  <2>2. CASE Decide(w, "unknown")
    BY <2>2
  <2>3. CASE Decide(w, Exhausted(w, "unknown"))
    BY <2>1, <2>3
  <2>4. CASE Decide(w, Exhausted(w, "retry")) /\ UNCHANGED backendVars
    BY <2>1, <2>4 DEF backendVars
  <2> QED
    BY <2>2, <2>3, <2>4 DEF CallFails
<1>6. PICK c \in Claims : /\ SameRow(d, c) /\ work' = [work EXCEPT ![w] = c]
                          /\ c.phase = "finishing" /\ c.verdict = v
  BY <1>3, <1>5, ClaimDecides
<1>7. SourceFits(c) /\ DeleteFits(d, c)
  BY <1>6 DEF SourceFits, DeleteFits
<1>8. ASSUME IsUpsert(w)
      PROVE  UpsertFits(d, c)
  <2>1. SaysAbsent(c) => Sure' = Sure
    BY <1>5, <1>6, Quiet DEF SaysAbsent
  <2>2. Held(d) => d.key[2] \notin Sure /\ outbox[d.key].started
    BY <1>1, <1>3, <1>8 DEF UpsertTells, NotBegun, SaysAbsent
  <2> QED
    BY <1>1, <1>6, <2>1, <2>2 DEF UpsertFits, SameRow
<1> QED
  BY <1>1, <1>2, <1>3, <1>4, <1>6, <1>7, <1>8, Quiet, StepTells

LEMMA CrashTells ==
    ASSUME SafetyInv, SafetyInv', OutboxInv, NEW w \in Workers, Crash(w)
    PROVE  OutboxInv'
<1>1. /\ work[w] # NoClaim /\ Leave(w)
      /\ UNCHANGED <<outbox, head>>
  BY DEF Crash, ledgerVars
<1>2. ItemsBy(w)
  BY <1>1, LostTells, Quiet DEF Crash, backendVars
<1> QED
  BY <1>1, <1>2, LeaveTells


(***************************************************************************)
(* The transactions that settle a row, by the worker that holds it.        *)
(***************************************************************************)
Verdicts == {"unknown", "retry", "obsolete", "blocked", "confirmed"}

LEMMA SettleTells ==
    ASSUME SafetyInv, SafetyInv', OutboxInv, NEW w \in Workers, work[w] # NoClaim,
           Leave(w), Owns(w), UNCHANGED <<head, items, unseen>>,
           NEW k \in Keys, k = work[w].key, NEW t \in Targets, t = Target(w),
           NEW s \in Verdicts,
           outbox'[k] = Settled(outbox[k], s),
           \A j \in Keys \ {k} :
              outbox'[j] = outbox[j]
                 \/ (IsUpsert(w) /\ j = Delete(t) /\ outbox'[j] = Requeued(outbox[j])),
           IsUpsert(w) =>
              /\ s = "retry" => t \notin Sure
              /\ s \in {"retry", "obsolete", "confirmed"} =>
                    t \notin Sure \/ outbox'[Delete(t)].status \in {"absent", "pending"},
           ~IsUpsert(w) => (s = "confirmed" => t \notin Sure \/ Unresolved(t))
    PROVE  OutboxInv'
<1>1. /\ TypeOK /\ TypeOK' /\ work'[w] = NoClaim /\ Sure' = Sure
      /\ \A v \in Workers \ {w} : work'[v] = work[v]
      /\ \A j \in Keys : outbox[j] \in Row
  BY DEF SafetyInv, OutboxInv, TypeOK, Leave, Sure
<1>2. PICK c \in Claims :
        /\ c = work[w] /\ c.key = k /\ Held(c)
        /\ \/ k = Upsert(t) /\ IsUpsert(w) /\ UpsertTells(c)
           \/ k = Delete(t) /\ ~IsUpsert(w)
  BY TellingParts DEF Target
<1>3. /\ outbox[k].status = "running"
      /\ outbox'[k].status = s /\ outbox'[k].lease = "none"
      /\ outbox'[k].attempts = outbox[k].attempts
  BY <1>1, <1>2 DEF Held, Settled, Row
<1>4. ASSUME NEW j \in Keys, j # k
      PROVE  \/ outbox'[j] = outbox[j]
             \/ /\ k = Upsert(t) /\ j = Delete(t)
                /\ outbox'[j].status = "pending"
                /\ outbox'[j].attempts = outbox[j].attempts
  <2>1. CASE IsUpsert(w) /\ j = Delete(t) /\ outbox'[j] = Requeued(outbox[j])
    <3>1. k = Upsert(t)
      BY <1>2, <2>1
    <3>2. outbox[j] \in Row
      BY <1>1
    <3>3. outbox'[j].status = "pending" /\ outbox'[j].attempts = outbox[j].attempts
      BY <2>1, <3>2 DEF Requeued, Row
    <3> QED
      BY <2>1, <3>1, <3>3
  <2> QED
    BY <1>4, <2>1
<1>5. ASSUME NEW u \in Targets, Upsert(u) # k
      PROVE  outbox'[Upsert(u)] = outbox[Upsert(u)]
  BY <1>4, <1>5, KeyParts
\* The upsert row that is settled leaves nothing to a delete that has looked.
<1>6. ASSUME NEW u \in Targets, Unresolved(u),
             outbox'[Delete(u)].status \notin {"absent", "pending"}
      PROVE  u \notin Sure' \/ Unresolved(u)'
  <2>1. CASE Upsert(u) # k
    BY <1>5, <1>6, <2>1 DEF Unresolved
  <2>2. CASE Upsert(u) = k
    <3>1. u = t /\ IsUpsert(w)
      BY <1>2, <2>2, KeyParts
    <3>2. s \in {"unknown", "blocked"} \/ t \notin Sure
      BY <1>6, <3>1 DEF Verdicts
    <3> QED
      BY <1>1, <1>3, <2>2, <3>1, <3>2 DEF Unresolved
  <2> QED
    BY <2>1, <2>2
<1>7. ASSUME NEW v \in Workers, v # w, work[v] # NoClaim
      PROVE  Spares(work[v])
  <2>1. PICK d \in Claims, j \in Keys, u \in Targets :
          /\ d = work[v] /\ j = d.key /\ u = j[2]
          /\ outbox[j].attempts \in Nat
          /\ \/ j[1] = "upsert" /\ j = Upsert(u)
             \/ j[1] = "delete" /\ j = Delete(u)
    BY <1>7, TellingParts
  <2>2. outbox'[j].attempts = outbox[j].attempts
    BY <1>3, <1>4
  <2>3. CASE j = k
    <3>1. ~Held(d)' /\ d.attempt # outbox[j].attempts
      BY <1>2, <1>3, <1>7, <2>1, <2>3, HeldOnce DEF Held, AtAttempt, Verdicts
    <3>2. Spares(d)
      BY <2>1, <2>2, <3>1 DEF Spares
    <3> QED
      BY <2>1, <3>2
  <2>4. CASE j # k /\ outbox'[j] = outbox[j]
    <3>1. Held(d)' <=> Held(d)
      BY <2>1, <2>4 DEF Held
    <3>2. j[1] = "delete" /\ Held(d)' /\ Unresolved(u) => u \notin Sure' \/ Unresolved(u)'
      BY <1>6, <2>1 DEF Held
    <3>3. Spares(d)
      BY <1>1, <2>1, <2>2, <2>4, <3>1, <3>2 DEF Spares, Asked
    <3> QED
      BY <2>1, <3>3
  <2>5. CASE j # k /\ j = Delete(t) /\ outbox'[j].status = "pending"
    <3>1. ~Held(d)' /\ j[1] = "delete"
      BY <2>1, <2>5, KeyParts DEF Held
    <3>2. Spares(d)
      BY <2>1, <2>2, <3>1 DEF Spares
    <3> QED
      BY <2>1, <3>2
  <2> QED
    BY <1>4, <2>3, <2>4, <2>5
<1>8. ASSUME NEW u \in Targets
      PROVE  SparesUpsert(u) \/ UpsertRowTells(u)'
  <2>1. UpsertRowTells(u)
    BY DEF OutboxInv
  <2>2. CASE Upsert(u) = k
    <3>1. u = t /\ IsUpsert(w)
      BY <1>2, <2>2, KeyParts
    <3> QED
      BY <1>1, <1>3, <2>1, <2>2, <3>1 DEF UpsertRowTells, Verdicts
  <2>3. CASE Upsert(u) # k
    <3>1. outbox'[Upsert(u)] = outbox[Upsert(u)]
      BY <1>5, <2>3
    <3> QED
      BY <1>1, <3>1 DEF SparesUpsert, Alike
  <2> QED
    BY <2>2, <2>3
<1>9. ASSUME NEW u \in Targets
      PROVE  SparesDelete(u) \/ DeleteRowTells(u)'
  <2>0. Upsert(u) \in Keys /\ Delete(u) \in Keys /\ DeleteRowTells(u)
    BY KeyParts DEF OutboxInv
  <2>1. (Known(Upsert(u))' <=> Known(Upsert(u))) /\ (Known(Delete(u)) => Known(Delete(u))')
    BY <1>3, <1>4, <2>0, KeyParts DEF Known, Verdicts
  <2>2. (Gone(u)' <=> Gone(u))
    BY DEF Gone
  <2>3. CASE Delete(u) = k
    <3>1. u = t /\ ~IsUpsert(w) /\ outbox'[Upsert(u)] = outbox[Upsert(u)]
      BY <1>2, <1>5, <2>3, KeyParts
    <3> QED
      BY <1>1, <1>3, <2>0, <2>1, <2>2, <2>3, <3>1 DEF DeleteRowTells, Unresolved
  <2>4. CASE Delete(u) # k
    <3>1. outbox'[Delete(u)].status = "confirmed" => outbox[Delete(u)].status = "confirmed"
      BY <1>4, <2>0, <2>4
    <3>2. outbox'[Delete(u)].status = "confirmed" /\ Unresolved(u)
          => u \notin Sure' \/ Unresolved(u)'
      BY <1>6
    <3> QED
      BY <1>1, <2>1, <2>2, <3>1, <3>2 DEF SparesDelete
  <2> QED
    BY <2>3, <2>4
<1> QED
  BY <1>1, <1>7, <1>8, <1>9, TellingStep


LEMMA CompleteTells ==
    ASSUME SafetyInv, SafetyInv', OutboxInv, NEW w \in Workers, Complete(w)
    PROVE  OutboxInv'
<1>1. /\ work[w].phase = "inspected" /\ Leave(w)
      /\ UNCHANGED <<head, items, unseen>>
  BY DEF Complete, Step, ledgerVars, backendVars
<1>2. work[w] # NoClaim /\ work[w] \in Claims
  BY <1>1, WorkerParts DEF Phases
<1>3. PICK c \in Claims, k \in Keys, t \in Targets :
        /\ c = work[w] /\ k = c.key /\ t = k[2] /\ t = Target(w)
        /\ ClaimTells(c) /\ (Owns(w) <=> Held(c))
        /\ \/ k[1] = "upsert" /\ k = Upsert(t) /\ IsUpsert(w) /\ UpsertTells(c)
           \/ k[1] = "delete" /\ k = Delete(t) /\ ~IsUpsert(w) /\ DeleteTells(c)
  BY <1>2, TellingParts
<1>4. t[1] \in Memories /\ Upsert(t) # Delete(t) /\ Delete(t) \in Keys /\ outbox \in [Keys -> Row]
  BY KeyParts DEF SafetyInv, TypeOK
<1>5. CASE UNCHANGED outbox /\ ~Owns(w)
  BY <1>1, <1>2, <1>5, Quiet, LeaveTells
\* What does not match was looked for in vain.
<1>6. CASE Owns(w) /\ ~Matches(w) /\ outbox' = [outbox EXCEPT ![k] = Settled(@, "blocked")]
  <2>3. "blocked" \in Verdicts /\ outbox'[k] = Settled(outbox[k], "blocked")
        /\ \A j \in Keys \ {k} : outbox'[j] = outbox[j]
    BY <1>4, <1>6 DEF Verdicts
  <2> QED
    BY <1>1, <1>2, <1>3, <1>6, <2>3, SettleTells
<1>7. CASE /\ Owns(w) /\ IsUpsert(w)
           /\ outbox' = [outbox EXCEPT ![k] = Settled(@, "obsolete"), ![Delete(t)] = Requeued(@)]
  <2>1. k = Upsert(t)
    BY <1>3, <1>7
  <2>2. /\ outbox'[k] = Settled(outbox[k], "obsolete")
        /\ outbox'[Delete(t)] = Requeued(outbox[Delete(t)])
        /\ \A j \in Keys \ {k, Delete(t)} : outbox'[j] = outbox[j]
    BY <1>4, <1>7, <2>1
  <2>3. outbox'[Delete(t)].status = "pending" /\ "obsolete" \in Verdicts
    BY <1>4, <2>2 DEF Requeued, Row, Verdicts
  <2>4. \A j \in Keys \ {k} :
           outbox'[j] = outbox[j]
              \/ (IsUpsert(w) /\ j = Delete(t) /\ outbox'[j] = Requeued(outbox[j]))
    BY <1>7, <2>2
  <2>5. Owns(w) /\ IsUpsert(w) /\ outbox'[k] = Settled(outbox[k], "obsolete")
    BY <1>7, <2>2
  <2> QED
    BY <1>1, <1>2, <1>3, <2>3, <2>4, <2>5, SettleTells
\* Nothing sets out to remove what is confirmed for the current revision.
<1>8. CASE /\ Owns(w) /\ Matches(w) /\ (IsUpsert(w) => IsCurrent(t))
           /\ outbox' = [outbox EXCEPT ![k] = Settled(@, "confirmed")]
  <2>1. "confirmed" \in Verdicts /\ outbox'[k] = Settled(outbox[k], "confirmed")
        /\ \A j \in Keys \ {k} : outbox'[j] = outbox[j]
    BY <1>4, <1>8 DEF Verdicts
  <2>2. IsUpsert(w) => outbox'[Delete(t)].status = "absent"
    <3>1. SUFFICES ASSUME IsUpsert(w) PROVE outbox'[Delete(t)].status = "absent"
      OBVIOUS
    <3>2. outbox[Delete(t)].status = "absent"
      BY <1>8, <3>1 DEF SafetyInv, DeleteNeverTargetsCurrent
    <3>3. k = Upsert(t)
      BY <1>3, <3>1
    <3> QED
      BY <1>4, <2>1, <3>2, <3>3
  <2>3. ~IsUpsert(w) => t \notin Sure \/ Unresolved(t)
    BY <1>1, <1>3, <1>8 DEF Matches, DeleteTells
  <2> QED
    BY <1>1, <1>2, <1>3, <1>8, <2>1, <2>2, <2>3, SettleTells
<1> QED
  BY <1>3, <1>5, <1>6, <1>7, <1>8 DEF Complete

LEMMA FinishTells ==
    ASSUME SafetyInv, SafetyInv', OutboxInv, NEW w \in Workers, FinishWithoutLocator(w)
    PROVE  OutboxInv'
<1>1. /\ work[w].phase = "finishing" /\ Leave(w)
      /\ UNCHANGED <<head, items, unseen>>
  BY DEF FinishWithoutLocator, Step, ledgerVars, backendVars
<1>2. work[w] # NoClaim /\ work[w] \in Claims
  BY <1>1, WorkerParts DEF Phases
<1>3. PICK c \in Claims, k \in Keys, t \in Targets :
        /\ c = work[w] /\ k = c.key /\ t = k[2] /\ t = Target(w)
        /\ (Owns(w) <=> Held(c))
        /\ \/ k[1] = "upsert" /\ k = Upsert(t) /\ IsUpsert(w) /\ UpsertTells(c)
           \/ k[1] = "delete" /\ k = Delete(t) /\ ~IsUpsert(w)
  BY <1>2, TellingParts
<1>4. CASE ~Owns(w)
  <2>1. UNCHANGED outbox
    BY <1>4 DEF FinishWithoutLocator
  <2> QED
    BY <1>1, <1>2, <1>4, <2>1, Quiet, LeaveTells
<1>5. CASE Owns(w)
  <2>1. PICK s \in {"unknown", "retry", "obsolete", "blocked"} : s = c.verdict
    BY <1>1, <1>3 DEF SafetyInv, TypeOK, Decided, Claims
  <2>2. outbox \in [Keys -> Row] /\ outbox' = [outbox EXCEPT ![k] = Settled(@, s)]
    BY <1>3, <1>5, <2>1 DEF FinishWithoutLocator, SafetyInv, TypeOK
  <2>3. /\ outbox'[k] = Settled(outbox[k], s)
        /\ \A j \in Keys \ {k} : outbox'[j] = outbox[j]
    BY <2>2
  <2>4. ASSUME IsUpsert(w)
        PROVE  s \in {"retry", "obsolete"} => t \notin Sure
    <3>1. UpsertTells(c) /\ Held(c) /\ c.phase = "finishing" /\ c.verdict = s
      BY <1>1, <1>3, <1>5, <2>1, <2>4
    <3> QED
      BY <1>3, <3>1 DEF UpsertTells, SaysAbsent
  <2>5. s \in Verdicts /\ s # "confirmed"
    BY DEF Verdicts
  <2> QED
    BY <1>1, <1>2, <1>3, <1>5, <2>3, <2>4, <2>5, SettleTells
<1> QED
  BY <1>4, <1>5


(***************************************************************************)
(* Leases: taken by the next worker, and lost.                             *)
(***************************************************************************)
LEMMA SweptTells ==
    ASSUME SafetyInv, OutboxInv, NEW k \in Keys
    PROVE  /\ Swept(k).attempts = outbox[k].attempts
           /\ Swept(k).status = "confirmed" <=> outbox[k].status = "confirmed"
           /\ Swept(k).status = "absent" <=> outbox[k].status = "absent"
           /\ \/ Swept(k) = outbox[k]
              \/ /\ outbox[k].status = "running" /\ outbox[k].lease = "expired"
                 /\ Swept(k).status \in {"unknown", "retry"} /\ Swept(k).lease = "none"
           /\ \A t \in Targets : k = Upsert(t) =>
                 (Swept(k).status \in {"pending", "retry"} => t \notin Sure)
           /\ Asked(k) /\ Swept(k) # outbox[k] => Swept(k).status = "unknown"
<1>1. outbox[k] \in Row
  BY DEF SafetyInv, TypeOK
<1>2. CASE outbox[k].status = "running" /\ outbox[k].lease = "expired"
  <2>1. /\ Swept(k).status = IF outbox[k].started THEN "unknown" ELSE "retry"
        /\ Swept(k).lease = "none" /\ Swept(k).attempts = outbox[k].attempts
    BY <1>1, <1>2 DEF Swept, Row
  <2>2. ASSUME NEW t \in Targets, k = Upsert(t)
        PROVE  ~outbox[k].started => t \notin Sure
    <3>1. UpsertRowTells(t)
      BY DEF OutboxInv
    <3> QED
      BY <1>2, <2>2, <3>1 DEF UpsertRowTells
  <2> QED
    BY <1>2, <2>1, <2>2 DEF Asked
<1>3. CASE ~(outbox[k].status = "running" /\ outbox[k].lease = "expired")
  <2>1. Swept(k) = outbox[k]
    BY <1>3 DEF Swept
  <2> QED
    BY <1>3, <2>1 DEF OutboxInv, UpsertRowTells, Asked
<1> QED
  BY <1>2, <1>3

LEMMA ClaimNextTells ==
    ASSUME SafetyInv, SafetyInv', OutboxInv, NEW w \in Workers, ClaimNext(w)
    PROVE  OutboxInv'
<1>1. PICK k \in Keys :
        /\ Claimable(k)
        /\ outbox' = [j \in Keys |-> IF j = k THEN Leased(Swept(k)) ELSE Swept(j)]
        /\ work' = [work EXCEPT ![w] = ClaimOf(k)]
        /\ unseen' = IF k[1] = "upsert" /\ Swept(k).status = "unknown"
                     THEN unseen \cup {k[2]} ELSE unseen
  BY DEF ClaimNext
<1>2. /\ TypeOK /\ TypeOK' /\ Sure' \subseteq Sure
      /\ UNCHANGED <<head, items>> /\ work[w] = NoClaim
      /\ work'[w] = ClaimOf(k) /\ \A v \in Workers \ {w} : work'[v] = work[v]
      /\ \A j \in Keys : outbox[j].attempts \in Nat
  BY <1>1 DEF ClaimNext, SafetyInv, OutboxInv, TypeOK, ledgerVars, Row, Sure
<1>3. /\ outbox'[k].status = "running" /\ outbox'[k].lease = "live"
      /\ outbox'[k].attempts = outbox[k].attempts + 1
      /\ Swept(k).status \in {"unknown", "pending", "retry"}
  BY <1>1, SweptTells DEF Leased, Claimable, Waiting
<1>4. \A j \in Keys \ {k} : outbox'[j] = Swept(j)
  BY <1>1
<1>5. outbox[k].status # "running" \/ outbox[k].lease = "expired"
  BY <1>3, SweptTells
<1>6. ASSUME NEW t \in Targets, Unresolved(t)
      PROVE  t \notin Sure' \/ Unresolved(t)'
  <2>1. Upsert(t) \in Keys
    BY KeyParts
  <2>2. CASE Upsert(t) = k
    BY <1>3, <2>2 DEF Unresolved
  <2>3. CASE Upsert(t) # k
    <3>1. outbox'[Upsert(t)] = Swept(Upsert(t))
      BY <1>4, <2>1, <2>3
    <3>2. \/ Swept(Upsert(t)) = outbox[Upsert(t)]
          \/ Swept(Upsert(t)).status = "unknown"
          \/ t \notin Sure
      BY <2>1, SweptTells
    <3> QED
      BY <1>2, <1>6, <3>1, <3>2 DEF Unresolved
  <2> QED
    BY <2>2, <2>3
<1>7. ASSUME NEW v \in Workers, work[v] # NoClaim
      PROVE  Spares(work[v]) /\ (work[v].key = k => work[v].attempt # ClaimOf(k).attempt)
  <2>1. PICK d \in Claims, j \in Keys, u \in Targets :
          /\ d = work[v] /\ j = d.key /\ u = j[2]
          /\ ClaimTells(d) /\ d.attempt \in Nat /\ outbox[j].attempts \in Nat
          /\ \/ j[1] = "upsert" /\ j = Upsert(u) /\ UpsertTells(d)
             \/ j[1] = "delete" /\ j = Delete(u)
    BY <1>7, TellingParts
  <2>2. d.attempt <= outbox[j].attempts
    BY <2>1 DEF ClaimTells
  <2>3. CASE j = k
    <3>1. ~Held(d)' /\ ~Held(d) /\ d.attempt # outbox'[j].attempts
      BY <1>2, <1>3, <1>5, <2>1, <2>2, <2>3 DEF Held
    <3>2. outbox[j].attempts <= outbox'[j].attempts
      BY <1>3, <2>1, <2>3
    <3>3. Spares(d)
      BY <1>2, <2>1, <3>1, <3>2 DEF Spares
    <3>4. d.attempt # ClaimOf(k).attempt
      BY <2>1, <2>2, <2>3 DEF ClaimOf
    <3> QED
      BY <2>1, <3>3, <3>4
  <2>4. CASE j # k
    <3>1. outbox'[j] = Swept(j)
      BY <1>4, <2>1, <2>4
    <3>2. \/ outbox'[j] = outbox[j]
          \/ ~Held(d)' /\ ~Held(d) /\ outbox'[j].attempts = outbox[j].attempts
      BY <2>1, <3>1, SweptTells DEF Held
    <3>3. (Held(d)' <=> Held(d)) /\ (Held(d) => outbox'[j] = outbox[j])
          /\ outbox'[j].attempts = outbox[j].attempts
      BY <2>1, <3>2 DEF Held
    <3>5. Asked(j) => Asked(j)'
      BY <2>1, <3>1, SweptTells DEF Asked
    <3>6. d.key[2] \in Sure' => d.key[2] \in Sure
      BY <1>2
    <3>4. Spares(d)
      BY <1>2, <1>6, <2>1, <3>3, <3>5, <3>6 DEF Spares
    <3> QED
      BY <2>1, <2>4, <3>4
  <2> QED
    BY <2>3, <2>4
\* The new claim.
<1>8. Moves(w)
  <2>1. PICK c \in Claims, t \in Targets :
          /\ c = ClaimOf(k) /\ t = k[2] /\ c = work'[w]
          /\ \/ k[1] = "upsert" /\ k = Upsert(t)
             \/ k[1] = "delete"
    <3>1. ClaimOf(k) \in Claims
      BY <1>2, <1>3 DEF ClaimOf, Claims, Phases
    <3> QED
      BY <1>2, <3>1, KeyParts DEF Actions
  <2>2. /\ c.phase = "claimed" /\ c.key = k /\ c.attempt = outbox[k].attempts + 1
        /\ c.source = Swept(k).status /\ c.erased = (head[k[2][1]].state = "deleted")
    BY <2>1 DEF ClaimOf
  <2>3. ASSUME k[1] = "upsert"
        PROVE  UpsertTells(c)'
    <3>1. k = Upsert(t)
      BY <2>1, <2>3
    <3>2. SaysAbsent(c)' => t \notin Sure'
      BY <1>2, <1>3, <2>2, <3>1, SweptTells DEF SaysAbsent
    <3>4. NotBegun(c)
      BY <2>2 DEF NotBegun
    <3> QED
      BY <2>1, <2>2, <3>2, <3>4 DEF UpsertTells, NotBegun
  <2>4. DeleteTells(c)'
    BY <2>2 DEF DeleteTells
  <2>5. ClaimTells(c)'
    <3>1. outbox[k].attempts + 1 \in Nat /\ c.attempt <= outbox'[c.key].attempts
      BY <1>2, <1>3, <2>2
    <3>2. c.erased => head'[c.key[2][1]].state = "deleted"
      BY <1>2, <2>2
    <3> QED
      BY <2>2, <2>3, <2>4, <3>1, <3>2 DEF ClaimTells
  <2> QED
    BY <1>2, <1>7, <2>1, <2>2, <2>5 DEF Moves
<1>9. ASSUME NEW t \in Targets
      PROVE  SparesUpsert(t) \/ UpsertRowTells(t)'
  <2>1. Upsert(t) \in Keys /\ UpsertRowTells(t)
    BY KeyParts DEF OutboxInv
  <2>2. CASE Upsert(t) = k
    <3>1. t \notin Sure'
      <4>1. CASE Swept(k).status = "unknown"
        <5>1. t \in unseen'
          BY <1>1, <2>2, <4>1 DEF Upsert
        <5> QED
          BY <5>1 DEF Sure
      <4>2. CASE Swept(k).status \in {"pending", "retry"}
        BY <1>2, <2>2, <4>2, SweptTells
      <4> QED
        BY <1>3, <4>1, <4>2
    <3> QED
      BY <1>3, <2>2, <3>1 DEF UpsertRowTells
  <2>3. CASE Upsert(t) # k /\ Swept(Upsert(t)) = outbox[Upsert(t)]
    <3>1. outbox'[Upsert(t)] = outbox[Upsert(t)]
      BY <1>4, <2>1, <2>3
    <3> QED
      BY <1>2, <3>1 DEF SparesUpsert, Alike
  <2>4. CASE Upsert(t) # k /\ Swept(Upsert(t)) # outbox[Upsert(t)]
    <3>1. outbox'[Upsert(t)] = Swept(Upsert(t))
      BY <1>4, <2>1, <2>4
    <3> QED
      BY <1>2, <2>1, <2>4, <3>1, SweptTells DEF UpsertRowTells
  <2> QED
    BY <2>2, <2>3, <2>4
<1>10. ASSUME NEW t \in Targets
       PROVE  SparesDelete(t)
  <2>1. Upsert(t) \in Keys /\ Delete(t) \in Keys
    BY KeyParts
  <2>2. ASSUME NEW j \in Keys
        PROVE  /\ Known(j)' <=> Known(j)
               /\ outbox'[j].status = "confirmed" => outbox[j].status = "confirmed"
    <3>1. CASE j = k
      BY <1>3, <3>1, SweptTells DEF Known
    <3>2. CASE j # k
      BY <1>4, <3>2, SweptTells DEF Known
    <3> QED
      BY <3>1, <3>2
  <2> QED
    BY <1>2, <1>6, <2>1, <2>2 DEF SparesDelete, Gone
<1> QED
  BY <1>2, <1>7, <1>8, <1>9, <1>10, TellingStep

\* A lease that is lost.
LEMMA LeaseTells ==
    ASSUME SafetyInv, SafetyInv', OutboxInv, NEW k \in Keys,
           outbox[k].lease = "live", outbox' = [outbox EXCEPT ![k].lease = "expired"],
           UNCHANGED <<head, work, items, unseen>>
    PROVE  OutboxInv'
<1>1. /\ TypeOK /\ TypeOK' /\ Sure' = Sure
      /\ outbox[k] \in Row
      /\ outbox'[k] = [outbox[k] EXCEPT !.lease = "expired"]
      /\ \A j \in Keys \ {k} : outbox'[j] = outbox[j]
  BY DEF SafetyInv, TypeOK, Sure
<1>2. /\ outbox'[k].status = outbox[k].status /\ outbox'[k].lease = "expired"
      /\ outbox'[k].attempts = outbox[k].attempts
      /\ outbox'[k].started = outbox[k].started
  BY <1>1 DEF Row
<1>3. \A j \in Keys : outbox'[j].status = outbox[j].status
                      /\ outbox'[j].attempts = outbox[j].attempts
                      /\ outbox'[j].started = outbox[j].started
  BY <1>1, <1>2
<1>4. \A t \in Targets : Unresolved(t)' <=> Unresolved(t)
  BY <1>3, KeyParts DEF Unresolved
<1>5. ASSUME NEW v \in Workers, work[v] # NoClaim
      PROVE  Spares(work[v])
  <2>1. PICK d \in Claims, j \in Keys, u \in Targets :
          /\ d = work[v] /\ j = d.key /\ u = j[2]
          /\ outbox[j].attempts \in Nat
          /\ \/ j[1] = "upsert" /\ j = Upsert(u)
             \/ j[1] = "delete" /\ j = Delete(u)
    BY <1>5, TellingParts
  <2>2. Held(d)' => Held(d)
    BY <1>1, <1>2, <2>1 DEF Held
  <2>3. Asked(j)' <=> Asked(j)
    BY <1>3, <2>1 DEF Asked
  <2>4. Spares(d)
    BY <1>1, <1>3, <1>4, <2>1, <2>2, <2>3 DEF Spares
  <2> QED
    BY <2>1, <2>4
<1>6. ASSUME NEW t \in Targets
      PROVE  SparesUpsert(t) \/ UpsertRowTells(t)'
  <2>1. UpsertRowTells(t) /\ Upsert(t) \in Keys
    BY KeyParts DEF OutboxInv
  <2>2. CASE Upsert(t) = k
    BY <1>1, <1>2, <2>1, <2>2 DEF UpsertRowTells
  <2>3. CASE Upsert(t) # k
    <3>1. outbox'[Upsert(t)] = outbox[Upsert(t)]
      BY <1>1, <2>1, <2>3
    <3> QED
      BY <1>1, <3>1 DEF SparesUpsert, Alike
  <2> QED
    BY <2>2, <2>3
<1>7. ASSUME NEW t \in Targets
      PROVE  SparesDelete(t)
  BY <1>1, <1>3, <1>4, KeyParts DEF SparesDelete, Known, Gone
<1> QED
  BY <1>1, <1>5, <1>6, <1>7, TellingStep

\* A request lands whose caller gave it up: the row says `unknown`, or the
\* projection is one the outbox may not know of.
LEMMA LandTells ==
    ASSUME SafetyInv, SafetyInv', OutboxInv, NEW k \in Keys, LateRequestLands(k)
    PROVE  OutboxInv'
<1>1. /\ TypeOK /\ TypeOK' /\ UNCHANGED <<head, outbox, work>>
      /\ Apply(k) /\ Behind(k, outbox[k].status = "unknown")
  BY DEF LateRequestLands, ledgerVars, SafetyInv
<1>2. ASSUME NEW t \in Targets, t \in Sure', t \notin Sure
      PROVE  k = Upsert(t) /\ outbox[k].status = "unknown"
  <2>1. k[1] = "upsert"
    BY <1>1, <1>2 DEF Apply, Behind, Sure
  <2>2. items' = items \cup {k[2]}
    BY <1>1, <2>1 DEF Apply
  <2>3. outbox[k].status = "unknown"
    <3> SUFFICES ASSUME outbox[k].status # "unknown" PROVE FALSE
      OBVIOUS
    <3>1. unseen' = unseen \cup {k[2]}
      BY <1>1, <2>1 DEF Behind
    <3> QED
      BY <1>2, <2>2, <3>1 DEF Sure
  <2>4. unseen' = unseen
    BY <1>1, <2>3 DEF Behind
  <2> QED
    BY <1>2, <2>1, <2>2, <2>3, <2>4, KeyParts DEF Sure
<1>3. ASSUME NEW v \in Workers, work[v] # NoClaim
      PROVE  Spares(work[v])
  <2>1. PICK d \in Claims, j \in Keys, u \in Targets :
          /\ d = work[v] /\ j = d.key /\ u = j[2]
          /\ outbox[j].attempts \in Nat
          /\ \/ j[1] = "upsert" /\ j = Upsert(u)
             \/ j[1] = "delete" /\ j = Delete(u)
    BY <1>3, TellingParts
  <2>2. /\ Held(d)' <=> Held(d)
        /\ Asked(j)' <=> Asked(j)
        /\ Unresolved(u)' <=> Unresolved(u)
    BY <1>1 DEF Held, Asked, Unresolved
  <2>3. ASSUME u \in Sure', u \notin Sure
        PROVE  Unresolved(u) /\ (j[1] = "upsert" => ~Held(d))
    <3>1. k = Upsert(u) /\ outbox[k].status = "unknown"
      BY <1>2, <2>3
    <3> QED
      BY <2>1, <3>1 DEF Unresolved, Held
  <2>4. Spares(d)
    BY <1>1, <2>1, <2>2, <2>3 DEF Spares
  <2> QED
    BY <2>1, <2>4
<1>4. ASSUME NEW t \in Targets
      PROVE  SparesUpsert(t) /\ SparesDelete(t)
  <2>1. t \in Sure' => t \in Sure \/ (Asked(Upsert(t))' /\ Unresolved(t)')
    BY <1>1, <1>2 DEF Asked, Unresolved
  <2>2. Unresolved(t)' <=> Unresolved(t)
    BY <1>1 DEF Unresolved
  <2> QED
    BY <1>1, <2>1, <2>2 DEF SparesUpsert, SparesDelete, Alike, Known, Gone
<1> QED
  BY <1>1, <1>3, <1>4, TellingStep

LEMMA EnvironmentTells ==
    ASSUME SafetyInv, SafetyInv', OutboxInv, NEW k \in Keys,
           LeaseRunsOut(k) \/ LeaseOverrun(k) \/ LateRequestLands(k)
    PROVE  OutboxInv'
<1>1. CASE LeaseRunsOut(k)
  BY <1>1, LeaseTells DEF LeaseRunsOut, ledgerVars, backendVars
<1>2. CASE LeaseOverrun(k)
  BY <1>2, LeaseTells DEF LeaseOverrun, ledgerVars, backendVars
<1>3. CASE LateRequestLands(k)
  BY <1>3, LandTells
<1> QED
  BY <1>1, <1>2, <1>3

(***************************************************************************)
(* The outbox knows: the inductive invariant behind the two results below. *)
(***************************************************************************)
THEOREM OutboxInvariant == Spec => []OutboxInv
<1>1. Init => OutboxInv
  BY InitTells
<1>2. SafetyInv /\ SafetyInv' /\ OutboxInv /\ [Next]_vars => OutboxInv'
  <2> SUFFICES ASSUME SafetyInv, SafetyInv', OutboxInv, [Next]_vars PROVE OutboxInv'
    OBVIOUS
  <2>1. CASE \E m \in Memories : Ledger(m)
    BY <2>1, LedgerTells
  <2>2. CASE UNCHANGED <<head, outbox, work, items, unseen>>
    <3>1. /\ \A v \in Workers : work[v] # NoClaim => (ClaimTells(work[v])' <=> ClaimTells(work[v]))
          /\ \A t \in Targets : UpsertRowTells(t)' <=> UpsertRowTells(t)
          /\ \A t \in Targets : DeleteRowTells(t)' <=> DeleteRowTells(t)
      BY <2>2
      DEF ClaimTells, UpsertTells, DeleteTells, SaysAbsent, NotBegun, Asked, Sure, Held,
          Unresolved, UpsertRowTells, DeleteRowTells, Gone, Known
    <3> QED
      BY <2>2, <3>1 DEF OutboxInv, ClaimsTell, ClaimsApart
  <2>3. ASSUME NEW w \in Workers, DrainOnce(w)
        PROVE  OutboxInv'
    <3>1. CASE StartCall(w)
      <4>1. work[w].phase = "checked" /\ work[w].source # "unknown"
        <5>1. work[w].phase = "checked"
          BY <3>1 DEF StartCall, Step
        <5>2. work[w] # NoClaim
          BY <5>1, WorkerParts DEF Phases
        <5> QED
          BY <5>1, <5>2 DEF OutboxInv, ClaimsTell, ClaimTells
      <4>2. /\ MarkStarted(w, "calling") /\ UNCHANGED head
            /\ IF "calling" = "verifying" /\ Owns(w) THEN Looked(w) ELSE UNCHANGED unseen
        BY <3>1 DEF StartCall, Step, ledgerVars
      <4> QED
        BY <4>1, <4>2, MarkTells
    <3>2. CASE StartVerify(w)
      <4>1. /\ work[w].phase = "claimed" /\ work[w].source = "unknown"
            /\ MarkStarted(w, "verifying") /\ UNCHANGED head
            /\ IF "verifying" = "verifying" /\ Owns(w) THEN Looked(w) ELSE UNCHANGED unseen
        BY <3>2 DEF StartVerify, Step, ledgerVars
      <4> QED
        BY <4>1, MarkTells
    <3> QED
      BY <2>3, <3>1, <3>2, ClaimNextTells, CheckHeadTells, MaterializeTells, RemoveTells,
         VerifyTells, InspectTells, CompleteTells, FinishTells
      DEF DrainOnce
  <2>4. ASSUME NEW w \in Workers, Fault(w)
        PROVE  OutboxInv'
    BY <2>4, CallFailsTells, ReadFailsTells, CrashTells
    DEF Fault, VerifyFails, InspectFails
  <2>5. CASE \E k \in Keys : LeaseRunsOut(k) \/ LeaseOverrun(k) \/ LateRequestLands(k)
    BY <2>5, EnvironmentTells
  <2> QED
    BY <2>1, <2>2, <2>3, <2>4, <2>5 DEF Next, vars, RegisterGeneration, backendVars
<1> QED
  BY <1>1, <1>2, SafetyInvariant, PTL DEF Spec

(***************************************************************************)
(* No projection of a retired or forgotten memory is left that no row      *)
(* accounts for, whoever crashes, times out, overruns his lease or loses a *)
(* row to another, and however late a request lands.                       *)
(***************************************************************************)
THEOREM NothingOrphaned == Spec => []OrphanFree
<1>1. SafetyInv /\ OutboxInv => OrphanFree
  BY InvTells
<1> QED
  BY <1>1, SafetyInvariant, OutboxInvariant, PTL

(***************************************************************************)
(* Nor does a row wait for its projection while the backend has it.        *)
(***************************************************************************)
THEOREM RetryIsRight == Spec => []RetryHadNoEffect
<1>1. SafetyInv /\ OutboxInv => RetryHadNoEffect
  BY InvTells
<1> QED
  BY <1>1, SafetyInvariant, OutboxInvariant, PTL

=============================================================================
