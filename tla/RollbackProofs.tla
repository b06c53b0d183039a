---------------------------- MODULE RollbackProofs ----------------------------
(***************************************************************************)
(* Compensation and rollback for any number of memories, workers, runners, *)
(* attempts and faults: RollbackInv is inductive, nothing happens under an *)
(* epoch no longer in force, and what a rollback that completes leaves     *)
(* behind has landed since it began.                                       *)
(* One lemma per action, over the invariant taken apart by memory, worker  *)
(* and process; what an action does not touch stays by the frame lemmas.   *)
(***************************************************************************)
EXTENDS Rollback, TLAPS

-----------------------------------------------------------------------------
(***************************************************************************)
(* The invariant by memory, by worker and by process.                      *)
(***************************************************************************)
\* A projection that no late write accounts for.
Exposed(m) == m \in items /\ stray[m] = "no"

MemHolds(m) ==
    /\ RowInOrder(m)
    /\ op[m].state = "compensated" => ~Exposed(m)
    /\ row[m].status \in Finished => op[m].state \in {row[m].status, "compensating"}

ClaimHolds(w) == work[w] # Idle => ClaimInOrder(w)

CompHolds(p) == comp[p] # NoCompensation => CompensationHolds(p)

Mems   == \A m \in Memories : MemHolds(m)
Claims == \A w \in Workers : ClaimHolds(w)
Comps  == \A p \in Procs : CompHolds(p)

Ordered == Mems /\ Claims /\ Comps /\ ClaimsApart /\ EpochsInOrder

Runs == \A r \in Runners : RunnerInOrder(r)

DeskOK == steps \in [1..5 -> StepStatus] /\ desk \in [Runners -> Desk]

IInv == TypeOK /\ DeskOK /\ Ordered

LEMMA InvParts == RollbackInv <=> IInv /\ Runs
BY DEF RollbackInv, RollbackTypeOK, IInv, DeskOK, Ordered, InOrder, Mems, Claims, Comps, Runs,
   MemHolds, Exposed, ClaimHolds, CompHolds, CompensatedMeansAbsent, RowTellsOperation

-----------------------------------------------------------------------------
(***************************************************************************)
(* What rows, operations, attempts and claims are made of.                 *)
(***************************************************************************)
LEMMA OpShape ==
    ASSUME NEW o \in Op
    PROVE  /\ o.state \in OpStates /\ o.token \in 0..MaxAttempts /\ o.live \in BOOLEAN
           /\ o.comp \in Procs \cup {NoProc} /\ o.compLive \in BOOLEAN
           /\ o.locator \in BOOLEAN /\ o.digest \in {"none", "body", "erased"}
           /\ o.epoch \in 0..3
BY DEF Op

LEMMA IdleShape == Idle.phase = "idle" /\ Idle \notin Claim
BY DEF Idle, Claim

LEMMA ClaimShape ==
    ASSUME NEW c \in Claim
    PROVE  /\ c # Idle /\ c.phase \in Phases /\ c.m \in Memories /\ c.n \in 1..MaxAttempts
           /\ c.epoch \in 0..3 /\ c.source \in {"pending", "retry", "unknown"}
           /\ c.verdict \in {"none", "unknown", "retry", "obsolete", "blocked"}
BY DEF Claim, Idle, Phases

\* A step of a worker that keeps its claim.
SameWork(c, d) == c # Idle /\ c.m = d.m /\ c.n = d.n /\ c.epoch = d.epoch

LEMMA PhaseMoves ==
    ASSUME NEW c \in Claim, NEW x \in Phases
    PROVE  /\ [c EXCEPT !.phase = x] \in Claim /\ [c EXCEPT !.phase = x].phase = x
           /\ [c EXCEPT !.phase = x].verdict = c.verdict
           /\ SameWork([c EXCEPT !.phase = x], c)
BY DEF Claim, Phases, SameWork, Idle

LEMMA SeenMoves ==
    ASSUME NEW c \in Claim, NEW x \in Phases, NEW b \in BOOLEAN
    PROVE  /\ [c EXCEPT !.phase = x, !.seen = b] \in Claim
           /\ [c EXCEPT !.phase = x, !.seen = b].phase = x
           /\ SameWork([c EXCEPT !.phase = x, !.seen = b], c)
BY DEF Claim, Phases, SameWork, Idle

LEMMA Working ==
    ASSUME TypeOK, NEW w \in Workers, work[w] # Idle \/ work[w].phase # "idle"
    PROVE  work[w] \in Claim /\ work[w] # Idle /\ work[w].m \in Memories
           /\ work[w].n \in 1..MaxAttempts
<1>1. work[w] \in Claim \cup {Idle}
  BY DEF TypeOK
<1> QED
  BY <1>1, IdleShape, ClaimShape

LEMMA CompShape ==
    ASSUME NEW k \in Compensating \cup {NoCompensation}
    PROVE  /\ k.status \in {"none", "compensated", "cleanup_required"} => k # NoCompensation
           /\ k # NoCompensation =>
                 /\ k \in Compensating /\ k.m \in Memories
                 /\ k.status \in {"none", "compensated", "cleanup_required"}
                 /\ k.digest \in {"none", "body", "erased"} /\ k.locator \in BOOLEAN
BY DEF Compensating, NoCompensation

-----------------------------------------------------------------------------
(***************************************************************************)
(* What stays.                                                             *)
(***************************************************************************)
RunStays == run'.status = "live" => run.status = "live"

\* Nothing is under way to the backend that was not before.
NothingSent(m) == \A n \in 1..MaxAttempts : <<m, n>> \in late' => <<m, n>> \in late

LEMMA MemKept ==
    ASSUME NEW m \in Memories, MemHolds(m), RunStays,
           row'[m] = row[m], op'[m] = op[m], att'[m] = att[m],
           head'[m] = "none" => head[m] = "none",
           m \in items' => m \in items, NothingSent(m),
           Exposed(m)' => Exposed(m), stray'[m] # "no" => m \in items',
           m \in removed => m \in removed'
    PROVE  MemHolds(m)'
BY DEF MemHolds, RowInOrder, RunStays, NothingSent

\* The projection of a memory, and what is known of it, stays.
SameItem(m) ==
    /\ m \in items' <=> m \in items
    /\ stray'[m] = "no" <=> stray[m] = "no"
    /\ NothingSent(m)

LEMMA MemSame ==
    ASSUME NEW m \in Memories, MemHolds(m), RunStays, SameItem(m),
           row'[m] = row[m], op'[m] = op[m], att'[m] = att[m],
           head'[m] = "none" => head[m] = "none",
           m \in removed => m \in removed'
    PROVE  MemHolds(m)'
<1>1. (Exposed(m)' => Exposed(m)) /\ (stray'[m] # "no" => m \in items')
  BY DEF SameItem, Exposed, MemHolds, RowInOrder
<1> QED
  BY <1>1, MemKept DEF SameItem

LEMMA ClaimKept ==
    ASSUME NEW v \in Workers, ClaimHolds(v), NEW m, NEW n, RunStays,
           work'[v] = work[v], m = work[v].m, n = work[v].n,
           work[v] # Idle =>
              /\ head[m] # "none" => head'[m] # "none"
              /\ n <= row[m].attempts => n <= row'[m].attempts
              /\ run'.status = "live" => att'[m][n].finished = att[m][n].finished
              /\ work[v].phase = "calling" /\ InLease(work[v])' =>
                    InLease(work[v]) /\ (CallHolds(v) => CallHolds(v)')
    PROVE  ClaimHolds(v)'
BY DEF ClaimHolds, ClaimInOrder, RunStays

LEMMA CompKept ==
    ASSUME NEW p \in Procs, CompHolds(p), NEW m, RunStays, comp'[p] = comp[p], m = comp[p].m,
           comp[p].status = "compensated" /\ op'[m].comp = p =>
              op[m].comp = p /\ (Exposed(m)' => Exposed(m))
    PROVE  CompHolds(p)'
BY DEF CompHolds, CompensationHolds, RunStays, Exposed

LEMMA ApartKept ==
    ASSUME ClaimsApart,
           \A v \in Workers : work'[v] = Idle \/ (work[v] # Idle /\ SameWork(work'[v], work[v]))
    PROVE  ClaimsApart'
BY DEF ClaimsApart, SameWork

\* Memories, workers and processes that a step of memory m does not touch.
SameBut(m) ==
    \A k \in Memories \ {m} :
        /\ row'[k] = row[k] /\ op'[k] = op[k] /\ att'[k] = att[k]
        /\ SameItem(k)
        /\ k \in removed' <=> k \in removed

\* The projections stay, and which of them are stray.
SameItems ==
    /\ items' = items /\ late' = late
    /\ \A m \in Memories : stray'[m] = "no" <=> stray[m] = "no"

LEMMA ItemsStay ==
    ASSUME SameItems
    PROVE  \A m \in Memories : SameItem(m) /\ (Exposed(m)' => Exposed(m))
BY DEF SameItems, SameItem, NothingSent, Exposed

LEMMA ItemsUntouched ==
    ASSUME UNCHANGED <<items, late, stray>>
    PROVE  SameItems /\ \A m \in Memories : SameItem(m)
BY DEF SameItems, SameItem, NothingSent

SameHeads == \A k \in Memories : head'[k] = "none" => head[k] = "none"

LEMMA OtherMems ==
    ASSUME NEW m \in Memories, Mems, RunStays, SameBut(m), SameHeads, MemHolds(m)'
    PROVE  Mems'
<1>1. ASSUME NEW k \in Memories, k # m PROVE MemHolds(k)'
  <2>1. MemHolds(k)
    BY DEF Mems
  <2> QED
    BY <1>1, <2>1, MemSame DEF SameBut, SameHeads
<1> QED
  BY <1>1 DEF Mems

LEMMA OtherClaim ==
    ASSUME NEW v \in Workers, NEW m \in Memories, Claims, RunStays, SameBut(m), SameHeads,
           work'[v] = work[v], work[v] # Idle => work[v].m \in Memories \ {m}
    PROVE  ClaimHolds(v)'
<1>1. CASE work[v] = Idle
  BY <1>1 DEF ClaimHolds
<1>2. CASE work[v] # Idle
  <2> DEFINE k == work[v].m
             n == work[v].n
  <2>1. /\ k \in Memories /\ k # m /\ row'[k] = row[k] /\ op'[k] = op[k]
        /\ att'[k] = att[k] /\ ClaimHolds(v)
        /\ head'[k] = "none" => head[k] = "none"
    BY <1>2 DEF SameBut, SameHeads, Claims
  <2>2. (CallHolds(v) => CallHolds(v)') /\ (InLease(work[v])' => InLease(work[v]))
    BY <2>1 DEF CallHolds, InLease
  <2> QED
    BY <2>1, <2>2, ClaimKept
<1> QED
  BY <1>1, <1>2

LEMMA OtherClaims ==
    ASSUME NEW m \in Memories, TypeOK, Claims, RunStays, SameBut(m), SameHeads,
           \A v \in Workers :
              \/ ClaimHolds(v)'
              \/ work'[v] = work[v] /\ (work[v] # Idle => work[v].m # m)
    PROVE  Claims'
<1>1. ASSUME NEW v \in Workers, ~ClaimHolds(v)' PROVE FALSE
  <2>1. work[v] # Idle => work[v].m \in Memories
    BY Working
  <2> QED
    BY <1>1, <2>1, OtherClaim
<1> QED
  BY <1>1 DEF Claims

LEMMA OtherComps ==
    ASSUME NEW m \in Memories, TypeOK, Comps, RunStays, SameBut(m),
           \A p \in Procs :
              \/ CompHolds(p)'
              \/ comp'[p] = comp[p] /\ (comp[p] # NoCompensation => comp[p].m # m)
    PROVE  Comps'
<1>1. ASSUME NEW p \in Procs, ~CompHolds(p)' PROVE FALSE
  <2>1. CASE comp[p] = NoCompensation
    BY <1>1, <2>1 DEF CompHolds
  <2>2. CASE comp[p] # NoCompensation
    <3> DEFINE k == comp[p].m
    <3>1. comp[p] \in Compensating \cup {NoCompensation}
      BY DEF TypeOK
    <3>2. k \in Memories
      BY <2>2, <3>1, CompShape
    <3>3. /\ k # m /\ comp'[p] = comp[p] /\ op'[k] = op[k]
          /\ Exposed(k)' => Exposed(k)
      BY <1>1, <2>2, <3>2 DEF SameBut, SameItem, Exposed
    <3> QED
      BY <1>1, <3>3, CompKept DEF Comps
  <2> QED
    BY <2>1, <2>2
<1> QED
  BY <1>1 DEF Comps

LEMMA IdleHolds ==
    ASSUME NEW v, work'[v] = Idle
    PROVE  ClaimHolds(v)'
BY DEF ClaimHolds

LEMMA NoCompHolds ==
    ASSUME NEW p, comp'[p] = NoCompensation
    PROVE  CompHolds(p)'
BY DEF CompHolds

\* A step that leaves rows, operations and attempts alone.
Quiet == /\ row' = row /\ op' = op /\ att' = att /\ removed' = removed
         /\ SameItems /\ SameHeads /\ RunStays

LEMMA QuietMems ==
    ASSUME Mems, Quiet
    PROVE  Mems'
<1>1. ASSUME NEW m \in Memories PROVE MemHolds(m)'
  <2>1. MemHolds(m)
    BY DEF Mems
  <2> QED
    BY <2>1, ItemsStay, MemSame DEF Quiet, SameHeads
<1> QED
  BY <1>1 DEF Mems

LEMMA QuietClaim ==
    ASSUME NEW v \in Workers, TypeOK, ClaimHolds(v), Quiet, work'[v] = work[v]
    PROVE  ClaimHolds(v)'
<1>1. CASE work[v] = Idle
  BY <1>1 DEF ClaimHolds
<1>2. CASE work[v] # Idle
  <2>1. work[v].m \in Memories
    BY <1>2, Working
  <2>2. (CallHolds(v) => CallHolds(v)') /\ (InLease(work[v])' => InLease(work[v]))
    BY DEF CallHolds, InLease, Quiet
  <2> QED
    BY <2>1, <2>2, ClaimKept DEF Quiet, SameHeads
<1> QED
  BY <1>1, <1>2

LEMMA QuietClaims ==
    ASSUME TypeOK, Claims, Quiet, \A v \in Workers : work'[v] = work[v] \/ ClaimHolds(v)'
    PROVE  Claims'
BY QuietClaim DEF Claims

LEMMA QuietComps ==
    ASSUME TypeOK, Comps, Quiet, \A p \in Procs : comp'[p] = comp[p] \/ CompHolds(p)'
    PROVE  Comps'
<1>1. ASSUME NEW p \in Procs, comp'[p] = comp[p] PROVE CompHolds(p)'
  <2>1. CASE comp[p] = NoCompensation
    BY <1>1, <2>1, NoCompHolds
  <2>2. CASE comp[p] # NoCompensation
    <3>1. comp[p].m \in Memories
      BY <2>2, CompShape DEF TypeOK
    <3> QED
      BY <1>1, <3>1, ItemsStay, CompKept DEF Quiet, Comps
  <2> QED
    BY <2>1, <2>2
<1> QED
  BY <1>1 DEF Comps

\* The steps of a worker that only move it on.
LEMMA MovesOn ==
    ASSUME NEW w \in Workers, TypeOK, Claims, work[w] # Idle, Quiet,
           work'[w] # Idle, SameWork(work'[w], work[w]), work'[w].phase # "calling",
           work'[w].phase = "finishing" => work'[w].verdict # "none",
           work'[w].phase \in {"compensate", "refused"} => run'.status # "live",
           work'[w].phase \in {"claimed", "checked"} => work[w].phase \in {"claimed", "checked"}
    PROVE  ClaimHolds(w)'
<1>1. ClaimInOrder(w) /\ work[w].m \in Memories
  BY Working DEF Claims, ClaimHolds
<1> QED
  BY <1>1 DEF ClaimHolds, ClaimInOrder, SameWork, Quiet, SameHeads, RunStays

-----------------------------------------------------------------------------
(***************************************************************************)
(* Steps that leave rows, operations and attempts alone.                   *)
(***************************************************************************)
StopsOrNot == run' = run \/ (run.status = "live" /\ run' = StoppedRun)

LEMMA StopKept ==
    ASSUME TypeOK, EpochsInOrder, StopsOrNot, rb' = rb, desk' = desk
    PROVE  /\ run' \in [status : {"live", "stopping", "stopped"}, epoch : 1..3]
           /\ RunStays /\ EpochsInOrder'
<1>1. run \in [status : {"live", "stopping", "stopped"}, epoch : 1..3]
  BY DEF TypeOK
<1>2. CASE run' = run
  BY <1>1, <1>2 DEF RunStays, EpochsInOrder
<1>3. CASE run.status = "live" /\ run' = StoppedRun
  <2>1. run.epoch = 1 /\ run' = [status |-> "stopping", epoch |-> 2]
    BY <1>3 DEF EpochsInOrder, StoppedRun
  <2> QED
    BY <1>3, <2>1 DEF RunStays, EpochsInOrder
<1> QED
  BY <1>2, <1>3 DEF StopsOrNot

LEMMA FaultKept ==
    ASSUME TypeOK, Fault \/ faults' = faults
    PROVE  faults' \in 0..MaxFaults
BY CompensationAssumption DEF TypeOK, Fault

\* What a worker turns to when it only moves on.
Onward(c, d) ==
    \/ d = Idle
    \/ /\ d \in Claim /\ SameWork(d, c) /\ d.phase # "calling"
       /\ d.phase = "finishing" => d.verdict # "none"
       /\ d.phase \in {"compensate", "refused"} => run'.status # "live"
       /\ d.phase \in {"claimed", "checked"} => c.phase \in {"claimed", "checked"}

LEMMA OnwardHolds ==
    ASSUME NEW w \in Workers, TypeOK, Claims, ClaimsApart, work[w] # Idle, Quiet,
           NEW d, Onward(work[w], d), work' = [work EXCEPT ![w] = d]
    PROVE  work' \in [Workers -> Claim \cup {Idle}] /\ Claims' /\ ClaimsApart'
<1>1. work \in [Workers -> Claim \cup {Idle}] /\ d \in Claim \cup {Idle}
  BY DEF TypeOK, Onward
<1>2. /\ work' \in [Workers -> Claim \cup {Idle}]
      /\ work'[w] = d /\ \A v \in Workers : v # w => work'[v] = work[v]
  BY <1>1
<1>3. ClaimHolds(w)'
  <2>1. CASE d = Idle
    BY <1>2, <2>1, IdleHolds
  <2>2. CASE d # Idle
    BY <1>2, <2>2, MovesOn DEF Onward
  <2> QED
    BY <2>1, <2>2
<1>4. Claims'
  BY <1>2, <1>3, QuietClaims
<1>5. ASSUME NEW v \in Workers
      PROVE  work'[v] = Idle \/ (work[v] # Idle /\ SameWork(work'[v], work[v]))
  <2>1. CASE v = w
    BY <1>2, <2>1 DEF Onward
  <2>2. CASE v # w
    BY <1>2, <2>2 DEF SameWork
  <2> QED
    BY <2>1, <2>2
<1> QED
  BY <1>2, <1>4, <1>5, ApartKept

WorkOnly == /\ UNCHANGED <<overdue, head, row, del, att, op, confirmed, removed, items,
                           late, stray, comp, rb, steps, desk>>
            /\ StopsOrNot
            /\ Fault \/ faults' = faults

LEMMA WorkStep ==
    ASSUME NEW w \in Workers, TypeOK, Ordered, work[w] # Idle, WorkOnly,
           NEW d, Onward(work[w], d), work' = [work EXCEPT ![w] = d]
    PROVE  TypeOK' /\ Ordered'
<1>1. /\ run' \in [status : {"live", "stopping", "stopped"}, epoch : 1..3]
      /\ RunStays /\ EpochsInOrder'
  BY StopKept DEF WorkOnly, Ordered
<1>2. Quiet
  BY <1>1, ItemsUntouched DEF Quiet, WorkOnly, SameHeads
<1>3. work' \in [Workers -> Claim \cup {Idle}] /\ Claims' /\ ClaimsApart'
  BY <1>2, OnwardHolds DEF Ordered
<1>4. Mems' /\ Comps'
  BY <1>2, QuietMems, QuietComps DEF Ordered, WorkOnly
<1>5. TypeOK'
  <2>1. faults' \in 0..MaxFaults
    BY FaultKept DEF WorkOnly
  <2> QED
    BY <1>1, <1>3, <2>1 DEF TypeOK, WorkOnly
<1> QED
  BY <1>1, <1>3, <1>4, <1>5 DEF Ordered

Kept == kept' = kept

LEMMA PhaseOnward ==
    ASSUME NEW c \in Claim, NEW x \in Phases, x \notin {"calling", "finishing"},
           x \in {"compensate", "refused"} => run'.status # "live",
           x \in {"claimed", "checked"} => c.phase \in {"claimed", "checked"}
    PROVE  Onward(c, [c EXCEPT !.phase = x])
BY PhaseMoves DEF Onward

LEMMA VerdictOnward ==
    ASSUME NEW c \in Claim, NEW v \in {"unknown", "retry", "obsolete", "blocked"}
    PROVE  Onward(c, [c EXCEPT !.phase = "finishing", !.verdict = v])
<1>1. "finishing" \in Phases
      /\ v \in {"none", "unknown", "retry", "obsolete", "blocked"} /\ v # "none"
  BY DEF Phases
<1> DEFINE d == [c EXCEPT !.phase = "finishing", !.verdict = v]
<1>2. d \in Claim /\ d.phase = "finishing" /\ d.verdict = v /\ SameWork(d, c)
  BY <1>1 DEF Claim, SameWork, Idle
<1> QED
  BY <1>1, <1>2 DEF Onward

LEMMA SeenOnward ==
    ASSUME NEW c \in Claim, NEW b \in BOOLEAN
    PROVE  Onward(c, [c EXCEPT !.phase = "settling", !.seen = b])
<1>1. "settling" \in Phases
  BY DEF Phases
<1> QED
  BY <1>1, SeenMoves DEF Onward

LEMMA CheckHeadStep ==
    ASSUME TypeOK, Ordered, Kept, NEW w \in Workers, CheckHead(w)
    PROVE  TypeOK' /\ Ordered'
<1> DEFINE c == work[w]
<1>1. c # Idle /\ c \in Claim /\ c.phase = "claimed" /\ WorkOnly
  BY Working DEF CheckHead, WorkOnly, Kept, kept, StopsOrNot
<1>2. PICK d : work' = [work EXCEPT ![w] = d] /\ Onward(c, d)
  <2>1. Onward(c, [c EXCEPT !.phase = "checked"])
    BY <1>1, PhaseOnward DEF Phases
  <2>2. Onward(c, [c EXCEPT !.phase = "finishing", !.verdict = "obsolete"])
    BY <1>1, VerdictOnward
  <2> QED
    BY <2>1, <2>2 DEF CheckHead, Move, Conclude
<1> QED
  BY <1>1, <1>2, WorkStep

LEMMA FencedCallStep ==
    ASSUME TypeOK, Ordered, Kept, NEW w \in Workers, FencedCall(w)
    PROVE  TypeOK' /\ Ordered'
<1> DEFINE c == work[w]
<1>1. c # Idle /\ c \in Claim /\ WorkOnly
  BY Working DEF FencedCall, WorkOnly, Kept, kept, StopsOrNot
<1>2. PICK d : work' = [work EXCEPT ![w] = d] /\ Onward(c, d)
  BY <1>1, VerdictOnward DEF FencedCall, Move, Conclude
<1> QED
  BY <1>1, <1>2, WorkStep

LEMMA LocateStep ==
    ASSUME TypeOK, Ordered, Kept, NEW w \in Workers, Locate(w)
    PROVE  TypeOK' /\ Ordered'
<1> DEFINE c == work[w]
<1>1. c # Idle /\ c \in Claim /\ WorkOnly
  BY Working DEF Locate, WorkOnly, Kept, kept, StopsOrNot
<1>2. PICK d : work' = [work EXCEPT ![w] = d] /\ Onward(c, d)
  <2>1. Onward(c, [c EXCEPT !.phase = "returned"])
    BY <1>1, PhaseOnward DEF Phases
  <2> QED
    BY <1>1, <2>1, VerdictOnward DEF Locate, Move, Conclude
<1> QED
  BY <1>1, <1>2, WorkStep

LEMMA LookupFailsStep ==
    ASSUME TypeOK, Ordered, Kept, NEW w \in Workers, LookupFails(w)
    PROVE  TypeOK' /\ Ordered'
<1> DEFINE c == work[w]
<1>1. c # Idle /\ c \in Claim /\ WorkOnly
  <2>1. c.phase # "idle"
    BY DEF LookupFails
  <2> QED
    BY <2>1, Working DEF LookupFails, WorkOnly, Kept, kept, StopsOrNot
<1>2. PICK d : work' = [work EXCEPT ![w] = d] /\ Onward(c, d)
  BY <1>1, VerdictOnward DEF LookupFails, Move, Conclude
<1> QED
  BY <1>1, <1>2, WorkStep

LEMMA CheckRunStep ==
    ASSUME TypeOK, Ordered, Kept, NEW w \in Workers, CheckRun(w)
    PROVE  TypeOK' /\ Ordered'
<1> DEFINE c == work[w]
<1>1. c # Idle /\ c \in Claim /\ WorkOnly
  BY Working DEF CheckRun, WorkOnly, Kept, kept, StopsOrNot
<1>2. PICK d : work' = [work EXCEPT ![w] = d] /\ Onward(c, d)
  <2>1. CASE ~Authorized(c) \/ overdue
    <3>1. run'.status # "live"
      <4>1. ClaimInOrder(w)
        BY <1>1 DEF Ordered, Claims, ClaimHolds
      <4> QED
        BY <2>1, <4>1 DEF CheckRun, Authorized, StoppedRun, ClaimInOrder, Ordered, EpochsInOrder
    <3>2. Onward(c, [c EXCEPT !.phase = "compensate"])
      BY <1>1, <3>1, PhaseOnward DEF Phases
    <3> QED
      BY <2>1, <3>2 DEF CheckRun, Move
  <2>2. CASE ~(~Authorized(c) \/ overdue)
    <3>1. Onward(c, [c EXCEPT !.phase = "inspecting"]) /\ Onward(c, Idle)
      BY <1>1, PhaseOnward DEF Phases, Onward
    <3> QED
      BY <2>2, <3>1 DEF CheckRun, Move, Leave
  <2> QED
    BY <2>1, <2>2
<1> QED
  BY <1>1, <1>2, WorkStep

LEMMA InspectStep ==
    ASSUME TypeOK, Ordered, Kept, NEW w \in Workers, Inspect(w)
    PROVE  TypeOK' /\ Ordered'
<1> DEFINE c == work[w]
<1>1. c # Idle /\ c \in Claim /\ WorkOnly
  BY Working DEF Inspect, WorkOnly, Kept, kept, StopsOrNot
<1>2. PICK d : work' = [work EXCEPT ![w] = d] /\ Onward(c, d)
  <2>1. Onward(c, [c EXCEPT !.phase = "settling", !.seen = (c.m \in items)])
    <3>1. (c.m \in items) \in BOOLEAN
      OBVIOUS
    <3> QED
      BY <1>1, <3>1, SeenOnward
  <2> QED
    BY <2>1 DEF Inspect, Move
<1> QED
  BY <1>1, <1>2, WorkStep

LEMMA StillOrdered ==
    ASSUME TypeOK, Ordered, Quiet, work' = work, EpochsInOrder',
           \A p \in Procs : comp'[p] = comp[p] \/ comp'[p] = NoCompensation
    PROVE  Ordered'
<1>1. Mems' /\ Claims'
  BY QuietMems, QuietClaims DEF Ordered
<1>2. Comps'
  BY QuietComps, NoCompHolds DEF Ordered
<1>3. ClaimsApart'
  BY DEF Ordered, ClaimsApart
<1> QED
  BY <1>1, <1>2, <1>3 DEF Ordered

LEMMA StopStep ==
    ASSUME TypeOK, Ordered, Kept, Stop \/ DeadlinePasses
    PROVE  TypeOK' /\ Ordered'
<1>1. /\ UNCHANGED <<head, row, del, att, op, confirmed, removed, items, late, stray, work,
                     comp, rb, faults, steps, desk>>
      /\ StopsOrNot /\ overdue' \in BOOLEAN
  BY DEF Stop, DeadlinePasses, Kept, kept, StopsOrNot, TypeOK
<1>2. /\ run' \in [status : {"live", "stopping", "stopped"}, epoch : 1..3]
      /\ RunStays /\ EpochsInOrder'
  BY <1>1, StopKept DEF Ordered
<1>3. Quiet
  BY <1>1, <1>2, ItemsUntouched DEF Quiet, SameHeads
<1> QED
  BY <1>1, <1>2, <1>3, StillOrdered DEF TypeOK

LEMMA UserStep ==
    ASSUME TypeOK, Ordered, Kept, NEW m \in Memories, UserChanges(m) \/ UserForgets(m)
    PROVE  TypeOK' /\ Ordered'
<1>1. /\ UNCHANGED <<run, overdue, row, att, op, confirmed, removed, items, late, stray, work,
                     comp, rb, faults, steps, desk>>
      /\ head[m] = "active"
      /\ \E x \in {"changed", "deleted"} : head' = [head EXCEPT ![m] = x]
      /\ del' = del \/ del' = [del EXCEPT ![m] = Queued(@)]
  BY DEF UserChanges, UserForgets, Kept, kept
<1>2. head' \in [Memories -> {"none", "active", "changed", "deleted"}] /\ SameHeads
  BY <1>1 DEF TypeOK, SameHeads
<1>3. del' \in [Memories -> {"absent", "pending", "compensated"}]
  BY <1>1 DEF TypeOK, Queued
<1>4. Quiet /\ EpochsInOrder'
  BY <1>1, <1>2, ItemsUntouched DEF Quiet, RunStays, Ordered, EpochsInOrder
<1> QED
  BY <1>1, <1>2, <1>3, <1>4, StillOrdered DEF TypeOK

-----------------------------------------------------------------------------
(***************************************************************************)
(* Steps that leave the claims alone: commits and compensations.           *)
(***************************************************************************)
LEMMA ClaimsSame ==
    ASSUME ClaimsApart, work' = work
    PROVE  ClaimsApart'
BY DEF ClaimsApart

LEMMA EpochsSame ==
    ASSUME EpochsInOrder, run' = run, rb' = rb, desk' = desk
    PROVE  EpochsInOrder' /\ RunStays
BY DEF EpochsInOrder, RunStays

LEMMA NoClaimBefore ==
    ASSUME TypeOK, Claims, NEW v \in Workers, NEW m \in Memories, head[m] = "none"
    PROVE  work[v] # Idle => work[v].m # m
BY DEF Claims, ClaimHolds, ClaimInOrder, InLease

LEMMA ReviewedCommitStep ==
    ASSUME TypeOK, Ordered, Kept, NEW m \in Memories, ReviewedCommit(m)
    PROVE  TypeOK' /\ Ordered'
<1>1. /\ UNCHANGED <<run, overdue, del, att, op, confirmed, removed, items, late, stray, work,
                     comp, rb, faults, steps, desk>>
      /\ head[m] = "none" /\ run.status = "live"
      /\ head' = [head EXCEPT ![m] = "active"]
      /\ row' = [row EXCEPT ![m].status = "pending"]
  BY DEF ReviewedCommit, Kept, kept
<1>2. EpochsInOrder' /\ RunStays
  BY <1>1, EpochsSame DEF Ordered
<1>3. row \in [Memories -> Row] /\ MemHolds(m)
  BY <1>1 DEF TypeOK, Ordered, Mems, MemHolds, RowInOrder, Exposed
<1>4. /\ row' \in [Memories -> Row] /\ \A k \in Memories : k # m => row'[k] = row[k]
      /\ row'[m].status = "pending" /\ row'[m].attempts = row[m].attempts
      /\ row'[m].lease = row[m].lease
  <2>1. PICK s : s = [row[m] EXCEPT !.status = "pending"]
    OBVIOUS
  <2>2. s \in Row /\ s.status = "pending" /\ s.attempts = row[m].attempts /\ s.lease = row[m].lease
    <3>1. row[m] \in Row /\ "pending" \in RowStatuses
      BY <1>3 DEF RowStatuses
    <3>2. /\ [row[m] EXCEPT !.status = "pending"] \in Row
          /\ [row[m] EXCEPT !.status = "pending"].status = "pending"
          /\ [row[m] EXCEPT !.status = "pending"].attempts = row[m].attempts
          /\ [row[m] EXCEPT !.status = "pending"].lease = row[m].lease
      BY <3>1 DEF Row
    <3> QED
      BY <2>1, <3>2
  <2> QED
    BY <1>1, <1>3, <2>1, <2>2
<1>5. SameBut(m)
  BY <1>1, <1>4, ItemsUntouched DEF SameBut
<1>6. head' \in [Memories -> {"none", "active", "changed", "deleted"}] /\ head'[m] = "active"
      /\ \A k \in Memories : k # m => head'[k] = head[k]
  BY <1>1 DEF TypeOK
<1>7. MemHolds(m)'
  BY <1>1, <1>3, <1>4, <1>6 DEF MemHolds, RowInOrder, Exposed, Finished
<1>8. Mems'
  <2>1. ASSUME NEW k \in Memories, k # m PROVE MemHolds(k)'
    BY <1>1, <1>2, <1>4, <1>6, <2>1, MemSame, ItemsUntouched DEF Ordered, Mems
  <2> QED
    BY <1>7, <2>1 DEF Mems
<1>9. Claims'
  <2>1. ASSUME NEW v \in Workers, work[v] # Idle PROVE ClaimHolds(v)'
    <3> DEFINE k == work[v].m
    <3>1. k \in Memories /\ k # m
      BY <1>1, <2>1, Working, NoClaimBefore DEF Ordered
    <3>2. ClaimInOrder(v) /\ row'[k] = row[k] /\ head'[k] = head[k]
      BY <1>4, <1>6, <2>1, <3>1 DEF Ordered, Claims, ClaimHolds
    <3> QED
      BY <1>1, <3>2 DEF ClaimHolds, ClaimInOrder, InLease, CallHolds
  <2> QED
    BY <1>1, <2>1 DEF Claims, ClaimHolds
<1>10. Comps' /\ ClaimsApart'
  BY <1>1, ClaimsSame DEF Ordered, Comps, CompHolds, CompensationHolds
<1>11. TypeOK'
  BY <1>1, <1>4, <1>6 DEF TypeOK
<1> QED
  BY <1>2, <1>8, <1>9, <1>10, <1>11 DEF Ordered

\* What a process that compensates may remove, and what it then reports.
LEMMA Removal ==
    ASSUME TypeOK, Ordered, Kept, NEW p \in Procs, comp[p].status = "none", NEW m \in Memories,
           m = comp[p].m, Erased(m) \/ UNCHANGED <<items, stray>>,
           NEW d \in Compensating, comp' = [comp EXCEPT ![p] = d], d.m = m,
           d.status = "compensated" => m \notin items',
           UNCHANGED <<run, overdue, head, row, del, att, op, confirmed, removed, late, work, rb>>,
           faults' \in 0..MaxFaults
    PROVE  TypeOK' /\ Ordered'
<1>1. UNCHANGED <<steps, desk>>
  BY DEF Kept, kept
<1>2. EpochsInOrder' /\ RunStays
  BY <1>1, EpochsSame DEF Ordered
<1>3. comp \in [Procs -> Compensating \cup {NoCompensation}]
  BY DEF TypeOK
<1>4. comp[p] # NoCompensation
  BY <1>3, CompShape
<1>5. /\ comp' \in [Procs -> Compensating \cup {NoCompensation}] /\ comp'[p] = d
      /\ \A q \in Procs : q # p => comp'[q] = comp[q]
  BY <1>3
<1>6. /\ items' \subseteq Memories /\ stray' \in [Memories -> {"no", "new", "old"}]
      /\ \A l \in Memories : /\ l \in items' => l \in items
                             /\ l # m => SameItem(l)
                             /\ Exposed(l)' => Exposed(l)
                             /\ NothingSent(l)
                             /\ (stray[l] # "no" => l \in items) => (stray'[l] # "no" => l \in items')
  <2>1. items \subseteq Memories /\ stray \in [Memories -> {"no", "new", "old"}]
    BY DEF TypeOK
  <2>2. CASE Erased(m)
    <3>1. /\ items' = items \ {m} /\ stray' = [stray EXCEPT ![m] = "no"]
      BY <2>2 DEF Erased
    <3> QED
      BY <2>1, <3>1 DEF SameItem, NothingSent, Exposed
  <2>3. CASE UNCHANGED <<items, stray>>
    BY <2>1, <2>3 DEF SameItem, NothingSent, Exposed
  <2> QED
    BY <2>2, <2>3
<1>7. Mems'
  <2>1. ASSUME NEW l \in Memories PROVE MemHolds(l)'
    <3>1. MemHolds(l)
      BY DEF Ordered, Mems
    <3>2. stray'[l] # "no" => l \in items'
      BY <1>6, <3>1 DEF MemHolds, RowInOrder
    <3> QED
      BY <1>2, <1>6, <3>1, <3>2, MemKept
  <2> QED
    BY <2>1 DEF Mems
<1>8. Claims'
  BY DEF Ordered, Claims, ClaimHolds, ClaimInOrder, InLease, CallHolds
<1>9. Comps'
  <2>1. CompHolds(p)'
    <3>1. run.status # "live"
      BY <1>4 DEF Ordered, Comps, CompHolds, CompensationHolds
    <3> QED
      BY <1>5, <3>1 DEF CompHolds, CompensationHolds
  <2>2. ASSUME NEW q \in Procs, q # p PROVE CompHolds(q)'
    <3>1. CASE comp[q] = NoCompensation
      BY <1>5, <2>2, <3>1, NoCompHolds
    <3>2. CASE comp[q] # NoCompensation
      <4>1. comp[q].m \in Memories /\ CompHolds(q)
        BY <1>3, <3>2, CompShape DEF Ordered, Comps
      <4> QED
        BY <1>2, <1>5, <1>6, <2>2, <4>1, CompKept
    <3> QED
      BY <3>1, <3>2
  <2> QED
    BY <2>1, <2>2 DEF Comps
<1>10. TypeOK'
  BY <1>5, <1>6 DEF TypeOK
<1> QED
  BY <1>2, <1>7, <1>8, <1>9, <1>10, ClaimsSame DEF Ordered

LEMMA CompRemoteStep ==
    ASSUME TypeOK, Ordered, Kept, NEW p \in Procs, CompRemote(p)
    PROVE  TypeOK' /\ Ordered'
<1> DEFINE k == comp[p]
<1>1. /\ UNCHANGED <<run, overdue, head, row, del, att, op, confirmed, removed, late, work,
                     rb, faults>>
      /\ k.status = "none"
  BY DEF CompRemote
<1>2. k \in Compensating /\ k.m \in Memories
  BY <1>1, CompShape DEF TypeOK
<1>3. PICK m \in Memories : m = k.m
  BY <1>2
<1>4. faults' \in 0..MaxFaults
  BY <1>1 DEF TypeOK
<1>5. CASE m \in items /\ k.digest = "erased"
  <2>1. PICK d : d = [k EXCEPT !.status = "cleanup_required"]
    OBVIOUS
  <2>2. d \in Compensating /\ d.m = m /\ d.status = "cleanup_required"
    BY <1>2, <1>3, <2>1 DEF Compensating
  <2>3. comp' = [comp EXCEPT ![p] = d] /\ UNCHANGED <<items, stray>>
    BY <1>3, <1>5, <2>1 DEF CompRemote
  <2> QED
    BY <1>1, <1>3, <1>4, <2>2, <2>3, Removal
<1>6. CASE ~(m \in items /\ k.digest = "erased")
  <2>1. PICK d : d = [k EXCEPT !.status = "compensated", !.locator = @ \/ m \in items]
    OBVIOUS
  <2>2. (k.locator \/ m \in items) \in BOOLEAN
    OBVIOUS
  <2>3. d \in Compensating /\ d.m = m
    BY <1>2, <1>3, <2>1, <2>2 DEF Compensating
  <2>4. comp' = [comp EXCEPT ![p] = d] /\ Erased(m)
    <3>1. comp' = [comp EXCEPT ![p] = [k EXCEPT !.status = "compensated",
                                                !.locator = @ \/ m \in items]]
      BY <1>3, <1>6 DEF CompRemote, TypeOK
    <3> QED
      BY <1>3, <1>6, <2>1, <3>1 DEF CompRemote
  <2>5. m \notin items'
    BY <2>4 DEF Erased
  <2> QED
    BY <1>1, <1>3, <1>4, <2>3, <2>4, <2>5, Removal
<1> QED
  BY <1>5, <1>6

LEMMA CompFailsStep ==
    ASSUME TypeOK, Ordered, Kept, NEW p \in Procs, CompFails(p)
    PROVE  TypeOK' /\ Ordered'
<1> DEFINE k == comp[p]
<1>1. /\ UNCHANGED <<run, overdue, head, row, del, att, op, confirmed, removed, late, work, rb>>
      /\ k.status = "none" /\ Fault
      /\ Erased(k.m) \/ UNCHANGED <<items, stray>>
  BY DEF CompFails
<1>2. k \in Compensating /\ k.m \in Memories
  BY <1>1, CompShape DEF TypeOK
<1>3. PICK m \in Memories : m = k.m
  BY <1>2
<1>4. PICK d : d = [k EXCEPT !.status = "cleanup_required"]
  OBVIOUS
<1>5. d \in Compensating /\ d.m = m /\ d.status = "cleanup_required"
  BY <1>2, <1>3, <1>4 DEF Compensating
<1>6. comp' = [comp EXCEPT ![p] = d]
  BY <1>4 DEF CompFails
<1>7. faults' \in 0..MaxFaults
  BY <1>1, FaultKept
<1> QED
  BY <1>1, <1>3, <1>5, <1>6, <1>7, Removal

-----------------------------------------------------------------------------
(***************************************************************************)
(* Steps of a worker that holds a claim.                                   *)
(***************************************************************************)
\* While a call in time is under way, no other worker owns the row of its memory
\* or is calling for it in time.
LEMMA AloneOnCall ==
    ASSUME ClaimsApart, Claims, NEW v \in Workers, NEW w \in Workers, TypeOK,
           work[v] # Idle, work[w] # Idle, work[v].m = work[w].m, v # w,
           work[v].phase = "calling", InLease(work[v])
    PROVE  /\ CallHolds(v) /\ ~Owns(work[w])
           /\ work[w].n # work[v].n /\ work[w].n < row[work[w].m].attempts
           /\ ~(work[w].phase = "calling" /\ InLease(work[w]))
<1>1. ClaimInOrder(v) /\ ClaimInOrder(w) /\ work[w].n # work[v].n
  BY DEF Claims, ClaimHolds, ClaimsApart
<1>2. /\ work[w].n \in Nat /\ row[work[w].m].attempts \in Nat
      /\ work[w].m \in Memories
  <2>1. work[w].m \in Memories /\ work[w].n \in 1..MaxAttempts
    BY Working
  <2>2. row[work[w].m] \in Row
    BY <2>1 DEF TypeOK
  <2> QED
    BY <2>1, <2>2, CompensationAssumption DEF Row
<1> QED
  BY <1>1, <1>2 DEF ClaimInOrder, CallHolds, Owns

LEMMA LeaseKept ==
    ASSUME NEW v, NEW m, m = work[v].m, work'[v] = work[v],
           op'[m].live => op[m].live, op'[m].token = op[m].token
    PROVE  InLease(work[v])' => InLease(work[v])
BY DEF InLease

\* A worker that moves on and the others that stay where they were.
LEMMA OneMoves ==
    ASSUME NEW w \in Workers, TypeOK, ClaimsApart, work[w] # Idle,
           NEW d \in Claim \cup {Idle}, d = Idle \/ SameWork(d, work[w]),
           work' = [work EXCEPT ![w] = d]
    PROVE  /\ work' \in [Workers -> Claim \cup {Idle}] /\ ClaimsApart' /\ work'[w] = d
           /\ \A v \in Workers : v # w => work'[v] = work[v]
<1>1. /\ work' \in [Workers -> Claim \cup {Idle}] /\ work'[w] = d
      /\ \A v \in Workers : v # w => work'[v] = work[v]
  BY DEF TypeOK
<1>2. ASSUME NEW v \in Workers
      PROVE  work'[v] = Idle \/ (work[v] # Idle /\ SameWork(work'[v], work[v]))
  <2>1. CASE v = w
    BY <1>1, <2>1
  <2>2. CASE v # w
    BY <1>1, <2>2 DEF SameWork
  <2> QED
    BY <2>1, <2>2
<1> QED
  BY <1>1, <1>2, ApartKept

\* What the tables hold of a memory.
LEMMA Holdings ==
    ASSUME TypeOK, NEW m \in Memories
    PROVE  /\ row[m] \in Row /\ row[m].attempts \in 0..MaxAttempts
           /\ row[m].lease \in {"none", "live", "expired"} /\ row[m].status \in RowStatuses
           /\ op[m] \in Op /\ op[m].token \in 0..MaxAttempts /\ op[m].state \in OpStates
           /\ op[m].comp \in Procs \cup {NoProc} /\ op[m].live \in BOOLEAN
           /\ att[m] \in [1..MaxAttempts -> Attempt]
           /\ \A n \in 1..MaxAttempts : att[m][n].started \in BOOLEAN /\ att[m][n].finished \in BOOLEAN
<1>1. row[m] \in Row /\ op[m] \in Op /\ att[m] \in [1..MaxAttempts -> Attempt]
  BY DEF TypeOK
<1> QED
  BY <1>1 DEF Row, Op, Attempt

\* A write that arrives: nothing new is exposed where a compensation has been,
\* or is under way, since a call within its lease keeps them off.
Landing(m) ==
    /\ items \subseteq items' /\ items' \subseteq items \cup {m}
    /\ late' \subseteq Memories \X (1..MaxAttempts)
    /\ stray' \in [Memories -> {"no", "new", "old"}]
    /\ \A k \in Memories \ {m} : SameItem(k)
    /\ Exposed(m)' => Exposed(m) \/ Unremoved(m)
    /\ (stray[m] # "no" => m \in items) => (stray'[m] # "no" => m \in items')

LEMMA WrittenLands ==
    ASSUME TypeOK, NEW m \in Memories, NEW b \in BOOLEAN, Written(m, b), b \/ Unremoved(m),
           NEW n \in 1..MaxAttempts, late' = late \/ late' = late \ {<<m, n>>}
    PROVE  Landing(m)
<1>1. items' = items \cup {m} /\ late' \subseteq late
  BY DEF Written
<1>2. \/ stray' = stray
      \/ stray' = [stray EXCEPT ![m] = "new"]
  BY DEF Written
<1>3. stray \in [Memories -> {"no", "new", "old"}] /\ late \subseteq Memories \X (1..MaxAttempts)
  BY DEF TypeOK
<1>4. stray' \in [Memories -> {"no", "new", "old"}]
      /\ \A k \in Memories \ {m} : stray'[k] = stray[k]
  BY <1>2, <1>3
<1>5. \A k \in Memories \ {m} : SameItem(k)
  BY <1>1, <1>4 DEF SameItem, NothingSent
<1>6. Exposed(m)' => Exposed(m) \/ Unremoved(m)
  <2>1. SUFFICES ASSUME stray'[m] = "no", ~Unremoved(m) PROVE Exposed(m)
    BY DEF Exposed
  <2>2. stray' = stray /\ m \in items
    BY <1>3, <2>1 DEF Written
  <2> QED
    BY <2>1, <2>2 DEF Exposed
<1> QED
  BY <1>1, <1>3, <1>4, <1>5, <1>6 DEF Landing

LEMMA SentLands ==
    ASSUME TypeOK, NEW m \in Memories, NEW n \in 1..MaxAttempts, UNCHANGED <<items, stray>>,
           late' = late \/ late' = late \cup {<<m, n>>}
    PROVE  Landing(m)
<1>1. /\ late \subseteq Memories \X (1..MaxAttempts)
      /\ stray \in [Memories -> {"no", "new", "old"}]
  BY DEF TypeOK
<1>2. \A k \in Memories \ {m} : SameItem(k)
  BY DEF SameItem, NothingSent
<1> QED
  BY <1>1, <1>2 DEF Landing, Exposed

LEMMA LandingKeeps ==
    ASSUME TypeOK, Ordered, Kept, NEW m \in Memories, Landing(m), head[m] # "none",
           UNCHANGED <<run, overdue, head, row, del, att, op, confirmed, removed, rb>>,
           work' \in [Workers -> Claim \cup {Idle}], ClaimsApart', faults' \in 0..MaxFaults,
           \A v \in Workers : work'[v] = work[v] \/ ClaimHolds(v)',
           comp' \in [Procs -> Compensating \cup {NoCompensation}],
           \A p \in Procs : comp'[p] = comp[p] \/ comp'[p] = NoCompensation
    PROVE  TypeOK' /\ Ordered'
<1>1. EpochsInOrder' /\ RunStays
  BY EpochsSame DEF Ordered, Kept, kept
<1>2. SameBut(m) /\ SameHeads
  BY DEF SameBut, SameHeads, Landing
<1>3. MemHolds(m)'
  <2>1. MemHolds(m)
    BY DEF Ordered, Mems
  <2>2. op[m].state = "compensated" => ~Exposed(m)'
    BY <2>1 DEF MemHolds, Landing, Unremoved
  <2>3. stray'[m] # "no" => m \in items'
    BY <2>1 DEF MemHolds, RowInOrder, Landing
  <2> QED
    BY <2>1, <2>2, <2>3 DEF MemHolds, RowInOrder
<1>4. Mems'
  BY <1>1, <1>2, <1>3, OtherMems DEF Ordered
<1>5. Claims'
  BY DEF Ordered, Claims, ClaimHolds, ClaimInOrder, InLease, CallHolds
<1>6. ASSUME NEW p \in Procs, comp[p] # NoCompensation, comp'[p] = comp[p] PROVE CompHolds(p)'
  <2>1. CompensationHolds(p) /\ comp[p].m \in Memories
    BY <1>6, CompShape DEF Ordered, Comps, CompHolds, TypeOK
  <2>2. CASE comp[p].m = m
    <3>1. op[m].comp = p => ~Unremoved(m)
      BY CompensationAssumption DEF Unremoved, Procs
    <3>2. comp[p].status = "compensated" /\ op[m].comp = p => ~Exposed(m)'
      BY <2>1, <2>2, <3>1 DEF CompensationHolds, Landing, Exposed
    <3> QED
      BY <1>6, <2>1, <2>2, <3>2 DEF CompHolds, CompensationHolds, Exposed
  <2>3. CASE comp[p].m # m
    <3>1. SameItem(comp[p].m)
      BY <2>1, <2>3 DEF Landing
    <3> QED
      BY <1>6, <2>1, <3>1 DEF CompHolds, CompensationHolds, SameItem
  <2> QED
    BY <2>2, <2>3
<1>7. Comps'
  BY <1>6, NoCompHolds DEF Comps, CompHolds
<1>8. TypeOK'
  BY DEF TypeOK, Landing
<1> QED
  BY <1>1, <1>4, <1>5, <1>7, <1>8 DEF Ordered

\* A request ends, with or without an answer, its caller alive or not.
LEMMA CallEnds ==
    ASSUME TypeOK, Ordered, Kept, NEW w \in Workers, work[w] # Idle,
           NEW d, Onward(work[w], d), work' = [work EXCEPT ![w] = d], Landing(work[w].m),
           UNCHANGED <<run, overdue, head, row, del, att, op, confirmed, removed, rb>>,
           faults' \in 0..MaxFaults, comp' \in [Procs -> Compensating \cup {NoCompensation}],
           \A p \in Procs : comp'[p] = comp[p] \/ comp'[p] = NoCompensation
    PROVE  TypeOK' /\ Ordered'
<1> DEFINE c == work[w]
<1>0. PICK m \in Memories : m = work[w].m
  BY Working
<1>1. c # Idle /\ c \in Claim /\ ClaimInOrder(w)
  BY Working DEF Ordered, Claims, ClaimHolds
<1>3. d \in Claim \cup {Idle} /\ (d = Idle \/ (d # Idle /\ SameWork(d, c)))
  BY ClaimShape DEF Onward, SameWork
<1>4. /\ work' \in [Workers -> Claim \cup {Idle}] /\ ClaimsApart' /\ work'[w] = d
      /\ \A v \in Workers : v # w => work'[v] = work[v]
  BY <1>1, <1>3, OneMoves DEF Ordered
<1>5. ClaimHolds(w)'
  <2>1. CASE d = Idle
    BY <1>4, <2>1, IdleHolds
  <2>2. CASE d # Idle
    BY <1>1, <1>4, <2>2 DEF ClaimHolds, ClaimInOrder, SameWork, Onward
  <2> QED
    BY <2>1, <2>2
<1>6. head[m] # "none"
  BY <1>0, <1>1 DEF ClaimInOrder
<1>7. Landing(m)
  BY <1>0
<1> QED
  BY <1>4, <1>5, <1>6, <1>7, LandingKeeps

\* A call within its lease writes where nothing has been removed.
LEMMA CallWrites ==
    ASSUME TypeOK, Ordered, NEW w \in Workers, work[w] # Idle, work[w].phase = "calling",
           Written(work[w].m, ~InLease(work[w])), late' = late
    PROVE  Landing(work[w].m)
<1>1. PICK m \in Memories : m = work[w].m
  BY Working
<1>2. PICK n \in 1..MaxAttempts : n = work[w].n
  BY Working
<1>3. InLease(work[w]) \in BOOLEAN
  BY <1>1, Holdings DEF InLease
<1>4. InLease(work[w]) => Unremoved(m)
  BY <1>1 DEF Ordered, Claims, ClaimHolds, ClaimInOrder, CallHolds, Unremoved
<1>5. PICK b \in BOOLEAN : b = ~InLease(work[w])
  OBVIOUS
<1>6. Written(m, b) /\ (b \/ Unremoved(m))
  BY <1>1, <1>4, <1>5
<1>7. Landing(m)
  BY <1>2, <1>6, WrittenLands
<1> QED
  BY <1>1, <1>7

LEMMA UnansweredLands ==
    ASSUME TypeOK, Ordered, NEW w \in Workers, work[w] # Idle,
           \/ UNCHANGED <<items, late, stray>>
           \/ work[w].phase = "calling" /\ Unanswered(work[w])
    PROVE  Landing(work[w].m)
<1>1. work[w].m \in Memories /\ work[w].n \in 1..MaxAttempts
  BY Working
<1>2. CASE work[w].phase = "calling" /\ Written(work[w].m, ~InLease(work[w])) /\ late' = late
  BY <1>2, CallWrites
<1>3. CASE UNCHANGED <<items, late, stray>> \/ (late' = late \cup {<<work[w].m, work[w].n>>}
                                                /\ UNCHANGED <<items, stray>>)
  BY <1>1, <1>3, SentLands
<1> QED
  BY <1>2, <1>3 DEF Unanswered

LEMMA MaterializeStep ==
    ASSUME TypeOK, Ordered, Kept, NEW w \in Workers, Materialize(w)
    PROVE  TypeOK' /\ Ordered'
<1> DEFINE c == work[w]
<1>1. /\ UNCHANGED <<run, overdue, head, row, del, att, op, confirmed, removed, late, comp,
                     rb, faults>>
      /\ c.phase = "calling" /\ Written(c.m, ~InLease(c))
      /\ work' = [work EXCEPT ![w] = [c EXCEPT !.phase = "returned"]]
  BY DEF Materialize, Move
<1>2. c # Idle /\ c \in Claim
  BY <1>1, Working
<1>3. Landing(c.m)
  BY <1>1, <1>2, CallWrites
<1>4. Onward(c, [c EXCEPT !.phase = "returned"])
  BY <1>2, PhaseOnward DEF Phases
<1>5. PICK d : d = [c EXCEPT !.phase = "returned"]
  OBVIOUS
<1>6. Onward(c, d) /\ work' = [work EXCEPT ![w] = d]
  BY <1>1, <1>4, <1>5
<1>7. faults' \in 0..MaxFaults /\ comp' = comp
      /\ comp' \in [Procs -> Compensating \cup {NoCompensation}]
  BY <1>1 DEF TypeOK
<1> QED
  BY <1>1, <1>2, <1>3, <1>6, <1>7, CallEnds

LEMMA CallFailsStep ==
    ASSUME TypeOK, Ordered, Kept, NEW w \in Workers, CallFails(w)
    PROVE  TypeOK' /\ Ordered'
<1> DEFINE c == work[w]
<1>1. /\ c.phase = "calling" /\ Fault
      /\ UNCHANGED <<items, late, stray>> \/ Unanswered(c)
      /\ UNCHANGED <<run, overdue, head, row, del, att, op, confirmed, removed, comp, rb>>
  BY DEF CallFails
<1>2. c # Idle /\ c \in Claim
  BY <1>1, Working
<1>3. PICK v \in {"unknown", "retry", "blocked"} : Conclude(w, c, v)
  BY DEF CallFails
<1>4. PICK d : d = [c EXCEPT !.phase = "finishing", !.verdict = v]
  OBVIOUS
<1>5. Onward(c, d) /\ work' = [work EXCEPT ![w] = d]
  BY <1>2, <1>3, <1>4, VerdictOnward DEF Conclude, Move
<1>6. comp' = comp /\ comp' \in [Procs -> Compensating \cup {NoCompensation}]
      /\ faults' \in 0..MaxFaults
  BY <1>1, FaultKept DEF TypeOK
<1>7. Landing(c.m)
  BY <1>1, <1>2, UnansweredLands
<1> QED
  BY <1>1, <1>2, <1>5, <1>6, <1>7, CallEnds

LEMMA CrashStep ==
    ASSUME TypeOK, Ordered, Kept, NEW w \in Workers, Crash(w)
    PROVE  TypeOK' /\ Ordered'
<1> DEFINE c == work[w]
<1>1. c # Idle /\ Onward(c, Idle) /\ work' = [work EXCEPT ![w] = Idle]
  BY DEF Crash, Leave, Move, Onward
<1>2. Landing(c.m)
  <2>1. \/ UNCHANGED <<items, late, stray>>
        \/ c.phase = "calling" /\ Unanswered(c)
    BY DEF Crash
  <2> QED
    BY <1>1, <2>1, UnansweredLands
<1>3. /\ comp' \in [Procs -> Compensating \cup {NoCompensation}]
      /\ \A p \in Procs : comp'[p] = comp[p] \/ comp'[p] = NoCompensation
  BY DEF Crash, TypeOK
<1>4. /\ UNCHANGED <<run, overdue, head, row, del, att, op, confirmed, removed, rb>>
      /\ faults' \in 0..MaxFaults
  BY FaultKept DEF Crash
<1> QED
  BY <1>1, <1>2, <1>3, <1>4, CallEnds

\* The write of a caller that is gone arrives, whoever compensates meanwhile.
LEMMA LateWriteLandsStep ==
    ASSUME TypeOK, Ordered, Kept, NEW m \in Memories, LateWriteLands(m)
    PROVE  TypeOK' /\ Ordered'
<1>1. PICK n \in 1..MaxAttempts : <<m, n>> \in late /\ late' = late \ {<<m, n>>}
  BY DEF LateWriteLands
<1>2. /\ Written(m, TRUE)
      /\ UNCHANGED <<run, overdue, head, row, del, att, op, confirmed, removed, work, comp, rb,
                     faults>>
  BY DEF LateWriteLands
<1>3. Landing(m)
  BY <1>1, <1>2, WrittenLands
<1>4. head[m] # "none"
  BY <1>1 DEF Ordered, Mems, MemHolds, RowInOrder
<1>5. /\ work' \in [Workers -> Claim \cup {Idle}] /\ ClaimsApart' /\ faults' \in 0..MaxFaults
      /\ comp' = comp /\ comp' \in [Procs -> Compensating \cup {NoCompensation}]
  BY <1>2, ClaimsSame DEF TypeOK, Ordered
<1> QED
  BY <1>2, <1>3, <1>4, <1>5, LandingKeeps

-----------------------------------------------------------------------------
(***************************************************************************)
(* Steps that write the row, the operation or the attempts of one memory.  *)
(***************************************************************************)
OthersKept(m) ==
    /\ SameBut(m) /\ SameHeads /\ RunStays /\ MemHolds(m)'
    /\ \A v \in Workers :
          \/ ClaimHolds(v)'
          \/ work'[v] = work[v] /\ (work[v] # Idle => work[v].m # m)
    /\ \A p \in Procs :
          \/ CompHolds(p)'
          \/ comp'[p] = comp[p] /\ (comp[p] # NoCompensation => comp[p].m # m)

LEMMA OnMemory ==
    ASSUME NEW m \in Memories, TypeOK, Ordered, OthersKept(m), ClaimsApart', EpochsInOrder'
    PROVE  Ordered'
<1>1. Mems'
  BY OtherMems DEF Ordered, OthersKept
<1>2. Claims'
  BY OtherClaims DEF Ordered, OthersKept
<1>3. Comps'
  BY OtherComps DEF Ordered, OthersKept
<1> QED
  BY <1>1, <1>2, <1>3 DEF Ordered

LEMMA RowSet ==
    ASSUME TypeOK, NEW m \in Memories, NEW r \in Row, row' = [row EXCEPT ![m] = r]
    PROVE  /\ row' \in [Memories -> Row] /\ row'[m] = r
           /\ \A k \in Memories : k # m => row'[k] = row[k]
BY DEF TypeOK

LEMMA OpSet ==
    ASSUME TypeOK, NEW m \in Memories, NEW o \in Op, op' = [op EXCEPT ![m] = o]
    PROVE  /\ op' \in [Memories -> Op] /\ op'[m] = o
           /\ \A k \in Memories : k # m => op'[k] = op[k]
BY DEF TypeOK

LEMMA AttSet ==
    ASSUME TypeOK, NEW m \in Memories, NEW a \in [1..MaxAttempts -> Attempt],
           att' = [att EXCEPT ![m] = a]
    PROVE  /\ att' \in [Memories -> [1..MaxAttempts -> Attempt]] /\ att'[m] = a
           /\ \A k \in Memories : k # m => att'[k] = att[k]
BY DEF TypeOK

\* An operation that somebody holds is there.
LEMMA HeldIsThere ==
    ASSUME NEW m \in Memories, MemHolds(m),
           op[m].live \/ op[m].compLive \/ op[m].comp # NoProc \/ op[m].token # 0
    PROVE  op[m].state # "absent"
BY DEF MemHolds, RowInOrder, Exposed, NoOp

LEMMA LapseClaimStep ==
    ASSUME TypeOK, Ordered, Kept, NEW m \in Memories, LapseClaim(m)
    PROVE  TypeOK' /\ Ordered'
<1>1. /\ UNCHANGED <<run, overdue, head, del, att, confirmed, removed, items, late, stray, work,
                     comp, rb, steps, desk>>
      /\ row[m].lease = "live"
      /\ row' = [row EXCEPT ![m].lease = "expired"] /\ op' = [op EXCEPT ![m].live = FALSE]
      /\ Fault \/ faults' = faults
  BY DEF LapseClaim, Kept, kept
<1>2. EpochsInOrder' /\ RunStays /\ ClaimsApart'
  BY <1>1, EpochsSame, ClaimsSame DEF Ordered
<1>3. row[m] \in Row /\ op[m] \in Op /\ MemHolds(m)
  BY Holdings DEF Ordered, Mems
<1>4. PICK r : r = [row[m] EXCEPT !.lease = "expired"]
  OBVIOUS
<1>5. r \in Row /\ r.lease = "expired" /\ r.status = row[m].status /\ r.attempts = row[m].attempts
  BY <1>3, <1>4 DEF Row
<1>6. PICK o : o = [op[m] EXCEPT !.live = FALSE]
  OBVIOUS
<1>7. o \in Op /\ ~o.live /\ o.state = op[m].state /\ o.token = op[m].token /\ o.comp = op[m].comp
  BY <1>3, <1>6 DEF Op
<1>8. /\ row' \in [Memories -> Row] /\ row'[m] = r
      /\ \A k \in Memories : k # m => row'[k] = row[k]
  BY <1>1, <1>4, <1>5, RowSet
<1>9. /\ op' \in [Memories -> Op] /\ op'[m] = o
      /\ \A k \in Memories : k # m => op'[k] = op[k]
  BY <1>1, <1>6, <1>7, OpSet
<1>10. op[m].state # "absent"
  BY <1>1, <1>3, HeldIsThere DEF MemHolds, RowInOrder, Exposed
<1>11. MemHolds(m)'
  BY <1>1, <1>3, <1>5, <1>7, <1>8, <1>9, <1>10 DEF MemHolds, RowInOrder, Exposed
<1>12. SameBut(m) /\ SameHeads
  BY <1>1, <1>8, <1>9, ItemsUntouched DEF SameBut, SameHeads
<1>13. ASSUME NEW v \in Workers, work[v] # Idle, work[v].m = m PROVE ClaimHolds(v)'
  <2>1. ClaimInOrder(v)
    BY <1>13 DEF Ordered, Claims, ClaimHolds
  <2>2. ~InLease(work[v])'
    BY <1>1, <1>7, <1>9, <1>13 DEF InLease
  <2> QED
    BY <1>1, <1>5, <1>8, <1>13, <2>1, <2>2 DEF ClaimHolds, ClaimInOrder
<1>14. ASSUME NEW p \in Procs, comp[p] # NoCompensation, comp[p].m = m PROVE CompHolds(p)'
  BY <1>1, <1>7, <1>9, <1>14 DEF Ordered, Comps, CompHolds, CompensationHolds
<1>15. Ordered'
  BY <1>1, <1>2, <1>11, <1>12, <1>13, <1>14, OnMemory DEF OthersKept
<1>16. TypeOK'
  <2>1. faults' \in 0..MaxFaults
    BY <1>1, FaultKept
  <2> QED
    BY <1>1, <1>8, <1>9, <2>1 DEF TypeOK
<1> QED
  BY <1>15, <1>16

LEMMA LapseBarrierStep ==
    ASSUME TypeOK, Ordered, Kept, NEW m \in Memories, LapseBarrier(m)
    PROVE  TypeOK' /\ Ordered'
<1>1. /\ UNCHANGED <<run, overdue, head, row, del, att, confirmed, removed, items, late, stray,
                     work, comp, rb, steps, desk>>
      /\ op[m].live /\ row[m].lease # "live" /\ op' = [op EXCEPT ![m].live = FALSE]
      /\ Fault \/ faults' = faults
  BY DEF LapseBarrier, Kept, kept
<1>2. EpochsInOrder' /\ RunStays /\ ClaimsApart'
  BY <1>1, EpochsSame, ClaimsSame DEF Ordered
<1>3. op[m] \in Op /\ MemHolds(m)
  BY Holdings DEF Ordered, Mems
<1>4. PICK o : o = [op[m] EXCEPT !.live = FALSE]
  OBVIOUS
<1>5. o \in Op /\ ~o.live /\ o.state = op[m].state /\ o.token = op[m].token /\ o.comp = op[m].comp
  BY <1>3, <1>4 DEF Op
<1>6. /\ op' \in [Memories -> Op] /\ op'[m] = o
      /\ \A k \in Memories : k # m => op'[k] = op[k]
  BY <1>1, <1>4, <1>5, OpSet
<1>7. op[m].state # "absent"
  BY <1>1, <1>3, HeldIsThere
<1>8. MemHolds(m)'
  BY <1>1, <1>3, <1>5, <1>6, <1>7 DEF MemHolds, RowInOrder, Exposed
<1>9. SameBut(m) /\ SameHeads
  BY <1>1, <1>6, ItemsUntouched DEF SameBut, SameHeads
<1>10. ASSUME NEW v \in Workers, work[v] # Idle, work[v].m = m PROVE ClaimHolds(v)'
  <2>1. ClaimInOrder(v)
    BY <1>10 DEF Ordered, Claims, ClaimHolds
  <2>2. ~InLease(work[v])'
    BY <1>1, <1>5, <1>6, <1>10 DEF InLease
  <2> QED
    BY <1>1, <1>10, <2>1, <2>2 DEF ClaimHolds, ClaimInOrder
<1>11. ASSUME NEW p \in Procs, comp[p] # NoCompensation, comp[p].m = m PROVE CompHolds(p)'
  BY <1>1, <1>5, <1>6, <1>11 DEF Ordered, Comps, CompHolds, CompensationHolds
<1>12. Ordered'
  BY <1>1, <1>2, <1>8, <1>9, <1>10, <1>11, OnMemory DEF OthersKept
<1>13. TypeOK'
  <2>1. faults' \in 0..MaxFaults
    BY <1>1, FaultKept
  <2> QED
    BY <1>1, <1>6, <2>1 DEF TypeOK
<1> QED
  BY <1>12, <1>13

LEMMA LapseCompensationStep ==
    ASSUME TypeOK, Ordered, Kept, NEW m \in Memories, LapseCompensation(m)
    PROVE  TypeOK' /\ Ordered'
<1>1. /\ UNCHANGED <<run, overdue, head, row, del, att, confirmed, removed, items, late, stray, work,
                     comp, rb, steps, desk>>
      /\ op[m].compLive /\ op' = [op EXCEPT ![m].compLive = FALSE]
      /\ Fault \/ faults' = faults
  BY DEF LapseCompensation, Kept, kept
<1>2. EpochsInOrder' /\ RunStays /\ ClaimsApart'
  BY <1>1, EpochsSame, ClaimsSame DEF Ordered
<1>3. op[m] \in Op /\ MemHolds(m)
  BY Holdings DEF Ordered, Mems
<1>4. PICK o : o = [op[m] EXCEPT !.compLive = FALSE]
  OBVIOUS
<1>5. o \in Op /\ o.live = op[m].live /\ o.state = op[m].state /\ o.token = op[m].token
      /\ o.comp = op[m].comp
  BY <1>3, <1>4 DEF Op
<1>6. /\ op' \in [Memories -> Op] /\ op'[m] = o
      /\ \A k \in Memories : k # m => op'[k] = op[k]
  BY <1>1, <1>4, <1>5, OpSet
<1>7. op[m].state # "absent"
  BY <1>1, <1>3, HeldIsThere
<1>8. MemHolds(m)'
  BY <1>1, <1>3, <1>5, <1>6, <1>7 DEF MemHolds, RowInOrder, Exposed
<1>9. SameBut(m) /\ SameHeads
  BY <1>1, <1>6, ItemsUntouched DEF SameBut, SameHeads
<1>10. ASSUME NEW v \in Workers, work[v] # Idle, work[v].m = m PROVE ClaimHolds(v)'
  BY <1>1, <1>5, <1>6, <1>10 DEF Ordered, Claims, ClaimHolds, ClaimInOrder, InLease, CallHolds
<1>11. ASSUME NEW p \in Procs, comp[p] # NoCompensation, comp[p].m = m PROVE CompHolds(p)'
  BY <1>1, <1>5, <1>6, <1>11 DEF Ordered, Comps, CompHolds, CompensationHolds
<1>12. Ordered'
  BY <1>1, <1>2, <1>8, <1>9, <1>10, <1>11, OnMemory DEF OthersKept
<1>13. TypeOK'
  <2>1. faults' \in 0..MaxFaults
    BY <1>1, FaultKept
  <2> QED
    BY <1>1, <1>6, <2>1 DEF TypeOK
<1> QED
  BY <1>12, <1>13

-----------------------------------------------------------------------------
(***************************************************************************)
(* The two transactions of compensate.                                     *)
(***************************************************************************)
\* Nobody begins to compensate while a call in time is under way, nor before
\* the stop.
LEMMA CompStarts ==
    ASSUME TypeOK, Ordered, NEW p \in Procs, NEW m \in Memories, CompStart(p, m),
           ~CompBusy(m), run.status # "live", EpochsInOrder',
           UNCHANGED <<run, head, row, att, removed, items, late, stray, work>>
    PROVE  /\ Ordered' /\ op' \in [Memories -> Op]
           /\ comp' \in [Procs -> Compensating \cup {NoCompensation}]
<1>1. op[m] \in Op /\ MemHolds(m)
  BY Holdings DEF Ordered, Mems
<1>2. PICK o : o = [op[m] EXCEPT !.state = "compensating", !.comp = p, !.compLive = TRUE]
  OBVIOUS
<1>3. o \in Op /\ o.state = "compensating" /\ o.comp = p /\ o.token = op[m].token
      /\ o.live = op[m].live
  BY <1>1, <1>2 DEF Op, OpStates
<1>4. op' = [op EXCEPT ![m] = o]
  BY <1>2 DEF CompStart
<1>5. /\ op' \in [Memories -> Op] /\ op'[m] = o
      /\ \A k \in Memories : k # m => op'[k] = op[k]
  BY <1>3, <1>4, OpSet
<1>6. PICK d : d = [m |-> m, digest |-> op[m].digest, locator |-> op[m].locator, status |-> "none"]
  OBVIOUS
<1>7. d \in Compensating /\ d.status = "none" /\ d.m = m
  BY <1>1, <1>6 DEF Op, Compensating
<1>8. /\ comp' \in [Procs -> Compensating \cup {NoCompensation}] /\ comp'[p] = d
      /\ \A q \in Procs : q # p => comp'[q] = comp[q]
  BY <1>6, <1>7 DEF CompStart, TypeOK
<1>9. MemHolds(m)'
  BY <1>1, <1>3, <1>5 DEF MemHolds, RowInOrder, Exposed
<1>10. SameBut(m) /\ SameHeads /\ RunStays
  BY <1>5, ItemsUntouched DEF SameBut, SameHeads, RunStays
<1>11. ASSUME NEW v \in Workers, work[v] # Idle, work[v].m = m PROVE ClaimHolds(v)'
  <2>1. ClaimInOrder(v) /\ work[v].n \in 1..MaxAttempts
    BY <1>11, Working DEF Ordered, Claims, ClaimHolds
  <2>2. ~(work[v].phase = "calling" /\ InLease(work[v]))
    BY <1>11, <2>1 DEF ClaimInOrder, CallHolds, CompBusy, InLease
  <2>3. InLease(work[v])' => InLease(work[v])
    BY <1>3, <1>5, <1>11, LeaseKept
  <2> QED
    BY <1>11, <2>1, <2>2, <2>3 DEF ClaimHolds, ClaimInOrder
<1>12. CompHolds(p)'
  BY <1>7, <1>8 DEF CompHolds, CompensationHolds
<1>13. ASSUME NEW q \in Procs, q # p, comp[q] # NoCompensation, comp[q].m = m PROVE CompHolds(q)'
  BY <1>3, <1>5, <1>8, <1>13 DEF CompHolds, CompensationHolds
<1>14. OthersKept(m)
  BY <1>8, <1>9, <1>10, <1>11, <1>12, <1>13 DEF OthersKept
<1> QED
  BY <1>5, <1>8, <1>14, OnMemory, ClaimsSame DEF Ordered

LEMMA WorkerCompensatesStep ==
    ASSUME TypeOK, Ordered, Kept, NEW w \in Workers, WorkerCompensates(w)
    PROVE  TypeOK' /\ Ordered'
<1> DEFINE c == work[w]
<1>1. /\ UNCHANGED <<run, overdue, head, row, del, att, confirmed, removed, items, late, stray, rb,
                     faults, steps, desk>>
      /\ c.phase = "compensate"
  BY DEF WorkerCompensates, Kept, kept
<1>2. c # Idle /\ c \in Claim /\ run.status # "live"
  BY <1>1, Working DEF Ordered, Claims, ClaimHolds, ClaimInOrder, InLease
<1>3. PICK m \in Memories : m = c.m
  BY <1>2, ClaimShape
<1>4. CASE UNCHANGED <<op, comp>>
  <2>1. WorkOnly
    BY <1>1, <1>4 DEF WorkOnly, StopsOrNot
  <2>2. Onward(c, [c EXCEPT !.phase = "refused"]) /\ Onward(c, Idle)
    BY <1>1, <1>2, PhaseOnward DEF Phases, Onward
  <2>3. PICK d : work' = [work EXCEPT ![w] = d] /\ Onward(c, d)
    <3>1. CASE ~WorkerMayCompensate(c.m)
      BY <2>2, <3>1 DEF WorkerCompensates, Move
    <3>2. CASE WorkerMayCompensate(c.m) /\ CompBusy(c.m)
      BY <2>2, <3>2 DEF WorkerCompensates, Move, Leave
    <3>3. CASE WorkerMayCompensate(c.m) /\ ~CompBusy(c.m)
      <4>1. comp' = comp /\ comp' = [comp EXCEPT ![w] = [m |-> m, digest |-> op[m].digest,
                                    locator |-> op[m].locator, status |-> "none"]]
        BY <1>3, <1>4, <3>3 DEF WorkerCompensates, CompStart
      <4>2. comp \in [Procs -> Compensating \cup {NoCompensation}] /\ w \in Procs
            /\ comp[w] = NoCompensation
        BY DEF TypeOK, Procs, WorkerCompensates
      <4>3. NoCompensation = [m |-> m, digest |-> op[m].digest,
                              locator |-> op[m].locator, status |-> "none"]
        BY <4>1, <4>2
      <4> QED
        BY <4>3 DEF NoCompensation
    <3> QED
      BY <3>1, <3>2, <3>3
  <2> QED
    BY <1>2, <2>1, <2>3, WorkStep
<1>5. CASE ~UNCHANGED <<op, comp>>
  <2>1. ~CompBusy(m) /\ CompStart(w, m) /\ UNCHANGED work
    BY <1>3, <1>5 DEF WorkerCompensates
  <2>2. EpochsInOrder'
    BY <1>1, EpochsSame DEF Ordered
  <2>3. w \in Procs
    BY DEF Procs
  <2>4. /\ Ordered' /\ op' \in [Memories -> Op]
        /\ comp' \in [Procs -> Compensating \cup {NoCompensation}]
    BY <1>1, <1>2, <2>1, <2>2, <2>3, CompStarts
  <2> QED
    BY <1>1, <2>1, <2>4 DEF TypeOK
<1> QED
  BY <1>4, <1>5

\* The second transaction, whoever makes it.
LEMMA CompRecords ==
    ASSUME TypeOK, Ordered, NEW p \in Procs, CompRecorded(p), EpochsInOrder',
           UNCHANGED <<head, items, late, stray>>, ClaimsApart',
           \A v \in Workers : work'[v] = work[v] \/ work'[v] = Idle
    PROVE  /\ Ordered'
           /\ run' \in [status : {"live", "stopping", "stopped"}, epoch : 1..3]
           /\ row' \in [Memories -> Row] /\ op' \in [Memories -> Op]
           /\ att' \in [Memories -> [1..MaxAttempts -> Attempt]]
           /\ removed' \subseteq Memories
           /\ comp' \in [Procs -> Compensating \cup {NoCompensation}]
           /\ rb' \in [status : {"none", "running", "cleanup_required", "phase_completed",
                                 "completed"},
                       holder : Runners \cup {NoProc}, live : BOOLEAN]
<1> DEFINE k == comp[p]
<1>1. k \in Compensating /\ k # NoCompensation /\ k.status \in {"compensated", "cleanup_required"}
      /\ k.locator \in BOOLEAN
  <2>1. k \in Compensating \cup {NoCompensation}
    BY DEF TypeOK
  <2> QED
    BY <2>1, CompShape DEF CompRecorded
<1>2. PICK m \in Memories : m = k.m
  BY <1>1, CompShape
<1>3. PICK s : s = k.status
  OBVIOUS
<1>4. CompensationHolds(p)
  BY <1>1 DEF Ordered, Comps, CompHolds
<1>5. /\ comp' \in [Procs -> Compensating \cup {NoCompensation}] /\ comp'[p] = NoCompensation
      /\ \A q \in Procs : q # p => comp'[q] = comp[q]
  BY DEF TypeOK, CompRecorded
<1>6. CASE op[m].comp # p
  <2>1. UNCHANGED <<op, row, att, removed, rb, run>>
    BY <1>2, <1>6 DEF CompRecorded
  <2>2. Quiet
    BY <2>1, ItemsUntouched DEF Quiet, SameHeads, RunStays
  <2>3. Mems' /\ Claims' /\ Comps'
    BY <1>5, <2>2, QuietMems, QuietClaims, QuietComps, IdleHolds, NoCompHolds DEF Ordered
  <2> QED
    BY <1>5, <2>1, <2>3 DEF TypeOK, Ordered
<1>7. CASE op[m].comp = p
  <2>1. row[m] \in Row /\ op[m] \in Op /\ MemHolds(m) /\ att[m] \in [1..MaxAttempts -> Attempt]
    BY Holdings DEF Ordered, Mems
  <2>2. PICK o : o = [op[m] EXCEPT !.state = s, !.locator = k.locator,
                                   !.comp = NoProc, !.compLive = FALSE]
    OBVIOUS
  <2>3. o \in Op /\ o.state = s /\ o.comp = NoProc /\ o.token = op[m].token
        /\ o.live = op[m].live
    BY <1>1, <1>3, <2>1, <2>2 DEF Op, OpStates, RowStatuses, Finished
  <2>4. op' = [op EXCEPT ![m] = o]
    BY <1>2, <1>3, <1>7, <2>2 DEF CompRecorded
  <2>5. /\ op' \in [Memories -> Op] /\ op'[m] = o
        /\ \A l \in Memories : l # m => op'[l] = op[l]
    BY <2>3, <2>4, OpSet
  <2>6. PICK r : r = [row[m] EXCEPT !.status = s, !.lease = "none"]
    OBVIOUS
  <2>7. r \in Row /\ r.status = s /\ r.attempts = row[m].attempts /\ r.lease = "none"
    BY <1>1, <1>3, <2>1, <2>6 DEF Row, RowStatuses, Finished
  <2>8. row' = [row EXCEPT ![m] = r]
    BY <1>2, <1>3, <1>7, <2>6 DEF CompRecorded
  <2>9. /\ row' \in [Memories -> Row] /\ row'[m] = r
        /\ \A l \in Memories : l # m => row'[l] = row[l]
    BY <2>7, <2>8, RowSet
  <2>10. run.status # "live" /\ (run' = run \/ run' = [run EXCEPT !.status = "stopping"])
    BY <1>2, <1>4, <1>7 DEF CompRecorded, CompensationHolds
  <2>11. /\ run' \in [status : {"live", "stopping", "stopped"}, epoch : 1..3]
         /\ run'.status # "live"
    BY <2>10 DEF TypeOK
  <2>12. rb' \in [status : {"none", "running", "cleanup_required", "phase_completed", "completed"},
                  holder : Runners \cup {NoProc}, live : BOOLEAN]
    <3>1. \/ rb' = rb \/ rb' = [rb EXCEPT !.status = rb.status]
          \/ rb' = [rb EXCEPT !.status = "cleanup_required"]
      BY <1>2, <1>7 DEF CompRecorded
    <3> QED
      BY <3>1 DEF TypeOK
  <2>13. /\ att' \in [Memories -> [1..MaxAttempts -> Attempt]]
         /\ \A l \in Memories : l # m => att'[l] = att[l]
         /\ removed' \subseteq Memories /\ removed \subseteq removed'
         /\ removed' \subseteq removed \cup {m} /\ (s = "compensated" => m \in removed')
    <3>1. CASE s = "compensated"
      <4>1. PICK a : a = [n \in 1..MaxAttempts |-> [att[m][n] EXCEPT !.finished = TRUE]]
        OBVIOUS
      <4>2. a \in [1..MaxAttempts -> Attempt]
        BY <2>1, <4>1 DEF Attempt
      <4>3. att' = [att EXCEPT ![m] = a] /\ removed' = removed \cup {m}
        BY <1>2, <1>3, <1>7, <3>1, <4>1 DEF CompRecorded
      <4> QED
        BY <4>2, <4>3, AttSet DEF TypeOK
    <3>2. CASE s # "compensated"
      BY <1>2, <1>3, <1>7, <3>2 DEF CompRecorded, TypeOK
    <3> QED
      BY <3>1, <3>2
  <2>14. MemHolds(m)'
    <3>1. s = "compensated" => ~Exposed(m)
      BY <1>2, <1>3, <1>4, <1>7 DEF CompensationHolds, Exposed
    <3> QED
      BY <1>1, <1>3, <2>1, <2>3, <2>5, <2>7, <2>9, <2>11, <2>13, <3>1 DEF MemHolds, RowInOrder, Exposed
  <2>15. SameBut(m) /\ SameHeads /\ RunStays
    BY <2>5, <2>9, <2>11, <2>13, ItemsUntouched DEF SameBut, SameHeads, RunStays
  <2>16. ASSUME NEW v \in Workers, work'[v] = work[v], work[v] # Idle, work[v].m = m
         PROVE  ClaimHolds(v)'
    <3>1. ClaimInOrder(v)
      BY <2>16 DEF Ordered, Claims, ClaimHolds
    <3>2. ~(work[v].phase = "calling" /\ InLease(work[v]))
      BY <1>7, <2>16, <3>1, CompensationAssumption DEF ClaimInOrder, CallHolds, Procs
    <3>3. InLease(work[v])' => InLease(work[v])
      BY <2>3, <2>5, <2>16, LeaseKept
    <3> QED
      BY <2>7, <2>9, <2>11, <2>16, <3>1, <3>2, <3>3 DEF ClaimHolds, ClaimInOrder
  <2>17. ASSUME NEW q \in Procs, q # p, comp[q] # NoCompensation, comp[q].m = m PROVE CompHolds(q)'
    BY <1>5, <2>3, <2>5, <2>11, <2>17, CompensationAssumption
       DEF CompHolds, CompensationHolds, Procs
  <2>18. OthersKept(m)
    BY <1>5, <2>14, <2>15, <2>16, <2>17, IdleHolds, NoCompHolds DEF OthersKept
  <2> QED
    BY <1>5, <2>5, <2>9, <2>11, <2>12, <2>13, <2>18, OnMemory
<1> QED
  BY <1>6, <1>7

LEMMA WorkerRecordsStep ==
    ASSUME TypeOK, Ordered, Kept, NEW w \in Workers, WorkerRecords(w)
    PROVE  TypeOK' /\ Ordered'
<1>1. /\ UNCHANGED <<overdue, head, del, confirmed, items, late, stray, faults, steps, desk>>
      /\ CompRecorded(w) /\ work' = [work EXCEPT ![w] = Idle] /\ w \in Procs
  BY DEF WorkerRecords, Leave, Move, Kept, kept, Procs
<1>2. /\ work' \in [Workers -> Claim \cup {Idle}]
      /\ \A v \in Workers : work'[v] = work[v] \/ work'[v] = Idle
  BY <1>1 DEF TypeOK
<1>3. ClaimsApart'
  <2>1. ASSUME NEW v \in Workers
        PROVE  work'[v] = Idle \/ (work[v] # Idle /\ SameWork(work'[v], work[v]))
    BY <1>2 DEF SameWork
  <2> QED
    BY <2>1, ApartKept DEF Ordered
<1>4. EpochsInOrder'
  <2>1. \/ run' = run /\ rb' = rb
        \/ /\ run' = [run EXCEPT !.status = "stopping"]
           /\ rb' = [rb EXCEPT !.status = IF @ = "none" THEN @ ELSE "cleanup_required"]
    BY <1>1 DEF CompRecorded
  <2>2. run \in [status : {"live", "stopping", "stopped"}, epoch : 1..3]
        /\ rb \in [status : {"none", "running", "cleanup_required", "phase_completed", "completed"},
                   holder : Runners \cup {NoProc}, live : BOOLEAN]
    BY DEF TypeOK
  <2>3. run'.epoch = run.epoch /\ (run'.status = "live" => run' = run /\ rb' = rb)
        /\ (rb'.status = "none" => rb.status = "none")
    BY <2>1, <2>2
  <2> QED
    BY <1>1, <2>3 DEF Ordered, EpochsInOrder
<1> QED
  BY <1>1, <1>2, <1>3, <1>4, CompRecords DEF TypeOK

-----------------------------------------------------------------------------
(***************************************************************************)
(* Calls, results, and the last transactions of a worker.                  *)
(***************************************************************************)
LEMMA FencedOut ==
    ASSUME TypeOK, Ordered, Kept, NEW w \in Workers, work[w] # Idle, work' = [work EXCEPT ![w] = Idle],
           UNCHANGED <<run, overdue, head, row, del, att, op, confirmed, removed, items, late, stray,
                       comp, rb, faults>>
    PROVE  TypeOK' /\ Ordered'
<1>1. WorkOnly /\ Onward(work[w], Idle)
  BY DEF WorkOnly, StopsOrNot, Kept, kept, Onward
<1> QED
  BY <1>1, WorkStep

LEMMA StartVerifyStep ==
    ASSUME TypeOK, Ordered, Kept, NEW w \in Workers, StartVerify(w)
    PROVE  TypeOK' /\ Ordered'
<1> DEFINE c == work[w]
<1>1. /\ UNCHANGED <<run, overdue, head, row, del, op, confirmed, removed, items, late, stray, comp, rb,
                     faults, steps, desk>>
      /\ c.phase = "claimed"
  BY DEF StartVerify, Kept, kept
<1>2. c # Idle /\ c \in Claim /\ ClaimInOrder(w)
  BY <1>1, Working DEF Ordered, Claims, ClaimHolds
<1>3. PICK m \in Memories : m = c.m
  BY <1>2, ClaimShape
<1>4. CASE ~(Authorized(c) /\ ~overdue /\ Owns(c))
  BY <1>1, <1>2, <1>4, FencedOut DEF StartVerify, Leave, Move
<1>5. CASE Authorized(c) /\ ~overdue /\ Owns(c)
  <2>1. PICK n \in 1..MaxAttempts : n = c.n
    BY <1>2, ClaimShape
  <2>2. att[m] \in [1..MaxAttempts -> Attempt] /\ MemHolds(m)
    BY Holdings DEF Ordered, Mems
  <2>3. PICK a : a = [att[m] EXCEPT ![n].started = TRUE]
    OBVIOUS
  <2>4. /\ a \in [1..MaxAttempts -> Attempt]
        /\ \A i \in 1..MaxAttempts :
              a[i].finished = att[m][i].finished /\ (att[m][i].started => a[i].started)
    BY <2>2, <2>3 DEF Attempt
  <2>5. att' = [att EXCEPT ![m] = a]
    BY <1>3, <1>5, <2>1, <2>3 DEF StartVerify
  <2>6. /\ att' \in [Memories -> [1..MaxAttempts -> Attempt]] /\ att'[m] = a
        /\ \A k \in Memories : k # m => att'[k] = att[k]
    BY <2>4, <2>5, AttSet
  <2>7. PICK d : d = [c EXCEPT !.phase = "verifying"]
    OBVIOUS
  <2>8. d \in Claim /\ SameWork(d, c) /\ d.phase = "verifying" /\ work' = [work EXCEPT ![w] = d]
    BY <1>2, <1>5, <2>7, PhaseMoves DEF Phases, StartVerify, Move
  <2>9. /\ work' \in [Workers -> Claim \cup {Idle}] /\ ClaimsApart' /\ work'[w] = d
        /\ \A v \in Workers : v # w => work'[v] = work[v]
    BY <1>2, <2>8, OneMoves DEF Ordered
  <2>10. MemHolds(m)'
    BY <1>1, <2>2, <2>4, <2>6 DEF MemHolds, RowInOrder, Exposed
  <2>11. SameBut(m) /\ SameHeads /\ RunStays /\ EpochsInOrder'
    BY <1>1, <2>6, EpochsSame, ItemsUntouched DEF SameBut, SameHeads, RunStays, Ordered
  <2>12. ClaimHolds(w)'
    BY <1>1, <1>2, <2>8, <2>9 DEF ClaimHolds, ClaimInOrder, InLease, SameWork
  <2>13. ASSUME NEW v \in Workers, v # w, work[v] # Idle, work[v].m = m PROVE ClaimHolds(v)'
    <3>1. ClaimInOrder(v) /\ work[v].n \in 1..MaxAttempts
      BY <2>13, Working DEF Ordered, Claims, ClaimHolds
    <3>2. ASSUME CallHolds(v) PROVE CallHolds(v)'
      <4>1. PICK i \in 1..MaxAttempts : i = work[v].n
        BY <3>1
      <4>2. att[m][i].started /\ ~att[m][i].finished
        BY <2>13, <3>2, <4>1 DEF CallHolds
      <4>3. att'[m][i].started /\ ~att'[m][i].finished
        BY <2>4, <2>6, <4>2
      <4> QED
        BY <1>1, <2>9, <2>13, <3>2, <4>1, <4>3 DEF CallHolds
    <3> QED
      BY <1>1, <2>4, <2>6, <2>9, <2>13, <3>1, <3>2 DEF ClaimHolds, ClaimInOrder, InLease
  <2>14. ASSUME NEW p \in Procs PROVE CompHolds(p)'
    BY <1>1 DEF Ordered, Comps, CompHolds, CompensationHolds
  <2>15. Ordered'
    BY <2>9, <2>10, <2>11, <2>12, <2>13, <2>14, OnMemory DEF OthersKept
  <2> QED
    BY <1>1, <2>6, <2>9, <2>15 DEF TypeOK
<1> QED
  BY <1>4, <1>5

\* A request begins only under the epoch in force and with both leases live.
LEMMA StartCallStep ==
    ASSUME TypeOK, Ordered, Kept, NEW w \in Workers, StartCall(w)
    PROVE  TypeOK' /\ Ordered'
<1> DEFINE c == work[w]
<1>1. /\ UNCHANGED <<run, overdue, head, row, del, confirmed, removed, items, late, stray, comp, rb,
                     faults, steps, desk>>
      /\ c.phase = "checked"
  BY DEF StartCall, Kept, kept
<1>2. c # Idle /\ c \in Claim /\ ClaimInOrder(w)
  BY <1>1, Working DEF Ordered, Claims, ClaimHolds
<1>3. PICK m \in Memories : m = c.m
  BY <1>2, ClaimShape
<1>4. CASE ~(Authorized(c) /\ ~overdue /\ Owns(c))
  BY <1>1, <1>2, <1>4, FencedOut DEF StartCall, Leave, Move
<1>5. CASE Authorized(c) /\ ~overdue /\ Owns(c)
  <2>1. PICK n \in 1..MaxAttempts : n = c.n
    BY <1>2, ClaimShape
  <2>2. /\ att[m] \in [1..MaxAttempts -> Attempt] /\ op[m] \in Op /\ MemHolds(m)
        /\ op[m].live \in BOOLEAN
    BY Holdings DEF Ordered, Mems
  <2>3. /\ row[m].status = "running" /\ row[m].attempts = n /\ row[m].lease = "live"
        /\ run.status = "live" /\ op[m].token = n /\ op[m].comp = NoProc /\ op[m].live
    BY <1>3, <1>5, <2>1, <2>2 DEF Owns, Authorized, MemHolds, RowInOrder, Exposed
  <2>4. PICK a : a = [att[m] EXCEPT ![n].started = TRUE]
    OBVIOUS
  <2>5. /\ a \in [1..MaxAttempts -> Attempt] /\ a[n].started
        /\ \A i \in 1..MaxAttempts : a[i].finished = att[m][i].finished
    BY <2>2, <2>4 DEF Attempt
  <2>6. att' = [att EXCEPT ![m] = a]
    BY <1>3, <1>5, <2>1, <2>4 DEF StartCall
  <2>7. /\ att' \in [Memories -> [1..MaxAttempts -> Attempt]] /\ att'[m] = a
        /\ \A k \in Memories : k # m => att'[k] = att[k]
    BY <2>5, <2>6, AttSet
  <2>8. PICK o : o = [op[m] EXCEPT !.state = "calling"]
    OBVIOUS
  <2>9. o \in Op /\ o.state = "calling" /\ o.token = n /\ o.live /\ o.comp = NoProc
    BY <2>2, <2>3, <2>8 DEF Op, OpStates
  <2>10. op' = [op EXCEPT ![m] = o]
    BY <1>3, <1>5, <2>1, <2>3, <2>8 DEF StartCall
  <2>11. /\ op' \in [Memories -> Op] /\ op'[m] = o
         /\ \A k \in Memories : k # m => op'[k] = op[k]
    BY <2>9, <2>10, OpSet
  <2>12. PICK d : d = [c EXCEPT !.phase = "calling"]
    OBVIOUS
  <2>13. d \in Claim /\ SameWork(d, c) /\ d.phase = "calling" /\ work' = [work EXCEPT ![w] = d]
    BY <1>2, <1>5, <2>12, PhaseMoves DEF Phases, StartCall, Move
  <2>14. /\ work' \in [Workers -> Claim \cup {Idle}] /\ ClaimsApart' /\ work'[w] = d
         /\ \A v \in Workers : v # w => work'[v] = work[v]
    BY <1>2, <2>13, OneMoves DEF Ordered
  <2>15. MemHolds(m)'
    BY <1>1, <2>2, <2>3, <2>5, <2>7, <2>9, <2>11
       DEF MemHolds, RowInOrder, Exposed, Finished, Compensated
  <2>16. SameBut(m) /\ SameHeads /\ RunStays /\ EpochsInOrder'
    BY <1>1, <2>7, <2>11, EpochsSame, ItemsUntouched DEF SameBut, SameHeads, RunStays, Ordered
  <2>17. ClaimHolds(w)'
    <3>1. ~att[m][n].finished
      BY <1>1, <1>2, <1>3, <2>1, <2>3 DEF ClaimInOrder
    <3>2. work'[w].m = m /\ work'[w].n = n
      BY <1>3, <2>1, <2>13, <2>14 DEF SameWork
    <3>3. CallHolds(w)'
      BY <1>1, <2>3, <2>5, <2>7, <2>9, <2>11, <3>1, <3>2 DEF CallHolds
    <3> QED
      BY <1>1, <1>2, <2>13, <2>14, <3>3 DEF ClaimHolds, ClaimInOrder, InLease, SameWork
  <2>18. ASSUME NEW v \in Workers, v # w, work[v] # Idle, work[v].m = m PROVE ClaimHolds(v)'
    <3>1. ClaimInOrder(v) /\ work[v].n \in 1..MaxAttempts
      BY <2>18, Working DEF Ordered, Claims, ClaimHolds
    <3>2. ~(work[v].phase = "calling" /\ InLease(work[v]))
      BY <1>2, <1>3, <1>5, <2>18, AloneOnCall DEF Ordered
    <3>3. InLease(work[v])' => InLease(work[v])
      BY <2>3, <2>9, <2>11, <2>14, <2>18, LeaseKept
    <3> QED
      BY <1>1, <2>5, <2>7, <2>14, <2>18, <3>1, <3>2, <3>3 DEF ClaimHolds, ClaimInOrder
  <2>19. ASSUME NEW p \in Procs PROVE CompHolds(p)'
    BY <1>1, <2>3 DEF Ordered, Comps, CompHolds, CompensationHolds
  <2>20. Ordered'
    BY <2>14, <2>15, <2>16, <2>17, <2>18, <2>19, OnMemory DEF OthersKept
  <2> QED
    BY <1>1, <2>7, <2>11, <2>14, <2>20 DEF TypeOK
<1> QED
  BY <1>4, <1>5

LEMMA RecordStep ==
    ASSUME TypeOK, Ordered, Kept, NEW w \in Workers, Record(w)
    PROVE  TypeOK' /\ Ordered'
<1> DEFINE c == work[w]
<1>1. /\ UNCHANGED <<run, overdue, head, row, del, confirmed, removed, items, late, stray, comp, rb,
                     faults, steps, desk>>
      /\ c.phase = "returned"
  BY DEF Record, Kept, kept
<1>2. c # Idle /\ c \in Claim /\ ClaimInOrder(w)
  BY <1>1, Working DEF Ordered, Claims, ClaimHolds
<1>3. PICK m \in Memories : m = c.m
  BY <1>2, ClaimShape
<1>4. PICK n \in 1..MaxAttempts : n = c.n
  BY <1>2, ClaimShape
<1>5. /\ att[m] \in [1..MaxAttempts -> Attempt] /\ op[m] \in Op /\ MemHolds(m)
      /\ row[m].attempts \in Nat /\ n <= row[m].attempts /\ op[m].token = row[m].attempts
  BY <1>2, <1>3, <1>4, Holdings, CompensationAssumption
     DEF Ordered, Mems, ClaimInOrder, MemHolds, RowInOrder, Exposed
<1>6. PICK a : a = [att[m] EXCEPT ![n].finished = TRUE]
  OBVIOUS
<1>7. /\ a \in [1..MaxAttempts -> Attempt]
      /\ \A i \in 1..MaxAttempts : i # n => a[i] = att[m][i]
  BY <1>5, <1>6 DEF Attempt
<1>8. att' = [att EXCEPT ![m] = a]
  BY <1>3, <1>4, <1>6 DEF Record
<1>9. /\ att' \in [Memories -> [1..MaxAttempts -> Attempt]] /\ att'[m] = a
      /\ \A k \in Memories : k # m => att'[k] = att[k]
  BY <1>7, <1>8, AttSet
<1>10. PICK o : o = [op[m] EXCEPT !.locator = TRUE]
  OBVIOUS
<1>11. o \in Op /\ o.state = op[m].state /\ o.token = op[m].token /\ o.live = op[m].live
       /\ o.comp = op[m].comp
  BY <1>5, <1>10 DEF Op
<1>12. op' = [op EXCEPT ![m] = o]
  BY <1>3, <1>10 DEF Record
<1>13. /\ op' \in [Memories -> Op] /\ op'[m] = o
       /\ \A k \in Memories : k # m => op'[k] = op[k]
  BY <1>11, <1>12, OpSet
<1>14. PICK d : d = [c EXCEPT !.phase = "recorded"]
  OBVIOUS
<1>15. d \in Claim /\ SameWork(d, c) /\ d.phase = "recorded" /\ work' = [work EXCEPT ![w] = d]
  BY <1>2, <1>14, PhaseMoves DEF Phases, Record, Move
<1>16. /\ work' \in [Workers -> Claim \cup {Idle}] /\ ClaimsApart' /\ work'[w] = d
       /\ \A v \in Workers : v # w => work'[v] = work[v]
  BY <1>2, <1>15, OneMoves DEF Ordered
<1>17. op[m].state # "absent"
  BY <1>5, HeldIsThere
<1>18. MemHolds(m)'
  BY <1>1, <1>5, <1>7, <1>9, <1>11, <1>13, <1>17 DEF MemHolds, RowInOrder, Exposed
<1>19. SameBut(m) /\ SameHeads /\ RunStays /\ EpochsInOrder'
  BY <1>1, <1>9, <1>13, EpochsSame, ItemsUntouched DEF SameBut, SameHeads, RunStays, Ordered
<1>20. ClaimHolds(w)'
  BY <1>1, <1>2, <1>15, <1>16 DEF ClaimHolds, ClaimInOrder, InLease, SameWork
<1>21. ASSUME NEW v \in Workers, v # w, work[v] # Idle, work[v].m = m PROVE ClaimHolds(v)'
  <2>1. ClaimInOrder(v) /\ work[v].n \in 1..MaxAttempts
    BY <1>21, Working DEF Ordered, Claims, ClaimHolds
  <2>2. work[v].n # n
    BY <1>2, <1>3, <1>4, <1>21 DEF Ordered, ClaimsApart
  <2>3. ASSUME CallHolds(v) PROVE CallHolds(v)'
    <3>1. att'[m][work[v].n] = att[m][work[v].n]
      BY <1>7, <1>9, <2>1, <2>2
    <3>2. /\ op'[m].live = op[m].live /\ op'[m].comp = op[m].comp /\ op'[m].state = op[m].state
          /\ work'[v] = work[v] /\ row' = row
      BY <1>1, <1>11, <1>13, <1>16, <1>21
    <3> QED
      BY <1>21, <2>3, <3>1, <3>2 DEF CallHolds
  <2>4. InLease(work[v])' => InLease(work[v])
    BY <1>11, <1>13, <1>16, <1>21, LeaseKept
  <2> QED
    BY <1>1, <1>7, <1>9, <1>16, <1>21, <2>1, <2>2, <2>3, <2>4 DEF ClaimHolds, ClaimInOrder
<1>22. ASSUME NEW p \in Procs, comp[p] # NoCompensation, comp[p].m = m PROVE CompHolds(p)'
  BY <1>1, <1>11, <1>13, <1>22 DEF Ordered, Comps, CompHolds, CompensationHolds
<1>23. Ordered'
  BY <1>1, <1>16, <1>18, <1>19, <1>20, <1>21, <1>22, OnMemory DEF OthersKept
<1> QED
  BY <1>1, <1>9, <1>13, <1>16, <1>23 DEF TypeOK

LEMMA OneLeaves ==
    ASSUME TypeOK, Ordered, NEW w \in Workers, work[w] # Idle, Leave(w)
    PROVE  /\ work' \in [Workers -> Claim \cup {Idle}] /\ ClaimsApart' /\ work'[w] = Idle
           /\ \A v \in Workers : v # w => work'[v] = work[v]
<1>1. Idle \in Claim \cup {Idle} /\ work' = [work EXCEPT ![w] = Idle]
  BY DEF Leave, Move
<1> QED
  BY <1>1, OneMoves DEF Ordered

\* A worker that finds its run stopped marks what it wrote, whatever became of
\* the row and the operation.
LEMMA Marked ==
    ASSUME TypeOK, Ordered, NEW w \in Workers, work[w] # Idle, Leave(w), NEW m \in Memories,
           m = work[w].m, MarkedForCleanup(m), run.status # "live", EpochsInOrder',
           UNCHANGED <<run, head, att, removed, items, late, stray, comp>>
    PROVE  /\ Ordered' /\ row' \in [Memories -> Row] /\ op' \in [Memories -> Op]
           /\ work' \in [Workers -> Claim \cup {Idle}]
<1>1. /\ work' \in [Workers -> Claim \cup {Idle}] /\ ClaimsApart' /\ work'[w] = Idle
      /\ \A v \in Workers : v # w => work'[v] = work[v]
  BY OneLeaves
<1>2. row[m] \in Row /\ op[m] \in Op /\ MemHolds(m) /\ head[m] # "none"
  BY Holdings DEF Ordered, Mems, Claims, ClaimHolds, ClaimInOrder, InLease
<1>3. PICK r : r = [row[m] EXCEPT !.status = "cleanup_required"]
  OBVIOUS
<1>4. r \in Row /\ r.status = "cleanup_required" /\ r.attempts = row[m].attempts
      /\ r.lease = row[m].lease
  BY <1>2, <1>3 DEF Row, RowStatuses, Finished
<1>5. PICK o : o = [op[m] EXCEPT !.state = "cleanup_required"]
  OBVIOUS
<1>6. o \in Op /\ o.state = "cleanup_required" /\ o.token = op[m].token /\ o.live = op[m].live
      /\ o.comp = op[m].comp
  BY <1>2, <1>5 DEF Op, OpStates, RowStatuses, Finished
<1>7. row' = [row EXCEPT ![m] = r] /\ op' = [op EXCEPT ![m] = o]
  BY <1>3, <1>5 DEF MarkedForCleanup
<1>8. /\ row' \in [Memories -> Row] /\ row'[m] = r
      /\ \A k \in Memories : k # m => row'[k] = row[k]
  BY <1>4, <1>7, RowSet
<1>9. /\ op' \in [Memories -> Op] /\ op'[m] = o
      /\ \A k \in Memories : k # m => op'[k] = op[k]
  BY <1>6, <1>7, OpSet
<1>10. MemHolds(m)'
  BY <1>2, <1>4, <1>6, <1>8, <1>9 DEF MemHolds, RowInOrder, Exposed
<1>11. SameBut(m) /\ SameHeads /\ RunStays
  BY <1>8, <1>9, ItemsUntouched DEF SameBut, SameHeads, RunStays
<1>12. ASSUME NEW v \in Workers, v # w, work[v] # Idle, work[v].m = m PROVE ClaimHolds(v)'
  <2>1. ClaimInOrder(v)
    BY <1>12 DEF Ordered, Claims, ClaimHolds
  <2>2. CallHolds(v) => CallHolds(v)'
    BY <1>1, <1>4, <1>6, <1>8, <1>9, <1>12 DEF CallHolds
  <2>3. InLease(work[v])' => InLease(work[v])
    BY <1>1, <1>6, <1>9, <1>12, LeaseKept
  <2> QED
    BY <1>1, <1>4, <1>8, <1>12, <2>1, <2>2, <2>3 DEF ClaimHolds, ClaimInOrder
<1>13. ASSUME NEW p \in Procs, comp[p] # NoCompensation, comp[p].m = m PROVE CompHolds(p)'
  BY <1>6, <1>9, <1>13 DEF Ordered, Comps, CompHolds, CompensationHolds
<1>14. OthersKept(m)
  BY <1>1, <1>10, <1>11, <1>12, <1>13, IdleHolds DEF OthersKept
<1> QED
  BY <1>1, <1>8, <1>9, <1>14, OnMemory

\* The owner of a row settles it together with its operation.
LEMMA OwnedWrites ==
    ASSUME TypeOK, Ordered, NEW w \in Workers, work[w] # Idle, Leave(w), NEW m \in Memories,
           m = work[w].m, Owns(work[w]),
           NEW s \in {"confirmed", "obsolete", "blocked", "unknown", "retry"},
           row' = [row EXCEPT ![m].status = s, ![m].lease = "none"],
           att' = [att EXCEPT ![m][work[w].n].finished = TRUE],
           NEW o \in Op, op' = [op EXCEPT ![m] = o], o.state = s, o.token = op[m].token,
           o.live = op[m].live, o.comp = op[m].comp, EpochsInOrder',
           UNCHANGED <<run, head, removed, items, late, stray, comp>>
    PROVE  /\ Ordered' /\ row' \in [Memories -> Row] /\ op' \in [Memories -> Op]
           /\ att' \in [Memories -> [1..MaxAttempts -> Attempt]]
           /\ work' \in [Workers -> Claim \cup {Idle}]
<1>1. /\ work' \in [Workers -> Claim \cup {Idle}] /\ ClaimsApart' /\ work'[w] = Idle
      /\ \A v \in Workers : v # w => work'[v] = work[v]
  BY OneLeaves
<1>2. row[m] \in Row /\ MemHolds(m) /\ head[m] # "none" /\ att[m] \in [1..MaxAttempts -> Attempt]
  BY Holdings DEF Ordered, Mems, Claims, ClaimHolds, ClaimInOrder, InLease
<1>3. PICK n \in 1..MaxAttempts : n = work[w].n
  BY Working
<1>4. PICK r : r = [row[m] EXCEPT !.status = s, !.lease = "none"]
  OBVIOUS
<1>5. r \in Row /\ r.status = s /\ r.attempts = row[m].attempts /\ r.lease = "none"
  BY <1>2, <1>4 DEF Row, RowStatuses, Finished
<1>6. row' = [row EXCEPT ![m] = r]
  BY <1>4
<1>7. /\ row' \in [Memories -> Row] /\ row'[m] = r
      /\ \A k \in Memories : k # m => row'[k] = row[k]
  BY <1>5, <1>6, RowSet
<1>8. PICK a : a = [att[m] EXCEPT ![n].finished = TRUE]
  OBVIOUS
<1>9. /\ a \in [1..MaxAttempts -> Attempt]
      /\ \A i \in 1..MaxAttempts : i # n => a[i] = att[m][i]
  BY <1>2, <1>8 DEF Attempt
<1>10. att' = [att EXCEPT ![m] = a]
  BY <1>3, <1>8
<1>11. /\ att' \in [Memories -> [1..MaxAttempts -> Attempt]] /\ att'[m] = a
       /\ \A k \in Memories : k # m => att'[k] = att[k]
  BY <1>9, <1>10, AttSet
<1>12. /\ op' \in [Memories -> Op] /\ op'[m] = o
       /\ \A k \in Memories : k # m => op'[k] = op[k]
  BY OpSet
<1>13. MemHolds(m)'
  <2>1. row[m].attempts = n /\ row[m].status = "running"
    BY <1>3 DEF Owns
  <2>2. \A i \in 1..MaxAttempts : i > n => att'[m][i] = att[m][i]
    BY <1>9, <1>11
  <2>3. row'[m].attempts = n /\ row'[m].status = s /\ row'[m].lease = "none"
    BY <1>5, <1>7, <2>1
  <2>4. op'[m].state = s /\ op'[m].token = op[m].token /\ op'[m].comp = op[m].comp
    BY <1>12
  <2>5. s \notin {"absent", "compensated", "compensating", "cleanup_required", "pending"}
    OBVIOUS
  <2>6. RowInOrder(m)'
    BY <1>2, <2>1, <2>2, <2>3, <2>4, <2>5 DEF MemHolds, RowInOrder, Exposed, Compensated
  <2> QED
    BY <2>3, <2>4, <2>5, <2>6 DEF MemHolds
<1>14. SameBut(m) /\ SameHeads /\ RunStays
  BY <1>7, <1>11, <1>12, ItemsUntouched DEF SameBut, SameHeads, RunStays
<1>15. ASSUME NEW v \in Workers, v # w, work[v] # Idle, work[v].m = m PROVE ClaimHolds(v)'
  <2>1. ClaimInOrder(v) /\ work[v].n \in 1..MaxAttempts
    BY <1>15, Working DEF Ordered, Claims, ClaimHolds
  <2>2. ~(work[v].phase = "calling" /\ InLease(work[v]))
    BY <1>15, AloneOnCall DEF Ordered
  <2>3. work[v].n # n
    BY <1>3, <1>15 DEF Ordered, ClaimsApart
  <2>4. att'[m][work[v].n] = att[m][work[v].n] /\ row'[m].attempts = row[m].attempts
    BY <1>5, <1>7, <1>9, <1>11, <2>1, <2>3
  <2>5. work'[v] = work[v]
    BY <1>1, <1>15
  <2>6. InLease(work[v])' => InLease(work[v])
    BY <1>12, <1>15, <2>5, LeaseKept
  <2> QED
    BY <1>15, <2>1, <2>2, <2>4, <2>5, <2>6 DEF ClaimHolds, ClaimInOrder
<1>16. ASSUME NEW p \in Procs, comp[p] # NoCompensation, comp[p].m = m PROVE CompHolds(p)'
  BY <1>12, <1>16 DEF Ordered, Comps, CompHolds, CompensationHolds
<1>17. OthersKept(m)
  BY <1>1, <1>13, <1>14, <1>15, <1>16, IdleHolds DEF OthersKept
<1> QED
  BY <1>1, <1>7, <1>11, <1>12, <1>17, OnMemory

\* _finish_owned: the operation follows, as its token is the owner's.
LEMMA OwnerFinishes ==
    ASSUME TypeOK, Ordered, NEW w \in Workers, work[w] # Idle, Leave(w), Owns(work[w]),
           NEW s \in {"blocked", "obsolete", "unknown", "retry"}, FinishOwned(work[w], s),
           EpochsInOrder', UNCHANGED <<run, head, removed, items, late, stray, comp>>
    PROVE  /\ Ordered' /\ row' \in [Memories -> Row] /\ op' \in [Memories -> Op]
           /\ att' \in [Memories -> [1..MaxAttempts -> Attempt]]
           /\ work' \in [Workers -> Claim \cup {Idle}]
<1>1. PICK m \in Memories : m = work[w].m
  BY Working
<1>2. op[m] \in Op /\ MemHolds(m)
  BY Holdings DEF Ordered, Mems
<1>3. op[m].token = work[w].n
  BY <1>1, <1>2 DEF Owns, MemHolds, RowInOrder, Exposed
<1>4. PICK o : o = [op[m] EXCEPT !.state = s]
  OBVIOUS
<1>5. o \in Op /\ o.state = s /\ o.token = op[m].token /\ o.live = op[m].live
      /\ o.comp = op[m].comp
  BY <1>2, <1>4 DEF Op, OpStates, RowStatuses, Finished
<1>6. op' = [op EXCEPT ![m] = o]
  BY <1>1, <1>3, <1>4 DEF FinishOwned
<1>7. /\ row' = [row EXCEPT ![m].status = s, ![m].lease = "none"]
      /\ att' = [att EXCEPT ![m][work[w].n].finished = TRUE]
  BY <1>1 DEF FinishOwned
<1>8. s \in {"confirmed", "obsolete", "blocked", "unknown", "retry"}
  OBVIOUS
<1> QED
  BY <1>1, <1>5, <1>6, <1>7, <1>8, OwnedWrites

LEMMA OwnerSettles ==
    ASSUME TypeOK, Ordered, NEW w \in Workers, work[w] # Idle, Leave(w), Owns(work[w]),
           SettleOwned(work[w]),
           EpochsInOrder', UNCHANGED <<run, head, removed, items, late, stray, comp>>
    PROVE  /\ Ordered' /\ row' \in [Memories -> Row] /\ op' \in [Memories -> Op]
           /\ att' \in [Memories -> [1..MaxAttempts -> Attempt]]
           /\ work' \in [Workers -> Claim \cup {Idle}]
           /\ confirmed' \subseteq Memories
           /\ del' \in [Memories -> {"absent", "pending", "compensated"}]
<1>1. PICK m \in Memories : m = work[w].m
  BY Working
<1>2. CASE ~work[w].seen
  BY <1>2, OwnerFinishes DEF SettleOwned, TypeOK
<1>3. CASE work[w].seen
  <2>1. PICK s \in {"confirmed", "obsolete", "blocked", "unknown", "retry"} :
           s = IF head[m] = "active" THEN "confirmed" ELSE "obsolete"
    OBVIOUS
  <2>2. op[m] \in Op
    BY Holdings
  <2>3. PICK o : o = [op[m] EXCEPT !.state = s, !.locator = TRUE]
    OBVIOUS
  <2>4. o \in Op /\ o.state = s /\ o.token = op[m].token /\ o.live = op[m].live
        /\ o.comp = op[m].comp
    BY <2>1, <2>2, <2>3 DEF Op, OpStates, RowStatuses, Finished
  <2>5. op' = [op EXCEPT ![m] = o]
    BY <1>1, <1>3, <2>1, <2>3 DEF SettleOwned
  <2>6. /\ row' = [row EXCEPT ![m].status = s, ![m].lease = "none"]
        /\ att' = [att EXCEPT ![m][work[w].n].finished = TRUE]
    BY <1>1, <1>3, <2>1 DEF SettleOwned
  <2>7. /\ confirmed' = confirmed \cup {m}
        /\ del' = del \/ del' = [del EXCEPT ![m] = "pending"]
    BY <1>1, <1>3 DEF SettleOwned
  <2>8. confirmed' \subseteq Memories /\ del' \in [Memories -> {"absent", "pending", "compensated"}]
    BY <2>7 DEF TypeOK
  <2> QED
    BY <1>1, <2>1, <2>4, <2>5, <2>6, <2>8, OwnedWrites
<1> QED
  BY <1>2, <1>3

LEMMA SettleSteps ==
    ASSUME TypeOK, Ordered, Kept, NEW w \in Workers, Settle(w)
    PROVE  TypeOK' /\ Ordered'
<1> DEFINE c == work[w]
<1>1. /\ UNCHANGED <<run, overdue, head, removed, items, late, stray, comp, rb, faults, steps, desk>>
      /\ c.phase = "settling" /\ Leave(w)
  BY DEF Settle, Kept, kept
<1>2. c # Idle /\ c \in Claim /\ ClaimInOrder(w) /\ EpochsInOrder'
  BY <1>1, Working, EpochsSame DEF Ordered, Claims, ClaimHolds
<1>3. PICK m \in Memories : m = c.m
  BY <1>2, ClaimShape
<1>4. CASE ~Authorized(c)
  <2>1. run.status # "live"
    BY <1>2, <1>4 DEF Authorized, ClaimInOrder, Ordered, EpochsInOrder
  <2>2. MarkedForCleanup(m) /\ UNCHANGED <<att, confirmed, del>>
    BY <1>3, <1>4 DEF Settle
  <2>3. /\ Ordered' /\ row' \in [Memories -> Row] /\ op' \in [Memories -> Op]
        /\ work' \in [Workers -> Claim \cup {Idle}]
    BY <1>1, <1>2, <1>3, <2>1, <2>2, Marked
  <2> QED
    BY <1>1, <2>2, <2>3 DEF TypeOK
<1>5. CASE Authorized(c) /\ Owns(c)
  <2>1. SettleOwned(c)
    BY <1>5 DEF Settle
  <2>2. /\ Ordered' /\ row' \in [Memories -> Row] /\ op' \in [Memories -> Op]
        /\ att' \in [Memories -> [1..MaxAttempts -> Attempt]]
        /\ work' \in [Workers -> Claim \cup {Idle}]
        /\ confirmed' \subseteq Memories
        /\ del' \in [Memories -> {"absent", "pending", "compensated"}]
    BY <1>1, <1>2, <1>5, <2>1, OwnerSettles
  <2> QED
    BY <1>1, <2>2 DEF TypeOK
<1>6. CASE Authorized(c) /\ ~Owns(c)
  BY <1>1, <1>2, <1>6, FencedOut DEF Settle, Leave, Move
<1> QED
  BY <1>4, <1>5, <1>6

LEMMA MarkCleanupStep ==
    ASSUME TypeOK, Ordered, Kept, NEW w \in Workers, MarkCleanup(w)
    PROVE  TypeOK' /\ Ordered'
<1>1. /\ UNCHANGED <<run, overdue, head, del, att, confirmed, removed, items, late, stray, comp, rb,
                     faults, steps, desk>>
      /\ work[w].phase = "refused" /\ Leave(w) /\ MarkedForCleanup(work[w].m)
  BY DEF MarkCleanup, Kept, kept
<1>2. work[w] # Idle /\ run.status # "live" /\ EpochsInOrder' /\ work[w].m \in Memories
  BY <1>1, Working, EpochsSame DEF Ordered, Claims, ClaimHolds, ClaimInOrder, InLease
<1>3. /\ Ordered' /\ row' \in [Memories -> Row] /\ op' \in [Memories -> Op]
      /\ work' \in [Workers -> Claim \cup {Idle}]
  BY <1>1, <1>2, Marked
<1> QED
  BY <1>1, <1>3 DEF TypeOK

LEMMA FinishStep ==
    ASSUME TypeOK, Ordered, Kept, NEW w \in Workers, FinishWithoutLocator(w)
    PROVE  TypeOK' /\ Ordered'
<1> DEFINE c == work[w]
<1>1. /\ UNCHANGED <<run, overdue, head, del, confirmed, removed, items, late, stray, comp, rb, faults,
                     steps, desk>>
      /\ c.phase = "finishing" /\ Leave(w)
  BY DEF FinishWithoutLocator, Kept, kept
<1>2. c # Idle /\ c \in Claim /\ ClaimInOrder(w) /\ EpochsInOrder'
  BY <1>1, Working, EpochsSame DEF Ordered, Claims, ClaimHolds
<1>3. CASE Owns(c)
  <2>1. PICK s \in {"blocked", "obsolete", "unknown", "retry"} : s = c.verdict
    BY <1>1, <1>2, ClaimShape DEF ClaimInOrder
  <2>2. FinishOwned(c, s)
    BY <1>3, <2>1 DEF FinishWithoutLocator
  <2>3. /\ Ordered' /\ row' \in [Memories -> Row] /\ op' \in [Memories -> Op]
        /\ att' \in [Memories -> [1..MaxAttempts -> Attempt]]
        /\ work' \in [Workers -> Claim \cup {Idle}]
    BY <1>1, <1>2, <1>3, <2>1, <2>2, OwnerFinishes
  <2> QED
    BY <1>1, <2>3 DEF TypeOK
<1>4. CASE ~Owns(c)
  BY <1>1, <1>2, <1>4, FencedOut DEF FinishWithoutLocator, Leave, Move
<1> QED
  BY <1>3, <1>4

-----------------------------------------------------------------------------
(***************************************************************************)
(* The sweep and the claim.                                                *)
(***************************************************************************)
LEMMA SweptShape ==
    ASSUME TypeOK, NEW k \in Memories
    PROVE  /\ Swept(k) \in Row /\ Swept(k).attempts = row[k].attempts
           /\ Swept(k).status = row[k].status \/ Swept(k).status \in {"unknown", "retry"}
           /\ Swept(k) = row[k] \/ (/\ row[k].status = "running" /\ row[k].lease = "expired"
                                    /\ Swept(k).lease = "none"
                                    /\ Swept(k).status \in {"unknown", "retry"})
<1>1. row[k] \in Row
  BY Holdings
<1>2. CASE row[k].status = "running" /\ row[k].lease = "expired"
  <2>1. PICK s \in {"unknown", "retry"} :
           s = IF att[k][row[k].attempts].started THEN "unknown" ELSE "retry"
    OBVIOUS
  <2>2. Swept(k) = [row[k] EXCEPT !.status = s, !.lease = "none"]
    BY <1>2, <2>1 DEF Swept
  <2> QED
    BY <1>1, <1>2, <2>2 DEF Row, RowStatuses
<1>3. CASE ~(row[k].status = "running" /\ row[k].lease = "expired")
  BY <1>1, <1>3 DEF Swept
<1> QED
  BY <1>2, <1>3

LEMMA SweptMem ==
    ASSUME TypeOK, NEW k \in Memories, MemHolds(k), RunStays, row'[k] = Swept(k), op'[k] = op[k],
           UNCHANGED <<head, items, removed, late, stray>>,
           \A n \in 1..MaxAttempts : att'[k][n].finished = att[k][n].finished
    PROVE  MemHolds(k)'
<1>1. /\ Swept(k).attempts = row[k].attempts
      /\ Swept(k) = row[k] \/ (/\ row[k].status = "running" /\ row[k].lease = "expired"
                               /\ Swept(k).lease = "none"
                               /\ Swept(k).status \in {"unknown", "retry"})
  BY SweptShape
<1>2. RowInOrder(k)'
  BY <1>1 DEF MemHolds, RowInOrder, Exposed, RunStays
<1>3. row'[k].status \in Finished => op'[k].state \in {row'[k].status, "compensating"}
  BY <1>1 DEF MemHolds, Finished
<1> QED
  BY <1>2, <1>3 DEF MemHolds, Exposed

\* A call in time has its row: the sweep passes over it.
LEMMA SweepSpares ==
    ASSUME TypeOK, NEW v \in Workers, CallHolds(v), NEW k \in Memories, k = work[v].m
    PROVE  Swept(k) = row[k] /\ row[k].status \notin {"pending", "retry", "unknown"}
BY DEF CallHolds, Swept

LEMMA SweptClaim ==
    ASSUME TypeOK, NEW v \in Workers, ClaimHolds(v), NEW k \in Memories, work[v] # Idle =>
           k = work[v].m, work'[v] = work[v],
           RunStays, row'[k] = Swept(k), op'[k] = op[k], UNCHANGED head,
           att'[k] = att[k]
    PROVE  ClaimHolds(v)'
<1>1. CASE work[v] = Idle
  BY <1>1 DEF ClaimHolds
<1>2. CASE work[v] # Idle
  <2>1. k = work[v].m /\ row'[k].attempts = row[k].attempts
    BY <1>2, SweptShape
  <2>2. ASSUME CallHolds(v) PROVE CallHolds(v)'
    <3>1. row'[k] = row[k]
      BY <2>1, <2>2, SweepSpares
    <3> QED
      BY <2>1, <2>2, <3>1 DEF CallHolds
  <2>3. ClaimInOrder(v)
    BY <1>2 DEF ClaimHolds
  <2> QED
    BY <2>1, <2>2, <2>3 DEF ClaimHolds, ClaimInOrder, InLease, RunStays
<1> QED
  BY <1>1, <1>2

LEMMA SweepOnlyStep ==
    ASSUME TypeOK, Ordered, Kept, SweepOnly
    PROVE  TypeOK' /\ Ordered'
<1>1. /\ UNCHANGED <<run, overdue, head, del, att, op, confirmed, removed, items, late, stray, work,
                     comp, rb, faults, steps, desk>>
      /\ row' = [k \in Memories |-> Swept(k)]
  BY DEF SweepOnly, Kept, kept
<1>2. EpochsInOrder' /\ RunStays /\ ClaimsApart'
  BY <1>1, EpochsSame, ClaimsSame DEF Ordered
<1>3. row' \in [Memories -> Row] /\ \A k \in Memories : row'[k] = Swept(k)
  BY <1>1, SweptShape
<1>4. Mems'
  <2>1. ASSUME NEW k \in Memories PROVE MemHolds(k)'
    <3>1. MemHolds(k) /\ row'[k] = Swept(k)
      BY <1>3 DEF Ordered, Mems
    <3> QED
      BY <1>1, <1>2, <3>1, SweptMem
  <2> QED
    BY <2>1 DEF Mems
<1>5. Claims'
  <2>1. ASSUME NEW v \in Workers, work[v] # Idle PROVE ClaimHolds(v)'
    <3>1. PICK k \in Memories : k = work[v].m
      BY <2>1, Working
    <3>2. ClaimHolds(v) /\ row'[k] = Swept(k)
      BY <1>3 DEF Ordered, Claims
    <3> QED
      BY <1>1, <1>2, <3>1, <3>2, SweptClaim
  <2> QED
    BY <1>1, <2>1 DEF Claims, ClaimHolds
<1>6. Comps'
  BY <1>1 DEF Ordered, Comps, CompHolds, CompensationHolds
<1>7. TypeOK'
  BY <1>1, <1>3 DEF TypeOK
<1> QED
  BY <1>2, <1>4, <1>5, <1>6, <1>7 DEF Ordered

LEMMA ClaimNextStep ==
    ASSUME TypeOK, Ordered, Kept, NEW w \in Workers, NEW m \in Memories, ClaimNext(w, m)
    PROVE  TypeOK' /\ Ordered'
<1>1. /\ UNCHANGED <<run, overdue, head, del, confirmed, removed, items, late, stray, comp, rb, faults,
                     steps, desk>>
      /\ work[w] = Idle /\ run.status = "live" /\ row[m].attempts < MaxAttempts
      /\ Swept(m).status \in {"pending", "retry", "unknown"}
  BY DEF ClaimNext, Kept, kept
<1>2. /\ row[m] \in Row /\ row[m].attempts \in 0..MaxAttempts /\ op[m] \in Op /\ MemHolds(m)
      /\ att[m] \in [1..MaxAttempts -> Attempt]
  BY Holdings DEF Ordered, Mems
<1>3. PICK n \in 1..MaxAttempts : n = row[m].attempts + 1
  BY <1>1, <1>2, CompensationAssumption
<1>4. run.epoch = 1
  BY <1>1 DEF Ordered, EpochsInOrder
<1>5. EpochsInOrder' /\ RunStays
  BY <1>1, EpochsSame DEF Ordered
<1>6. PICK r : r = [status |-> "running", attempts |-> n, lease |-> "live"]
  OBVIOUS
<1>7. r \in Row /\ r.status = "running" /\ r.attempts = n /\ r.lease = "live"
  BY <1>3, <1>6, CompensationAssumption DEF Row, RowStatuses
<1>8. row' = [k \in Memories |-> IF k = m THEN r ELSE Swept(k)]
  BY <1>3, <1>6 DEF ClaimNext
<1>9. /\ row' \in [Memories -> Row] /\ row'[m] = r
      /\ \A k \in Memories : k # m => row'[k] = Swept(k)
  BY <1>7, <1>8, SweptShape
<1>10. PICK a : a = [att[m] EXCEPT ![n].epoch = run.epoch]
  OBVIOUS
<1>11. /\ a \in [1..MaxAttempts -> Attempt]
       /\ \A i \in 1..MaxAttempts : a[i].finished = att[m][i].finished
  <2>1. PICK e \in 0..3 : e = run.epoch
    BY <1>4
  <2>2. PICK b : b = [att[m][n] EXCEPT !.epoch = e]
    OBVIOUS
  <2>3. b \in Attempt /\ b.finished = att[m][n].finished
    BY <1>2, <2>2 DEF Attempt
  <2>4. a = [att[m] EXCEPT ![n] = b]
    BY <1>10, <2>1, <2>2
  <2> QED
    BY <1>2, <2>3, <2>4
<1>12. att' = [att EXCEPT ![m] = a]
  BY <1>3, <1>10 DEF ClaimNext
<1>13. /\ att' \in [Memories -> [1..MaxAttempts -> Attempt]] /\ att'[m] = a
       /\ \A k \in Memories : k # m => att'[k] = att[k]
  BY <1>11, <1>12, AttSet
<1>14. PICK g \in {"erased", "body"} : g = IF head[m] = "deleted" THEN "erased" ELSE "body"
  OBVIOUS
<1>15. PICK o : o = [op[m] EXCEPT !.state = "claimed", !.token = n, !.live = TRUE,
                                  !.epoch = run.epoch, !.digest = g]
  OBVIOUS
<1>16. o \in Op /\ o.state = "claimed" /\ o.token = n /\ o.live /\ o.comp = op[m].comp
  <2>1. PICK e \in 0..3 : e = run.epoch
    BY <1>4
  <2>2. n \in 0..MaxAttempts /\ "claimed" \in OpStates
    BY CompensationAssumption DEF OpStates
  <2>3. o = [op[m] EXCEPT !.state = "claimed", !.token = n, !.live = TRUE, !.epoch = e,
                          !.digest = g]
    BY <1>15, <2>1
  <2> QED
    BY <1>2, <1>14, <2>2, <2>3 DEF Op
<1>17. op' = [op EXCEPT ![m] = o]
  BY <1>3, <1>14, <1>15 DEF ClaimNext
<1>18. /\ op' \in [Memories -> Op] /\ op'[m] = o
       /\ \A k \in Memories : k # m => op'[k] = op[k]
  BY <1>16, <1>17, OpSet
<1>19. PICK d : d = [phase |-> "claimed", m |-> m, n |-> n, epoch |-> run.epoch,
                     source |-> Swept(m).status, seen |-> FALSE, verdict |-> "none"]
  OBVIOUS
<1>20. d \in Claim /\ d # Idle /\ d.phase = "claimed" /\ d.m = m /\ d.n = n /\ d.epoch = 1
  <2>1. d \in Claim /\ d.phase = "claimed" /\ d.m = m /\ d.n = n /\ d.epoch = 1
    BY <1>1, <1>4, <1>19 DEF Claim, Phases
  <2> QED
    BY <2>1, ClaimShape
<1>21. work' = [work EXCEPT ![w] = d]
  BY <1>3, <1>19 DEF ClaimNext, Move
<1>22. /\ work' \in [Workers -> Claim \cup {Idle}] /\ work'[w] = d
       /\ \A v \in Workers : v # w => work'[v] = work[v]
  BY <1>20, <1>21 DEF TypeOK
<1>23. head[m] # "none" /\ op[m].comp = NoProc
       /\ \A i \in 1..MaxAttempts : i >= n => ~att[m][i].finished
  <2>1. Swept(m).status = row[m].status \/ row[m].status = "running"
    BY SweptShape
  <2>2. head[m] # "none" /\ op[m].comp = NoProc
    BY <1>1, <1>2, <2>1 DEF MemHolds, RowInOrder, Exposed
  <2>3. \A i \in 1..MaxAttempts : i >= n => i > row[m].attempts
    BY <1>2, <1>3
  <2> QED
    BY <1>1, <1>2, <2>2, <2>3 DEF MemHolds, RowInOrder, Exposed
<1>24. MemHolds(m)'
  <2>1. \A i \in 1..MaxAttempts : i > n => ~att'[m][i].finished
    BY <1>3, <1>11, <1>13, <1>23
  <2>2. op'[m].state = "claimed" /\ op'[m].token = n /\ op'[m].live /\ op'[m].comp = NoProc
    BY <1>16, <1>18, <1>23
  <2>3. row'[m].status = "running" /\ row'[m].attempts = n /\ row'[m].lease = "live"
    BY <1>7, <1>9
  <2> QED
    BY <1>1, <1>2, <1>23, <2>1, <2>2, <2>3 DEF MemHolds, RowInOrder, Compensated, Finished
<1>25. Mems'
  <2>1. ASSUME NEW k \in Memories, k # m PROVE MemHolds(k)'
    <3>1. MemHolds(k) /\ row'[k] = Swept(k) /\ op'[k] = op[k] /\ att'[k] = att[k]
      BY <1>9, <1>13, <1>18, <2>1 DEF Ordered, Mems
    <3> QED
      BY <1>1, <1>5, <3>1, SweptMem
  <2> QED
    BY <1>24, <2>1 DEF Mems
<1>26. ASSUME NEW v \in Workers, work[v] # Idle, work[v].m = m
       PROVE  /\ work[v].n # n /\ ClaimInOrder(v) /\ work[v].n \in 1..MaxAttempts
              /\ ~(work[v].phase = "calling" /\ InLease(work[v]))
  <2>1. ClaimInOrder(v) /\ work[v].n \in 1..MaxAttempts
    BY <1>26, Working DEF Ordered, Claims, ClaimHolds
  <2>2. work[v].n <= row[m].attempts
    BY <1>26, <2>1 DEF ClaimInOrder
  <2>3. ~(work[v].phase = "calling" /\ InLease(work[v]))
    BY <1>1, <1>26, <2>1, SweepSpares DEF ClaimInOrder
  <2> QED
    BY <1>2, <1>3, <2>1, <2>2, <2>3
<1>27. Claims'
  <2>1. ClaimHolds(w)'
    <3>1. ~att'[m][n].finished
      BY <1>11, <1>13, <1>23
    <3>2. work'[w].m = m /\ work'[w].n = n /\ work'[w].phase = "claimed" /\ work'[w].epoch = 1
      BY <1>20, <1>22
    <3>3. n <= row'[m].attempts
      BY <1>7, <1>9
    <3> QED
      BY <1>1, <1>23, <3>1, <3>2, <3>3 DEF ClaimHolds, ClaimInOrder, InLease
  <2>2. ASSUME NEW v \in Workers, v # w, work[v] # Idle, work[v].m = m PROVE ClaimHolds(v)'
    <3>1. /\ ClaimInOrder(v) /\ work[v].n \in 1..MaxAttempts
          /\ ~(work[v].phase = "calling" /\ InLease(work[v]))
      BY <1>26, <2>2
    <3>2. work[v].n <= row'[m].attempts
      <4>1. work[v].n <= row[m].attempts
        BY <2>2, <3>1 DEF ClaimInOrder
      <4> QED
        BY <1>2, <1>3, <1>7, <1>9, <3>1, <4>1
    <3>3. att'[m][work[v].n].finished = att[m][work[v].n].finished
      BY <1>11, <1>13, <3>1
    <3>4. ~InLease(work[v])'
      BY <1>16, <1>18, <1>22, <1>26, <2>2 DEF InLease
    <3> QED
      BY <1>1, <1>22, <2>2, <3>1, <3>2, <3>3, <3>4 DEF ClaimHolds, ClaimInOrder
  <2>3. ASSUME NEW v \in Workers, v # w, work[v] # Idle, work[v].m # m PROVE ClaimHolds(v)'
    <3>1. PICK k \in Memories : k = work[v].m
      BY <2>3, Working
    <3>2. ClaimHolds(v) /\ row'[k] = Swept(k) /\ op'[k] = op[k] /\ att'[k] = att[k]
          /\ work'[v] = work[v]
      BY <1>9, <1>13, <1>18, <1>22, <2>3, <3>1 DEF Ordered, Claims
    <3> QED
      BY <1>1, <1>5, <3>1, <3>2, SweptClaim
  <2>4. ASSUME NEW v \in Workers, v # w, work[v] = Idle PROVE ClaimHolds(v)'
    BY <1>22, <2>4 DEF ClaimHolds
  <2> QED
    BY <2>1, <2>2, <2>3, <2>4 DEF Claims
<1>28. Comps'
  BY <1>1 DEF Ordered, Comps, CompHolds, CompensationHolds
<1>29. ClaimsApart'
  BY <1>20, <1>22, <1>26 DEF Ordered, ClaimsApart
<1>30. TypeOK'
  BY <1>1, <1>9, <1>13, <1>18, <1>22 DEF TypeOK
<1> QED
  BY <1>5, <1>25, <1>27, <1>28, <1>29, <1>30 DEF Ordered

\* Every step of Compensation's workers, users and leases.
LEMMA WorkerNextStep ==
    ASSUME TypeOK, Ordered, WorkerNext, UNCHANGED kept
    PROVE  TypeOK' /\ Ordered'
<1> USE DEF Kept
<1>1. CASE \E m \in Memories : ReviewedCommit(m) \/ UserChanges(m) \/ UserForgets(m)
  BY <1>1, ReviewedCommitStep, UserStep
<1>2. CASE DeadlinePasses \/ Stop \/ SweepOnly
  BY <1>2, StopStep, SweepOnlyStep
<1>3. CASE \E p \in Procs : CompFails(p)
  BY <1>3, CompFailsStep
<1>4. CASE \E m \in Memories : \/ LapseClaim(m) \/ LapseBarrier(m) \/ LapseCompensation(m)
                               \/ LateWriteLands(m)
  BY <1>4, LapseClaimStep, LapseBarrierStep, LapseCompensationStep, LateWriteLandsStep
<1>5. ASSUME NEW w \in Workers, WorkerStep(w) PROVE TypeOK' /\ Ordered'
  <2>1. CASE \E m \in Memories : ClaimNext(w, m)
    BY <2>1, ClaimNextStep
  <2>2. CASE CheckHead(w) \/ StartCall(w) \/ StartVerify(w)
    BY <2>2, CheckHeadStep, StartCallStep, StartVerifyStep
  <2>3. CASE FencedCall(w) \/ Materialize(w) \/ Locate(w)
    BY <2>3, FencedCallStep, MaterializeStep, LocateStep
  <2>4. CASE Record(w) \/ CheckRun(w) \/ Inspect(w)
    BY <2>4, RecordStep, CheckRunStep, InspectStep
  <2>5. CASE Settle(w) \/ FinishWithoutLocator(w)
    BY <2>5, SettleSteps, FinishStep
  <2>6. CASE WorkerCompensates(w) \/ MarkCleanup(w) \/ WorkerRecords(w)
    BY <2>6, WorkerCompensatesStep, MarkCleanupStep, WorkerRecordsStep
  <2>7. CASE CompRemote(w)
    BY <2>7, CompRemoteStep DEF Procs
  <2> QED
    BY <1>5, <2>1, <2>2, <2>3, <2>4, <2>5, <2>6, <2>7 DEF WorkerStep
<1>6. ASSUME NEW w \in Workers, CallFails(w) \/ LookupFails(w) \/ Crash(w)
      PROVE  TypeOK' /\ Ordered'
  BY <1>6, CallFailsStep, LookupFailsStep, CrashStep
<1> QED
  BY <1>1, <1>2, <1>3, <1>4, <1>5, <1>6 DEF WorkerNext

-----------------------------------------------------------------------------
(***************************************************************************)
(* The runner's desk.                                                      *)
(***************************************************************************)
LEMMA DeskSet ==
    ASSUME DeskOK, NEW r \in Runners, NEW d \in Desk, At(r, d)
    PROVE  /\ desk' \in [Runners -> Desk] /\ desk'[r] = d
           /\ \A q \in Runners : q # r => desk'[q] = desk[q]
BY DEF DeskOK, At

LEMMA AtDesk ==
    ASSUME DeskOK, NEW r \in Runners
    PROVE  /\ desk[r] \in Desk /\ desk[r].step \in 1..5 /\ desk[r].through \in 1..5
           /\ desk[r].todo \subseteq Memories /\ desk[r].targets \subseteq Memories
           /\ desk[r].at \subseteq Memories /\ desk[r].result \in {"none", "done", "cleanup_required"}
<1>1. desk[r] \in Desk
  BY DEF DeskOK
<1> QED
  BY <1>1 DEF Desk

\* A runner that is at work has stopped the run.
LEMMA AtWork ==
    ASSUME EpochsInOrder, NEW r \in Runners, desk[r].phase # "idle"
    PROVE  rb.status # "none" /\ run.status # "live"
BY DEF EpochsInOrder

LEMMA AwayShape ==
    /\ Away \in Desk /\ Away.phase = "idle"
    /\ \A t \in 1..5 : [Away EXCEPT !.phase = "begin", !.through = t] \in Desk
    /\ \A t, i \in 1..5 : [Away EXCEPT !.phase = "begin", !.step = i, !.through = t] \in Desk
<1>1. Away \in Desk /\ Away.phase = "idle"
  BY DEF Away, Desk
<1> QED
  BY <1>1 DEF Desk

LEMMA DeskShape ==
    ASSUME NEW d \in Desk
    PROVE  /\ [d EXCEPT !.phase = "releasing"] \in Desk
           /\ [d EXCEPT !.phase = "compensating"] \in Desk
           /\ [d EXCEPT !.phase = "ending"] \in Desk
           /\ [d EXCEPT !.phase = "apply", !.at = {}] \in Desk
           /\ \A x \in {"none", "done", "cleanup_required"} :
                 [d EXCEPT !.phase = "settle", !.result = x] \in Desk
           /\ [d EXCEPT !.phase = "apply", !.todo = Committed, !.targets = Committed] \in Desk
           /\ \A m \in Memories :
                 [d EXCEPT !.phase = "registered", !.todo = @ \ {m}, !.at = {m}] \in Desk
<1>1. Committed \in SUBSET Memories
  BY DEF Committed
<1> QED
  BY <1>1 DEF Desk

LEMMA AfterShape ==
    ASSUME NEW d \in Desk
    PROVE  After(d) \in Desk
<1>1. d.step \in 1..5 /\ d.through \in 1..5
  BY DEF Desk
<1>2. CASE d.step < d.through
  <2>1. d.step + 1 \in 1..5
    BY <1>1, <1>2
  <2> QED
    BY <1>1, <1>2, <2>1, AwayShape DEF After
<1>3. CASE ~(d.step < d.through)
  BY <1>3, DeskShape DEF After
<1> QED
  BY <1>2, <1>3

RunTypes == [status : {"live", "stopping", "stopped"}, epoch : 1..3]
RbTypes  == [status : {"none", "running", "cleanup_required", "phase_completed", "completed"},
             holder : Runners \cup {NoProc}, live : BOOLEAN]

\* A step of the runner that touches neither row nor operation.
LEMMA DeskStepOver ==
    ASSUME TypeOK, Ordered, UNCHANGED <<overdue, att, confirmed, removed, items, late, work>>,
           SameItems, stray' \in [Memories -> {"no", "new", "old"}],
           UNCHANGED <<row, op>>, SameHeads, RunStays, EpochsInOrder',
           run' \in RunTypes, rb' \in RbTypes, faults' \in 0..MaxFaults,
           head' \in [Memories -> {"none", "active", "changed", "deleted"}],
           del' \in [Memories -> {"absent", "pending", "compensated"}],
           comp' \in [Procs -> Compensating \cup {NoCompensation}],
           \A p \in Procs : comp'[p] = comp[p] \/ comp'[p] = NoCompensation
    PROVE  TypeOK' /\ Ordered'
<1>1. Quiet
  BY DEF Quiet
<1>2. Ordered'
  BY <1>1, StillOrdered
<1> QED
  BY <1>2 DEF TypeOK, RunTypes, RbTypes

LEMMA DeskStep ==
    ASSUME TypeOK, Ordered, Untouched, UNCHANGED <<row, op>>, SameHeads, RunStays, EpochsInOrder',
           run' \in RunTypes, rb' \in RbTypes, faults' \in 0..MaxFaults,
           head' \in [Memories -> {"none", "active", "changed", "deleted"}],
           del' \in [Memories -> {"absent", "pending", "compensated"}],
           comp' \in [Procs -> Compensating \cup {NoCompensation}],
           \A p \in Procs : comp'[p] = comp[p] \/ comp'[p] = NoCompensation
    PROVE  TypeOK' /\ Ordered'
<1>1. UNCHANGED <<overdue, att, confirmed, removed, items, late, stray, work>>
  BY DEF Untouched
<1>2. SameItems /\ stray' \in [Memories -> {"no", "new", "old"}]
  BY <1>1, ItemsUntouched DEF TypeOK
<1> QED
  BY <1>1, <1>2, DeskStepOver

LEMMA DeskMoves ==
    ASSUME TypeOK, DeskOK, Ordered, Untouched, UNCHANGED <<row, op, comp, faults, head, del, run>>,
           NEW r \in Runners, NEW d \in Desk, At(r, d), desk[r].phase # "idle",
           steps' \in [1..5 -> StepStatus], rb' \in RbTypes, rb'.status # "none"
    PROVE  TypeOK' /\ DeskOK' /\ Ordered'
<1>1. rb.status # "none" /\ run.status # "live"
  BY AtWork DEF Ordered
<1>2. EpochsInOrder' /\ RunStays /\ SameHeads
  BY <1>1 DEF EpochsInOrder, RunStays, SameHeads
<1>3. run' \in RunTypes /\ faults' \in 0..MaxFaults
      /\ head' \in [Memories -> {"none", "active", "changed", "deleted"}]
      /\ del' \in [Memories -> {"absent", "pending", "compensated"}]
      /\ comp' \in [Procs -> Compensating \cup {NoCompensation}]
  BY DEF TypeOK, RunTypes
<1>4. TypeOK' /\ Ordered'
  BY <1>2, <1>3, DeskStep
<1>5. DeskOK'
  BY DeskSet DEF DeskOK
<1> QED
  BY <1>4, <1>5

LEMMA RunStartStep ==
    ASSUME TypeOK, DeskOK, Ordered, NEW r \in Runners, NEW t \in Throughs, RunStart(r, t)
    PROVE  TypeOK' /\ DeskOK' /\ Ordered'
<1>1. /\ UNCHANGED <<head, row, del, op, comp, faults, steps>>
      /\ UNCHANGED <<overdue, att, confirmed, removed, items, late, work>>
      /\ run' = IF rb.status = "none" THEN StoppedRun ELSE run
      /\ rb' = [status |-> "running", holder |-> r, live |-> TRUE]
  BY DEF RunStart
<1>2. PICK d : d = [Away EXCEPT !.phase = "begin", !.through = t]
  OBVIOUS
<1>3. d \in Desk /\ At(r, d)
  BY <1>2, AwayShape, RollbackAssumption DEF RunStart
<1>4. DeskOK'
  BY <1>1, <1>3, DeskSet DEF DeskOK
<1>5. run \in RunTypes
  BY DEF TypeOK, RunTypes
<1>6. run' \in RunTypes /\ run'.status # "live"
  <2>1. CASE rb.status = "none"
    <3>1. run.epoch \in 1..2
      BY <1>5, <2>1 DEF Ordered, EpochsInOrder, RunTypes
    <3>2. run' = [status |-> "stopping", epoch |-> run.epoch + 1]
      BY <1>1, <2>1 DEF StoppedRun
    <3> QED
      BY <3>1, <3>2 DEF RunTypes
  <2>2. CASE rb.status # "none"
    BY <1>1, <1>5, <2>2 DEF Ordered, EpochsInOrder
  <2> QED
    BY <2>1, <2>2
<1>7. EpochsInOrder' /\ RunStays /\ SameHeads
  BY <1>1, <1>6 DEF EpochsInOrder, RunStays, SameHeads
<1>8. rb' \in RbTypes
  BY <1>1 DEF RbTypes
<1>9. faults' \in 0..MaxFaults
      /\ head' \in [Memories -> {"none", "active", "changed", "deleted"}]
      /\ del' \in [Memories -> {"absent", "pending", "compensated"}]
      /\ comp' \in [Procs -> Compensating \cup {NoCompensation}]
  BY <1>1 DEF TypeOK
<1>10. SameItems /\ stray' \in [Memories -> {"no", "new", "old"}]
  <2>1. stray' = [m \in Memories |-> IF stray[m] = "no" THEN "no" ELSE "old"]
    BY DEF RunStart
  <2> QED
    BY <1>1, <2>1 DEF SameItems
<1> QED
  BY <1>1, <1>4, <1>6, <1>7, <1>8, <1>9, <1>10, DeskStepOver

LEMMA FencedStep ==
    ASSUME TypeOK, DeskOK, Ordered, NEW r \in Runners, Fenced(r)
    PROVE  TypeOK' /\ DeskOK' /\ Ordered'
<1>1. /\ UNCHANGED <<run, head, row, del, op, comp, rb, faults, steps>> /\ Untouched
      /\ desk[r].phase # "idle" /\ At(r, [desk[r] EXCEPT !.phase = "releasing"])
  BY DEF Fenced
<1>2. [desk[r] EXCEPT !.phase = "releasing"] \in Desk
  BY AtDesk, DeskShape
<1>3. rb' \in RbTypes /\ rb'.status # "none" /\ steps' \in [1..5 -> StepStatus]
  BY <1>1, AtWork DEF TypeOK, RbTypes, Ordered, DeskOK
<1>4. PICK d \in Desk : At(r, d)
  BY <1>1, <1>2
<1> QED
  BY <1>1, <1>3, <1>4, DeskMoves

LEMMA BeginStepStep ==
    ASSUME TypeOK, DeskOK, Ordered, NEW r \in Runners, BeginStep(r)
    PROVE  TypeOK' /\ DeskOK' /\ Ordered'
<1>1. /\ UNCHANGED <<run, head, row, del, op, comp, rb, faults>> /\ Untouched
      /\ desk[r].phase # "idle"
  BY DEF BeginStep
<1>2. desk[r] \in Desk /\ desk[r].step \in 1..5
  BY AtDesk
<1>3. PICK d \in Desk : At(r, d)
  <2>1. After(desk[r]) \in Desk
        /\ [desk[r] EXCEPT !.phase = "apply", !.todo = Committed, !.targets = Committed] \in Desk
    BY <1>2, DeskShape, AfterShape
  <2> QED
    BY <2>1 DEF BeginStep
<1>4. steps' \in [1..5 -> StepStatus]
  <2>1. steps' = steps \/ steps' = [steps EXCEPT ![desk[r].step] = "running"]
    BY DEF BeginStep
  <2> QED
    BY <1>2, <2>1 DEF DeskOK, StepStatus
<1>5. rb' \in RbTypes /\ rb'.status # "none"
  BY <1>1, AtWork DEF TypeOK, RbTypes, Ordered
<1> QED
  BY <1>1, <1>3, <1>4, <1>5, DeskMoves

\* The steps that end in a receipt, and change nothing here.
LEMMA SettledQuietly ==
    ASSUME TypeOK, DeskOK, Ordered, NEW r \in Runners, desk[r].phase # "idle", Untouched,
           NEW x \in {"none", "done", "cleanup_required"}, ToSettle(r, x),
           UNCHANGED <<run, head, row, del, op, comp, rb, faults, steps>>
    PROVE  TypeOK' /\ DeskOK' /\ Ordered'
<1>1. [desk[r] EXCEPT !.phase = "settle", !.result = x] \in Desk
  BY AtDesk, DeskShape
<1>2. PICK d \in Desk : At(r, d)
  BY <1>1 DEF ToSettle
<1>3. rb' \in RbTypes /\ rb'.status # "none" /\ steps' \in [1..5 -> StepStatus]
  BY AtWork DEF TypeOK, RbTypes, Ordered, DeskOK
<1> QED
  BY <1>2, <1>3, DeskMoves

LEMMA ApplySteps ==
    ASSUME TypeOK, DeskOK, Ordered, NEW r \in Runners,
           ApplyFreeze(r) \/ ApplyShadow(r) \/ ApplyVerify(r)
    PROVE  TypeOK' /\ DeskOK' /\ Ordered'
<1>1. /\ UNCHANGED <<run, head, row, del, op, comp, rb, faults, steps>> /\ Untouched
      /\ desk[r].phase # "idle"
  BY DEF ApplyFreeze, ApplyShadow, ApplyVerify
<1>2. PICK x \in {"none", "done", "cleanup_required"} : ToSettle(r, x)
  <2>1. CASE ApplyVerify(r)
    BY <2>1 DEF ApplyVerify
  <2>2. CASE ApplyFreeze(r) \/ ApplyShadow(r)
    BY <2>2 DEF ApplyFreeze, ApplyShadow
  <2> QED
    BY <2>1, <2>2
<1> QED
  BY <1>1, <1>2, SettledQuietly

\* The memories are forgotten, and their deletions settled, under a stopped run.
LEMMA DeletionsStep ==
    ASSUME TypeOK, DeskOK, Ordered, NEW r \in Runners, ApplyMemory(r) \/ SettleDeletions(r)
    PROVE  TypeOK' /\ DeskOK' /\ Ordered'
<1>1. /\ UNCHANGED <<run, row, op, comp, rb, faults, steps>> /\ Untouched
      /\ desk[r].phase # "idle"
  BY DEF ApplyMemory, SettleDeletions
<1>2. PICK x \in {"none", "done", "cleanup_required"} : ToSettle(r, x)
  BY DEF ApplyMemory, SettleDeletions
<1>3. [desk[r] EXCEPT !.phase = "settle", !.result = x] \in Desk
  BY AtDesk, DeskShape
<1>4. DeskOK'
  BY <1>1, <1>2, <1>3, DeskSet DEF DeskOK, ToSettle
<1>5. rb.status # "none" /\ run.status # "live"
  BY <1>1, AtWork DEF Ordered
<1>6. EpochsInOrder' /\ RunStays
  BY <1>1, <1>5 DEF EpochsInOrder, RunStays
<1>7. /\ head' \in [Memories -> {"none", "active", "changed", "deleted"}] /\ SameHeads
      /\ del' \in [Memories -> {"absent", "pending", "compensated"}]
  <2>1. CASE UNCHANGED <<head, del>>
    BY <2>1 DEF TypeOK, SameHeads
  <2>2. CASE SettleDeletions(r)
    BY <2>2 DEF SettleDeletions, TypeOK, SameHeads
  <2>3. CASE ApplyMemory(r) /\ ~UNCHANGED <<head, del>>
    <3>1. /\ \A m \in desk[r].targets : head[m] # "changed"
          /\ head' = [m \in Memories |-> IF m \in desk[r].targets THEN "deleted" ELSE head[m]]
          /\ del' = [m \in Memories |-> IF m \in desk[r].targets /\ head[m] = "active"
                                        THEN Queued(del[m]) ELSE del[m]]
      BY <2>3 DEF ApplyMemory
    <3> QED
      BY <3>1 DEF TypeOK, SameHeads, Queued
  <2> QED
    BY <2>1, <2>2, <2>3
<1>8. comp' = comp /\ comp' \in [Procs -> Compensating \cup {NoCompensation}]
      /\ faults' \in 0..MaxFaults /\ rb' \in RbTypes /\ run' \in RunTypes
  BY <1>1 DEF TypeOK, RbTypes, RunTypes
<1> QED
  BY <1>1, <1>4, <1>6, <1>7, <1>8, DeskStep

LEMMA SettleStepStep ==
    ASSUME TypeOK, DeskOK, Ordered, NEW r \in Runners, SettleStep(r)
    PROVE  TypeOK' /\ DeskOK' /\ Ordered'
<1>1. /\ UNCHANGED <<run, head, row, del, op, comp, faults>> /\ Untouched
      /\ desk[r].phase # "idle"
      /\ steps' = [steps EXCEPT ![desk[r].step] = desk[r].result]
      /\ rb' = rb \/ rb' = [rb EXCEPT !.status = "cleanup_required"]
  BY DEF SettleStep
<1>2. desk[r] \in Desk /\ desk[r].step \in 1..5 /\ desk[r].result \in {"none", "done", "cleanup_required"}
  BY AtDesk
<1>3. PICK d \in Desk : At(r, d)
  <2>1. After(desk[r]) \in Desk /\ [desk[r] EXCEPT !.phase = "releasing"] \in Desk
    BY <1>2, DeskShape, AfterShape
  <2> QED
    BY <2>1 DEF SettleStep
<1>4. steps' \in [1..5 -> StepStatus]
  BY <1>1, <1>2 DEF DeskOK, StepStatus
<1>5. rb \in RbTypes /\ rb.status # "none"
  BY <1>1, AtWork DEF TypeOK, RbTypes, Ordered
<1>6. rb' \in RbTypes /\ rb'.status # "none"
  BY <1>1, <1>5 DEF RbTypes
<1> QED
  BY <1>1, <1>3, <1>4, <1>6, DeskMoves

LEMMA EndStep ==
    ASSUME TypeOK, DeskOK, Ordered, NEW r \in Runners, End(r)
    PROVE  TypeOK' /\ DeskOK' /\ Ordered'
<1>1. /\ UNCHANGED <<head, row, del, op, comp, faults, steps>> /\ Untouched
      /\ desk[r].phase # "idle" /\ At(r, [desk[r] EXCEPT !.phase = "releasing"])
  BY DEF End
<1>2. DeskOK'
  BY <1>1, AtDesk, DeskShape, DeskSet DEF DeskOK
<1>3. /\ run' = run \/ run' = [run EXCEPT !.status = "stopped"]
      /\ \/ rb' = rb
         \/ rb' = [rb EXCEPT !.status = "completed"]
         \/ rb' = [rb EXCEPT !.status = "phase_completed"]
  BY DEF End
<1>4. run \in RunTypes /\ rb \in RbTypes /\ rb.status # "none" /\ run.status # "live"
  BY <1>1, AtWork DEF TypeOK, RunTypes, RbTypes, Ordered
<1>5. run' \in RunTypes /\ run'.status # "live"
  BY <1>3, <1>4 DEF RunTypes
<1>6. rb' \in RbTypes /\ rb'.status # "none"
  BY <1>3, <1>4 DEF RbTypes
<1>7. EpochsInOrder' /\ RunStays /\ SameHeads
  BY <1>1, <1>5, <1>6 DEF EpochsInOrder, RunStays, SameHeads
<1>8. faults' \in 0..MaxFaults
      /\ head' \in [Memories -> {"none", "active", "changed", "deleted"}]
      /\ del' \in [Memories -> {"absent", "pending", "compensated"}]
      /\ comp' \in [Procs -> Compensating \cup {NoCompensation}]
  BY <1>1 DEF TypeOK
<1> QED
  BY <1>1, <1>2, <1>5, <1>6, <1>7, <1>8, DeskStep

LEMMA ReleaseStep ==
    ASSUME TypeOK, DeskOK, Ordered, NEW r \in Runners, Release(r)
    PROVE  TypeOK' /\ DeskOK' /\ Ordered'
<1>1. /\ UNCHANGED <<run, head, row, del, op, comp, faults, steps>> /\ Untouched
      /\ desk[r].phase # "idle" /\ At(r, Away)
      /\ rb' = rb \/ rb' = [rb EXCEPT !.holder = NoProc, !.live = FALSE]
  BY DEF Release
<1>2. rb \in RbTypes /\ rb.status # "none"
  BY <1>1, AtWork DEF TypeOK, RbTypes, Ordered
<1>3. rb' \in RbTypes /\ rb'.status # "none"
  BY <1>1, <1>2 DEF RbTypes
<1>4. PICK d \in Desk : At(r, d)
  BY <1>1, AwayShape
<1>5. steps' \in [1..5 -> StepStatus]
  BY <1>1 DEF DeskOK
<1> QED
  BY <1>1, <1>3, <1>4, <1>5, DeskMoves

LEMMA RunnerCrashStep ==
    ASSUME TypeOK, DeskOK, Ordered, NEW r \in Runners, RunnerCrash(r)
    PROVE  TypeOK' /\ DeskOK' /\ Ordered'
<1>1. /\ UNCHANGED <<run, head, row, del, op, rb, steps>> /\ Untouched /\ Fault
      /\ desk[r].phase # "idle" /\ At(r, Away)
      /\ comp' = [comp EXCEPT ![r] = NoCompensation]
  BY DEF RunnerCrash
<1>2. DeskOK'
  BY <1>1, AwayShape, DeskSet DEF DeskOK
<1>3. /\ comp' \in [Procs -> Compensating \cup {NoCompensation}]
      /\ \A p \in Procs : comp'[p] = comp[p] \/ comp'[p] = NoCompensation
  BY <1>1 DEF TypeOK
<1>4. rb.status # "none" /\ run.status # "live"
  BY <1>1, AtWork DEF Ordered
<1>5. EpochsInOrder' /\ RunStays /\ SameHeads
  BY <1>1, <1>4 DEF EpochsInOrder, RunStays, SameHeads
<1>6. run' \in RunTypes /\ rb' \in RbTypes
      /\ head' \in [Memories -> {"none", "active", "changed", "deleted"}]
      /\ del' \in [Memories -> {"absent", "pending", "compensated"}]
  BY <1>1 DEF TypeOK, RunTypes, RbTypes
<1>7. faults' \in 0..MaxFaults
  BY <1>1, FaultKept
<1> QED
  BY <1>1, <1>2, <1>3, <1>5, <1>6, <1>7, DeskStep

LEMMA LapseRunnerStep ==
    ASSUME TypeOK, DeskOK, Ordered, LapseRunner
    PROVE  TypeOK' /\ DeskOK' /\ Ordered'
<1>1. /\ UNCHANGED <<run, head, row, del, op, comp, steps, desk>> /\ Untouched
      /\ Fault \/ faults' = faults
      /\ rb' = [rb EXCEPT !.live = FALSE]
  BY DEF LapseRunner
<1>2. rb \in RbTypes
  BY DEF TypeOK, RbTypes
<1>3. rb' \in RbTypes /\ rb'.status = rb.status
  BY <1>1, <1>2 DEF RbTypes
<1>4. EpochsInOrder' /\ RunStays /\ SameHeads
  BY <1>1, <1>3 DEF EpochsInOrder, RunStays, SameHeads, Ordered
<1>5. run' \in RunTypes /\ comp' = comp
      /\ head' \in [Memories -> {"none", "active", "changed", "deleted"}]
      /\ del' \in [Memories -> {"absent", "pending", "compensated"}]
      /\ comp' \in [Procs -> Compensating \cup {NoCompensation}]
  BY <1>1 DEF TypeOK, RunTypes
<1>6. faults' \in 0..MaxFaults
  BY <1>1, FaultKept
<1>7. DeskOK'
  BY <1>1 DEF DeskOK
<1> QED
  BY <1>1, <1>3, <1>4, <1>5, <1>6, <1>7, DeskStep

\* register: an operation without a claim stays one.
LEMMA RegisterStep ==
    ASSUME TypeOK, DeskOK, Ordered, NEW r \in Runners, NEW m \in Memories, Register(r, m)
    PROVE  TypeOK' /\ DeskOK' /\ Ordered'
<1>1. /\ UNCHANGED <<run, head, row, del, comp, rb, faults, steps>> /\ Untouched
      /\ desk[r].phase # "idle"
      /\ At(r, [desk[r] EXCEPT !.phase = "registered", !.todo = @ \ {m}, !.at = {m}])
  BY DEF Register
<1>2. desk[r] \in Desk
  BY AtDesk
<1>3. DeskOK'
  BY <1>1, <1>2, DeskShape, DeskSet DEF DeskOK
<1>4. op[m] \in Op /\ MemHolds(m) /\ run.epoch \in 0..3
  BY Holdings DEF Ordered, Mems, TypeOK
<1>5. PICK o : o = IF op[m].state = "absent"
                   THEN [NoOp EXCEPT !.state = "registered", !.epoch = run.epoch]
                   ELSE IF m \in confirmed
                        THEN [op[m] EXCEPT !.locator = TRUE,
                                           !.digest = IF op[m].digest = "none" THEN "body"
                                                      ELSE op[m].digest]
                        ELSE op[m]
  OBVIOUS
<1>6. o \in Op /\ o.token = op[m].token /\ o.live = op[m].live /\ o.comp = op[m].comp
      /\ o.state = IF op[m].state = "absent" THEN "registered" ELSE op[m].state
  <2>1. CASE op[m].state = "absent"
    <3>1. PICK e \in 0..3 : e = run.epoch
      BY <1>4
    <3>2. op[m] = NoOp
      BY <1>4, <2>1 DEF MemHolds, RowInOrder, Exposed
    <3>3. NoOp \in Op /\ "registered" \in OpStates
      BY <1>4, <3>2 DEF OpStates
    <3>4. o = [NoOp EXCEPT !.state = "registered", !.epoch = e]
      BY <1>5, <2>1, <3>1
    <3> QED
      BY <2>1, <3>2, <3>3, <3>4 DEF Op
  <2>2. CASE op[m].state # "absent" /\ m \in confirmed
    <3>1. PICK g \in {"none", "body", "erased"} :
             g = IF op[m].digest = "none" THEN "body" ELSE op[m].digest
      BY <1>4, OpShape
    <3>2. o = [op[m] EXCEPT !.locator = TRUE, !.digest = g]
      BY <1>5, <2>2, <3>1
    <3> QED
      BY <1>4, <2>2, <3>2 DEF Op
  <2>3. CASE op[m].state # "absent" /\ m \notin confirmed
    BY <1>4, <1>5, <2>3
  <2> QED
    BY <2>1, <2>2, <2>3
<1>7. op' = [op EXCEPT ![m] = o]
  <2>1. CASE op[m].state = "absent"
    BY <1>5, <2>1 DEF Register
  <2>2. CASE op[m].state # "absent" /\ m \in confirmed
    BY <1>5, <2>2 DEF Register
  <2>3. CASE op[m].state # "absent" /\ m \notin confirmed
    BY <1>5, <2>3 DEF Register
  <2> QED
    BY <2>1, <2>2, <2>3
<1>8. /\ op' \in [Memories -> Op] /\ op'[m] = o
      /\ \A k \in Memories : k # m => op'[k] = op[k]
  BY <1>6, <1>7, OpSet
<1>9. rb.status # "none" /\ run.status # "live"
  BY <1>1, AtWork DEF Ordered
<1>10. EpochsInOrder'
  BY <1>1, <1>9 DEF EpochsInOrder
<1>11. MemHolds(m)'
  BY <1>1, <1>4, <1>6, <1>8, <1>9 DEF MemHolds, RowInOrder, Exposed, Untouched, Finished
<1>12. SameBut(m) /\ SameHeads /\ RunStays
  BY <1>1, <1>8, ItemsUntouched DEF SameBut, SameHeads, RunStays, Untouched
<1>13. ASSUME NEW v \in Workers, work[v] # Idle, work[v].m = m PROVE ClaimHolds(v)'
  <2>1. ClaimInOrder(v)
    BY <1>13 DEF Ordered, Claims, ClaimHolds
  <2>2. CallHolds(v) => CallHolds(v)'
    BY <1>1, <1>6, <1>8, <1>13 DEF CallHolds, Untouched
  <2>3. InLease(work[v])' => InLease(work[v])
    BY <1>1, <1>6, <1>8, <1>13, LeaseKept DEF Untouched
  <2> QED
    BY <1>1, <1>13, <2>1, <2>2, <2>3 DEF ClaimHolds, ClaimInOrder, Untouched
<1>14. ASSUME NEW p \in Procs, comp[p] # NoCompensation, comp[p].m = m PROVE CompHolds(p)'
  BY <1>1, <1>6, <1>8, <1>14 DEF Ordered, Comps, CompHolds, CompensationHolds, Untouched
<1>15. ClaimsApart'
  BY <1>1, ClaimsSame DEF Ordered, Untouched
<1>16. OthersKept(m)
  BY <1>1, <1>11, <1>12, <1>13, <1>14 DEF OthersKept, Untouched
<1>17. Ordered'
  BY <1>10, <1>15, <1>16, OnMemory
<1>18. TypeOK'
  BY <1>1, <1>8 DEF TypeOK, Untouched
<1> QED
  BY <1>3, <1>17, <1>18

LEMMA RunnerCompensatesStep ==
    ASSUME TypeOK, DeskOK, Ordered, NEW r \in Runners, NEW m \in Memories, RunnerCompensates(r, m)
    PROVE  TypeOK' /\ DeskOK' /\ Ordered'
<1>1. /\ UNCHANGED <<run, head, row, del, rb, faults, steps>> /\ Untouched
      /\ desk[r].phase # "idle"
  BY DEF RunnerCompensates
<1>2. CASE CompBusy(m)
  <2>1. ToSettle(r, "cleanup_required") /\ UNCHANGED <<op, comp>>
    BY <1>2 DEF RunnerCompensates
  <2>2. PICK x \in {"none", "done", "cleanup_required"} : ToSettle(r, x)
    BY <2>1
  <2> QED
    BY <1>1, <2>1, <2>2, SettledQuietly
<1>3. CASE ~CompBusy(m)
  <2>1. CompStart(r, m) /\ At(r, [desk[r] EXCEPT !.phase = "compensating"])
    BY <1>3 DEF RunnerCompensates
  <2>2. rb.status # "none" /\ run.status # "live"
    BY <1>1, AtWork DEF Ordered
  <2>3. EpochsInOrder'
    BY <1>1, <2>2 DEF EpochsInOrder
  <2>4. DeskOK'
    BY <1>1, <2>1, AtDesk, DeskShape, DeskSet DEF DeskOK
  <2>5. r \in Procs
    BY DEF Procs
  <2>6. /\ Ordered' /\ op' \in [Memories -> Op]
        /\ comp' \in [Procs -> Compensating \cup {NoCompensation}]
    BY <1>1, <1>3, <2>1, <2>2, <2>3, <2>5, CompStarts DEF Untouched
  <2> QED
    BY <1>1, <2>4, <2>6 DEF TypeOK, Untouched
<1> QED
  BY <1>2, <1>3

LEMMA RunnerRecordsStep ==
    ASSUME TypeOK, DeskOK, Ordered, NEW r \in Runners, NEW m \in Memories, RunnerRecords(r, m)
    PROVE  TypeOK' /\ DeskOK' /\ Ordered'
<1>1. /\ UNCHANGED <<overdue, head, del, confirmed, items, late, stray, work, faults, steps>>
      /\ CompRecorded(r) /\ desk[r].phase # "idle" /\ r \in Procs
  BY DEF RunnerRecords, Procs
<1>2. DeskOK'
  <2>1. /\ [desk[r] EXCEPT !.phase = "apply", !.at = {}] \in Desk
        /\ [desk[r] EXCEPT !.phase = "settle", !.result = "cleanup_required"] \in Desk
    BY AtDesk, DeskShape
  <2>2. PICK d \in Desk : At(r, d)
    BY <2>1 DEF RunnerRecords, ToSettle
  <2> QED
    BY <1>1, <2>2, DeskSet DEF DeskOK
<1>3. rb.status # "none" /\ run.status # "live"
  BY <1>1, AtWork DEF Ordered
<1>4. run \in RunTypes /\ rb \in RbTypes
  BY DEF TypeOK, RunTypes, RbTypes
<1>5. \/ run' = run /\ rb' = rb
      \/ run' = [run EXCEPT !.status = "stopping"] /\ rb' = [rb EXCEPT !.status = "cleanup_required"]
  BY <1>1, <1>3 DEF CompRecorded
<1>6. run'.status # "live" /\ rb'.status # "none"
  BY <1>3, <1>4, <1>5 DEF RunTypes, RbTypes
<1>7. EpochsInOrder' /\ ClaimsApart'
  BY <1>1, <1>6, ClaimsSame DEF EpochsInOrder, Ordered
<1> QED
  BY <1>1, <1>2, <1>7, CompRecords DEF TypeOK

LEMMA RunnerStepStep ==
    ASSUME TypeOK, DeskOK, Ordered, NEW r \in Runners, RunnerStep(r)
    PROVE  TypeOK' /\ DeskOK' /\ Ordered'
<1>1. CASE \E t \in Throughs : RunStart(r, t)
  BY <1>1, RunStartStep
<1>2. CASE Fenced(r) \/ BeginStep(r)
  BY <1>2, FencedStep, BeginStepStep
<1>3. CASE ApplyFreeze(r) \/ ApplyMemory(r) \/ ApplyShadow(r) \/ ApplyVerify(r)
  BY <1>3, ApplySteps, DeletionsStep
<1>4. CASE \E m \in Memories : Register(r, m) \/ RunnerCompensates(r, m) \/ RunnerRecords(r, m)
  BY <1>4, RegisterStep, RunnerCompensatesStep, RunnerRecordsStep
<1>5. CASE CompRemote(r) /\ UNCHANGED kept
  BY <1>5, CompRemoteStep DEF Kept, kept, Procs, DeskOK
<1>6. CASE SettleDeletions(r) \/ SettleStep(r) \/ End(r) \/ Release(r)
  BY <1>6, DeletionsStep, SettleStepStep, EndStep, ReleaseStep
<1> QED
  BY <1>1, <1>2, <1>3, <1>4, <1>5, <1>6 DEF RunnerStep

LEMMA StepKeeps ==
    ASSUME IInv, RollbackNext
    PROVE  IInv'
<1> USE DEF IInv
<1>1. CASE WorkerNext /\ UNCHANGED kept
  BY <1>1, WorkerNextStep DEF kept, DeskOK
<1>2. CASE \E r \in Runners : RunnerStep(r) \/ RunnerCrash(r)
  BY <1>2, RunnerStepStep, RunnerCrashStep
<1>3. CASE LapseRunner
  BY <1>3, LapseRunnerStep
<1> QED
  BY <1>1, <1>2, <1>3 DEF RollbackNext

LEMMA InitHolds ==
    ASSUME RollbackInit
    PROVE  IInv
<1> USE DEF RollbackInit, Init
<1>1. /\ NoRow \in Row /\ NoRow.status = "absent" /\ NoRow.attempts = 0 /\ NoRow.lease = "none"
      /\ NoAttempt \in Attempt /\ ~NoAttempt.finished
      /\ NoOp \in Op /\ NoOp.state = "absent" /\ NoOp.token = 0 /\ NoOp.comp = NoProc
  <2>1. 0 \in 0..MaxAttempts
    BY CompensationAssumption
  <2> QED
    BY <2>1 DEF NoRow, Row, RowStatuses, NoAttempt, Attempt, NoOp, Op, OpStates
<1>2. TypeOK
  <2>1. att \in [Memories -> [1..MaxAttempts -> Attempt]]
    BY <1>1
  <2>2. row \in [Memories -> Row] /\ op \in [Memories -> Op]
    BY <1>1
  <2>3. /\ run \in [status : {"live", "stopping", "stopped"}, epoch : 1..3]
        /\ faults \in 0..MaxFaults
        /\ rb \in [status : {"none", "running", "cleanup_required", "phase_completed", "completed"},
                   holder : Runners \cup {NoProc}, live : BOOLEAN]
    BY CompensationAssumption
  <2> QED
    BY <2>1, <2>2, <2>3 DEF TypeOK
<1>3. DeskOK
  BY AwayShape DEF DeskOK, StepStatus
<1>4. Mems
  BY <1>1 DEF Mems, MemHolds, RowInOrder, Exposed, Finished, Compensated
<1>5. Claims /\ Comps /\ ClaimsApart
  BY DEF Claims, ClaimHolds, Comps, CompHolds, ClaimsApart
<1>6. EpochsInOrder
  BY AwayShape DEF EpochsInOrder
<1> QED
  BY <1>2, <1>3, <1>4, <1>5, <1>6 DEF IInv, Ordered

LEMMA StutterKeeps ==
    ASSUME IInv, UNCHANGED rvars
    PROVE  IInv'
<1> USE DEF rvars
<1>1. TypeOK' /\ DeskOK'
  BY DEF IInv, TypeOK, DeskOK
<1>2. EpochsInOrder'
  BY EpochsSame DEF IInv, Ordered
<1>3. Quiet
  BY ItemsUntouched DEF Quiet, SameHeads, RunStays
<1> QED
  BY <1>1, <1>2, <1>3, StillOrdered DEF IInv

-----------------------------------------------------------------------------
(***************************************************************************)
(* The runners, given the rest: what the one with the lease has cleaned.   *)
(***************************************************************************)
\* No projection comes to be stray from before the rollback's last start.
NoneOlder == \A m \in Memories : stray'[m] = "old" => stray[m] = "old"

SameLease == rb'.holder = rb.holder /\ rb'.live = rb.live

LEMMA CleanedMemories ==
    ASSUME NEW d
    PROVE  Cleaned(d) \subseteq Memories
BY DEF Cleaned

LEMMA RunnerKept ==
    ASSUME TypeOK, NEW r \in Runners, RunnerInOrder(r), NoneOlder,
           desk'[r] = desk[r], comp'[r] = comp[r], Holds(r)' => Holds(r),
           Holds(r)' /\ rb'.status = "completed" => rb.status = "completed"
    PROVE  RunnerInOrder(r)'
<1>1. comp[r].status = "compensated" => comp[r].m \in Memories
  <2>1. r \in Procs
    BY DEF Procs
  <2> QED
    BY <2>1, CompShape DEF TypeOK
<1>2. Cleaned(desk[r])' = Cleaned(desk[r]) /\ Cleaned(desk[r]) \subseteq Memories
  BY CleanedMemories DEF Cleaned
<1> QED
  BY <1>1, <1>2 DEF RunnerInOrder, NoneOlder

LEMMA WrittenNoneOlder ==
    ASSUME TypeOK, NEW m \in Memories, NEW b, Written(m, b)
    PROVE  NoneOlder
<1>1. stray' = stray \/ stray' = [stray EXCEPT ![m] = "new"]
  BY DEF Written
<1> QED
  BY <1>1 DEF NoneOlder, TypeOK

LEMMA ErasedNoneOlder ==
    ASSUME TypeOK, NEW m, Erased(m)
    PROVE  NoneOlder
BY DEF Erased, NoneOlder, TypeOK

LEMMA StraySame ==
    ASSUME stray' = stray
    PROVE  NoneOlder
BY DEF NoneOlder

LEMMA RecordedLease ==
    ASSUME TypeOK, NEW p, CompRecorded(p)
    PROVE  SameLease /\ (rb'.status = "completed" => rb.status = "completed")
<1>1. \/ rb' = rb
      \/ rb' = [rb EXCEPT !.status = IF rb.status = "none" THEN rb.status ELSE "cleanup_required"]
  BY DEF CompRecorded
<1> QED
  BY <1>1 DEF TypeOK, SameLease

\* What the workers leave to the runners.
LEMMA WorkersSpare ==
    ASSUME TypeOK, NEW w \in Workers, WorkerStep(w) \/ CallFails(w) \/ LookupFails(w) \/ Crash(w)
    PROVE  /\ NoneOlder /\ SameLease /\ (rb'.status = "completed" => rb.status = "completed")
           /\ \A r \in Runners : comp'[r] = comp[r]
<1>1. CASE \E m \in Memories : ClaimNext(w, m)
  BY <1>1, StraySame DEF ClaimNext, SameLease
<1>2. CASE \/ CheckHead(w) \/ StartCall(w) \/ StartVerify(w) \/ FencedCall(w) \/ Locate(w)
           \/ Record(w) \/ CheckRun(w) \/ Inspect(w)
  BY <1>2, StraySame DEF CheckHead, StartCall, StartVerify, FencedCall, Locate, Record, CheckRun,
     Inspect, SameLease
<1>3. CASE Settle(w) \/ FinishWithoutLocator(w) \/ MarkCleanup(w) \/ LookupFails(w)
  BY <1>3, StraySame DEF Settle, FinishWithoutLocator, MarkCleanup, LookupFails, SameLease
<1>4. CASE Materialize(w) \/ CallFails(w) \/ Crash(w)
  <2>1. work[w] # Idle
    BY <1>4, IdleShape DEF Materialize, CallFails, Crash
  <2>2. PICK m \in Memories : m = work[w].m
    BY <2>1, Working
  <2>3. stray' = stray \/ \E b \in {TRUE, FALSE, ~InLease(work[w])} : Written(m, b)
    BY <1>4, <2>2 DEF Materialize, CallFails, Crash, Unanswered
  <2>4. NoneOlder
    BY <2>2, <2>3, WrittenNoneOlder, StraySame
  <2>5. rb' = rb /\ (comp' = comp \/ comp' = [comp EXCEPT ![w] = NoCompensation])
    BY <1>4 DEF Materialize, CallFails, Crash
  <2> QED
    BY <2>4, <2>5, CompensationAssumption DEF SameLease, TypeOK, Procs
<1>5. CASE WorkerCompensates(w)
  <2>1. stray' = stray /\ rb' = rb
    BY <1>5 DEF WorkerCompensates
  <2>2. \A r \in Runners : comp'[r] = comp[r]
    BY <1>5, CompensationAssumption DEF WorkerCompensates, CompStart, TypeOK, Procs
  <2> QED
    BY <2>1, <2>2, StraySame DEF SameLease
<1>6. CASE CompRemote(w)
  <2>1. rb' = rb /\ (stray' = stray \/ Erased(comp[w].m))
    BY <1>6 DEF CompRemote
  <2>2. \A r \in Runners : comp'[r] = comp[r]
    BY <1>6, CompensationAssumption DEF CompRemote, TypeOK, Procs
  <2> QED
    BY <2>1, <2>2, StraySame, ErasedNoneOlder DEF SameLease
<1>7. CASE WorkerRecords(w)
  <2>1. CompRecorded(w) /\ stray' = stray
    BY <1>7 DEF WorkerRecords
  <2>2. \A r \in Runners : comp'[r] = comp[r]
    BY <2>1, CompensationAssumption DEF CompRecorded, TypeOK, Procs
  <2> QED
    BY <2>1, <2>2, StraySame, RecordedLease
<1> QED
  BY <1>1, <1>2, <1>3, <1>4, <1>5, <1>6, <1>7 DEF WorkerStep

\* A runner's own request to the backend, or its failure.
LEMMA RemoteRuns ==
    ASSUME TypeOK, Runs, NEW p \in Procs, CompRemote(p) \/ CompFails(p), UNCHANGED desk
    PROVE  Runs'
<1>1. rb' = rb /\ (stray' = stray \/ Erased(comp[p].m)) /\ comp[p].status = "none"
  BY DEF CompRemote, CompFails
<1>2. comp \in [Procs -> Compensating \cup {NoCompensation}] /\ Runners \subseteq Procs
  BY DEF TypeOK, Procs
<1>3. comp[p] # NoCompensation /\ comp[p] \in Compensating /\ comp[p].m \in Memories
  BY <1>1, <1>2, CompShape
<1>4. NoneOlder
  BY <1>1, StraySame, ErasedNoneOlder
<1>5. /\ \A q \in Procs : q # p => comp'[q] = comp[q]
      /\ comp'[p].m = comp[p].m
      /\ comp'[p].status = "compensated" => Erased(comp[p].m)
  <2>1. CASE comp' = [comp EXCEPT ![p].status = "cleanup_required"]
    BY <1>2, <1>3, <2>1 DEF Compensating
  <2>2. CASE /\ comp' = [comp EXCEPT ![p].status = "compensated",
                                     ![p].locator = @ \/ comp[p].m \in items]
             /\ Erased(comp[p].m)
    BY <1>2, <1>3, <2>2 DEF Compensating
  <2> QED
    BY <2>1, <2>2 DEF CompRemote, CompFails
<1>6. ASSUME NEW r \in Runners PROVE RunnerInOrder(r)'
  <2>1. RunnerInOrder(r)
    BY DEF Runs
  <2>2. CASE r # p
    BY <1>1, <1>2, <1>4, <1>5, <2>1, <2>2, RunnerKept DEF Holds
  <2>3. CASE r = p
    <3>1. desk[r].phase = "compensating" /\ desk'[r] = desk[r]
      BY <1>3, <2>1, <2>3 DEF RunnerInOrder
    <3>2. comp'[r].status = "compensated" => stray'[comp'[r].m] = "no"
      BY <1>3, <1>5, <2>3 DEF Erased, TypeOK
    <3>3. Cleaned(desk[r])' = Cleaned(desk[r]) /\ Cleaned(desk[r]) \subseteq Memories
      BY <3>1, CleanedMemories DEF Cleaned
    <3>4. Holds(r)' = Holds(r)
      BY <1>1 DEF Holds
    <3> QED
      BY <1>1, <1>4, <1>5, <2>1, <2>3, <3>1, <3>2, <3>3, <3>4 DEF RunnerInOrder, NoneOlder
  <2> QED
    BY <2>2, <2>3
<1> QED
  BY <1>6 DEF Runs

LEMMA WorkersRuns ==
    ASSUME TypeOK, Runs, WorkerNext, UNCHANGED desk
    PROVE  Runs'
<1>1. ASSUME NoneOlder, SameLease, rb'.status = "completed" => rb.status = "completed",
             \A r \in Runners : comp'[r] = comp[r]
      PROVE  Runs'
  BY <1>1, RunnerKept DEF Runs, SameLease, Holds
<1>2. CASE \E m \in Memories : \/ ReviewedCommit(m) \/ UserChanges(m) \/ UserForgets(m)
                               \/ LapseClaim(m) \/ LapseBarrier(m) \/ LapseCompensation(m)
  BY <1>1, <1>2, StraySame DEF ReviewedCommit, UserChanges, UserForgets, LapseClaim,
     LapseBarrier, LapseCompensation, SameLease
<1>3. CASE DeadlinePasses \/ Stop \/ SweepOnly
  BY <1>1, <1>3, StraySame DEF DeadlinePasses, Stop, SweepOnly, SameLease
<1>4. CASE \E m \in Memories : LateWriteLands(m)
  BY <1>1, <1>4, WrittenNoneOlder DEF LateWriteLands, SameLease
<1>5. CASE \E p \in Procs : CompFails(p)
  BY <1>5, RemoteRuns
<1>6. ASSUME NEW w \in Workers, WorkerStep(w) \/ CallFails(w) \/ LookupFails(w) \/ Crash(w)
      PROVE  Runs'
  BY <1>1, <1>6, WorkersSpare
<1> QED
  BY <1>2, <1>3, <1>4, <1>5, <1>6 DEF WorkerNext

\* The others stay where they are when one of them moves, or lose the lease.
OthersStay(r) ==
    \A q \in Runners \ {r} :
        /\ desk'[q] = desk[q] /\ comp'[q] = comp[q]
        /\ Holds(q)' => Holds(q)
        /\ Holds(q)' /\ rb'.status = "completed" => rb.status = "completed"

LEMMA RunsByOne ==
    ASSUME TypeOK, Runs, NEW r \in Runners, NoneOlder, OthersStay(r), RunnerInOrder(r)'
    PROVE  Runs'
<1>1. ASSUME NEW q \in Runners, q # r PROVE RunnerInOrder(q)'
  BY <1>1, RunnerKept DEF Runs, OthersStay
<1> QED
  BY <1>1 DEF Runs

\* What a desk must be like for its runner to be in order.
Fits(d) ==
    /\ d.phase \in {"begin", "apply"} => d.at = {}
    /\ d.phase = "registered" => \A k, l \in d.at : k = l

NotOlder(d) == d.through = Verify => \A m \in Cleaned(d) : stray[m] # "old"

\* A runner that has no compensation under way moves on.
LEMMA OwnMove ==
    ASSUME TypeOK, DeskOK, Runs, NEW r \in Runners, NEW d \in Desk, At(r, d),
           UNCHANGED <<stray, comp>>, desk[r].phase # "compensating", d.phase # "compensating",
           \A q \in Runners : Holds(q)' => Holds(q),
           \A q \in Runners \ {r} : Holds(q)' /\ rb'.status = "completed" => rb.status = "completed",
           Holds(r)' /\ rb'.status = "completed" => d.phase \in {"idle", "releasing"},
           Fits(d), Holds(r)' => NotOlder(d)
    PROVE  Runs'
<1>1. desk'[r] = d /\ \A q \in Runners : q # r => desk'[q] = desk[q]
  BY DeskSet
<1>2. NoneOlder /\ OthersStay(r)
  BY <1>1, StraySame DEF OthersStay
<1>3. comp[r] = NoCompensation
  BY DEF Runs, RunnerInOrder
<1>4. comp'[r] = NoCompensation /\ NoCompensation.status = "idle"
  BY <1>3 DEF NoCompensation
<1>5. \A m \in Cleaned(desk'[r]) : Holds(r)' /\ desk'[r].through = Verify => stray'[m] # "old"
  BY <1>1 DEF NotOlder
<1>6. Cleaned(desk[r])' = Cleaned(desk'[r])
  BY DEF Cleaned
<1>7. RunnerInOrder(r)'
  BY <1>1, <1>4, <1>5, <1>6 DEF RunnerInOrder, Fits
<1> QED
  BY <1>2, <1>7, RunsByOne

\* The lease does not move, and the runner that holds it has not ended.
LEMMA QuietMove ==
    ASSUME TypeOK, DeskOK, Runs, NEW r \in Runners, NEW d \in Desk, At(r, d),
           UNCHANGED <<stray, comp>>, desk[r].phase \notin {"compensating", "idle", "releasing"},
           d.phase # "compensating", Fits(d), Holds(r) => NotOlder(d),
           rb' = rb \/ (SameLease /\ rb'.status # "completed")
    PROVE  Runs'
<1>1. \A q \in Runners : Holds(q)' <=> Holds(q)
  BY DEF SameLease, Holds
<1>2. Holds(r) => rb.status # "completed"
  BY DEF Runs, RunnerInOrder
<1> QED
  BY <1>1, <1>2, OwnMove

LEMMA DeskFields ==
    ASSUME NEW e \in Desk, NEW x, NEW y
    PROVE  /\ LET d == [e EXCEPT !.phase = x]
              IN  d.phase = x /\ d.step = e.step /\ d.through = e.through /\ d.todo = e.todo /\ d.at = e.at
           /\ LET d == [e EXCEPT !.phase = x, !.at = y]
              IN  d.phase = x /\ d.at = y /\ d.step = e.step /\ d.through = e.through /\ d.todo = e.todo
           /\ LET d == [e EXCEPT !.phase = x, !.result = y]
              IN  d.phase = x /\ d.result = y /\ d.step = e.step /\ d.through = e.through /\ d.todo = e.todo
BY DEF Desk

LEMMA OrderOf ==
    ASSUME Runs, NEW r \in Runners
    PROVE  Fits(desk[r]) /\ (Holds(r) => NotOlder(desk[r]))
BY DEF Runs, RunnerInOrder, Fits, NotOlder

\* A step is left for its receipt; the locator step only when all is cleaned.
LEMMA ToSettleRuns ==
    ASSUME TypeOK, DeskOK, Runs, NEW r \in Runners, NEW x \in {"none", "done", "cleanup_required"},
           ToSettle(r, x), UNCHANGED <<stray, comp, rb>>,
           desk[r].phase \in {"apply", "registered"},
           x = "done" /\ desk[r].step = Locator => desk[r].phase = "apply" /\ desk[r].todo = {}
    PROVE  Runs'
<1>1. PICK d : d = [desk[r] EXCEPT !.phase = "settle", !.result = x]
  OBVIOUS
<1>2. d \in Desk /\ At(r, d)
  BY <1>1, AtDesk, DeskShape DEF ToSettle
<1>3. /\ d.phase = "settle" /\ d.result = x /\ d.step = desk[r].step
      /\ d.through = desk[r].through
  BY <1>1, AtDesk DEF Desk
<1>4. Fits(desk[r]) /\ (Holds(r) => NotOlder(desk[r]))
  BY OrderOf
<1>5. Cleaned(d) \subseteq Cleaned(desk[r])
  BY <1>3, <1>4 DEF Cleaned, Fits
<1>6. Fits(d) /\ (Holds(r) => NotOlder(d))
  BY <1>3, <1>4, <1>5 DEF Fits, NotOlder
<1> QED
  BY <1>2, <1>3, <1>6, QuietMove

LEMMA RunStartRuns ==
    ASSUME TypeOK, DeskOK, Runs, NEW r \in Runners, NEW t \in Throughs, RunStart(r, t)
    PROVE  Runs'
<1>1. PICK d : d = [Away EXCEPT !.phase = "begin", !.through = t]
  OBVIOUS
<1>2. d \in Desk /\ At(r, d) /\ comp' = comp /\ desk[r].phase = "idle"
      /\ rb' = [status |-> "running", holder |-> r, live |-> TRUE]
  BY <1>1, AwayShape, RollbackAssumption DEF RunStart
<1>3. desk'[r] = d /\ \A q \in Runners : q # r => desk'[q] = desk[q]
  BY <1>2, DeskSet
<1>4. d.phase = "begin" /\ d.step = 1 /\ d.at = {} /\ Cleaned(d) = {}
  BY <1>1 DEF Away, Cleaned, Locator, Verify
<1>5. ASSUME NEW q \in Runners, q # r PROVE RunnerInOrder(q)'
  <2>1. RunnerInOrder(q) /\ ~Holds(q)' /\ desk'[q] = desk[q] /\ comp'[q] = comp[q]
    BY <1>2, <1>3, <1>5 DEF Runs, Holds
  <2> QED
    BY <2>1 DEF RunnerInOrder
<1>6. comp'[r] = NoCompensation /\ NoCompensation.status = "idle"
  BY <1>2 DEF Runs, RunnerInOrder, NoCompensation
<1>7. Cleaned(desk[r])' = {}
  BY <1>3, <1>4 DEF Cleaned
<1>8. RunnerInOrder(r)'
  BY <1>2, <1>3, <1>4, <1>6, <1>7 DEF RunnerInOrder
<1> QED
  BY <1>5, <1>8 DEF Runs

\* One that has lost the lease, or gives it up.
LEMMA LeavesRuns ==
    ASSUME TypeOK, DeskOK, Runs, NEW r \in Runners, Fenced(r) \/ Release(r)
    PROVE  Runs'
<1>1. UNCHANGED <<stray, comp>> /\ desk[r].phase # "compensating"
  BY DEF Fenced, Release, Untouched
<1>2. CASE Fenced(r)
  <2>1. PICK d : d = [desk[r] EXCEPT !.phase = "releasing"]
    OBVIOUS
  <2>2. d \in Desk /\ At(r, d) /\ d.phase = "releasing" /\ rb' = rb /\ ~Holds(r)
    <3>1. desk[r] \in Desk
      BY AtDesk
    <3>2. d \in Desk /\ d.phase = "releasing"
      BY <2>1, <3>1, DeskShape, DeskFields
    <3> QED
      BY <1>2, <2>1, <3>2 DEF Fenced
  <2>3. Fits(d) /\ \A q \in Runners : Holds(q)' <=> Holds(q)
    BY <2>2 DEF Fits, Holds
  <2> QED
    BY <1>1, <2>2, <2>3, OwnMove
<1>3. CASE Release(r)
  <2>1. /\ At(r, Away) /\ Away \in Desk /\ Away.phase = "idle"
        /\ rb' = IF rb.holder = r THEN [rb EXCEPT !.holder = NoProc, !.live = FALSE] ELSE rb
    BY <1>3, AwayShape DEF Release
  <2>2. /\ \A q \in Runners : Holds(q)' => Holds(q)
        /\ rb'.status = "completed" => rb.status = "completed"
    BY <2>1 DEF TypeOK, Holds
  <2>3. Fits(Away) /\ NotOlder(Away)
    BY DEF Fits, NotOlder, Away, Cleaned, Verify, Locator
  <2>4. PICK d : d = Away
    OBVIOUS
  <2> QED
    BY <1>1, <2>1, <2>2, <2>3, <2>4, OwnMove
<1> QED
  BY <1>2, <1>3

\* What comes after a step that is done.
LEMMA AfterRuns ==
    ASSUME NEW e \in Desk, Fits(e), NotOlder(e),
           e.step = Locator => e.phase = "settle" /\ e.result = "done",
           e.phase \in {"begin", "settle"},
           e.phase = "begin" => e.step # Verify
    PROVE  Fits(After(e)) /\ NotOlder(After(e)) /\ After(e).phase \in {"begin", "ending"}
<1>1. e.step \in 1..5 /\ e.through \in 1..5
  BY DEF Desk
<1>2. CASE e.step < e.through
  <2>1. PICK d : d = [Away EXCEPT !.phase = "begin", !.step = e.step + 1, !.through = e.through]
    OBVIOUS
  <2>2. d.phase = "begin" /\ d.step = e.step + 1 /\ d.through = e.through /\ d.at = {}
    BY <2>1 DEF Away
  <2>3. d.step = Verify => e.step = Locator
    BY <1>1, <2>2 DEF Verify, Locator
  <2>4. Cleaned(d) \subseteq Cleaned(e)
    BY <2>2, <2>3 DEF Cleaned, Verify, Locator
  <2>5. After(e) = d
    BY <1>2, <2>1 DEF After
  <2> QED
    BY <2>2, <2>4, <2>5 DEF Fits, NotOlder
<1>3. CASE ~(e.step < e.through)
  <2>1. PICK d : d = [e EXCEPT !.phase = "ending"]
    OBVIOUS
  <2>2. d.phase = "ending" /\ d.through = e.through
    BY <2>1 DEF Desk
  <2>3. d.through = Verify => Cleaned(e) = Memories
    BY <1>1, <1>3, <2>2 DEF Cleaned, Verify
  <2>4. After(e) = d
    BY <1>3, <2>1 DEF After
  <2> QED
    BY <2>2, <2>3, <2>4, CleanedMemories DEF Fits, NotOlder
<1> QED
  BY <1>2, <1>3

LEMMA BeginStepRuns ==
    ASSUME IInv, Runs, NEW r \in Runners, BeginStep(r)
    PROVE  Runs'
<1>1. TypeOK /\ DeskOK /\ UNCHANGED <<stray, comp, rb>>
      /\ desk[r].phase = "begin" /\ Holds(r)
  BY DEF BeginStep, Untouched, IInv
<1>2. desk[r] \in Desk /\ Fits(desk[r]) /\ NotOlder(desk[r])
  BY <1>1, AtDesk, OrderOf
<1>3. CASE steps[desk[r].step] = "done" /\ desk[r].step \notin Repeated
  <2>1. At(r, After(desk[r])) /\ desk[r].step # Locator /\ desk[r].step # Verify
    BY <1>3 DEF BeginStep, Repeated
  <2>2. PICK d : d = After(desk[r])
    OBVIOUS
  <2>3. d \in Desk /\ At(r, d) /\ Fits(d) /\ NotOlder(d) /\ d.phase \in {"begin", "ending"}
    BY <1>1, <1>2, <2>1, <2>2, AfterShape, AfterRuns
  <2> QED
    BY <1>1, <2>3, QuietMove
<1>4. CASE ~(steps[desk[r].step] = "done" /\ desk[r].step \notin Repeated)
  <2>1. PICK d : d = [desk[r] EXCEPT !.phase = "apply", !.todo = Committed, !.targets = Committed]
    OBVIOUS
  <2>2. d \in Desk /\ At(r, d)
    BY <1>2, <1>4, <2>1, DeskShape DEF BeginStep
  <2>3. /\ d.phase = "apply" /\ d.todo = Committed /\ d.at = desk[r].at /\ d.step = desk[r].step
        /\ d.through = desk[r].through
    BY <1>2, <2>1 DEF Desk
  <2>4. Fits(d)
    BY <1>1, <1>2, <2>3 DEF Fits
  <2>5. \A m \in Memories \ Committed : stray[m] = "no"
    BY <1>1 DEF Committed, IInv, Ordered, Mems, MemHolds, RowInOrder, TypeOK
  <2>6. NotOlder(d)
    BY <1>1, <1>2, <2>3, <2>5 DEF NotOlder, Cleaned
  <2> QED
    BY <1>1, <2>2, <2>3, <2>4, <2>6, QuietMove
<1> QED
  BY <1>3, <1>4

LEMMA ApplyRuns ==
    ASSUME TypeOK, DeskOK, Runs, NEW r \in Runners,
           ApplyFreeze(r) \/ ApplyMemory(r) \/ ApplyShadow(r) \/ ApplyVerify(r) \/ SettleDeletions(r)
    PROVE  Runs'
<1>1. UNCHANGED <<stray, comp, rb>> /\ desk[r].phase = "apply"
  BY DEF ApplyFreeze, ApplyMemory, ApplyShadow, ApplyVerify, SettleDeletions, Untouched
<1>2. PICK x \in {"none", "done", "cleanup_required"} : ToSettle(r, x)
  <2>1. CASE ApplyVerify(r)
    BY <2>1 DEF ApplyVerify
  <2>2. CASE ApplyMemory(r)
    BY <2>2 DEF ApplyMemory
  <2>3. CASE ApplyFreeze(r) \/ ApplyShadow(r) \/ SettleDeletions(r)
    BY <2>3 DEF ApplyFreeze, ApplyShadow, SettleDeletions
  <2> QED
    BY <2>1, <2>2, <2>3
<1>3. desk[r].step = Locator => desk[r].todo = {}
  BY DEF ApplyFreeze, ApplyMemory, ApplyShadow, ApplyVerify, SettleDeletions,
         Freeze, Memory, Shadow, Verify, Locator
<1> QED
  BY <1>1, <1>2, <1>3, ToSettleRuns

LEMMA RegisterRuns ==
    ASSUME TypeOK, DeskOK, Runs, NEW r \in Runners, NEW m \in Memories, Register(r, m)
    PROVE  Runs'
<1>1. /\ UNCHANGED <<stray, comp, rb>> /\ desk[r].phase = "apply" /\ desk[r].step = Locator
      /\ At(r, [desk[r] EXCEPT !.phase = "registered", !.todo = @ \ {m}, !.at = {m}])
  BY DEF Register, Untouched
<1>2. desk[r] \in Desk /\ Fits(desk[r]) /\ (Holds(r) => NotOlder(desk[r]))
  BY AtDesk, OrderOf
<1>3. PICK d : d = [desk[r] EXCEPT !.phase = "registered", !.todo = @ \ {m}, !.at = {m}]
  OBVIOUS
<1>4. d \in Desk /\ At(r, d)
  BY <1>1, <1>2, <1>3, DeskShape
<1>5. /\ d.phase = "registered" /\ d.todo = desk[r].todo \ {m} /\ d.at = {m}
      /\ d.step = desk[r].step /\ d.through = desk[r].through
  BY <1>2, <1>3 DEF Desk
<1>6. Fits(d) /\ Cleaned(d) \subseteq Cleaned(desk[r])
  BY <1>1, <1>2, <1>5 DEF Fits, Cleaned
<1>7. Holds(r) => NotOlder(d)
  BY <1>2, <1>5, <1>6 DEF NotOlder
<1> QED
  BY <1>1, <1>4, <1>5, <1>6, <1>7, QuietMove

LEMMA RunnerCompensatesRuns ==
    ASSUME TypeOK, DeskOK, Runs, NEW r \in Runners, NEW m \in Memories, RunnerCompensates(r, m)
    PROVE  Runs'
<1>1. UNCHANGED <<stray, rb>> /\ desk[r].phase = "registered" /\ m \in desk[r].at
  BY DEF RunnerCompensates, Untouched
<1>2. CASE CompBusy(m)
  <2>1. ToSettle(r, "cleanup_required") /\ UNCHANGED comp
    BY <1>2 DEF RunnerCompensates
  <2>2. PICK x \in {"none", "done", "cleanup_required"} : x = "cleanup_required"
    OBVIOUS
  <2> QED
    BY <1>1, <2>1, <2>2, ToSettleRuns
<1>3. CASE ~CompBusy(m)
  <2>1. CompStart(r, m) /\ At(r, [desk[r] EXCEPT !.phase = "compensating"])
    BY <1>3 DEF RunnerCompensates
  <2>2. desk[r] \in Desk /\ Fits(desk[r]) /\ RunnerInOrder(r)
    BY AtDesk, OrderOf DEF Runs
  <2>3. PICK d : d = [desk[r] EXCEPT !.phase = "compensating"]
    OBVIOUS
  <2>4. /\ d \in Desk /\ d.phase = "compensating" /\ d.at = desk[r].at /\ d.todo = desk[r].todo
        /\ d.step = desk[r].step /\ d.through = desk[r].through
    BY <2>2, <2>3, DeskShape, DeskFields
  <2>5. desk'[r] = d /\ \A q \in Runners : q # r => desk'[q] = desk[q]
    BY <2>1, <2>3, <2>4, DeskSet
  <2>6. PICK k : k = [m |-> m, digest |-> op[m].digest, locator |-> op[m].locator, status |-> "none"]
    OBVIOUS
  <2>7. /\ comp'[r] = k /\ k.m = m /\ k.status = "none"
        /\ \A q \in Runners : q # r => comp'[q] = comp[q]
    BY <2>1, <2>6, CompensationAssumption DEF CompStart, TypeOK, Procs
  <2>8. d.at = {m}
    BY <1>1, <2>2, <2>4 DEF Fits
  <2>9. Cleaned(desk[r])' = Cleaned(desk[r])
    BY <1>1, <2>4, <2>5 DEF Cleaned
  <2>10. RunnerInOrder(r)'
    BY <1>1, <2>2, <2>4, <2>5, <2>7, <2>8, <2>9 DEF RunnerInOrder, Holds
  <2>11. NoneOlder /\ OthersStay(r)
    BY <1>1, <2>5, <2>7, StraySame DEF OthersStay, Holds
  <2> QED
    BY <2>10, <2>11, RunsByOne
<1> QED
  BY <1>2, <1>3

\* The memory it was at is cleaned now.
LEMMA RunnerRecordsRuns ==
    ASSUME TypeOK, DeskOK, Runs, NEW r \in Runners, NEW m \in Memories, RunnerRecords(r, m)
    PROVE  Runs'
<1>1. /\ stray' = stray /\ CompRecorded(r) /\ desk[r].phase = "compensating" /\ m \in desk[r].at
  BY DEF RunnerRecords
<1>2. RunnerInOrder(r) /\ desk[r] \in Desk
  BY AtDesk DEF Runs
<1>3. desk[r].at = {comp[r].m} /\ m = comp[r].m
  BY <1>1, <1>2 DEF RunnerInOrder
<1>4. SameLease /\ (rb'.status = "completed" => rb.status = "completed")
  <2>1. r \in Procs
    BY DEF Procs
  <2> QED
    BY <1>1, <2>1, RecordedLease
<1>5. /\ comp'[r] = NoCompensation /\ NoCompensation.status = "idle"
      /\ \A q \in Runners : q # r => comp'[q] = comp[q]
  BY <1>1 DEF CompRecorded, TypeOK, Procs, NoCompensation
<1>6. PICK d \in Desk :
        /\ At(r, d)
        /\ d.step = desk[r].step /\ d.through = desk[r].through /\ d.todo = desk[r].todo
        /\ \/ d.phase = "apply" /\ d.at = {} /\ comp[r].status = "compensated"
           \/ d.phase = "settle" /\ d.result = "cleanup_required"
  <2>1. CASE comp[r].status = "compensated" /\ op[m].comp = r
    <3>1. PICK d : d = [desk[r] EXCEPT !.phase = "apply", !.at = {}]
      OBVIOUS
    <3>2. d \in Desk /\ d.phase = "apply" /\ d.at = {} /\ d.step = desk[r].step
          /\ d.through = desk[r].through /\ d.todo = desk[r].todo
      <4>1. d \in Desk
        BY <1>2, <3>1, DeskShape
      <4> QED
        BY <1>2, <3>1, <4>1, DeskFields
    <3>3. At(r, d)
      BY <2>1, <3>1 DEF RunnerRecords
    <3> QED
      BY <2>1, <3>2, <3>3
  <2>2. CASE ~(comp[r].status = "compensated" /\ op[m].comp = r)
    <3>1. PICK d : d = [desk[r] EXCEPT !.phase = "settle", !.result = "cleanup_required"]
      OBVIOUS
    <3>2. d \in Desk /\ d.phase = "settle" /\ d.result = "cleanup_required" /\ d.step = desk[r].step
          /\ d.through = desk[r].through /\ d.todo = desk[r].todo
      <4>1. d \in Desk
        BY <1>2, <3>1, DeskShape
      <4> QED
        BY <1>2, <3>1, <4>1, DeskFields
    <3>3. At(r, d)
      BY <2>2, <3>1 DEF RunnerRecords, ToSettle
    <3> QED
      BY <3>2, <3>3
  <2> QED
    BY <2>1, <2>2
<1>7. desk'[r] = d /\ \A q \in Runners : q # r => desk'[q] = desk[q]
  BY <1>6, DeskSet
<1>8. \A q \in Runners : Holds(q)' <=> Holds(q)
  BY <1>4 DEF SameLease, Holds
<1>9. Cleaned(d) \subseteq Cleaned(desk[r]) \cup {x \in {m} : comp[r].status = "compensated"}
  BY <1>1, <1>3, <1>6 DEF Cleaned
<1>10. Holds(r) => NotOlder(d)
  BY <1>2, <1>3, <1>6, <1>9 DEF NotOlder, RunnerInOrder
<1>11. Cleaned(desk[r])' = Cleaned(d)
  BY <1>7 DEF Cleaned
<1>12. Holds(r) => rb'.status # "completed"
  BY <1>1, <1>2, <1>4 DEF RunnerInOrder
<1>13. RunnerInOrder(r)'
  BY <1>1, <1>5, <1>6, <1>7, <1>8, <1>10, <1>11, <1>12 DEF RunnerInOrder, NotOlder
<1>14. NoneOlder /\ OthersStay(r)
  BY <1>1, <1>4, <1>5, <1>7, <1>8, StraySame DEF OthersStay
<1> QED
  BY <1>13, <1>14, RunsByOne

LEMMA SettleStepRuns ==
    ASSUME TypeOK, DeskOK, Runs, NEW r \in Runners, SettleStep(r)
    PROVE  Runs'
<1>1. UNCHANGED <<stray, comp>> /\ desk[r].phase = "settle" /\ Holds(r)
  BY DEF SettleStep, Untouched
<1>2. desk[r] \in Desk /\ Fits(desk[r]) /\ NotOlder(desk[r])
  BY <1>1, AtDesk, OrderOf
<1>3. CASE desk[r].result = "done"
  <2>1. At(r, After(desk[r])) /\ rb' = rb
    BY <1>3 DEF SettleStep
  <2>2. PICK d : d = After(desk[r])
    OBVIOUS
  <2>3. d \in Desk /\ At(r, d) /\ Fits(d) /\ NotOlder(d) /\ d.phase \in {"begin", "ending"}
    BY <1>1, <1>2, <1>3, <2>1, <2>2, AfterShape, AfterRuns
  <2> QED
    BY <1>1, <2>1, <2>3, QuietMove
<1>4. CASE desk[r].result # "done"
  <2>1. PICK d : d = [desk[r] EXCEPT !.phase = "releasing"]
    OBVIOUS
  <2>2. /\ d \in Desk /\ At(r, d) /\ d.phase = "releasing" /\ d.step = desk[r].step
        /\ d.through = desk[r].through
    <3>1. d \in Desk /\ d.phase = "releasing" /\ d.step = desk[r].step /\ d.through = desk[r].through
      BY <1>2, <2>1, DeskShape, DeskFields
    <3> QED
      BY <1>4, <2>1, <3>1 DEF SettleStep
  <2>3. Fits(d) /\ Cleaned(d) \subseteq Cleaned(desk[r])
    BY <1>1, <2>2 DEF Fits, Cleaned
  <2>4. NotOlder(d)
    BY <1>2, <2>2, <2>3 DEF NotOlder
  <2>5. SameLease /\ rb'.status # "completed"
    BY <1>4 DEF SettleStep, SameLease, TypeOK
  <2> QED
    BY <1>1, <2>2, <2>3, <2>4, <2>5, QuietMove
<1> QED
  BY <1>3, <1>4

LEMMA EndRuns ==
    ASSUME TypeOK, DeskOK, Runs, NEW r \in Runners, End(r)
    PROVE  Runs'
<1>1. UNCHANGED <<stray, comp>> /\ desk[r].phase = "ending" /\ Holds(r)
  BY DEF End, Untouched
<1>2. desk[r] \in Desk /\ NotOlder(desk[r])
  BY <1>1, AtDesk, OrderOf
<1>3. PICK d : d = [desk[r] EXCEPT !.phase = "releasing"]
  OBVIOUS
<1>4. d \in Desk /\ At(r, d) /\ d.phase = "releasing" /\ d.through = desk[r].through
  <2>1. d \in Desk /\ d.phase = "releasing" /\ d.through = desk[r].through
    BY <1>2, <1>3, DeskShape, DeskFields
  <2> QED
    BY <1>3, <2>1 DEF End
<1>5. Fits(d) /\ Cleaned(desk[r]) = Memories
  BY <1>1, <1>4 DEF Fits, Cleaned
<1>6. NotOlder(d)
  BY <1>2, <1>4, <1>5, CleanedMemories DEF NotOlder
<1>7. SameLease
  <2>1. rb' = rb \/ \E x \in {"completed", "phase_completed"} : rb' = [rb EXCEPT !.status = x]
    BY DEF End
  <2> QED
    BY <2>1 DEF SameLease, TypeOK
<1>8. \A q \in Runners : (Holds(q)' <=> Holds(q)) /\ (q # r => ~Holds(q))
  BY <1>1, <1>7 DEF SameLease, Holds
<1> QED
  BY <1>1, <1>4, <1>5, <1>6, <1>8, OwnMove

LEMMA RunnerCrashRuns ==
    ASSUME TypeOK, DeskOK, Runs, NEW r \in Runners, RunnerCrash(r)
    PROVE  Runs'
<1>1. stray' = stray /\ rb' = rb /\ At(r, Away) /\ comp' = [comp EXCEPT ![r] = NoCompensation]
  BY DEF RunnerCrash, Untouched
<1>2. desk'[r] = Away /\ \A q \in Runners : q # r => desk'[q] = desk[q]
  BY <1>1, AwayShape, DeskSet
<1>3. /\ comp'[r] = NoCompensation /\ NoCompensation.status = "idle"
      /\ \A q \in Runners : q # r => comp'[q] = comp[q]
  BY <1>1 DEF TypeOK, Procs, NoCompensation
<1>4. Cleaned(desk[r])' = {} /\ Away.phase = "idle"
  BY <1>2 DEF Cleaned, Away, Verify, Locator
<1>5. RunnerInOrder(r)'
  BY <1>2, <1>3, <1>4 DEF RunnerInOrder
<1>6. NoneOlder /\ OthersStay(r)
  BY <1>1, <1>2, <1>3, StraySame DEF OthersStay, Holds
<1> QED
  BY <1>5, <1>6, RunsByOne

LEMMA LapseRunnerRuns ==
    ASSUME TypeOK, Runs, LapseRunner
    PROVE  Runs'
<1>1. \A r \in Runners : ~Holds(r)' /\ desk'[r] = desk[r] /\ comp'[r] = comp[r] /\ RunnerInOrder(r)
  BY DEF LapseRunner, TypeOK, Holds, Runs
<1> QED
  BY <1>1 DEF Runs, RunnerInOrder

LEMMA RunnersRuns ==
    ASSUME IInv, Runs, NEW r \in Runners, RunnerStep(r) \/ RunnerCrash(r)
    PROVE  Runs'
<1>1. TypeOK /\ DeskOK
  BY DEF IInv
<1>2. CASE \E t \in Throughs : RunStart(r, t)
  BY <1>1, <1>2, RunStartRuns
<1>3. CASE Fenced(r) \/ BeginStep(r) \/ Release(r)
  BY <1>1, <1>3, LeavesRuns, BeginStepRuns
<1>4. CASE ApplyFreeze(r) \/ ApplyMemory(r) \/ ApplyShadow(r) \/ ApplyVerify(r) \/ SettleDeletions(r)
  BY <1>1, <1>4, ApplyRuns
<1>5. CASE \E m \in Memories : Register(r, m) \/ RunnerCompensates(r, m) \/ RunnerRecords(r, m)
  BY <1>1, <1>5, RegisterRuns, RunnerCompensatesRuns, RunnerRecordsRuns
<1>6. CASE CompRemote(r) /\ UNCHANGED kept
  BY <1>1, <1>6, RemoteRuns DEF kept, Procs
<1>7. CASE SettleStep(r) \/ End(r) \/ RunnerCrash(r)
  BY <1>1, <1>7, SettleStepRuns, EndRuns, RunnerCrashRuns
<1> QED
  BY <1>2, <1>3, <1>4, <1>5, <1>6, <1>7 DEF RunnerStep

\* RollbackInv holds of every reachable state, for any number of memories,
\* workers, runners, attempts and faults: types, compensation that leaves nothing
\* behind but what landed after its caller had given up (CompensatedMeansAbsent),
\* and rows that end as their operations do (RowTellsOperation).  With RowInOrder,
\* ClaimInOrder and RunnerInOrder it is inductive as it stands.
THEOREM RollbackInvariant == RollbackSpec => []RollbackInv
<1>1. RollbackInit => IInv /\ Runs
  <2> SUFFICES ASSUME RollbackInit PROVE Runs
    BY InitHolds
  <2>1. \A r \in Runners : desk[r] = Away /\ comp[r] = NoCompensation /\ ~Holds(r)
    BY DEF RollbackInit, Init, Holds, Procs
  <2> QED
    BY <2>1 DEF Runs, RunnerInOrder, Away
<1>2. IInv /\ Runs /\ [RollbackNext]_rvars => (IInv /\ Runs)'
  <2> SUFFICES ASSUME IInv, Runs, [RollbackNext]_rvars PROVE IInv' /\ Runs'
    OBVIOUS
  <2>1. IInv' /\ TypeOK
    BY StepKeeps, StutterKeeps DEF IInv
  <2>2. CASE WorkerNext /\ UNCHANGED kept
    BY <2>1, <2>2, WorkersRuns DEF kept
  <2>3. CASE \E r \in Runners : RunnerStep(r) \/ RunnerCrash(r)
    <3>1. PICK r \in Runners : RunnerStep(r) \/ RunnerCrash(r)
      BY <2>3
    <3> QED
      BY <2>1, <3>1, RunnersRuns
  <2>4. CASE LapseRunner
    BY <2>1, <2>4, LapseRunnerRuns
  <2>5. CASE UNCHANGED rvars
    <3>1. UNCHANGED <<stray, desk, comp, rb>> /\ NoneOlder
      BY <2>5, StraySame DEF rvars
    <3>2. ASSUME NEW r \in Runners PROVE RunnerInOrder(r)'
      <4>1. RunnerInOrder(r) /\ (Holds(r)' <=> Holds(r))
        BY <3>1 DEF Runs, Holds
      <4> QED
        BY <2>1, <3>1, <4>1, RunnerKept
    <3> QED
      BY <2>1, <3>2 DEF Runs
  <2> QED
    BY <2>1, <2>2, <2>3, <2>4, <2>5 DEF RollbackNext
<1>3. IInv /\ Runs => RollbackInv
  BY InvParts
<1> QED
  BY <1>1, <1>2, <1>3, PTL DEF RollbackSpec

-----------------------------------------------------------------------------
(***************************************************************************)
(* What a step may never do.                                               *)
(***************************************************************************)
\* No worker comes to be calling.
NoCallBegins ==
    \A w \in Workers : work'[w] # Idle /\ work'[w].phase = "calling" => work[w].phase = "calling"

LEMMA MovesElsewhere ==
    ASSUME TypeOK, NEW v \in Workers, NEW d, work' = [work EXCEPT ![v] = d],
           d = Idle \/ d.phase # "calling"
    PROVE  NoCallBegins
BY DEF TypeOK, NoCallBegins

LEMMA PhaseElsewhere ==
    ASSUME NEW c \in Claim, NEW x, x # "calling", NEW y
    PROVE  /\ [c EXCEPT !.phase = x].phase # "calling"
           /\ [c EXCEPT !.phase = x, !.verdict = y].phase # "calling"
           /\ [c EXCEPT !.phase = x, !.seen = y].phase # "calling"
BY DEF Claim

LEMMA NoCallFromMoves ==
    ASSUME TypeOK, NEW w \in Workers,
           \/ CheckHead(w) \/ StartVerify(w) \/ FencedCall(w) \/ Materialize(w) \/ CallFails(w)
           \/ Locate(w) \/ LookupFails(w) \/ Record(w) \/ CheckRun(w) \/ Inspect(w)
    PROVE  NoCallBegins
<1> DEFINE c == work[w]
<1>1. c \in Claim
  <2>1. c.phase # "idle"
    BY DEF CheckHead, StartVerify, FencedCall, Materialize, CallFails, Locate, LookupFails,
           Record, CheckRun, Inspect
  <2> QED
    BY <2>1, Working
<1>2. Leave(w) => NoCallBegins
  BY MovesElsewhere DEF Leave, Move
<1>3. \A v : Conclude(w, c, v) => NoCallBegins
  <2>1. ASSUME NEW v, Conclude(w, c, v) PROVE NoCallBegins
    <3>1. PICK d : d = [c EXCEPT !.phase = "finishing", !.verdict = v]
      OBVIOUS
    <3>2. d.phase # "calling"
      BY <1>1, <3>1 DEF Claim
    <3>3. work' = [work EXCEPT ![w] = d]
      BY <2>1, <3>1 DEF Conclude, Move
    <3> QED
      BY <3>2, <3>3, MovesElsewhere
  <2> QED
    BY <2>1
<1>4. \A x : x # "calling" /\ Move(w, [c EXCEPT !.phase = x]) => NoCallBegins
  <2>1. ASSUME NEW x, x # "calling", Move(w, [c EXCEPT !.phase = x]) PROVE NoCallBegins
    <3>1. PICK d : d = [c EXCEPT !.phase = x]
      OBVIOUS
    <3>2. d.phase # "calling"
      BY <1>1, <2>1, <3>1 DEF Claim
    <3>3. work' = [work EXCEPT ![w] = d]
      BY <2>1, <3>1 DEF Move
    <3> QED
      BY <3>2, <3>3, MovesElsewhere
  <2> QED
    BY <2>1
<1>5. ASSUME Inspect(w) PROVE NoCallBegins
  <2>1. PICK d : d = [c EXCEPT !.phase = "settling", !.seen = c.m \in items]
    OBVIOUS
  <2>2. d.phase # "calling"
    BY <1>1, <2>1 DEF Claim
  <2>3. work' = [work EXCEPT ![w] = d]
    BY <1>5, <2>1 DEF Inspect, Move
  <2> QED
    BY <2>2, <2>3, MovesElsewhere
<1>6. CASE CheckHead(w) \/ FencedCall(w) \/ CallFails(w) \/ LookupFails(w)
  BY <1>3, <1>4, <1>6 DEF CheckHead, FencedCall, CallFails, LookupFails
<1>7. CASE Locate(w) \/ StartVerify(w) \/ Materialize(w) \/ Record(w) \/ CheckRun(w)
  BY <1>2, <1>3, <1>4, <1>7 DEF Locate, StartVerify, Materialize, Record, CheckRun
<1> QED
  BY <1>5, <1>6, <1>7

LEMMA NoCallFromEnds ==
    ASSUME TypeOK, NEW w \in Workers,
           \/ Settle(w) \/ FinishWithoutLocator(w) \/ MarkCleanup(w) \/ WorkerRecords(w)
           \/ Crash(w) \/ WorkerCompensates(w) \/ CompRemote(w)
           \/ \E m \in Memories : ClaimNext(w, m)
    PROVE  NoCallBegins
<1>1. CASE Settle(w) \/ FinishWithoutLocator(w) \/ MarkCleanup(w) \/ WorkerRecords(w) \/ Crash(w)
  BY <1>1, MovesElsewhere
     DEF Settle, FinishWithoutLocator, MarkCleanup, WorkerRecords, Crash, Leave, Move
<1>2. CASE CompRemote(w)
  BY <1>2 DEF CompRemote, NoCallBegins
<1>3. CASE WorkerCompensates(w)
  <2>1. work[w] \in Claim
    BY <1>3, Working DEF WorkerCompensates
  <2>2. \/ work' = work
        \/ work' = [work EXCEPT ![w] = Idle]
        \/ work' = [work EXCEPT ![w] = [work[w] EXCEPT !.phase = "refused"]]
    BY <1>3 DEF WorkerCompensates, Move, Leave
  <2> QED
    BY <2>1, <2>2, PhaseElsewhere, MovesElsewhere DEF NoCallBegins
<1>4. ASSUME NEW m \in Memories, ClaimNext(w, m) PROVE NoCallBegins
  <2>1. PICK n : work' = [work EXCEPT ![w] = [phase |-> "claimed", m |-> m, n |-> n,
                 epoch |-> run.epoch, source |-> Swept(m).status, seen |-> FALSE,
                 verdict |-> "none"]]
    BY <1>4 DEF ClaimNext, Move
  <2> QED
    BY <2>1, MovesElsewhere
<1> QED
  BY <1>1, <1>2, <1>3, <1>4

\* The step behind UnderEpoch.
BeginsUnderEpoch ==
    \A w \in Workers :
        (work'[w] # Idle /\ work'[w].phase = "calling" /\ work[w].phase # "calling")
            => run.status = "live" /\ work[w].epoch = run.epoch

ConfirmsUnderEpoch ==
    \A m \in confirmed' \ confirmed :
        /\ run.status = "live"
        /\ \E w \in Workers : work[w] # Idle /\ work[w].m = m /\ work[w].epoch = run.epoch

LEMMA WorkerUnderEpoch ==
    ASSUME TypeOK, NEW w \in Workers, WorkerStep(w) \/ CallFails(w) \/ LookupFails(w) \/ Crash(w)
    PROVE  BeginsUnderEpoch /\ ConfirmsUnderEpoch
<1>1. CASE StartCall(w)
  <2>1. CASE Authorized(work[w])
    <3>1. \A v \in Workers : v # w => work'[v] = work[v]
      BY <1>1 DEF StartCall, Move, Leave, TypeOK
    <3> QED
      BY <1>1, <2>1, <3>1 DEF BeginsUnderEpoch, ConfirmsUnderEpoch, StartCall, Authorized
  <2>2. CASE ~Authorized(work[w])
    <3>1. NoCallBegins
      BY <1>1, <2>2, MovesElsewhere DEF StartCall, Leave, Move
    <3> QED
      BY <1>1, <3>1 DEF BeginsUnderEpoch, ConfirmsUnderEpoch, StartCall, NoCallBegins
  <2> QED
    BY <2>1, <2>2
<1>2. CASE Settle(w)
  <2>1. NoCallBegins
    BY <1>2, NoCallFromEnds
  <2>2. work[w] # Idle
    BY <1>2, IdleShape DEF Settle
  <2>3. ConfirmsUnderEpoch
    BY <1>2, <2>2 DEF Settle, SettleOwned, FinishOwned, MarkedForCleanup, Authorized,
                      ConfirmsUnderEpoch
  <2> QED
    BY <2>1, <2>3 DEF BeginsUnderEpoch, NoCallBegins
<1>3. CASE ~StartCall(w) /\ ~Settle(w)
  <2>1. NoCallBegins
    BY <1>3, NoCallFromMoves, NoCallFromEnds DEF WorkerStep
  <2>2. confirmed' = confirmed
    <3>1. CASE CallFails(w) \/ LookupFails(w) \/ Crash(w)
      BY <3>1 DEF CallFails, LookupFails, Crash
    <3>2. CASE \E m \in Memories : ClaimNext(w, m)
      BY <3>2 DEF ClaimNext
    <3>3. CASE CheckHead(w) \/ StartVerify(w) \/ FencedCall(w) \/ Materialize(w) \/ Locate(w)
      BY <3>3 DEF CheckHead, StartVerify, FencedCall, Materialize, Locate
    <3>4. CASE Record(w) \/ CheckRun(w) \/ Inspect(w) \/ FinishWithoutLocator(w)
      BY <3>4 DEF Record, CheckRun, Inspect, FinishWithoutLocator
    <3>5. CASE WorkerCompensates(w) \/ MarkCleanup(w) \/ CompRemote(w) \/ WorkerRecords(w)
      BY <3>5 DEF WorkerCompensates, MarkCleanup, CompRemote, WorkerRecords
    <3> QED
      BY <1>3, <3>1, <3>2, <3>3, <3>4, <3>5 DEF WorkerStep
  <2> QED
    BY <2>1, <2>2 DEF BeginsUnderEpoch, ConfirmsUnderEpoch, NoCallBegins
<1> QED
  BY <1>1, <1>2, <1>3

LEMMA RunnerSpares ==
    ASSUME NEW r \in Runners, RunnerStep(r) \/ RunnerCrash(r)
    PROVE  work' = work /\ confirmed' = confirmed
<1>1. CASE \E t \in Throughs : RunStart(r, t)
  BY <1>1 DEF RunStart, Untouched
<1>2. CASE Fenced(r) \/ BeginStep(r) \/ ApplyFreeze(r) \/ ApplyMemory(r) \/ ApplyShadow(r)
  BY <1>2 DEF Fenced, BeginStep, ApplyFreeze, ApplyMemory, ApplyShadow, Untouched
<1>3. CASE \E m \in Memories : Register(r, m) \/ RunnerCompensates(r, m) \/ RunnerRecords(r, m)
  BY <1>3 DEF Register, RunnerCompensates, RunnerRecords, Untouched
<1>4. CASE CompRemote(r)
  BY <1>4 DEF CompRemote
<1>5. CASE ApplyVerify(r) \/ SettleDeletions(r) \/ SettleStep(r) \/ End(r) \/ Release(r)
  BY <1>5 DEF ApplyVerify, SettleDeletions, SettleStep, End, Release, Untouched
<1>6. CASE RunnerCrash(r)
  BY <1>6 DEF RunnerCrash, Untouched
<1> QED
  BY <1>1, <1>2, <1>3, <1>4, <1>5, <1>6 DEF RunnerStep

\* No request begins and no projection is confirmed under a stopped run or an
\* epoch no longer in force, whenever the stop comes (UnderEpoch).
THEOREM NothingUnderAnOldEpoch == RollbackSpec => UnderEpoch
<1>1. TypeOK /\ [RollbackNext]_rvars => (BeginsUnderEpoch /\ ConfirmsUnderEpoch) \/ UNCHANGED rvars
  <2> SUFFICES ASSUME TypeOK, RollbackNext PROVE BeginsUnderEpoch /\ ConfirmsUnderEpoch
    OBVIOUS
  <2>1. CASE WorkerNext /\ UNCHANGED kept
    <3>1. CASE \E m \in Memories : \/ ReviewedCommit(m) \/ UserChanges(m) \/ UserForgets(m)
                                   \/ LapseClaim(m) \/ LapseBarrier(m) \/ LapseCompensation(m)
      BY <3>1 DEF ReviewedCommit, UserChanges, UserForgets, LapseClaim, LapseBarrier,
                  LapseCompensation, BeginsUnderEpoch, ConfirmsUnderEpoch
    <3>2. CASE DeadlinePasses \/ Stop \/ SweepOnly \/ \E p \in Procs : CompFails(p)
      BY <3>2 DEF DeadlinePasses, Stop, SweepOnly, CompFails, BeginsUnderEpoch, ConfirmsUnderEpoch
    <3>3. CASE \E m \in Memories : LateWriteLands(m)
      BY <3>3 DEF LateWriteLands, BeginsUnderEpoch, ConfirmsUnderEpoch
    <3> QED
      BY <2>1, <3>1, <3>2, <3>3, WorkerUnderEpoch DEF WorkerNext
  <2>2. CASE \E r \in Runners : RunnerStep(r) \/ RunnerCrash(r)
    BY <2>2, RunnerSpares DEF BeginsUnderEpoch, ConfirmsUnderEpoch
  <2>3. CASE LapseRunner
    BY <2>3 DEF LapseRunner, Untouched, BeginsUnderEpoch, ConfirmsUnderEpoch
  <2> QED
    BY <2>1, <2>2, <2>3 DEF RollbackNext
<1>2. RollbackInv => TypeOK
  BY DEF RollbackInv, RollbackTypeOK
<1> QED
  BY <1>1, <1>2, RollbackInvariant, PTL DEF RollbackSpec, UnderEpoch, BeginsUnderEpoch,
     ConfirmsUnderEpoch

-----------------------------------------------------------------------------
(***************************************************************************)
(* The end of a run.                                                       *)
(***************************************************************************)
\* A run that only comes to be stopping, and owners that are not overruled.
RunGoesOn == run' = run \/ run' = StoppedRun \/ run' = [run EXCEPT !.status = "stopping"]

ChangesStay == \A m \in Memories : head[m] = "changed" => head'[m] = "changed"

LEMMA NotStopped ==
    ASSUME TypeOK, RunGoesOn
    PROVE  run'.status = "stopped" => run.status = "stopped"
BY DEF TypeOK, RunGoesOn, StoppedRun

LEMMA HeadsStay ==
    ASSUME head' = head
    PROVE  ChangesStay
BY DEF ChangesStay

\* Nobody who is not ending a rollback completes it.
NotCompleted == rb'.status = "completed" => rb.status = "completed"

GoesOn == RunGoesOn /\ NotCompleted

LEMMA WorkersNeverEnd ==
    ASSUME TypeOK, WorkerNext
    PROVE  GoesOn /\ ChangesStay
<1>1. CASE \E m \in Memories : ReviewedCommit(m) \/ UserChanges(m) \/ UserForgets(m)
  BY <1>1 DEF ReviewedCommit, UserChanges, UserForgets, GoesOn, RunGoesOn, NotCompleted,
              ChangesStay, TypeOK
<1>2. CASE DeadlinePasses \/ Stop \/ SweepOnly \/ \E p \in Procs : CompFails(p)
  BY <1>2, HeadsStay DEF DeadlinePasses, Stop, SweepOnly, CompFails, GoesOn, RunGoesOn, NotCompleted
<1>3. CASE \E m \in Memories : \/ LapseClaim(m) \/ LapseBarrier(m) \/ LapseCompensation(m)
                               \/ LateWriteLands(m)
  BY <1>3, HeadsStay DEF LapseClaim, LapseBarrier, LapseCompensation, LateWriteLands, GoesOn,
     RunGoesOn, NotCompleted
<1>4. ASSUME NEW w \in Workers, WorkerStep(w) \/ CallFails(w) \/ LookupFails(w) \/ Crash(w)
      PROVE  RunGoesOn /\ head' = head
  <2>1. CASE CallFails(w) \/ LookupFails(w) \/ Crash(w)
    BY <2>1 DEF CallFails, LookupFails, Crash, RunGoesOn
  <2>2. CASE \E m \in Memories : ClaimNext(w, m)
    BY <2>2 DEF ClaimNext, RunGoesOn
  <2>3. CASE CheckHead(w) \/ StartCall(w) \/ StartVerify(w) \/ FencedCall(w)
    BY <2>3 DEF CheckHead, StartCall, StartVerify, FencedCall, RunGoesOn
  <2>4. CASE Materialize(w) \/ Locate(w) \/ Record(w) \/ CheckRun(w) \/ Inspect(w)
    BY <2>4 DEF Materialize, Locate, Record, CheckRun, Inspect, RunGoesOn
  <2>5. CASE Settle(w) \/ FinishWithoutLocator(w) \/ WorkerCompensates(w) \/ MarkCleanup(w)
    BY <2>5 DEF Settle, FinishWithoutLocator, WorkerCompensates, MarkCleanup, RunGoesOn
  <2>6. CASE CompRemote(w) \/ WorkerRecords(w)
    BY <2>6 DEF CompRemote, WorkerRecords, CompRecorded, RunGoesOn
  <2> QED
    BY <1>4, <2>1, <2>2, <2>3, <2>4, <2>5, <2>6 DEF WorkerStep
<1>5. ASSUME NEW w \in Workers, WorkerStep(w) \/ CallFails(w) \/ LookupFails(w) \/ Crash(w)
      PROVE  GoesOn /\ ChangesStay
  BY <1>4, <1>5, HeadsStay, WorkersSpare DEF GoesOn, NotCompleted
<1> QED
  BY <1>1, <1>2, <1>3, <1>5 DEF WorkerNext

\* A run is stopped with its rollback completed, by the runner that has the lease
\* and has cleaned all there is.
Ends == /\ NoResidual /\ UNCHANGED <<row, op, head, removed, items, late, stray>>
        /\ rb.status # "completed" => rb'.status = "completed"
        /\ rb.status # "completed" /\ \A m \in Memories : stray[m] # "old"

LEMMA EndEnds ==
    ASSUME TypeOK, Runs, NEW r \in Runners, End(r)
    PROVE  GoesOn \/ Ends
<1>1. CASE desk[r].through = Verify /\ NoResidual
  <2>1. /\ desk[r].phase = "ending" /\ Holds(r) /\ rb' = [rb EXCEPT !.status = "completed"]
        /\ UNCHANGED <<row, op, head, removed, items, late, stray>>
    BY <1>1 DEF End, Untouched
  <2>2. rb.status # "completed" /\ \A m \in Memories : stray[m] # "old"
    BY <1>1, <2>1 DEF Runs, RunnerInOrder, Cleaned
  <2>3. rb'.status = "completed"
    BY <2>1 DEF TypeOK
  <2> QED
    BY <1>1, <2>1, <2>2, <2>3 DEF Ends
<1>2. CASE ~(desk[r].through = Verify /\ NoResidual)
  <2>1. run' = run /\ (rb' = rb \/ rb' = [rb EXCEPT !.status = "phase_completed"])
    BY <1>2 DEF End
  <2> QED
    BY <2>1 DEF GoesOn, RunGoesOn, NotCompleted, TypeOK
<1> QED
  BY <1>1, <1>2

LEMMA RunnersEndLast ==
    ASSUME TypeOK, Runs, NEW r \in Runners, RunnerStep(r) \/ RunnerCrash(r)
    PROVE  ChangesStay /\ (GoesOn \/ Ends)
<1>1. CASE ApplyMemory(r)
  <2>1. \/ head' = head
        \/ /\ \A m \in desk[r].targets : head[m] # "changed"
           /\ head' = [m \in Memories |-> IF m \in desk[r].targets THEN "deleted" ELSE head[m]]
    BY <1>1 DEF ApplyMemory
  <2>2. ChangesStay
    BY <2>1 DEF ChangesStay
  <2> QED
    BY <1>1, <2>2 DEF ApplyMemory, GoesOn, RunGoesOn, NotCompleted
<1>2. CASE End(r)
  <2>1. head' = head
    BY <1>2 DEF End
  <2> QED
    BY <1>2, <2>1, HeadsStay, EndEnds
<1>3. CASE \E t \in Throughs : RunStart(r, t)
  BY <1>3, HeadsStay DEF RunStart, GoesOn, RunGoesOn, NotCompleted
<1>4. CASE Fenced(r) \/ BeginStep(r) \/ ApplyFreeze(r) \/ ApplyShadow(r) \/ ApplyVerify(r)
  BY <1>4, HeadsStay DEF Fenced, BeginStep, ApplyFreeze, ApplyShadow, ApplyVerify, GoesOn, RunGoesOn,
     NotCompleted
<1>5. CASE \E m \in Memories : Register(r, m) \/ RunnerCompensates(r, m)
  BY <1>5, HeadsStay DEF Register, RunnerCompensates, GoesOn, RunGoesOn, NotCompleted
<1>6. CASE \E m \in Memories : RunnerRecords(r, m)
  <2>1. CompRecorded(r) /\ head' = head /\ r \in Procs
    BY <1>6 DEF RunnerRecords, Procs
  <2>2. RunGoesOn
    BY <2>1 DEF CompRecorded, RunGoesOn
  <2> QED
    BY <2>1, <2>2, HeadsStay, RecordedLease DEF GoesOn, NotCompleted
<1>7. CASE SettleDeletions(r) \/ RunnerCrash(r) \/ CompRemote(r)
  BY <1>7, HeadsStay DEF SettleDeletions, RunnerCrash, CompRemote, GoesOn, RunGoesOn, NotCompleted
<1>8. CASE SettleStep(r) \/ Release(r)
  <2>1. /\ run' = run /\ head' = head
        /\ \/ rb' = rb \/ rb' = [rb EXCEPT !.status = "cleanup_required"]
           \/ rb' = [rb EXCEPT !.holder = NoProc, !.live = FALSE]
    BY <1>8 DEF SettleStep, Release
  <2> QED
    BY <2>1, HeadsStay DEF GoesOn, RunGoesOn, NotCompleted, TypeOK
<1> QED
  BY <1>1, <1>2, <1>3, <1>4, <1>5, <1>6, <1>7, <1>8 DEF RunnerStep

\* What verifying finds, seen through the invariant: rows settled as compensated
\* have compensated operations, and those no projection but a stray one.
LEMMA NothingLeft ==
    ASSUME IInv, NoResidual
    PROVE  /\ \A m \in items : stray[m] # "no"
           /\ \A m \in Committed : /\ head[m] = "deleted" /\ m \in removed
                                   /\ op[m].state = "compensated"
<1>1. ASSUME NEW m \in Committed
      PROVE  /\ head[m] = "deleted" /\ m \in removed /\ op[m].state = "compensated"
             /\ m \in items => stray[m] # "no"
  <2>1. m \in Memories /\ MemHolds(m)
    BY DEF Committed, IInv, Ordered, Mems
  <2>2. op[m].state = "compensated"
    BY <2>1 DEF NoResidual, MemHolds, Finished
  <2> QED
    BY <2>1, <2>2 DEF NoResidual, MemHolds, RowInOrder, Exposed
<1>2. ASSUME NEW m \in items PROVE m \in Committed
  <2>1. m \in Memories /\ MemHolds(m)
    BY <1>2 DEF IInv, TypeOK, Ordered, Mems
  <2> QED
    BY <1>2, <2>1 DEF Committed, MemHolds, RowInOrder
<1> QED
  BY <1>1, <1>2

\* The step behind StoppedMeansAbsent.
EndsClean ==
    /\ rb.status # "completed" /\ rb'.status = "completed" =>
          /\ \A m \in items : stray[m] = "new"
          /\ \A m \in Committed : /\ head[m] = "deleted" /\ m \in removed
                                  /\ op[m].state = "compensated"
    /\ run.status # "stopped" /\ run'.status = "stopped" =>
          rb.status # "completed" /\ rb'.status = "completed"

LEMMA EndsAreClean ==
    ASSUME IInv, GoesOn \/ Ends
    PROVE  EndsClean
<1>1. TypeOK
  BY DEF IInv
<1>2. CASE GoesOn
  BY <1>1, <1>2, NotStopped DEF GoesOn, NotCompleted, EndsClean
<1>3. CASE Ends
  <2>1. \A m \in items : stray[m] = "new"
    BY <1>1, <1>3, NothingLeft DEF Ends, TypeOK
  <2> QED
    BY <1>3, <2>1, NothingLeft DEF Ends, EndsClean
<1> QED
  BY <1>2, <1>3

\* A rollback completes only when every projection of the run is gone, but those
\* a late write has put back since it began; only this makes the run stopped, and
\* no memory is forgotten that its owner has changed (StoppedMeansAbsent).
THEOREM StoppedIsClean == RollbackSpec => StoppedMeansAbsent
<1>1. IInv /\ Runs /\ [RollbackNext]_rvars => (EndsClean /\ ChangesStay) \/ UNCHANGED rvars
  <2> SUFFICES ASSUME IInv, Runs, RollbackNext PROVE EndsClean /\ ChangesStay
    OBVIOUS
  <2>1. TypeOK
    BY DEF IInv
  <2>2. CASE WorkerNext
    BY <2>1, <2>2, WorkersNeverEnd, EndsAreClean
  <2>3. CASE \E r \in Runners : RunnerStep(r) \/ RunnerCrash(r)
    BY <2>1, <2>3, RunnersEndLast, EndsAreClean
  <2>4. CASE LapseRunner
    <3>1. GoesOn /\ head' = head
      BY <2>1, <2>4 DEF LapseRunner, GoesOn, RunGoesOn, NotCompleted, TypeOK
    <3> QED
      BY <3>1, HeadsStay, EndsAreClean
  <2> QED
    BY <2>2, <2>3, <2>4 DEF RollbackNext
<1>2. RollbackInv => IInv /\ Runs
  BY InvParts
<1> QED
  BY <1>1, <1>2, RollbackInvariant, PTL DEF RollbackSpec, StoppedMeansAbsent, EndsClean,
     ChangesStay

=============================================================================
