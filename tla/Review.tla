------------------------------- MODULE Review -------------------------------
(***************************************************************************)
(* Human review of the conflicts that batch maintenance leaves open        *)
(* (maintenance/review.py, ReviewService.resolve), together with the       *)
(* workers of Batch.  resolve reads the conflict, its batch and the head   *)
(* outside any transaction and then runs up to three transactions; a       *)
(* reviewer may stop between two of them, and two reviewers may interleave.*)
(*                                                                         *)
(* The batch belongs to no rollout (commit_batch refuses a review of one). *)
(***************************************************************************)
EXTENDS Batch

CONSTANTS
    Reviewers,  \* callers of resolve
    Receipts,   \* receipts of the requests
    NoReceipt   \* no review token is in force

Decisions == {"accept_old", "accept_new", "defer"}
Results   == {"settled", "rejected", "awaiting_review", "stale_review"}

(***************************************************************************)
(* successor_id is derived from the receipt, so that successor proposals   *)
(* and review tokens are named by receipts.  resolve refuses another       *)
(* request only of a receipt that is stored: until then a caller may use   *)
(* it for any.                                                             *)
(***************************************************************************)
Request   == [pair : Pairs, decision : Decisions]
NoRequest == [pair |-> <<>>, decision |-> "none"]
Several   == [pair |-> <<>>, decision |-> "several"]

SuccessorStatuses == {"none", "proposed", "committed", "no_change", "invalidated"}

DeskPhases == {"refusing", "deferring", "checking", "stale", "saying_stale",
               "starting", "committing", "recording", "keeping"}

(***************************************************************************)
(* A reviewer inside resolve: the request, and what it read of the         *)
(* conflict's batch (status), of the review token, and of the candidate's  *)
(* claim_token (held: the candidate was in this batch); lapsed: the lease  *)
(* had run out.                                                            *)
(***************************************************************************)
Desk == [phase   : DeskPhases,
         receipt : Receipts,
         pair    : Pairs,
         decision : Decisions,
         status  : BatchStatuses,
         token   : Receipts \cup {NoReceipt},
         held    : BOOLEAN,
         lapsed  : BOOLEAN]

Away == [phase |-> "away"]

VARIABLES
    asked,      \* history: the request a receipt was used for, or Several
    made,       \* predecessor of the successor proposal of a receipt
    successor,  \* status of the successor proposal of a receipt
    effect,     \* history: the conflict that a request of a receipt settled
    receipts,   \* review_receipts: the stored result, or "none"
    resolution, \* conflicts.resolution
    token,      \* the review token of a batch, by the receipt that took it
    desk        \* what each reviewer is doing

reviewVars == <<asked, made, successor, effect, receipts, resolution, token, desk>>
allVars    == <<vars, reviewVars>>

ReviewTypeOK ==
    /\ TypeOK
    /\ asked \in [Receipts -> Request \cup {NoRequest, Several}]
    /\ made \in [Receipts -> SUBSET Pairs]
    /\ effect \in [Receipts -> SUBSET Pairs]
    /\ successor \in [Receipts -> SuccessorStatuses]
    /\ receipts \in [Receipts -> Results \cup {"none"}]
    /\ resolution \in [Pairs -> Decisions \cup {"none"}]
    /\ token \in [Batches -> Receipts \cup {NoReceipt}]
    /\ desk \in [Reviewers -> Desk \cup {Away}]

ReviewInit ==
    /\ Init
    /\ asked = [r \in Receipts |-> NoRequest]
    /\ made = [r \in Receipts |-> {}]
    /\ effect = [r \in Receipts |-> {}]
    /\ successor = [r \in Receipts |-> "none"]
    /\ receipts = [r \in Receipts |-> "none"]
    /\ resolution = [p \in Pairs |-> "none"]
    /\ token = [b \in Batches |-> NoReceipt]
    /\ desk = [v \in Reviewers |-> Away]

At(v, phase)   == desk[v] # Away /\ desk[v].phase = phase
Turn(v, phase) == desk' = [desk EXCEPT ![v].phase = phase]
Quit(v)        == desk' = [desk EXCEPT ![v] = Away]

Pair(v)     == desk[v].pair
Decision(v) == desk[v].decision

InReview(b) == batch[b].status \in {"awaiting_review", "review_committing"}

\* Slips in the code that the runs must notice stand before the definition
\* they would replace, named "...Slip".
ReviewedSlip(b, r, p) == FALSE
Reviewed(b, r, p) == batch[b].status = "settled" /\ successor[r] = "committed" /\ p \in made[r]

(***************************************************************************)
(* resolve up to its first transaction: no receipt yet (one that is stored *)
(* is answered from it), then the conflict as it is now.                   *)
(***************************************************************************)
Resolve(v) ==
    /\ desk[v] = Away
    /\ \E r \in Receipts, p \in Pairs, d \in Decisions :
        LET b == p[1]
            request == [pair |-> p, decision |-> d]
            undecided == conflict[p] = "open" /\ InReview(b)
        IN  /\ conflict[p] # "none"
            /\ receipts[r] = "none"
            /\ asked' = [asked EXCEPT ![r] = IF @ \in {NoRequest, request} THEN request
                                             ELSE Several]
            /\ \E phase \in DeskPhases :
                /\ desk' = [desk EXCEPT ![v] =
                     [phase |-> phase, receipt |-> r, pair |-> p, decision |-> d,
                      status |-> batch[b].status, token |-> token[b], held |-> cand[p[2]].batch = b, lapsed |-> FALSE]]
                /\ \/ Reviewed(b, r, p) /\ phase = "recording"
                   \/ ~Reviewed(b, r, p) /\ ~undecided /\ phase = "refusing"
                   \/ undecided /\ d = "defer" /\ phase = "deferring"
                   \/ undecided /\ d = "accept_new" /\ phase = "checking"
                   \/ undecided /\ d = "accept_old" /\ phase = "keeping"
    /\ UNCHANGED <<vars, made, successor, effect, receipts, resolution, token>>

\* _save_receipt: a second insert of the same receipt is refused.
Save(v, result) ==
    receipts' = [receipts EXCEPT ![desk[v].receipt] = IF @ = "none" THEN result ELSE @]

Answer(v) ==
    /\ \/ At(v, "refusing") /\ Save(v, "rejected")
       \/ At(v, "deferring") /\ Save(v, "awaiting_review")
       \/ At(v, "saying_stale") /\ Save(v, "stale_review")
    /\ Quit(v)
    /\ UNCHANGED <<vars, asked, made, successor, effect, resolution, token>>

\* accept_new: the head is compared with base_revision, and review_now taken.
CheckTarget(v) ==
    /\ At(v, "checking")
    /\ LET b == Pair(v)[1]
           fresh == Current(b, Target(b, Pair(v)[2]))
       IN desk' = [desk EXCEPT
             ![v].phase = IF ~fresh THEN "stale"
                          ELSE IF desk[v].status = "awaiting_review" THEN "starting"
                          ELSE "committing",
             ![v].lapsed = desk[v].status = "review_committing" /\ batch[b].lease # "live"]
    /\ UNCHANGED <<vars, asked, made, successor, effect, receipts, resolution, token>>

\* The head has moved: the proposal and an open successor are invalidated and
\* the batch goes back to awaiting_review, whatever it has become since.
Stale(v) ==
    /\ At(v, "stale")
    /\ LET p == Pair(v)
           b == p[1]
       IN /\ prop' = [prop EXCEPT ![p].status = "invalidated"]
          /\ successor' = [r \in Receipts |->
                IF p \in made[r] /\ successor[r] = "proposed" THEN "invalidated"
                ELSE successor[r]]
          /\ batch' = [batch EXCEPT ![b] = Freed(batch[b], "awaiting_review")]
          /\ token' = [token EXCEPT ![b] = NoReceipt]
    /\ Turn(v, "saying_stale")
    /\ UNCHANGED <<head, candidateVars, conflict, work, faults, asked, made, effect, receipts,
                   resolution>>

(***************************************************************************)
(* accept_new, first transaction: the successor proposal, and a new token  *)
(* for the batch.  It is rolled back when the successor exists already or  *)
(* the batch is no longer awaiting review.                                 *)
(***************************************************************************)
Start(v) ==
    /\ At(v, "starting")
    /\ LET p == Pair(v)
           b == p[1]
           r == desk[v].receipt
           mayStart == successor[r] = "none" /\ batch[b].status = "awaiting_review"
       IN \/ /\ mayStart
             /\ successor' = [successor EXCEPT ![r] = "proposed"]
             /\ made' = [made EXCEPT ![r] = {p}]
             /\ prop' = [prop EXCEPT ![p].status = "superseded"]
             /\ batch' = [batch EXCEPT ![b].status = "review_committing",
                                       ![b].holder = "reviewer",
                                       ![b].lease = "live"]
             /\ token' = [token EXCEPT ![b] = r]
             /\ desk' = [desk EXCEPT ![v].phase = "committing", ![v].token = r]
          \/ /\ ~mayStart
             /\ Quit(v)
             /\ UNCHANGED <<made, successor, prop, batch, token>>
    /\ UNCHANGED <<head, candidateVars, conflict, work, faults, asked, effect, receipts, resolution>>

(***************************************************************************)
(* accept_new, second transaction: commit_batch of the successor alone,    *)
(* or a ValueError that leaves everything, review_committing too, as it is.*)
(* The plan is made of the conflict; that the successor is one of the same *)
(* conflict nobody compares, only that it is one of the same batch.        *)
(***************************************************************************)

MayCommit(v) ==
    LET p == Pair(v)
        b == p[1]
        c == p[2]
    IN  /\ batch[b].status = "review_committing"
        /\ token[b] = desk[v].token
        /\ ~desk[v].lapsed
        /\ successor[desk[v].receipt] = "proposed"
        /\ \A q \in made[desk[v].receipt] : q[1] = b
        /\ desk[v].held
        /\ Held(b, c)
        /\ Current(b, Target(b, c))
        /\ prop[p].delta.fits

\* The candidate of a pair is settled and leaves the batch.
DismissSlip(p) == UNCHANGED candidateVars
Dismiss(p) ==
    /\ cand' = [cand EXCEPT ![p[2]] = [status |-> "settled", batch |-> NoBatch]]
    /\ open' = open \ {p}

CommitReview(v) ==
    /\ At(v, "committing")
    /\ LET p == Pair(v)
           b == p[1]
           m == Target(b, p[2])
       IN \/ /\ MayCommit(v)
             /\ head' = [head EXCEPT ![m] = NewHead(m, "refine")]
             /\ Dismiss(p)
             /\ successor' = [successor EXCEPT ![desk[v].receipt] = "committed"]
             /\ effect' = [effect EXCEPT ![desk[v].receipt] = {p}]
             /\ batch' = [batch EXCEPT ![b] = Freed(batch[b], "settled")]
             /\ token' = [token EXCEPT ![b] = NoReceipt]
             /\ Turn(v, "recording")
          \/ /\ ~MayCommit(v)
             /\ Quit(v)
             /\ UNCHANGED <<head, candidateVars, successor, effect, batch, token>>
    /\ UNCHANGED <<proposalVars, work, faults, asked, made, receipts, resolution>>

\* accept_new, third transaction, and the repair of a crash before it
Record(v) ==
    /\ At(v, "recording")
    /\ LET p == Pair(v)
           r == desk[v].receipt
       IN \/ /\ receipts[r] = "none"
             /\ conflict' = [conflict EXCEPT ![p] = "resolved"]
             /\ resolution' = [resolution EXCEPT ![p] = IF conflict[p] = "open"
                                                        THEN Decision(v) ELSE @]
             /\ Save(v, "settled")
          \/ /\ receipts[r] # "none"
             /\ UNCHANGED <<conflict, resolution, receipts>>
    /\ Quit(v)
    /\ UNCHANGED <<head, candidateVars, batch, prop, work, faults, asked, made, successor,
                   effect, token>>

(***************************************************************************)
(* accept_old: one transaction, which does not look again at what resolve  *)
(* read before it; only the inserts of the successor and of the receipt    *)
(* can refuse it.                                                          *)
(***************************************************************************)
Keep(v) ==
    /\ At(v, "keeping")
    /\ LET p == Pair(v)
           b == p[1]
           c == p[2]
           r == desk[v].receipt
           mayKeep == successor[r] = "none" /\ receipts[r] = "none"
       IN \/ /\ mayKeep
             /\ successor' = [successor EXCEPT ![r] = "no_change"]
             /\ made' = [made EXCEPT ![r] = {p}] /\ effect' = [effect EXCEPT ![r] = {p}]
             /\ prop' = [prop EXCEPT ![p].status = "superseded"]
             /\ conflict' = [conflict EXCEPT ![p] = "resolved"]
             /\ resolution' = [resolution EXCEPT ![p] = Decision(v)]
             /\ cand' = IF cand[c] = [status |-> "awaiting_review", batch |-> b]
                        THEN [cand EXCEPT ![c] = [status |-> "settled", batch |-> NoBatch]]
                        ELSE cand
             /\ open' = open \ {p}
             /\ batch' = IF batch[b].status = "awaiting_review"
                         THEN [batch EXCEPT ![b].status = "settled"]
                         ELSE batch
             /\ Save(v, "settled")
          \/ /\ ~mayKeep
             /\ UNCHANGED <<made, successor, effect, proposalVars, resolution, candidateVars,
                            batch, receipts>>
    /\ Quit(v)
    /\ UNCHANGED <<head, work, faults, asked, token>>

(***************************************************************************)
(* A reviewer's process stops; the lease of a review runs out.             *)
(***************************************************************************)
Abandon(v) ==
    /\ desk[v] # Away
    /\ Fault
    /\ Quit(v)
    /\ UNCHANGED <<head, candidateVars, batch, proposalVars, work,
                   asked, made, successor, effect, receipts, resolution, token>>

ReviewLeaseRunsOut(b) ==
    /\ batch[b].status = "review_committing"
    /\ batch[b].lease = "live"
    /\ Expire(b)
    /\ UNCHANGED <<head, candidateVars, proposalVars, work, faults, reviewVars>>

Proceed(v) ==
    \/ Answer(v) \/ CheckTarget(v) \/ Stale(v) \/ Start(v) \/ CommitReview(v)
    \/ Record(v) \/ Keep(v)

ReviewNext ==
    \/ Next /\ UNCHANGED reviewVars
    \/ \E v \in Reviewers : Resolve(v) \/ Proceed(v) \/ Abandon(v)
    \/ \E b \in Batches : ReviewLeaseRunsOut(b)

ReviewSpec == ReviewInit /\ [][ReviewNext]_allVars

\* A reviewer goes on to the end of resolve, and asks again as long as some
\* receipt has no stored answer: more than the code makes anybody do, and not
\* enough for ReviewEnds.
ReviewFairness ==
    /\ \A w \in Workers : WF_allVars(RunOnce(w) /\ UNCHANGED reviewVars)
    /\ \A b \in Batches : WF_allVars(LeaseRunsOut(b) /\ UNCHANGED reviewVars)
    /\ \A v \in Reviewers : WF_allVars(Resolve(v) \/ Proceed(v))
    /\ \A b \in Batches : WF_allVars(ReviewLeaseRunsOut(b))

FairReviewSpec == ReviewSpec /\ ReviewFairness

-----------------------------------------------------------------------------
(***************************************************************************)
(* Properties.                                                             *)
(***************************************************************************)
Settled(p, status) == {r \in Receipts : p \in effect[r] /\ successor[r] = status}
Effective(p)       == {r \in Receipts : p \in effect[r]}

(***************************************************************************)
(* However many reviewers answer a conflict, whatever receipts they use,   *)
(* and however often they are interrupted, the memory is changed for it at *)
(* most once, and then its candidate has left the batch.                   *)
(***************************************************************************)
AcceptedOnce ==
    \A p \in Pairs :
        /\ \A q, r \in Settled(p, "committed") : q = r
        /\ Settled(p, "committed") # {} => cand[p[2]].status = "settled"

\* What a receipt answered `settled` says: its request took effect, and as it
\* was decided.
TookEffect(r) ==
    /\ asked[r].pair \in effect[r]
    /\ successor[r] = IF asked[r].decision = "accept_old" THEN "no_change" ELSE "committed"

(***************************************************************************)
(* What is on record took effect: a conflict is resolved by a request that *)
(* was answered `settled`, the resolution is its decision, and every such  *)
(* request took effect as decided; receipts that came to be used for more  *)
(* than one request before they were stored are the exception.             *)
(***************************************************************************)
RecordsTrue ==
    /\ \A p \in Pairs : conflict[p] = "resolved" =>
          \E r \in Receipts :
              /\ receipts[r] = "settled"
              /\ asked[r] \in {Several, [pair |-> p, decision |-> resolution[p]]}
    /\ \A r \in Receipts : receipts[r] = "settled" =>
          /\ successor[r] \in {"committed", "no_change"}
          /\ asked[r] # Several => TookEffect(r)

(***************************************************************************)
(* The design document: another conflict or decision with the same receipt *)
(* must be refused, so that a stored receipt never speaks of anything else *)
(* than what took effect.                                                  *)
(***************************************************************************)
EveryRecordTrue ==
    \A p \in Pairs : conflict[p] = "resolved" =>
        \E r \in Effective(p) :
            receipts[r] = "settled" /\ (successor[r] = "no_change" <=> resolution[p] = "accept_old")

\* What is done for a receipt is done for the request it was used for, of a
\* conflict that there is; the last transaction comes after the commit; and a
\* settled candidate is in no batch.
ReceiptInOrder(r) ==
    LET q == asked[r] IN
    /\ q = NoRequest => successor[r] = "none"
    /\ successor[r] = "none" <=> made[r] = {}
    /\ effect[r] = {} <=> successor[r] \notin {"committed", "no_change"}
    /\ q \notin {NoRequest, Several} =>
          /\ conflict[q.pair] # "none"
          /\ made[r] \cup effect[r] \subseteq {q.pair}
          /\ successor[r] # "none" => (successor[r] = "no_change" <=> q.decision = "accept_old")

RequestsInOrder ==
    /\ \A r \in Receipts : ReceiptInOrder(r)
    /\ \A p \in Pairs : Effective(p) # {} => conflict[p] # "none"
    /\ \A v \in Reviewers : desk[v] # Away =>
          /\ asked[desk[v].receipt] \in {Several, [pair |-> Pair(v), decision |-> Decision(v)]}
          /\ conflict[Pair(v)] # "none"
          /\ desk[v].phase \in {"checking", "starting", "committing", "stale"} =>
                Decision(v) = "accept_new"
          /\ desk[v].phase = "keeping" => Decision(v) = "accept_old"
          /\ desk[v].phase = "recording" => successor[desk[v].receipt] = "committed"
    /\ \A c \in Candidates : cand[c].status = "settled" => cand[c].batch = NoBatch

(***************************************************************************)
(* Whoever reviews, and however many at once: types, one acceptance for    *)
(* each conflict, and true records.                                        *)
(***************************************************************************)
ReviewInv == ReviewTypeOK /\ AcceptedOnce /\ RecordsTrue /\ RequestsInOrder

(***************************************************************************)
(* A conflict is decided once.                                             *)
(***************************************************************************)
DecidedOnce == \A p \in Pairs : \A q, r \in Effective(p) : q = r

(***************************************************************************)
(* A stored receipt tells the truth for ever: an answer other than         *)
(* `settled` means that no request of this receipt took effect or will,    *)
(* unless there were several.                                              *)
(***************************************************************************)
ReceiptsTell ==
    \A r \in Receipts : receipts[r] \notin {"none", "settled"} =>
        asked[r] = Several \/ effect[r] = {}

\* A reviewer who is alone finds the conflict as he read it: open, with its
\* batch in review; a request that took effect closes one of the two.
StillOpen(p) == conflict[p] = "open" /\ InReview(p[1])

ReviewsInOrder ==
    /\ \A v \in Reviewers : desk[v] # Away =>
          /\ receipts[desk[v].receipt] = "none"
          /\ desk[v].phase \in {"deferring", "checking", "stale", "starting", "committing",
                                "keeping"} => StillOpen(Pair(v))
          /\ desk[v].phase = "saying_stale" => InReview(Pair(v)[1])
          /\ desk[v].phase = "refusing" =>
                asked[desk[v].receipt] = Several \/ effect[desk[v].receipt] = {}
    /\ \A p \in Pairs :
          /\ conflict[p] # "none" => InReview(p[1]) \/ batch[p[1]].status = "settled"
          /\ Settled(p, "committed") # {} => batch[p[1]].status = "settled"
          /\ \A r \in Settled(p, "no_change") : conflict[p] = "resolved" /\ receipts[r] = "settled"

(***************************************************************************)
(* When reviewers come one after the other, wherever each of them stops:   *)
(* one decision for each conflict, and truth in every receipt.  With two   *)
(* at once accept_old, which does not look again, may follow accept_new.   *)
(***************************************************************************)
OneByOne == DecidedOnce /\ ReceiptsTell /\ ReviewsInOrder

(***************************************************************************)
(* The design document: a settled batch is at rest.  No status change may  *)
(* ignore the status the batch has by then.                                *)
(***************************************************************************)
SettledBatchStays ==
    [][\A b \in Batches :
         batch[b].status = "settled" => batch'[b].status = "settled"]_allVars

(***************************************************************************)
(* The design document: review_committing leads to settled or back to      *)
(* awaiting_review.                                                        *)
(***************************************************************************)
ReviewEnds ==
    \A b \in Batches :
        batch[b].status = "review_committing"
            ~> batch[b].status \in {"settled", "awaiting_review"}

=============================================================================
