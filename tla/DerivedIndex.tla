---------------------------- MODULE DerivedIndex ----------------------------
(***************************************************************************)
(* What the projector promises about the retrieval backend, with no        *)
(* outbox, lease, attempt or request in sight: the backend is an index     *)
(* derived from the ledger heads.  A target <<memory, revision,            *)
(* generation>> is published only once the ledger has committed that       *)
(* revision, withdrawn only when it is not the current revision, and       *)
(* acknowledged only while it is current and really in the index.          *)
(***************************************************************************)
EXTENDS Naturals

CONSTANTS Memories, Generations, MaxRevision

VARIABLES head, index, acked

indexVars == <<head, index, acked>>

IndexTargets == Memories \X (1..MaxRevision) \X Generations

Current(t)   == head[t[1]].state = "active" /\ head[t[1]].rev = t[2]
Committed(t) == t[2] <= head[t[1]].rev

IndexInit ==
    /\ head = [m \in Memories |-> [state |-> "none", rev |-> 0]]
    /\ index = {}
    /\ acked = {}

\* A head never returns to a state or a revision it has left.
Later(new, old) ==
    /\ new.rev >= old.rev
    /\ old.state \in {"retired", "deleted"} => new.state \in {"retired", "deleted"}
    /\ new.state # "none"

ChangeHead(m) ==
    /\ \E new \in [state : {"active", "retired", "deleted"}, rev : 1..MaxRevision] :
        /\ Later(new, head[m])
        /\ head' = [head EXCEPT ![m] = new]
    /\ UNCHANGED <<index, acked>>

Publish(t) ==
    /\ Committed(t)
    /\ index' = index \cup {t}
    /\ UNCHANGED <<head, acked>>

Withdraw(t) ==
    /\ Committed(t)
    /\ ~Current(t)
    /\ index' = index \ {t}
    /\ UNCHANGED <<head, acked>>

Acknowledge(t) ==
    /\ Current(t)
    /\ t \in index
    /\ acked' = acked \cup {t}
    /\ UNCHANGED <<head, index>>

IndexNext ==
    \/ \E m \in Memories : ChangeHead(m)
    \/ \E t \in IndexTargets : Publish(t) \/ Withdraw(t) \/ Acknowledge(t)

IndexSpec == IndexInit /\ [][IndexNext]_indexVars

=============================================================================
