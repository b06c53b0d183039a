------------------------------ MODULE MCJournal ------------------------------
EXTENDS Journal, TLC

CONSTANTS g1, g2, k1, k2, b1, b2

\* A source with an unreadable line between two events, and one of one event.
Lines ==
    (g1 :> << [kind |-> "event", key |-> k1, body |-> b1],
              [kind |-> "bad", body |-> b1],
              [kind |-> "event", key |-> k2, body |-> b1] >>)
    @@ (g2 :> << [kind |-> "event", key |-> k1, body |-> b1] >>)

\* What hooks deliver: an event that is also a line, one whose key a later line
\* has with other content, and one of the other source.
Hooks == {[gen |-> g1, key |-> k1, body |-> b1], [gen |-> g1, key |-> k2, body |-> b2],
          [gen |-> g2, key |-> k1, body |-> b1]}

Symmetric == Permutations(Callers)
=============================================================================
