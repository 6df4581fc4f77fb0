----------------------------- MODULE MCSessions -----------------------------
(* Guests and scenarios for Sessions.                                        *)
EXTENDS Sessions

CONSTANTS g1, g2

TwoGuests == {g1, g2}

Tries(m, n) == [g \in Guests |-> IF g = g1 THEN m ELSE n]
AtMost(n, faults) == [f \in Faults |-> IF f = "all" \/ f \in faults THEN n ELSE 0]

\* A guest that retries beside another one, with one fault of the signaling; and a
\* guest alone that retries twice, with any two faults.
TwoScenarios ==
    {[tries |-> Tries(2, 1), faults |-> AtMost(1, {"drop", "restart", "slow", "sweep"})],
     [tries |-> Tries(3, 0), faults |-> AtMost(2, Faults)]}

\* One guest, and one signaling connection that drops.
DropScenario == {[tries |-> Tries(1, 0), faults |-> AtMost(1, {"drop"})]}
=============================================================================
