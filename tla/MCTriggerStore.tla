--------------------------- MODULE MCTriggerStore ---------------------------
(* An instance of TriggerStore for TLC. *)
EXTENDS TriggerStore

CONSTANTS first, second, third, fourth

\* The last two come without an X-GitHub-Delivery header.
MCTriggerId == [r \in Runs |-> IF r \in {third, fourth} THEN "unknown" ELSE r]

\* Runs that share an id are alike.
MCAlike == Permutations({third, fourth})

=============================================================================
