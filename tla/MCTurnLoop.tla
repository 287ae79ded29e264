----------------------------- MODULE MCTurnLoop -----------------------------
(* One session, for TLC. *)
EXTENDS TurnLoop

CONSTANT S1
MCRunSession == [r \in Runs |-> S1]
MCItemSession == [i \in Items |-> S1]
MCBlobs == [turn : Turns, runner : BOOLEAN, rest : SUBSET (Items \cup {First, Reconciled}),
            inflight : SUBSET (Items \cup {First, Reconciled})]
=============================================================================
