-------------------------- MODULE SessionRefinement --------------------------
(***************************************************************************)
(* The store implements the contract of a session: which rows stand for    *)
(* which part of it.                                                       *)
(***************************************************************************)
EXTENDS SessionStore

runView == [r \in Runs |->
    IF runStatus[r] = "none" THEN "new"
    ELSE IF runStatus[r] \in OpenRun THEN "open"
    ELSE IF runStatus[r] = "completed" THEN "completed" ELSE "ended"]

itemView == [i \in Items |->
    IF inboxState[i] = "none" THEN "new"
    ELSE IF inboxState[i] = "queued" THEN "queued"
    ELSE IF inboxState[i] = "completed" THEN "answered" ELSE "taken"]

holderView == [i \in Items |-> IF inboxTurn[i] = None THEN None ELSE turnRun[inboxTurn[i]]]

Contract == INSTANCE SessionContract
    WITH run <- runView, item <- itemView, holder <- holderView

\* Every behaviour of the store is one the contract allows: each of its
\* transactions, made with whatever fence, is one step of the contract or
\* changes nothing that the contract speaks of (claims, pauses, redrives).
KeepsContract == Contract!ContractSpec
=============================================================================
