----------------------------- MODULE MCExecution -----------------------------
(***************************************************************************)
(* The two halves of driving a turn: the batch of tool calls of a message  *)
(* (ToolBatch) and the dispatch of a model node (ModelDispatch).  They     *)
(* share no state within one step of the other; a behaviour moves one of   *)
(* them, and the other stays at the start of a turn.                       *)
(***************************************************************************)
EXTENDS ToolBatch, ModelDispatch

VARIABLE moves   \* "batch" or "dispatch"

ASSUME ExecutionBounds == BatchBounds /\ DispatchBounds

ExecutionInit ==
    /\ Init /\ DispatchInit /\ moves \in {"batch", "dispatch"}
    /\ moves = "dispatch" => TurnInit

ExecutionNext ==
    /\ \/ moves = "batch" /\ Next /\ UNCHANGED dispatchVars
       \/ moves = "dispatch" /\ DispatchNext /\ UNCHANGED vars
    /\ UNCHANGED moves

\* Goroutines of a live process are scheduled, executors and providers return,
\* and the host sweeps.  Each of them takes finitely many steps, so it is
\* enough that one moves while any can.  Nobody has to resume a paused run, to
\* cancel it or to crash.
ExecutionSpec ==
    /\ ExecutionInit /\ [][ExecutionNext]_<<vars, dispatchVars, moves>>
    /\ WF_vars(moves = "batch" /\ \E g \in Gens : Progress(g))
    /\ WF_dispatchVars(moves = "dispatch" /\ Step)

\* A turn does not stay running for ever.  Its tool calls do not wait for each
\* other or for a process that is gone: the run pauses or settles (every
\* return of InvokableRun releases the next call, the clean-ups go on after an
\* error, and the sweep claims what nobody drives).  And its model node comes
\* to rest again: retries, failovers and pauses run out.
ExecutionRests ==
    /\ (moves = "batch" /\ run = "running") ~> atRest
    /\ []<>(moves = "dispatch" => call.at \in Resting)
==============================================================================
