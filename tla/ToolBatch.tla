------------------------------ MODULE ToolBatch ------------------------------
(***************************************************************************)
(* The tool calls of one assistant message, from the transaction that      *)
(* creates them until the run settles.  ADK's tools node runs every call   *)
(* on a goroutine of its own; registerToolBatch, awaitToolTurn and         *)
(* settleToolTurn put them back into their declared order.  Each goroutine *)
(* claims its row, runs the executor and settles the row.  A call with an  *)
(* InterruptPolicy pauses the run instead, and is invoked again by the     *)
(* engine that resumes it.                                                 *)
(*                                                                         *)
(* A process may crash, or lose its claim on the run and go on without     *)
(* knowing.  Every claim of the run is a generation: the first one         *)
(* dispatched the message, later ones resume, reconcile, abandon or, for a *)
(* run that never had a turn, drive the calls one by one (resumeRun).      *)
(***************************************************************************)
EXTENDS Naturals, FiniteSets

CONSTANTS
    NCalls,       \* calls of the message, in declared order
    MaxGen,       \* bound: claims of the run
    Gated,        \* calls whose tool has an InterruptPolicy
    Searches,     \* calls of the runtime's tool_search
    MaxFaults     \* bound: store calls that fail

BatchBounds ==
    /\ NCalls \in Nat \ {0} /\ MaxGen \in Nat \ {0} /\ MaxFaults \in Nat
    /\ Gated \subseteq 1..NCalls /\ Searches \subseteq (1..NCalls) \ Gated

VARIABLES
    status,    \* tool_calls.status
    fence,     \* the generation whose claim token the run row carries
    run,       \* running, paused or settled
    leaves,    \* the interrupted calls that the promoted checkpoint records
    kind,      \* what each generation does
    alive,     \* generations whose process still runs
    canceled,  \* generations whose run context is canceled
    targets,   \* per generation: calls for which ResumeRun carries a decision
    pc,        \* per generation and call: where InvokableRun is
    outcome,   \* per generation and call: what the pipeline returned
    fatal,     \* per generation: calls that returned with fatal set
    ran,       \* history: how often the executor's body was entered
    faults     \* failed store calls so far

vars == <<status, fence, run, leaves, kind, alive, canceled, targets, pc,
          outcome, fatal, ran, faults>>

Calls == 1..NCalls
Gens == 1..MaxGen

TerminalToolCall == {"completed", "failed", "interrupted"}
unfinished == {c \in Calls : status[c] \in {"pending", "running"}}

Engines == {"live", "resume"}
Cleaners == {"reconcile", "abandon", "cleanup"}

\* A result, an error or an interrupt handed to the tools node.
Returned == {"output", "error", "pause"}

\* The shape of the state of a batch: the rows of the calls, where each engine
\* is with each call (executeToolCall), and what it was resumed for.
BatchTypeOK ==
    /\ status \in [Calls -> {"none", "pending", "running"} \cup TerminalToolCall]
    /\ fence \in Gens /\ run \in {"running", "paused", "settled"}
    /\ leaves \subseteq Gated
    /\ kind \in [Gens -> Engines \cup Cleaners \cup {"none", "legacy"}]
    /\ alive \subseteq Gens /\ canceled \subseteq Gens
    /\ targets \in [Gens -> SUBSET Gated]
    /\ pc \in [Gens -> [Calls -> {"absent", "idle", "waiting", "skipping", "claiming",
                                  "claimed", "body", "settling"} \cup Returned]]
    /\ outcome \in [Gens -> [Calls -> {"none", "ok", "error", "panic",
                                       "canceled", "deadline", "skipped"}]]
    /\ fatal \in [Gens -> SUBSET Calls]
    /\ ran \in [Calls -> Nat] /\ faults \in 0..MaxFaults

-----------------------------------------------------------------------------
(* The store under the run's fence.                                        *)

mayWrite(g) == fence = g /\ run = "running"

goto(g, c, where) == pc' = [pc EXCEPT ![g] = [@ EXCEPT ![c] = where]]

\* A store call fails: refused by the fence, by a canceled context, or lost.
refused(g, ctx) ==
    \/ ~mayWrite(g) /\ UNCHANGED faults
    \/ ctx /\ g \in canceled /\ UNCHANGED faults
    \/ faults < MaxFaults /\ faults' = faults + 1

rows == <<status, fence, run, leaves>>
drive == <<kind, alive, canceled, targets>>

-----------------------------------------------------------------------------
(* The engine that runs the calls of its own message.                      *)

\* The transaction of the assistant turn creates every call; after it the
\* batch is registered and the tools node starts one goroutine per call.
persistAssistantTurn ==
    /\ 1 \in alive /\ kind[1] = "live" /\ mayWrite(1)
    /\ \A c \in Calls : status[c] = "none"
    /\ status' = [c \in Calls |-> "pending"]
    /\ pc' = [pc EXCEPT ![1] = [c \in Calls |-> "idle"]]
    /\ UNCHANGED <<fence, run, leaves, drive, outcome, fatal, ran, faults>>

\* Only the engine that committed the message knows its batch, and a single
\* call is not registered.
registered(g) == kind[g] = "live" /\ NCalls > 1

\* Mutant: only a call that settles releases its successor.
closedBySettlement(g) == {c \in Calls : pc[g][c] = "output"}

closed(g) == {c \in Calls : pc[g][c] \in Returned}

\* The deferred settleToolTurn of every return: it releases the next call
\* and, when fatal, aborts the batch.
settleToolTurn(g, c, where, isFatal) ==
    /\ goto(g, c, where)
    /\ fatal' = [fatal EXCEPT ![g] = IF isFatal THEN @ \cup {c} ELSE @]

aborted(g) == fatal[g] # {}

invoked(g, c) == g \in alive /\ kind[g] \in Engines /\ pc[g][c] = "idle"

\* The record cannot be read, the arguments diverge from it, or the host's
\* decision is missing.
InvokeFails(g, c) ==
    /\ invoked(g, c)
    /\ faults < MaxFaults /\ faults' = faults + 1
    /\ settleToolTurn(g, c, "error", TRUE)
    /\ UNCHANGED <<rows, drive, outcome, ran>>

\* A call that is already settled returns its stored output; one that an
\* earlier process left running is settled and never run again.
InvokeFinished(g, c) ==
    /\ invoked(g, c) /\ status[c] \in TerminalToolCall
    /\ settleToolTurn(g, c, "output", FALSE)
    /\ UNCHANGED <<rows, drive, outcome, ran, faults>>

settleInterruptedRunningTool(g, c) ==
    /\ invoked(g, c) /\ status[c] = "running"
    /\ \/ /\ mayWrite(g)
          /\ status' = [status EXCEPT ![c] = "interrupted"]
          /\ settleToolTurn(g, c, "output", FALSE)
          /\ UNCHANGED faults
       \/ /\ refused(g, FALSE)
          /\ settleToolTurn(g, c, "error", TRUE)
          /\ UNCHANGED status
    /\ UNCHANGED <<fence, run, leaves, drive, outcome, ran>>

\* RequiresInterrupt, or a resume that does not target this call: the call
\* pauses before it waits for its turn.
mustPause(g, c) == c \in Gated /\ c \notin targets[g]

InvokePending(g, c) ==
    /\ invoked(g, c) /\ status[c] = "pending"
    /\ IF mustPause(g, c)
       THEN settleToolTurn(g, c, "pause", FALSE)
       ELSE goto(g, c, "waiting") /\ UNCHANGED fatal
    /\ UNCHANGED <<rows, drive, outcome, ran, faults>>

\* Mutant: a call does not wait for the one before it.
turnCameUnordered(g, c) == TRUE

\* The predecessor's done channel is closed, or there is none.
turnCame(g, c) == registered(g) /\ c > 1 => c - 1 \in closed(g)

awaitToolTurn(g, c) ==
    /\ g \in alive /\ pc[g][c] = "waiting"
    /\ \/ /\ turnCame(g, c)
          /\ goto(g, c, IF registered(g) /\ aborted(g) THEN "skipping" ELSE "claiming")
          /\ UNCHANGED fatal
       \/ /\ g \in canceled /\ ~turnCame(g, c)
          /\ settleToolTurn(g, c, "error", TRUE)
    /\ UNCHANGED <<rows, drive, outcome, ran, faults>>

-----------------------------------------------------------------------------
(* Claim, execute, settle: shared by every generation.                     *)

\* A cleaner joins its errors and goes on with the next call; an engine
\* returns with fatal set, except where the settlement itself failed.
failed(g, c, isFatal) == settleToolTurn(g, c, "error", isFatal /\ kind[g] \in Engines)

claimable(g, c) == mayWrite(g) /\ status[c] = "pending"

\* interruptPendingTool claims as well: it only skips the executor.
persistToolClaim(g, c) ==
    /\ g \in alive /\ pc[g][c] \in {"claiming", "skipping"}
    /\ \/ /\ claimable(g, c)
          /\ status' = [status EXCEPT ![c] = "running"]
          /\ IF pc[g][c] = "skipping"
             THEN /\ outcome' = [outcome EXCEPT ![g] = [@ EXCEPT ![c] = "skipped"]]
                  /\ goto(g, c, "settling")
             ELSE goto(g, c, "claimed") /\ UNCHANGED outcome
          /\ UNCHANGED <<fatal, faults>>
       \/ /\ \/ refused(g, TRUE)
             \/ status[c] # "pending" /\ UNCHANGED faults
          /\ failed(g, c, TRUE)
          /\ UNCHANGED <<status, outcome>>
    /\ UNCHANGED <<fence, run, leaves, drive, ran>>

returns(g, c, o) ==
    /\ outcome' = [outcome EXCEPT ![g] = [@ EXCEPT ![c] = o]]
    /\ goto(g, c, "settling")

\* The pipeline ends before the executor: a prepare error, a guard or a
\* permission that denies the call, or a panic in one of them.  tool_search
\* has no body.
PipelineStops(g, c) ==
    /\ g \in alive /\ pc[g][c] = "claimed"
    /\ \E o \in IF c \in Searches THEN {"ok"} ELSE {"error", "panic"} :
          returns(g, c, o)
    /\ UNCHANGED <<rows, drive, fatal, ran, faults>>

ExecuteTool(g, c) ==
    /\ g \in alive /\ pc[g][c] = "claimed" /\ c \notin Searches
    /\ ran' = [ran EXCEPT ![c] = @ + 1]
    /\ goto(g, c, "body")
    /\ UNCHANGED <<rows, drive, outcome, fatal, faults>>

ExecutorReturns(g, c) ==
    /\ g \in alive /\ pc[g][c] = "body"
    /\ \E o \in {"ok", "error", "panic", "deadline"}
                \cup IF g \in canceled THEN {"canceled"} ELSE {} : returns(g, c, o)
    /\ UNCHANGED <<rows, drive, fatal, ran, faults>>

encodeToolOutput(o) ==
    CASE o = "ok" -> "completed"
      [] o \in {"error", "panic"} -> "failed"
      [] OTHER -> "interrupted"

\* The settlement ignores cancellation.  When it fails after the executor ran
\* the call returns its error without fatal; tool_search and a skipped call
\* set it.
persistToolSettlement(g, c) ==
    /\ g \in alive /\ pc[g][c] = "settling"
    /\ \/ /\ mayWrite(g) /\ status[c] = "running"
          /\ status' = [status EXCEPT ![c] = encodeToolOutput(outcome[g][c])]
          /\ IF outcome[g][c] \in {"panic", "canceled"}
             THEN failed(g, c, TRUE)
             ELSE settleToolTurn(g, c, "output", FALSE)
          /\ UNCHANGED faults
       \/ /\ refused(g, FALSE)
          /\ failed(g, c, c \in Searches \/ outcome[g][c] = "skipped")
          /\ UNCHANGED status
    /\ UNCHANGED <<fence, run, leaves, drive, outcome, ran>>

-----------------------------------------------------------------------------
(* How a generation ends.                                                  *)

joined(g) == \A c \in Calls : pc[g][c] \in Returned \cup {"absent"}
someReturned(g, r) == \E c \in Calls : pc[g][c] = r

nowhere == [c \in Calls |-> "absent"]
noOutcome == [c \in Calls |-> "none"]

\* What a generation kept in memory goes with it.
gone(g) ==
    /\ alive' = alive \ {g} /\ canceled' = canceled \ {g}
    /\ pc' = [pc EXCEPT ![g] = nowhere]
    /\ outcome' = [outcome EXCEPT ![g] = noOutcome]
    /\ fatal' = [fatal EXCEPT ![g] = {}]
    /\ targets' = [targets EXCEPT ![g] = {}]
    /\ UNCHANGED kind

\* Mutant: a run settles over open calls.
settleRunRegardless(g) ==
    \/ mayWrite(g) /\ run' = "settled"
    \/ ~mayWrite(g) /\ UNCHANGED run

\* SettleRun is refused while a call is open; the run is then left running,
\* without a driver, until its lease expires.
settleRun(g) ==
    \/ mayWrite(g) /\ unfinished = {} /\ run' = "settled"
    \/ ~(mayWrite(g) /\ unfinished = {}) /\ UNCHANGED run

\* The transaction of the assistant turn is refused: there are no calls, and
\* the run fails.
AssistantTurnFails(g) ==
    /\ g \in alive /\ kind[g] = "live" /\ \A c \in Calls : status[c] = "none"
    /\ refused(g, TRUE)
    /\ settleRun(g) /\ gone(g)
    /\ UNCHANGED <<status, fence, leaves, ran>>

\* The tools node returns when every goroutine has.  An error fails the run;
\* otherwise an interrupted call pauses it, which the store refuses for a
\* turn that is already interrupted; otherwise the turn goes on.
NodeReturns(g) ==
    /\ g \in alive /\ kind[g] \in Engines /\ joined(g)
    /\ \A c \in Calls : status[c] # "none"
    /\ IF ~someReturned(g, "error") /\ someReturned(g, "pause")
       THEN IF mayWrite(g) /\ kind[g] = "live"
            THEN run' = "paused" /\ leaves' = {c \in Calls : pc[g][c] = "pause"}
            ELSE UNCHANGED <<run, leaves>>
       ELSE settleRun(g) /\ UNCHANGED leaves
    /\ gone(g)
    /\ UNCHANGED <<status, fence, ran, faults>>

\* terminalizeUnfinishedTools takes one call after the other as it finds it.
turnOf(g, c) == \A b \in 1..(c - 1) : pc[g][b] \in Returned \cup {"absent"}

terminalizeUnfinishedTool(g, c) ==
    /\ g \in alive /\ kind[g] \in Cleaners /\ pc[g][c] = "idle" /\ turnOf(g, c)
    /\ CASE status[c] \in TerminalToolCall -> goto(g, c, "output") /\ UNCHANGED outcome
         [] status[c] = "pending" -> goto(g, c, "skipping") /\ UNCHANGED outcome
         [] OTHER -> returns(g, c, "skipped")
    /\ UNCHANGED <<rows, drive, fatal, ran, faults>>

\* A reconciled run is paused again if it ever had a checkpoint, and settled
\* otherwise; a failed clean-up leaves it as it is.  After a failed legacy
\* drive the run is settled all the same.
CleanerReturns(g) ==
    /\ g \in alive /\ kind[g] \in Cleaners /\ joined(g)
    /\ IF someReturned(g, "error") /\ kind[g] # "cleanup"
       THEN UNCHANGED run
       ELSE IF kind[g] = "reconcile" /\ leaves # {}
            THEN IF mayWrite(g) THEN run' = "paused" ELSE UNCHANGED run
            ELSE settleRun(g)
    /\ gone(g)
    /\ UNCHANGED <<status, fence, leaves, ran, faults>>

-----------------------------------------------------------------------------
(* resumeRun: the calls of a run that never had a turn, one by one.        *)

legacyTurn(g, c) == g \in alive /\ kind[g] = "legacy" /\ turnOf(g, c)
                    /\ ~someReturned(g, "error") /\ pc[g][c] = "idle"

\* An invalid record, or a tool that the plan no longer has.
LegacyFails(g, c) ==
    /\ legacyTurn(g, c)
    /\ faults < MaxFaults /\ faults' = faults + 1
    /\ goto(g, c, "error")
    /\ UNCHANGED <<rows, drive, outcome, fatal, ran>>

\* Mutant: a call found running is driven again.
LegacyCallAgain(g, c) ==
    /\ legacyTurn(g, c)
    /\ goto(g, c, IF status[c] = "running" THEN "claimed" ELSE "claiming")
    /\ UNCHANGED <<rows, drive, outcome, fatal, ran, faults>>

LegacyCall(g, c) ==
    /\ legacyTurn(g, c)
    /\ IF status[c] = "running" THEN returns(g, c, "skipped")
       ELSE goto(g, c, "claiming") /\ UNCHANGED outcome
    /\ UNCHANGED <<rows, drive, fatal, ran, faults>>

\* withCleanup: after a failure whatever is open is interrupted.
LegacyReturns(g) ==
    /\ g \in alive /\ kind[g] = "legacy"
    /\ IF someReturned(g, "error")
       THEN /\ kind' = [kind EXCEPT ![g] = "cleanup"]
            /\ pc' = [pc EXCEPT ![g] = [c \in Calls |->
                        IF @[c] = "absent" THEN "absent" ELSE "idle"]]
            /\ UNCHANGED <<run, alive, canceled, targets, outcome, fatal>>
       ELSE joined(g) /\ settleRun(g) /\ gone(g)
    /\ UNCHANGED <<status, fence, leaves, ran, faults>>

-----------------------------------------------------------------------------
(* Claims of the run, cancellation and crashes.                            *)

begin(g, k, ts, where) ==
    /\ fence' = g /\ run' = "running"
    /\ kind' = [kind EXCEPT ![g] = k]
    /\ alive' = alive \cup {g}
    /\ targets' = [targets EXCEPT ![g] = ts]
    /\ pc' = [pc EXCEPT ![g] = where]
    /\ UNCHANGED <<status, leaves, canceled, outcome, fatal, ran, faults>>

\* wasADKDriven is false: the run never had a turn.
legacy == kind[1] = "none"

listed == [c \in Calls |-> IF c \in unfinished THEN "idle" ELSE "absent"]

\* Resume of a run whose lease expired: the earlier process may be alive.
Reclaim(g) ==
    /\ run = "running" /\ g = fence + 1
    /\ begin(g, IF legacy THEN "legacy" ELSE "reconcile", {}, listed)

\* ResumeRun: the interrupted calls are invoked again, some with a decision.
ResumeRun(g) ==
    /\ run = "paused" /\ g = fence + 1
    /\ \E ts \in SUBSET leaves :
          begin(g, "resume", ts, [c \in Calls |-> IF c \in leaves THEN "idle" ELSE "absent"])

Abandon(g) == run = "paused" /\ g = fence + 1 /\ begin(g, "abandon", {}, listed)

Cancel(g) ==
    /\ g \in alive \ canceled /\ kind[g] \in Engines \cup {"legacy"}
    /\ canceled' = canceled \cup {g}
    /\ UNCHANGED <<rows, kind, alive, targets, pc, outcome, fatal, ran, faults>>

Crash(g) ==
    /\ g \in alive /\ gone(g)
    /\ UNCHANGED <<rows, ran, faults>>

-----------------------------------------------------------------------------

\* A run that never had a turn is found as a crashed process left it.
LegacyInit ==
    /\ status \in [Calls -> {"pending", "running", "completed"}]
    /\ ran = [c \in Calls |-> IF status[c] = "pending" THEN 0 ELSE 1]
    /\ alive = {}
    /\ kind = [g \in Gens |-> "none"]

TurnInit ==
    /\ status = [c \in Calls |-> "none"]
    /\ ran = [c \in Calls |-> 0]
    /\ alive = {1}
    /\ kind = [g \in Gens |-> IF g = 1 THEN "live" ELSE "none"]

Init ==
    /\ LegacyInit \/ TurnInit
    /\ fence = 1 /\ run = "running" /\ leaves = {}
    /\ canceled = {} /\ targets = [g \in Gens |-> {}]
    /\ pc = [g \in Gens |-> nowhere]
    /\ outcome = [g \in Gens |-> noOutcome]
    /\ fatal = [g \in Gens |-> {}]
    /\ faults = 0

InvokableRun(g, c) ==
    \/ InvokeFails(g, c)
    \/ InvokeFinished(g, c)
    \/ settleInterruptedRunningTool(g, c)
    \/ InvokePending(g, c)
    \/ awaitToolTurn(g, c)

ExecuteAndSettle(g, c) ==
    \/ persistToolClaim(g, c)
    \/ PipelineStops(g, c)
    \/ ExecuteTool(g, c)
    \/ ExecutorReturns(g, c)
    \/ persistToolSettlement(g, c)

Sequential(g, c) ==
    \/ terminalizeUnfinishedTool(g, c)
    \/ LegacyFails(g, c)
    \/ LegacyCall(g, c)

Returns(g) == AssistantTurnFails(g) \/ NodeReturns(g) \/ CleanerReturns(g) \/ LegacyReturns(g)

Next ==
    \/ persistAssistantTurn
    \/ \E g \in Gens, c \in Calls :
          InvokableRun(g, c) \/ ExecuteAndSettle(g, c) \/ Sequential(g, c)
    \/ \E g \in Gens : Returns(g) \/ Reclaim(g) \/ ResumeRun(g) \/ Abandon(g)
                         \/ Cancel(g) \/ Crash(g)

Spec == Init /\ [][Next]_vars

\* A goroutine of a live process takes its next step, or the host's sweep of
\* unfinished runs reclaims one that nobody drives.
Progress(g) ==
    \/ \E c \in Calls : InvokableRun(g, c) \/ ExecuteAndSettle(g, c) \/ Sequential(g, c)
    \/ Returns(g)
    \/ g = 1 /\ persistAssistantTurn
    \/ fence \notin alive /\ Reclaim(g)

-----------------------------------------------------------------------------
(* Properties.                                                             *)

\* A tool's body runs at most once for a call, whatever crashes, pauses,
\* reclaims and goroutines of superseded processes come together.
\* docs/architecture/eino-feature-support.md:126.
ExecutedAtMostOnce == \A c \in Calls : ran[c] <= 1

\* A call recorded as completed did run, and a run that settled has left
\* none of its calls open.
SettledCallsAreTrue ==
    /\ \A c \in Calls \ Searches : status[c] = "completed" => ran[c] = 1
    /\ run = "settled" => unfinished = {}

\* The body of call c is entered.
starts(g, c) == pc[g][c] # "body" /\ pc'[g][c] = "body"

\* What the engine that registered the batch knows of the calls before c:
\* each has returned and not fatally, except that a call which pauses
\* releases its successor without having waited for its own turn.
inOrder(g, c) ==
    \A b \in 1..(c - 1) : \/ b \in closed(g) \ fatal[g]
                          \/ \E p \in (b + 1)..(c - 1) : pc[g][p] = "pause"

declaredOrder == \A g \in Gens, c \in Calls : registered(g) /\ starts(g, c) => inOrder(g, c)

\* In the engine that registered the batch a body starts only after every
\* earlier call has returned, and none of them fatally, back to the last one
\* that paused: adk_execution.go:112.
DeclaredOrder == [][declaredOrder]_vars

\* A call runs only when every earlier sibling has called settleToolTurn, as
\* the comment of awaitToolTurn says: adk_execution.go:322.
SiblingsSettledFirst ==
    \A g \in Gens, c \in Calls :
       registered(g) /\ pc[g][c] = "body" => 1..(c - 1) \subseteq closed(g)

\* The run is paused or settled, or nobody drives it and the claims of the
\* model are used up.
atRest == run # "running" \/ (fence = MaxGen /\ fence \notin alive)
=============================================================================
