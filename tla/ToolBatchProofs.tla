-------------------------- MODULE ToolBatchProofs --------------------------
(***************************************************************************)
(* For any number of calls and of claims of the run: a tool's body runs at *)
(* most once, settled rows tell the truth, and the batch of a live engine  *)
(* runs in its declared order.                                             *)
(*                                                                         *)
(* The first two rest on the row: only the transaction that finds a call   *)
(* pending lets a goroutine run it, and no row becomes pending again.  The *)
(* order rests on the fence: while the engine that registered the batch    *)
(* may still write, nobody else has touched its calls, so a call that      *)
(* returned before its turn is one that paused or one that aborted the     *)
(* batch.                                                                  *)
(***************************************************************************)
EXTENDS ToolBatch, TLAPS

\* A call that was never claimed has not run, and nobody is about to run it.
UnclaimedNeverRan ==
    \A c \in Calls : status[c] \in {"none", "pending"} =>
        ran[c] = 0 /\ \A g \in Gens : pc[g][c] # "claimed"

\* The goroutine that holds the claim is the only one, and has not run it yet.
ClaimedAlone ==
    \A g \in Gens, c \in Calls : pc[g][c] = "claimed" =>
        ran[c] = 0 /\ \A h \in Gens : pc[h][c] = "claimed" => h = g

\* A body that runs or returned was counted.
RanIsCounted ==
    \A g \in Gens, c \in Calls :
        pc[g][c] = "body" \/ (pc[g][c] = "settling" /\ outcome[g][c] = "ok" /\ c \notin Searches)
            => ran[c] = 1

PausedIsGated == \A g \in Gens, c \in Calls : pc[g][c] = "pause" => c \in Gated

\* Generations: later claims have larger numbers, and memory dies with them.
GenerationsApart ==
    /\ \A g \in Gens : kind[g] = "live" => g = 1
    /\ \A g \in alive : g <= fence
    /\ \A g \in Gens \ alive : pc[g] = nowhere

\* While the first engine may write, a call it has not claimed is pending.
UnclaimedIsPending ==
    kind[1] = "live" /\ mayWrite(1) =>
        \A c \in Calls : pc[1][c] \in {"idle", "waiting", "claiming", "skipping"}
                         => status[c] = "pending"

\* Where a call of the registered batch stands, and the calls before it.
OrderKept ==
    registered(1) => \A c \in Calls :
        /\ pc[1][c] = "skipping" => aborted(1)
        /\ pc[1][c] \in {"claimed", "body"} => inOrder(1, c)
        /\ pc[1][c] = "settling" => aborted(1) \/ inOrder(1, c)
        /\ pc[1][c] = "claiming" => ~mayWrite(1) \/ inOrder(1, c)
        /\ pc[1][c] \in {"output", "error"} => ~mayWrite(1) \/ aborted(1) \/ inOrder(1, c)

BatchInv ==
    /\ BatchTypeOK /\ UnclaimedNeverRan /\ ClaimedAlone /\ RanIsCounted /\ PausedIsGated
    /\ GenerationsApart /\ UnclaimedIsPending /\ OrderKept
    /\ ExecutedAtMostOnce /\ SettledCallsAreTrue

-----------------------------------------------------------------------------
(* What a step does, whatever its action.                                  *)

\* The row of a call and the history of its body.
RowStep(g, c) ==
    \/ /\ status'[c] = status[c] /\ ran'[c] = ran[c]
       /\ pc'[g][c] \notin {"claimed", "body"}
       /\ pc'[g][c] = "settling" /\ outcome'[g][c] = "ok" => pc[g][c] = "body" \/ c \in Searches
    \/ /\ pc[g][c] = "claiming" /\ pc'[g][c] = "claimed" /\ mayWrite(g)
       /\ status[c] = "pending" /\ status'[c] = "running" /\ ran'[c] = ran[c]
    \/ /\ pc[g][c] = "skipping" /\ pc'[g][c] = "settling" /\ mayWrite(g)
       /\ status[c] = "pending" /\ status'[c] = "running" /\ ran'[c] = ran[c]
       /\ outcome'[g][c] = "skipped"
    \/ /\ pc[g][c] = "claimed" /\ pc'[g][c] = "body" /\ c \notin Searches
       /\ status'[c] = status[c] /\ ran'[c] = ran[c] + 1
    \/ /\ pc[g][c] = "settling" /\ pc'[g][c] \in {"output", "error"} /\ mayWrite(g)
       /\ status[c] = "running" /\ status'[c] = encodeToolOutput(outcome[g][c])
       /\ ran'[c] = ran[c]
    \/ /\ pc[g][c] = "idle" /\ pc'[g][c] = "output" /\ mayWrite(g)
       /\ status[c] = "running" /\ status'[c] = "interrupted" /\ ran'[c] = ran[c]

\* Where a goroutine of the engine that made the message goes.
PathStep(g, c) ==
    /\ pc'[g][c] = "waiting" => pc[g][c] = "idle"
    /\ pc'[g][c] = "skipping" => pc[g][c] = "waiting" /\ aborted(g)
    /\ pc'[g][c] = "claiming" => pc[g][c] = "waiting" /\ turnCame(g, c)
                                 /\ (registered(g) => ~aborted(g))
    /\ pc'[g][c] = "settling" => pc[g][c] \in {"claimed", "body", "skipping"}
    /\ pc'[g][c] = "output" => pc[g][c] = "settling" \/ (pc[g][c] = "idle" /\ status[c] # "pending")
    /\ pc'[g][c] = "error" => pc[g][c] = "settling" \/ c \in fatal'[g]

\* One goroutine moves.
CallShape(g, c) ==
    /\ g \in alive /\ UNCHANGED <<fence, run, leaves, drive>>
    /\ \A h \in Gens, d \in Calls :
          h # g \/ d # c => pc'[h][d] = pc[h][d] /\ outcome'[h][d] = outcome[h][d]
    /\ \A d \in Calls \ {c} : status'[d] = status[d] /\ ran'[d] = ran[d]
    /\ \A h \in Gens \ {g} : fatal'[h] = fatal[h]
    /\ fatal'[g] = fatal[g] \/ (fatal'[g] = fatal[g] \cup {c} /\ pc'[g][c] = "error")
    /\ pc[g][c] \notin Returned \cup {"absent"} /\ pc'[g][c] \notin {"idle", "absent"}
    /\ pc'[g][c] = "pause" => c \in Gated
    /\ RowStep(g, c)
    /\ kind[g] = "live" => PathStep(g, c)

\* A generation begins, ends, or starts over with its calls.
GenShape(g) ==
    /\ \A h \in Gens \ {g} : /\ pc'[h] = pc[h] /\ outcome'[h] = outcome[h]
                             /\ fatal'[h] = fatal[h] /\ kind'[h] = kind[h]
                             /\ h \in alive' <=> h \in alive
    /\ \A c \in Calls : pc'[g][c] \in {"absent", "idle"}
    /\ g \notin alive' => pc'[g] = nowhere
    /\ kind'[g] = "live" => /\ kind[g] = "live"
                            /\ \A c \in Calls : pc'[g][c] = "idle" => status'[c] = "pending"
    /\ ran' = ran
    /\ \/ status' = status
       \/ run' = "running" /\ \A c \in Calls : status[c] = "none" /\ status'[c] = "pending"
    /\ \/ fence' = fence /\ g \in alive /\ (run' = "running" => run = "running")
          /\ (run' = "settled" => run = "settled" \/ unfinished = {})
       \/ fence' = g /\ g = fence + 1 /\ run' = "running"

-----------------------------------------------------------------------------
\* goto moves one goroutine of one engine and no other.
LEMMA GotoFacts ==
    ASSUME BatchTypeOK, NEW g \in Gens, NEW c \in Calls, NEW w, goto(g, c, w)
    PROVE  /\ pc'[g][c] = w
           /\ \A h \in Gens, d \in Calls : h # g \/ d # c => pc'[h][d] = pc[h][d]
           /\ w \in {"idle", "waiting", "skipping", "claiming", "claimed", "body", "settling"}
                    \cup Returned
              => pc' \in [Gens -> [Calls -> {"absent", "idle", "waiting", "skipping", "claiming",
                                  "claimed", "body", "settling"} \cup Returned]]
  BY Zenon DEF BatchTypeOK, goto

\* settleToolTurn releases the turn of one call, and marks it fatal on request.
LEMMA SettleTurnFacts ==
    ASSUME BatchTypeOK, NEW g \in Gens, NEW c \in Calls, NEW w, NEW b \in BOOLEAN,
           settleToolTurn(g, c, w, b)
    PROVE  /\ goto(g, c, w)
           /\ fatal' \in [Gens -> SUBSET Calls]
           /\ \A h \in Gens \ {g} : fatal'[h] = fatal[h]
           /\ fatal'[g] = IF b THEN fatal[g] \cup {c} ELSE fatal[g]
  BY Zenon DEF BatchTypeOK, settleToolTurn

\* A body that returns leaves its outcome for the settlement.
LEMMA ReturnsFacts ==
    ASSUME BatchTypeOK, NEW g \in Gens, NEW c \in Calls,
           NEW o \in {"ok", "error", "panic", "canceled", "deadline", "skipped"},
           returns(g, c, o)
    PROVE  /\ goto(g, c, "settling")
           /\ outcome' \in [Gens -> [Calls -> {"none", "ok", "error", "panic",
                                       "canceled", "deadline", "skipped"}]]
           /\ outcome'[g][c] = o
           /\ \A h \in Gens, d \in Calls : h # g \/ d # c => outcome'[h][d] = outcome[h][d]
  BY Zenon DEF BatchTypeOK, returns

\* A refused write uses up one of the faults.
LEMMA RefusedFacts ==
    ASSUME BatchBounds, BatchTypeOK, NEW g \in Gens, NEW b \in BOOLEAN, refused(g, b)
    PROVE  faults' \in 0..MaxFaults
  BY DEF BatchBounds, BatchTypeOK, refused

\* Every step of a goroutine has the shape of one.
LEMMA CallStep ==
    ASSUME BatchBounds, BatchTypeOK, NEW g \in Gens, NEW c \in Calls,
           InvokableRun(g, c) \/ ExecuteAndSettle(g, c) \/ Sequential(g, c)
    PROVE  BatchTypeOK' /\ CallShape(g, c)
<1>. USE DEF rows, drive, Returned
<1>0. /\ status \in [Calls -> {"none", "pending", "running"} \cup TerminalToolCall]
      /\ ran \in [Calls -> Nat] /\ outcome \in [Gens -> [Calls -> {"none", "ok", "error", "panic",
                                       "canceled", "deadline", "skipped"}]]
      /\ fatal \in [Gens -> SUBSET Calls]
  BY Zenon DEF BatchTypeOK
<1>1. CASE InvokeFails(g, c)
  <2>1. /\ settleToolTurn(g, c, "error", TRUE) /\ UNCHANGED <<rows, drive, outcome, ran>>
        /\ g \in alive /\ pc[g][c] = "idle"
    BY Zenon, <1>1 DEF InvokeFails, invoked
  <2>3. faults' \in 0..MaxFaults
    BY <1>1 DEF InvokeFails, BatchTypeOK, BatchBounds
  <2>2. goto(g, c, "error") /\ fatal' \in [Gens -> SUBSET Calls]
        /\ (\A h \in Gens \ {g} : fatal'[h] = fatal[h]) /\ fatal'[g] = fatal[g] \cup {c}
    BY Zenon, <2>1, SettleTurnFacts
  <2>. QED  BY <2>1, <2>2, <2>3, GotoFacts DEF BatchTypeOK, CallShape, RowStep, PathStep
<1>2. CASE InvokeFinished(g, c)
  <2>1. settleToolTurn(g, c, "output", FALSE) /\ UNCHANGED <<rows, drive, outcome, ran, faults>>
        /\ g \in alive /\ pc[g][c] = "idle" /\ status[c] # "pending"
    BY Zenon, <1>2 DEF InvokeFinished, invoked, TerminalToolCall
  <2>2. goto(g, c, "output") /\ fatal' \in [Gens -> SUBSET Calls]
        /\ (\A h \in Gens \ {g} : fatal'[h] = fatal[h]) /\ fatal'[g] = fatal[g]
    BY Zenon, <2>1, SettleTurnFacts
  <2>. QED  BY <2>1, <2>2, GotoFacts DEF BatchTypeOK, CallShape, RowStep, PathStep
<1>3. CASE settleInterruptedRunningTool(g, c)
  <2>1. /\ g \in alive /\ pc[g][c] = "idle" /\ status[c] = "running"
        /\ UNCHANGED <<fence, run, leaves, drive, outcome, ran>>
    BY Zenon, <1>3 DEF settleInterruptedRunningTool, invoked
  <2>2. CASE /\ mayWrite(g)
             /\ status' = [status EXCEPT ![c] = "interrupted"]
             /\ settleToolTurn(g, c, "output", FALSE)
             /\ UNCHANGED faults
    <3>1. goto(g, c, "output") /\ fatal' \in [Gens -> SUBSET Calls]
          /\ (\A h \in Gens \ {g} : fatal'[h] = fatal[h]) /\ fatal'[g] = fatal[g]
      BY Zenon, <2>2, SettleTurnFacts
    <3>2. /\ status' \in [Calls -> {"none", "pending", "running"} \cup TerminalToolCall]
          /\ status'[c] = "interrupted" /\ \A d \in Calls \ {c} : status'[d] = status[d]
      BY Zenon, <1>0, <2>2 DEF TerminalToolCall
    <3>. QED  BY <2>1, <2>2, <3>1, <3>2, GotoFacts DEF BatchTypeOK, CallShape, RowStep, PathStep
  <2>3. CASE /\ refused(g, FALSE)
             /\ settleToolTurn(g, c, "error", TRUE)
             /\ UNCHANGED status
    <3>1. goto(g, c, "error") /\ fatal' \in [Gens -> SUBSET Calls]
          /\ (\A h \in Gens \ {g} : fatal'[h] = fatal[h]) /\ fatal'[g] = fatal[g] \cup {c}
      BY Zenon, <2>3, SettleTurnFacts
    <3>2. faults' \in 0..MaxFaults
      BY Zenon, <2>3, RefusedFacts
    <3>. QED  BY <2>1, <2>3, <3>1, <3>2, GotoFacts DEF BatchTypeOK, CallShape, RowStep, PathStep
  <2>. QED  BY Zenon, <1>3, <2>2, <2>3 DEF settleInterruptedRunningTool
<1>4. CASE InvokePending(g, c)
  <2>1. /\ g \in alive /\ pc[g][c] = "idle"
        /\ UNCHANGED <<rows, drive, outcome, ran, faults>>
    BY Zenon, <1>4 DEF InvokePending, invoked
  <2>2. CASE mustPause(g, c)
    <3>1. settleToolTurn(g, c, "pause", FALSE) /\ c \in Gated
      BY Zenon, <1>4, <2>2 DEF InvokePending, mustPause
    <3>2. goto(g, c, "pause") /\ fatal' \in [Gens -> SUBSET Calls]
          /\ (\A h \in Gens \ {g} : fatal'[h] = fatal[h]) /\ fatal'[g] = fatal[g]
      BY Zenon, <3>1, SettleTurnFacts
    <3>. QED  BY <2>1, <3>1, <3>2, GotoFacts DEF BatchTypeOK, CallShape, RowStep, PathStep
  <2>3. CASE ~mustPause(g, c)
    <3>1. goto(g, c, "waiting") /\ UNCHANGED fatal
      BY Zenon, <1>4, <2>3 DEF InvokePending
    <3>. QED  BY <2>1, <3>1, GotoFacts DEF BatchTypeOK, CallShape, RowStep, PathStep
  <2>. QED  BY Zenon, <2>2, <2>3
<1>5. CASE awaitToolTurn(g, c)
  <2>1. /\ g \in alive /\ pc[g][c] = "waiting"
        /\ UNCHANGED <<rows, drive, outcome, ran, faults>>
    BY Zenon, <1>5 DEF awaitToolTurn
  <2>2. CASE turnCame(g, c) /\ registered(g) /\ aborted(g) /\ goto(g, c, "skipping") /\ UNCHANGED fatal
    BY <2>1, <2>2, GotoFacts DEF BatchTypeOK, CallShape, RowStep, PathStep
  <2>3. CASE turnCame(g, c) /\ ~(registered(g) /\ aborted(g)) /\ goto(g, c, "claiming") /\ UNCHANGED fatal
    BY <2>1, <2>3, GotoFacts DEF BatchTypeOK, CallShape, RowStep, PathStep
  <2>4. CASE settleToolTurn(g, c, "error", TRUE)
    <3>1. goto(g, c, "error") /\ fatal' \in [Gens -> SUBSET Calls]
          /\ (\A h \in Gens \ {g} : fatal'[h] = fatal[h]) /\ fatal'[g] = fatal[g] \cup {c}
      BY Zenon, <2>4, SettleTurnFacts
    <3>. QED  BY <2>1, <3>1, GotoFacts DEF BatchTypeOK, CallShape, RowStep, PathStep
  <2>. QED  BY Zenon, <1>5, <2>2, <2>3, <2>4 DEF awaitToolTurn
<1>6. CASE persistToolClaim(g, c)
  <2>1. /\ g \in alive /\ pc[g][c] \in {"claiming", "skipping"}
        /\ UNCHANGED <<fence, run, leaves, drive, ran>>
    BY Zenon, <1>6 DEF persistToolClaim
  <2>2. ASSUME claimable(g, c), status' = [status EXCEPT ![c] = "running"]
        PROVE  /\ mayWrite(g) /\ status[c] = "pending" /\ status'[c] = "running"
               /\ status' \in [Calls -> {"none", "pending", "running"} \cup TerminalToolCall]
               /\ \A d \in Calls \ {c} : status'[d] = status[d]
    BY Zenon, <1>0, <2>2 DEF claimable
  <2>3. CASE /\ claimable(g, c) /\ status' = [status EXCEPT ![c] = "running"]
             /\ pc[g][c] = "skipping" /\ returns(g, c, "skipped") /\ UNCHANGED <<fatal, faults>>
    <3>1. /\ goto(g, c, "settling")
          /\ outcome' \in [Gens -> [Calls -> {"none", "ok", "error", "panic",
                                       "canceled", "deadline", "skipped"}]]
          /\ outcome'[g][c] = "skipped"
          /\ \A h \in Gens, d \in Calls : h # g \/ d # c => outcome'[h][d] = outcome[h][d]
      BY Zenon, <2>3, ReturnsFacts
    <3>. QED  BY <2>1, <2>2, <2>3, <3>1, GotoFacts DEF BatchTypeOK, CallShape, RowStep, PathStep
  <2>4. CASE /\ claimable(g, c) /\ status' = [status EXCEPT ![c] = "running"]
             /\ pc[g][c] = "claiming" /\ goto(g, c, "claimed") /\ UNCHANGED <<outcome, fatal, faults>>
    BY <2>1, <2>2, <2>4, GotoFacts DEF BatchTypeOK, CallShape, RowStep, PathStep
  <2>5. CASE /\ refused(g, TRUE) \/ (status[c] # "pending" /\ UNCHANGED faults)
             /\ failed(g, c, TRUE) /\ UNCHANGED <<status, outcome>>
    <3>1. faults' \in 0..MaxFaults
      BY Zenon, <2>5, RefusedFacts DEF BatchTypeOK
    <3>2. goto(g, c, "error") /\ fatal' \in [Gens -> SUBSET Calls]
          /\ (\A h \in Gens \ {g} : fatal'[h] = fatal[h])
          /\ fatal'[g] = IF kind[g] \in Engines THEN fatal[g] \cup {c} ELSE fatal[g]
      BY Zenon, <2>5, SettleTurnFacts DEF failed
    <3>. QED
      BY <2>1, <2>5, <3>1, <3>2, GotoFacts DEF BatchTypeOK, CallShape, RowStep, PathStep, Engines
  <2>. QED  BY Zenon, <1>6, <2>1, <2>3, <2>4, <2>5 DEF persistToolClaim, returns
<1>7. CASE PipelineStops(g, c)
  <2>1. /\ g \in alive /\ pc[g][c] = "claimed"
        /\ UNCHANGED <<rows, drive, fatal, ran, faults>>
    BY Zenon, <1>7 DEF PipelineStops
  <2>2. PICK o \in {"ok", "error", "panic"} : returns(g, c, o) /\ (o = "ok" => c \in Searches)
    BY Zenon, <1>7 DEF PipelineStops
  <2>3. /\ goto(g, c, "settling")
        /\ outcome' \in [Gens -> [Calls -> {"none", "ok", "error", "panic",
                                       "canceled", "deadline", "skipped"}]]
        /\ outcome'[g][c] = o
        /\ \A h \in Gens, d \in Calls : h # g \/ d # c => outcome'[h][d] = outcome[h][d]
    BY <2>2, ReturnsFacts
  <2>. QED  BY <2>1, <2>2, <2>3, GotoFacts DEF BatchTypeOK, CallShape, RowStep, PathStep
<1>8. CASE ExecuteTool(g, c)
  <2>1. /\ g \in alive /\ pc[g][c] = "claimed" /\ c \notin Searches /\ goto(g, c, "body")
        /\ UNCHANGED <<rows, drive, outcome, fatal, faults>>
        /\ ran' = [ran EXCEPT ![c] = @ + 1]
    BY Zenon, <1>8 DEF ExecuteTool
  <2>2. /\ ran' \in [Calls -> Nat] /\ ran'[c] = ran[c] + 1
        /\ \A d \in Calls \ {c} : ran'[d] = ran[d]
    BY <1>0, <2>1
  <2>. QED  BY <2>1, <2>2, GotoFacts DEF BatchTypeOK, CallShape, RowStep, PathStep
<1>9. CASE ExecutorReturns(g, c)
  <2>1. /\ g \in alive /\ pc[g][c] = "body"
        /\ UNCHANGED <<rows, drive, fatal, ran, faults>>
    BY Zenon, <1>9 DEF ExecutorReturns
  <2>2. PICK o \in {"ok", "error", "panic", "deadline", "canceled"} : returns(g, c, o)
    BY Zenon, <1>9 DEF ExecutorReturns
  <2>3. /\ goto(g, c, "settling")
        /\ outcome' \in [Gens -> [Calls -> {"none", "ok", "error", "panic",
                                       "canceled", "deadline", "skipped"}]]
        /\ \A h \in Gens, d \in Calls : h # g \/ d # c => outcome'[h][d] = outcome[h][d]
    BY <2>2, ReturnsFacts
  <2>. QED  BY <2>1, <2>3, GotoFacts DEF BatchTypeOK, CallShape, RowStep, PathStep
<1>10. CASE persistToolSettlement(g, c)
  <2>1. /\ g \in alive /\ pc[g][c] = "settling"
        /\ UNCHANGED <<fence, run, leaves, drive, outcome, ran>>
    BY Zenon, <1>10 DEF persistToolSettlement
  <2>2. ASSUME NEW b \in BOOLEAN, failed(g, c, b)
        PROVE  /\ goto(g, c, "error") /\ fatal' \in [Gens -> SUBSET Calls]
               /\ \A h \in Gens \ {g} : fatal'[h] = fatal[h]
               /\ fatal'[g] = fatal[g] \/ fatal'[g] = fatal[g] \cup {c}
    BY Zenon, <2>2, SettleTurnFacts, (b /\ kind[g] \in Engines) \in BOOLEAN DEF failed
  <2>3. CASE /\ mayWrite(g) /\ status[c] = "running"
             /\ status' = [status EXCEPT ![c] = encodeToolOutput(outcome[g][c])]
             /\ failed(g, c, TRUE) \/ settleToolTurn(g, c, "output", FALSE)
             /\ UNCHANGED faults
    <3>1. /\ status' \in [Calls -> {"none", "pending", "running"} \cup TerminalToolCall]
          /\ status'[c] = encodeToolOutput(outcome[g][c])
          /\ \A d \in Calls \ {c} : status'[d] = status[d]
      BY Zenon, <1>0, <2>3 DEF encodeToolOutput, TerminalToolCall
    <3>2. CASE failed(g, c, TRUE)
      <4>1. /\ goto(g, c, "error") /\ fatal' \in [Gens -> SUBSET Calls]
            /\ \A h \in Gens \ {g} : fatal'[h] = fatal[h]
            /\ fatal'[g] = fatal[g] \/ fatal'[g] = fatal[g] \cup {c}
        BY Zenon, <2>2, <3>2
      <4>. QED
        BY <2>1, <2>3, <3>1, <4>1, GotoFacts DEF BatchTypeOK, CallShape, RowStep, PathStep
    <3>3. CASE settleToolTurn(g, c, "output", FALSE)
      <4>1. goto(g, c, "output") /\ fatal' \in [Gens -> SUBSET Calls]
            /\ (\A h \in Gens \ {g} : fatal'[h] = fatal[h]) /\ fatal'[g] = fatal[g]
        BY Zenon, <3>3, SettleTurnFacts
      <4>. QED
        BY <2>1, <2>3, <3>1, <4>1, GotoFacts DEF BatchTypeOK, CallShape, RowStep, PathStep
    <3>. QED  BY Zenon, <2>3, <3>2, <3>3
  <2>4. CASE /\ refused(g, FALSE) /\ UNCHANGED status
             /\ failed(g, c, c \in Searches \/ outcome[g][c] = "skipped")
    <3>1. faults' \in 0..MaxFaults
      BY Zenon, <2>4, RefusedFacts
    <3>2. /\ goto(g, c, "error") /\ fatal' \in [Gens -> SUBSET Calls]
          /\ \A h \in Gens \ {g} : fatal'[h] = fatal[h]
          /\ fatal'[g] = fatal[g] \/ fatal'[g] = fatal[g] \cup {c}
      BY Zenon, <2>2, <2>4
    <3>. QED
      BY <2>1, <2>4, <3>1, <3>2, GotoFacts DEF BatchTypeOK, CallShape, RowStep, PathStep
  <2>. QED  BY Zenon, <1>10, <2>3, <2>4 DEF persistToolSettlement
<1>11. CASE terminalizeUnfinishedTool(g, c)
  <2>1. /\ g \in alive /\ kind[g] # "live" /\ pc[g][c] = "idle"
        /\ UNCHANGED <<rows, drive, fatal, ran, faults>>
    BY Zenon, <1>11 DEF terminalizeUnfinishedTool, Cleaners
  <2>2. CASE (goto(g, c, "output") \/ goto(g, c, "skipping")) /\ UNCHANGED outcome
    BY <2>1, <2>2, GotoFacts DEF BatchTypeOK, CallShape, RowStep
  <2>3. CASE returns(g, c, "skipped")
    <3>1. /\ goto(g, c, "settling")
          /\ outcome' \in [Gens -> [Calls -> {"none", "ok", "error", "panic",
                                       "canceled", "deadline", "skipped"}]]
          /\ outcome'[g][c] = "skipped"
          /\ \A h \in Gens, d \in Calls : h # g \/ d # c => outcome'[h][d] = outcome[h][d]
      BY Zenon, <2>3, ReturnsFacts
    <3>. QED  BY <2>1, <3>1, GotoFacts DEF BatchTypeOK, CallShape, RowStep
  <2>. QED  BY Zenon, <1>11, <2>2, <2>3 DEF terminalizeUnfinishedTool
<1>12. CASE LegacyFails(g, c)
  <2>1. /\ g \in alive /\ kind[g] # "live" /\ pc[g][c] = "idle" /\ goto(g, c, "error")
        /\ UNCHANGED <<rows, drive, outcome, fatal, ran>>
    BY Zenon, <1>12 DEF LegacyFails, legacyTurn
  <2>2. faults' \in 0..MaxFaults
    BY <1>12 DEF LegacyFails, BatchTypeOK, BatchBounds
  <2>. QED  BY <2>1, <2>2, GotoFacts DEF BatchTypeOK, CallShape, RowStep
<1>13. CASE LegacyCall(g, c)
  <2>1. /\ g \in alive /\ kind[g] # "live" /\ pc[g][c] = "idle"
        /\ UNCHANGED <<rows, drive, fatal, ran, faults>>
    BY Zenon, <1>13 DEF LegacyCall, legacyTurn
  <2>2. CASE goto(g, c, "claiming") /\ UNCHANGED outcome
    BY <2>1, <2>2, GotoFacts DEF BatchTypeOK, CallShape, RowStep
  <2>3. CASE returns(g, c, "skipped")
    <3>1. /\ goto(g, c, "settling")
          /\ outcome' \in [Gens -> [Calls -> {"none", "ok", "error", "panic",
                                       "canceled", "deadline", "skipped"}]]
          /\ outcome'[g][c] = "skipped"
          /\ \A h \in Gens, d \in Calls : h # g \/ d # c => outcome'[h][d] = outcome[h][d]
      BY Zenon, <2>3, ReturnsFacts
    <3>. QED  BY <2>1, <3>1, GotoFacts DEF BatchTypeOK, CallShape, RowStep
  <2>. QED  BY Zenon, <1>13, <2>2, <2>3 DEF LegacyCall
<1>. QED
  BY Zenon, <1>1, <1>2, <1>3, <1>4, <1>5, <1>6, <1>7, <1>8, <1>9, <1>10, <1>11, <1>12, <1>13
     DEF InvokableRun, ExecuteAndSettle, Sequential

\* An engine that is gone takes its goroutines along and nobody else's.
LEMMA GoneFacts ==
    ASSUME BatchTypeOK, NEW g \in Gens, gone(g)
    PROVE  /\ alive' = alive \ {g} /\ kind' = kind /\ pc'[g] = nowhere
           /\ \A h \in Gens \ {g} : pc'[h] = pc[h] /\ outcome'[h] = outcome[h] /\ fatal'[h] = fatal[h]
           /\ canceled' \subseteq Gens /\ targets' \in [Gens -> SUBSET Gated]
           /\ pc' \in [Gens -> [Calls -> {"absent", "idle", "waiting", "skipping", "claiming",
                                  "claimed", "body", "settling"} \cup Returned]]
           /\ outcome' \in [Gens -> [Calls -> {"none", "ok", "error", "panic",
                                       "canceled", "deadline", "skipped"}]]
           /\ fatal' \in [Gens -> SUBSET Calls]
  BY Zenon DEF BatchTypeOK, gone, nowhere, noOutcome

\* A run is settled once no call is unfinished, and never starts again.
LEMMA SettleRunFacts ==
    ASSUME BatchTypeOK, NEW g \in Gens, settleRun(g)
    PROVE  /\ run' \in {"running", "paused", "settled"}
           /\ run' = "running" => run = "running"
           /\ run' = "settled" => run = "settled" \/ unfinished = {}
  BY Zenon DEF BatchTypeOK, settleRun

\* A new claim of the run starts a generation with goroutines of its own.
LEMMA BeginFacts ==
    ASSUME BatchTypeOK, NEW g \in Gens, g = fence + 1, NEW k \in {"legacy", "reconcile", "resume", "abandon"},
           NEW ts \in SUBSET Gated, NEW where \in [Calls -> {"absent", "idle"}],
           begin(g, k, ts, where)
    PROVE  BatchTypeOK' /\ GenShape(g)
<1>1. /\ kind' \in [Gens -> Engines \cup Cleaners \cup {"none", "legacy"}] /\ kind'[g] = k
      /\ \A h \in Gens \ {g} : kind'[h] = kind[h]
  BY Zenon DEF begin, BatchTypeOK, Engines, Cleaners
<1>2. /\ pc'[g] = where /\ \A h \in Gens \ {g} : pc'[h] = pc[h]
      /\ pc' \in [Gens -> [Calls -> {"absent", "idle", "waiting", "skipping", "claiming",
                                  "claimed", "body", "settling"} \cup Returned]]
  BY ZenonT(60) DEF begin, BatchTypeOK
<1>3. targets' \in [Gens -> SUBSET Gated]
  BY Zenon DEF begin, BatchTypeOK
<1>. QED  BY Zenon, <1>1, <1>2, <1>3 DEF begin, BatchTypeOK, GenShape

\* Every step that begins or ends a generation has the shape of one.
LEMMA GenStep ==
    ASSUME BatchBounds, BatchTypeOK, PausedIsGated, NEW g \in Gens,
           \/ g = 1 /\ persistAssistantTurn
           \/ Returns(g) \/ Reclaim(g) \/ ResumeRun(g) \/ Abandon(g) \/ Crash(g)
    PROVE  BatchTypeOK' /\ GenShape(g)
<1>. USE DEF rows, drive
<1>0. /\ status \in [Calls -> {"none", "pending", "running"} \cup TerminalToolCall]
      /\ leaves \subseteq Calls
  BY Zenon DEF BatchTypeOK, BatchBounds, Calls
<1>1. CASE g = 1 /\ persistAssistantTurn
  <2>1. /\ status' = [c \in Calls |-> "pending"] /\ g \in alive /\ run = "running"
        /\ \A c \in Calls : status[c] = "none"
        /\ UNCHANGED <<fence, run, leaves, drive, outcome, fatal, ran, faults>>
    BY Zenon, <1>1 DEF persistAssistantTurn, mayWrite
  <2>2. /\ pc'[g] = [c \in Calls |-> "idle"] /\ \A h \in Gens \ {g} : pc'[h] = pc[h]
        /\ pc' \in [Gens -> [Calls -> {"absent", "idle", "waiting", "skipping", "claiming",
                                  "claimed", "body", "settling"} \cup Returned]]
    BY Zenon, <1>1 DEF persistAssistantTurn, BatchTypeOK
  <2>. QED  BY Zenon, <2>1, <2>2 DEF BatchTypeOK, GenShape
<1>2. CASE AssistantTurnFails(g)
  <2>1. faults' \in 0..MaxFaults
    BY Zenon, <1>2, RefusedFacts DEF AssistantTurnFails
  <2>. QED
    BY ZenonT(60), <1>2, <2>1, GoneFacts, SettleRunFacts DEF AssistantTurnFails, BatchTypeOK, GenShape, nowhere
<1>3. CASE NodeReturns(g)
  <2>1. /\ g \in alive /\ gone(g) /\ UNCHANGED <<status, fence, ran, faults>>
    BY Zenon, <1>3 DEF NodeReturns
  <2>2. /\ run' \in {"running", "paused", "settled"} /\ leaves' \subseteq Gated
        /\ run' = "running" => run = "running"
        /\ run' = "settled" => run = "settled" \/ unfinished = {}
    BY Zenon, <1>3, SettleRunFacts DEF NodeReturns, BatchTypeOK, PausedIsGated
  <2>. QED  BY ZenonT(60), <2>1, <2>2, GoneFacts DEF BatchTypeOK, GenShape, nowhere
<1>4. CASE CleanerReturns(g)
  <2>1. /\ g \in alive /\ gone(g) /\ UNCHANGED <<status, fence, leaves, ran, faults>>
    BY Zenon, <1>4 DEF CleanerReturns
  <2>2. /\ run' \in {"running", "paused", "settled"}
        /\ run' = "running" => run = "running"
        /\ run' = "settled" => run = "settled" \/ unfinished = {}
    BY Zenon, <1>4, SettleRunFacts DEF CleanerReturns, BatchTypeOK
  <2>. QED  BY ZenonT(60), <2>1, <2>2, GoneFacts DEF BatchTypeOK, GenShape, nowhere
<1>5. CASE LegacyReturns(g)
  <2>1. /\ g \in alive /\ kind[g] = "legacy" /\ UNCHANGED <<status, fence, leaves, ran, faults>>
    BY Zenon, <1>5 DEF LegacyReturns
  <2>2. CASE someReturned(g, "error")
    <3>1. /\ kind' \in [Gens -> Engines \cup Cleaners \cup {"none", "legacy"}]
          /\ kind'[g] = "cleanup" /\ \A h \in Gens \ {g} : kind'[h] = kind[h]
      BY Zenon, <1>5, <2>2 DEF LegacyReturns, BatchTypeOK, Cleaners
    <3>2. /\ pc'[g] \in [Calls -> {"absent", "idle"}]
          /\ \A h \in Gens \ {g} : pc'[h] = pc[h]
          /\ pc' \in [Gens -> [Calls -> {"absent", "idle", "waiting", "skipping", "claiming",
                                  "claimed", "body", "settling"} \cup Returned]]
      <4>1. pc' = [pc EXCEPT ![g] = [c \in Calls |-> IF pc[g][c] = "absent" THEN "absent" ELSE "idle"]]
        BY Zenon, <1>5, <2>2 DEF LegacyReturns
      <4>. QED  BY Zenon, <4>1 DEF BatchTypeOK
    <3>3. UNCHANGED <<run, alive, canceled, targets, outcome, fatal>>
      BY Zenon, <1>5, <2>2 DEF LegacyReturns
    <3>. QED  BY Zenon, <2>1, <3>1, <3>2, <3>3 DEF BatchTypeOK, GenShape
  <2>3. CASE ~someReturned(g, "error")
    <3>1. settleRun(g) /\ gone(g)
      BY Zenon, <1>5, <2>3 DEF LegacyReturns
    <3>. QED  BY <2>1, <3>1, GoneFacts, SettleRunFacts DEF BatchTypeOK, GenShape, nowhere
  <2>. QED  BY Zenon, <2>2, <2>3
<1>6. CASE Reclaim(g)
  <2>1. listed \in [Calls -> {"absent", "idle"}]
    BY Zenon DEF listed
  <2>2. PICK k \in {"legacy", "reconcile"} : g = fence + 1 /\ begin(g, k, {}, listed)
    BY Zenon, <1>6 DEF Reclaim
  <2>. QED  BY Zenon, <2>1, <2>2, BeginFacts
<1>7. CASE ResumeRun(g)
  <2>1. PICK ts \in SUBSET leaves :
          begin(g, "resume", ts, [c \in Calls |-> IF c \in leaves THEN "idle" ELSE "absent"])
    BY Zenon, <1>7 DEF ResumeRun
  <2>2. ts \in SUBSET Gated
    BY Zenon DEF BatchTypeOK
  <2>3. [c \in Calls |-> IF c \in leaves THEN "idle" ELSE "absent"] \in [Calls -> {"absent", "idle"}]
    BY Zenon
  <2>4. g = fence + 1
    BY Zenon, <1>7 DEF ResumeRun
  <2>. QED  BY Zenon, <2>1, <2>2, <2>3, <2>4, BeginFacts
<1>8. CASE Abandon(g)
  <2>1. listed \in [Calls -> {"absent", "idle"}]
    BY Zenon DEF listed
  <2>. QED  BY Zenon, <1>8, <2>1, BeginFacts DEF Abandon
<1>9. CASE Crash(g)
  BY ZenonT(60), <1>9, GoneFacts DEF Crash, BatchTypeOK, GenShape, nowhere
<1>. QED  BY Zenon, <1>1, <1>2, <1>3, <1>4, <1>5, <1>6, <1>7, <1>8, <1>9 DEF Returns

-----------------------------------------------------------------------------
(* The invariant.                                                          *)

\* The invariant holds at the start.
LEMMA InitHolds ==
    ASSUME BatchBounds, Init
    PROVE  BatchInv
<1>1. 1 \in Gens /\ MaxFaults \in Nat
  BY DEF BatchBounds, Gens
<1>2. /\ status \in [Calls -> {"none", "pending", "running"} \cup TerminalToolCall]
      /\ ran \in [Calls -> Nat] /\ alive \subseteq {1}
      /\ kind \in [Gens -> {"none", "live"}]
      /\ \A g \in Gens : kind[g] = "live" => g = 1
      /\ \A c \in Calls : status[c] \in {"none", "pending"} => ran[c] = 0
      /\ \A c \in Calls : ran[c] <= 1
      /\ \A c \in Calls : status[c] = "completed" => ran[c] = 1
  BY DEF Init, LegacyInit, TurnInit, TerminalToolCall
<1>3. BatchTypeOK
  BY <1>1, <1>2 DEF Init, BatchTypeOK, nowhere, noOutcome, Engines
<1>4. \A g \in Gens : pc[g] = nowhere /\ \A c \in Calls : pc[g][c] = "absent"
  BY Zenon DEF Init, nowhere
<1>. QED
  BY <1>1, <1>2, <1>3, <1>4
     DEF Init, BatchInv, UnclaimedNeverRan, ClaimedAlone, RanIsCounted, PausedIsGated, GenerationsApart,
         UnclaimedIsPending, OrderKept, ExecutedAtMostOnce, SettledCallsAreTrue

\* The claim of a row lets one goroutine run its call, once.
LEMMA OnceKept ==
    ASSUME BatchBounds, BatchInv, BatchTypeOK',
           \/ \E g \in Gens, c \in Calls : CallShape(g, c)
           \/ \E g \in Gens : GenShape(g)
    PROVE  /\ UnclaimedNeverRan' /\ ClaimedAlone' /\ RanIsCounted' /\ PausedIsGated'
           /\ ExecutedAtMostOnce' /\ SettledCallsAreTrue'
<1>. USE DEF BatchInv
<1>0. \A c \in Calls : ran[c] \in Nat /\ ran'[c] \in Nat
  BY Zenon DEF BatchTypeOK
<1>1. ASSUME NEW g \in Gens, NEW c \in Calls, CallShape(g, c)
      PROVE  /\ UnclaimedNeverRan' /\ ClaimedAlone' /\ RanIsCounted' /\ PausedIsGated'
             /\ ExecutedAtMostOnce' /\ SettledCallsAreTrue'
  <2>1. UnclaimedNeverRan'
    BY SMTT(60), <1>1 DEF CallShape, RowStep, UnclaimedNeverRan, ClaimedAlone, encodeToolOutput
  <2>2. ClaimedAlone'
    BY SMTT(60), <1>1 DEF CallShape, RowStep, UnclaimedNeverRan, ClaimedAlone
  <2>3. RanIsCounted'
    BY SMTT(60), <1>0, <1>1 DEF CallShape, RowStep, ClaimedAlone, RanIsCounted
  <2>4. PausedIsGated'
    BY ZenonT(60), <1>1 DEF CallShape, PausedIsGated
  <2>5. ExecutedAtMostOnce'
    BY SMTT(60), <1>0, <1>1 DEF CallShape, RowStep, ClaimedAlone, ExecutedAtMostOnce
  <2>6. \A d \in Calls \ Searches : status'[d] = "completed" => ran'[d] = 1
    BY SMTT(60), <1>0, <1>1 DEF CallShape, RowStep, ClaimedAlone, UnclaimedNeverRan, RanIsCounted, SettledCallsAreTrue,
                      encodeToolOutput
  <2>7. run' = "settled" => unfinished' = {}
    BY Zenon, <1>1 DEF CallShape, RowStep, mayWrite, SettledCallsAreTrue, unfinished
  <2>. QED  BY Zenon, <2>1, <2>2, <2>3, <2>4, <2>5, <2>6, <2>7 DEF SettledCallsAreTrue
<1>2. ASSUME NEW g \in Gens, GenShape(g)
      PROVE  /\ UnclaimedNeverRan' /\ ClaimedAlone' /\ RanIsCounted' /\ PausedIsGated'
             /\ ExecutedAtMostOnce' /\ SettledCallsAreTrue'
  <2>0. ClaimedAlone'
    BY SMTT(60), <1>2 DEF GenShape, ClaimedAlone
  <2>1. UnclaimedNeverRan'
    BY SMTT(60), <1>2 DEF GenShape, UnclaimedNeverRan
  <2>2. RanIsCounted' /\ PausedIsGated'
    BY SMTT(60), <1>2 DEF GenShape, RanIsCounted, PausedIsGated
  <2>3. ExecutedAtMostOnce'
    BY Zenon, <1>2 DEF GenShape, ExecutedAtMostOnce
  <2>4. SettledCallsAreTrue'
    BY SMTT(60), <1>2 DEF GenShape, SettledCallsAreTrue, unfinished
  <2>. QED  BY Zenon, <2>0, <2>1, <2>2, <2>3, <2>4
<1>. QED  BY Zenon, <1>1, <1>2

\* Memory dies with its generation, and what the first engine has not claimed stays pending.
LEMMA GenerationsKept ==
    ASSUME BatchBounds, BatchInv, BatchTypeOK',
           \/ \E g \in Gens, c \in Calls : CallShape(g, c)
           \/ \E g \in Gens : GenShape(g)
    PROVE  GenerationsApart' /\ UnclaimedIsPending'
<1>. USE DEF BatchInv
<1>0. 1 \in Gens /\ fence \in Nat /\ fence # 0 /\ \A g \in Gens : g \in Nat
  BY DEF BatchBounds, BatchTypeOK, Gens
<1>1. ASSUME NEW g \in Gens, NEW c \in Calls, CallShape(g, c)
      PROVE  GenerationsApart' /\ UnclaimedIsPending'
  <2>1. \A h \in Gens \ alive : pc'[h] = pc[h]
    <3>1. ASSUME NEW h \in Gens \ alive PROVE pc'[h] = pc[h]
      <4>1. h # g
        BY Zenon, <1>1, <3>1 DEF CallShape
      <4>2. \A d \in Calls : pc'[h][d] = pc[h][d]
        BY Zenon, <1>1, <4>1 DEF CallShape
      <4>. QED  BY <4>2 DEF BatchTypeOK
    <3>. QED  BY Zenon, <3>1
  <2>2. GenerationsApart'
    BY Zenon, <1>1, <2>1 DEF CallShape, drive, GenerationsApart, nowhere
  <2>3. CASE g = 1
    BY ZenonT(60), <1>0, <1>1, <2>2, <2>3 DEF CallShape, drive, PathStep, RowStep, mayWrite, UnclaimedIsPending
  <2>4. CASE g # 1
    BY ZenonT(60), <1>0, <1>1, <2>2, <2>4 DEF CallShape, drive, RowStep, mayWrite, UnclaimedIsPending
  <2>. QED  BY Zenon, <2>2, <2>3, <2>4
<1>2. ASSUME NEW g \in Gens, GenShape(g)
      PROVE  GenerationsApart' /\ UnclaimedIsPending'
  <2>1. \A h \in Gens : kind'[h] = "live" => kind[h] = "live" /\ h = 1
    BY SMTT(60), <1>2 DEF GenShape, GenerationsApart
  <2>2. \A h \in alive' : h <= fence'
    <3>1. \A h \in Gens \ {g} : h \in alive' => h <= fence
      BY Zenon, <1>2 DEF GenShape, GenerationsApart
    <3>2. CASE fence' = fence /\ g \in alive
      BY Zenon, <3>1, <3>2 DEF GenerationsApart, BatchTypeOK
    <3>3. CASE fence' = g /\ g = fence + 1
      BY SMTT(60), <1>0, <3>1, <3>3 DEF BatchTypeOK
    <3>. QED  BY Zenon, <1>2, <3>2, <3>3 DEF GenShape
  <2>3. \A h \in Gens \ alive' : pc'[h] = nowhere
    BY SMTT(60), <1>2 DEF GenShape, GenerationsApart
  <2>4. UnclaimedIsPending'
    <3>1. SUFFICES ASSUME kind'[1] = "live", fence' = 1, run' = "running",
                          NEW c \in Calls, pc'[1][c] \in {"idle", "waiting", "claiming", "skipping"}
                   PROVE  status'[c] = "pending"
      BY Zenon DEF UnclaimedIsPending, mayWrite
    <3>2. fence = 1 /\ run = "running" /\ kind[1] = "live"
      BY SMTT(60), <1>0, <1>2, <2>1, <3>1 DEF GenShape
    <3>3. CASE g = 1
      BY Zenon, <1>2, <3>1, <3>3 DEF GenShape
    <3>4. CASE g # 1
      <4>1. pc'[1] = pc[1]
        BY ZenonT(60), <1>0, <1>2, <3>4 DEF GenShape
      <4>2. status[c] = "pending"
        BY Zenon, <3>1, <3>2, <4>1 DEF UnclaimedIsPending, mayWrite
      <4>. QED  BY Zenon, <1>2, <4>2 DEF GenShape
    <3>. QED  BY Zenon, <3>3, <3>4
  <2>5. GenerationsApart'
    BY Zenon, <2>1, <2>2, <2>3 DEF GenerationsApart, nowhere
  <2>. QED  BY Zenon, <2>4, <2>5
<1>. QED  BY Zenon, <1>1, <1>2

\* What is in order stays so: a call that returned does not move, and only a
\* call that returns becomes fatal.
LEMMA InOrderStays ==
    ASSUME BatchBounds, BatchTypeOK, BatchTypeOK', NEW c \in Calls, CallShape(1, c), 1 \in Gens,
           NEW d \in Calls, inOrder(1, d)
    PROVE  inOrder(1, d)'
<1>1. SUFFICES ASSUME NEW b \in 1..(d - 1)
               PROVE  \/ b \in closed(1)' \ fatal'[1]
                      \/ \E p \in (b + 1)..(d - 1) : pc'[1][p] = "pause"
  BY Zenon DEF inOrder
<1>2. \A e \in Calls : pc[1][e] \in Returned => pc'[1][e] = pc[1][e] /\ e # c
  BY Zenon DEF CallShape, Returned
<1>3. b \in Calls /\ \A p \in (b + 1)..(d - 1) : p \in Calls
  BY DEF Calls, BatchBounds
<1>4. CASE b \in closed(1) \ fatal[1]
  <2>1. pc[1][b] \in Returned /\ b \notin fatal[1]
    BY Zenon, <1>4 DEF closed
  <2>2. b \notin fatal'[1]
    BY SMTT(60), <1>2, <1>3, <2>1 DEF CallShape
  <2>. QED  BY Zenon, <1>2, <1>3, <2>1, <2>2 DEF closed
<1>5. CASE \E p \in (b + 1)..(d - 1) : pc[1][p] = "pause"
  BY Zenon, <1>2, <1>3, <1>5 DEF Returned
<1>. QED  BY Zenon, <1>4, <1>5 DEF inOrder

\* The turn of a call comes when the one before it returned: unless that one
\* paused, the calls before it are in order as well.
LEMMA TurnInOrder ==
    ASSUME BatchBounds, BatchTypeOK, OrderKept, registered(1), mayWrite(1), ~aborted(1),
           NEW c \in Calls, turnCame(1, c)
    PROVE  inOrder(1, c)
<1>1. c \in Nat /\ c >= 1 /\ c <= NCalls /\ NCalls \in Nat
  BY DEF Calls, BatchBounds
<1>2. CASE c = 1
  BY <1>2 DEF inOrder
<1>3. CASE c > 1
  <2>1. c - 1 \in Calls /\ pc[1][c - 1] \in Returned
    BY Zenon, <1>1, <1>3 DEF turnCame, closed
  <2>2. SUFFICES ASSUME NEW b \in 1..(c - 1)
                 PROVE  \/ b \in closed(1) \ fatal[1]
                        \/ \E p \in (b + 1)..(c - 1) : pc[1][p] = "pause"
    BY Zenon DEF inOrder
  <2>3. fatal[1] = {} /\ b \in Calls
    BY <1>1 DEF aborted, Calls
  <2>4. CASE b = c - 1
    BY Zenon, <2>1, <2>3, <2>4 DEF closed
  <2>5. CASE b # c - 1 /\ pc[1][c - 1] = "pause"
    BY <1>1, <2>5
  <2>6. CASE b # c - 1 /\ pc[1][c - 1] # "pause"
    <3>1. inOrder(1, c - 1)
      BY Zenon, <2>1, <2>6 DEF OrderKept, Returned
    <3>2. b \in 1..((c - 1) - 1) /\ \A p \in (b + 1)..((c - 1) - 1) : p \in (b + 1)..(c - 1)
      BY <1>1, <2>6
    <3>. QED  BY Zenon, <3>1, <3>2 DEF inOrder
  <2>. QED  BY Zenon, <2>4, <2>5, <2>6
<1>. QED  BY <1>1, <1>2, <1>3

\* No step breaks the declared order of the live engine.
LEMMA OrderStep ==
    ASSUME BatchBounds, BatchInv, BatchTypeOK',
           \/ \E g \in Gens, c \in Calls : CallShape(g, c)
           \/ \E g \in Gens : GenShape(g)
    PROVE  OrderKept'
<1>. USE DEF BatchInv
<1>0. 1 \in Gens /\ fence \in Nat /\ fence # 0
  BY DEF BatchBounds, BatchTypeOK, Gens
<1>1. ASSUME NEW g \in Gens, NEW c \in Calls, CallShape(g, c)
      PROVE  OrderKept'
  <2>1. /\ registered(1)' <=> registered(1)
        /\ mayWrite(1)' <=> mayWrite(1)
    BY Zenon, <1>1 DEF CallShape, drive, registered, mayWrite
  <2>2. CASE g # 1
    <3>1. \A d \in Calls : pc'[1][d] = pc[1][d]
      BY Zenon, <1>0, <1>1, <2>2 DEF CallShape
    <3>2. fatal'[1] = fatal[1]
      BY Zenon, <1>0, <1>1, <2>2 DEF CallShape
    <3>3. \A d \in Calls : inOrder(1, d)' <=> inOrder(1, d)
      <4>1. ASSUME NEW d \in Calls PROVE inOrder(1, d)' <=> inOrder(1, d)
        <5>1. \A b \in 1..(d - 1) : b \in Calls /\ \A p \in (b + 1)..(d - 1) : p \in Calls
          BY DEF Calls, BatchBounds
        <5>2. closed(1)' = closed(1)
          BY Zenon, <3>1 DEF closed
        <5>. QED  BY ZenonT(60), <3>1, <3>2, <5>1, <5>2 DEF inOrder
      <4>. QED  BY Zenon, <4>1
    <3>. QED  BY Zenon, <2>1, <3>1, <3>2, <3>3 DEF OrderKept, aborted
  <2>3. CASE g = 1
    <3>. SUFFICES ASSUME registered(1) PROVE OrderKept'
      BY Zenon, <2>1 DEF OrderKept
    <3>1. \A d \in Calls : inOrder(1, d) => inOrder(1, d)'
      BY Zenon, <1>0, <1>1, <2>3, InOrderStays
    <3>2. aborted(1) => aborted(1)'
      BY Zenon, <1>1, <2>3 DEF CallShape, aborted
    <3>3. kind[1] = "live" /\ PathStep(1, c)
      BY Zenon, <1>1, <2>3 DEF CallShape, registered
    <3>4. ASSUME NEW d \in Calls, d # c
          PROVE  /\ pc'[1][d] = "skipping" => aborted(1)'
                 /\ pc'[1][d] \in {"claimed", "body"} => inOrder(1, d)'
                 /\ pc'[1][d] = "settling" => aborted(1)' \/ inOrder(1, d)'
                 /\ pc'[1][d] = "claiming" => ~mayWrite(1)' \/ inOrder(1, d)'
                 /\ pc'[1][d] \in {"output", "error"} => ~mayWrite(1)' \/ aborted(1)' \/ inOrder(1, d)'
      <4>1. pc'[1][d] = pc[1][d]
        BY Zenon, <1>0, <1>1, <2>3, <3>4 DEF CallShape
      <4>. QED  BY Zenon, <2>1, <3>1, <3>2, <4>1 DEF OrderKept
    <3>5. pc'[1][c] = "skipping" => aborted(1)'
      BY Zenon, <3>2, <3>3 DEF PathStep
    <3>6. pc'[1][c] \in {"claimed", "body"} => inOrder(1, c)'
      BY Zenon, <1>1, <2>3, <3>1 DEF CallShape, RowStep, OrderKept
    <3>7. pc'[1][c] = "settling" => aborted(1)' \/ inOrder(1, c)'
      BY Zenon, <3>1, <3>2, <3>3 DEF PathStep, OrderKept
    <3>8. pc'[1][c] = "claiming" => ~mayWrite(1)' \/ inOrder(1, c)'
      BY Zenon, <2>1, <3>1, <3>3, TurnInOrder DEF PathStep
    <3>9. pc'[1][c] = "output" => ~mayWrite(1)' \/ aborted(1)' \/ inOrder(1, c)'
      BY Zenon, <2>1, <3>1, <3>2, <3>3 DEF PathStep, OrderKept, UnclaimedIsPending
    <3>10. pc'[1][c] = "error" => aborted(1)' \/ inOrder(1, c)'
      BY Zenon, <3>1, <3>2, <3>3 DEF PathStep, OrderKept, aborted
    <3>. QED  BY Zenon, <3>4, <3>5, <3>6, <3>7, <3>8, <3>9, <3>10 DEF OrderKept
  <2>. QED  BY Zenon, <2>2, <2>3
<1>2. ASSUME NEW g \in Gens, GenShape(g)
      PROVE  OrderKept'
  <2>1. CASE g = 1
    BY Zenon, <1>2, <2>1 DEF GenShape, OrderKept
  <2>2. CASE g # 1
    <3>1. pc'[1] = pc[1] /\ fatal'[1] = fatal[1] /\ kind'[1] = kind[1]
      BY ZenonT(60), <1>0, <1>2, <2>2 DEF GenShape
    <3>2. mayWrite(1)' => mayWrite(1)
      BY Zenon, <1>0, <1>2, <2>2 DEF GenShape, mayWrite
    <3>3. closed(1)' = closed(1) /\ (registered(1)' <=> registered(1)) /\ (aborted(1)' <=> aborted(1))
      BY Zenon, <3>1 DEF closed, registered, aborted
    <3>4. \A d \in Calls : inOrder(1, d)' <=> inOrder(1, d)
      BY Zenon, <3>1, <3>3 DEF inOrder
    <3>. QED  BY Zenon, <3>1, <3>2, <3>3, <3>4 DEF OrderKept
  <2>. QED  BY Zenon, <2>1, <2>2
<1>. QED  BY Zenon, <1>1, <1>2

\* A cancellation, like a step of another part of the system, moves no call.
LEMMA CancelKeeps ==
    ASSUME BatchInv, \/ UNCHANGED vars
                     \/ \E g \in Gens : Cancel(g)
    PROVE  BatchInv' /\ pc' = pc
<1>1. /\ UNCHANGED <<status, fence, run, leaves, kind, alive, targets, pc, outcome, fatal, ran, faults>>
      /\ canceled' = canceled \/ \E g \in Gens : canceled' = canceled \cup {g}
  BY Zenon DEF vars, Cancel, rows
<1>2. BatchTypeOK'
  BY Zenon, <1>1 DEF BatchInv, BatchTypeOK
<1>3. /\ UnclaimedNeverRan' /\ ClaimedAlone' /\ RanIsCounted' /\ PausedIsGated'
      /\ ExecutedAtMostOnce' /\ SettledCallsAreTrue'
  BY Zenon, <1>1 DEF BatchInv, UnclaimedNeverRan, ClaimedAlone, RanIsCounted, PausedIsGated,
              ExecutedAtMostOnce, SettledCallsAreTrue, unfinished
<1>4. GenerationsApart' /\ UnclaimedIsPending'
  BY Zenon, <1>1 DEF BatchInv, GenerationsApart, UnclaimedIsPending, mayWrite
<1>5. OrderKept'
  BY ZenonT(60), <1>1 DEF BatchInv, OrderKept, inOrder, closed, registered, aborted, mayWrite
<1>. QED  BY Zenon, <1>1, <1>2, <1>3, <1>4, <1>5 DEF BatchInv

\* Every step is one of a goroutine, one of an engine, or a cancellation.
LEMMA StepShapes ==
    ASSUME BatchBounds, BatchInv, [Next]_vars
    PROVE  \/ /\ BatchTypeOK'
              /\ \/ \E g \in Gens, c \in Calls : CallShape(g, c)
                 \/ \E g \in Gens : GenShape(g)
           \/ UNCHANGED vars
           \/ \E g \in Gens : Cancel(g)
<1>. USE DEF BatchInv
<1>1. 1 \in Gens
  BY DEF BatchBounds, Gens
<1>2. CASE persistAssistantTurn
  BY Zenon, <1>1, <1>2, GenStep
<1>3. CASE \E g \in Gens, c \in Calls :
              InvokableRun(g, c) \/ ExecuteAndSettle(g, c) \/ Sequential(g, c)
  BY Zenon, <1>3, CallStep
<1>4. CASE \E g \in Gens : Returns(g) \/ Reclaim(g) \/ ResumeRun(g) \/ Abandon(g) \/ Crash(g)
  BY Zenon, <1>4, GenStep
<1>. QED  BY Zenon, <1>2, <1>3, <1>4 DEF Next

\* Every step keeps the invariant of the batch.
LEMMA StepKeeps ==
    ASSUME BatchBounds, BatchInv, [Next]_vars
    PROVE  BatchInv'
<1>1. CASE UNCHANGED vars \/ \E g \in Gens : Cancel(g)
  BY Zenon, <1>1, CancelKeeps
<1>2. CASE /\ BatchTypeOK'
           /\ \/ \E g \in Gens, c \in Calls : CallShape(g, c)
              \/ \E g \in Gens : GenShape(g)
  BY Zenon, <1>2, OnceKept, GenerationsKept, OrderStep DEF BatchInv
<1>. QED  BY Zenon, <1>1, <1>2, StepShapes

-----------------------------------------------------------------------------
(* The theorems.                                                           *)

\* The invariant of the batch holds throughout.
LEMMA BatchInvariant == BatchBounds => (Spec => []BatchInv)
<1>. SUFFICES ASSUME BatchBounds PROVE Spec => []BatchInv
  BY Zenon
<1>1. Init => BatchInv
  BY Zenon, InitHolds
<1>2. BatchInv /\ [Next]_vars => BatchInv'
  BY Zenon, StepKeeps
<1>. QED  BY <1>1, <1>2, PTL DEF Spec

\* The rows, the goroutines and the fence keep their types for every number of
\* calls, generations and faults.
THEOREM BatchTypeCorrect == BatchBounds => (Spec => []BatchTypeOK)
<1>1. BatchInv => BatchTypeOK
  BY Zenon DEF BatchInv
<1>. QED  BY <1>1, BatchInvariant, PTL

\* However often the run is reclaimed, resumed, canceled or its process lost,
\* the body of a tool call runs at most once: only the transaction that finds
\* the call pending admits it (session/tools.go, MarkToolRunning).
THEOREM ToolBodyRunsOnce == BatchBounds => (Spec => []ExecutedAtMostOnce)
<1>1. BatchInv => ExecutedAtMostOnce
  BY Zenon DEF BatchInv
<1>. QED  BY <1>1, BatchInvariant, PTL

\* A call recorded as completed did run, and a settled run has no call open.
THEOREM SettledRowsTrue == BatchBounds => (Spec => []SettledCallsAreTrue)
<1>1. BatchInv => SettledCallsAreTrue
  BY Zenon DEF BatchInv
<1>. QED  BY <1>1, BatchInvariant, PTL

\* In a batch of any length the engine that registered it starts a body only
\* when every earlier call has returned without a fatal error, back to the
\* last one that paused (awaitToolTurn, settleToolTurn).
THEOREM BatchInDeclaredOrder == BatchBounds => (Spec => DeclaredOrder)
<1>. SUFFICES ASSUME BatchBounds PROVE Spec => DeclaredOrder
  BY Zenon
<1>1. ASSUME BatchInv, [Next]_vars
      PROVE  declaredOrder
  <2>1. SUFFICES ASSUME NEW g \in Gens, NEW c \in Calls, registered(g), starts(g, c)
                 PROVE  inOrder(g, c)
    BY Zenon DEF declaredOrder
  <2>2. g = 1
    BY Zenon, <1>1, <2>1 DEF BatchInv, GenerationsApart, registered
  <2>3. pc'[g][c] # pc[g][c] /\ pc'[g][c] = "body"
    BY Zenon, <2>1 DEF starts
  <2>4. PICK h \in Gens : \/ \E d \in Calls : CallShape(h, d)
                          \/ GenShape(h)
    BY Zenon, <1>1, <2>3, StepShapes, CancelKeeps
  <2>5. ~ GenShape(h)
    BY Zenon, <2>3 DEF GenShape
  <2>6. PICK d \in Calls : CallShape(h, d)
    BY Zenon, <2>4, <2>5
  <2>7. h = g /\ d = c
    BY Zenon, <2>3, <2>6 DEF CallShape
  <2>8. pc[g][c] = "claimed"
    BY Zenon, <2>3, <2>6, <2>7 DEF CallShape, RowStep
  <2>. QED  BY Zenon, <1>1, <2>1, <2>2, <2>8 DEF BatchInv, OrderKept
<1>2. BatchInv /\ [Next]_vars => [declaredOrder]_vars
  BY Zenon, <1>1
<1>. QED  BY <1>2, BatchInvariant, PTL DEF Spec, DeclaredOrder
=============================================================================
