------------------------------ MODULE TurnLoop ------------------------------
(***************************************************************************)
(* The orchestrator's drives of a run: Start, ResumeRun, Resume (crash     *)
(* reconciliation), Stop with Abandon, Enqueue, and the turn loop each     *)
(* drive runs (runtime/turn_loop.go, interrupt.go, adk_checkpoint.go and   *)
(* the Start path of orchestrator.go), over the store of SessionStore.     *)
(*                                                                         *)
(* A driver is one goroutine with the memory that Start or ResumeRun gave  *)
(* it: the fence, the next ordinal, the revision it staged last, the turn  *)
(* it believes is current, the buffer of the ADK loop.  Drivers may run in *)
(* one process or in several, and a driver that lost its lease goes on     *)
(* until a fenced write is refused.  Every step is one store mutation, or  *)
(* the reads between two of them, so drivers, crashes, lease expiry and    *)
(* submissions interleave wherever the code lets go of the store.          *)
(*                                                                         *)
(* The ADK loop is a library: what it does between the callbacks           *)
(* (buffering, the checkpoint it saves or deletes on exit) is taken from   *)
(* how the callbacks use it.  The provider may fail a turn at any moment.  *)
(***************************************************************************)
EXTENDS SessionStore

CONSTANTS
    Drivers,       \* goroutines that can drive a run
    First,         \* firstTurnSentinelID
    Reconciled,    \* reconciledTurnSentinelID
    HostEvents     \* which of "stop", "abandon", "crash", "fail", "startfail" happen

ASSUME SentinelAssumption == First # Reconciled /\ {First, Reconciled} \cap Items = {}

Entries == Items \cup {First, Reconciled}

\* The envelope of a checkpoint: the turn it was staged for, whether it
\* carries runner state, the unhandled and the interrupted buffer entries.
ASSUME EnvelopeAssumption ==
    Blobs = [turn : Turns, runner : BOOLEAN, rest : SUBSET Entries, inflight : SUBSET Entries]

\* A clock that has moved on since any earlier reading.
ASSUME ClockAssumption == \A s \in Stamps \cup {0} : \E u \in Stamps : u # s

\* The integer columns of the store take finitely many values: any ordinals,
\* and any revisions, have a largest among them.
ASSUME ColumnAssumption ==
    /\ \A P \in SUBSET Ordinals : P # {} => \E n \in P : \A m \in P : m <= n
    /\ \A P \in SUBSET Revisions : P # {} => \E n \in P : \A m \in P : m <= n

VARIABLES
    drv,           \* the drivers' memory
    pushing        \* submissions committed and not yet pushed to a loop

vars == <<storeVars, drv, pushing>>

Parked ==
    [pc |-> "idle", run |-> None, tok |-> None, ord |-> 0, staged |-> 0, cur |-> None,
     seen |-> {}, buf |-> {}, batch |-> {}, first |-> FALSE, loaded |-> FALSE]

\* The control points between two store mutations of a drive.
Points ==
    {"idle", "push", "begin", "load", "loop", "turn", "stopping", "pausing", "unhandled",
     "late", "clean", "retire", "carrier", "carrierStage", "resume", "resumed",
     "reclaim", "reconcile", "reconciled", "repause", "abandon", "abandoning", "abandoned"}

\* A driver has no token before its claim, and needs no turn to reconcile.
Unclaimed == {"idle", "resume", "reclaim", "abandon"}
Turnless  == {"idle", "reclaim", "reconcile", "reconciled", "repause",
              "abandon", "abandoning", "abandoned"}

Drives ==
    [pc : Points, run : Runs \cup {None}, tok : Tokens \cup {None}, ord : Ordinals \cup {0},
     staged : Revisions \cup {0}, cur : Turns \cup {None}, seen : SUBSET Items,
     buf : SUBSET Entries, batch : SUBSET Entries, first : BOOLEAN, loaded : BOOLEAN]

\* What a driver remembers fits the point it is at.
wellFormed(m) ==
    /\ m.run = None <=> m.pc = "idle"
    /\ m.tok = None <=> m.pc \in Unclaimed
    /\ m.pc \notin Turnless => m.cur \in Turns
    /\ m.pc \in {"pausing", "unhandled", "retire", "repause"} => m.staged # 0

\* Every driver has a well-formed memory: in particular it pauses, retires and
\* re-pauses only with a revision it staged, and stages only for a turn.
DriverTypeOK ==
    /\ drv \in [Drivers -> Drives]
    /\ \A d \in Drivers : wellFormed(drv[d])
    /\ pushing \in SUBSET (Runs \X Items)

TLInit == Init /\ drv = [d \in Drivers |-> Parked] /\ pushing = {}

(***************************************************************************)
(* What the drivers read from the store.                                   *)
(***************************************************************************)

\* The turn of the largest ordinal, None of no turn.
newest(T) ==
    IF T = {} THEN None ELSE CHOOSE t \in T : \A u \in T : turnOrdinal[u] <= turnOrdinal[t]

turnsOf(r, states) == {t \in Turns : turnRun[t] = r /\ turnState[t] \in states}

\* The newest turn that is neither completed nor failed.
currentTurn(r) == newest(turnsOf(r, OpenTurn))

maxOrdinal(r) ==
    LET t == newest(turnsOf(r, OpenTurn \cup ClosedTurn))
    IN  IF t = None THEN 0 ELSE turnOrdinal[t]

\* Mutant: a turn whose content came from the inbox counts as content-free.
hasRequestMessage(t) == turnOrdinal[t] = 1

\* Whether the turn committed user messages: the first turn of a run has the
\* message of its request, a later one the items it consumed.
hasUserMessages(t) == turnOrdinal[t] = 1 \/ \E i \in Items : inboxTurn[i] = t

drainQueuedInbox(r) == {i \in Items : ItemSession[i] = RunSession[r] /\ inboxState[i] = "queued"}

envelope(r) == ckptBlob[r][promotedRevision(r)]

\* Identifiers and time.
NewTurnID == CHOOSE t \in Turns : turnState[t] = "none"
NewClaimToken == CHOOSE k \in Tokens : k \notin minted
now(t) == CHOOSE s \in Stamps : s # finishedAt[t]
someTime == CHOOSE s \in Stamps : TRUE

canMintTurn == \E t \in Turns : turnState[t] = "none"
canMintToken == Tokens \ minted # {}

fenced(d) == drv[d].run # None /\ loadRunFence(drv[d].run, drv[d].tok)

\* The driver's memory is m from now on.
become(d, m) == drv' = [drv EXCEPT ![d] = m]

park(d) == become(d, Parked)

(***************************************************************************)
(* The checkpoint store of a drive (adk_checkpoint.go).                    *)
(***************************************************************************)

\* The revision the next staging ends at: one after the last this driver
\* staged; the first time, the first free one among the eight that follow
\* the promoted revision.
stagedRevision(d) ==
    LET p == promotedRevision(drv[d].run)
        free == {v \in (p + 1)..(p + 8) : v \in Revisions => ckptState[drv[d].run][v] = "none"}
    IN  IF drv[d].staged > 0 THEN drv[d].staged + 1
        ELSE IF free = {} THEN p + 8 ELSE CHOOSE v \in free : \A u \in free : v <= u

\* The envelope is stamped with the turn the driver holds for current.
stage(d, runner, rest, inflight) ==
    /\ stagedRevision(d) \in Revisions
    /\ StageCheckpoint(drv[d].run, drv[d].tok, stagedRevision(d),
          [turn |-> drv[d].cur, runner |-> runner, rest |-> rest, inflight |-> inflight])

stageConflict(d) ==
    /\ fenced(d)
    /\ stagedRevision(d) \in Revisions
    /\ ckptState[drv[d].run][stagedRevision(d)] # "none"

(***************************************************************************)
(* Start.                                                                  *)
(***************************************************************************)

\* The admission transaction, then the registration of the loop.
Start(d, r) ==
    /\ drv[d].pc = "idle"
    /\ canMintTurn /\ canMintToken
    /\ AdmitDurable(r, NewClaimToken, NewTurnID)
    /\ become(d, [Parked EXCEPT !.pc = "push", !.run = r,
                                !.tok = NewClaimToken, !.ord = 1, !.cur = NewTurnID])
    /\ UNCHANGED pushing

\* The sentinel of the first turn, then what an earlier run left in the queue
\* (nothing when the listing fails).  A submission can have been pushed since
\* the registration, and then the sentinel is not at the head of the buffer.
StartPush(d) ==
    /\ drv[d].pc = "push"
    /\ \E queued \in {drainQueuedInbox(drv[d].run), {}} :
          become(d, [drv[d] EXCEPT !.pc = "begin", !.first = (drv[d].buf = {}),
                                   !.buf = @ \cup {First} \cup queued])
    /\ UNCHANGED <<storeVars, pushing>>

BeginFresh(d) ==
    /\ drv[d].pc = "begin"
    /\ StartRun(drv[d].run, drv[d].tok)
    /\ become(d, [drv[d] EXCEPT !.pc = "load"])
    /\ UNCHANGED pushing

(***************************************************************************)
(* ResumeRun: validation from unfenced reads, then the claim, then the     *)
(* start of the loop.                                                      *)
(***************************************************************************)

ResumeRead(d, r) ==
    /\ drv[d].pc = "idle"
    /\ canMintToken
    /\ runStatus[r] = "paused"
    /\ promotedRevision(r) # 0
    /\ envelope(r).turn = currentTurn(r)
    /\ LET t == currentTurn(r)
           sentinel == IF ~envelope(r).runner /\ turnState[t] = "interrupted" /\ hasUserMessages(t)
                         THEN {Reconciled} ELSE {}
       IN  become(d, [Parked EXCEPT !.pc = "resume", !.run = r, !.ord = maxOrdinal(r),
                                    !.cur = t, !.buf = drainQueuedInbox(r) \cup sentinel])
    /\ UNCHANGED <<storeVars, pushing>>

\* The claim does not ask whether the run is still as it was read: it takes a
\* paused run, and a running one whose lease ran out.
ResumeClaim(d) ==
    /\ drv[d].pc = "resume"
    /\ canMintToken
    /\ ClaimRun(drv[d].run, NewClaimToken)
    /\ become(d, [drv[d] EXCEPT !.pc = "resumed", !.tok = NewClaimToken])
    /\ UNCHANGED pushing

ResumeStart(d) ==
    /\ drv[d].pc = "resumed"
    /\ StartRun(drv[d].run, drv[d].tok)
    /\ become(d, [drv[d] EXCEPT !.pc = "load"])
    /\ UNCHANGED pushing

\* StartRun fails (its context was cancelled, the store refused) and the claim
\* is reverted without touching a checkpoint.
ResumeStartFails(d) ==
    /\ "startfail" \in HostEvents
    /\ drv[d].pc = "resumed"
    /\ RepauseRun(drv[d].run, drv[d].tok, 0)
    /\ park(d)
    /\ UNCHANGED pushing

(***************************************************************************)
(* The turn loop.                                                          *)
(***************************************************************************)

\* Run loads the promoted checkpoint.  With runner state GenResume takes over
\* the newest interrupted turn, which stays interrupted in the store; without,
\* the unhandled entries go in front of the buffer.
LoadCheckpoint(d) ==
    /\ drv[d].pc = "load"
    /\ LET r == drv[d].run
           t == newest(turnsOf(r, {"interrupted"}))
       IN  \/ /\ promotedRevision(r) = 0
              /\ become(d, [drv[d] EXCEPT !.pc = "loop"])
           \/ /\ promotedRevision(r) # 0
              /\ ~envelope(r).runner
              /\ become(d, [drv[d] EXCEPT !.pc = "loop", !.loaded = TRUE,
                                          !.buf = @ \cup envelope(r).rest])
           \/ /\ promotedRevision(r) # 0
              /\ envelope(r).runner
              /\ t # None
              /\ become(d, [drv[d] EXCEPT !.pc = "turn", !.loaded = TRUE, !.cur = t,
                                          !.ord = IF turnOrdinal[t] > @ THEN turnOrdinal[t] ELSE @,
                                          !.buf = @ \cup envelope(r).rest,
                                          !.batch = envelope(r).inflight])
    /\ UNCHANGED <<storeVars, pushing>>

\* GenInput on the sentinel of the turn that admission already created.
GenInputFirst(d) ==
    /\ drv[d].pc = "loop"
    /\ drv[d].first /\ First \in drv[d].buf
    /\ become(d, [drv[d] EXCEPT !.pc = "turn", !.first = FALSE,
                                !.batch = {First}, !.buf = @ \ {First}])
    /\ UNCHANGED <<storeVars, pushing>>

\* GenInput on the sentinel of a reconciled turn: the newest interrupted turn
\* is resumed under its own identity.
GenInputReconciled(d) ==
    /\ drv[d].pc = "loop"
    /\ ~(drv[d].first /\ First \in drv[d].buf)
    /\ Reconciled \in drv[d].buf
    /\ \E t \in {newest(turnsOf(drv[d].run, {"interrupted"}))} \ {None} :
          /\ ResumeInterruptedTurn(drv[d].run, drv[d].tok, t)
          /\ become(d, [drv[d] EXCEPT !.pc = "turn", !.cur = t,
                                      !.ord = IF turnOrdinal[t] > @ THEN turnOrdinal[t] ELSE @,
                                      !.batch = {Reconciled}, !.buf = @ \ {Reconciled}])
    /\ UNCHANGED pushing

\* claimItems: the entries that no earlier GenInput of this drive took.
claimItems(d) == (drv[d].buf \cap Items) \ drv[d].seen

\* loadInboxItems: those of the claimed entries that are still queued.
loadInboxItems(d) == {i \in claimItems(d) : inboxState[i] = "queued"}

plainInput(d) ==
    /\ drv[d].pc = "loop"
    /\ drv[d].buf # {}
    /\ ~(drv[d].first /\ First \in drv[d].buf)
    /\ Reconciled \notin drv[d].buf

hadRealDuplicate(d) == drv[d].buf \cap Items # {} /\ loadInboxItems(d) = {}

\* GenInput admits the next turn over the queued entries.  A buffer that
\* holds only a leftover first-turn sentinel admits a turn without content.
GenInputAdmit(d) ==
    /\ plainInput(d)
    /\ ~hadRealDuplicate(d)
    /\ canMintTurn
    /\ drv[d].ord + 1 \in Ordinals
    /\ AdmitTurn(drv[d].run, drv[d].tok, NewTurnID, drv[d].ord + 1, loadInboxItems(d))
    /\ become(d, [drv[d] EXCEPT !.pc = "turn", !.cur = NewTurnID, !.ord = @ + 1,
                                !.seen = @ \cup claimItems(d),
                                !.batch = drv[d].buf, !.buf = {}])
    /\ UNCHANGED pushing

\* Every item of the batch was admitted before: the loop stops itself and the
\* batch goes back to the buffer.
GenInputDuplicate(d) ==
    /\ plainInput(d)
    /\ hadRealDuplicate(d)
    /\ become(d, [drv[d] EXCEPT !.pc = "stopping", !.seen = @ \cup claimItems(d)])
    /\ UNCHANGED <<storeVars, pushing>>

CompletesTurn(d) ==
    /\ drv[d].pc = "turn"
    /\ CompleteTurn(drv[d].run, drv[d].tok, drv[d].cur, someTime)
    /\ become(d, [drv[d] EXCEPT !.pc = "loop", !.batch = {}])
    /\ UNCHANGED pushing

(***************************************************************************)
(* How a drive ends (finishTurnLoop).                                      *)
(***************************************************************************)

\* An error of the provider or of a callback, a failed start of a fresh run,
\* or Handle.Interrupt: the run settles failed or interrupted.
FailDrive(d) ==
    /\ "fail" \in HostEvents
    /\ drv[d].pc \in {"begin", "load", "loop", "turn", "late"}
    /\ \E outcome \in {"failed", "interrupted"} :
          SettleRun(drv[d].run, drv[d].tok, outcome, someTime)
    /\ park(d)
    /\ UNCHANGED pushing

\* A tool or an immediate Stop interrupts the turn, and the loop saves its
\* runner state.
InterruptStage(d) ==
    /\ drv[d].pc = "turn"
    /\ stage(d, TRUE, drv[d].buf, drv[d].batch)
    /\ become(d, [drv[d] EXCEPT !.pc = "pausing", !.staged = stagedRevision(d)])
    /\ UNCHANGED pushing

\* What PromotePause is asked to interrupt.
interruptedItemIDs(d) == drv[d].batch \cap Items

PromotePaused(d) ==
    /\ drv[d].pc = "pausing"
    /\ PromotePause(drv[d].run, drv[d].tok, drv[d].staged, drv[d].cur,
                    interruptedItemIDs(d), now(drv[d].cur))
    /\ park(d)
    /\ UNCHANGED pushing

\* The store refuses the pause, and the run is left running without a driver.
PromoteRefused(d) ==
    /\ drv[d].pc = "pausing"
    /\ fenced(d)
    /\ \/ ~ApplyInterruptTurn(drv[d].cur, now(drv[d].cur))
       \/ ~interruptible(drv[d].run, interruptedItemIDs(d))
    /\ park(d)
    /\ UNCHANGED <<storeVars, pushing>>

\* The checkpoint of a carrier meets a row that an earlier drive staged and
\* never promoted.  A driver that has staged nothing yet probes past such rows.
StageRefused(d) ==
    /\ drv[d].pc = "carrierStage"
    /\ stageConflict(d)
    /\ park(d)
    /\ UNCHANGED <<storeVars, pushing>>

\* A Stop between two turns with entries in the buffer saves them.
StopBetween(d) ==
    /\ \/ drv[d].pc = "loop" /\ "stop" \in HostEvents
       \/ drv[d].pc = "stopping"
    /\ drv[d].buf # {}
    /\ stage(d, FALSE, drv[d].buf, {})
    /\ become(d, [drv[d] EXCEPT !.pc = "unhandled", !.staged = stagedRevision(d)])
    /\ UNCHANGED pushing

\* An idle loop stops.  The library then deletes the checkpoint it loaded.
IdleStop(d) ==
    LET last == IF drv[d].staged > 0 THEN drv[d].staged ELSE promotedRevision(drv[d].run)
    IN  /\ drv[d].pc = "loop"
        /\ drv[d].buf = {}
        /\ \/ /\ drv[d].loaded /\ last > 0
              /\ RetireCheckpoints(drv[d].run, drv[d].tok, last)
              /\ become(d, [drv[d] EXCEPT !.pc = "late", !.staged = last])
           \/ /\ ~drv[d].loaded \/ last = 0
              /\ become(d, [drv[d] EXCEPT !.pc = "late"])
              /\ UNCHANGED storeVars
        /\ UNCHANGED pushing

\* The loop is unregistered, and what was left unhandled or came late decides:
\* an item that is still queued asks for a pause.
QueuedAmong(d) ==
    /\ drv[d].pc \in {"unhandled", "late"}
    /\ become(d, [drv[d] EXCEPT !.pc = IF \E i \in drv[d].buf \cap Items : inboxState[i] = "queued"
                                      THEN "carrier" ELSE "clean"])
    /\ UNCHANGED <<storeVars, pushing>>

\* The run completes, unless a submission came in: then it pauses as well.
SettleClean(d) ==
    /\ drv[d].pc = "clean"
    /\ \/ /\ SettleRun(drv[d].run, drv[d].tok, "completed", someTime)
          /\ become(d, IF drv[d].staged > 0 THEN [drv[d] EXCEPT !.pc = "retire"] ELSE Parked)
       \/ /\ fenced(d)
          /\ drainQueuedInbox(drv[d].run) # {}
          /\ become(d, [drv[d] EXCEPT !.pc = "carrier"])
          /\ UNCHANGED storeVars
    /\ UNCHANGED pushing

RetireCompleted(d) ==
    /\ drv[d].pc = "retire"
    /\ RetireRunCheckpoints(drv[d].run, drv[d].staged)
    /\ park(d)
    /\ UNCHANGED pushing

\* Mutant: the driver does not take the carrier for its current turn.
CarrierAdmitUnnoticed(d) ==
    /\ drv[d].pc = "carrier"
    /\ canMintTurn
    /\ drv[d].ord + 1 \in Ordinals
    /\ AdmitTurn(drv[d].run, drv[d].tok, NewTurnID, drv[d].ord + 1, {})
    /\ become(d, [drv[d] EXCEPT !.pc = "carrierStage", !.ord = @ + 1])
    /\ UNCHANGED pushing

\* A turn without content is admitted to carry the pause.
CarrierAdmit(d) ==
    /\ drv[d].pc = "carrier"
    /\ canMintTurn
    /\ drv[d].ord + 1 \in Ordinals
    /\ AdmitTurn(drv[d].run, drv[d].tok, NewTurnID, drv[d].ord + 1, {})
    /\ become(d, [drv[d] EXCEPT !.pc = "carrierStage", !.cur = NewTurnID, !.ord = @ + 1])
    /\ UNCHANGED pushing

\* Its checkpoint is a fresh one without entries; PromotePaused follows.
CarrierStage(d) ==
    /\ drv[d].pc = "carrierStage"
    /\ stage(d, FALSE, {}, {})
    /\ become(d, [drv[d] EXCEPT !.pc = "pausing", !.staged = stagedRevision(d), !.batch = {}])
    /\ UNCHANGED pushing

\* GenInput and the carrier are refused when the ordinal was counted from a
\* stale listing: GenInput's error fails the run, the carrier's leaves it.
AdmitRefused(d) ==
    /\ \/ drv[d].pc = "carrier"
       \/ plainInput(d) /\ ~hadRealDuplicate(d)
    /\ fenced(d)
    /\ drv[d].ord + 1 \in Ordinals
    /\ ~nextOrdinal(drv[d].run, drv[d].ord + 1)
    /\ IF drv[d].pc = "carrier" THEN UNCHANGED storeVars
       ELSE SettleRun(drv[d].run, drv[d].tok, "failed", someTime)
    /\ park(d)
    /\ UNCHANGED pushing

\* There is no interrupted turn for GenResume or the reconciled sentinel to
\* take over: the error fails the run.
ResumeEngineRefused(d) ==
    /\ \/ /\ drv[d].pc = "load"
          /\ promotedRevision(drv[d].run) # 0
          /\ envelope(drv[d].run).runner
       \/ /\ drv[d].pc = "loop"
          /\ ~(drv[d].first /\ First \in drv[d].buf)
          /\ Reconciled \in drv[d].buf
    /\ turnsOf(drv[d].run, {"interrupted"}) = {}
    /\ SettleRun(drv[d].run, drv[d].tok, "failed", someTime)
    /\ park(d)
    /\ UNCHANGED pushing

(***************************************************************************)
(* Crash reconciliation (Resume of a run that is pending or running).      *)
(***************************************************************************)

ReclaimRead(d, r) ==
    /\ drv[d].pc = "idle"
    /\ canMintToken
    /\ runStatus[r] \in Writable
    /\ become(d, [Parked EXCEPT !.pc = "reclaim", !.run = r])
    /\ UNCHANGED <<storeVars, pushing>>

Reclaim(d) ==
    /\ drv[d].pc = "reclaim"
    /\ canMintToken
    /\ ClaimRun(drv[d].run, NewClaimToken)
    /\ become(d, [drv[d] EXCEPT !.pc = "reconcile", !.tok = NewClaimToken])
    /\ UNCHANGED pushing

\* The newest turn the crash left admitted or running is interrupted.
ReconcileTurn(d) ==
    /\ drv[d].pc = "reconcile"
    /\ LET dangling == newest(turnsOf(drv[d].run, {"admitted", "running"}))
       IN  IF dangling = None THEN UNCHANGED storeVars
           ELSE ReconcileInterruptedTurn(drv[d].run, drv[d].tok, dangling, now(dangling))
    /\ become(d, [drv[d] EXCEPT !.pc = "reconciled"])
    /\ UNCHANGED pushing

\* Without a promoted checkpoint there is nothing to resume.
ReconcileSettle(d) ==
    /\ drv[d].pc = "reconciled"
    /\ promotedRevision(drv[d].run) = 0
    /\ SettleRun(drv[d].run, drv[d].tok, "interrupted", someTime)
    /\ park(d)
    /\ UNCHANGED pushing

\* With one, and no open turn: a carrier is admitted, and interrupted next.
ReconcileCarrier(d) ==
    /\ drv[d].pc = "reconciled"
    /\ promotedRevision(drv[d].run) # 0
    /\ currentTurn(drv[d].run) = None
    /\ canMintTurn
    /\ maxOrdinal(drv[d].run) + 1 \in Ordinals
    /\ AdmitTurn(drv[d].run, drv[d].tok, NewTurnID, maxOrdinal(drv[d].run) + 1, {})
    /\ become(d, [drv[d] EXCEPT !.pc = "reconcile"])
    /\ UNCHANGED pushing

\* A promoted checkpoint of another turn is superseded by one for the current.
ReconcileStage(d) ==
    /\ drv[d].pc = "reconciled"
    /\ promotedRevision(drv[d].run) # 0
    /\ currentTurn(drv[d].run) # None
    /\ envelope(drv[d].run).turn # currentTurn(drv[d].run)
    /\ stagedRevision(d) \in Revisions
    /\ StageCheckpoint(drv[d].run, drv[d].tok, stagedRevision(d),
          [turn |-> currentTurn(drv[d].run), runner |-> FALSE, rest |-> {}, inflight |-> {}])
    /\ become(d, [drv[d] EXCEPT !.pc = "repause", !.staged = stagedRevision(d)])
    /\ UNCHANGED pushing

\* Mutant: the run is paused again behind the checkpoint of an earlier turn.
RepauseAsFound(d) ==
    /\ drv[d].pc \in {"reconciled", "repause"}
    /\ promotedRevision(drv[d].run) # 0
    /\ RepauseRun(drv[d].run, drv[d].tok, drv[d].staged)
    /\ park(d)
    /\ UNCHANGED pushing

ReconcileRepause(d) ==
    /\ \/ drv[d].pc = "repause"
       \/ /\ drv[d].pc = "reconciled"
          /\ promotedRevision(drv[d].run) # 0
          /\ envelope(drv[d].run).turn = currentTurn(drv[d].run)
    /\ RepauseRun(drv[d].run, drv[d].tok, drv[d].staged)
    /\ park(d)
    /\ UNCHANGED pushing

(***************************************************************************)
(* Stop with Abandon.                                                      *)
(***************************************************************************)

AbandonRead(d, r) ==
    /\ "abandon" \in HostEvents
    /\ drv[d].pc = "idle"
    /\ canMintToken
    /\ runStatus[r] = "paused"
    /\ become(d, [Parked EXCEPT !.pc = "abandon", !.run = r])
    /\ UNCHANGED <<storeVars, pushing>>

AbandonClaim(d) ==
    /\ drv[d].pc = "abandon"
    /\ canMintToken
    /\ ClaimRun(drv[d].run, NewClaimToken)
    /\ become(d, [drv[d] EXCEPT !.pc = "abandoning", !.tok = NewClaimToken])
    /\ UNCHANGED pushing

AbandonRetire(d) ==
    /\ drv[d].pc = "abandoning"
    /\ IF promotedRevision(drv[d].run) = 0 THEN UNCHANGED storeVars
       ELSE RetireCheckpoints(drv[d].run, drv[d].tok, promotedRevision(drv[d].run))
    /\ become(d, [drv[d] EXCEPT !.pc = "abandoned"])
    /\ UNCHANGED pushing

AbandonSettle(d) ==
    /\ drv[d].pc = "abandoned"
    /\ SettleRun(drv[d].run, drv[d].tok, "interrupted", someTime)
    /\ park(d)
    /\ UNCHANGED pushing

(***************************************************************************)
(* Leases, lost fences, crashes, submissions.                              *)
(***************************************************************************)

\* Drives that renew the lease while they work.
heartbeats(d) ==
    drv[d].pc \notin {"idle", "push", "resume", "resumed", "retire", "reclaim",
                      "abandon", "abandoning", "abandoned"}

Heartbeat(d) ==
    /\ heartbeats(d)
    /\ lease[drv[d].run] = "expired"
    /\ RenewRunLease(drv[d].run, drv[d].tok)
    /\ UNCHANGED <<drv, pushing>>

Expire(r) == LeaseExpires(r) /\ UNCHANGED <<drv, pushing>>

\* A claim is refused because the run is owned or settled.
ClaimRefused(d) ==
    /\ drv[d].pc \in {"resume", "reclaim", "abandon"}
    /\ ~(runStatus[drv[d].run] = "paused")
    /\ ~(runStatus[drv[d].run] \in Writable /\ lease[drv[d].run] = "expired")
    /\ park(d)
    /\ UNCHANGED <<storeVars, pushing>>

\* Mutant: a refused write is tried again.
FenceRetried(d) ==
    /\ drv[d].pc \notin {"idle", "push", "resume", "reclaim", "abandon", "retire"}
    /\ ~fenced(d)
    /\ UNCHANGED vars

\* Another driver claimed the run: the next fenced write is refused, so is
\* every write of the exit protocol, and the drive ends.
FenceLost(d) ==
    /\ drv[d].pc \notin {"idle", "push", "resume", "reclaim", "abandon", "retire"}
    /\ ~fenced(d)
    /\ park(d)
    /\ UNCHANGED <<storeVars, pushing>>

\* The process of the driver dies.  One that has not claimed the run yet leaves
\* no trace, and its death is a call that was never made.
Crash(d) ==
    /\ "crash" \in HostEvents
    /\ drv[d].tok # None
    /\ park(d)
    /\ UNCHANGED <<storeVars, pushing>>

\* Enqueue commits the item; only a row it created is pushed afterwards.
Enqueue(r, i) ==
    /\ EnqueueInboxForRun(r, i)
    /\ pushing' = IF inboxState[i] = "none" THEN pushing \cup {<<r, i>>} ELSE pushing
    /\ UNCHANGED drv

\* Loops that the registry knows, up to the unregistration before the exit
\* protocol.
registered(d) ==
    drv[d].pc \in {"push", "begin", "resumed", "load", "loop", "turn", "stopping", "late"}

\* The push lands in a loop of the run that this process has registered, or
\* nowhere.
EnqueuePush(r, i) ==
    /\ <<r, i>> \in pushing
    /\ pushing' = pushing \ {<<r, i>>}
    /\ \/ UNCHANGED drv
       \/ \E d \in Drivers : /\ registered(d) /\ drv[d].run = r
                             /\ become(d, [drv[d] EXCEPT !.buf = @ \cup {i}])
    /\ UNCHANGED storeVars

DriverStep(d) ==
    \/ StartPush(d) \/ BeginFresh(d)
    \/ ResumeClaim(d) \/ ResumeStart(d)
    \/ LoadCheckpoint(d) \/ GenInputFirst(d) \/ GenInputReconciled(d)
    \/ GenInputAdmit(d) \/ GenInputDuplicate(d) \/ CompletesTurn(d)
    \/ PromotePaused(d) \/ PromoteRefused(d) \/ StageRefused(d)
    \/ IdleStop(d) \/ QueuedAmong(d) \/ SettleClean(d) \/ RetireCompleted(d)
    \/ CarrierAdmit(d) \/ CarrierStage(d) \/ AdmitRefused(d) \/ ResumeEngineRefused(d)
    \/ Reclaim(d) \/ ReconcileTurn(d) \/ ReconcileSettle(d) \/ ReconcileCarrier(d)
    \/ ReconcileStage(d) \/ ReconcileRepause(d)
    \/ AbandonClaim(d) \/ AbandonRetire(d) \/ AbandonSettle(d)
    \/ ClaimRefused(d) \/ FenceLost(d)
    \/ StopBetween(d)

HostStep(d) ==
    \/ \E r \in Runs : Start(d, r) \/ ResumeRead(d, r) \/ ReclaimRead(d, r) \/ AbandonRead(d, r)
    \/ ResumeStartFails(d) \/ FailDrive(d) \/ InterruptStage(d)
    \/ Heartbeat(d) \/ Crash(d)

TLNext ==
    \/ \E d \in Drivers : DriverStep(d) \/ HostStep(d)
    \/ \E r \in Runs : Expire(r)
    \/ \E r \in Runs, i \in Items : Enqueue(r, i) \/ EnqueuePush(r, i)

TLSpec == TLInit /\ [][TLNext]_vars

\* Scheduling: a live driver takes its next step, and the turn it drives ends
\* if nothing interrupts it; the database clock moves on; a host keeps sweeping
\* ListUnfinishedRuns and calls Resume for what it finds.  Nobody is obliged to
\* resume a paused run, to submit, to renew a lease or to stop.
Fairness ==
    /\ \A d \in Drivers : WF_vars(DriverStep(d))
    /\ \A r \in Runs : WF_vars(Expire(r)) /\ WF_vars(\E d \in Drivers : ReclaimRead(d, r))

TLFairSpec == TLSpec /\ Fairness

\* The instance has no fresh identifier left, so the code's next step is
\* outside of it.
exhausted(r) ==
    \/ ~canMintToken
    \/ ~canMintTurn
    \/ maxOrdinal(r) + 1 \notin Ordinals
    \/ \E d \in Drivers : drv[d].run = r /\ stagedRevision(d) \notin Revisions

(***************************************************************************)
(* Properties.                                                             *)
(***************************************************************************)

\* A condition on the calls of several hosts: the claim of ResumeRun finds the
\* run as the call read it, still paused, at the same turn, and with the same
\* kind of checkpoint when it made a sentinel of it.  ClaimRun does not ask.
ClaimsAsRead ==
    \A d \in Drivers : ResumeClaim(d) =>
        /\ runStatus[drv[d].run] = "paused"
        /\ drv[d].cur = currentTurn(drv[d].run)
        /\ Reconciled \in drv[d].buf => ~envelope(drv[d].run).runner

\* A paused run can always be resumed: it has a promoted checkpoint, staged for
\* the turn that ResumeRun will find current, so the check at turn_loop.go:1878
\* never refuses it, whichever of a pause, a carrier, a crash reconciliation or
\* a reverted claim left the run paused, while ClaimsAsRead.
ResumeAccepts ==
    \A r \in Runs : runStatus[r] = "paused" =>
        promotedRevision(r) # 0 /\ envelope(r).turn = currentTurn(r)

\* While a driver holds the fence and drives or pauses a turn, the turn it
\* holds in memory is the run's current turn in the store, so completion and
\* PromotePause are applied to the turn the conversation is at, while
\* ClaimsAsRead.
DrivenTurnIsCurrent ==
    \A d \in Drivers : drv[d].pc \in {"turn", "pausing"} /\ fenced(d)
        => drv[d].cur = currentTurn(drv[d].run)

\* Two drivers never pass the fence of one run at the same time, whatever they
\* remember of it: a claim displaces the earlier driver for good.
OneFencedDriver ==
    \A d, e \in Drivers : fenced(d) /\ fenced(e) /\ drv[d].run = drv[e].run => d = e

\* A run that completes has answered: one of its turns completed, and so did
\* every submission that a turn of it took; no crash, pause or redrive in
\* between leaves an item interrupted.
ItemsAnswered ==
    \A r \in Runs : runStatus[r] = "completed" =>
        /\ turnsOf(r, {"completed"}) # {}
        /\ \A i \in Items : inboxTurn[i] # None /\ turnRun[inboxTurn[i]] = r
                            => inboxState[i] = "completed"

\* A pause that a driver with the fence staged is accepted by the store, so the
\* run becomes paused and not a running run without a driver.
PauseIsAccepted ==
    \A d \in Drivers : drv[d].pc = "pausing" /\ fenced(d) =>
        /\ ApplyInterruptTurn(drv[d].cur, now(drv[d].cur))
        /\ interruptible(drv[d].run, interruptedItemIDs(d))

\* A run that is pending or running is at some time paused or settled, also
\* when the process that drove it crashed or a pause was refused: its lease
\* runs out, a sweep claims it, and reconciliation pauses or settles it.
orphanRecovered ==
    \A r \in Runs : runStatus[r] \in Writable ~> runStatus[r] \notin Writable \/ exhausted(r)

\* Every drive ends: no driver waits for ever, at any point of the exit
\* protocol or of a reconciliation, also when its fence is taken away.
driveEnds ==
    \A d \in Drivers : drv[d].pc # "idle" ~>
        drv[d].pc = "idle" \/ \E r \in Runs : drv[d].run = r /\ exhausted(r)

\* No run stays open and no driver stays at work for ever, whatever crashes and
\* whoever takes the fence (finishTurnLoop, reclaimAndReconcile,
\* runReconcileCrashedRun).
RunsComeToRest == orphanRecovered /\ driveEnds
=============================================================================
