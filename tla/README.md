# TLA+ verification of eino-agent

eino-agent is a durable runtime for conversational agents.  A *session* is a
conversation; a *run* is one admitted execution over it; a run is a sequence of
*turns*, each of which answers user input with model calls and tool calls.  Any
process may start, drive, pause, resume or recover a run: what they share is a
SQL store, and what keeps them apart is a *fence*, the run's claim token.

The modules here are translated from the Go sources under `src/`.
`PROJECT.json` gives, for every definition, the lines it stands for.

## The parts of the system

| Part | State | Operations | Hard behaviour |
|---|---|---|---|
| Session store (`store/internal/sqlstore`, `session`) | rows of runs, turns, inbox, checkpoints, tool calls, messages, events | fenced mutations, each one savepoint under the session and run row locks | stale fences, retried and late requests, settlement racing submission |
| Turn loop (`runtime/turn_loop.go`, `orchestrator.go`, `interrupt.go`, `adk_checkpoint.go`, `lease.go`) | one coordinator per drive, loop registry, buffer of the ADK loop | Start, ResumeRun, Resume, Stop, Enqueue, the loop callbacks and the exit protocol | crashes between writes, reads that are stale when used, duplicate delivery, reverted claims |
| Admission (`runtime/admission*.go`) | admission records, fingerprints | keyed, idempotent start of a run | unknown commit outcome, replay of a key |
| Turn execution (`runtime/adk_execution.go`, `adk_model.go`, `tool_*.go`, `ledger.go`) | tool calls, model request ledger, provider state | prepare, claim, run, settle | a crash with a tool running, retries of a model call |
| Approval (`runtime/adk_approval.go`) | decision records | pause, decide, resume | two decisions for one question |
| Watch service (`watch`) | subscriptions, pending updates, live text | Watch, Next, Resnapshot, poll, live taps | reads outside the lock, bounded queues, late live text |
| Event tail and queue (`stream`, `runtime/event_queue.go`) | bounded buffers | Subscribe, Emit, Close | slow readers |
| AG-UI bridge and HTTP transport (`agui`, `transport`) | cursor, replayed identities | Replay, Reconnect, handlers | replay overlapping the live tail |
| Extension and composition registries (`extension`, `composition`, `runtime/extension_plan.go`) | mounts, leases, plans, notification queues | mount, snapshot, retain, release, close, resume | close while leased, a resume over other mounts |
| Content and models (`session/content.go`, `model`, `runtime/provider_state.go`) | stored parts, provider-private state, stream slots | validate, convert, capture, restore, assemble | a conversion that refuses what another one stored |
| History and middleware (`session/history`, `session/compaction`, `runtime/adk_middleware*.go`) | context epochs, boundaries, the turn's baseline | reload, summarize, patch, clear, seal | a compaction in the middle of a turn, a resume after it |
| Tools, configuration, WASM host | values and I/O | adapters | little shared state |

`PROJECT.json` lists every part under `components`, with what is modelled of it
and why the rest is not, and under `hazards` the places where a test would
hardly reach, each with the properties that would notice.

## The modules

### SessionStore

The store with arbitrary callers.  A mutation holds the row locks of its session
and its run in one savepoint (`locking.go`, `transaction.go`), so it is one
action, and a mutation that returns an error rolls back and is an action that is
not enabled.  Every fenced action takes the token its caller holds, current or
superseded: `loadRunFence` decides.  The state is one function per column:

* `runStatus`, `claimToken`, `lease`, `minted`: the runs table and the tokens
  that the id generator has handed out (it never repeats one);
* `turnState`, `turnRun`, `turnOrdinal`, `finishedAt`: the turns table;
* `inboxState`, `inboxTurn`: the inbox; `acked` is a history variable that
  records against which runs a submission was accepted;
* `callState`, `callRun`, `callClaim`: the tool calls;
* `ckptState`, `ckptBlob`: the checkpoints of each run by revision.

Time enters twice.  Whether a lease ran out on the database clock is the column
`lease`, moved by `LeaseExpires` at any moment.  The time a caller stamps on an
event is an argument, because `ApplyInterruptTurn` compares it with an earlier
one.  Replays that return what is already there (a repeated settlement, a
repeated completion) change nothing and are stuttering steps.

### TurnLoop

Extends SessionStore with *drivers*: a driver is one goroutine that drives,
resumes, reconciles or abandons a run, with the memory `drv[d]` that the code
keeps in `turnLoopCoordinator` and `adkCheckpointStore`.  Every step of a driver
is one store mutation, or the unfenced reads between two of them; between any
two, another driver may act, the process may crash (`Crash`), the lease may run
out (`Expire`), a submission may commit (`Enqueue`) and be pushed to a loop
later or never (`EnqueuePush`).  The actions follow the code's phases:

* `Start`, `StartPush`, `BeginFresh`: admission, sentinel and queue pushed to the
  loop, `StartRun`;
* `ResumeRead`, `ResumeClaim`, `ResumeStart`, `ResumeStartFails`: `ResumeRun`
  validates a pause, claims it, starts it or reverts the claim;
* `LoadCheckpoint`, `GenInputFirst`, `GenInputReconciled`, `GenInputAdmit`,
  `GenInputDuplicate`, `CompletesTurn`: the callbacks of the ADK loop;
* `InterruptStage`, `PromotePaused`, `PromoteRefused`, `StopBetween`, `IdleStop`,
  `QueuedAmong`, `SettleClean`, `CarrierAdmit`, `CarrierStage`, `StageRefused`,
  `RetireCompleted`, `FailDrive`: the exit protocol `finishTurnLoop`;
* `ReclaimRead` ... `ReconcileRepause`: crash reconciliation;
* `AbandonRead` ... `AbandonSettle`: Stop with Abandon.

The ADK loop itself is a library.  Its buffer, the checkpoint it saves when it
stops with work left and the one it deletes when it stops idle are modelled from
how the callbacks and the checkpoint adapter use them.

### WatchService

The service that keeps observers of a session up to date.  Each critical section
under the service's lock is one action, and each read of the store is an action
of its own, so a poll, a `Watch`, a `Resnapshot` and a `Close` interleave at the
places where the code releases its lock.  The store is `storeID` and `rows`: a
commit changes what a session shows, the database may be replaced by another
one, and a read may fail.
`group[g]` is the poller of a session with its watermark, `sub[u]` a
subscription with its bounded queue and wake token, `view[u]` what the observer
(the AG-UI watch bridge) made of the updates it took.  The live taps
(`BeginAttempt`, `AppendText`, `FinishAttempt`, `ReleaseRun`) change the retained
text `live` and its byte account.

### EventDelivery

How events reach an AG-UI client.  `todo` is a script of what a turn commits and
publishes, in the order of `runtime`: each transaction, and each copy handed to
the run's `queue`.  A worker hands copies to `tail`, the bounded buffer of the
connection; when the buffer is full its oldest event makes room for a marker.
`conn` runs through `Reconnect`: subscribe, hydrate pauses, snapshot, pages of
`ListEvents`, live loop; `bridge` counts the native frames that were written;
`client` is the cursor that `OnComplete` reported and what was ever shown.  The
protocol emitter is a library and is modelled by which frames it is asked for
and by its refusal of a resume without a pause.  The log is kept in the order of
`ListEvents`, which is creation time; there is one run, hence one queue; `start`
stands for `TOOL_CALL_START` and `TOOL_CALL_ARGS`.

### SessionContract and SessionRefinement

SessionContract says what a session promises to those who submit to it, without
claims, leases, turns, checkpoints or retries: one run at a time; a submission
is taken once, by the open run, and answered only by the run that took it; a run
completes only with an empty queue.  SessionRefinement reads that state off the
store's rows (`runView`, `itemView`, `holderView`); `KeepsContract` is the
contract's specification under this mapping.

### KeyedAdmission

Several calls of `Start` with and without an admission key, of one process or of
many: the committed lookup, preparation, the session lock, the second lookup and
the rows (`admitDurable`), the commit, and the lookup after a failure
(`resolveFailedAdmission`).  `Commit` may be acknowledged, succeed with a failing
`Close`, be rolled back, or stay in doubt with the lock held until the database
settles it.  A request is reduced to what the fingerprint covers (key, message)
and what it leaves out (trace), plus the session metadata and its size.

### ToolBatch

The tool calls of one assistant message.  The tools node runs each call on a
goroutine; `registerToolBatch`, `awaitToolTurn` and `settleToolTurn` restore the
declared order; each goroutine claims its row, runs the executor and settles.  A
*generation* is a claim of the run: the engine that made the message, engines
that resume it, reconciliation, abandon, and the legacy tool-only resume.  A
process may crash, or lose its claim and go on without knowing; store calls may
fail; a gated call pauses the run and is invoked again with its decision.

### ModelDispatch

The physical model calls of a turn: adapter, retry and failover predicates, one
ledger row per call, the answer committed into its message, usage, the approval
pause with its durable decision, and engines that resume it.  Any durable write
may fail, the process may crash, and the acknowledgement of a decision may be
lost.  The agent library is modelled by when it calls an adapter again.

### ExtensionRegistry and RunPlans

ExtensionRegistry has mounts, the plans that lease them, the notification queue
and worker of each plan, `Flush`, and concurrent `Close` calls with cleanups that
may fail.  RunPlans is what is inside a plan: the registrar's checks, selection by
scope and configuration, aliases, restrictions, search and handler tools, the
sealed descriptor, and the resume that compiles the plan again and compares.
Lists are sets and a hash is the value hashed.

### Content, AgenticState, ContentJourney

Content has the durable blocks, what `Validate` accepts, the storage envelope and
both conversions; AgenticState the codec that takes provider-private state out of
a message, its limits, and the boundary that refuses state it would not capture
again.  Both are operators; ContentJourney is the machine that moves an answer
from the stream to the store and back to a provider, and a submission from
`Enqueue` to the turn that admits it.

### ClassicBridge

A classic chat model behind the agentic boundary: translation of the history,
state in the `Extra` map, and assembly of streamed chunks into blocks by slot.
`said` keeps what the provider emitted, so the assembled answer is compared with a
reference definition and the next request with the history.

### Replay

What the model sees of a session.  Each cycle reloads the durable messages under
the turn's context epoch, splices them behind the prepared prefix and runs the
handlers (context, summarization with its boundary and epoch, patching, clearing)
up to the seal.  A scenario fixes which handlers are registered, how many messages
a compaction retains, and how many epochs, resumes and abandons may happen.  The
summarizing call is assumed to see the whole context it stands for.

### Proof modules

`SessionProofs` (SessionStore, SessionRefinement and TurnLoop),
`KeyedAdmissionProofs`, `ToolBatchProofs`, `ModelDispatchProofs`,
`ExtensionRegistryProofs`, `RunPlansProofs`, and `WatchSubscriptionProofs` with
`WatchServiceProofs` (WatchService) hold the theorems and their lemmas.
The `MC` modules give instances.
Where an `MC` module holds several models, a variable chosen in the initial state
says which one a behaviour moves; the others keep one initial state, so the state
space is the sum of theirs.

## What the runs check

| Run | Instance | Question |
|---|---|---|
| `store` | 2 runs of a session, 3 tokens, 2 turns, 1 item, 1 call with 2 claimers, 2 revisions, 2 stamps | do arbitrary callers keep the session exclusive, numbered and settled, its input safe, its tool calls single, and is the contract kept? |
| `turn_loop` | 4 tokens, 2 stamps; 2 drivers, 4 turns, 1 item, stops, abandons, crashes, failures, failed starts, claims as read; or 1 driver, 4 turns, 2 items, crashes, failures, failed starts; or 3 calls of `Start` | can every pause be resumed, does one driver act, is everything answered; is one run admitted per key? |
| `turn_loop_live` | 2 drivers, 4 tokens, 3 turns, 1 item, crashes, abandons, failures, failed starts, fairness | does one driver act at a time, is an orphaned run recovered and does every drive end? |
| `execution` | 3 calls, the first a tool search and the second gated, 2 generations, 1 fault, fairness; or 2 attempts, 1 failover, 2 nodes, 2 resumes, 1 fault, fairness | do tools run once, in order, and settle truthfully; does the ledger tell what was sent? |
| `extensions` | 2 mounts of one instance, 1 plan, 2 closers, 2 cleanups of which 1 call may fail, 2 notifications, queue of 1, fairness; or 9 components of which 3 are mounted, 3 configurations | is nothing called after cleanup; is a resumed run the one that was admitted? |
| `conversation` | every block kind around the size limits; or 2 chunks, 4 messages; or 7 scenarios, 2 calls per answer, 9 messages | does a model get back what was said, in a form it accepts? |
| `watch_durable` | 1 observer, resnapshots, failing reads, a replaced store, fairness | does what an observer sees stay consistent, catch up, and end with a notice? |
| `watch_live` | 1 observer, 2 messages with attempts | does the shown live text converge to what is retained, and is the account exact? |
| `delivery` | a tool turn or a pause, buffers of 2, pages of 2, 2 connections; or 2 observers that come and go | does a client get each frame once and skip nothing; has every subscription a poller? |

The bounds are chosen so that the interesting cases happen.  Three tokens are an
owner, the claimer that displaces it and a third that displaces both.  Two items
are one in a turn and one that arrives meanwhile.  Three or four turns are the
first turn, a turn over a submission, a carrier and a redrive.  In `store` the
turns and the calls are bounded separately: behaviours with tool calls have one
turn and two tokens, those without have one checkpoint row.  Three calls of
`Start` are a request, its retry under another trace, and a third that repeats
it, has no key, another message or other metadata, or is too large.  Two
generations are the engine that made the message and the one that resumes, sweeps
or abandons it; three calls are the least in which a pause stands between two
others.  Nine messages hold two turns with tool calls, a boundary each, and a
resume.  Buffers and pages of two overflow and continue within the scripts of
`delivery`, which commit up to seven events, and two connections are one that
leaves a cursor and one that uses it.  Two stamps are enough for a clock that
moved.  Instances with no fresh identifier left stop where the code would go on,
so deadlock is not checked, and the liveness properties exempt a run that is
`exhausted`.

Three runs expect a violation; each states what a comment or a document of the
repository says and shows an execution in which the code does something else
(`findings` in `PROJECT.json`):

* `pause_again`: pausing a turn a second time after it was resumed from its runner
  checkpoint is refused by the store when the clock has moved;
* `tool_start_twice`: a connection whose snapshot precedes an assistant turn writes
  the start of its tool calls from the pending event and again from the message;
* `batch_order`: a tool call that pauses releases its successor without having
  waited for its own turn, so of three calls the third runs beside the first.

### Where the passing runs are restricted

The instances leave out situations in which the code is known to behave
otherwise.  Each was met while modelling; the module still models the code, and
lifting the restriction shows the behaviour.

*Turn loop.*  In `turn_loop` the two drivers claim what they read (`ClaimsAsRead`):
`ResumeRun` reads a paused run, its turn and its checkpoint, and claims it
afterwards, and `ClaimRun` asks only for a writable run.  A resume that validated
one pause and claims a later one, or claims a run that runs again and then reverts
its claim, leaves a pause that cannot be resumed or drives a turn that is no longer
current; without the condition TLC finds the first on this instance and the second
with a fifth token.  Nothing is restricted in `turn_loop_live`, where
`OneFencedDriver` and `RunsComeToRest` are checked.  `ItemsAnswered` is claimed of
the single driver only, without stops: a Stop that lands before the first or the
reconciled turn is driven completes the run without an answer, and a push that is
delayed past the drain of its item reappears in the batch of a later turn.

*Delivery.*  Of resumes, `NothingSkipped` speaks of replayed ones: the event of a
pause is committed and never published, so a connection that is live across a
pause and its resume is handed the resume alone and fails; it recovers by
reconnecting.  It also exempts an overflow: `Tail.Emit` drops the
oldest event of a full buffer (`stream/tail.go:83`), the ones behind it move the
cursor past it, and the client that resyncs from the reported cursor is not shown
it.

*Admission.*  A definite failure speaks of its own call.  An earlier call that is
in doubt may still commit after a retry failed definitely.  A call that is told of
an existing run after a lost acknowledgement does not drive it: the run is
recovered through its lease and `Resume`.

*Model dispatch* (`LostAcks = {"decide"}`).  When the acknowledgement of the commit
of an assistant turn is lost, the error is not `errCommittedDispatchFailed`, and a
retry makes a second physical call (`adk_retry.go:136-144`).

*Run plans.*  A component that registers nothing but a tool search is left out of
the sealed components (`plan_selection.go:154`) while its search is sealed, so a
run admitted with it is never resumed even if nothing changed.  The catalog has
such a component, and `OthersDoNotBlockResume` exempts it.

*Content* (`HistoryLimits = HostLimits`, submissions of sizes 1, 2 and 9).
`ResumeRun` passes the history options as configured (`turn_loop.go:1957`), while
`Start` first overrides their content limits, so content stored under raised
limits is not readable by a resumed run.  A submission that fits its limit without
the storage envelope, and not with it, is accepted into the inbox and can never be
admitted.  An SDK blob without rendered text is not given back.

*Replay* (the seven scenarios, `ResultKinds = {"result"}`).

* In the third model call of a turn, `buildDurableBaseline` (`adk_model.go:611`)
  appends the state of the turn's earlier messages to a list that already has it,
  and the boundary refuses the request; scenarios with state have one round.
* After a failover the state is captured for the primary model and stored beside
  the identity of the other one, which the next load refuses.
* `moveTailStartToGroupBoundary` looks at ordinary results only, so a retained tail
  may begin with the result of a tool search whose call was summarized.
* With `RetainTailCount` 0, a summarization in the first cycle of a turn hides the
  turn's own call and answer from later reloads.
* Context that an extension added makes a summarization fail, and after a resume
  in the middle of the tools sits between a call and its result; scenarios with
  context have neither.
* `prepareDispatchInput` drops state when the input became shorter, so a handler
  that inserts messages leaves it on the wrong ones; scenarios with state have no
  inserting handler.
* A patch registered before the summarization of a turn with an abandoned call can
  leave a result without its call, and with three retained messages and two epochs,
  or a resume between two summarizations, an old boundary reappears between a call
  and its result.

### Fairness

`TLFairSpec` assumes weak fairness of each driver's own steps (goroutines are
scheduled and calls to the store return), of lease expiry (the database clock
moves on), and of a host that calls `Resume` for what `ListUnfinishedRuns`
returns, which is how the repository's documentation asks hosts to recover.  It
assumes nothing about resuming a paused run, about submissions, heartbeats,
stops or crashes.  ToolBatch assumes the same of its goroutines and of the sweep.

The watch service's `FairSpec` assumes weak fairness of each poller's round, of
each call that is in progress and of an observer's calls of `Next`: these are
goroutines that are scheduled and reads that return.  Nothing is assumed about
new subscriptions, resnapshots, commits or live text.

The `execution` run assumes of ModelDispatch that a model node goes on (`Step`);
`CloseEnds` that plans
which hold a lease are served and released and that `Close` goes on; `CallsReturn`
that some call of `Start` takes a step or the database settles a transaction in
doubt.  None assumes that a retry, a failure or a crash happens.

## What is proved

All theorems hold for every value of the constants that satisfies the named
assumptions: the identity maps are functions, `None` is no identity, and for
TurnLoop that the sentinels are no items, that checkpoint bytes are envelopes,
that a clock reading differs from an earlier one, and that the ordinals and the
revisions in use have a largest.

* **SessionProofs, the store.**  `IInv` is the inductive invariant: the types,
  `OneOpenRun`, `TerminalRunIsSettled`, the three parts of `SubmissionsSound` (an
  item follows its turn, ordinals are contiguous, accepted input is not
  stranded), that a row that exists is owned (`RowOwned`), and that an
  acknowledged item has a row (`AckedHasRow`).  The last two are needed because
  settlement speaks about the turns *of a run* and the race property about items
  *accepted against a run*.  From `IInv` follow `TypeCorrect`, `SessionExclusive`,
  `SettlementComplete`, `SubmissionsAlwaysSound`, and the action properties
  `ItemsConsumedOnce` and `TerminalRunsFrozen`.  `ToolCallsRunOnce` (the action
  property `ToolRunsOnce`) needs only the types and that a pending call has never
  been claimed (`PendingUnclaimed`).  The three together are
  `RecordsAlwaysStand`.
  The last part proves `StoreKeepsContract`: the store implements
  SessionContract (through SessionRefinement).  The invariant is `IInv` with `HeldByRow` (the turn that
  consumed an item has a row, and so a run).  `VisibleOrQuiet` splits the store's
  actions into those the contract speaks of, each shown to be one of its steps, and
  those that leave the mapped state alone.
* **SessionProofs, the drivers.**  `TLInv` adds that the drivers' memory is well formed and
  refers to minted tokens (`DriverInv`), that every admitted run has a token, and
  that two drivers never hold the same token (`TokensApart`).
  `TurnLoopImplementsStore` shows that every step of the driven system is a step
  or a stutter of the store, so the store's theorems carry over
  (`DrivenInputSafe` is one of them); `DriverTypeCorrect` and `FenceExclusive` are
  proved from the same invariant.
* **SessionProofs, the drives**, for any number of drivers, runs and crashes, under
  the one condition that the claims of `ResumeRun` find the run as it was read
  (`[][ClaimsAsRead]_vars`).  `DriveInv` says what the rows of a run must be for a
  drive to go on.  `View` is what a drive depends on: the run's status and token,
  its current turn and its checkpoints.  `RunFine` is about the rows alone: a paused
  run has a promoted checkpoint for its current, interrupted turn, and no promoted
  checkpoint keeps the sentinel of a reconciled turn.  `Fits` is about a driver that
  holds the fence: at each place of the protocol (`Starting`, `Resuming`, `Looping`,
  `Staged`) its memory agrees with the view, in particular what it staged lies above
  what is promoted.  It must be inductive over crashes between any two writes, so it
  speaks of every place.  The proof first shows what each transaction does to the
  view of one run; `DriverMoves` shows that each step of a driver leaves its own
  memory fitting and touches one run; and `OthersFit` that whoever else works on
  that run either sees the same view or has lost the fence, because the step was
  made with the token or has just replaced it.  `PausedRunsResume` (`ResumeAccepts`)
  and `DrivesCurrentTurn` (`DrivenTurnIsCurrent`) follow.  `SerialCallsClaimAsRead`
  shows that a host that never has two calls at work on one run meets the condition
  (`ReadInv`: between the read and the claim nothing of the view changes).
* **KeyedAdmissionProofs.**  `AdmissionInv`: the types, a receipt belongs to a run
  that exists and every run has one, what an open transaction staged still agrees
  with the receipts, a settled caller was told the truth, and one in doubt was told
  so.  The argument is that a transaction that may still commit, also one whose
  caller has given up, holds the lock and is the only one, so what it read of the
  receipt is still true when it commits (`AppliedKeeps`).  From it follow
  `KeyAdmitsOnce`, `FailuresDefinite` and `RetriesAgreeAlways`, and from the last
  two `AnswersAlwaysTrue`.  The hypothesis is `AdmissionIdentities` (`None` is no
  call, receipt or answer), which the `turn_loop` run evaluates.
* **ToolBatchProofs**, for any number of calls, generations and faults
  (`BatchBounds`, which the `execution` run evaluates).  `BatchInv` has two halves.
  One is about rows: a call that is pending never ran (`UnclaimedNeverRan`,
  `UnclaimedIsPending`), a claimed row has one goroutine at most behind it
  (`ClaimedAlone`, `GenerationsApart`), and a body that ran was counted
  (`RanIsCounted`).  The claim is a transaction that checks the fence and that the
  row is pending, so a generation that lost its claim cannot start a body, which
  gives `ToolBodyRunsOnce` and `SettledRowsTrue`.  The other half, `OrderKept`, is
  about the chain of done channels: where a goroutine of the first generation stands
  says what the calls declared before it have reached, back to the last one that
  paused.  It gives the action property `BatchInDeclaredOrder`; that the chain is
  cut at a pause is the finding of `batch_order`, and `DeclaredOrder` says what is
  left.
* **ModelDispatchProofs**, for any number of attempts, failovers, nodes, resumes and
  faults.  `DispatchInv` is `Types`, `Rows` (a ledger row against the physical call it
  stands for), `Messages` (a message is answered once, and an adapter that may call
  again has none answered), `Attempted` (failed attempts against their
  replacements), `Announced` (a resume against the dispatch that announces it) and
  `Decided` (approvals against their responses, and that nothing was heard of a node
  that is about to call).  `LedgerAlwaysTruthful`, `CallsPrecedeOutput` and
  `ApprovalsDecidedOnce` follow.  The hypothesis `AcksArrive` excludes a lost
  acknowledgement of the commit of an assistant turn.  It is needed: with it the
  adapter calls a second time for a message that is already answered, as described
  above, and `LedgerTruthful` is violated.  A lost acknowledgement of a decision is
  covered.
* **ExtensionRegistryProofs**, for any mounts, plans, closers, queue size and number
  of notifications and cleanups (`RegistryOptions` and `NilAssumption`, which the
  `extensions` run evaluates).  `RegistryInv` counts: the leases of a mount
  (`leasesOf`) are the plans that still have it and the notifications for it that
  wait or run, the set is finite, and `refs` is its cardinality (`Leased`).  Each
  step of `Snapshot`, `enqueueNotification`, the worker and `Release` is shown to
  add or remove exactly one element, or none; that needs the ids of waiting and
  running notifications to be distinct and never reused (`Distinct`) and a plan
  to run hooks only of mounts it holds (`Planned`).  `Mounted` and `Cleaned` tie
  draining and cleanup to a count of zero, and `Ordered` says that what was accepted
  before `Flush` is delivered or ahead of its marker.  From it follow
  `RegistryTypeCorrect`, `LeasesExact`, `ListedExactlyWhileActive`,
  `CleanupsOnceAndLast` and `FlushesAreBarriers`.
* **RunPlansProofs**, for any finite catalog, sessions and configurations
  (`PlanData`: registrations are records with the fields the model reads and `None`
  is neither a name nor a plan; the `extensions` run evaluates it).  `PlansInv` says
  that mounted components were accepted by the registrar and have different ids and
  tool names where they apply together (`Host`, `Apart`); that what the durable run
  remembers is one accepted admission (`RunFine`); that a resume looks at exactly
  the recorded components, if all of them are still mounted (`ResumeFine`); and that
  the leases are those of the acquisition or of the plan (`CallFine`, `PlanFine`).
  The argument for `ResumesAsAdmitted` and `OthersNeverBlockResume` is that a plan is
  a function of the part each component contributes (`partOf`), and that the
  descriptor determines the part of every component that behaves; comparing
  descriptors therefore compares plans.  `NamesAlwaysResolve` follows from what the
  compilation checks and from `Apart`.
* **WatchSubscriptionProofs and WatchServiceProofs**, for any number of sessions, pollers,
  subscriptions, attempts and store incarnations, any finite sets of runs and
  messages, any limits and any set of observers that resnapshot
  (`WatchIdentities`, `WatchOptions` and `WatchData`, which the watch runs
  evaluate).  `WatchInv` has six parts: `Types`; `PollersSound` (what a poller read
  is about its session); `Served`; `LiveSound` (retained text is that of an attempt
  begun for a message of the run, at a version the service has reached);
  `LiveAccounted`; and `SubsFine`, which does the work.  It says where each
  subscription stands between the steps of `Watch`, `Next` and `Resnapshot`, and
  that its queue *fits* the observer's view (`Fits`): the view has the
  subscription's snapshot, or an older one of the same store with the newer one
  alone at the head of the queue (`durableFits`); queued overlays are about
  different things that are open in that snapshot (`distinct`, `aimed`) and tell
  what is retained now (`fresh`); what is shown is dated no later than now
  (`shownFits`); and every open message has an overlay queued or already shown
  (`told`).  WatchSubscriptionProofs takes one subscription and shows that seeding, a
  poll, a resnapshot, an update applied and a step of the live text keep a queue that
  fits, or end the subscription because the queue was full, and carries this through
  the calls of a subscription; WatchServiceProofs does the same for `Watch`, the poller, the
  live taps and `Close` (`NextInv`).  From the invariant follow
  `WatchTypeCorrect`, `LiveBytesAccounted`, `SubscribersServed`, `ViewsConverge` and
  the action property `ViewsNeverGoBack`.

  Two of these are about folds: `LiveAccounted` sums over the runs, and
  `ViewConverges` applies a queue of any length.  The library's induction theorems
  cannot be instantiated, but a fold is a function over the subsets of a finite set,
  so what it returns is proved from a least counterexample (`LeastNatural`,
  `FoldExists`, `FoldOfUpdates`, `FoldOfEnqueues`, `TotalsDiffer`, `QueueShows`).

Only model-checked:

* the liveness properties `RunsComeToRest`, `CallsReturn`, `ExecutionRests`,
  `CloseEnds` and `ObserversLearn`: fairness and ENABLED are out of the prover's
  reach;
* `ItemsAnswered`, which is claimed of a single driver that nobody stops;
* the properties of Content, AgenticState, ContentJourney, ClassicBridge and Replay,
  which compare what recursive operators compute over sequences of any length with a
  reference definition: that needs an induction for each operator, and the prover
  cannot instantiate the library's induction theorems;
* `FramesOnce` and `NothingSkipped` of EventDelivery, which relate a script, a log,
  two bounded buffers and the pages of a reconnect, and have no inductive
  strengthening yet.

## What is not modelled

* In TurnLoop, tool calls (a turn is one step; ToolBatch and ModelDispatch look
  inside), usage accounting, extension notifications, and failures of the database
  itself other than the refusals the store decides on.  A `Set` that fails after
  eight probed revisions needs nine abandoned stagings and is outside the bounds.
* In KeyedAdmission, the difference between keyed and unkeyed canonical workspaces
  and the savepoints inside the transaction.
* In ToolBatch, a second message of the same turn, and what tools are given and
  return; in ModelDispatch, the chunks of a stream and observability.
* In EventDelivery, the overtaking of two runs' queues, events of another process,
  reasoning, activities, replaced attempts and the encoding of frames.
* In WatchService, the rendering of updates and write deadlines.
* Text: wording of prompts and summaries, JSON and hashes are abstract values.
* Read-only discovery queries, migrations, configuration, observability, tools,
  the WASM host, the scripted provider, the conformance suite and the examples: I/O,
  generated code, lookup tables or tests, listed as `not_modelled` in
  `PROJECT.json` with their reasons.
