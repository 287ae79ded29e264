--------------------------- MODULE ModelDispatch ---------------------------
(***************************************************************************)
(* One turn's physical model calls: runtime/adk_model.go (begin, dispatch, *)
(* commit, finish), the retry and failover predicates of adk_retry.go, the *)
(* request ledger of ledger.go, and the approval pause of adk_approval.go. *)
(*                                                                         *)
(* A model node of the turn's agent loop calls one adapter (adkModel).     *)
(* The agent library wraps that call: it calls the same adapter again when *)
(* defaultShouldRetry allows it, and a fresh adapter for the next          *)
(* configured model when defaultShouldFailover does.  Every physical call  *)
(* has its own ledger row.  Any durable write may fail, and the process    *)
(* may crash, Faults times in all; a crashed turn is driven again, from a  *)
(* new engine, only if it had paused before (reconcileCrashedRun).         *)
(*                                                                         *)
(* Message 1 is the assistant placeholder the turn was admitted with.      *)
(***************************************************************************)
EXTENDS Integers, Sequences, FiniteSets

CONSTANTS
    Attempts,      \* physical attempts per adapter (WithAttempts)
    Failovers,     \* alternate models (FailoverPolicy.Models)
    Nodes,         \* bound: model nodes driven by one engine
    Resumes,       \* bound: resumes of the paused run
    Faults,        \* bound: failed durable writes and crashes
    LostAcks       \* the transactions whose acknowledgement may be lost, once

DispatchBounds ==
    /\ Attempts \in Nat \ {0} /\ Failovers \in Nat
    /\ Nodes \in Nat \ {0} /\ Resumes \in Nat /\ Faults \in Nat
    /\ LostAcks \subseteq {"commit", "decide"}

VARIABLES
    ledger,      \* the request rows of the node being driven, in order: no
                 \* row is touched again once its node is over
    commits,     \* per assistant message this engine may write to, the
                 \* answers persisted into it; message 1 is the placeholder
    adapter,     \* per adapter, the message it writes to and needMessage
    engine,      \* the engine's shared state
    call,        \* which adapter of which node runs, and how far it got
    approvals,   \* the durable decision records and their response messages
    checkpoint,  \* the approval the promoted checkpoint waits for, 0 if none
    resume,      \* the host's latest resume and whether its node still runs
    replaced,    \* attempt_replaced events: <<old row, new row>>
    resumed,     \* run_resumed events of this resume: <<node, row>>
    writeFaults, lost

dispatchVars == <<ledger, commits, adapter, engine, call, approvals, checkpoint, resume,
          replaced, resumed, writeFaults, lost>>

durable == <<ledger, commits, approvals, checkpoint, replaced, resumed>>

nextNodesRows == ledger' = <<>> /\ replaced' = {}

Decisions == {"approve", "deny"}
RowStates == {"prepared", "dispatch_started", "completed", "failed"}
Answers   == {"text", "calls", "approval", "unsupported"}
Resting   == {"paused", "completed", "failed", "interrupted"}
Adapters  == 0 .. Failovers
Row       == Len(ledger)
Mine      == adapter[call.who]

fresh    == [msg |-> 0, need |-> FALSE]
firstNode(who) == [at |-> "node", who |-> who, try |-> 1, node |-> 1,
                   answer |-> "none", heard |-> FALSE]

DispatchInit ==
    /\ ledger = <<>> /\ commits = <<0>>
    /\ adapter = [a \in Adapters |-> fresh]
    /\ engine = [used |-> FALSE, failed |-> 0, emitted |-> TRUE]
    /\ call = firstNode(0)
    /\ approvals = <<>> /\ checkpoint = 0
    /\ resume = [n |-> 0, decision |-> "none", active |-> FALSE]
    /\ replaced = {} /\ resumed = {} /\ writeFaults = 0 /\ lost = {}

at(pc)   == call.at = pc
goes(pc) == call' = [call EXCEPT !.at = pc]
fault    == writeFaults < Faults /\ writeFaults' = writeFaults + 1
noFault  == UNCHANGED <<writeFaults, lost>>
row(r)   == ledger' = [ledger EXCEPT ![Row] = r]

-----------------------------------------------------------------------------
(* What the wrappers do with an error.  A "plain" error carries none of    *)
(* the sentinels; "committed" and "partial" ones fail the run, and an      *)
(* "interrupt" pauses it.                                                  *)

retryAnyFailure(err)       == err \in {"plain", "partial"}
defaultShouldRetry(err)    == err = "plain"
defaultShouldFailover(err) == err = "plain"

retries(err)   == defaultShouldRetry(err) /\ call.try < Attempts
failsOver(err) == ~retries(err) /\ defaultShouldFailover(err) /\ call.who < Failovers

again(try, who, err) ==
    call' = [call EXCEPT !.at = "node", !.try = try, !.who = who,
                         !.heard = @ \/ err = "partial"]
retry(err)          == again(call.try + 1, call.who, err)

raises(err) ==
    \/ retries(err) /\ retry(err) /\ UNCHANGED adapter
    \/ /\ failsOver(err)
       /\ again(1, call.who + 1, err)
       /\ adapter' = [adapter EXCEPT ![call.who + 1] = fresh]
    \/ /\ ~retries(err) /\ ~failsOver(err)
       /\ goes(IF err = "interrupt" THEN "pausing" ELSE "failed")
       /\ UNCHANGED adapter

-----------------------------------------------------------------------------
(* Before anything is ledgered, a resumed node settles its approval.  The  *)
(* decision and its response message are one transaction: it commits, it   *)
(* fails, or it commits and its acknowledgement is lost.                   *)

decided(d, responses) ==
    approvals' = [approvals EXCEPT ![checkpoint] =
                     [status |-> "decided", decision |-> d, responses |-> @.responses + responses]]

needsMessage ==
    goes("begin") /\ adapter' = [adapter EXCEPT ![call.who].need = TRUE]

decideInTwoWrites(d) ==
    \/ decided(d, 1) /\ needsMessage /\ noFault
    \/ fault /\ decided(d, 0) /\ raises("plain") /\ UNCHANGED lost

commitDecision(d) ==
    \/ decided(d, 1) /\ needsMessage /\ noFault
    \/ fault /\ raises("plain") /\ UNCHANGED <<approvals, lost>>
    \/ /\ "decide" \in LostAcks \ lost /\ lost' = lost \cup {"decide"}
       /\ decided(d, 1) /\ raises("plain") /\ UNCHANGED writeFaults

prepareTargeted ==
    LET record == approvals[checkpoint] IN
    \/ record.status = "pending" /\ commitDecision(resume.decision)
    \/ /\ record.status = "decided" /\ record.decision = resume.decision
       /\ needsMessage /\ noFault /\ UNCHANGED approvals
    \/ /\ record.status = "decided" /\ record.decision /= resume.decision
       /\ raises("plain") /\ noFault /\ UNCHANGED approvals

Prepare ==
    /\ at("node")
    /\ UNCHANGED <<ledger, commits, engine, checkpoint, resume, replaced, resumed>>
    /\ \/ ~resume.active /\ goes("begin") /\ noFault /\ UNCHANGED <<adapter, approvals>>
       \/ /\ resume.active /\ resume.decision = "none"
          /\ raises("interrupt") /\ noFault /\ UNCHANGED approvals
       \/ resume.active /\ resume.decision \in Decisions /\ prepareTargeted

-----------------------------------------------------------------------------
(* begin: a message claimed or minted, and the row created.                *)

currentMessageID(m) ==
    \/ /\ Mine = fresh /\ ~engine.used
       /\ m = 1 /\ UNCHANGED commits
       /\ engine' = [engine EXCEPT !.used = TRUE]
    \/ /\ Mine.msg /= 0 /\ ~Mine.need
       /\ m = Mine.msg /\ UNCHANGED <<commits, engine>>
    \/ /\ Mine.need \/ (Mine.msg = 0 /\ engine.used)
       /\ m = Len(commits) + 1 /\ commits' = Append(commits, 0)
       /\ UNCHANGED engine

ClaimMessage ==
    /\ at("begin")
    /\ UNCHANGED <<ledger, approvals, checkpoint, resume, replaced, resumed, lost>>
    /\ \/ /\ \E m \in 1 .. Len(commits) + 1 :
                /\ currentMessageID(m)
                /\ adapter' = [adapter EXCEPT ![call.who] = [msg |-> m, need |-> FALSE]]
          /\ goes("claimed") /\ UNCHANGED writeFaults
       \/ fault /\ raises("plain") /\ UNCHANGED <<commits, engine>>

(* The prompt is rendered, the request audited and its row written; when   *)
(* one of them fails the adapter keeps the message it claimed.             *)
PrepareModelRequest ==
    /\ at("claimed")
    /\ \/ /\ ledger' = Append(ledger, [state |-> "prepared", msg |-> Mine.msg, calls |-> 0,
                                       charged |-> 0, durable |-> FALSE])
          /\ goes("prepared") /\ UNCHANGED <<adapter, writeFaults>>
       \/ fault /\ raises("plain") /\ UNCHANGED ledger
    /\ UNCHANGED <<commits, engine, approvals, checkpoint, resume, replaced, resumed, lost>>

(* The row is dispatch_started before the provider is called; when that    *)
(* write fails the row is marked failed, if that write succeeds.           *)
rowBecomes(state) == row([ledger[Row] EXCEPT !.state = state])

dispatchUnstarted ==
    \/ rowBecomes("dispatch_started") /\ goes("started") /\ UNCHANGED <<adapter, writeFaults>>
    \/ fault /\ goes("started") /\ UNCHANGED <<ledger, adapter>>

startModelRequest ==
    \/ rowBecomes("dispatch_started") /\ goes("started") /\ UNCHANGED <<adapter, writeFaults>>
    \/ /\ fault /\ raises("plain")
       /\ rowBecomes("failed") \/ UNCHANGED ledger

UpdateModelRequest ==
    /\ at("prepared") /\ startModelRequest
    /\ UNCHANGED <<commits, engine, approvals, checkpoint, resume, replaced, resumed, lost>>

(* Facts written once the row is started: run_resumed, once per resume,    *)
(* and attempt_replaced for the failed attempt this one supersedes.        *)
emit               == resumed' = IF engine.emitted THEN resumed
                                 ELSE resumed \cup {<<call.node, Row>>}
peekFailedAttempt  == engine' = [engine EXCEPT !.emitted = TRUE]
takeFailedAttempt  == engine' = [engine EXCEPT !.emitted = TRUE, !.failed = 0]

RecordFacts ==
    /\ at("started")
    /\ UNCHANGED <<commits, approvals, checkpoint, resume, lost>>
    /\ \/ /\ emit /\ takeFailedAttempt /\ goes("dispatch")
          /\ replaced' = replaced \cup ({engine.failed} \ {0}) \X {Row}
          /\ UNCHANGED <<ledger, adapter, writeFaults>>
       \/ /\ ~engine.emitted /\ fault /\ raises("plain")
          /\ rowBecomes("failed") \/ UNCHANGED ledger
          /\ UNCHANGED <<engine, replaced, resumed>>
       \/ /\ fault /\ raises("plain")             \* an authorized rewrite's event
          /\ emit /\ peekFailedAttempt /\ UNCHANGED <<ledger, replaced>>
       \/ /\ engine.failed /= 0 /\ fault /\ raises("plain")
          /\ emit /\ takeFailedAttempt /\ UNCHANGED <<ledger, replaced>>

-----------------------------------------------------------------------------
(* dispatch: the one physical call, drained before the loop sees any of it *)

Dispatch ==
    /\ at("dispatch") /\ goes("calling")
    /\ row([ledger[Row] EXCEPT !.calls = @ + 1])
    /\ UNCHANGED <<commits, adapter, engine, approvals, checkpoint, resume, replaced,
                   resumed, writeFaults, lost>>

addUsage(r) == [r EXCEPT !.charged = @ + 1]

(* finish: usage is charged whatever happens to the row's terminal write;  *)
(* only if that lands is a failed attempt remembered for its replacement.  *)
finish(state, err, ok) ==
    IF ok THEN /\ row(addUsage([ledger[Row] EXCEPT !.state = state]))
               /\ engine' = [engine EXCEPT !.failed = IF err = "none" THEN @ ELSE Row]
               /\ UNCHANGED writeFaults
          ELSE fault /\ UNCHANGED engine /\ row(addUsage(ledger[Row]))

(* The stream ends with an answer, or with an error before or after some   *)
(* of it was published to observers.                                       *)
ReceiveModelStream ==
    /\ at("calling")
    /\ UNCHANGED <<commits, approvals, checkpoint, resume, replaced, resumed, lost>>
    /\ \/ \E a \in Answers :
             /\ call' = [call EXCEPT !.at = "answered", !.answer = a]
             /\ UNCHANGED <<ledger, adapter, engine, writeFaults>>
       \/ \E err \in {"plain", "partial"}, ok \in BOOLEAN :
             finish("failed", err, ok) /\ raises(err)

-----------------------------------------------------------------------------
(* commit: one transaction for the message, its blocks and its tool calls. *)

commitAssistantTurn ==
    /\ commits' = [commits EXCEPT ![ledger[Row].msg] = @ + 1]
    /\ row([ledger[Row] EXCEPT !.durable = TRUE])

Commit ==
    /\ at("answered")
    /\ UNCHANGED <<engine, approvals, checkpoint, resume, replaced, resumed>>
    /\ \/ /\ call.answer /= "unsupported" /\ commitAssistantTurn
          /\ call' = [call EXCEPT !.at = "committed", !.heard = TRUE]
          /\ adapter' = [adapter EXCEPT ![call.who].need = @ \/ call.answer = "calls"]
          /\ noFault
       \/ /\ call.answer /= "unsupported" /\ commitAssistantTurn
          /\ "commit" \in LostAcks \ lost /\ lost' = lost \cup {"commit"}
          /\ call' = [call EXCEPT !.at = "uncommitted", !.heard = TRUE]
          /\ UNCHANGED <<adapter, writeFaults>>
       \/ /\ (call.answer = "unsupported" /\ UNCHANGED writeFaults) \/ fault
          /\ goes("uncommitted") /\ UNCHANGED <<commits, ledger, adapter, lost>>

(* The provider answered but the commit reported an error: the row is      *)
(* completed all the same, and the error reaches the wrappers as it is.    *)
CommitFails ==
    /\ at("uncommitted")
    /\ \E ok \in BOOLEAN : finish("completed", "plain", ok) /\ raises("plain")
    /\ UNCHANGED <<commits, approvals, checkpoint, resume, replaced, resumed, lost>>

(* After the commit every error is wrapped in errCommittedDispatchFailed.  *)
committedFailed == raises("committed")

continuation ==
    CASE call.answer = "approval"                       -> "asking"
      [] call.answer = "calls" /\ call.node < Nodes -> "tools"
      [] OTHER                                          -> "completed"

Finish ==
    /\ at("committed")
    /\ UNCHANGED <<commits, approvals, checkpoint, resume, replaced, resumed, lost>>
    /\ \/ finish("completed", "none", TRUE) /\ goes(continuation) /\ UNCHANGED adapter
       \/ finish("completed", "none", FALSE) /\ committedFailed

(* pause: the decision record is appended and the durable interrupt raised *)
Pause ==
    /\ at("asking")
    /\ \/ /\ approvals' = Append(approvals, [status |-> "pending", decision |-> "none",
                                             responses |-> 0])
          /\ raises("interrupt") /\ UNCHANGED writeFaults
       \/ fault /\ committedFailed /\ UNCHANGED approvals
    /\ UNCHANGED <<ledger, commits, engine, checkpoint, resume, replaced, resumed, lost>>

(* The turn loop promotes the checkpoint that holds the interrupt.         *)
PromotePause ==
    /\ at("pausing") /\ goes("paused")
    /\ checkpoint' = IF resume.active /\ resume.decision = "none" THEN checkpoint
                     ELSE Len(approvals)
    /\ UNCHANGED <<ledger, commits, adapter, engine, approvals, resume, replaced, resumed,
                   writeFaults, lost>>

-----------------------------------------------------------------------------
(* The tools of a committed answer have settled and the loop calls the     *)
(* model again, through the primary adapter or the one that last answered. *)
NextNode ==
    /\ at("tools")
    /\ \E who \in {0, call.who} :
          call' = [firstNode(who) EXCEPT !.node = call.node + 1]
    /\ resume' = [resume EXCEPT !.active = FALSE]
    /\ nextNodesRows
    /\ UNCHANGED <<commits, approvals, checkpoint, resumed, adapter, engine, writeFaults, lost>>

(* The host resumes the paused run, with a decision for its approval or    *)
(* without one; the engine is new, and placeholderUsed comes from whether  *)
(* the placeholder already carries parts.                                  *)
messageHasParts == commits[1] > 0

resumeEngine(d) ==
    /\ call' = firstNode(0)
    /\ adapter' = [a \in Adapters |-> fresh]
    /\ engine' = [used |-> messageHasParts, failed |-> 0, emitted |-> FALSE]
    /\ commits' = SubSeq(commits, 1, 1) /\ resumed' = {} /\ nextNodesRows
    /\ resume' = [n |-> resume.n + 1, decision |-> d, active |-> TRUE]

ResumePaused ==
    /\ at("paused") /\ resume.n < Resumes
    /\ \E d \in Decisions \cup {"none"} : resumeEngine(d)
    /\ UNCHANGED <<approvals, checkpoint, writeFaults, lost>>

EngineCrash ==
    /\ call.at \notin Resting /\ fault
    /\ goes(IF checkpoint = 0 THEN "interrupted" ELSE "paused")
    /\ UNCHANGED <<durable, adapter, engine, resume, lost>>

Rest ==
    /\ call.at \in Resting /\ (at("paused") => resume.n = Resumes)
    /\ UNCHANGED dispatchVars

Step ==
    \/ Prepare \/ ClaimMessage \/ PrepareModelRequest \/ UpdateModelRequest \/ RecordFacts
    \/ Dispatch \/ ReceiveModelStream \/ Commit \/ CommitFails \/ Finish
    \/ Pause \/ PromotePause \/ NextNode

DispatchNext == Step \/ ResumePaused \/ EngineCrash \/ Rest

DispatchSpec == DispatchInit /\ [][DispatchNext]_dispatchVars
-----------------------------------------------------------------------------
(* Properties                                                              *)

(* The shape of the rows, messages, adapters and records.                  *)
DispatchTypeOK ==
    /\ \A i \in 1 .. Row :
          /\ ledger[i].state \in RowStates /\ ledger[i].msg \in 1 .. Len(commits)
          /\ ledger[i].calls \in 0 .. 1 /\ ledger[i].durable \in BOOLEAN
    /\ \A a \in Adapters : adapter[a].msg \in 0 .. Len(commits)
    /\ checkpoint \in 0 .. Len(approvals)
    /\ call.try \in 1 .. Attempts /\ call.who \in Adapters /\ call.node \in 1 .. Nodes

(* The ledger never understates what was sent: a row whose physical call   *)
(* was made has left prepared, a completed row's call was made, and an     *)
(* answer that is durable has a row whose call was made (begin writes      *)
(* dispatch_started before dispatch, and finish only closes it after).     *)
rowsTruthful ==
    \A i \in 1 .. Row :
       /\ ledger[i].calls = 1 => ledger[i].state /= "prepared"
       /\ ledger[i].state = "completed" \/ ledger[i].durable => ledger[i].calls = 1

(* No assistant message ever receives two answers: the placeholder is      *)
(* claimed by one adapter, a continuation mints its own message, and a     *)
(* resumed engine sees that the placeholder already carries parts.         *)
oneAnswerPerMessage ==
    \A m \in 1 .. Len(commits) : commits[m] <= 1

(* An engine charges the usage of every physical call it made, once, also  *)
(* when the call, its commit or its ledger write failed; at rest nothing   *)
(* is outstanding (addUsage on every path of Generate and Stream).         *)
usageCharged ==
    /\ \A i \in 1 .. Row : ledger[i].charged <= ledger[i].calls
    /\ call.at \in {"node", "tools", "pausing", "completed", "failed"} =>
          \A i \in 1 .. Row : ledger[i].charged = ledger[i].calls

(* attempt_replaced names each failed attempt at most once, after it, and  *)
(* never one whose answer is durable (takeFailedAttempt forgets what it    *)
(* returns, recordFailedAttempt is not reached after a clean commit).      *)
replacedAttempts ==
    \A p \in replaced :
       /\ p[1] < p[2] /\ ~ledger[p[1]].durable
       /\ \A q \in replaced : p[1] = q[1] => p = q

(* Each resume is announced at most once, by a run_resumed event naming a  *)
(* row whose dispatch was started (resumeLifecycleFact.emit is called      *)
(* after the row's transition and remembers that it succeeded).            *)
resumedNamesDispatch ==
    /\ \A p, q \in resumed : p = q
    /\ \A p \in resumed :
          p[1] = call.node /\ p[2] <= Row => ledger[p[2]].state /= "prepared"

(* What is durable of the attempts is true, whatever writes fail and       *)
(* wherever the engine dies: the rows say what was sent and are charged    *)
(* for it, a message carries one answer, and the events name attempts that *)
(* failed and dispatches that were started (adk_model.go, begin to finish).*)
LedgerTruthful ==
    /\ rowsTruthful /\ oneAnswerPerMessage /\ usageCharged
    /\ replacedAttempts /\ resumedNamesDispatch

(* Once a node's output was shown to observers or committed, no other      *)
(* physical call is made for that node, whatever write then fails          *)
(* (errPartialStreamObserved and errCommittedDispatchFailed stop both the  *)
(* retry and the failover wrapper).                                        *)
NoCallAfterOutput ==
    [][at("dispatch") /\ call'.at = "calling" => ~call.heard]_dispatchVars

(* Whatever fails or crashes around it, an approval is decided together    *)
(* with exactly one response message, and a later resume with another      *)
(* decision never changes it (prepare writes both in one transaction and   *)
(* treats the same decision as done).                                      *)
DecisionOnce ==
    [][\A i \in 1 .. Len(approvals) :
          /\ approvals'[i].responses = IF approvals'[i].status = "decided" THEN 1 ELSE 0
          /\ approvals[i].status = "decided" => approvals'[i] = approvals[i]]_dispatchVars
=============================================================================
