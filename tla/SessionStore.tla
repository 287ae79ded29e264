---------------------------- MODULE SessionStore ----------------------------
(***************************************************************************)
(* The durable session store (store/internal/sqlstore): runs with claim    *)
(* tokens and leases, turns, the session inbox, loop checkpoints and tool  *)
(* calls.                                                                  *)
(*                                                                         *)
(* Every mutation of the store runs inside one savepoint that holds the    *)
(* row lock of the session and then of the run (locking.go), so a mutation *)
(* is one atomic action here, and a mutation that returns an error rolls   *)
(* back and is an action that is not enabled.  An action takes the fence   *)
(* (run and claim token) its caller holds: callers are arbitrary, and a    *)
(* caller may hold a token that was superseded long ago.                   *)
(*                                                                         *)
(* The clock enters in two ways.  Whether a lease has run out on the       *)
(* database clock is the column lease, which the action LeaseExpires moves *)
(* at any moment.  The time a caller stamps on an event is the argument    *)
(* at, because ApplyInterruptTurn compares it with an earlier one.         *)
(***************************************************************************)
EXTENDS Naturals, FiniteSets

CONSTANTS
    Sessions,      \* session identities
    Runs,          \* run identities
    Tokens,        \* claim tokens: one is minted per AdmitRun and per ClaimRun
    Turns,         \* turn identities
    Ordinals,      \* turn positions within a run that are explored
    Items,         \* inbox items, one per (session, idempotency key)
    Calls,         \* tool calls
    Claims,        \* claim tokens of tool calls
    Revisions,     \* checkpoint revisions
    Blobs,         \* checkpoint bytes
    Stamps,        \* event timestamps
    None,          \* absent column value
    RunSession,    \* the session a run is admitted for
    ItemSession    \* the session an inbox item is submitted to

ASSUME IdentityAssumption ==
    /\ RunSession \in [Runs -> Sessions]
    /\ ItemSession \in [Items -> Sessions]
    /\ Ordinals \subseteq Nat \ {0}
    /\ Revisions \subseteq Nat \ {0}
    /\ Stamps \subseteq Nat \ {0}

ASSUME NoneAssumption ==
    None \notin Runs \cup Tokens \cup Turns \cup Calls \cup Claims \cup Blobs

VARIABLES
    runStatus,     \* runs.status, "none" before admission
    claimToken,    \* runs.claim_token
    lease,         \* runs.lease_until against the database clock
    minted,        \* claim tokens handed out so far by the id generator
    turnState,     \* turns.state, "none" before admission
    turnRun,       \* turns.run_key
    turnOrdinal,   \* turns.ordinal
    finishedAt,    \* Turn.FinishedAt, 0 when zero
    inboxState,    \* inbox.state, "none" before submission
    inboxTurn,     \* inbox.turn_key
    acked,         \* the runs against which a submission of the item was accepted
    callState,     \* tool_calls.status
    callRun,       \* tool_calls.run_key
    callClaim,     \* tool_calls.claim_token
    ckptState,     \* checkpoints.promoted, "none" when there is no row
    ckptBlob       \* checkpoints.bytes

runVars   == <<runStatus, claimToken, lease, minted>>
turnVars  == <<turnState, turnRun, turnOrdinal, finishedAt>>
inboxVars == <<inboxState, inboxTurn, acked>>
callVars  == <<callState, callRun, callClaim>>
ckptVars  == <<ckptState, ckptBlob>>
storeVars == <<runVars, turnVars, inboxVars, callVars, ckptVars>>

Writable     == {"pending", "running"}
OpenRun      == {"pending", "running", "paused"}
TerminalRun  == {"completed", "failed", "interrupted"}
OpenTurn     == {"admitted", "running", "interrupted"}
ClosedTurn   == {"completed", "failed"}
OpenCall     == {"pending", "running"}
SettledCall  == {"completed", "failed", "interrupted"}
LeaseStates  == {"none", "live", "expired"}

TypeOK ==
    /\ runStatus \in [Runs -> {"none"} \cup OpenRun \cup TerminalRun]
    /\ claimToken \in [Runs -> Tokens \cup {None}]
    /\ lease \in [Runs -> LeaseStates]
    /\ minted \in SUBSET Tokens
    /\ turnState \in [Turns -> {"none"} \cup OpenTurn \cup ClosedTurn]
    /\ turnRun \in [Turns -> Runs \cup {None}]
    /\ turnOrdinal \in [Turns -> Ordinals \cup {0}]
    /\ finishedAt \in [Turns -> Stamps \cup {0}]
    /\ inboxState \in [Items -> {"none", "queued", "consumed", "completed", "interrupted"}]
    /\ inboxTurn \in [Items -> Turns \cup {None}]
    /\ acked \in [Items -> SUBSET Runs]
    /\ callState \in [Calls -> {"none"} \cup OpenCall \cup SettledCall]
    /\ callRun \in [Calls -> Runs \cup {None}]
    /\ callClaim \in [Calls -> Claims \cup {None}]
    /\ ckptState \in [Runs -> [Revisions -> {"none", "staged", "promoted"}]]
    /\ ckptBlob \in [Runs -> [Revisions -> Blobs \cup {None}]]

Init ==
    /\ runStatus = [r \in Runs |-> "none"]
    /\ claimToken = [r \in Runs |-> None]
    /\ lease = [r \in Runs |-> "none"]
    /\ minted = {}
    /\ turnState = [t \in Turns |-> "none"]
    /\ turnRun = [t \in Turns |-> None]
    /\ turnOrdinal = [t \in Turns |-> 0]
    /\ finishedAt = [t \in Turns |-> 0]
    /\ inboxState = [i \in Items |-> "none"]
    /\ inboxTurn = [i \in Items |-> None]
    /\ acked = [i \in Items |-> {}]
    /\ callState = [c \in Calls |-> "none"]
    /\ callRun = [c \in Calls |-> None]
    /\ callClaim = [c \in Calls |-> None]
    /\ ckptState = [r \in Runs |-> [v \in Revisions |-> "none"]]
    /\ ckptBlob = [r \in Runs |-> [v \in Revisions |-> None]]

(***************************************************************************)
(* Runs and fences.                                                        *)
(***************************************************************************)

\* Mutant: a paused run does not reserve its session.
activeRunUnpaused(s) == {r \in Runs : RunSession[r] = s /\ runStatus[r] \in Writable}

\* The pending, running and paused runs of a session.
activeRun(s) == {r \in Runs : RunSession[r] = s /\ runStatus[r] \in OpenRun}

\* Admission inserts a pending run with a live lease.  An existing run
\* identity conflicts, another active run makes the session busy.
AdmitRun(r, k) ==
    /\ runStatus[r] = "none"
    /\ activeRun(RunSession[r]) = {}
    /\ k \in Tokens \ minted
    /\ runStatus' = [runStatus EXCEPT ![r] = "pending"]
    /\ claimToken' = [claimToken EXCEPT ![r] = k]
    /\ lease' = [lease EXCEPT ![r] = "live"]
    /\ minted' = minted \cup {k}
    /\ UNCHANGED <<turnVars, inboxVars, callVars, ckptVars>>

\* A paused run is claimed at once; a pending or running one only when its
\* lease has run out on the database clock.
ClaimRun(r, k) ==
    /\ \/ runStatus[r] = "paused"
       \/ runStatus[r] \in Writable /\ lease[r] = "expired"
    /\ k \in Tokens \ minted
    /\ runStatus' = [runStatus EXCEPT ![r] = "running"]
    /\ claimToken' = [claimToken EXCEPT ![r] = k]
    /\ lease' = [lease EXCEPT ![r] = "live"]
    /\ minted' = minted \cup {k}
    /\ UNCHANGED <<turnVars, inboxVars, callVars, ckptVars>>

\* Mutant: the fence ignores the token.
runIsWritable(r, k) == runStatus[r] \in Writable

\* The fence of an execution store: the caller's token must still be the
\* run's, and the run pending or running.  The lease is not looked at.
loadRunFence(r, k) == claimToken[r] = k /\ runStatus[r] \in Writable

StartRun(r, k) ==
    /\ loadRunFence(r, k)
    /\ runStatus' = [runStatus EXCEPT ![r] = "running"]
    /\ UNCHANGED <<claimToken, lease, minted, turnVars, inboxVars, callVars, ckptVars>>

\* The heartbeat renews the lease of the fenced run, expired or not.
RenewRunLease(r, k) ==
    /\ loadRunFence(r, k)
    /\ lease' = [lease EXCEPT ![r] = "live"]
    /\ UNCHANGED <<runStatus, claimToken, minted, turnVars, inboxVars, callVars, ckptVars>>

\* The database clock passes lease_until.
LeaseExpires(r) ==
    /\ runStatus[r] \in Writable
    /\ lease[r] = "live"
    /\ lease' = [lease EXCEPT ![r] = "expired"]
    /\ UNCHANGED <<runStatus, claimToken, minted, turnVars, inboxVars, callVars, ckptVars>>

(***************************************************************************)
(* Inbox.  An item is submitted against a run, consumed by one turn, and   *)
(* settled with that turn.                                                 *)
(***************************************************************************)

\* A submission to the session, whatever its runs are doing.  A repeated key
\* returns the row that is already there.
EnqueueInbox(i) ==
    /\ inboxState' = [inboxState EXCEPT ![i] = IF @ = "none" THEN "queued" ELSE @]
    /\ UNCHANGED <<inboxTurn, acked, runVars, turnVars, callVars, ckptVars>>

\* Mutant: a submission is accepted against a run that has ended.
EnqueueInboxForAnyRun(r, i) ==
    /\ runStatus[r] # "none"
    /\ ItemSession[i] = RunSession[r]
    /\ inboxState' = [inboxState EXCEPT ![i] = IF @ = "none" THEN "queued" ELSE @]
    /\ acked' = [acked EXCEPT ![i] = @ \cup {r}]
    /\ UNCHANGED <<inboxTurn, runVars, turnVars, callVars, ckptVars>>

\* A submission is accepted while its run is not terminal.  A repeated key
\* returns the row that is already there, whatever has become of it.
EnqueueInboxForRun(r, i) ==
    /\ runStatus[r] \in OpenRun
    /\ ItemSession[i] = RunSession[r]
    /\ inboxState' = [inboxState EXCEPT ![i] = IF @ = "none" THEN "queued" ELSE @]
    /\ acked' = [acked EXCEPT ![i] = @ \cup {r}]
    /\ UNCHANGED <<inboxTurn, runVars, turnVars, callVars, ckptVars>>

\* Whether turn t may consume the items: each queued, or already its own.
consumable(r, t, ids) ==
    \A i \in ids :
        /\ ItemSession[i] = RunSession[r]
        /\ \/ inboxState[i] = "queued"
           \/ inboxState[i] = "consumed" /\ inboxTurn[i] = t

\* The inbox after every item of the turns in T that is in a state of
\* from moves to the state to.
settleInboxForTurn(T, from, to) ==
    [i \in Items |-> IF inboxTurn[i] \in T /\ inboxState[i] \in from
                       THEN to ELSE inboxState[i]]

\* Whether a pause may interrupt the items.
interruptible(r, ids) ==
    \A i \in ids : /\ ItemSession[i] = RunSession[r]
                   /\ inboxState[i] \in {"queued", "consumed", "interrupted"}

(***************************************************************************)
(* Turns.                                                                  *)
(***************************************************************************)

\* n is one more than the largest ordinal of the run, 1 when it has no turn.
nextOrdinal(r, n) ==
    /\ \A t \in Turns : turnRun[t] = r => turnOrdinal[t] < n
    /\ n = 1 \/ \E t \in Turns : turnRun[t] = r /\ turnOrdinal[t] = n - 1

\* Insert the turn at the next ordinal, or find the same admitted turn.
createTurn(r, t, n) ==
    \/ turnState[t] = "none" /\ nextOrdinal(r, n)
    \/ turnState[t] = "admitted" /\ turnRun[t] = r /\ turnOrdinal[t] = n

AdmitTurn(r, k, t, n, ids) ==
    /\ loadRunFence(r, k)
    /\ createTurn(r, t, n)
    /\ consumable(r, t, ids)
    /\ turnState' = [turnState EXCEPT ![t] = "admitted"]
    /\ turnRun' = [turnRun EXCEPT ![t] = r]
    /\ turnOrdinal' = [turnOrdinal EXCEPT ![t] = n]
    /\ inboxState' = [i \in Items |-> IF i \in ids THEN "consumed" ELSE inboxState[i]]
    /\ inboxTurn' = [i \in Items |-> IF i \in ids THEN t ELSE inboxTurn[i]]
    /\ UNCHANGED <<finishedAt, acked, runVars, callVars, ckptVars>>

\* The admission transaction of a new run (admitDurable): the run and its
\* first turn, which carries the message of the request and no inbox item.
AdmitDurable(r, k, t) ==
    /\ runStatus[r] = "none"
    /\ activeRun(RunSession[r]) = {}
    /\ k \in Tokens \ minted
    /\ turnState[t] = "none"
    /\ 1 \in Ordinals
    /\ nextOrdinal(r, 1)
    /\ runStatus' = [runStatus EXCEPT ![r] = "pending"]
    /\ claimToken' = [claimToken EXCEPT ![r] = k]
    /\ lease' = [lease EXCEPT ![r] = "live"]
    /\ minted' = minted \cup {k}
    /\ turnState' = [turnState EXCEPT ![t] = "admitted"]
    /\ turnRun' = [turnRun EXCEPT ![t] = r]
    /\ turnOrdinal' = [turnOrdinal EXCEPT ![t] = 1]
    /\ UNCHANGED <<finishedAt, inboxVars, callVars, ckptVars>>

\* Completion accepts an admitted, running or interrupted turn, and settles
\* the consumed and the interrupted items of the turn.
CompleteTurn(r, k, t, at) ==
    /\ loadRunFence(r, k)
    /\ turnRun[t] = r
    /\ turnState[t] \in OpenTurn
    /\ turnState' = [turnState EXCEPT ![t] = "completed"]
    /\ finishedAt' = [finishedAt EXCEPT ![t] = at]
    /\ inboxState' = settleInboxForTurn({t}, {"consumed", "interrupted"}, "completed")
    /\ UNCHANGED <<turnRun, turnOrdinal, inboxTurn, acked, runVars, callVars, ckptVars>>

\* A turn can be interrupted from admitted or running; an interrupted turn
\* accepts only the interruption that carries the same timestamp again.
ApplyInterruptTurn(t, at) ==
    \/ turnState[t] \in {"admitted", "running"}
    \/ turnState[t] = "interrupted" /\ finishedAt[t] = at

\* InterruptTurn and ReconcileInterruptedTurn make the same change: the
\* turn's consumed items follow it, and are never put back in the queue.
ReconcileInterruptedTurn(r, k, t, at) ==
    /\ loadRunFence(r, k)
    /\ turnRun[t] = r
    /\ ApplyInterruptTurn(t, at)
    /\ turnState' = [turnState EXCEPT ![t] = "interrupted"]
    /\ finishedAt' = [finishedAt EXCEPT ![t] = at]
    /\ inboxState' = settleInboxForTurn({t}, {"consumed"}, "interrupted")
    /\ UNCHANGED <<turnRun, turnOrdinal, inboxTurn, acked, runVars, callVars, ckptVars>>

\* Redrive of an interrupted turn.  Its FinishedAt stays as it was.
ResumeInterruptedTurn(r, k, t) ==
    /\ loadRunFence(r, k)
    /\ turnRun[t] = r
    /\ turnState[t] = "interrupted"
    /\ turnState' = [turnState EXCEPT ![t] = "running"]
    /\ inboxState' = settleInboxForTurn({t}, {"interrupted"}, "consumed")
    /\ UNCHANGED <<turnRun, turnOrdinal, finishedAt, inboxTurn, acked, runVars, callVars, ckptVars>>

(***************************************************************************)
(* Checkpoints.  A revision is staged while the run runs and promoted in   *)
(* the transaction that pauses it.                                         *)
(***************************************************************************)

StageCheckpoint(r, k, v, b) ==
    /\ loadRunFence(r, k)
    /\ ckptState[r][v] = "none"
    /\ ckptState' = [ckptState EXCEPT ![r][v] = "staged"]
    /\ ckptBlob' = [ckptBlob EXCEPT ![r][v] = b]
    /\ UNCHANGED <<runVars, turnVars, inboxVars, callVars>>

\* One transaction promotes the revision, interrupts the turn and the given
\* items, and leaves the run paused without a lease.
PromotePause(r, k, v, t, ids, at) ==
    /\ loadRunFence(r, k)
    /\ ckptState[r][v] # "none"
    /\ turnRun[t] = r
    /\ ApplyInterruptTurn(t, at)
    /\ interruptible(r, ids)
    /\ ckptState' = [ckptState EXCEPT ![r][v] = "promoted"]
    /\ turnState' = [turnState EXCEPT ![t] = "interrupted"]
    /\ finishedAt' = [finishedAt EXCEPT ![t] = at]
    /\ inboxState' = [i \in Items |-> IF i \in ids THEN "interrupted" ELSE inboxState[i]]
    /\ runStatus' = [runStatus EXCEPT ![r] = "paused"]
    /\ lease' = [lease EXCEPT ![r] = "none"]
    /\ UNCHANGED <<claimToken, minted, turnRun, turnOrdinal, inboxTurn, acked, callVars, ckptBlob>>

\* The compensating pause: no turn and no item is touched.  v is 0 when no
\* revision is to be promoted.
RepauseRun(r, k, v) ==
    /\ loadRunFence(r, k)
    /\ v # 0 => ckptState[r][v] # "none"
    /\ ckptState' = [ckptState EXCEPT ![r] =
                        [u \in Revisions |-> IF u = v THEN "promoted" ELSE @[u]]]
    /\ runStatus' = [runStatus EXCEPT ![r] = "paused"]
    /\ lease' = [lease EXCEPT ![r] = "none"]
    /\ UNCHANGED <<claimToken, minted, turnVars, inboxVars, callVars, ckptBlob>>

\* The checkpoints of a run without the revisions up to v.
deleteCheckpointsUpTo(r, v) ==
    /\ ckptState' = [ckptState EXCEPT ![r] =
                        [u \in Revisions |-> IF u <= v THEN "none" ELSE @[u]]]
    /\ ckptBlob' = [ckptBlob EXCEPT ![r] =
                        [u \in Revisions |-> IF u <= v THEN None ELSE @[u]]]

RetireCheckpoints(r, k, v) ==
    /\ loadRunFence(r, k)
    /\ deleteCheckpointsUpTo(r, v)
    /\ UNCHANGED <<runVars, turnVars, inboxVars, callVars>>

\* Retirement without a fence, for a run that is already terminal.
RetireRunCheckpoints(r, v) ==
    /\ runStatus[r] \in TerminalRun
    /\ deleteCheckpointsUpTo(r, v)
    /\ UNCHANGED <<runVars, turnVars, inboxVars, callVars>>

\* The promoted revision that ReadPromotedCheckpoint returns, 0 without one.
promotedRevision(r) ==
    LET P == {v \in Revisions : ckptState[r][v] = "promoted"}
    IN  IF P = {} THEN 0 ELSE CHOOSE v \in P : \A u \in P : u <= v

(***************************************************************************)
(* Tool calls.                                                             *)
(***************************************************************************)

CreateToolCall(r, k, c) ==
    /\ loadRunFence(r, k)
    /\ callState[c] = "none"
    /\ callState' = [callState EXCEPT ![c] = "pending"]
    /\ callRun' = [callRun EXCEPT ![c] = r]
    /\ UNCHANGED <<callClaim, runVars, turnVars, inboxVars, ckptVars>>

\* Mutant: a running call may be claimed again.
claimableAgain(c) == callState[c] \in OpenCall

claimable(c) == callState[c] = "pending"

\* Claiming a pending call renews the lease of the run as well.
ClaimToolCall(r, k, c, w) ==
    /\ loadRunFence(r, k)
    /\ callRun[c] = r
    /\ claimable(c)
    /\ callState' = [callState EXCEPT ![c] = "running"]
    /\ callClaim' = [callClaim EXCEPT ![c] = w]
    /\ lease' = [lease EXCEPT ![r] = "live"]
    /\ UNCHANGED <<callRun, runStatus, claimToken, minted, turnVars, inboxVars, ckptVars>>

\* Only the claimer settles a call, and a settled call stays as it is.
SettleToolCall(r, k, c, w, outcome) ==
    /\ loadRunFence(r, k)
    /\ callRun[c] = r
    /\ callState[c] \in OpenCall
    /\ callClaim[c] = w
    /\ callState' = [callState EXCEPT ![c] = outcome]
    /\ UNCHANGED <<callRun, callClaim, runVars, turnVars, inboxVars, ckptVars>>

(***************************************************************************)
(* Settlement of a run.                                                    *)
(***************************************************************************)

\* Mutant: interrupted turns are left as they are.
residualTurnsActive(r) ==
    {t \in Turns : turnRun[t] = r /\ turnState[t] \in {"admitted", "running"}}

\* The open turns of a run, which its settlement fails.
residualTurns(r) == {t \in Turns : turnRun[t] = r /\ turnState[t] \in OpenTurn}

toolCallsSettled(r) == \A c \in Calls : callRun[c] = r => callState[c] \notin OpenCall

\* Mutant: only the submissions made to this run are looked at.
ownQueueDrained(r) == \A i \in Items : r \in acked[i] => inboxState[i] # "queued"

queueDrained(r) ==
    \A i \in Items : ItemSession[i] = RunSession[r] => inboxState[i] # "queued"

\* A run settles once its tool calls have, and completes only while nothing
\* is queued in its session.  The same transaction fails its open turns and
\* interrupts the items they hold.
SettleRun(r, k, outcome, at) ==
    /\ loadRunFence(r, k)
    /\ toolCallsSettled(r)
    /\ outcome = "completed" => queueDrained(r)
    /\ runStatus' = [runStatus EXCEPT ![r] = outcome]
    /\ turnState' = [t \in Turns |-> IF t \in residualTurns(r) THEN "failed" ELSE turnState[t]]
    /\ finishedAt' = [t \in Turns |-> IF t \in residualTurns(r) THEN at ELSE finishedAt[t]]
    /\ inboxState' = settleInboxForTurn(residualTurns(r), {"consumed"}, "interrupted")
    /\ UNCHANGED <<claimToken, lease, minted, turnRun, turnOrdinal, inboxTurn, acked>>
    /\ UNCHANGED <<callVars, ckptVars>>

(***************************************************************************)
(* Any caller with any fence.                                              *)
(***************************************************************************)

Next ==
    \/ \E r \in Runs, k \in Tokens : AdmitRun(r, k) \/ ClaimRun(r, k)
    \/ \E r \in Runs, k \in Tokens, t \in Turns : AdmitDurable(r, k, t)
    \/ \E r \in Runs : LeaseExpires(r)
    \/ \E i \in Items : EnqueueInbox(i)
    \/ \E r \in Runs, i \in Items : EnqueueInboxForRun(r, i)
    \/ \E r \in Runs, k \in Tokens : StartRun(r, k) \/ RenewRunLease(r, k)
    \/ \E r \in Runs, k \in Tokens, t \in Turns, n \in Ordinals, ids \in SUBSET Items :
          AdmitTurn(r, k, t, n, ids)
    \/ \E r \in Runs, k \in Tokens, t \in Turns, at \in Stamps :
          CompleteTurn(r, k, t, at) \/ ReconcileInterruptedTurn(r, k, t, at)
    \/ \E r \in Runs, k \in Tokens, t \in Turns : ResumeInterruptedTurn(r, k, t)
    \/ \E r \in Runs, k \in Tokens, v \in Revisions, b \in Blobs : StageCheckpoint(r, k, v, b)
    \/ \E r \in Runs, k \in Tokens, v \in Revisions, t \in Turns,
          ids \in SUBSET Items, at \in Stamps : PromotePause(r, k, v, t, ids, at)
    \/ \E r \in Runs, k \in Tokens, v \in Revisions \cup {0} : RepauseRun(r, k, v)
    \/ \E r \in Runs, k \in Tokens, v \in Revisions : RetireCheckpoints(r, k, v)
    \/ \E r \in Runs, v \in Revisions : RetireRunCheckpoints(r, v)
    \/ \E r \in Runs, k \in Tokens, c \in Calls : CreateToolCall(r, k, c)
    \/ \E r \in Runs, k \in Tokens, c \in Calls, w \in Claims : ClaimToolCall(r, k, c, w)
    \/ \E r \in Runs, k \in Tokens, c \in Calls, w \in Claims, o \in SettledCall :
          SettleToolCall(r, k, c, w, o)
    \/ \E r \in Runs, k \in Tokens, o \in TerminalRun, at \in Stamps : SettleRun(r, k, o, at)

Spec == Init /\ [][Next]_storeVars

(***************************************************************************)
(* Properties.                                                             *)
(***************************************************************************)

\* A session never has two runs that are pending, running or paused: AdmitRun
\* refuses a busy session, and no claim, pause, repause or settlement brings a
\* second run back.
OneOpenRun ==
    \A r1, r2 \in Runs :
        /\ RunSession[r1] = RunSession[r2]
        /\ runStatus[r1] \in OpenRun
        /\ runStatus[r2] \in OpenRun
        => r1 = r2

\* A terminal run leaves nothing behind that could still seem to run: its
\* turns are completed or failed, its tool calls settled, and no inbox item is
\* held as consumed by one of its turns.
TerminalRunIsSettled ==
    \A r \in Runs : runStatus[r] \in TerminalRun =>
        /\ \A t \in Turns : turnRun[t] = r => turnState[t] \in ClosedTurn
        /\ \A c \in Calls : callRun[c] = r => callState[c] \in SettledCall
        /\ \A i \in Items : inboxTurn[i] \in Turns /\ turnRun[inboxTurn[i]] = r
                              => inboxState[i] \in {"completed", "interrupted"}

\* Items and turns agree: a consumed item belongs to a turn that is still open,
\* an item is completed exactly when its turn is, and only the items of a turn
\* are consumed or completed.
InboxFollowsTurn ==
    /\ \A i \in Items, t \in Turns : inboxTurn[i] = t =>
          /\ inboxState[i] \in {"consumed", "completed", "interrupted"}
          /\ inboxState[i] = "consumed" => turnState[t] \in OpenTurn
          /\ inboxState[i] = "completed" <=> turnState[t] = "completed"
    /\ \A i \in Items : inboxState[i] \in {"consumed", "completed"} => inboxTurn[i] \in Turns

\* The turns of a run are numbered 1, 2, ... without a gap or a repetition,
\* whatever admissions were retried, refused or made by a later claimer.
OrdinalsContiguous ==
    /\ \A t, u \in Turns :
          turnRun[t] # None /\ turnRun[t] = turnRun[u] /\ turnOrdinal[t] = turnOrdinal[u] => t = u
    /\ \A t \in Turns : turnRun[t] # None /\ turnOrdinal[t] > 1 =>
          \E u \in Turns : turnRun[u] = turnRun[t] /\ turnOrdinal[u] = turnOrdinal[t] - 1

\* The race between a submission and the settlement of its run: when a
\* submission was accepted against a run and the run completed, the item is not
\* left in the queue.
AcceptedInputNotStranded ==
    \A i \in Items, r \in Runs :
        r \in acked[i] /\ runStatus[r] = "completed" => inboxState[i] # "queued"

\* What a caller submitted is where the run's turns say it is: items move with
\* the turn that took them, turns are numbered as they were admitted, and no
\* accepted item is left behind (AdmitTurn, settleInboxForTurn,
\* EnqueueInboxForRun and the check of the queue in SettleRun).
SubmissionsSound == InboxFollowsTurn /\ OrdinalsContiguous /\ AcceptedInputNotStranded

\* A step keeps the history of every item.
ItemHistoryKept ==
    \A i \in Items :
        /\ inboxState[i] \notin {"none", "queued"} => inboxState'[i] \notin {"none", "queued"}
        /\ inboxTurn[i] # None => inboxTurn'[i] = inboxTurn[i]

\* The history of one item: once it left the queue it does not return, and
\* the turn that consumed it is never replaced, so its content enters the
\* conversation once.
ConsumedOnce == [][ItemHistoryKept]_storeVars

\* A step leaves a terminal run, its turns, their items and its calls alone.
TerminalRunKept ==
    \A r \in Runs : runStatus[r] \in TerminalRun =>
        /\ runStatus'[r] = runStatus[r]
        /\ claimToken'[r] = claimToken[r]
        /\ \A t \in Turns : turnRun[t] = r \/ turnRun'[t] = r =>
              /\ turnState'[t] = turnState[t]
              /\ turnRun'[t] = turnRun[t]
              /\ finishedAt'[t] = finishedAt[t]
        /\ \A c \in Calls : callRun[c] = r \/ callRun'[c] = r =>
              callState'[c] = callState[c] /\ callRun'[c] = callRun[c]
        /\ \A i \in Items : inboxTurn[i] \in Turns /\ turnRun[inboxTurn[i]] = r =>
              inboxState'[i] = inboxState[i]

\* After a run is terminal no caller with any fence changes the run, its
\* turns, their items or its tool calls; only its checkpoints may go.
TerminalRunIsFrozen == [][TerminalRunKept]_storeVars

\* A step keeps the claim and the outcome of every call.
CallHistoryKept ==
    \A c \in Calls :
        /\ callClaim[c] # None => callClaim'[c] = callClaim[c]
        /\ callState[c] \in SettledCall => callState'[c] = callState[c]

\* A tool call is handed to one executor: no later claim replaces the first,
\* and a settled outcome is never overwritten, whoever holds the run by then.
ToolRunsOnce == [][CallHistoryKept]_storeVars

\* No step takes back what the store recorded: which turn took an item, which
\* claimer ran a call with what outcome, and all that a settled run left.
RecordsStand == [][ItemHistoryKept /\ TerminalRunKept /\ CallHistoryKept]_storeVars
=============================================================================
