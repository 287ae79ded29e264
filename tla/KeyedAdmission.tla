--------------------------- MODULE KeyedAdmission ---------------------------
(***************************************************************************)
(* Starting a run under an admission key: Start in runtime/orchestrator.go,*)
(* admitDurable in runtime/admission.go, the fingerprint, the receipt      *)
(* lookups of store/internal/sqlstore/admissions.go and WithinTx.          *)
(*                                                                         *)
(* A host that does not know whether its call was admitted calls again     *)
(* with the same key.  Several such calls, of one process or of many, run  *)
(* at once.  Each looks the receipt up in a committed read, prepares a     *)
(* plan and a model, takes the session's row lock, looks again, writes the *)
(* run and the receipt in one transaction, and when anything failed looks  *)
(* a last time before it reports the failure.  The acknowledgement of the  *)
(* commit can be lost: the transaction is then in doubt and holds its lock *)
(* until the database commits it or rolls it back.                         *)
(*                                                                         *)
(* One session.  A call mints its own run id, so runs are named by their   *)
(* calls.  What a request is made of is abstracted to the parts that the   *)
(* code tells apart: what the fingerprint covers and what it leaves out.   *)
(***************************************************************************)
EXTENDS Naturals, FiniteSets

CONSTANTS Calls,            \* invocations of Start
          Requests,         \* what a call may ask for
          MaxPayloadBytes,  \* maxAdmissionPayloadBytes
          None

VARIABLES request,   \* what each call asks for
          step,      \* where a call is
          cause,     \* why a call that failed did: "none", "refused", "conflict", "unknown"
          staged,    \* what its transaction will commit: "nothing", "admission", "receipt"
          lock,      \* the call whose transaction holds the session row, or None
          doubt,     \* calls whose commit was not acknowledged and is not settled
          identity,  \* the metadata the session was created with, or None
          runs,      \* the run of each call: "none", "open", "terminal"
          receipts,  \* the receipt of each key, or None
          result     \* what each call returned, or None

admissionVars == <<request, step, cause, staged, lock, doubt, identity, runs, receipts, result>>

Keys == {q.key : q \in Requests} \ {None}
keyed(c) == request[c].key # None

-----------------------------------------------------------------------------
(* The request and its fingerprint.                                        *)

\* validateAdmissionInputBudget: only keyed input is bounded here.
admissible(c) == keyed(c) => request[c].bytes <= MaxPayloadBytes

\* The message's blocks without their ids, the configuration and the
\* metadata; not the observability of the call.
fingerprintAdmission(q) == [message |-> q.message, metadata |-> q.metadata]

\* What a stored receipt says to a request: the version is the only one there is.
admissionResultForExisting(c, record) ==
    IF record.fingerprint = fingerprintAdmission(request[c])
    THEN [as |-> "existing", run |-> record.run]
    ELSE [as |-> "conflict", run |-> None]

admission(c) == receipts[request[c].key]

Outcomes == {"new", "existing", "conflict", "failed", "unknown"}
Answers == [as : Outcomes, run : Calls \cup {None}]
ReceiptRows == [run : Calls, fingerprint : {fingerprintAdmission(q) : q \in Requests}]

\* No call, receipt or answer is mistaken for a missing one.
AdmissionIdentities == None \notin Calls \cup ReceiptRows \cup Answers

-----------------------------------------------------------------------------
AdmissionInit ==
    /\ request \in [Calls -> Requests]
    /\ step = [c \in Calls |-> "called"]
    /\ cause = [c \in Calls |-> "none"]
    /\ staged = [c \in Calls |-> "nothing"]
    /\ lock = None
    /\ doubt = {}
    /\ identity = None
    /\ runs = [c \in Calls |-> "none"]
    /\ receipts = [k \in Keys |-> None]
    /\ result = [c \in Calls |-> None]

return(c, answer) ==
    /\ step' = [step EXCEPT ![c] = "returned"]
    /\ result' = [result EXCEPT ![c] = answer]

\* resolveFailedAdmission is what follows every failure after the first lookup.
failed(c, why) ==
    /\ step' = [step EXCEPT ![c] = "failed"]
    /\ cause' = [cause EXCEPT ![c] = why]

database == <<lock, doubt, identity, runs, receipts>>

\* The validations and the first lookup, which may itself fail.
Start(c) ==
    /\ step[c] = "called"
    /\ \/ ~admissible(c) /\ return(c, [as |-> "failed", run |-> None])
       \/ /\ admissible(c) /\ ~keyed(c)
          /\ step' = [step EXCEPT ![c] = "preparing"]
          /\ UNCHANGED result
       \/ /\ admissible(c) /\ keyed(c) /\ admission(c) = None
          /\ step' = [step EXCEPT ![c] = "preparing"]
          /\ UNCHANGED result
       \/ /\ admissible(c) /\ keyed(c) /\ admission(c) # None
          /\ return(c, admissionResultForExisting(c, admission(c)))
       \/ /\ admissible(c) /\ keyed(c)
          /\ \E as \in {"failed", "unknown"} : return(c, [as |-> as, run |-> None])
    /\ UNCHANGED <<request, cause, staged, database>>

\* acquireRunPlan, Resolve, ValidateResolved, freezeAdmission.
Prepare(c) ==
    /\ step[c] = "preparing"
    /\ \/ step' = [step EXCEPT ![c] = "beginning"] /\ UNCHANGED cause
       \/ failed(c, "refused")
    /\ UNCHANGED <<request, staged, result, database>>

\* The row lock of the session, before anything is read.  A session that is
\* not there is inserted first, which waits for a concurrent insert and
\* locks as the row does.  An unkeyed call takes the same lock in AdmitRun,
\* and reads before it only what never changes.
LockAdmissionSession(c) ==
    /\ step[c] = "beginning"
    /\ lock = None
    /\ lock' = c
    /\ step' = [step EXCEPT ![c] = "inside"]
    /\ UNCHANGED <<request, cause, staged, result, doubt, identity, runs, receipts>>

\* The caller's context ends while it waits, or the transaction cannot begin.
BeginFails(c) ==
    /\ step[c] = "beginning"
    /\ failed(c, "refused")
    /\ UNCHANGED <<request, staged, result, database>>

\* Nothing of the transaction is left, but its lock stays.
rollbackForgotten(c) == UNCHANGED lock

\* tx.Rollback, which WithinTx defers for everything that was not committed.
rollback(c) == lock' = None

sameAdmissionSessionIdentity(c) == identity \in {None, request[c].metadata}
sessionBusy == \E r \in Calls : runs[r] = "open"

\* The body of the transaction, under the lock.  The receipt is read before
\* the session is compared and before the run is admitted.
admitDurable(c) ==
    LET found == keyed(c) /\ admission(c) # None
        matches == found /\ admissionResultForExisting(c, admission(c)).as = "existing"
    IN  /\ step[c] = "inside"
        /\ \/ /\ matches
              /\ staged' = [staged EXCEPT ![c] = "receipt"]
              /\ step' = [step EXCEPT ![c] = "committing"]
              /\ UNCHANGED <<cause, lock>>
           \/ /\ found /\ ~matches
              /\ failed(c, "conflict") /\ rollback(c)
              /\ UNCHANGED staged
           \/ /\ ~found /\ sameAdmissionSessionIdentity(c) /\ ~sessionBusy
              /\ staged' = [staged EXCEPT ![c] = "admission"]
              /\ step' = [step EXCEPT ![c] = "committing"]
              /\ UNCHANGED <<cause, lock>>
           \* ErrConflict of another session's metadata, ErrSessionBusy, or
           \* any later statement that fails
           \/ /\ ~found
              /\ failed(c, "refused") /\ rollback(c)
              /\ UNCHANGED staged
        /\ UNCHANGED <<request, result, doubt, identity, runs, receipts>>

\* An admission whose receipt is not part of its transaction.
writesWithoutReceipt(c) ==
    /\ runs' = [runs EXCEPT ![c] = "open"]
    /\ identity' = request[c].metadata
    /\ UNCHANGED receipts

\* The run with its turn and messages, and the receipt (RecordAdmission):
\* one transaction.
writes(c) ==
    /\ runs' = [runs EXCEPT ![c] = "open"]
    /\ identity' = request[c].metadata
    /\ receipts' = IF keyed(c)
                   THEN [receipts EXCEPT ![request[c].key] =
                           [run |-> c, fingerprint |-> fingerprintAdmission(request[c])]]
                   ELSE receipts

applied(c) ==
    /\ lock' = None
    /\ \/ staged[c] = "admission" /\ writes(c)
       \/ staged[c] = "receipt" /\ UNCHANGED <<identity, runs, receipts>>

\* Only the call that wrote the run gets its handle.
admitted(c) == IF staged[c] = "admission" THEN [as |-> "new", run |-> c]
               ELSE [as |-> "existing", run |-> admission(c).run]

\* tx.Commit and tx.Close: acknowledged; committed, with a Close that fails;
\* rolled back; not acknowledged.
Commit(c) ==
    /\ step[c] = "committing"
    /\ \/ applied(c) /\ return(c, admitted(c)) /\ UNCHANGED <<cause, doubt>>
       \/ applied(c) /\ failed(c, "unknown") /\ UNCHANGED <<doubt, result>>
       \/ /\ rollback(c) /\ failed(c, "refused")
          /\ UNCHANGED <<doubt, result, identity, runs, receipts>>
       \/ /\ doubt' = doubt \cup {c} /\ failed(c, "unknown")
          /\ UNCHANGED <<lock, result, identity, runs, receipts>>
    /\ UNCHANGED <<request, staged>>

\* An absent receipt is taken for an admission that failed.
resolveAbsentAsFailed(c) ==
    /\ step[c] = "failed"
    /\ \/ /\ keyed(c) /\ admission(c) # None
          /\ return(c, admissionResultForExisting(c, admission(c)))
       \/ /\ keyed(c) => admission(c) = None
          /\ return(c, [as |-> "failed", run |-> None])
    /\ UNCHANGED <<request, cause, staged, database>>

\* The last look, with a context that is not canceled; a lookup that fails
\* leaves the outcome unknown.  Without a key there is nothing to look up.
resolveFailedAdmission(c) ==
    LET answer(as) == [as |-> as, run |-> None]
    IN  /\ step[c] = "failed"
        /\ \/ ~keyed(c) /\ return(c, answer("failed"))
           \/ keyed(c) /\ return(c, answer("unknown"))
           \/ /\ keyed(c) /\ admission(c) # None
              /\ return(c, admissionResultForExisting(c, admission(c)))
           \/ /\ keyed(c) /\ admission(c) = None
              /\ return(c, answer(CASE cause[c] = "unknown" -> "unknown"
                                    [] cause[c] = "conflict" -> "conflict"
                                    [] OTHER -> "failed"))
        /\ UNCHANGED <<request, cause, staged, database>>

-----------------------------------------------------------------------------
(* The database, the processes and the runs.                               *)

\* The database finishes a transaction whose client is gone.
Settle(c) ==
    /\ c \in doubt
    /\ doubt' = doubt \ {c}
    /\ \/ applied(c)
       \/ lock' = None /\ UNCHANGED <<identity, runs, receipts>>
    /\ UNCHANGED <<request, step, cause, staged, result>>

\* The process of a call dies; the database rolls back what it had open.
Crash(c) ==
    /\ step[c] \notin {"called", "returned", "crashed"}
    /\ step' = [step EXCEPT ![c] = "crashed"]
    /\ lock' = IF lock = c /\ c \notin doubt THEN None ELSE lock
    /\ UNCHANGED <<request, cause, staged, doubt, identity, runs, receipts, result>>

\* A run ends, driven by its handle or by a later ResumeRun (TurnLoop).
RunEnds(c) ==
    /\ runs[c] = "open"
    /\ runs' = [runs EXCEPT ![c] = "terminal"]
    /\ UNCHANGED <<request, step, cause, staged, lock, doubt, identity, receipts, result>>

Call(c) == Start(c) \/ Prepare(c) \/ LockAdmissionSession(c) \/ admitDurable(c)
           \/ Commit(c) \/ resolveFailedAdmission(c)

AdmissionNext == \E c \in Calls : Call(c) \/ BeginFails(c) \/ Settle(c) \/ Crash(c) \/ RunEnds(c)

AdmissionSpec == AdmissionInit /\ [][AdmissionNext]_admissionVars

-----------------------------------------------------------------------------
(* Properties.                                                             *)

Steps == {"called", "preparing", "beginning", "inside", "committing", "failed",
          "returned", "crashed"}

\* The shape of the state, and that a transaction that is open or in
\* doubt holds the session's lock, so that there is one (LockAdmissionSession).
AdmissionTypeOK ==
    /\ step \in [Calls -> Steps]
    /\ cause \in [Calls -> {"none", "refused", "conflict", "unknown"}]
    /\ staged \in [Calls -> {"nothing", "admission", "receipt"}]
    /\ \A c \in Calls : c \in doubt \/ step[c] \in {"inside", "committing"} => lock = c
    /\ runs \in [Calls -> {"none", "open", "terminal"}]
    /\ \A c \in Calls : (result[c] # None <=> step[c] = "returned")
                        /\ (result[c] # None => result[c].as \in Outcomes)

\* However often a keyed call is repeated, and whatever happened to the
\* earlier ones, one run is admitted under a key and one call holds a handle,
\* the call that wrote the run (Start, RecordAdmission).
OneRunPerKey ==
    /\ \A c, d \in Calls :
          keyed(c) /\ request[c].key = request[d].key /\ runs[c] # "none" /\ runs[d] # "none"
          => c = d
    /\ \A c \in Calls : result[c] # None /\ result[c].as = "new"
                        => result[c].run = c /\ runs[c] # "none"

\* A keyed call that reports a failure other than an unknown outcome has
\* admitted nothing, and nothing of it is left that could still be admitted
\* (resolveFailedAdmission).
FailureIsDefinite ==
    \A c \in Calls : keyed(c) /\ result[c] # None /\ result[c].as \in {"failed", "conflict"}
                     => runs[c] = "none" /\ c \notin doubt

\* Does the answer tell a keyed call the truth about the receipt of its key?
agrees(c, answer) ==
    LET differs == request[admission(c).run].message # request[c].message
                   \/ request[admission(c).run].metadata # request[c].metadata
    IN  /\ answer.as = "existing"
           => admission(c) # None /\ answer.run = admission(c).run /\ ~differs
        /\ answer.as = "conflict" => admission(c) # None /\ differs

\* Calls with one key agree: a call that is told of an earlier admission is
\* given the run of the receipt, which was admitted for the same message and
\* metadata; a conflict is reported only to a request that differs in them
\* (admissionResultForExisting).
RetriesAgree == \A c \in Calls : keyed(c) /\ result[c] # None => agrees(c, result[c])

\* What Start tells a keyed call is true, of its own run and of the one that
\* was admitted under its key (resolveFailedAdmission,
\* admissionResultForExisting).
AnswersAreTrue == FailureIsDefinite /\ RetriesAgree

\* No step is left to take: also a call that waited for the lock of a
\* transaction in doubt is back.
allReturned == doubt = {} /\ \A c \in Calls : step[c] \in {"returned", "crashed"}
=============================================================================
