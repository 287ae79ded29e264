--------------------------- MODULE MCTurnLoopCrews ---------------------------
(***************************************************************************)
(* How runs are started and driven.  A behaviour is about one of three:    *)
(* a pair of drivers over one queued item that the host may also stop and  *)
(* abandon, as long as ResumeRun claims what it read; one driver over two  *)
(* items; or three calls of Start: a request, its retry under another      *)
(* trace, and one more of these, a call without a key, another message     *)
(* under the same key, the message with other metadata, or one that is too *)
(* large.                                                                  *)
(***************************************************************************)
EXTENDS KeyedAdmission

CONSTANTS s1, r1, t1, t2, t3, t4, i1, i2, d1, d2, Tokens, Stamps,
          First, Reconciled, c1, c2, c3

VARIABLES runStatus, claimToken, lease, minted, turnState, turnRun, turnOrdinal,
          finishedAt, inboxState, inboxTurn, acked, callState, callRun, callClaim,
          ckptState, ckptBlob, drv, pushing,
          crew   \* "pair", "solo" or "calls"

loopVars == <<runStatus, claimToken, lease, minted, turnState, turnRun, turnOrdinal,
          finishedAt, inboxState, inboxTurn, acked, callState, callRun, callClaim,
          ckptState, ckptBlob, drv, pushing>>

Sessions == {s1}
Runs == {r1}
Claims == {}
RunSession == [r \in Runs |-> s1]

blobs(turns, items) ==
    [turn : turns, runner : BOOLEAN, rest : SUBSET (items \cup {First, Reconciled}),
     inflight : SUBSET (items \cup {First, Reconciled})]

Pair == INSTANCE TurnLoop WITH Calls <- {},
    Drivers <- {d1, d2}, HostEvents <- {"stop", "abandon", "crash", "fail", "startfail"},
    Turns <- {t1, t2, t3, t4}, Ordinals <- 1..4, Revisions <- 1..4,
    Items <- {i1}, ItemSession <- [i \in {i1} |-> s1],
    Blobs <- blobs({t1, t2, t3, t4}, {i1})

Solo == INSTANCE TurnLoop WITH Calls <- {},
    Drivers <- {d1}, HostEvents <- {"crash", "fail", "startfail"},
    Turns <- {t1, t2, t3, t4}, Ordinals <- 1..4, Revisions <- 1..4,
    Items <- {i1, i2}, ItemSession <- [i \in {i1, i2} |-> s1],
    Blobs <- blobs({t1, t2, t3, t4}, {i1, i2})

asked(k, m, d, t, n) == [key |-> k, message |-> m, metadata |-> d, trace |-> t, bytes |-> n]
hello(t) == asked("k", "hello", "a", t, 1)

MCRequests == {hello(1), hello(2), asked(None, "hello", "a", 1, 2),
               asked("k", "other", "a", 1, 1), asked("k", "hello", "b", 1, 1),
               asked("k", "hello", "a", 1, 2)}

ASSUME CallsApart == AdmissionIdentities

CrewInit ==
    /\ \/ crew \in {"pair", "calls"} /\ Pair!TLInit
       \/ crew = "solo" /\ Solo!TLInit
    /\ AdmissionInit
    /\ request[c1] = hello(1) /\ request[c2] = hello(2)
    /\ crew # "calls" => request[c3] = hello(1)

\* The two drivers of the pair claim what they read (ClaimsAsRead): a claim of
\* ResumeRun that is stale when it is made can break both properties below.
CrewNext ==
    /\ \/ crew = "pair" /\ Pair!TLNext /\ Pair!ClaimsAsRead /\ UNCHANGED admissionVars
       \/ crew = "solo" /\ Solo!TLNext /\ UNCHANGED admissionVars
       \/ crew = "calls" /\ AdmissionNext /\ UNCHANGED loopVars
    /\ UNCHANGED crew

\* Some call takes its next step, or the database settles a transaction, as
\* long as one can; the turn loop's fairness is in MCTurnLoop.
CrewSpec ==
    /\ CrewInit /\ [][CrewNext]_<<loopVars, admissionVars, crew>>
    /\ WF_admissionVars(crew = "calls" /\ \E c \in Calls : Call(c) \/ Settle(c))

-----------------------------------------------------------------------------

\* A paused run can always be resumed: the check at turn_loop.go:1878 never
\* refuses the checkpoint that a pause, a carrier, a reconciliation or a
\* reverted claim left, while ClaimsAsRead.
ResumeAccepts == IF crew # "solo" THEN Pair!ResumeAccepts ELSE Solo!ResumeAccepts

\* A driver that holds the fence drives or pauses the run's current turn, while
\* ClaimsAsRead.
DrivenTurnIsCurrent ==
    IF crew # "solo" THEN Pair!DrivenTurnIsCurrent ELSE Solo!DrivenTurnIsCurrent

\* A run that nobody stops and that completes has completed a turn and has
\* answered every submission one of its turns took, whatever crashes and
\* redrives came in between (settle, settleInboxForTurn).
ItemsAnswered == crew = "solo" => Solo!ItemsAnswered

\* Every call of Start comes back, also one that waits for a session's lock
\* while a transaction in doubt holds it (WithinTx).
CallsReturn == crew = "calls" ~> allReturned
=============================================================================
