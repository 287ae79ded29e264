--------------------------- MODULE SessionProofs ----------------------------
(***************************************************************************)
(* Proofs about the session store and about the drivers that call it, for  *)
(* any number of sessions, runs, tokens, turns, items, calls, checkpoints, *)
(* timestamps and drivers.                                                 *)
(***************************************************************************)
EXTENDS TurnLoop, SessionRefinement, TLAPS

-----------------------------------------------------------------------------
(***************************************************************************)
(* The store: its invariants, the history of its rows and, in the last     *)
(* part, that it implements the contract of a session.                     *)
(***************************************************************************)

\* Every action keeps each column within its type.
LEMMA TypeOKStep == TypeOK /\ [Next]_storeVars => TypeOK'
<1> SUFFICES ASSUME TypeOK, [Next]_storeVars PROVE TypeOK'
  BY Zenon
<1> USE IdentityAssumption DEF TypeOK, Writable, OpenRun, TerminalRun, OpenTurn, ClosedTurn,
      OpenCall, SettledCall, LeaseStates, runVars, turnVars, inboxVars, callVars, ckptVars
<1>1. ASSUME NEW r \in Runs, NEW k \in Tokens, AdmitRun(r, k) PROVE TypeOK'
  BY Zenon, <1>1 DEF AdmitRun
<1>2. ASSUME NEW r \in Runs, NEW k \in Tokens, ClaimRun(r, k) PROVE TypeOK'
  BY Zenon, <1>2 DEF ClaimRun
<1>3. ASSUME NEW r \in Runs, LeaseExpires(r) PROVE TypeOK'
  BY Zenon, <1>3 DEF LeaseExpires
<1>4. ASSUME NEW r \in Runs, NEW i \in Items, EnqueueInboxForRun(r, i) PROVE TypeOK'
  BY ZenonT(60), <1>4 DEF EnqueueInboxForRun
<1>5. ASSUME NEW r \in Runs, NEW k \in Tokens, StartRun(r, k) PROVE TypeOK'
  BY Zenon, <1>5 DEF StartRun
<1>6. ASSUME NEW r \in Runs, NEW k \in Tokens, RenewRunLease(r, k) PROVE TypeOK'
  BY Zenon, <1>6 DEF RenewRunLease
<1>7. ASSUME NEW r \in Runs, NEW k \in Tokens, NEW t \in Turns, NEW n \in Ordinals,
             NEW ids \in SUBSET Items, AdmitTurn(r, k, t, n, ids) PROVE TypeOK'
  BY Zenon, <1>7 DEF AdmitTurn
<1>8. ASSUME NEW r \in Runs, NEW k \in Tokens, NEW t \in Turns, NEW at \in Stamps,
             CompleteTurn(r, k, t, at) PROVE TypeOK'
  BY Zenon, <1>8 DEF CompleteTurn, settleInboxForTurn
<1>9. ASSUME NEW r \in Runs, NEW k \in Tokens, NEW t \in Turns, NEW at \in Stamps,
             ReconcileInterruptedTurn(r, k, t, at) PROVE TypeOK'
  BY Zenon, <1>9 DEF ReconcileInterruptedTurn, settleInboxForTurn
<1>10. ASSUME NEW r \in Runs, NEW k \in Tokens, NEW t \in Turns,
              ResumeInterruptedTurn(r, k, t) PROVE TypeOK'
  BY Zenon, <1>10 DEF ResumeInterruptedTurn, settleInboxForTurn
<1>11. ASSUME NEW r \in Runs, NEW k \in Tokens, NEW v \in Revisions, NEW b \in Blobs,
              StageCheckpoint(r, k, v, b) PROVE TypeOK'
  BY Zenon, <1>11 DEF StageCheckpoint
<1>12. ASSUME NEW r \in Runs, NEW k \in Tokens, NEW v \in Revisions, NEW t \in Turns,
              NEW ids \in SUBSET Items, NEW at \in Stamps,
              PromotePause(r, k, v, t, ids, at) PROVE TypeOK'
  BY Zenon, <1>12 DEF PromotePause
<1>13. ASSUME NEW r \in Runs, NEW k \in Tokens, NEW v \in Revisions \cup {0},
              RepauseRun(r, k, v) PROVE TypeOK'
  BY ZenonT(60), <1>13 DEF RepauseRun
<1>14. ASSUME NEW r \in Runs, NEW k \in Tokens, NEW v \in Revisions,
              RetireCheckpoints(r, k, v) PROVE TypeOK'
  BY <1>14 DEF RetireCheckpoints, deleteCheckpointsUpTo
<1>15. ASSUME NEW r \in Runs, NEW v \in Revisions, RetireRunCheckpoints(r, v) PROVE TypeOK'
  BY <1>15 DEF RetireRunCheckpoints, deleteCheckpointsUpTo
<1>16. ASSUME NEW r \in Runs, NEW k \in Tokens, NEW c \in Calls, CreateToolCall(r, k, c)
       PROVE TypeOK'
  BY Zenon, <1>16 DEF CreateToolCall
<1>17. ASSUME NEW r \in Runs, NEW k \in Tokens, NEW c \in Calls, NEW w \in Claims,
              ClaimToolCall(r, k, c, w) PROVE TypeOK'
  BY Zenon, <1>17 DEF ClaimToolCall
<1>18. ASSUME NEW r \in Runs, NEW k \in Tokens, NEW c \in Calls, NEW w \in Claims,
              NEW o \in SettledCall, SettleToolCall(r, k, c, w, o) PROVE TypeOK'
  BY Zenon, <1>18 DEF SettleToolCall
<1>19. ASSUME NEW r \in Runs, NEW k \in Tokens, NEW o \in TerminalRun, NEW at \in Stamps,
              SettleRun(r, k, o, at) PROVE TypeOK'
  BY Zenon, <1>19 DEF SettleRun, settleInboxForTurn
<1>20. CASE UNCHANGED storeVars
  BY Zenon, <1>20 DEF storeVars
<1>21. ASSUME NEW r \in Runs, NEW k \in Tokens, NEW t \in Turns, AdmitDurable(r, k, t)
       PROVE TypeOK'
  BY Zenon, <1>21 DEF AdmitDurable, activeRun, nextOrdinal
<1>22. ASSUME NEW i \in Items, EnqueueInbox(i) PROVE TypeOK'
  BY Zenon, <1>22 DEF EnqueueInbox
<1> HIDE DEF TypeOK, SettledCall, TerminalRun
<1> QED
  BY Zenon, <1>1, <1>2, <1>3, <1>4, <1>5, <1>6, <1>7, <1>8, <1>9, <1>10, <1>11, <1>12, <1>13, <1>14,
     <1>15, <1>16, <1>17, <1>18, <1>19, <1>20, <1>21, <1>22 DEF Next

(***************************************************************************)
(* The inductive invariant.  The safety invariants of the store are        *)
(* inductive together once two facts about absent rows are added: a turn   *)
(* or call without a row belongs to no run, and only an item that has a    *)
(* row, in the session of the run, is acknowledged for a run.              *)
(***************************************************************************)

\* A turn or a tool call has a row exactly when it belongs to a run.
RowOwned ==
    /\ \A t \in Turns : turnState[t] = "none" <=> turnRun[t] = None
    /\ \A c \in Calls : callState[c] = "none" <=> callRun[c] = None

\* An acknowledged item has a row, in the session of the run it was sent to.
AckedHasRow ==
    \A i \in Items : \A r \in acked[i] :
        inboxState[i] # "none" /\ ItemSession[i] = RunSession[r]

IInv ==
    /\ TypeOK
    /\ OneOpenRun
    /\ InboxFollowsTurn
    /\ TerminalRunIsSettled
    /\ RowOwned
    /\ OrdinalsContiguous
    /\ AckedHasRow
    /\ AcceptedInputNotStranded

\* Only AdmitRun opens a run, and it finds no other one open in the session.
LEMMA OneOpenRunStep == IInv /\ [Next]_storeVars => OneOpenRun'
<1> SUFFICES ASSUME IInv, [Next]_storeVars PROVE OneOpenRun'
  BY Zenon
<1> USE IdentityAssumption, NoneAssumption DEF IInv, TypeOK, OneOpenRun, Writable, OpenRun,
      TerminalRun, OpenTurn, ClosedTurn, OpenCall, SettledCall, loadRunFence, runVars, turnVars,
      inboxVars, callVars, ckptVars
<1>1. ASSUME NEW r \in Runs, NEW k \in Tokens, AdmitRun(r, k) PROVE OneOpenRun'
  BY Zenon, <1>1 DEF AdmitRun, activeRun
<1>2. ASSUME NEW r \in Runs, NEW k \in Tokens, ClaimRun(r, k) PROVE OneOpenRun'
  BY ZenonT(60), <1>2 DEF ClaimRun
<1>3. CASE UNCHANGED storeVars
  BY Zenon, <1>3 DEF storeVars
<1>4. ASSUME NEW r \in Runs, LeaseExpires(r) PROVE OneOpenRun'
  BY Zenon, <1>4 DEF LeaseExpires
<1>5. ASSUME NEW r \in Runs, NEW i \in Items, EnqueueInboxForRun(r, i) PROVE OneOpenRun'
  BY Zenon, <1>5 DEF EnqueueInboxForRun
<1>6. ASSUME NEW r \in Runs, NEW k \in Tokens, StartRun(r, k) PROVE OneOpenRun'
  BY ZenonT(60), <1>6 DEF StartRun
<1>7. ASSUME NEW r \in Runs, NEW k \in Tokens, RenewRunLease(r, k) PROVE OneOpenRun'
  BY Zenon, <1>7 DEF RenewRunLease
<1>8. ASSUME NEW r \in Runs, NEW k \in Tokens, NEW t \in Turns, NEW n \in Ordinals, NEW ids \in
      SUBSET Items, AdmitTurn(r, k, t, n, ids) PROVE OneOpenRun'
  BY Zenon, <1>8 DEF AdmitTurn
<1>9. ASSUME NEW r \in Runs, NEW k \in Tokens, NEW t \in Turns, NEW at \in Stamps,
      CompleteTurn(r, k, t, at) PROVE OneOpenRun'
  BY Zenon, <1>9 DEF CompleteTurn
<1>10. ASSUME NEW r \in Runs, NEW k \in Tokens, NEW t \in Turns, NEW at \in Stamps,
      ReconcileInterruptedTurn(r, k, t, at) PROVE OneOpenRun'
  BY Zenon, <1>10 DEF ReconcileInterruptedTurn
<1>11. ASSUME NEW r \in Runs, NEW k \in Tokens, NEW t \in Turns, ResumeInterruptedTurn(r, k, t)
      PROVE OneOpenRun'
  BY Zenon, <1>11 DEF ResumeInterruptedTurn
<1>12. ASSUME NEW r \in Runs, NEW k \in Tokens, NEW v \in Revisions, NEW b \in Blobs,
      StageCheckpoint(r, k, v, b) PROVE OneOpenRun'
  BY Zenon, <1>12 DEF StageCheckpoint
<1>13. ASSUME NEW r \in Runs, NEW k \in Tokens, NEW v \in Revisions, NEW t \in Turns, NEW ids
      \in SUBSET Items, NEW at \in Stamps, PromotePause(r, k, v, t, ids, at) PROVE OneOpenRun'
  BY ZenonT(60), <1>13 DEF PromotePause
<1>14. ASSUME NEW r \in Runs, NEW k \in Tokens, NEW v \in Revisions \cup {0}, RepauseRun(r, k,
      v) PROVE OneOpenRun'
  BY ZenonT(60), <1>14 DEF RepauseRun
<1>15. ASSUME NEW r \in Runs, NEW k \in Tokens, NEW v \in Revisions, RetireCheckpoints(r, k, v)
      PROVE OneOpenRun'
  BY Zenon, <1>15 DEF RetireCheckpoints, deleteCheckpointsUpTo
<1>16. ASSUME NEW r \in Runs, NEW v \in Revisions, RetireRunCheckpoints(r, v) PROVE OneOpenRun'
  BY Zenon, <1>16 DEF RetireRunCheckpoints, deleteCheckpointsUpTo
<1>17. ASSUME NEW r \in Runs, NEW k \in Tokens, NEW c \in Calls, CreateToolCall(r, k, c) PROVE
      OneOpenRun'
  BY Zenon, <1>17 DEF CreateToolCall
<1>18. ASSUME NEW r \in Runs, NEW k \in Tokens, NEW c \in Calls, NEW w \in Claims,
      ClaimToolCall(r, k, c, w) PROVE OneOpenRun'
  BY Zenon, <1>18 DEF ClaimToolCall
<1>19. ASSUME NEW r \in Runs, NEW k \in Tokens, NEW c \in Calls, NEW w \in Claims, NEW o \in
      SettledCall, SettleToolCall(r, k, c, w, o) PROVE OneOpenRun'
  BY Zenon, <1>19 DEF SettleToolCall
<1>20. ASSUME NEW r \in Runs, NEW k \in Tokens, NEW o \in TerminalRun, NEW at \in Stamps,
      SettleRun(r, k, o, at) PROVE OneOpenRun'
  BY Zenon, <1>20 DEF SettleRun
<1>21. ASSUME NEW r \in Runs, NEW k \in Tokens, NEW t \in Turns, AdmitDurable(r, k, t)
       PROVE OneOpenRun'
  BY ZenonT(60), <1>21 DEF AdmitDurable, activeRun, nextOrdinal
<1>22. ASSUME NEW i \in Items, EnqueueInbox(i) PROVE OneOpenRun'
  BY Zenon, <1>22 DEF EnqueueInbox
<1> HIDE DEF SettledCall, TerminalRun, IInv, OneOpenRun
<1> QED
  BY Zenon, <1>1, <1>2, <1>3, <1>4, <1>5, <1>6, <1>7, <1>8, <1>9, <1>10, <1>11, <1>12, <1>13, <1>14,
     <1>15, <1>16, <1>17, <1>18, <1>19, <1>20, <1>21, <1>22 DEF Next

\* The actions that move a turn move its items in the same transaction.
LEMMA InboxFollowsTurnStep == IInv /\ [Next]_storeVars => InboxFollowsTurn'
<1> SUFFICES ASSUME IInv, [Next]_storeVars PROVE InboxFollowsTurn'
  BY Zenon
<1> USE IdentityAssumption, NoneAssumption DEF IInv, TypeOK, InboxFollowsTurn, Writable,
      OpenRun, TerminalRun, OpenTurn, ClosedTurn, OpenCall, SettledCall, loadRunFence, runVars,
      turnVars, inboxVars, callVars, ckptVars
<1>1. ASSUME NEW r \in Runs, NEW i \in Items, EnqueueInboxForRun(r, i) PROVE InboxFollowsTurn'
  BY <1>1 DEF EnqueueInboxForRun
<1>2. ASSUME NEW r \in Runs, NEW k \in Tokens, NEW t \in Turns, NEW n \in Ordinals, NEW ids \in
      SUBSET Items, AdmitTurn(r, k, t, n, ids) PROVE InboxFollowsTurn'
  BY <1>2 DEF AdmitTurn, createTurn, nextOrdinal, consumable
<1>3. ASSUME NEW r \in Runs, NEW k \in Tokens, NEW t \in Turns, NEW at \in Stamps,
      CompleteTurn(r, k, t, at) PROVE InboxFollowsTurn'
  BY <1>3 DEF CompleteTurn, settleInboxForTurn
<1>4. ASSUME NEW r \in Runs, NEW k \in Tokens, NEW t \in Turns, NEW at \in Stamps,
      ReconcileInterruptedTurn(r, k, t, at) PROVE InboxFollowsTurn'
  BY <1>4 DEF ReconcileInterruptedTurn, settleInboxForTurn, ApplyInterruptTurn
<1>5. ASSUME NEW r \in Runs, NEW k \in Tokens, NEW t \in Turns, ResumeInterruptedTurn(r, k, t)
      PROVE InboxFollowsTurn'
  BY <1>5 DEF ResumeInterruptedTurn, settleInboxForTurn
<1>6. ASSUME NEW r \in Runs, NEW k \in Tokens, NEW v \in Revisions, NEW t \in Turns, NEW ids \in
      SUBSET Items, NEW at \in Stamps, PromotePause(r, k, v, t, ids, at) PROVE InboxFollowsTurn'
  BY ZenonT(60), <1>6 DEF PromotePause, ApplyInterruptTurn, interruptible
<1>7. ASSUME NEW r \in Runs, NEW k \in Tokens, NEW o \in TerminalRun, NEW at \in Stamps,
      SettleRun(r, k, o, at) PROVE InboxFollowsTurn'
  BY ZenonT(60), <1>7 DEF SettleRun, settleInboxForTurn, residualTurns, toolCallsSettled, queueDrained
<1>8. CASE UNCHANGED storeVars
  BY Zenon, <1>8 DEF storeVars
<1>9. ASSUME NEW r \in Runs, NEW k \in Tokens, AdmitRun(r, k) PROVE InboxFollowsTurn'
  BY Zenon, <1>9 DEF AdmitRun
<1>10. ASSUME NEW r \in Runs, NEW k \in Tokens, ClaimRun(r, k) PROVE InboxFollowsTurn'
  BY Zenon, <1>10 DEF ClaimRun
<1>11. ASSUME NEW r \in Runs, LeaseExpires(r) PROVE InboxFollowsTurn'
  BY Zenon, <1>11 DEF LeaseExpires
<1>12. ASSUME NEW r \in Runs, NEW k \in Tokens, StartRun(r, k) PROVE InboxFollowsTurn'
  BY Zenon, <1>12 DEF StartRun
<1>13. ASSUME NEW r \in Runs, NEW k \in Tokens, RenewRunLease(r, k) PROVE InboxFollowsTurn'
  BY Zenon, <1>13 DEF RenewRunLease
<1>14. ASSUME NEW r \in Runs, NEW k \in Tokens, NEW v \in Revisions, NEW b \in Blobs,
      StageCheckpoint(r, k, v, b) PROVE InboxFollowsTurn'
  BY Zenon, <1>14 DEF StageCheckpoint
<1>15. ASSUME NEW r \in Runs, NEW k \in Tokens, NEW v \in Revisions \cup {0}, RepauseRun(r, k,
      v) PROVE InboxFollowsTurn'
  BY Zenon, <1>15 DEF RepauseRun
<1>16. ASSUME NEW r \in Runs, NEW k \in Tokens, NEW v \in Revisions, RetireCheckpoints(r, k, v)
      PROVE InboxFollowsTurn'
  BY Zenon, <1>16 DEF RetireCheckpoints, deleteCheckpointsUpTo
<1>17. ASSUME NEW r \in Runs, NEW v \in Revisions, RetireRunCheckpoints(r, v) PROVE
      InboxFollowsTurn'
  BY Zenon, <1>17 DEF RetireRunCheckpoints, deleteCheckpointsUpTo
<1>18. ASSUME NEW r \in Runs, NEW k \in Tokens, NEW c \in Calls, CreateToolCall(r, k, c) PROVE
      InboxFollowsTurn'
  BY Zenon, <1>18 DEF CreateToolCall
<1>19. ASSUME NEW r \in Runs, NEW k \in Tokens, NEW c \in Calls, NEW w \in Claims,
      ClaimToolCall(r, k, c, w) PROVE InboxFollowsTurn'
  BY Zenon, <1>19 DEF ClaimToolCall
<1>20. ASSUME NEW r \in Runs, NEW k \in Tokens, NEW c \in Calls, NEW w \in Claims, NEW o \in
      SettledCall, SettleToolCall(r, k, c, w, o) PROVE InboxFollowsTurn'
  BY Zenon, <1>20 DEF SettleToolCall
<1>21. ASSUME NEW r \in Runs, NEW k \in Tokens, NEW t \in Turns, AdmitDurable(r, k, t)
       PROVE InboxFollowsTurn'
  BY <1>21 DEF AdmitDurable, activeRun, nextOrdinal
<1>22. ASSUME NEW i \in Items, EnqueueInbox(i) PROVE InboxFollowsTurn'
  BY <1>22 DEF EnqueueInbox
<1> HIDE DEF SettledCall, TerminalRun, IInv, InboxFollowsTurn
<1> QED
  BY Zenon, <1>1, <1>2, <1>3, <1>4, <1>5, <1>6, <1>7, <1>8, <1>9, <1>10, <1>11, <1>12, <1>13, <1>14,
     <1>15, <1>16, <1>17, <1>18, <1>19, <1>20, <1>21, <1>22 DEF Next

\* A settlement closes what the run holds, and no fenced action reopens it.
LEMMA TerminalRunIsSettledStep == IInv /\ [Next]_storeVars => TerminalRunIsSettled'
<1> SUFFICES ASSUME IInv, [Next]_storeVars PROVE TerminalRunIsSettled'
  BY Zenon
<1> USE IdentityAssumption, NoneAssumption DEF IInv, TypeOK, TerminalRunIsSettled,
      InboxFollowsTurn, RowOwned, Writable, OpenRun, TerminalRun, OpenTurn, ClosedTurn, OpenCall,
      SettledCall, loadRunFence, runVars, turnVars, inboxVars, callVars, ckptVars
<1>1. ASSUME NEW r \in Runs, NEW k \in Tokens, AdmitRun(r, k) PROVE TerminalRunIsSettled'
  BY <1>1 DEF AdmitRun, activeRun
<1>2. ASSUME NEW r \in Runs, NEW k \in Tokens, ClaimRun(r, k) PROVE TerminalRunIsSettled'
  BY <1>2 DEF ClaimRun
<1>3. ASSUME NEW r \in Runs, NEW i \in Items, EnqueueInboxForRun(r, i) PROVE
      TerminalRunIsSettled'
  BY <1>3 DEF EnqueueInboxForRun
<1>4. ASSUME NEW r \in Runs, NEW k \in Tokens, NEW t \in Turns, NEW n \in Ordinals, NEW ids \in
      SUBSET Items, AdmitTurn(r, k, t, n, ids) PROVE TerminalRunIsSettled'
  BY <1>4 DEF AdmitTurn, createTurn, nextOrdinal, consumable
<1>5. ASSUME NEW r \in Runs, NEW k \in Tokens, NEW t \in Turns, NEW at \in Stamps,
      CompleteTurn(r, k, t, at) PROVE TerminalRunIsSettled'
  BY <1>5 DEF CompleteTurn, settleInboxForTurn
<1>6. ASSUME NEW r \in Runs, NEW k \in Tokens, NEW t \in Turns, NEW at \in Stamps,
      ReconcileInterruptedTurn(r, k, t, at) PROVE TerminalRunIsSettled'
  BY <1>6 DEF ReconcileInterruptedTurn, settleInboxForTurn, ApplyInterruptTurn
<1>7. ASSUME NEW r \in Runs, NEW k \in Tokens, NEW t \in Turns, ResumeInterruptedTurn(r, k, t)
      PROVE TerminalRunIsSettled'
  BY <1>7 DEF ResumeInterruptedTurn, settleInboxForTurn
<1>8. ASSUME NEW r \in Runs, NEW k \in Tokens, NEW v \in Revisions, NEW t \in Turns, NEW ids \in
      SUBSET Items, NEW at \in Stamps, PromotePause(r, k, v, t, ids, at) PROVE
      TerminalRunIsSettled'
  BY <1>8 DEF PromotePause, ApplyInterruptTurn, interruptible
<1>9. ASSUME NEW r \in Runs, NEW k \in Tokens, NEW c \in Calls, CreateToolCall(r, k, c) PROVE
      TerminalRunIsSettled'
  BY <1>9 DEF CreateToolCall
<1>10. ASSUME NEW r \in Runs, NEW k \in Tokens, NEW c \in Calls, NEW w \in Claims,
      ClaimToolCall(r, k, c, w) PROVE TerminalRunIsSettled'
  BY <1>10 DEF ClaimToolCall, claimable
<1>11. ASSUME NEW r \in Runs, NEW k \in Tokens, NEW c \in Calls, NEW w \in Claims, NEW o \in
      SettledCall, SettleToolCall(r, k, c, w, o) PROVE TerminalRunIsSettled'
  BY <1>11 DEF SettleToolCall
<1>12. ASSUME NEW r \in Runs, NEW k \in Tokens, NEW o \in TerminalRun, NEW at \in Stamps,
      SettleRun(r, k, o, at) PROVE TerminalRunIsSettled'
  <2>1. ASSUME NEW q \in Runs, runStatus'[q] \in TerminalRun
        PROVE  /\ \A t \in Turns : turnRun'[t] = q => turnState'[t] \in ClosedTurn
               /\ \A c \in Calls : callRun'[c] = q => callState'[c] \in SettledCall
    <3>1. q = r \/ runStatus[q] \in TerminalRun
      BY <1>12, <2>1 DEF SettleRun
    <3> QED
      BY <1>12, <3>1 DEF SettleRun, residualTurns, toolCallsSettled
  <2>2. ASSUME NEW q \in Runs, runStatus'[q] \in TerminalRun, NEW i \in Items,
               inboxTurn'[i] \in Turns, turnRun'[inboxTurn'[i]] = q
        PROVE  inboxState'[i] \in {"completed", "interrupted"}
    <3>1. q = r \/ runStatus[q] \in TerminalRun
      BY Zenon, <1>12, <2>2 DEF SettleRun
    <3> QED
      BY Zenon, <1>12, <2>2, <3>1 DEF SettleRun, settleInboxForTurn, residualTurns
  <2> QED
    BY ZenonT(60), <2>1, <2>2
<1>13. CASE UNCHANGED storeVars
  BY ZenonT(60), <1>13 DEF storeVars
<1>14. ASSUME NEW r \in Runs, LeaseExpires(r) PROVE TerminalRunIsSettled'
  BY <1>14 DEF LeaseExpires
<1>15. ASSUME NEW r \in Runs, NEW k \in Tokens, StartRun(r, k) PROVE TerminalRunIsSettled'
  BY <1>15 DEF StartRun
<1>16. ASSUME NEW r \in Runs, NEW k \in Tokens, RenewRunLease(r, k) PROVE TerminalRunIsSettled'
  BY ZenonT(60), <1>16 DEF RenewRunLease
<1>17. ASSUME NEW r \in Runs, NEW k \in Tokens, NEW v \in Revisions, NEW b \in Blobs,
      StageCheckpoint(r, k, v, b) PROVE TerminalRunIsSettled'
  BY <1>17 DEF StageCheckpoint
<1>18. ASSUME NEW r \in Runs, NEW k \in Tokens, NEW v \in Revisions \cup {0}, RepauseRun(r, k,
      v) PROVE TerminalRunIsSettled'
  BY <1>18 DEF RepauseRun
<1>19. ASSUME NEW r \in Runs, NEW k \in Tokens, NEW v \in Revisions, RetireCheckpoints(r, k, v)
      PROVE TerminalRunIsSettled'
  BY <1>19 DEF RetireCheckpoints, deleteCheckpointsUpTo
<1>20. ASSUME NEW r \in Runs, NEW v \in Revisions, RetireRunCheckpoints(r, v) PROVE
      TerminalRunIsSettled'
  BY ZenonT(60), <1>20 DEF RetireRunCheckpoints, deleteCheckpointsUpTo
<1>21. ASSUME NEW r \in Runs, NEW k \in Tokens, NEW t \in Turns, AdmitDurable(r, k, t)
       PROVE TerminalRunIsSettled'
  BY <1>21 DEF AdmitDurable, activeRun, nextOrdinal
<1>22. ASSUME NEW i \in Items, EnqueueInbox(i) PROVE TerminalRunIsSettled'
  BY <1>22 DEF EnqueueInbox
<1> HIDE DEF SettledCall, TerminalRun, IInv, TerminalRunIsSettled
<1> QED
  BY Zenon, <1>1, <1>2, <1>3, <1>4, <1>5, <1>6, <1>7, <1>8, <1>9, <1>10, <1>11, <1>12, <1>13, <1>14,
     <1>15, <1>16, <1>17, <1>18, <1>19, <1>20, <1>21, <1>22 DEF Next

\* AdmitTurn and CreateToolCall write the run and the state of a row together.
LEMMA RowOwnedStep == IInv /\ [Next]_storeVars => RowOwned'
<1> SUFFICES ASSUME IInv, [Next]_storeVars PROVE RowOwned'
  BY Zenon
<1> USE IdentityAssumption, NoneAssumption DEF IInv, TypeOK, RowOwned, Writable, OpenRun,
      TerminalRun, OpenTurn, ClosedTurn, OpenCall, SettledCall, loadRunFence, runVars, turnVars,
      inboxVars, callVars, ckptVars
<1>1. ASSUME NEW r \in Runs, NEW k \in Tokens, NEW t \in Turns, NEW n \in Ordinals, NEW ids \in
      SUBSET Items, AdmitTurn(r, k, t, n, ids) PROVE RowOwned'
  BY ZenonT(60), <1>1 DEF AdmitTurn, createTurn, nextOrdinal, consumable
<1>2. ASSUME NEW r \in Runs, NEW k \in Tokens, NEW t \in Turns, NEW at \in Stamps,
      CompleteTurn(r, k, t, at) PROVE RowOwned'
  BY <1>2 DEF CompleteTurn, settleInboxForTurn
<1>3. ASSUME NEW r \in Runs, NEW k \in Tokens, NEW t \in Turns, NEW at \in Stamps,
      ReconcileInterruptedTurn(r, k, t, at) PROVE RowOwned'
  BY <1>3 DEF ReconcileInterruptedTurn, settleInboxForTurn, ApplyInterruptTurn
<1>4. ASSUME NEW r \in Runs, NEW k \in Tokens, NEW t \in Turns, ResumeInterruptedTurn(r, k, t)
      PROVE RowOwned'
  BY <1>4 DEF ResumeInterruptedTurn, settleInboxForTurn
<1>5. ASSUME NEW r \in Runs, NEW k \in Tokens, NEW v \in Revisions, NEW t \in Turns, NEW ids \in
      SUBSET Items, NEW at \in Stamps, PromotePause(r, k, v, t, ids, at) PROVE RowOwned'
  BY ZenonT(60), <1>5 DEF PromotePause, ApplyInterruptTurn, interruptible
<1>6. ASSUME NEW r \in Runs, NEW k \in Tokens, NEW o \in TerminalRun, NEW at \in Stamps,
      SettleRun(r, k, o, at) PROVE RowOwned'
  BY Zenon, <1>6 DEF SettleRun, settleInboxForTurn, residualTurns, toolCallsSettled, queueDrained
<1>7. CASE UNCHANGED storeVars
  BY Zenon, <1>7 DEF storeVars
<1>8. ASSUME NEW r \in Runs, NEW k \in Tokens, AdmitRun(r, k) PROVE RowOwned'
  BY Zenon, <1>8 DEF AdmitRun
<1>9. ASSUME NEW r \in Runs, NEW k \in Tokens, ClaimRun(r, k) PROVE RowOwned'
  BY Zenon, <1>9 DEF ClaimRun
<1>10. ASSUME NEW r \in Runs, LeaseExpires(r) PROVE RowOwned'
  BY Zenon, <1>10 DEF LeaseExpires
<1>11. ASSUME NEW r \in Runs, NEW i \in Items, EnqueueInboxForRun(r, i) PROVE RowOwned'
  BY Zenon, <1>11 DEF EnqueueInboxForRun
<1>12. ASSUME NEW r \in Runs, NEW k \in Tokens, StartRun(r, k) PROVE RowOwned'
  BY Zenon, <1>12 DEF StartRun
<1>13. ASSUME NEW r \in Runs, NEW k \in Tokens, RenewRunLease(r, k) PROVE RowOwned'
  BY Zenon, <1>13 DEF RenewRunLease
<1>14. ASSUME NEW r \in Runs, NEW k \in Tokens, NEW v \in Revisions, NEW b \in Blobs,
      StageCheckpoint(r, k, v, b) PROVE RowOwned'
  BY Zenon, <1>14 DEF StageCheckpoint
<1>15. ASSUME NEW r \in Runs, NEW k \in Tokens, NEW v \in Revisions \cup {0}, RepauseRun(r, k,
      v) PROVE RowOwned'
  BY Zenon, <1>15 DEF RepauseRun
<1>16. ASSUME NEW r \in Runs, NEW k \in Tokens, NEW v \in Revisions, RetireCheckpoints(r, k, v)
      PROVE RowOwned'
  BY Zenon, <1>16 DEF RetireCheckpoints, deleteCheckpointsUpTo
<1>17. ASSUME NEW r \in Runs, NEW v \in Revisions, RetireRunCheckpoints(r, v) PROVE
      RowOwned'
  BY Zenon, <1>17 DEF RetireRunCheckpoints, deleteCheckpointsUpTo
<1>18. ASSUME NEW r \in Runs, NEW k \in Tokens, NEW c \in Calls, CreateToolCall(r, k, c) PROVE
      RowOwned'
  BY ZenonT(60), <1>18 DEF CreateToolCall
<1>19. ASSUME NEW r \in Runs, NEW k \in Tokens, NEW c \in Calls, NEW w \in Claims,
      ClaimToolCall(r, k, c, w) PROVE RowOwned'
  BY <1>19 DEF ClaimToolCall
<1>20. ASSUME NEW r \in Runs, NEW k \in Tokens, NEW c \in Calls, NEW w \in Claims, NEW o \in
      SettledCall, SettleToolCall(r, k, c, w, o) PROVE RowOwned'
  BY <1>20 DEF SettleToolCall
<1>21. ASSUME NEW r \in Runs, NEW k \in Tokens, NEW t \in Turns, AdmitDurable(r, k, t)
       PROVE RowOwned'
  BY ZenonT(60), <1>21 DEF AdmitDurable, activeRun, nextOrdinal
<1>22. ASSUME NEW i \in Items, EnqueueInbox(i) PROVE RowOwned'
  BY Zenon, <1>22 DEF EnqueueInbox
<1> HIDE DEF SettledCall, TerminalRun, IInv, RowOwned
<1> QED
  BY Zenon, <1>1, <1>2, <1>3, <1>4, <1>5, <1>6, <1>7, <1>8, <1>9, <1>10, <1>11, <1>12, <1>13, <1>14,
     <1>15, <1>16, <1>17, <1>18, <1>19, <1>20, <1>21, <1>22 DEF Next

\* Appending a turn at the next ordinal keeps the numbering without gaps.
LEMMA AppendTurn ==
    ASSUME IInv, NEW r \in Runs, NEW t \in Turns, NEW n \in Ordinals,
           turnState[t] = "none", nextOrdinal(r, n),
           turnRun' = [turnRun EXCEPT ![t] = r],
           turnOrdinal' = [turnOrdinal EXCEPT ![t] = n]
    PROVE  OrdinalsContiguous'
<1> USE IdentityAssumption, NoneAssumption DEF IInv, TypeOK, OrdinalsContiguous, RowOwned
<1>1. \A u \in Turns : u # t => turnRun'[u] = turnRun[u] /\ turnOrdinal'[u] = turnOrdinal[u]
  BY Zenon
<1>2. turnRun'[t] = r /\ turnOrdinal'[t] = n /\ turnRun[t] = None
  BY Zenon
<1>3. \A u \in Turns : turnRun[u] = r => turnOrdinal[u] < n /\ u # t
  BY Zenon, <1>2 DEF nextOrdinal
<1>4. n = 1 \/ \E u \in Turns : turnRun[u] = r /\ turnOrdinal[u] = n - 1
  BY Zenon DEF nextOrdinal
<1>5. n \in Nat /\ \A u \in Turns : turnOrdinal[u] \in Nat
  <2>1. Ordinals \cup {0} \subseteq Nat
    BY IdentityAssumption
  <2>2. turnOrdinal \in [Turns -> Ordinals \cup {0}]
    BY Zenon DEF IInv, TypeOK
  <2> HIDE DEF TypeOK, IInv
  <2> QED
    BY ZenonT(40), <2>1, <2>2
<1> HIDE DEF TypeOK, IInv
<1>7. ASSUME NEW u \in Turns, NEW w \in Turns, turnRun'[u] # None,
             turnRun'[u] = turnRun'[w], turnOrdinal'[u] = turnOrdinal'[w]
      PROVE  u = w
  <2>1. CASE u # t /\ w # t
    BY <1>1, <1>7, <2>1 DEF IInv
  <2>2. CASE u = t \/ w = t
    BY <1>1, <1>2, <1>3, <1>5, <1>7, <2>2
  <2> QED
    BY Zenon, <2>1, <2>2
<1>8. ASSUME NEW u \in Turns, turnRun'[u] # None, turnOrdinal'[u] > 1
      PROVE  \E w \in Turns : turnRun'[w] = turnRun'[u] /\ turnOrdinal'[w] = turnOrdinal'[u] - 1
  <2>1. CASE u = t
    BY <1>1, <1>2, <1>3, <1>4, <1>5, <1>8, <2>1
  <2>2. CASE u # t
    <3>1. PICK w \in Turns : turnRun[w] = turnRun[u] /\ turnOrdinal[w] = turnOrdinal[u] - 1
      BY Zenon, <1>1, <1>8, <2>2 DEF IInv
    <3> QED
      BY Zenon, <1>1, <1>2, <1>8, <2>2, <3>1
  <2> QED
    BY Zenon, <2>1, <2>2
<1> QED
  BY Zenon, <1>7, <1>8

\* AdmitTurn appends at the next ordinal of the run; no other action moves one.
LEMMA OrdinalsContiguousStep == IInv /\ [Next]_storeVars => OrdinalsContiguous'
<1> SUFFICES ASSUME IInv, [Next]_storeVars PROVE OrdinalsContiguous'
  BY Zenon
<1> USE IdentityAssumption, NoneAssumption DEF IInv, TypeOK, OrdinalsContiguous, RowOwned,
      Writable, OpenRun, TerminalRun, OpenTurn, ClosedTurn, OpenCall, SettledCall, loadRunFence,
      runVars, turnVars, inboxVars, callVars, ckptVars
<1>1. ASSUME NEW r \in Runs, NEW k \in Tokens, NEW t \in Turns, NEW n \in Ordinals, NEW ids \in
      SUBSET Items, AdmitTurn(r, k, t, n, ids) PROVE OrdinalsContiguous'
  <2>1. CASE turnState[t] = "none" /\ nextOrdinal(r, n)
    BY ZenonT(40), <1>1, <2>1, AppendTurn DEF AdmitTurn
  <2>2. CASE turnState[t] = "admitted" /\ turnRun[t] = r /\ turnOrdinal[t] = n
    <3>1. turnRun' = turnRun /\ turnOrdinal' = turnOrdinal
      BY <1>1, <2>2 DEF AdmitTurn
    <3> QED
      BY Zenon, <3>1
  <2> QED
    BY Zenon, <1>1, <2>1, <2>2 DEF AdmitTurn, createTurn
<1>2. CASE UNCHANGED storeVars
  BY Zenon, <1>2 DEF storeVars
<1>3. ASSUME NEW r \in Runs, NEW k \in Tokens, AdmitRun(r, k) PROVE OrdinalsContiguous'
  BY Zenon, <1>3 DEF AdmitRun
<1>4. ASSUME NEW r \in Runs, NEW k \in Tokens, ClaimRun(r, k) PROVE OrdinalsContiguous'
  BY Zenon, <1>4 DEF ClaimRun
<1>5. ASSUME NEW r \in Runs, LeaseExpires(r) PROVE OrdinalsContiguous'
  BY ZenonT(60), <1>5 DEF LeaseExpires
<1>6. ASSUME NEW r \in Runs, NEW i \in Items, EnqueueInboxForRun(r, i) PROVE OrdinalsContiguous'
  BY Zenon, <1>6 DEF EnqueueInboxForRun
<1>7. ASSUME NEW r \in Runs, NEW k \in Tokens, StartRun(r, k) PROVE OrdinalsContiguous'
  BY Zenon, <1>7 DEF StartRun
<1>8. ASSUME NEW r \in Runs, NEW k \in Tokens, RenewRunLease(r, k) PROVE OrdinalsContiguous'
  BY Zenon, <1>8 DEF RenewRunLease
<1>9. ASSUME NEW r \in Runs, NEW k \in Tokens, NEW t \in Turns, NEW at \in Stamps,
      CompleteTurn(r, k, t, at) PROVE OrdinalsContiguous'
  BY <1>9 DEF CompleteTurn
<1>10. ASSUME NEW r \in Runs, NEW k \in Tokens, NEW t \in Turns, NEW at \in Stamps,
      ReconcileInterruptedTurn(r, k, t, at) PROVE OrdinalsContiguous'
  BY ZenonT(60), <1>10 DEF ReconcileInterruptedTurn
<1>11. ASSUME NEW r \in Runs, NEW k \in Tokens, NEW t \in Turns, ResumeInterruptedTurn(r, k, t)
      PROVE OrdinalsContiguous'
  BY SMTT(40), <1>11 DEF ResumeInterruptedTurn
<1>12. ASSUME NEW r \in Runs, NEW k \in Tokens, NEW v \in Revisions, NEW b \in Blobs,
      StageCheckpoint(r, k, v, b) PROVE OrdinalsContiguous'
  BY Zenon, <1>12 DEF StageCheckpoint
<1>13. ASSUME NEW r \in Runs, NEW k \in Tokens, NEW v \in Revisions, NEW t \in Turns, NEW ids
      \in SUBSET Items, NEW at \in Stamps, PromotePause(r, k, v, t, ids, at) PROVE
      OrdinalsContiguous'
  BY SMTT(40), <1>13 DEF PromotePause
<1>14. ASSUME NEW r \in Runs, NEW k \in Tokens, NEW v \in Revisions \cup {0}, RepauseRun(r, k,
      v) PROVE OrdinalsContiguous'
  BY Zenon, <1>14 DEF RepauseRun
<1>15. ASSUME NEW r \in Runs, NEW k \in Tokens, NEW v \in Revisions, RetireCheckpoints(r, k, v)
      PROVE OrdinalsContiguous'
  BY Zenon, <1>15 DEF RetireCheckpoints, deleteCheckpointsUpTo
<1>16. ASSUME NEW r \in Runs, NEW v \in Revisions, RetireRunCheckpoints(r, v) PROVE
      OrdinalsContiguous'
  BY Zenon, <1>16 DEF RetireRunCheckpoints, deleteCheckpointsUpTo
<1>17. ASSUME NEW r \in Runs, NEW k \in Tokens, NEW c \in Calls, CreateToolCall(r, k, c) PROVE
      OrdinalsContiguous'
  BY Zenon, <1>17 DEF CreateToolCall
<1>18. ASSUME NEW r \in Runs, NEW k \in Tokens, NEW c \in Calls, NEW w \in Claims,
      ClaimToolCall(r, k, c, w) PROVE OrdinalsContiguous'
  BY ZenonT(60), <1>18 DEF ClaimToolCall
<1>19. ASSUME NEW r \in Runs, NEW k \in Tokens, NEW c \in Calls, NEW w \in Claims, NEW o \in
      SettledCall, SettleToolCall(r, k, c, w, o) PROVE OrdinalsContiguous'
  BY ZenonT(60), <1>19 DEF SettleToolCall
<1>20. ASSUME NEW r \in Runs, NEW k \in Tokens, NEW o \in TerminalRun, NEW at \in Stamps,
      SettleRun(r, k, o, at) PROVE OrdinalsContiguous'
  BY ZenonT(60), <1>20 DEF SettleRun
<1>21. ASSUME NEW r \in Runs, NEW k \in Tokens, NEW t \in Turns, AdmitDurable(r, k, t)
       PROVE OrdinalsContiguous'
  <2> HIDE DEF IInv, TypeOK, OrdinalsContiguous, RowOwned
  <2>1. /\ turnState[t] = "none"
        /\ 1 \in Ordinals
        /\ nextOrdinal(r, 1)
        /\ turnRun' = [turnRun EXCEPT ![t] = r]
        /\ turnOrdinal' = [turnOrdinal EXCEPT ![t] = 1]
    BY Zenon, <1>21 DEF AdmitDurable
  <2> QED
    BY ZenonT(40), <2>1, AppendTurn
<1>22. ASSUME NEW i \in Items, EnqueueInbox(i) PROVE OrdinalsContiguous'
  BY Zenon, <1>22 DEF EnqueueInbox
<1> HIDE DEF SettledCall, TerminalRun, IInv, OrdinalsContiguous
<1> QED
  BY Zenon, <1>1, <1>2, <1>3, <1>4, <1>5, <1>6, <1>7, <1>8, <1>9, <1>10, <1>11, <1>12, <1>13, <1>14,
     <1>15, <1>16, <1>17, <1>18, <1>19, <1>20, <1>21, <1>22 DEF Next

\* A submission inserts its row, and rows are never deleted.
LEMMA AckedHasRowStep == IInv /\ [Next]_storeVars => AckedHasRow'
<1> SUFFICES ASSUME IInv, [Next]_storeVars PROVE AckedHasRow'
  BY Zenon
<1> USE IdentityAssumption, NoneAssumption DEF IInv, TypeOK, AckedHasRow, Writable, OpenRun,
      TerminalRun, OpenTurn, ClosedTurn, OpenCall, SettledCall, loadRunFence, runVars, turnVars,
      inboxVars, callVars, ckptVars
<1>1. ASSUME NEW r \in Runs, NEW i \in Items, EnqueueInboxForRun(r, i) PROVE AckedHasRow'
  BY SMTT(40), <1>1 DEF EnqueueInboxForRun
<1>2. ASSUME NEW r \in Runs, NEW k \in Tokens, NEW t \in Turns, NEW n \in Ordinals, NEW ids \in
      SUBSET Items, AdmitTurn(r, k, t, n, ids) PROVE AckedHasRow'
  BY ZenonT(60), <1>2 DEF AdmitTurn, createTurn, nextOrdinal, consumable
<1>3. ASSUME NEW r \in Runs, NEW k \in Tokens, NEW t \in Turns, NEW at \in Stamps,
      CompleteTurn(r, k, t, at) PROVE AckedHasRow'
  BY Zenon, <1>3 DEF CompleteTurn, settleInboxForTurn
<1>4. ASSUME NEW r \in Runs, NEW k \in Tokens, NEW t \in Turns, NEW at \in Stamps,
      ReconcileInterruptedTurn(r, k, t, at) PROVE AckedHasRow'
  BY Zenon, <1>4 DEF ReconcileInterruptedTurn, settleInboxForTurn, ApplyInterruptTurn
<1>5. ASSUME NEW r \in Runs, NEW k \in Tokens, NEW t \in Turns, ResumeInterruptedTurn(r, k, t)
      PROVE AckedHasRow'
  BY Zenon, <1>5 DEF ResumeInterruptedTurn, settleInboxForTurn
<1>6. ASSUME NEW r \in Runs, NEW k \in Tokens, NEW v \in Revisions, NEW t \in Turns, NEW ids \in
      SUBSET Items, NEW at \in Stamps, PromotePause(r, k, v, t, ids, at) PROVE AckedHasRow'
  BY ZenonT(60), <1>6 DEF PromotePause, ApplyInterruptTurn, interruptible
<1>7. ASSUME NEW r \in Runs, NEW k \in Tokens, NEW o \in TerminalRun, NEW at \in Stamps,
      SettleRun(r, k, o, at) PROVE AckedHasRow'
  BY Zenon, <1>7 DEF SettleRun, settleInboxForTurn, residualTurns, toolCallsSettled, queueDrained
<1>8. CASE UNCHANGED storeVars
  BY Zenon, <1>8 DEF storeVars
<1>9. ASSUME NEW r \in Runs, NEW k \in Tokens, AdmitRun(r, k) PROVE AckedHasRow'
  BY Zenon, <1>9 DEF AdmitRun
<1>10. ASSUME NEW r \in Runs, NEW k \in Tokens, ClaimRun(r, k) PROVE AckedHasRow'
  BY Zenon, <1>10 DEF ClaimRun
<1>11. ASSUME NEW r \in Runs, LeaseExpires(r) PROVE AckedHasRow'
  BY Zenon, <1>11 DEF LeaseExpires
<1>12. ASSUME NEW r \in Runs, NEW k \in Tokens, StartRun(r, k) PROVE AckedHasRow'
  BY Zenon, <1>12 DEF StartRun
<1>13. ASSUME NEW r \in Runs, NEW k \in Tokens, RenewRunLease(r, k) PROVE AckedHasRow'
  BY Zenon, <1>13 DEF RenewRunLease
<1>14. ASSUME NEW r \in Runs, NEW k \in Tokens, NEW v \in Revisions, NEW b \in Blobs,
      StageCheckpoint(r, k, v, b) PROVE AckedHasRow'
  BY Zenon, <1>14 DEF StageCheckpoint
<1>15. ASSUME NEW r \in Runs, NEW k \in Tokens, NEW v \in Revisions \cup {0}, RepauseRun(r, k,
      v) PROVE AckedHasRow'
  BY Zenon, <1>15 DEF RepauseRun
<1>16. ASSUME NEW r \in Runs, NEW k \in Tokens, NEW v \in Revisions, RetireCheckpoints(r, k, v)
      PROVE AckedHasRow'
  BY Zenon, <1>16 DEF RetireCheckpoints, deleteCheckpointsUpTo
<1>17. ASSUME NEW r \in Runs, NEW v \in Revisions, RetireRunCheckpoints(r, v) PROVE AckedHasRow'
  BY Zenon, <1>17 DEF RetireRunCheckpoints, deleteCheckpointsUpTo
<1>18. ASSUME NEW r \in Runs, NEW k \in Tokens, NEW c \in Calls, CreateToolCall(r, k, c) PROVE
      AckedHasRow'
  BY Zenon, <1>18 DEF CreateToolCall
<1>19. ASSUME NEW r \in Runs, NEW k \in Tokens, NEW c \in Calls, NEW w \in Claims,
      ClaimToolCall(r, k, c, w) PROVE AckedHasRow'
  BY Zenon, <1>19 DEF ClaimToolCall
<1>20. ASSUME NEW r \in Runs, NEW k \in Tokens, NEW c \in Calls, NEW w \in Claims, NEW o \in
      SettledCall, SettleToolCall(r, k, c, w, o) PROVE AckedHasRow'
  BY Zenon, <1>20 DEF SettleToolCall
<1>21. ASSUME NEW r \in Runs, NEW k \in Tokens, NEW t \in Turns, AdmitDurable(r, k, t)
       PROVE AckedHasRow'
  BY Zenon, <1>21 DEF AdmitDurable, activeRun, nextOrdinal
<1>22. ASSUME NEW i \in Items, EnqueueInbox(i) PROVE AckedHasRow'
  BY ZenonT(60), <1>22 DEF EnqueueInbox
<1> HIDE DEF SettledCall, TerminalRun, IInv, AckedHasRow
<1> QED
  BY Zenon, <1>1, <1>2, <1>3, <1>4, <1>5, <1>6, <1>7, <1>8, <1>9, <1>10, <1>11, <1>12, <1>13, <1>14,
     <1>15, <1>16, <1>17, <1>18, <1>19, <1>20, <1>21, <1>22 DEF Next

\* Completion drains the queue under the lock that a submission also takes.
LEMMA AcceptedInputNotStrandedStep == IInv /\ [Next]_storeVars => AcceptedInputNotStranded'
<1> SUFFICES ASSUME IInv, [Next]_storeVars PROVE AcceptedInputNotStranded'
  BY Zenon
<1> USE IdentityAssumption, NoneAssumption DEF IInv, TypeOK, AckedHasRow,
      AcceptedInputNotStranded, Writable, OpenRun, TerminalRun, OpenTurn, ClosedTurn, OpenCall,
      SettledCall, loadRunFence, runVars, turnVars, inboxVars, callVars, ckptVars
<1>1. ASSUME NEW r \in Runs, NEW i \in Items, EnqueueInboxForRun(r, i) PROVE
      AcceptedInputNotStranded'
  BY Zenon, <1>1 DEF EnqueueInboxForRun
<1>2. ASSUME NEW r \in Runs, NEW k \in Tokens, NEW t \in Turns, NEW n \in Ordinals, NEW ids \in
      SUBSET Items, AdmitTurn(r, k, t, n, ids) PROVE AcceptedInputNotStranded'
  BY Zenon, <1>2 DEF AdmitTurn, createTurn, nextOrdinal, consumable
<1>3. ASSUME NEW r \in Runs, NEW k \in Tokens, NEW t \in Turns, NEW at \in Stamps,
      CompleteTurn(r, k, t, at) PROVE AcceptedInputNotStranded'
  BY Zenon, <1>3 DEF CompleteTurn, settleInboxForTurn
<1>4. ASSUME NEW r \in Runs, NEW k \in Tokens, NEW t \in Turns, NEW at \in Stamps,
      ReconcileInterruptedTurn(r, k, t, at) PROVE AcceptedInputNotStranded'
  BY Zenon, <1>4 DEF ReconcileInterruptedTurn, settleInboxForTurn, ApplyInterruptTurn
<1>5. ASSUME NEW r \in Runs, NEW k \in Tokens, NEW t \in Turns, ResumeInterruptedTurn(r, k, t)
      PROVE AcceptedInputNotStranded'
  BY Zenon, <1>5 DEF ResumeInterruptedTurn, settleInboxForTurn
<1>6. ASSUME NEW r \in Runs, NEW k \in Tokens, NEW v \in Revisions, NEW t \in Turns, NEW ids \in
      SUBSET Items, NEW at \in Stamps, PromotePause(r, k, v, t, ids, at) PROVE
      AcceptedInputNotStranded'
  BY ZenonT(60), <1>6 DEF PromotePause, ApplyInterruptTurn, interruptible
<1>7. ASSUME NEW r \in Runs, NEW k \in Tokens, NEW o \in TerminalRun, NEW at \in Stamps,
      SettleRun(r, k, o, at) PROVE AcceptedInputNotStranded'
  BY <1>7 DEF SettleRun, settleInboxForTurn, residualTurns, toolCallsSettled, queueDrained
<1>8. CASE UNCHANGED storeVars
  BY Zenon, <1>8 DEF storeVars
<1>9. ASSUME NEW r \in Runs, NEW k \in Tokens, AdmitRun(r, k) PROVE AcceptedInputNotStranded'
  BY Zenon, <1>9 DEF AdmitRun
<1>10. ASSUME NEW r \in Runs, NEW k \in Tokens, ClaimRun(r, k) PROVE AcceptedInputNotStranded'
  BY ZenonT(60), <1>10 DEF ClaimRun
<1>11. ASSUME NEW r \in Runs, LeaseExpires(r) PROVE AcceptedInputNotStranded'
  BY Zenon, <1>11 DEF LeaseExpires
<1>12. ASSUME NEW r \in Runs, NEW k \in Tokens, StartRun(r, k) PROVE AcceptedInputNotStranded'
  BY Zenon, <1>12 DEF StartRun
<1>13. ASSUME NEW r \in Runs, NEW k \in Tokens, RenewRunLease(r, k) PROVE
      AcceptedInputNotStranded'
  BY Zenon, <1>13 DEF RenewRunLease
<1>14. ASSUME NEW r \in Runs, NEW k \in Tokens, NEW v \in Revisions, NEW b \in Blobs,
      StageCheckpoint(r, k, v, b) PROVE AcceptedInputNotStranded'
  BY Zenon, <1>14 DEF StageCheckpoint
<1>15. ASSUME NEW r \in Runs, NEW k \in Tokens, NEW v \in Revisions \cup {0}, RepauseRun(r, k,
      v) PROVE AcceptedInputNotStranded'
  BY ZenonT(60), <1>15 DEF RepauseRun
<1>16. ASSUME NEW r \in Runs, NEW k \in Tokens, NEW v \in Revisions, RetireCheckpoints(r, k, v)
      PROVE AcceptedInputNotStranded'
  BY Zenon, <1>16 DEF RetireCheckpoints, deleteCheckpointsUpTo
<1>17. ASSUME NEW r \in Runs, NEW v \in Revisions, RetireRunCheckpoints(r, v) PROVE
      AcceptedInputNotStranded'
  BY Zenon, <1>17 DEF RetireRunCheckpoints, deleteCheckpointsUpTo
<1>18. ASSUME NEW r \in Runs, NEW k \in Tokens, NEW c \in Calls, CreateToolCall(r, k, c) PROVE
      AcceptedInputNotStranded'
  BY Zenon, <1>18 DEF CreateToolCall
<1>19. ASSUME NEW r \in Runs, NEW k \in Tokens, NEW c \in Calls, NEW w \in Claims,
      ClaimToolCall(r, k, c, w) PROVE AcceptedInputNotStranded'
  BY Zenon, <1>19 DEF ClaimToolCall
<1>20. ASSUME NEW r \in Runs, NEW k \in Tokens, NEW c \in Calls, NEW w \in Claims, NEW o \in
      SettledCall, SettleToolCall(r, k, c, w, o) PROVE AcceptedInputNotStranded'
  BY Zenon, <1>20 DEF SettleToolCall
<1>21. ASSUME NEW r \in Runs, NEW k \in Tokens, NEW t \in Turns, AdmitDurable(r, k, t)
       PROVE AcceptedInputNotStranded'
  BY ZenonT(60), <1>21 DEF AdmitDurable, activeRun, nextOrdinal
<1>22. ASSUME NEW i \in Items, EnqueueInbox(i) PROVE AcceptedInputNotStranded'
  BY ZenonT(60), <1>22 DEF EnqueueInbox
<1> HIDE DEF SettledCall, TerminalRun, IInv, AcceptedInputNotStranded
<1> QED
  BY Zenon, <1>1, <1>2, <1>3, <1>4, <1>5, <1>6, <1>7, <1>8, <1>9, <1>10, <1>11, <1>12, <1>13, <1>14,
     <1>15, <1>16, <1>17, <1>18, <1>19, <1>20, <1>21, <1>22 DEF Next

\* The inductive invariant of the store holds of an empty database.
LEMMA IInvInit == Init => IInv
<1> SUFFICES ASSUME Init PROVE IInv
  BY Zenon
<1>1. TypeOK /\ RowOwned /\ OneOpenRun /\ AckedHasRow /\ AcceptedInputNotStranded
  BY Zenon, NoneAssumption, IdentityAssumption
  DEF Init, TypeOK, RowOwned, OneOpenRun, AckedHasRow, AcceptedInputNotStranded, OpenRun,
      LeaseStates
<1>2. InboxFollowsTurn /\ TerminalRunIsSettled /\ OrdinalsContiguous
  BY Zenon, NoneAssumption, IdentityAssumption
  DEF Init, InboxFollowsTurn, TerminalRunIsSettled, OrdinalsContiguous, TerminalRun
<1> QED
  BY Zenon, <1>1, <1>2 DEF IInv

\* Every mutation of the store keeps it.
LEMMA IInvStep == IInv /\ [Next]_storeVars => IInv'
  BY Zenon, TypeOKStep, OneOpenRunStep, InboxFollowsTurnStep, TerminalRunIsSettledStep,
     RowOwnedStep, OrdinalsContiguousStep, AckedHasRowStep, AcceptedInputNotStrandedStep
  DEF IInv

\* So it holds of every state of the store.
LEMMA IInvInvariant == Spec => []IInv
  BY IInvInit, IInvStep, PTL DEF Spec

\* Every column keeps its type, whatever callers the store has.
THEOREM TypeCorrect == Spec => []TypeOK
  BY IInvInvariant, PTL DEF IInv

\* A session never has two open runs (AdmitRun and the partial unique index).
THEOREM SessionExclusive == Spec => []OneOpenRun
  BY IInvInvariant, PTL DEF IInv

\* A terminal run holds no open turn, no open tool call and no consumed item
\* (SettleRun closes them in its transaction and the fence keeps them closed).
THEOREM SettlementComplete == Spec => []TerminalRunIsSettled
  BY IInvInvariant, PTL DEF IInv

\* Inbox items move with the turn that consumed them.
THEOREM InboxConsistent == Spec => []InboxFollowsTurn
  BY IInvInvariant, PTL DEF IInv

\* Turn ordinals of a run are 1, 2, ... without gap or repetition.
THEOREM TurnsNumbered == Spec => []OrdinalsContiguous
  BY IInvInvariant, PTL DEF IInv

\* An item accepted against a run is not in the queue once the run completed.
THEOREM AcceptedInputSafe == Spec => []AcceptedInputNotStranded
  BY IInvInvariant, PTL DEF IInv

\* Items, turns and their numbers agree in every state, and no accepted item is
\* left behind (AdmitTurn, settleInboxForTurn, EnqueueInboxForRun, SettleRun).
THEOREM SubmissionsAlwaysSound == Spec => []SubmissionsSound
  BY InboxConsistent, TurnsNumbered, AcceptedInputSafe, PTL DEF SubmissionsSound

\* No step puts an item back in the queue or gives it to another turn.
LEMMA ItemHistoryStep == IInv /\ [Next]_storeVars => ItemHistoryKept
<1> SUFFICES ASSUME IInv, [Next]_storeVars PROVE ItemHistoryKept
  BY Zenon
<1> USE IdentityAssumption, NoneAssumption DEF IInv, TypeOK, InboxFollowsTurn,
      ItemHistoryKept, Writable,
      OpenRun, TerminalRun, OpenTurn, ClosedTurn, OpenCall, SettledCall, loadRunFence, runVars,
      turnVars, inboxVars, callVars, ckptVars
<1>1. ASSUME NEW r \in Runs, NEW i \in Items, EnqueueInboxForRun(r, i) PROVE ItemHistoryKept
  BY SMTT(40), <1>1 DEF EnqueueInboxForRun
<1>2. ASSUME NEW r \in Runs, NEW k \in Tokens, NEW t \in Turns, NEW n \in Ordinals, NEW ids \in
      SUBSET Items, AdmitTurn(r, k, t, n, ids) PROVE ItemHistoryKept
  BY SMTT(40), <1>2 DEF AdmitTurn, createTurn, nextOrdinal, consumable
<1>3. ASSUME NEW r \in Runs, NEW k \in Tokens, NEW t \in Turns, NEW at \in Stamps,
      CompleteTurn(r, k, t, at) PROVE ItemHistoryKept
  BY Zenon, <1>3 DEF CompleteTurn, settleInboxForTurn
<1>4. ASSUME NEW r \in Runs, NEW k \in Tokens, NEW t \in Turns, NEW at \in Stamps,
      ReconcileInterruptedTurn(r, k, t, at) PROVE ItemHistoryKept
  BY Zenon, <1>4 DEF ReconcileInterruptedTurn, settleInboxForTurn, ApplyInterruptTurn
<1>5. ASSUME NEW r \in Runs, NEW k \in Tokens, NEW t \in Turns, ResumeInterruptedTurn(r, k, t)
      PROVE ItemHistoryKept
  BY Zenon, <1>5 DEF ResumeInterruptedTurn, settleInboxForTurn
<1>6. ASSUME NEW r \in Runs, NEW k \in Tokens, NEW v \in Revisions, NEW t \in Turns, NEW ids \in
      SUBSET Items, NEW at \in Stamps, PromotePause(r, k, v, t, ids, at) PROVE ItemHistoryKept
  BY Zenon, <1>6 DEF PromotePause, ApplyInterruptTurn, interruptible
<1>7. ASSUME NEW r \in Runs, NEW k \in Tokens, NEW o \in TerminalRun, NEW at \in Stamps,
      SettleRun(r, k, o, at) PROVE ItemHistoryKept
  BY Zenon, <1>7 DEF SettleRun, settleInboxForTurn, residualTurns, toolCallsSettled, queueDrained
<1>8. CASE UNCHANGED storeVars
  BY Zenon, <1>8 DEF storeVars
<1>9. ASSUME NEW r \in Runs, NEW k \in Tokens, AdmitRun(r, k) PROVE ItemHistoryKept
  BY Zenon, <1>9 DEF AdmitRun
<1>10. ASSUME NEW r \in Runs, NEW k \in Tokens, ClaimRun(r, k) PROVE ItemHistoryKept
  BY Zenon, <1>10 DEF ClaimRun
<1>11. ASSUME NEW r \in Runs, LeaseExpires(r) PROVE ItemHistoryKept
  BY Zenon, <1>11 DEF LeaseExpires
<1>12. ASSUME NEW r \in Runs, NEW k \in Tokens, StartRun(r, k) PROVE ItemHistoryKept
  BY Zenon, <1>12 DEF StartRun
<1>13. ASSUME NEW r \in Runs, NEW k \in Tokens, RenewRunLease(r, k) PROVE ItemHistoryKept
  BY Zenon, <1>13 DEF RenewRunLease
<1>14. ASSUME NEW r \in Runs, NEW k \in Tokens, NEW v \in Revisions, NEW b \in Blobs,
      StageCheckpoint(r, k, v, b) PROVE ItemHistoryKept
  BY Zenon, <1>14 DEF StageCheckpoint
<1>15. ASSUME NEW r \in Runs, NEW k \in Tokens, NEW v \in Revisions \cup {0}, RepauseRun(r, k,
      v) PROVE ItemHistoryKept
  BY Zenon, <1>15 DEF RepauseRun
<1>16. ASSUME NEW r \in Runs, NEW k \in Tokens, NEW v \in Revisions, RetireCheckpoints(r, k, v)
      PROVE ItemHistoryKept
  BY Zenon, <1>16 DEF RetireCheckpoints, deleteCheckpointsUpTo
<1>17. ASSUME NEW r \in Runs, NEW v \in Revisions, RetireRunCheckpoints(r, v) PROVE
      ItemHistoryKept
  BY Zenon, <1>17 DEF RetireRunCheckpoints, deleteCheckpointsUpTo
<1>18. ASSUME NEW r \in Runs, NEW k \in Tokens, NEW c \in Calls, CreateToolCall(r, k, c) PROVE
      ItemHistoryKept
  BY Zenon, <1>18 DEF CreateToolCall
<1>19. ASSUME NEW r \in Runs, NEW k \in Tokens, NEW c \in Calls, NEW w \in Claims,
      ClaimToolCall(r, k, c, w) PROVE ItemHistoryKept
  BY Zenon, <1>19 DEF ClaimToolCall
<1>20. ASSUME NEW r \in Runs, NEW k \in Tokens, NEW c \in Calls, NEW w \in Claims, NEW o \in
      SettledCall, SettleToolCall(r, k, c, w, o) PROVE ItemHistoryKept
  BY Zenon, <1>20 DEF SettleToolCall
<1>21. ASSUME NEW r \in Runs, NEW k \in Tokens, NEW t \in Turns, AdmitDurable(r, k, t)
       PROVE ItemHistoryKept
  BY Zenon, <1>21 DEF AdmitDurable, activeRun, nextOrdinal
<1>22. ASSUME NEW i \in Items, EnqueueInbox(i) PROVE ItemHistoryKept
  BY SMTT(40), <1>22 DEF EnqueueInbox
<1> HIDE DEF SettledCall, TerminalRun, IInv, ItemHistoryKept
<1> QED
  BY Zenon, <1>1, <1>2, <1>3, <1>4, <1>5, <1>6, <1>7, <1>8, <1>9, <1>10, <1>11, <1>12, <1>13, <1>14,
     <1>15, <1>16, <1>17, <1>18, <1>19, <1>20, <1>21, <1>22 DEF Next

\* No step writes to a terminal run: each one that writes is fenced by a run
\* that is not terminal, or admits a turn or a call that had no row.
LEMMA TerminalRunStep == IInv /\ [Next]_storeVars => TerminalRunKept
<1> SUFFICES ASSUME IInv, [Next]_storeVars PROVE TerminalRunKept
  BY Zenon
<1> USE IdentityAssumption, NoneAssumption DEF IInv, TypeOK, TerminalRunIsSettled,
      InboxFollowsTurn, RowOwned, TerminalRunKept, Writable, OpenRun, TerminalRun, OpenTurn,
      ClosedTurn, OpenCall,
      SettledCall, loadRunFence, runVars, turnVars, inboxVars, callVars, ckptVars
<1>1. ASSUME NEW r \in Runs, NEW k \in Tokens, AdmitRun(r, k) PROVE TerminalRunKept
  BY SMTT(40), <1>1 DEF AdmitRun, activeRun
<1>2. ASSUME NEW r \in Runs, NEW k \in Tokens, ClaimRun(r, k) PROVE TerminalRunKept
  BY SMTT(40), <1>2 DEF ClaimRun
<1>3. ASSUME NEW r \in Runs, NEW i \in Items, EnqueueInboxForRun(r, i) PROVE
      TerminalRunKept
  BY SMTT(40), <1>3 DEF EnqueueInboxForRun
<1>4. ASSUME NEW r \in Runs, NEW k \in Tokens, NEW t \in Turns, NEW n \in Ordinals, NEW ids \in
      SUBSET Items, AdmitTurn(r, k, t, n, ids) PROVE TerminalRunKept
  BY SMTT(40), <1>4 DEF AdmitTurn, createTurn, nextOrdinal, consumable
<1>5. ASSUME NEW r \in Runs, NEW k \in Tokens, NEW t \in Turns, NEW at \in Stamps,
      CompleteTurn(r, k, t, at) PROVE TerminalRunKept
  BY SMTT(40), <1>5 DEF CompleteTurn, settleInboxForTurn
<1>6. ASSUME NEW r \in Runs, NEW k \in Tokens, NEW t \in Turns, NEW at \in Stamps,
      ReconcileInterruptedTurn(r, k, t, at) PROVE TerminalRunKept
  BY SMTT(40), <1>6 DEF ReconcileInterruptedTurn, settleInboxForTurn, ApplyInterruptTurn
<1>7. ASSUME NEW r \in Runs, NEW k \in Tokens, NEW t \in Turns, ResumeInterruptedTurn(r, k, t)
      PROVE TerminalRunKept
  BY SMTT(40), <1>7 DEF ResumeInterruptedTurn, settleInboxForTurn
<1>8. ASSUME NEW r \in Runs, NEW k \in Tokens, NEW v \in Revisions, NEW t \in Turns, NEW ids \in
      SUBSET Items, NEW at \in Stamps, PromotePause(r, k, v, t, ids, at) PROVE
      TerminalRunKept
  <2>1. ASSUME NEW q \in Runs, runStatus[q] \in TerminalRun, NEW i \in Items,
               inboxTurn[i] \in Turns, turnRun[inboxTurn[i]] = q
        PROVE  inboxState'[i] = inboxState[i]
    <3>1. inboxState[i] \in {"completed", "interrupted"}
      BY Zenon, <2>1
    <3> QED
      BY Zenon, <1>8, <3>1 DEF PromotePause, interruptible
  <2>2. ASSUME NEW q \in Runs, runStatus[q] \in TerminalRun, NEW u \in Turns, turnRun[u] = q
        PROVE  turnState'[u] = turnState[u] /\ finishedAt'[u] = finishedAt[u]
    BY SMTT(40), <1>8, <2>2 DEF PromotePause
  <2> QED
    BY SMTT(40), <1>8, <2>1, <2>2 DEF PromotePause
<1>9. ASSUME NEW r \in Runs, NEW k \in Tokens, NEW c \in Calls, CreateToolCall(r, k, c) PROVE
      TerminalRunKept
  BY SMTT(40), <1>9 DEF CreateToolCall
<1>10. ASSUME NEW r \in Runs, NEW k \in Tokens, NEW c \in Calls, NEW w \in Claims,
      ClaimToolCall(r, k, c, w) PROVE TerminalRunKept
  BY SMTT(40), <1>10 DEF ClaimToolCall, claimable
<1>11. ASSUME NEW r \in Runs, NEW k \in Tokens, NEW c \in Calls, NEW w \in Claims, NEW o \in
      SettledCall, SettleToolCall(r, k, c, w, o) PROVE TerminalRunKept
  BY SMTT(40), <1>11 DEF SettleToolCall
<1>12. ASSUME NEW r \in Runs, NEW k \in Tokens, NEW o \in TerminalRun, NEW at \in Stamps,
      SettleRun(r, k, o, at) PROVE TerminalRunKept
  BY SMTT(40), <1>12 DEF SettleRun, settleInboxForTurn, residualTurns
<1>13. CASE UNCHANGED storeVars
  BY Zenon, <1>13 DEF storeVars
<1>14. ASSUME NEW r \in Runs, LeaseExpires(r) PROVE TerminalRunKept
  BY Zenon, <1>14 DEF LeaseExpires
<1>15. ASSUME NEW r \in Runs, NEW k \in Tokens, StartRun(r, k) PROVE TerminalRunKept
  BY SMTT(40), <1>15 DEF StartRun
<1>16. ASSUME NEW r \in Runs, NEW k \in Tokens, RenewRunLease(r, k) PROVE TerminalRunKept
  BY Zenon, <1>16 DEF RenewRunLease
<1>17. ASSUME NEW r \in Runs, NEW k \in Tokens, NEW v \in Revisions, NEW b \in Blobs,
      StageCheckpoint(r, k, v, b) PROVE TerminalRunKept
  BY Zenon, <1>17 DEF StageCheckpoint
<1>18. ASSUME NEW r \in Runs, NEW k \in Tokens, NEW v \in Revisions \cup {0}, RepauseRun(r, k,
      v) PROVE TerminalRunKept
  BY SMTT(40), <1>18 DEF RepauseRun
<1>19. ASSUME NEW r \in Runs, NEW k \in Tokens, NEW v \in Revisions, RetireCheckpoints(r, k, v)
      PROVE TerminalRunKept
  BY Zenon, <1>19 DEF RetireCheckpoints, deleteCheckpointsUpTo
<1>20. ASSUME NEW r \in Runs, NEW v \in Revisions, RetireRunCheckpoints(r, v) PROVE
      TerminalRunKept
  BY Zenon, <1>20 DEF RetireRunCheckpoints, deleteCheckpointsUpTo
<1>21. ASSUME NEW r \in Runs, NEW k \in Tokens, NEW t \in Turns, AdmitDurable(r, k, t)
       PROVE TerminalRunKept
  BY SMTT(40), <1>21 DEF AdmitDurable, activeRun, nextOrdinal
<1>22. ASSUME NEW i \in Items, EnqueueInbox(i) PROVE TerminalRunKept
  BY <1>22 DEF EnqueueInbox
<1> HIDE DEF SettledCall, TerminalRun, IInv, TerminalRunKept
<1> QED
  BY Zenon, <1>1, <1>2, <1>3, <1>4, <1>5, <1>6, <1>7, <1>8, <1>9, <1>10, <1>11, <1>12, <1>13, <1>14,
     <1>15, <1>16, <1>17, <1>18, <1>19, <1>20, <1>21, <1>22 DEF Next

\* An item leaves the queue once and for one turn, under any interleaving of
\* claimers, pauses, reconciliations and settlements.
THEOREM ItemsConsumedOnce == Spec => ConsumedOnce
  BY IInvInvariant, ItemHistoryStep, PTL DEF Spec, ConsumedOnce

\* A superseded or late caller never changes what a terminal run settled.
THEOREM TerminalRunsFrozen == Spec => TerminalRunIsFrozen
  BY IInvInvariant, TerminalRunStep, PTL DEF Spec, TerminalRunIsFrozen

\* A call that nobody claimed has no claim token.
PendingUnclaimed == \A c \in Calls : callState[c] \in {"none", "pending"} => callClaim[c] = None

\* Only three operations touch a tool call, one call at a time.
LEMMA CallStep ==
    ASSUME [Next]_storeVars
    PROVE  \/ UNCHANGED callVars
           \/ \E r \in Runs, k \in Tokens, c \in Calls : CreateToolCall(r, k, c)
           \/ \E r \in Runs, k \in Tokens, c \in Calls, w \in Claims : ClaimToolCall(r, k, c, w)
           \/ \E r \in Runs, k \in Tokens, c \in Calls, w \in Claims, o \in SettledCall :
                 SettleToolCall(r, k, c, w, o)
<1>1. CASE UNCHANGED storeVars
  BY Zenon, <1>1 DEF storeVars, callVars
<1>2. ASSUME NEW r \in Runs, NEW k \in Tokens, AdmitRun(r, k) \/ ClaimRun(r, k) \/ StartRun(r, k)
                                                \/ RenewRunLease(r, k)
      PROVE  UNCHANGED callVars
  BY Zenon, <1>2 DEF AdmitRun, ClaimRun, StartRun, RenewRunLease
<1>3. ASSUME NEW r \in Runs, LeaseExpires(r) PROVE UNCHANGED callVars
  BY Zenon, <1>3 DEF LeaseExpires
<1>4. ASSUME NEW r \in Runs, NEW i \in Items, EnqueueInboxForRun(r, i)
      PROVE  UNCHANGED callVars
  BY Zenon, <1>4 DEF EnqueueInboxForRun
<1>5. ASSUME NEW i \in Items, EnqueueInbox(i) PROVE UNCHANGED callVars
  BY Zenon, <1>5 DEF EnqueueInbox
<1>6. ASSUME NEW r \in Runs, NEW k \in Tokens, NEW t \in Turns,
             AdmitDurable(r, k, t) \/ ResumeInterruptedTurn(r, k, t)
      PROVE  UNCHANGED callVars
  BY Zenon, <1>6 DEF AdmitDurable, ResumeInterruptedTurn
<1>7. ASSUME NEW r \in Runs, NEW k \in Tokens, NEW t \in Turns, NEW n \in Ordinals,
             NEW ids \in SUBSET Items, AdmitTurn(r, k, t, n, ids)
      PROVE  UNCHANGED callVars
  BY Zenon, <1>7 DEF AdmitTurn
<1>8. ASSUME NEW r \in Runs, NEW k \in Tokens, NEW t \in Turns, NEW at \in Stamps,
             CompleteTurn(r, k, t, at) \/ ReconcileInterruptedTurn(r, k, t, at)
      PROVE  UNCHANGED callVars
  BY Zenon, <1>8 DEF CompleteTurn, ReconcileInterruptedTurn
<1>9. ASSUME NEW r \in Runs, NEW k \in Tokens, NEW v \in Revisions, NEW b \in Blobs,
             StageCheckpoint(r, k, v, b)
      PROVE  UNCHANGED callVars
  BY Zenon, <1>9 DEF StageCheckpoint
<1>10. ASSUME NEW r \in Runs, NEW k \in Tokens, NEW v \in Revisions, NEW t \in Turns,
              NEW ids \in SUBSET Items, NEW at \in Stamps, PromotePause(r, k, v, t, ids, at)
       PROVE  UNCHANGED callVars
  BY Zenon, <1>10 DEF PromotePause
<1>11. ASSUME NEW r \in Runs, NEW k \in Tokens, NEW v \in Revisions \cup {0}, RepauseRun(r, k, v)
       PROVE  UNCHANGED callVars
  BY Zenon, <1>11 DEF RepauseRun
<1>12. ASSUME NEW r \in Runs, NEW k \in Tokens, NEW v \in Revisions, RetireCheckpoints(r, k, v)
       PROVE  UNCHANGED callVars
  BY Zenon, <1>12 DEF RetireCheckpoints
<1>13. ASSUME NEW r \in Runs, NEW v \in Revisions, RetireRunCheckpoints(r, v)
       PROVE  UNCHANGED callVars
  BY Zenon, <1>13 DEF RetireRunCheckpoints
<1>14. ASSUME NEW r \in Runs, NEW k \in Tokens, NEW o \in TerminalRun, NEW at \in Stamps,
              SettleRun(r, k, o, at)
       PROVE  UNCHANGED callVars
  BY Zenon, <1>14 DEF SettleRun
<1>. QED
  BY Zenon, <1>1, <1>2, <1>3, <1>4, <1>5, <1>6, <1>7, <1>8, <1>9, <1>10, <1>11, <1>12, <1>13, <1>14
     DEF Next

\* A claim needs a pending call, and a settlement an open one.
LEMMA CallHistoryStep ==
    ASSUME TypeOK, PendingUnclaimed, [Next]_storeVars
    PROVE  CallHistoryKept /\ PendingUnclaimed'
<1>. USE NoneAssumption DEF TypeOK, PendingUnclaimed, CallHistoryKept, OpenCall, SettledCall
<1>1. CASE UNCHANGED callVars
  BY Zenon, <1>1 DEF callVars
<1>2. ASSUME NEW r \in Runs, NEW k \in Tokens, NEW c \in Calls, CreateToolCall(r, k, c)
      PROVE  CallHistoryKept /\ PendingUnclaimed'
  BY Zenon, <1>2 DEF CreateToolCall
<1>3. ASSUME NEW r \in Runs, NEW k \in Tokens, NEW c \in Calls, NEW w \in Claims,
             ClaimToolCall(r, k, c, w)
      PROVE  CallHistoryKept /\ PendingUnclaimed'
  BY Zenon, <1>3 DEF ClaimToolCall, claimable
<1>4. ASSUME NEW r \in Runs, NEW k \in Tokens, NEW c \in Calls, NEW w \in Claims,
             NEW o \in SettledCall, SettleToolCall(r, k, c, w, o)
      PROVE  CallHistoryKept /\ PendingUnclaimed'
  BY Zenon, <1>4 DEF SettleToolCall
<1>. HIDE DEF TypeOK, PendingUnclaimed, CallHistoryKept, SettledCall
<1>. QED
  BY Zenon, CallStep, <1>1, <1>2, <1>3, <1>4

\* A call is executed by one claimer and keeps its outcome, however many
\* callers hold, lose and take over the run (ClaimToolCall, SettleToolCall).
THEOREM ToolCallsRunOnce == Spec => ToolRunsOnce
<1>1. Init => PendingUnclaimed
  BY Zenon DEF Init, PendingUnclaimed
<1>2. TypeOK /\ PendingUnclaimed /\ [Next]_storeVars => CallHistoryKept /\ PendingUnclaimed'
  BY Zenon, CallHistoryStep
<1>. QED
  BY <1>1, <1>2, TypeCorrect, PTL DEF Spec, ToolRunsOnce

\* Nothing that the store recorded of an item, a tool call or a settled run is
\* taken back, whoever calls with whatever fence.
THEOREM RecordsAlwaysStand == Spec => RecordsStand
  BY ItemsConsumedOnce, TerminalRunsFrozen, ToolCallsRunOnce, PTL
     DEF RecordsStand, ConsumedOnce, TerminalRunIsFrozen, ToolRunsOnce

-----------------------------------------------------------------------------
(* The contract of a session.  Beyond the inductive invariant the mapping   *)
(* needs one fact: the turn that an item names has a row, so that the       *)
(* holder of an item is known from the moment it is taken.                  *)

\* The turn that consumed an item has a row, and so a run.
HeldByRow == \A i \in Items : inboxTurn[i] # None => turnRun[inboxTurn[i]] # None

\* A step of the store that the contract does not see.
Quiet == UNCHANGED <<runView, itemView, holderView>>

\* The columns the contract is about move only with these actions.
Visible ==
    \/ \E r \in Runs, k \in Tokens : AdmitRun(r, k)
    \/ \E r \in Runs, k \in Tokens, t \in Turns : AdmitDurable(r, k, t)
    \/ \E i \in Items : EnqueueInbox(i)
    \/ \E r \in Runs, i \in Items : EnqueueInboxForRun(r, i)
    \/ \E r \in Runs, k \in Tokens, t \in Turns, n \in Ordinals, ids \in SUBSET Items :
          AdmitTurn(r, k, t, n, ids)
    \/ \E r \in Runs, k \in Tokens, t \in Turns, at \in Stamps : CompleteTurn(r, k, t, at)
    \/ \E r \in Runs, k \in Tokens, v \in Revisions, t \in Turns,
          ids \in SUBSET Items, at \in Stamps : PromotePause(r, k, v, t, ids, at)
    \/ \E r \in Runs, k \in Tokens, o \in TerminalRun, at \in Stamps : SettleRun(r, k, o, at)

\* Claims, heartbeats, interruptions, redrives, checkpoints and tool calls
\* change neither who holds an item nor whether a run is open.
LEMMA VisibleOrQuiet ==
    ASSUME IInv, [Next]_storeVars
    PROVE  Visible \/ (Quiet /\ UNCHANGED <<inboxTurn, turnRun>>)
<1> DEFINE Goal == Visible \/ (Quiet /\ UNCHANGED <<inboxTurn, turnRun>>)
<1> USE DEF IInv, TypeOK, Quiet, runView, itemView, holderView, Writable, OpenRun, TerminalRun,
      loadRunFence, runVars, turnVars, inboxVars, callVars, ckptVars
<1>1. ASSUME NEW r \in Runs, NEW k \in Tokens, ClaimRun(r, k) PROVE Goal
  BY Zenon, <1>1 DEF ClaimRun
<1>2. ASSUME NEW r \in Runs, LeaseExpires(r) PROVE Goal
  BY Zenon, <1>2 DEF LeaseExpires
<1>3. ASSUME NEW r \in Runs, NEW k \in Tokens, StartRun(r, k) PROVE Goal
  BY Zenon, <1>3 DEF StartRun
<1>4. ASSUME NEW r \in Runs, NEW k \in Tokens, RenewRunLease(r, k) PROVE Goal
  BY Zenon, <1>4 DEF RenewRunLease
<1>5. ASSUME NEW r \in Runs, NEW k \in Tokens, NEW t \in Turns, NEW at \in Stamps,
             ReconcileInterruptedTurn(r, k, t, at) PROVE Goal
  BY Zenon, <1>5 DEF ReconcileInterruptedTurn, settleInboxForTurn
<1>6. ASSUME NEW r \in Runs, NEW k \in Tokens, NEW t \in Turns,
             ResumeInterruptedTurn(r, k, t) PROVE Goal
  BY Zenon, <1>6 DEF ResumeInterruptedTurn, settleInboxForTurn
<1>7. ASSUME NEW r \in Runs, NEW k \in Tokens, NEW v \in Revisions, NEW b \in Blobs,
             StageCheckpoint(r, k, v, b) PROVE Goal
  BY Zenon, <1>7 DEF StageCheckpoint
<1>8. ASSUME NEW r \in Runs, NEW k \in Tokens, NEW v \in Revisions \cup {0},
             RepauseRun(r, k, v) PROVE Goal
  BY Zenon, <1>8 DEF RepauseRun
<1>9. ASSUME NEW r \in Runs, NEW k \in Tokens, NEW v \in Revisions,
             RetireCheckpoints(r, k, v) PROVE Goal
  BY Zenon, <1>9 DEF RetireCheckpoints
<1>10. ASSUME NEW r \in Runs, NEW v \in Revisions, RetireRunCheckpoints(r, v) PROVE Goal
  BY Zenon, <1>10 DEF RetireRunCheckpoints
<1>11. ASSUME NEW r \in Runs, NEW k \in Tokens, NEW c \in Calls, CreateToolCall(r, k, c)
       PROVE Goal
  BY Zenon, <1>11 DEF CreateToolCall
<1>12. ASSUME NEW r \in Runs, NEW k \in Tokens, NEW c \in Calls, NEW w \in Claims,
              ClaimToolCall(r, k, c, w) PROVE Goal
  BY Zenon, <1>12 DEF ClaimToolCall
<1>13. ASSUME NEW r \in Runs, NEW k \in Tokens, NEW c \in Calls, NEW w \in Claims,
              NEW o \in SettledCall, SettleToolCall(r, k, c, w, o) PROVE Goal
  BY ZenonT(60), <1>13 DEF SettleToolCall
<1>14. ASSUME UNCHANGED storeVars PROVE Goal
  BY Zenon, <1>14 DEF storeVars
<1>15. ASSUME Visible PROVE Goal
  BY ZenonT(60), <1>15
<1> HIDE DEF Goal, IInv, Quiet, TerminalRun
<1>16. ASSUME Next PROVE Goal
  BY ZenonT(60), <1>1, <1>2, <1>3, <1>4, <1>5, <1>6, <1>7, <1>8, <1>9, <1>10, <1>11, <1>12,
     <1>13, <1>15, <1>16 DEF Next, Visible
<1>17. Goal
  BY Zenon, <1>14, <1>16
<1> QED
  BY Zenon, <1>17 DEF Goal

\* A turn's row never loses its run, and a turn that takes an item has one.
LEMMA HeldByRowStep == IInv /\ HeldByRow /\ [Next]_storeVars => HeldByRow'
<1> SUFFICES ASSUME IInv, HeldByRow, [Next]_storeVars PROVE HeldByRow'
  BY Zenon
<1> USE NoneAssumption DEF IInv, TypeOK, HeldByRow
<1>1. ASSUME UNCHANGED <<inboxTurn, turnRun>> PROVE HeldByRow'
  BY Zenon, <1>1
<1>2. ASSUME NEW r \in Runs, NEW k \in Tokens, NEW t \in Turns, AdmitDurable(r, k, t)
      PROVE HeldByRow'
  BY Zenon, <1>2 DEF AdmitDurable, inboxVars
<1>3. ASSUME NEW r \in Runs, NEW k \in Tokens, NEW t \in Turns, NEW n \in Ordinals,
             NEW ids \in SUBSET Items, AdmitTurn(r, k, t, n, ids) PROVE HeldByRow'
  BY Zenon, <1>3 DEF AdmitTurn
<1>4. ASSUME NEW r \in Runs, NEW k \in Tokens, AdmitRun(r, k) PROVE HeldByRow'
  BY Zenon, <1>1, <1>4 DEF AdmitRun, turnVars, inboxVars
<1>5. ASSUME NEW i \in Items, EnqueueInbox(i) PROVE HeldByRow'
  BY Zenon, <1>1, <1>5 DEF EnqueueInbox, turnVars
<1>6. ASSUME NEW r \in Runs, NEW i \in Items, EnqueueInboxForRun(r, i) PROVE HeldByRow'
  BY Zenon, <1>1, <1>6 DEF EnqueueInboxForRun, turnVars
<1>7. ASSUME NEW r \in Runs, NEW k \in Tokens, NEW t \in Turns, NEW at \in Stamps,
             CompleteTurn(r, k, t, at) PROVE HeldByRow'
  BY Zenon, <1>1, <1>7 DEF CompleteTurn
<1>8. ASSUME NEW r \in Runs, NEW k \in Tokens, NEW v \in Revisions, NEW t \in Turns,
             NEW ids \in SUBSET Items, NEW at \in Stamps,
             PromotePause(r, k, v, t, ids, at) PROVE HeldByRow'
  BY Zenon, <1>1, <1>8 DEF PromotePause
<1>9. ASSUME NEW r \in Runs, NEW k \in Tokens, NEW o \in TerminalRun, NEW at \in Stamps,
             SettleRun(r, k, o, at) PROVE HeldByRow'
  BY Zenon, <1>1, <1>9 DEF SettleRun
<1> HIDE DEF IInv, HeldByRow
<1> QED
  BY Zenon, <1>1, <1>2, <1>3, <1>4, <1>5, <1>6, <1>7, <1>8, <1>9, VisibleOrQuiet DEF Visible

\* A function with one value replaced, written out for every argument.
LEMMA ExceptPointwise ==
    ASSUME NEW S, NEW T, NEW f \in [S -> T], NEW a \in S, NEW v
    PROVE  [f EXCEPT ![a] = v] = [x \in S |-> IF x = a THEN v ELSE f[x]]
  BY Zenon

\* What the columns stand for is a run's and an item's state in the contract.
LEMMA ViewTypes ==
    /\ runView \in [Runs -> {"new", "open", "completed", "ended"}]
    /\ itemView \in [Items -> {"new", "queued", "taken", "answered"}]
  BY Zenon DEF runView, itemView

\* Each visible action is the step of the contract that it is named for.
LEMMA VisibleIsContractStep ==
    ASSUME IInv, HeldByRow, Visible PROVE Contract!ContractNext \/ Quiet
<1>10. \A r \in Runs, ids \in SUBSET Items :
         Contract!Take(r, r, ids) \/ Contract!Take(r, None, ids) \/ Contract!Answer(r, ids)
         => Contract!ContractNext
  BY Zenon DEF Contract!ContractNext
<1>11. \A r \in Runs : Contract!Open(r) \/ Contract!Close(r, "completed")
                          \/ Contract!Close(r, "ended") => Contract!ContractNext
  BY Zenon DEF Contract!ContractNext
<1>12. \A i \in Items : Contract!Submit(i) => Contract!ContractNext
  BY Zenon DEF Contract!ContractNext
<1> USE NoneAssumption, IdentityAssumption DEF IInv, TypeOK, runView, itemView, holderView,
      Writable, OpenRun, TerminalRun, runVars, turnVars, inboxVars
<1>1. ASSUME NEW r \in Runs, NEW k \in Tokens, AdmitRun(r, k)
      PROVE Contract!ContractNext
  <2>1. itemView' = itemView /\ holderView' = holderView
    BY ZenonT(60), <1>1 DEF AdmitRun
  <2>2. runView' = [q \in Runs |-> IF q = r THEN "open" ELSE runView[q]]
    BY Zenon, <1>1 DEF AdmitRun
  <2>3. runView[r] = "new" /\ \A q \in Runs : RunSession[q] = RunSession[r] => runView[q] # "open"
    BY Zenon, <1>1 DEF AdmitRun, activeRun
  <2> HIDE DEF runView, itemView, holderView
  <2>4. Contract!Open(r)
    BY Zenon, <2>1, <2>2, <2>3, ViewTypes, ExceptPointwise DEF Contract!Open
  <2> QED
    BY Zenon, <2>4, <1>11
<1>2. ASSUME NEW r \in Runs, NEW k \in Tokens, NEW t \in Turns, AdmitDurable(r, k, t)
      PROVE Contract!ContractNext
  <2>1. \A i \in Items : inboxTurn[i] # t
    BY SMTT(40), <1>2 DEF AdmitDurable, RowOwned, HeldByRow
  <2>2. holderView' = holderView
    BY Zenon, <1>2, <2>1 DEF AdmitDurable
  <2>3. itemView' = itemView
    BY Zenon, <1>2 DEF AdmitDurable
  <2>4. runView' = [q \in Runs |-> IF q = r THEN "open" ELSE runView[q]]
    BY Zenon, <1>2 DEF AdmitDurable
  <2>5. runView[r] = "new" /\ \A q \in Runs : RunSession[q] = RunSession[r] => runView[q] # "open"
    BY Zenon, <1>2 DEF AdmitDurable, activeRun
  <2> HIDE DEF runView, itemView, holderView
  <2>6. Contract!Open(r)
    BY Zenon, <2>2, <2>3, <2>4, <2>5, ViewTypes, ExceptPointwise DEF Contract!Open
  <2> QED
    BY Zenon, <2>6, <1>11
<1>3. ASSUME NEW i \in Items, inboxTurn' = inboxTurn, turnRun' = turnRun, runStatus' = runStatus,
             inboxState' = [inboxState EXCEPT ![i] = IF @ = "none" THEN "queued" ELSE @]
      PROVE Contract!ContractNext \/ Quiet
  <2>1. CASE inboxState[i] = "none"
    <3>1. runView' = runView /\ holderView' = holderView
      BY Zenon, <1>3
    <3>2. itemView' = [j \in Items |-> IF j = i THEN "queued" ELSE itemView[j]]
      BY Zenon, <1>3, <2>1
    <3>3. itemView[i] = "new"
      BY Zenon, <2>1
    <3> HIDE DEF runView, itemView, holderView
    <3>4. Contract!Submit(i)
      BY Zenon, <3>1, <3>2, <3>3, ViewTypes, ExceptPointwise DEF Contract!Submit
    <3> QED
      BY Zenon, <3>4, <1>12
  <2>2. CASE inboxState[i] # "none"
    BY SMTT(40), <1>3, <2>2 DEF Quiet
  <2> QED
    BY Zenon, <2>1, <2>2
<1>4. ASSUME NEW i \in Items, EnqueueInbox(i) PROVE Contract!ContractNext \/ Quiet
  BY Zenon, <1>3, <1>4 DEF EnqueueInbox
<1>5. ASSUME NEW r \in Runs, NEW i \in Items, EnqueueInboxForRun(r, i)
      PROVE Contract!ContractNext \/ Quiet
  BY Zenon, <1>3, <1>5 DEF EnqueueInboxForRun
<1>6. ASSUME NEW r \in Runs, NEW k \in Tokens, NEW t \in Turns, NEW n \in Ordinals,
             NEW ids \in SUBSET Items, AdmitTurn(r, k, t, n, ids)
      PROVE Contract!ContractNext
  <2> DEFINE new == {i \in ids : inboxState[i] = "queued"}
  <2>1. turnState[t] = "none" \/ turnRun[t] = r
    BY Zenon, <1>6 DEF AdmitTurn, createTurn
  <2>2. \A i \in Items : inboxTurn[i] = t => turnRun[t] = r
    BY SMTT(40), <2>1 DEF RowOwned, HeldByRow
  <2>3. \A i \in ids : inboxState[i] = "queued" \/ (inboxState[i] = "consumed" /\ inboxTurn[i] = t)
    BY Zenon, <1>6 DEF AdmitTurn, consumable
  <2>4. holderView' = [i \in Items |-> IF i \in new THEN r ELSE holderView[i]]
    BY SMTT(40), <1>6, <2>2, <2>3 DEF AdmitTurn
  <2>5. itemView' = [i \in Items |-> IF i \in new THEN "taken" ELSE itemView[i]]
    BY Zenon, <1>6, <2>3 DEF AdmitTurn
  <2>6. runView[r] = "open" /\ runView' = runView
    BY Zenon, <1>6 DEF AdmitTurn, loadRunFence
  <2>7. \A i \in new : itemView[i] = "queued" /\ ItemSession[i] = RunSession[r]
    BY Zenon, <1>6 DEF AdmitTurn, consumable
  <2> HIDE DEF runView, itemView, holderView
  <2>8. Contract!Take(r, r, new)
    BY Zenon, <2>4, <2>5, <2>6, <2>7 DEF Contract!Take
  <2> QED
    BY <2>8, <1>10
<1>7. ASSUME NEW r \in Runs, NEW k \in Tokens, NEW t \in Turns, NEW at \in Stamps,
             CompleteTurn(r, k, t, at)
      PROVE Contract!ContractNext
  <2> DEFINE held == {i \in Items : inboxTurn[i] = t}
  <2>1. \A i \in held : inboxState[i] \in {"consumed", "interrupted"}
    BY Zenon, <1>7 DEF CompleteTurn, OpenTurn, InboxFollowsTurn
  <2>2. \A i \in held : itemView[i] = "taken" /\ holderView[i] = r
    BY SMTT(40), <1>7, <2>1 DEF CompleteTurn
  <2>3. itemView' = [i \in Items |-> IF i \in held THEN "answered" ELSE itemView[i]]
    BY Zenon, <1>7, <2>1 DEF CompleteTurn, settleInboxForTurn
  <2>4. runView[r] = "open" /\ runView' = runView /\ holderView' = holderView
    BY Zenon, <1>7 DEF CompleteTurn, loadRunFence
  <2> HIDE DEF runView, itemView, holderView
  <2>5. Contract!Answer(r, held)
    BY Zenon, <2>2, <2>3, <2>4 DEF Contract!Answer
  <2> QED
    BY <2>5, <1>10
<1>8. ASSUME NEW r \in Runs, NEW k \in Tokens, NEW v \in Revisions, NEW t \in Turns,
             NEW ids \in SUBSET Items, NEW at \in Stamps, PromotePause(r, k, v, t, ids, at)
      PROVE Contract!ContractNext
  <2> DEFINE aside == {i \in ids : inboxState[i] = "queued"}
  <2>1. \A i \in ids : inboxState[i] \in {"queued", "consumed", "interrupted"}
    BY Zenon, <1>8 DEF PromotePause, interruptible
  <2>2. \A i \in aside : inboxTurn[i] = None
    BY Zenon DEF InboxFollowsTurn
  <2>3. itemView' = [i \in Items |-> IF i \in aside THEN "taken" ELSE itemView[i]]
    BY Zenon, <1>8, <2>1 DEF PromotePause
  <2>4. holderView' = [i \in Items |-> IF i \in aside THEN None ELSE holderView[i]]
    BY Zenon, <1>8, <2>2 DEF PromotePause
  <2>5. runView[r] = "open" /\ runView' = runView
    BY ZenonT(60), <1>8 DEF PromotePause, loadRunFence
  <2>6. \A i \in aside : itemView[i] = "queued" /\ ItemSession[i] = RunSession[r]
    BY Zenon, <1>8 DEF PromotePause, interruptible
  <2> HIDE DEF runView, itemView, holderView
  <2>7. Contract!Take(r, None, aside)
    BY Zenon, <2>3, <2>4, <2>5, <2>6 DEF Contract!Take
  <2> QED
    BY <2>7, <1>10
<1>9. ASSUME NEW r \in Runs, NEW k \in Tokens, NEW o \in TerminalRun, NEW at \in Stamps,
             SettleRun(r, k, o, at)
      PROVE Contract!ContractNext
  <2> DEFINE outcome == IF o = "completed" THEN "completed" ELSE "ended"
  <2>1. runView[r] = "open" /\ runView' = [q \in Runs |-> IF q = r THEN outcome ELSE runView[q]]
    BY ZenonT(60), <1>9 DEF SettleRun, loadRunFence
  <2>2. itemView' = itemView /\ holderView' = holderView
    BY ZenonT(60), <1>9 DEF SettleRun, settleInboxForTurn
  <2>3. outcome = "completed" =>
          \A i \in Items : ItemSession[i] = RunSession[r] => itemView[i] # "queued"
    BY Zenon, <1>9 DEF SettleRun, queueDrained
  <2> HIDE DEF runView, itemView, holderView
  <2>4. Contract!Close(r, outcome)
    BY ZenonT(60), <2>1, <2>2, <2>3, ViewTypes, ExceptPointwise DEF Contract!Close
  <2> QED
    BY Zenon, <2>4, <1>11
<1> HIDE DEF IInv, TypeOK, TerminalRun, runView, itemView, holderView
<1> QED
  BY Zenon, <1>1, <1>2, <1>4, <1>5, <1>6, <1>7, <1>8, <1>9 DEF Visible

\* So every step of the store is a step of the contract or invisible to it.
LEMMA ContractStep ==
    IInv /\ HeldByRow /\ [Next]_storeVars => [Contract!ContractNext]_<<runView, itemView, holderView>>
  BY Zenon, VisibleOrQuiet, VisibleIsContractStep DEF Quiet

\* The empty database is the initial state of the contract, and no item of it
\* names a turn.
LEMMA ContractInitial == Init => Contract!ContractInit /\ HeldByRow
  BY ZenonT(60), NoneAssumption
  DEF Init, Contract!ContractInit, HeldByRow, runView, itemView, holderView, OpenRun

\* The store implements the contract of a session, whichever callers act on it
\* with whichever fence: transactions, claims and pauses included.
THEOREM StoreKeepsContract == Spec => KeepsContract
<1>1. Spec => []HeldByRow
  BY IInvInvariant, ContractInitial, HeldByRowStep, PTL DEF Spec
<1>2. Spec => []IInv
  BY Zenon, IInvInvariant
<1> QED
  BY <1>1, <1>2, ContractInitial, ContractStep, PTL
  DEF Spec, KeepsContract, Contract!ContractSpec, Contract!contractVars

-----------------------------------------------------------------------------
(***************************************************************************)
(* The drivers: every step of theirs is a step of the session store or     *)
(* leaves it alone, so what is proved of the store holds of the store      *)
(* under the orchestrator; a driver's memory is well-formed; and the fence *)
(* of a run is never passed by two drivers.                                *)
(***************************************************************************)

\* ReadPromotedCheckpoint returns a revision of the run, and a promoted one.
LEMMA PromotedRevisionIsPromoted ==
  ASSUME TypeOK, NEW r \in Runs
  PROVE  /\ promotedRevision(r) \in Revisions \cup {0}
         /\ promotedRevision(r) # 0 => ckptState[r][promotedRevision(r)] = "promoted"
<1> DEFINE P == {v \in Revisions : ckptState[r][v] = "promoted"}
<1>1. CASE P = {}
  BY Zenon, <1>1 DEF promotedRevision
<1>2. CASE P # {}
  <2>1. P \in SUBSET Revisions
    BY Zenon
  <2>2. \E v \in P : \A u \in P : u <= v
    <3> HIDE DEF P
    <3> QED
      BY Zenon, <1>2, <2>1, ColumnAssumption
  <2> QED
    BY Zenon, <1>2, <2>2 DEF promotedRevision
<1> QED
  BY Zenon, <1>1, <1>2

\* The newest of some turns is one of them.
LEMMA NewestIsMember ==
  ASSUME TypeOK, NEW T \in SUBSET Turns, T # {}
  PROVE  newest(T) \in T
<1>1. CASE \A t \in T : turnOrdinal[t] = 0
  BY <1>1 DEF newest
<1>2. CASE \E t \in T : turnOrdinal[t] # 0
  <2> DEFINE P == {turnOrdinal[t] : t \in T} \ {0}
  <2>0. PICK u \in T : turnOrdinal[u] # 0
    BY Zenon, <1>2
  <2>1. P \in SUBSET Ordinals /\ turnOrdinal[u] \in P
    BY <2>0 DEF TypeOK
  <2>2. PICK n \in P : \A m \in P : m <= n
    <3> HIDE DEF P
    <3> QED
      BY Zenon, <2>1, ColumnAssumption
  <2>3. PICK t \in T : turnOrdinal[t] = n
    BY <2>2, Zenon
  <2>4. ASSUME NEW w \in T PROVE turnOrdinal[w] <= turnOrdinal[t]
    <3>1. turnOrdinal[w] \in Ordinals \cup {0} /\ turnOrdinal[t] \in Nat \ {0}
      BY ZenonT(40), <2>3, IdentityAssumption DEF TypeOK
    <3>2. CASE turnOrdinal[w] = 0
      BY <3>1, <3>2
    <3>3. CASE turnOrdinal[w] # 0
      BY Zenon, <2>2, <2>3, <3>3
    <3> QED
      BY Zenon, <3>2, <3>3
  <2> QED
    BY Zenon, <2>4 DEF newest
<1> QED
  BY Zenon, <1>1, <1>2

\* Identifiers and times come from their sets.
LEMMA Identifiers ==
  ASSUME TypeOK
  PROVE  /\ canMintTurn => NewTurnID \in Turns
         /\ canMintToken => NewClaimToken \in Tokens
         /\ someTime \in Stamps
         /\ \A t \in Turns : now(t) \in Stamps
<1>1. canMintTurn => NewTurnID \in Turns
  BY Zenon DEF canMintTurn, NewTurnID
<1>2. canMintToken => NewClaimToken \in Tokens
  BY Zenon DEF canMintToken, NewClaimToken
<1>3. someTime \in Stamps
  BY Zenon, ClockAssumption DEF someTime
<1>4. \A t \in Turns : now(t) \in Stamps
  BY ZenonT(60), ClockAssumption DEF now, TypeOK
<1> QED
  BY Zenon, <1>1, <1>2, <1>3, <1>4

\* A checkpoint row has its bytes.
CheckpointsHaveBytes ==
    \A r \in Runs, v \in Revisions : ckptState[r][v] # "none" => ckptBlob[r][v] \in Blobs

\* The invariant under which a driver's step is a step of the store.
DriverInv == TypeOK /\ DriverTypeOK /\ CheckpointsHaveBytes

\* The memory of a driver that is not idle names a run, after the claim a token.
LEMMA DriverMemory ==
  ASSUME DriverTypeOK, NEW d \in Drivers
  PROVE  /\ drv[d].pc # "idle" => drv[d].run \in Runs
         /\ drv[d].pc \notin Unclaimed => drv[d].tok \in Tokens
         /\ drv[d].pc \notin Turnless => drv[d].cur \in Turns
         /\ drv[d].pc \in {"pausing", "unhandled", "retire", "repause"}
               => drv[d].staged \in Revisions
         /\ drv[d].staged \in Revisions \cup {0}
         /\ drv[d].buf \in SUBSET Entries /\ drv[d].batch \in SUBSET Entries
  BY Zenon DEF DriverTypeOK, Drives, wellFormed

\* The newest of the turns of a run in some states is one of its turns.
LEMMA NewestOfRun ==
  ASSUME TypeOK, NEW r, NEW states, newest(turnsOf(r, states)) # None
  PROVE  newest(turnsOf(r, states)) \in turnsOf(r, states) \cap Turns
<1>1. turnsOf(r, states) \in SUBSET Turns
  BY Zenon DEF turnsOf
<1>2. turnsOf(r, states) # {}
  BY Zenon DEF newest
<1> HIDE DEF turnsOf
<1> QED
  BY Zenon, <1>1, <1>2, NewestIsMember

\* What a driver stages is an envelope, and staging it a step of the store.
LEMMA StageImplements ==
  ASSUME NEW r \in Runs, NEW k \in Tokens, NEW v \in Revisions, NEW t \in Turns,
         NEW runner \in BOOLEAN, NEW rest \in SUBSET Entries, NEW inflight \in SUBSET Entries,
         StageCheckpoint(r, k, v, [turn |-> t, runner |-> runner, rest |-> rest,
                                   inflight |-> inflight])
  PROVE  Next
<1> DEFINE b == [turn |-> t, runner |-> runner, rest |-> rest, inflight |-> inflight]
<1>1. b \in Blobs
  BY Zenon, EnvelopeAssumption
<1>2. StageCheckpoint(r, k, v, b)
  BY Zenon
<1> HIDE DEF b
<1> QED
  BY Zenon, <1>1, <1>2 DEF Next

\* A driver's step is a step of the store, or does not touch it.
LEMMA DriverStepImplements ==
  ASSUME DriverInv, NEW d \in Drivers, DriverStep(d) \/ HostStep(d)
  PROVE  [Next]_storeVars
<1>1. TypeOK /\ DriverTypeOK
  BY Zenon DEF DriverInv
<1> USE <1>1, Identifiers, DriverMemory, PromotedRevisionIsPromoted DEF Unclaimed, Turnless
<1>2. ASSUME NEW r \in Runs, Start(d, r) PROVE [Next]_storeVars
  BY Zenon, <1>2 DEF Next, Start
<1>3. CASE StartPush(d)
  BY Zenon, <1>3 DEF Next, StartPush
<1>4. CASE BeginFresh(d)
  BY Zenon, <1>4 DEF Next, BeginFresh
<1>5. ASSUME NEW r \in Runs, ResumeRead(d, r) PROVE [Next]_storeVars
  BY Zenon, <1>5 DEF Next, ResumeRead
<1>6. CASE ResumeClaim(d)
  BY Zenon, <1>6 DEF Next, ResumeClaim
<1>7. CASE ResumeStart(d)
  BY Zenon, <1>7 DEF Next, ResumeStart
<1>8. CASE ResumeStartFails(d)
  BY Zenon, <1>8 DEF Next, ResumeStartFails
<1>9. CASE LoadCheckpoint(d)
  BY Zenon, <1>9 DEF Next, LoadCheckpoint
<1>10. CASE GenInputFirst(d)
  BY Zenon, <1>10 DEF Next, GenInputFirst
<1>11. CASE GenInputReconciled(d)
  <2>1. PICK t \in {newest(turnsOf(drv[d].run, {"interrupted"}))} \ {None} :
            ResumeInterruptedTurn(drv[d].run, drv[d].tok, t)
    BY Zenon, <1>11 DEF GenInputReconciled
  <2>2. t \in Turns
    BY ZenonT(60), <2>1, NewestOfRun
  <2> QED
    BY Zenon, <1>11, <2>1, <2>2 DEF Next, GenInputReconciled
<1>12. CASE GenInputAdmit(d)
  BY Zenon, <1>12 DEF Next, GenInputAdmit, plainInput, loadInboxItems, claimItems
<1>13. CASE GenInputDuplicate(d)
  BY Zenon, <1>13 DEF Next, GenInputDuplicate
<1>14. CASE CompletesTurn(d)
  BY Zenon, <1>14 DEF Next, CompletesTurn
<1>15. CASE FailDrive(d)
  BY Zenon, <1>15 DEF Next, FailDrive, TerminalRun
<1>16. CASE InterruptStage(d)
  BY ZenonT(40), <1>16, StageImplements DEF InterruptStage, stage
<1>17. CASE PromotePaused(d)
  BY Zenon, <1>17 DEF Next, PromotePaused, interruptedItemIDs
<1>18. CASE PromoteRefused(d)
  BY Zenon, <1>18 DEF Next, PromoteRefused
<1>19. CASE StageRefused(d)
  BY Zenon, <1>19 DEF Next, StageRefused
<1>20. CASE StopBetween(d)
  <2>1. /\ drv[d].run \in Runs /\ drv[d].tok \in Tokens /\ drv[d].cur \in Turns
        /\ drv[d].buf \in SUBSET Entries /\ {} \in SUBSET Entries
    BY Zenon, <1>20 DEF StopBetween
  <2>2. /\ stagedRevision(d) \in Revisions
        /\ StageCheckpoint(drv[d].run, drv[d].tok, stagedRevision(d),
              [turn |-> drv[d].cur, runner |-> FALSE, rest |-> drv[d].buf, inflight |-> {}])
    BY Zenon, <1>20 DEF StopBetween, stage
  <2> QED
    BY ZenonT(40), <2>1, <2>2, StageImplements
<1>21. CASE IdleStop(d)
  BY <1>21 DEF Next, IdleStop
<1>22. CASE QueuedAmong(d)
  BY Zenon, <1>22 DEF Next, QueuedAmong
<1>23. CASE SettleClean(d)
  BY Zenon, <1>23 DEF Next, SettleClean, TerminalRun
<1>24. CASE RetireCompleted(d)
  BY ZenonT(40), <1>24 DEF Next, RetireCompleted
<1>25. CASE CarrierAdmit(d)
  BY Zenon, <1>25 DEF Next, CarrierAdmit
<1>26. CASE CarrierStage(d)
  <2>1. /\ drv[d].run \in Runs /\ drv[d].tok \in Tokens /\ drv[d].cur \in Turns
        /\ {} \in SUBSET Entries /\ {} \in SUBSET Entries
    BY Zenon, <1>26 DEF CarrierStage
  <2>2. /\ stagedRevision(d) \in Revisions
        /\ StageCheckpoint(drv[d].run, drv[d].tok, stagedRevision(d),
              [turn |-> drv[d].cur, runner |-> FALSE, rest |-> {}, inflight |-> {}])
    BY Zenon, <1>26 DEF CarrierStage, stage
  <2> QED
    BY ZenonT(40), <2>1, <2>2, StageImplements
<1>27. CASE AdmitRefused(d)
  BY Zenon, <1>27 DEF Next, AdmitRefused, plainInput, TerminalRun
<1>28. CASE ResumeEngineRefused(d)
  BY ZenonT(40), <1>28 DEF Next, ResumeEngineRefused, TerminalRun
<1>29. ASSUME NEW r \in Runs, ReclaimRead(d, r) PROVE [Next]_storeVars
  BY Zenon, <1>29 DEF Next, ReclaimRead
<1>30. CASE Reclaim(d)
  BY Zenon, <1>30 DEF Next, Reclaim
<1>31. CASE ReconcileTurn(d)
  <2> DEFINE t == newest(turnsOf(drv[d].run, {"admitted", "running"}))
  <2>1. CASE t = None
    BY ZenonT(60), <1>31, <2>1 DEF ReconcileTurn
  <2>2. CASE t # None
    <3>1. t \in Turns
      BY Zenon, <2>2, NewestOfRun
    <3>2. ReconcileInterruptedTurn(drv[d].run, drv[d].tok, t, now(t))
      BY Zenon, <1>31, <2>2 DEF ReconcileTurn
    <3> HIDE DEF t
    <3> QED
      BY Zenon, <1>31, <3>1, <3>2 DEF Next, ReconcileTurn
  <2> QED
    BY Zenon, <2>1, <2>2
<1>32. CASE ReconcileSettle(d)
  BY ZenonT(40), <1>32 DEF Next, ReconcileSettle, TerminalRun
<1>33. CASE ReconcileCarrier(d)
  BY Zenon, <1>33 DEF Next, ReconcileCarrier
<1>34. CASE ReconcileStage(d)
  <2> DEFINE t == currentTurn(drv[d].run)
  <2>1. t \in Turns
    BY Zenon, <1>34, NewestOfRun DEF ReconcileStage, currentTurn
  <2>2. drv[d].run \in Runs /\ drv[d].tok \in Tokens /\ {} \in SUBSET Entries
    BY Zenon, <1>34 DEF ReconcileStage
  <2>3. /\ stagedRevision(d) \in Revisions
        /\ StageCheckpoint(drv[d].run, drv[d].tok, stagedRevision(d),
              [turn |-> t, runner |-> FALSE, rest |-> {}, inflight |-> {}])
    BY Zenon, <1>34 DEF ReconcileStage
  <2> HIDE DEF t
  <2> QED
    BY ZenonT(40), <2>1, <2>2, <2>3, StageImplements
<1>35. CASE ReconcileRepause(d)
  BY ZenonT(40), <1>35 DEF Next, ReconcileRepause
<1>36. ASSUME NEW r \in Runs, AbandonRead(d, r) PROVE [Next]_storeVars
  BY Zenon, <1>36 DEF Next, AbandonRead
<1>37. CASE AbandonClaim(d)
  BY ZenonT(60), <1>37 DEF Next, AbandonClaim
<1>38. CASE AbandonRetire(d)
  BY ZenonT(60), <1>38 DEF Next, AbandonRetire
<1>39. CASE AbandonSettle(d)
  BY ZenonT(40), <1>39 DEF Next, AbandonSettle, TerminalRun
<1>40. CASE Heartbeat(d)
  BY ZenonT(40), <1>40 DEF Next, Heartbeat, heartbeats
<1>41. CASE ClaimRefused(d)
  BY ZenonT(40), <1>41 DEF Next, ClaimRefused
<1>42. CASE FenceLost(d)
  BY ZenonT(40), <1>42 DEF Next, FenceLost
<1>43. CASE Crash(d)
  BY ZenonT(40), <1>43 DEF Next, Crash
<1> QED
  BY Zenon, <1>2, <1>3, <1>4, <1>5, <1>6, <1>7, <1>8, <1>9, <1>10, <1>11, <1>12, <1>13, <1>14, <1>15,
     <1>16, <1>17, <1>18, <1>19, <1>20, <1>21, <1>22, <1>23, <1>24, <1>25, <1>26, <1>27, <1>28,
     <1>29, <1>30, <1>31, <1>32, <1>33, <1>34, <1>35, <1>36, <1>37, <1>38, <1>39, <1>40, <1>41,
     <1>42, <1>43 DEF DriverStep, HostStep

\* The same of submissions, pushes and lease expiry.
LEMMA TLStepImplements == DriverInv /\ [TLNext]_vars => [Next]_storeVars
<1> SUFFICES ASSUME DriverInv, [TLNext]_vars PROVE [Next]_storeVars
  BY Zenon
<1>1. ASSUME NEW d \in Drivers, DriverStep(d) \/ HostStep(d) PROVE [Next]_storeVars
  BY ZenonT(60), <1>1, DriverStepImplements
<1>2. ASSUME NEW r \in Runs, Expire(r) PROVE [Next]_storeVars
  BY Zenon, <1>2 DEF Expire, Next
<1>3. ASSUME NEW r \in Runs, NEW i \in Items, Enqueue(r, i) PROVE [Next]_storeVars
  BY Zenon, <1>3 DEF Enqueue, Next
<1>4. ASSUME NEW r \in Runs, NEW i \in Items, EnqueuePush(r, i) PROVE [Next]_storeVars
  BY Zenon, <1>4 DEF EnqueuePush
<1>5. CASE UNCHANGED vars
  BY Zenon, <1>5 DEF vars
<1> QED
  BY Zenon, <1>1, <1>2, <1>3, <1>4, <1>5 DEF TLNext

\* A step that gives one driver a well-formed memory keeps the others'.
LEMMA OneDriverMoves ==
  ASSUME DriverTypeOK, NEW d \in Drivers, NEW m \in Drives, wellFormed(m),
         become(d, m), pushing' = pushing
  PROVE  DriverTypeOK'
  BY Zenon DEF DriverTypeOK, Drives, wellFormed, become

\* A driver that ends is well-formed.
LEMMA ParkedIsWellFormed ==
  ASSUME DriverTypeOK, NEW d \in Drivers, park(d), pushing' = pushing
  PROVE  DriverTypeOK'
<1>1. Parked \in Drives
  BY Zenon, IdentityAssumption DEF Parked, Drives, Points
<1>2. wellFormed(Parked)
  BY Zenon, NoneAssumption DEF Parked, wellFormed, Unclaimed, Turnless
<1> QED
  BY Zenon, <1>1, <1>2, OneDriverMoves DEF park

\* The envelope of a promoted checkpoint has its fields.
LEMMA EnvelopeFields ==
  ASSUME DriverInv, NEW r \in Runs, promotedRevision(r) # 0
  PROVE  /\ envelope(r).turn \in Turns
         /\ envelope(r).rest \in SUBSET Entries
         /\ envelope(r).inflight \in SUBSET Entries
<1>1. /\ promotedRevision(r) \in Revisions
      /\ ckptState[r][promotedRevision(r)] = "promoted"
  BY Zenon, PromotedRevisionIsPromoted DEF DriverInv
<1>2. envelope(r) \in Blobs
  BY Zenon, <1>1 DEF DriverInv, CheckpointsHaveBytes, envelope
<1> QED
  BY Zenon, <1>2, EnvelopeAssumption

\* The largest ordinal of a run is an ordinal, or 0.
LEMMA MaxOrdinalType ==
  ASSUME TypeOK, NEW r
  PROVE  maxOrdinal(r) \in Ordinals \cup {0}
<1> DEFINE t == newest(turnsOf(r, OpenTurn \cup ClosedTurn))
<1>1. CASE t = None
  BY Zenon, <1>1 DEF maxOrdinal
<1>2. CASE t # None
  <2>1. t \in Turns
    BY Zenon, <1>2, NewestOfRun
  <2>2. turnOrdinal[t] \in Ordinals \cup {0}
    BY Zenon, <2>1 DEF TypeOK
  <2> QED
    BY Zenon, <1>2, <2>2 DEF maxOrdinal
<1> QED
  BY Zenon, <1>1, <1>2

\* Every step of a driver leaves its memory well-formed.
LEMMA DriverStepWellFormed ==
  ASSUME DriverInv, NEW d \in Drivers, DriverStep(d) \/ HostStep(d)
  PROVE  DriverTypeOK'
<1>1. TypeOK /\ DriverTypeOK
  BY Zenon DEF DriverInv
<1>2. drv[d] \in Drives /\ wellFormed(drv[d])
  BY Zenon, <1>1 DEF DriverTypeOK
<1>3. ASSUME NEW r \in Runs, Start(d, r) PROVE DriverTypeOK'
  <2> DEFINE m == [Parked EXCEPT !.pc = "push", !.run = r, !.tok = NewClaimToken,
                               !.ord = 1, !.cur = NewTurnID]
  <2>8. become(d, m) /\ pushing' = pushing
    BY Zenon, <1>3 DEF Start
  <2>9. m \in Drives /\ wellFormed(m)
    BY ZenonT(40), <1>3, <1>1, Identifiers, NoneAssumption, IdentityAssumption
     DEF Start, Drives, Points, wellFormed, Unclaimed, Turnless, Parked, AdmitDurable
  <2> HIDE DEF m
  <2> QED
    BY Zenon, <1>1, <2>8, <2>9, OneDriverMoves
<1>4. CASE StartPush(d)
  <2>1. PICK queued \in {drainQueuedInbox(drv[d].run), {}} :
          become(d, [drv[d] EXCEPT !.pc = "begin", !.first = (drv[d].buf = {}),
                                   !.buf = @ \cup {First} \cup queued])
    BY ZenonT(40), <1>4 DEF StartPush
  <2>2. queued \in SUBSET Items
    BY Zenon, <2>1 DEF drainQueuedInbox
  <2> DEFINE m == [drv[d] EXCEPT !.pc = "begin", !.first = (drv[d].buf = {}),
                               !.buf = @ \cup {First} \cup queued]
  <2>8. become(d, m) /\ pushing' = pushing
    BY Zenon, <1>4, <2>1 DEF StartPush
  <2>9. m \in Drives /\ wellFormed(m)
    BY ZenonT(40), <1>2, <1>4, <2>1, <2>2, NoneAssumption, IdentityAssumption
     DEF StartPush, Drives, Points, wellFormed, Unclaimed, Turnless, Entries
  <2> HIDE DEF m
  <2> QED
    BY Zenon, <1>1, <2>8, <2>9, OneDriverMoves
<1>5. CASE BeginFresh(d)
  <2> DEFINE m == [drv[d] EXCEPT !.pc = "load"]
  <2>8. become(d, m) /\ pushing' = pushing
    BY Zenon, <1>5 DEF BeginFresh
  <2>9. m \in Drives /\ wellFormed(m)
    BY Zenon, <1>1, <1>2, <1>5, Identifiers, NoneAssumption, IdentityAssumption
     DEF BeginFresh, Drives, wellFormed, Points, Unclaimed, Turnless
  <2> HIDE DEF m
  <2> QED
    BY Zenon, <1>1, <2>8, <2>9, OneDriverMoves
<1>6. ASSUME NEW r \in Runs, ResumeRead(d, r) PROVE DriverTypeOK'
  <2> DEFINE t == currentTurn(r)
             sentinel == IF /\ ~envelope(r).runner /\ turnState[t] = "interrupted"
                            /\ hasUserMessages(t)
                           THEN {Reconciled} ELSE {}
  <2>1. t \in Turns
    BY Zenon, <1>6, EnvelopeFields DEF ResumeRead
  <2>2. maxOrdinal(r) \in Ordinals \cup {0}
    BY Zenon, <1>1, MaxOrdinalType
  <2>3. drainQueuedInbox(r) \cup sentinel \in SUBSET Entries
    BY Zenon DEF drainQueuedInbox, Entries
  <2> DEFINE m == [Parked EXCEPT !.pc = "resume", !.run = r, !.ord = maxOrdinal(r),
                               !.cur = t, !.buf = drainQueuedInbox(r) \cup sentinel]
  <2>8. become(d, m) /\ pushing' = pushing
    BY ZenonT(60), <1>6 DEF ResumeRead
  <2>9. m \in Drives /\ wellFormed(m)
    BY ZenonT(40), <1>6, <2>1, <2>2, <2>3, NoneAssumption, IdentityAssumption
     DEF ResumeRead, Drives, Points, wellFormed, Unclaimed, Turnless, Parked
  <2> HIDE DEF m
  <2> QED
    BY Zenon, <1>1, <2>8, <2>9, OneDriverMoves
<1>7. CASE ResumeClaim(d)
  <2> DEFINE m == [drv[d] EXCEPT !.pc = "resumed", !.tok = NewClaimToken]
  <2>8. become(d, m) /\ pushing' = pushing
    BY Zenon, <1>7 DEF ResumeClaim
  <2>9. m \in Drives /\ wellFormed(m)
    BY ZenonT(40), <1>1, <1>2, <1>7, Identifiers, NoneAssumption, IdentityAssumption
     DEF ResumeClaim, Drives, wellFormed, Points, Unclaimed, Turnless
  <2> HIDE DEF m
  <2> QED
    BY Zenon, <1>1, <2>8, <2>9, OneDriverMoves
<1>8. CASE ResumeStart(d)
  <2> DEFINE m == [drv[d] EXCEPT !.pc = "load"]
  <2>8. become(d, m) /\ pushing' = pushing
    BY Zenon, <1>8 DEF ResumeStart
  <2>9. m \in Drives /\ wellFormed(m)
    BY Zenon, <1>1, <1>2, <1>8, Identifiers, NoneAssumption, IdentityAssumption
     DEF ResumeStart, Drives, wellFormed, Points, Unclaimed, Turnless
  <2> HIDE DEF m
  <2> QED
    BY Zenon, <1>1, <2>8, <2>9, OneDriverMoves
<1>9. CASE ResumeStartFails(d)
  BY Zenon, <1>1, <1>9, ParkedIsWellFormed DEF ResumeStartFails
<1>10. CASE LoadCheckpoint(d)
  <2> DEFINE r == drv[d].run
             t == newest(turnsOf(r, {"interrupted"}))
  <2>1. r \in Runs
    BY Zenon, <1>1, <1>10, DriverMemory DEF LoadCheckpoint
  <2>2. CASE promotedRevision(r) = 0
    <3> DEFINE m == [drv[d] EXCEPT !.pc = "loop"]
    <3>8. become(d, m) /\ pushing' = pushing
      BY Zenon, <1>10, <2>2 DEF LoadCheckpoint
    <3>9. m \in Drives /\ wellFormed(m)
      BY ZenonT(60), <1>2, <1>10, <2>2, NoneAssumption, IdentityAssumption
     DEF LoadCheckpoint, Drives, Points, wellFormed, Unclaimed, Turnless
    <3> HIDE DEF m
    <3> QED
      BY Zenon, <1>1, <3>8, <3>9, OneDriverMoves
  <2>3. CASE promotedRevision(r) # 0 /\ ~envelope(r).runner
    <3>1. envelope(r).rest \in SUBSET Entries
      BY Zenon, <2>1, <2>3, EnvelopeFields
    <3> DEFINE m == [drv[d] EXCEPT !.pc = "loop", !.loaded = TRUE, !.buf = @ \cup envelope(r).rest]
    <3>8. become(d, m) /\ pushing' = pushing
      BY Zenon, <1>10, <2>3 DEF LoadCheckpoint
    <3>9. m \in Drives /\ wellFormed(m)
      BY ZenonT(40), <1>2, <1>10, <2>3, <3>1, NoneAssumption, IdentityAssumption
     DEF LoadCheckpoint, Drives, Points, wellFormed, Unclaimed, Turnless
    <3> HIDE DEF m
    <3> QED
      BY Zenon, <1>1, <3>8, <3>9, OneDriverMoves
  <2>4. CASE promotedRevision(r) # 0 /\ envelope(r).runner
    <3>1. envelope(r).rest \in SUBSET Entries /\ envelope(r).inflight \in SUBSET Entries
      BY Zenon, <2>1, <2>4, EnvelopeFields
    <3>2. t \in Turns
      BY Zenon, <1>1, <1>10, <2>4, NewestOfRun DEF LoadCheckpoint
    <3>3. turnOrdinal[t] \in Ordinals \cup {0}
      BY Zenon, <1>1, <3>2 DEF TypeOK
    <3> DEFINE m == [drv[d] EXCEPT !.pc = "turn", !.loaded = TRUE, !.cur = t,
                               !.ord = IF turnOrdinal[t] > @ THEN turnOrdinal[t] ELSE @,
                               !.buf = @ \cup envelope(r).rest, !.batch = envelope(r).inflight]
    <3>8. become(d, m) /\ pushing' = pushing
      BY ZenonT(60), <1>10, <2>4 DEF LoadCheckpoint
    <3>9. m \in Drives /\ wellFormed(m)
      BY ZenonT(40), <1>2, <1>10, <2>4, <3>1, <3>2, <3>3, NoneAssumption, IdentityAssumption
     DEF LoadCheckpoint, Drives, Points, wellFormed, Unclaimed, Turnless
    <3> HIDE DEF m
    <3> QED
      BY Zenon, <1>1, <3>8, <3>9, OneDriverMoves
  <2> QED
    BY ZenonT(60), <1>10, <2>2, <2>3, <2>4 DEF LoadCheckpoint
<1>11. CASE GenInputFirst(d)
  <2> DEFINE m == [drv[d] EXCEPT !.pc = "turn", !.first = FALSE, !.batch = {First},
                               !.buf = @ \ {First}]
  <2>8. become(d, m) /\ pushing' = pushing
    BY Zenon, <1>11 DEF GenInputFirst
  <2>9. m \in Drives /\ wellFormed(m)
    BY ZenonT(40), <1>2, <1>11, NoneAssumption, IdentityAssumption
     DEF GenInputFirst, Drives, Points, wellFormed, Unclaimed, Turnless, Entries
  <2> HIDE DEF m
  <2> QED
    BY Zenon, <1>1, <2>8, <2>9, OneDriverMoves
<1>12. CASE GenInputReconciled(d)
  <2>1. PICK t \in {newest(turnsOf(drv[d].run, {"interrupted"}))} \ {None} :
          become(d, [drv[d] EXCEPT !.pc = "turn", !.cur = t,
                                   !.ord = IF turnOrdinal[t] > @ THEN turnOrdinal[t] ELSE @,
                                   !.batch = {Reconciled}, !.buf = @ \ {Reconciled}])
    BY Zenon, <1>12 DEF GenInputReconciled
  <2>2. t \in Turns
    BY Zenon, <1>1, <2>1, NewestOfRun
  <2>3. turnOrdinal[t] \in Ordinals \cup {0}
    BY Zenon, <1>1, <2>2 DEF TypeOK
  <2> DEFINE m == [drv[d] EXCEPT !.pc = "turn", !.cur = t,
                               !.ord = IF turnOrdinal[t] > @ THEN turnOrdinal[t] ELSE @,
                               !.batch = {Reconciled}, !.buf = @ \ {Reconciled}]
  <2>8. become(d, m) /\ pushing' = pushing
    BY Zenon, <1>12, <2>1 DEF GenInputReconciled
  <2>9. m \in Drives /\ wellFormed(m)
    BY ZenonT(40), <1>2, <1>12, <2>1, <2>2, <2>3, NoneAssumption, IdentityAssumption
     DEF GenInputReconciled, Drives, Points, wellFormed, Unclaimed, Turnless, Entries
  <2> HIDE DEF m
  <2> QED
    BY Zenon, <1>1, <2>8, <2>9, OneDriverMoves
<1>13. CASE GenInputAdmit(d)
  <2> DEFINE m == [drv[d] EXCEPT !.pc = "turn", !.cur = NewTurnID, !.ord = @ + 1,
                               !.seen = @ \cup claimItems(d), !.batch = drv[d].buf, !.buf = {}]
  <2>8. become(d, m) /\ pushing' = pushing
    BY Zenon, <1>13 DEF GenInputAdmit
  <2>9. m \in Drives /\ wellFormed(m)
    BY ZenonT(40), <1>2, <1>13, <1>1, Identifiers, NoneAssumption, IdentityAssumption
     DEF GenInputAdmit, Drives, Points, wellFormed, Unclaimed, Turnless, plainInput, claimItems
  <2> HIDE DEF m
  <2> QED
    BY Zenon, <1>1, <2>8, <2>9, OneDriverMoves
<1>14. CASE GenInputDuplicate(d)
  <2> DEFINE m == [drv[d] EXCEPT !.pc = "stopping", !.seen = @ \cup claimItems(d)]
  <2>8. become(d, m) /\ pushing' = pushing
    BY Zenon, <1>14 DEF GenInputDuplicate
  <2>9. m \in Drives /\ wellFormed(m)
    BY ZenonT(40), <1>2, <1>14, NoneAssumption, IdentityAssumption
     DEF GenInputDuplicate, Drives, Points, wellFormed, Unclaimed, Turnless, plainInput, claimItems
  <2> HIDE DEF m
  <2> QED
    BY Zenon, <1>1, <2>8, <2>9, OneDriverMoves
<1>15. CASE CompletesTurn(d)
  <2> DEFINE m == [drv[d] EXCEPT !.pc = "loop", !.batch = {}]
  <2>8. become(d, m) /\ pushing' = pushing
    BY Zenon, <1>15 DEF CompletesTurn
  <2>9. m \in Drives /\ wellFormed(m)
    BY ZenonT(40), <1>1, <1>2, <1>15, Identifiers, NoneAssumption, IdentityAssumption
     DEF CompletesTurn, Drives, wellFormed, Points, Unclaimed, Turnless
  <2> HIDE DEF m
  <2> QED
    BY Zenon, <1>1, <2>8, <2>9, OneDriverMoves
<1>16. CASE FailDrive(d)
  BY Zenon, <1>1, <1>16, ParkedIsWellFormed DEF FailDrive
<1>17. CASE InterruptStage(d)
  <2> DEFINE m == [drv[d] EXCEPT !.pc = "pausing", !.staged = stagedRevision(d)]
  <2>8. become(d, m) /\ pushing' = pushing
    BY Zenon, <1>17 DEF InterruptStage
  <2>9. m \in Drives /\ wellFormed(m)
    BY ZenonT(40), <1>2, <1>17, NoneAssumption, IdentityAssumption
     DEF InterruptStage, Drives, Points, wellFormed, Unclaimed, Turnless, stage
  <2> HIDE DEF m
  <2> QED
    BY Zenon, <1>1, <2>8, <2>9, OneDriverMoves
<1>18. CASE PromotePaused(d)
  BY Zenon, <1>1, <1>18, ParkedIsWellFormed DEF PromotePaused
<1>19. CASE PromoteRefused(d)
  BY Zenon, <1>1, <1>19, ParkedIsWellFormed DEF PromoteRefused
<1>20. CASE StageRefused(d)
  BY ZenonT(60), <1>1, <1>20, ParkedIsWellFormed DEF StageRefused
<1>21. CASE StopBetween(d)
  <2> DEFINE m == [drv[d] EXCEPT !.pc = "unhandled", !.staged = stagedRevision(d)]
  <2>8. become(d, m) /\ pushing' = pushing
    BY Zenon, <1>21 DEF StopBetween
  <2>9. m \in Drives /\ wellFormed(m)
    BY ZenonT(40), <1>2, <1>21, NoneAssumption, IdentityAssumption
     DEF StopBetween, Drives, Points, wellFormed, Unclaimed, Turnless, stage
  <2> HIDE DEF m
  <2> QED
    BY Zenon, <1>1, <2>8, <2>9, OneDriverMoves
<1>22. CASE IdleStop(d)
  <2> DEFINE last == IF drv[d].staged > 0 THEN drv[d].staged ELSE promotedRevision(drv[d].run)
  <2>1. last \in Revisions \cup {0}
    BY Zenon, <1>1, <1>2, <1>22, DriverMemory, PromotedRevisionIsPromoted DEF IdleStop
  <2>2. CASE become(d, [drv[d] EXCEPT !.pc = "late", !.staged = last])
    <3> DEFINE m == [drv[d] EXCEPT !.pc = "late", !.staged = last]
    <3>8. become(d, m) /\ pushing' = pushing
      BY ZenonT(60), <1>22, <2>2 DEF IdleStop
    <3>9. m \in Drives /\ wellFormed(m)
      BY ZenonT(40), <1>2, <1>22, <2>2, <2>1, NoneAssumption, IdentityAssumption
     DEF IdleStop, Drives, Points, wellFormed, Unclaimed, Turnless
    <3> HIDE DEF m
    <3> QED
      BY Zenon, <1>1, <3>8, <3>9, OneDriverMoves
  <2>3. CASE become(d, [drv[d] EXCEPT !.pc = "late"])
    <3> DEFINE m == [drv[d] EXCEPT !.pc = "late"]
    <3>8. become(d, m) /\ pushing' = pushing
      BY Zenon, <1>22, <2>3 DEF IdleStop
    <3>9. m \in Drives /\ wellFormed(m)
      BY ZenonT(60), <1>2, <1>22, <2>3, NoneAssumption, IdentityAssumption
     DEF IdleStop, Drives, Points, wellFormed, Unclaimed, Turnless
    <3> HIDE DEF m
    <3> QED
      BY Zenon, <1>1, <3>8, <3>9, OneDriverMoves
  <2> QED
    BY ZenonT(60), <1>22, <2>2, <2>3 DEF IdleStop
<1>23. CASE QueuedAmong(d)
  <2> DEFINE m == [drv[d] EXCEPT !.pc = IF \E i \in drv[d].buf \cap Items : inboxState[i] = "queued"
                         THEN "carrier" ELSE "clean"]
  <2>8. become(d, m) /\ pushing' = pushing
    BY Zenon, <1>23 DEF QueuedAmong
  <2>9. m \in Drives /\ wellFormed(m)
    BY ZenonT(60), <1>1, <1>2, <1>23, Identifiers, NoneAssumption, IdentityAssumption
     DEF QueuedAmong, Drives, wellFormed, Points, Unclaimed, Turnless
  <2> HIDE DEF m
  <2> QED
    BY Zenon, <1>1, <2>8, <2>9, OneDriverMoves
<1>24. CASE SettleClean(d)
  <2>1. CASE become(d, [drv[d] EXCEPT !.pc = "retire"]) /\ drv[d].staged > 0
    <3> DEFINE m == [drv[d] EXCEPT !.pc = "retire"]
    <3>8. become(d, m) /\ pushing' = pushing
      BY Zenon, <1>24, <2>1 DEF SettleClean
    <3>9. m \in Drives /\ wellFormed(m)
      BY <1>2, <1>24, <2>1, NoneAssumption, IdentityAssumption
     DEF SettleClean, Drives, Points, wellFormed, Unclaimed, Turnless
    <3> HIDE DEF m
    <3> QED
      BY Zenon, <1>1, <3>8, <3>9, OneDriverMoves
  <2>2. CASE become(d, Parked)
    BY Zenon, <1>1, <1>24, <2>2, ParkedIsWellFormed DEF SettleClean, park
  <2>3. CASE become(d, [drv[d] EXCEPT !.pc = "carrier"])
    <3> DEFINE m == [drv[d] EXCEPT !.pc = "carrier"]
    <3>8. become(d, m) /\ pushing' = pushing
      BY Zenon, <1>24, <2>3 DEF SettleClean
    <3>9. m \in Drives /\ wellFormed(m)
      BY ZenonT(60), <1>2, <1>24, <2>3, NoneAssumption, IdentityAssumption
     DEF SettleClean, Drives, Points, wellFormed, Unclaimed, Turnless
    <3> HIDE DEF m
    <3> QED
      BY Zenon, <1>1, <3>8, <3>9, OneDriverMoves
  <2> QED
    BY Zenon, <1>24, <2>1, <2>2, <2>3 DEF SettleClean
<1>25. CASE RetireCompleted(d)
  BY Zenon, <1>1, <1>25, ParkedIsWellFormed DEF RetireCompleted
<1>26. CASE CarrierAdmit(d)
  <2> DEFINE m == [drv[d] EXCEPT !.pc = "carrierStage", !.cur = NewTurnID, !.ord = @ + 1]
  <2>8. become(d, m) /\ pushing' = pushing
    BY Zenon, <1>26 DEF CarrierAdmit
  <2>9. m \in Drives /\ wellFormed(m)
    BY ZenonT(40), <1>1, <1>2, <1>26, Identifiers, NoneAssumption, IdentityAssumption
     DEF CarrierAdmit, Drives, wellFormed, Points, Unclaimed, Turnless
  <2> HIDE DEF m
  <2> QED
    BY Zenon, <1>1, <2>8, <2>9, OneDriverMoves
<1>27. CASE CarrierStage(d)
  <2> DEFINE m == [drv[d] EXCEPT !.pc = "pausing", !.staged = stagedRevision(d), !.batch = {}]
  <2>8. become(d, m) /\ pushing' = pushing
    BY Zenon, <1>27 DEF CarrierStage
  <2>9. m \in Drives /\ wellFormed(m)
    BY ZenonT(40), <1>2, <1>27, NoneAssumption, IdentityAssumption
     DEF CarrierStage, Drives, Points, wellFormed, Unclaimed, Turnless, stage
  <2> HIDE DEF m
  <2> QED
    BY Zenon, <1>1, <2>8, <2>9, OneDriverMoves
<1>28. CASE AdmitRefused(d)
  BY Zenon, <1>1, <1>28, ParkedIsWellFormed DEF AdmitRefused
<1>29. CASE ResumeEngineRefused(d)
  BY Zenon, <1>1, <1>29, ParkedIsWellFormed DEF ResumeEngineRefused
<1>30. ASSUME NEW r \in Runs, ReclaimRead(d, r) PROVE DriverTypeOK'
  <2> DEFINE m == [Parked EXCEPT !.pc = "reclaim", !.run = r]
  <2>8. become(d, m) /\ pushing' = pushing
    BY Zenon, <1>30 DEF ReclaimRead
  <2>9. m \in Drives /\ wellFormed(m)
    BY ZenonT(40), <1>30, NoneAssumption, IdentityAssumption
     DEF ReclaimRead, Drives, Points, wellFormed, Unclaimed, Turnless, Parked
  <2> HIDE DEF m
  <2> QED
    BY Zenon, <1>1, <2>8, <2>9, OneDriverMoves
<1>31. CASE Reclaim(d)
  <2> DEFINE m == [drv[d] EXCEPT !.pc = "reconcile", !.tok = NewClaimToken]
  <2>8. become(d, m) /\ pushing' = pushing
    BY Zenon, <1>31 DEF Reclaim
  <2>9. m \in Drives /\ wellFormed(m)
    BY ZenonT(40), <1>2, <1>31, <1>1, Identifiers, NoneAssumption, IdentityAssumption
     DEF Reclaim, Drives, Points, wellFormed, Unclaimed, Turnless
  <2> HIDE DEF m
  <2> QED
    BY Zenon, <1>1, <2>8, <2>9, OneDriverMoves
<1>32. CASE ReconcileTurn(d)
  <2> DEFINE m == [drv[d] EXCEPT !.pc = "reconciled"]
  <2>8. become(d, m) /\ pushing' = pushing
    BY Zenon, <1>32 DEF ReconcileTurn
  <2>9. m \in Drives /\ wellFormed(m)
    BY ZenonT(60), <1>1, <1>2, <1>32, Identifiers, NoneAssumption, IdentityAssumption
     DEF ReconcileTurn, Drives, wellFormed, Points, Unclaimed, Turnless
  <2> HIDE DEF m
  <2> QED
    BY Zenon, <1>1, <2>8, <2>9, OneDriverMoves
<1>33. CASE ReconcileSettle(d)
  BY Zenon, <1>1, <1>33, ParkedIsWellFormed DEF ReconcileSettle
<1>34. CASE ReconcileCarrier(d)
  <2> DEFINE m == [drv[d] EXCEPT !.pc = "reconcile"]
  <2>8. become(d, m) /\ pushing' = pushing
    BY Zenon, <1>34 DEF ReconcileCarrier
  <2>9. m \in Drives /\ wellFormed(m)
    BY ZenonT(60), <1>1, <1>2, <1>34, Identifiers, NoneAssumption, IdentityAssumption
     DEF ReconcileCarrier, Drives, wellFormed, Points, Unclaimed, Turnless
  <2> HIDE DEF m
  <2> QED
    BY Zenon, <1>1, <2>8, <2>9, OneDriverMoves
<1>35. CASE ReconcileStage(d)
  <2> DEFINE m == [drv[d] EXCEPT !.pc = "repause", !.staged = stagedRevision(d)]
  <2>8. become(d, m) /\ pushing' = pushing
    BY Zenon, <1>35 DEF ReconcileStage
  <2>9. m \in Drives /\ wellFormed(m)
    BY ZenonT(40), <1>1, <1>2, <1>35, Identifiers, NoneAssumption, IdentityAssumption
     DEF ReconcileStage, Drives, wellFormed, Points, Unclaimed, Turnless
  <2> HIDE DEF m
  <2> QED
    BY Zenon, <1>1, <2>8, <2>9, OneDriverMoves
<1>36. CASE ReconcileRepause(d)
  BY Zenon, <1>1, <1>36, ParkedIsWellFormed DEF ReconcileRepause
<1>37. ASSUME NEW r \in Runs, AbandonRead(d, r) PROVE DriverTypeOK'
  <2> DEFINE m == [Parked EXCEPT !.pc = "abandon", !.run = r]
  <2>8. become(d, m) /\ pushing' = pushing
    BY Zenon, <1>37 DEF AbandonRead
  <2>9. m \in Drives /\ wellFormed(m)
    BY ZenonT(40), <1>37, NoneAssumption, IdentityAssumption
     DEF AbandonRead, Drives, Points, wellFormed, Unclaimed, Turnless, Parked
  <2> HIDE DEF m
  <2> QED
    BY Zenon, <1>1, <2>8, <2>9, OneDriverMoves
<1>38. CASE AbandonClaim(d)
  <2> DEFINE m == [drv[d] EXCEPT !.pc = "abandoning", !.tok = NewClaimToken]
  <2>8. become(d, m) /\ pushing' = pushing
    BY Zenon, <1>38 DEF AbandonClaim
  <2>9. m \in Drives /\ wellFormed(m)
    BY ZenonT(40), <1>1, <1>2, <1>38, Identifiers, NoneAssumption, IdentityAssumption
     DEF AbandonClaim, Drives, wellFormed, Points, Unclaimed, Turnless
  <2> HIDE DEF m
  <2> QED
    BY Zenon, <1>1, <2>8, <2>9, OneDriverMoves
<1>39. CASE AbandonRetire(d)
  <2> DEFINE m == [drv[d] EXCEPT !.pc = "abandoned"]
  <2>8. become(d, m) /\ pushing' = pushing
    BY Zenon, <1>39 DEF AbandonRetire
  <2>9. m \in Drives /\ wellFormed(m)
    BY ZenonT(60), <1>1, <1>2, <1>39, Identifiers, NoneAssumption, IdentityAssumption
     DEF AbandonRetire, Drives, wellFormed, Points, Unclaimed, Turnless
  <2> HIDE DEF m
  <2> QED
    BY Zenon, <1>1, <2>8, <2>9, OneDriverMoves
<1>40. CASE AbandonSettle(d)
  BY Zenon, <1>1, <1>40, ParkedIsWellFormed DEF AbandonSettle
<1>41. CASE Heartbeat(d)
  BY ZenonT(60), <1>1, <1>2, <1>41, Identifiers, NoneAssumption, IdentityAssumption
     DEF Heartbeat, DriverTypeOK, Drives, wellFormed, Points, Unclaimed, Turnless, Parked, become
<1>42. CASE ClaimRefused(d)
  BY Zenon, <1>1, <1>42, ParkedIsWellFormed DEF ClaimRefused
<1>43. CASE FenceLost(d)
  BY Zenon, <1>1, <1>43, ParkedIsWellFormed DEF FenceLost
<1>44. CASE Crash(d)
  BY Zenon, <1>1, <1>44, ParkedIsWellFormed DEF Crash
<1> QED
  BY ZenonT(60), <1>3, <1>4, <1>5, <1>6, <1>7, <1>8, <1>9, <1>10, <1>11, <1>12, <1>13, <1>14, <1>15, <1>16,
     <1>17, <1>18, <1>19, <1>20, <1>21, <1>22, <1>23, <1>24, <1>25, <1>26, <1>27, <1>28, <1>29,
     <1>30, <1>31, <1>32, <1>33, <1>34, <1>35, <1>36, <1>37, <1>38, <1>39, <1>40, <1>41, <1>42,
     <1>43, <1>44 DEF DriverStep, HostStep

\* Submissions, pushes and expiry leave every memory well-formed.
LEMMA DriverTypeStep == DriverInv /\ [TLNext]_vars => DriverTypeOK'
<1> SUFFICES ASSUME DriverInv, [TLNext]_vars PROVE DriverTypeOK'
  BY Zenon
<1>0. DriverTypeOK
  BY Zenon DEF DriverInv
<1>1. ASSUME NEW d \in Drivers, DriverStep(d) \/ HostStep(d) PROVE DriverTypeOK'
  BY Zenon, <1>1, DriverStepWellFormed
<1>2. ASSUME NEW r \in Runs, Expire(r) PROVE DriverTypeOK'
  BY Zenon, <1>0, <1>2 DEF Expire, DriverTypeOK
<1>3. ASSUME NEW r \in Runs, NEW i \in Items, Enqueue(r, i) PROVE DriverTypeOK'
  <2>1. drv' = drv /\ pushing' \in SUBSET (Runs \X Items)
    BY <1>0, <1>3 DEF Enqueue, DriverTypeOK
  <2> QED
    BY Zenon, <1>0, <2>1 DEF DriverTypeOK
<1>4. ASSUME NEW r \in Runs, NEW i \in Items, EnqueuePush(r, i) PROVE DriverTypeOK'
  <2>1. pushing' \in SUBSET (Runs \X Items)
    BY Zenon, <1>0, <1>4 DEF EnqueuePush, DriverTypeOK
  <2>2. CASE UNCHANGED drv
    BY Zenon, <1>0, <2>1, <2>2 DEF DriverTypeOK
  <2>3. ASSUME NEW d \in Drivers, become(d, [drv[d] EXCEPT !.buf = @ \cup {i}])
        PROVE  DriverTypeOK'
    <3> DEFINE m == [drv[d] EXCEPT !.buf = @ \cup {i}]
    <3>1. drv[d] \in Drives /\ wellFormed(drv[d])
      BY Zenon, <1>0 DEF DriverTypeOK
    <3>2. m \in Drives /\ wellFormed(m)
      BY ZenonT(60), <3>1 DEF Drives, wellFormed, Entries
    <3>3. become(d, m)
      BY Zenon, <2>3
    <3> HIDE DEF m
    <3> QED
      BY Zenon, <1>0, <2>1, <3>2, <3>3 DEF DriverTypeOK, become
  <2> QED
    BY ZenonT(40), <1>4, <2>2, <2>3 DEF EnqueuePush
<1>5. CASE UNCHANGED vars
  BY Zenon, <1>0, <1>5 DEF vars, DriverTypeOK
<1> QED
  BY Zenon, <1>1, <1>2, <1>3, <1>4, <1>5 DEF TLNext

\* No step of the store leaves a checkpoint row without bytes.
LEMMA CheckpointsHaveBytesStep ==
    TypeOK /\ CheckpointsHaveBytes /\ [Next]_storeVars => CheckpointsHaveBytes'
<1> SUFFICES ASSUME TypeOK, CheckpointsHaveBytes, [Next]_storeVars PROVE CheckpointsHaveBytes'
  BY Zenon
<1> USE DEF TypeOK, CheckpointsHaveBytes, ckptVars
<1>1. ASSUME NEW r \in Runs, NEW i \in Items, EnqueueInboxForRun(r, i) PROVE CheckpointsHaveBytes'
  BY Zenon, <1>1 DEF EnqueueInboxForRun
<1>2. ASSUME NEW r \in Runs, NEW k \in Tokens, NEW t \in Turns, NEW n \in Ordinals, NEW ids \in
      SUBSET Items, AdmitTurn(r, k, t, n, ids) PROVE CheckpointsHaveBytes'
  BY Zenon, <1>2 DEF AdmitTurn
<1>3. ASSUME NEW r \in Runs, NEW k \in Tokens, NEW t \in Turns, NEW at \in Stamps,
      CompleteTurn(r, k, t, at) PROVE CheckpointsHaveBytes'
  BY Zenon, <1>3 DEF CompleteTurn
<1>4. ASSUME NEW r \in Runs, NEW k \in Tokens, NEW t \in Turns, NEW at \in Stamps,
      ReconcileInterruptedTurn(r, k, t, at) PROVE CheckpointsHaveBytes'
  BY Zenon, <1>4 DEF ReconcileInterruptedTurn
<1>5. ASSUME NEW r \in Runs, NEW k \in Tokens, NEW t \in Turns, ResumeInterruptedTurn(r, k, t)
      PROVE CheckpointsHaveBytes'
  BY Zenon, <1>5 DEF ResumeInterruptedTurn
<1>6. ASSUME NEW r \in Runs, NEW k \in Tokens, NEW v \in Revisions, NEW t \in Turns, NEW ids \in
      SUBSET Items, NEW at \in Stamps, PromotePause(r, k, v, t, ids, at) PROVE CheckpointsHaveBytes'
  BY Zenon, <1>6 DEF PromotePause
<1>7. ASSUME NEW r \in Runs, NEW k \in Tokens, NEW o \in TerminalRun, NEW at \in Stamps,
      SettleRun(r, k, o, at) PROVE CheckpointsHaveBytes'
  BY Zenon, <1>7 DEF SettleRun
<1>8. CASE UNCHANGED storeVars
  BY Zenon, <1>8 DEF storeVars
<1>9. ASSUME NEW r \in Runs, NEW k \in Tokens, AdmitRun(r, k) PROVE CheckpointsHaveBytes'
  BY Zenon, <1>9 DEF AdmitRun
<1>10. ASSUME NEW r \in Runs, NEW k \in Tokens, ClaimRun(r, k) PROVE CheckpointsHaveBytes'
  BY Zenon, <1>10 DEF ClaimRun
<1>11. ASSUME NEW r \in Runs, LeaseExpires(r) PROVE CheckpointsHaveBytes'
  BY Zenon, <1>11 DEF LeaseExpires
<1>12. ASSUME NEW r \in Runs, NEW k \in Tokens, StartRun(r, k) PROVE CheckpointsHaveBytes'
  BY Zenon, <1>12 DEF StartRun
<1>13. ASSUME NEW r \in Runs, NEW k \in Tokens, RenewRunLease(r, k) PROVE CheckpointsHaveBytes'
  BY Zenon, <1>13 DEF RenewRunLease
<1>14. ASSUME NEW r \in Runs, NEW k \in Tokens, NEW v \in Revisions, NEW b \in Blobs,
      StageCheckpoint(r, k, v, b) PROVE CheckpointsHaveBytes'
  BY Zenon, <1>14 DEF StageCheckpoint
<1>15. ASSUME NEW r \in Runs, NEW k \in Tokens, NEW v \in Revisions \cup {0}, RepauseRun(r, k,
      v) PROVE CheckpointsHaveBytes'
  BY Zenon, <1>15, IdentityAssumption DEF RepauseRun
<1>16. ASSUME NEW r \in Runs, NEW k \in Tokens, NEW v \in Revisions, RetireCheckpoints(r, k, v)
      PROVE CheckpointsHaveBytes'
  BY Zenon, <1>16 DEF RetireCheckpoints, deleteCheckpointsUpTo
<1>17. ASSUME NEW r \in Runs, NEW v \in Revisions, RetireRunCheckpoints(r, v)
      PROVE CheckpointsHaveBytes'
  BY Zenon, <1>17 DEF RetireRunCheckpoints, deleteCheckpointsUpTo
<1>18. ASSUME NEW r \in Runs, NEW k \in Tokens, NEW c \in Calls, CreateToolCall(r, k, c) PROVE
      CheckpointsHaveBytes'
  BY Zenon, <1>18 DEF CreateToolCall
<1>19. ASSUME NEW r \in Runs, NEW k \in Tokens, NEW c \in Calls, NEW w \in Claims,
      ClaimToolCall(r, k, c, w) PROVE CheckpointsHaveBytes'
  BY Zenon, <1>19 DEF ClaimToolCall
<1>20. ASSUME NEW r \in Runs, NEW k \in Tokens, NEW c \in Calls, NEW w \in Claims, NEW o \in
      SettledCall, SettleToolCall(r, k, c, w, o) PROVE CheckpointsHaveBytes'
  BY Zenon, <1>20 DEF SettleToolCall
<1>21. ASSUME NEW r \in Runs, NEW k \in Tokens, NEW t \in Turns, AdmitDurable(r, k, t)
       PROVE CheckpointsHaveBytes'
  BY Zenon, <1>21 DEF AdmitDurable
<1>22. ASSUME NEW i \in Items, EnqueueInbox(i) PROVE CheckpointsHaveBytes'
  BY Zenon, <1>22 DEF EnqueueInbox
<1> HIDE DEF CheckpointsHaveBytes, TypeOK
<1> QED
  BY Zenon, <1>1, <1>2, <1>3, <1>4, <1>5, <1>6, <1>7, <1>8, <1>9, <1>10, <1>11, <1>12, <1>13, <1>14,
     <1>15, <1>16, <1>17, <1>18, <1>19, <1>20, <1>21, <1>22 DEF Next

\* A run that was admitted has a token.
RunsHaveToken == \A r \in Runs : runStatus[r] # "none" => claimToken[r] # None

\* AdmitRun and ClaimRun write a token, and no mutation takes it away.
LEMMA RunsHaveTokenStep == TypeOK /\ RunsHaveToken /\ [Next]_storeVars => RunsHaveToken'
<1> SUFFICES ASSUME TypeOK, RunsHaveToken, [Next]_storeVars PROVE RunsHaveToken'
  BY Zenon
<1> USE NoneAssumption DEF TypeOK, RunsHaveToken, loadRunFence, Writable, runVars
<1>1. ASSUME NEW r \in Runs, NEW i \in Items, EnqueueInboxForRun(r, i) PROVE RunsHaveToken'
  BY Zenon, <1>1 DEF EnqueueInboxForRun
<1>2. ASSUME NEW r \in Runs, NEW k \in Tokens, NEW t \in Turns, NEW n \in Ordinals, NEW ids \in
      SUBSET Items, AdmitTurn(r, k, t, n, ids) PROVE RunsHaveToken'
  BY Zenon, <1>2 DEF AdmitTurn
<1>3. ASSUME NEW r \in Runs, NEW k \in Tokens, NEW t \in Turns, NEW at \in Stamps,
      CompleteTurn(r, k, t, at) PROVE RunsHaveToken'
  BY Zenon, <1>3 DEF CompleteTurn
<1>4. ASSUME NEW r \in Runs, NEW k \in Tokens, NEW t \in Turns, NEW at \in Stamps,
      ReconcileInterruptedTurn(r, k, t, at) PROVE RunsHaveToken'
  BY Zenon, <1>4 DEF ReconcileInterruptedTurn
<1>5. ASSUME NEW r \in Runs, NEW k \in Tokens, NEW t \in Turns, ResumeInterruptedTurn(r, k, t)
      PROVE RunsHaveToken'
  BY Zenon, <1>5 DEF ResumeInterruptedTurn
<1>6. ASSUME NEW r \in Runs, NEW k \in Tokens, NEW v \in Revisions, NEW t \in Turns, NEW ids \in
      SUBSET Items, NEW at \in Stamps, PromotePause(r, k, v, t, ids, at) PROVE RunsHaveToken'
  BY Zenon, <1>6 DEF PromotePause
<1>7. ASSUME NEW r \in Runs, NEW k \in Tokens, NEW o \in TerminalRun, NEW at \in Stamps,
      SettleRun(r, k, o, at) PROVE RunsHaveToken'
  BY Zenon, <1>7 DEF SettleRun
<1>8. CASE UNCHANGED storeVars
  BY Zenon, <1>8 DEF storeVars
<1>9. ASSUME NEW r \in Runs, NEW k \in Tokens, AdmitRun(r, k) PROVE RunsHaveToken'
  BY Zenon, <1>9 DEF AdmitRun
<1>10. ASSUME NEW r \in Runs, NEW k \in Tokens, ClaimRun(r, k) PROVE RunsHaveToken'
  BY Zenon, <1>10 DEF ClaimRun
<1>11. ASSUME NEW r \in Runs, LeaseExpires(r) PROVE RunsHaveToken'
  BY Zenon, <1>11 DEF LeaseExpires
<1>12. ASSUME NEW r \in Runs, NEW k \in Tokens, StartRun(r, k) PROVE RunsHaveToken'
  BY Zenon, <1>12 DEF StartRun
<1>13. ASSUME NEW r \in Runs, NEW k \in Tokens, RenewRunLease(r, k) PROVE RunsHaveToken'
  BY Zenon, <1>13 DEF RenewRunLease
<1>14. ASSUME NEW r \in Runs, NEW k \in Tokens, NEW v \in Revisions, NEW b \in Blobs,
      StageCheckpoint(r, k, v, b) PROVE RunsHaveToken'
  BY Zenon, <1>14 DEF StageCheckpoint
<1>15. ASSUME NEW r \in Runs, NEW k \in Tokens, NEW v \in Revisions \cup {0}, RepauseRun(r, k,
      v) PROVE RunsHaveToken'
  BY Zenon, <1>15 DEF RepauseRun
<1>16. ASSUME NEW r \in Runs, NEW k \in Tokens, NEW v \in Revisions, RetireCheckpoints(r, k, v)
      PROVE RunsHaveToken'
  BY Zenon, <1>16 DEF RetireCheckpoints
<1>17. ASSUME NEW r \in Runs, NEW v \in Revisions, RetireRunCheckpoints(r, v) PROVE RunsHaveToken'
  BY Zenon, <1>17 DEF RetireRunCheckpoints
<1>18. ASSUME NEW r \in Runs, NEW k \in Tokens, NEW c \in Calls, CreateToolCall(r, k, c) PROVE
      RunsHaveToken'
  BY Zenon, <1>18 DEF CreateToolCall
<1>19. ASSUME NEW r \in Runs, NEW k \in Tokens, NEW c \in Calls, NEW w \in Claims,
      ClaimToolCall(r, k, c, w) PROVE RunsHaveToken'
  BY Zenon, <1>19 DEF ClaimToolCall
<1>20. ASSUME NEW r \in Runs, NEW k \in Tokens, NEW c \in Calls, NEW w \in Claims, NEW o \in
      SettledCall, SettleToolCall(r, k, c, w, o) PROVE RunsHaveToken'
  BY Zenon, <1>20 DEF SettleToolCall
<1>21. ASSUME NEW r \in Runs, NEW k \in Tokens, NEW t \in Turns, AdmitDurable(r, k, t)
       PROVE RunsHaveToken'
  BY Zenon, <1>21 DEF AdmitDurable
<1>22. ASSUME NEW i \in Items, EnqueueInbox(i) PROVE RunsHaveToken'
  BY Zenon, <1>22 DEF EnqueueInbox
<1> HIDE DEF RunsHaveToken, TypeOK
<1> QED
  BY ZenonT(60), <1>1, <1>2, <1>3, <1>4, <1>5, <1>6, <1>7, <1>8, <1>9, <1>10, <1>11, <1>12, <1>13, <1>14,
     <1>15, <1>16, <1>17, <1>18, <1>19, <1>20, <1>21, <1>22 DEF Next

\* A driver's token was minted, and no two drivers hold the same.
TokensApart ==
    /\ \A d \in Drivers : drv[d].tok \in minted \cup {None}
    /\ \A d, e \in Drivers : drv[d].tok # None /\ drv[d].tok = drv[e].tok => d = e

\* The claim of a token is the only way to hold another than before.
TokenOf(d) ==
    /\ \A e \in Drivers : e # d => drv'[e] = drv[e]
    /\ drv'[d].tok \in {drv[d].tok, None} \cup (minted' \ minted)

\* A driver takes another token only with a claim, and then a fresh one.
LEMMA DriverStepToken ==
  ASSUME DriverInv, NEW d \in Drivers, DriverStep(d) \/ HostStep(d)
  PROVE  TokenOf(d)
<1>1. TypeOK /\ DriverTypeOK
  BY Zenon DEF DriverInv
<1>2. drv \in [Drivers -> Drives] /\ drv[d] \in Drives
  BY Zenon, <1>1 DEF DriverTypeOK
<1>3. ASSUME NEW m, become(d, m), m.tok \in {drv[d].tok, None} \cup (minted' \ minted)
      PROVE  TokenOf(d)
  BY Zenon, <1>2, <1>3 DEF become, TokenOf
<1>4. ASSUME park(d) PROVE TokenOf(d)
  <2>1. Parked.tok = None
    BY Zenon DEF Parked
  <2> QED
    BY Zenon, <1>3, <1>4, <2>1 DEF park
<1>5. ASSUME NEW r \in Runs, Start(d, r) PROVE TokenOf(d)
  BY Zenon, <1>1, <1>2, <1>5, Identifiers DEF Start, AdmitDurable, Drives, Parked, become, TokenOf
<1>6. CASE StartPush(d)
  BY <1>2, <1>6 DEF StartPush, Drives, Parked, become, park, TokenOf
<1>7. CASE BeginFresh(d)
  BY Zenon, <1>2, <1>7 DEF BeginFresh, Drives, Parked, become, park, TokenOf
<1>8. ASSUME NEW r \in Runs, ResumeRead(d, r) PROVE TokenOf(d)
  BY Zenon, <1>2, <1>8 DEF ResumeRead, Drives, Parked, become, park, TokenOf
<1>9. CASE ResumeClaim(d)
  BY Zenon, <1>1, <1>2, <1>9, Identifiers DEF ResumeClaim, ClaimRun, Drives, Parked, become, TokenOf
<1>10. CASE ResumeStart(d)
  BY Zenon, <1>2, <1>10 DEF ResumeStart, Drives, Parked, become, park, TokenOf
<1>11. CASE ResumeStartFails(d)
  BY Zenon, <1>4, <1>11 DEF ResumeStartFails
<1>12. CASE LoadCheckpoint(d)
  <2> DEFINE t == newest(turnsOf(drv[d].run, {"interrupted"}))
  <2>1. CASE promotedRevision(drv[d].run) = 0
    <3> DEFINE m == [drv[d] EXCEPT !.pc = "loop"]
    <3>1. become(d, m)
      BY Zenon, <1>12, <2>1 DEF LoadCheckpoint
    <3>2. m.tok = drv[d].tok
      BY Zenon, <1>2 DEF Drives
    <3> HIDE DEF m
    <3> QED
      BY Zenon, <1>3, <3>1, <3>2
  <2>2. CASE promotedRevision(drv[d].run) # 0 /\ ~envelope(drv[d].run).runner
    <3> DEFINE m == [drv[d] EXCEPT !.pc = "loop", !.loaded = TRUE,
                                !.buf = @ \cup envelope(drv[d].run).rest]
    <3>1. become(d, m)
      BY Zenon, <1>12, <2>2 DEF LoadCheckpoint
    <3>2. m.tok = drv[d].tok
      BY Zenon, <1>2 DEF Drives
    <3> HIDE DEF m
    <3> QED
      BY Zenon, <1>3, <3>1, <3>2
  <2>3. CASE promotedRevision(drv[d].run) # 0 /\ envelope(drv[d].run).runner
    <3> DEFINE m == [drv[d] EXCEPT !.pc = "turn", !.loaded = TRUE, !.cur = t,
                                !.ord = IF turnOrdinal[t] > @ THEN turnOrdinal[t] ELSE @,
                                !.buf = @ \cup envelope(drv[d].run).rest,
                                !.batch = envelope(drv[d].run).inflight]
    <3>1. become(d, m)
      BY Zenon, <1>12, <2>3 DEF LoadCheckpoint
    <3>2. m.tok = drv[d].tok
      BY Zenon, <1>2 DEF Drives
    <3> HIDE DEF m
    <3> QED
      BY Zenon, <1>3, <3>1, <3>2
  <2> QED
    BY Zenon, <1>12, <2>1, <2>2, <2>3 DEF LoadCheckpoint
<1>13. CASE GenInputFirst(d)
  BY Zenon, <1>2, <1>13 DEF GenInputFirst, Drives, Parked, become, park, TokenOf
<1>14. CASE GenInputReconciled(d)
  BY <1>2, <1>14 DEF GenInputReconciled, Drives, Parked, become, park, TokenOf
<1>15. CASE GenInputAdmit(d)
  BY Zenon, <1>2, <1>15 DEF GenInputAdmit, Drives, Parked, become, park, TokenOf
<1>16. CASE GenInputDuplicate(d)
  BY Zenon, <1>2, <1>16 DEF GenInputDuplicate, Drives, Parked, become, park, TokenOf
<1>17. CASE CompletesTurn(d)
  BY Zenon, <1>2, <1>17 DEF CompletesTurn, Drives, Parked, become, park, TokenOf
<1>18. CASE FailDrive(d)
  BY Zenon, <1>4, <1>18 DEF FailDrive
<1>19. CASE InterruptStage(d)
  BY Zenon, <1>2, <1>19 DEF InterruptStage, Drives, Parked, become, park, TokenOf
<1>20. CASE PromotePaused(d)
  BY Zenon, <1>4, <1>20 DEF PromotePaused
<1>21. CASE PromoteRefused(d)
  BY Zenon, <1>4, <1>21 DEF PromoteRefused
<1>22. CASE StageRefused(d)
  BY Zenon, <1>4, <1>22 DEF StageRefused
<1>23. CASE StopBetween(d)
  BY Zenon, <1>2, <1>23 DEF StopBetween, Drives, Parked, become, park, TokenOf
<1>24. CASE IdleStop(d)
  <2> DEFINE last == IF drv[d].staged > 0 THEN drv[d].staged ELSE promotedRevision(drv[d].run)
  <2>1. CASE become(d, [drv[d] EXCEPT !.pc = "late", !.staged = last])
    <3> DEFINE m == [drv[d] EXCEPT !.pc = "late", !.staged = last]
    <3>1. become(d, m)
      BY Zenon, <2>1
    <3>2. m.tok = drv[d].tok
      BY Zenon, <1>2 DEF Drives
    <3> HIDE DEF m
    <3> QED
      BY Zenon, <1>3, <3>1, <3>2
  <2>2. CASE become(d, [drv[d] EXCEPT !.pc = "late"])
    <3> DEFINE m == [drv[d] EXCEPT !.pc = "late"]
    <3>1. become(d, m)
      BY Zenon, <2>2
    <3>2. m.tok = drv[d].tok
      BY Zenon, <1>2 DEF Drives
    <3> HIDE DEF m
    <3> QED
      BY Zenon, <1>3, <3>1, <3>2
  <2> QED
    BY Zenon, <1>24, <2>1, <2>2 DEF IdleStop
<1>25. CASE QueuedAmong(d)
  BY Zenon, <1>2, <1>25 DEF QueuedAmong, Drives, Parked, become, park, TokenOf
<1>26. CASE SettleClean(d)
  BY <1>2, <1>26 DEF SettleClean, Drives, Parked, become, park, TokenOf
<1>27. CASE RetireCompleted(d)
  BY Zenon, <1>4, <1>27 DEF RetireCompleted
<1>28. CASE CarrierAdmit(d)
  BY Zenon, <1>2, <1>28 DEF CarrierAdmit, Drives, Parked, become, park, TokenOf
<1>29. CASE CarrierStage(d)
  BY Zenon, <1>2, <1>29 DEF CarrierStage, Drives, Parked, become, park, TokenOf
<1>30. CASE AdmitRefused(d)
  BY Zenon, <1>4, <1>30 DEF AdmitRefused
<1>31. CASE ResumeEngineRefused(d)
  BY ZenonT(40), <1>4, <1>31 DEF ResumeEngineRefused
<1>32. ASSUME NEW r \in Runs, ReclaimRead(d, r) PROVE TokenOf(d)
  BY Zenon, <1>2, <1>32 DEF ReclaimRead, Drives, Parked, become, park, TokenOf
<1>33. CASE Reclaim(d)
  BY Zenon, <1>1, <1>2, <1>33, Identifiers DEF Reclaim, ClaimRun, Drives, Parked, become, TokenOf
<1>34. CASE ReconcileTurn(d)
  BY Zenon, <1>2, <1>34 DEF ReconcileTurn, Drives, Parked, become, park, TokenOf
<1>35. CASE ReconcileSettle(d)
  BY Zenon, <1>4, <1>35 DEF ReconcileSettle
<1>36. CASE ReconcileCarrier(d)
  BY Zenon, <1>2, <1>36 DEF ReconcileCarrier, Drives, Parked, become, park, TokenOf
<1>37. CASE ReconcileStage(d)
  BY Zenon, <1>2, <1>37 DEF ReconcileStage, Drives, Parked, become, park, TokenOf
<1>38. CASE ReconcileRepause(d)
  BY Zenon, <1>4, <1>38 DEF ReconcileRepause
<1>39. ASSUME NEW r \in Runs, AbandonRead(d, r) PROVE TokenOf(d)
  BY Zenon, <1>2, <1>39 DEF AbandonRead, Drives, Parked, become, park, TokenOf
<1>40. CASE AbandonClaim(d)
  BY Zenon, <1>1, <1>2, <1>40, Identifiers DEF AbandonClaim, ClaimRun, Drives, Parked, become, TokenOf
<1>41. CASE AbandonRetire(d)
  BY Zenon, <1>2, <1>41 DEF AbandonRetire, Drives, Parked, become, park, TokenOf
<1>42. CASE AbandonSettle(d)
  BY Zenon, <1>4, <1>42 DEF AbandonSettle
<1>43. CASE Heartbeat(d)
  BY Zenon, <1>2, <1>43 DEF Heartbeat, Drives, Parked, become, park, TokenOf
<1>44. CASE ClaimRefused(d)
  BY Zenon, <1>4, <1>44 DEF ClaimRefused
<1>45. CASE FenceLost(d)
  BY Zenon, <1>4, <1>45 DEF FenceLost
<1>46. CASE Crash(d)
  BY Zenon, <1>4, <1>46 DEF Crash
<1> QED
  BY Zenon, <1>5, <1>6, <1>7, <1>8, <1>9, <1>10, <1>11, <1>12, <1>13, <1>14, <1>15, <1>16, <1>17,
     <1>18, <1>19, <1>20, <1>21, <1>22, <1>23, <1>24, <1>25, <1>26, <1>27, <1>28, <1>29, <1>30,
     <1>31, <1>32, <1>33, <1>34, <1>35, <1>36, <1>37, <1>38, <1>39, <1>40, <1>41, <1>42, <1>43,
     <1>44, <1>45, <1>46 DEF DriverStep, HostStep

\* A claim token that was handed out stays so.
LEMMA MintedGrows == [Next]_storeVars => minted \subseteq minted'
  BY ZenonT(40) DEF Next, storeVars, runVars, AdmitRun, ClaimRun, AdmitDurable, LeaseExpires, EnqueueInbox,
     EnqueueInboxForRun, StartRun, RenewRunLease, AdmitTurn, CompleteTurn, ReconcileInterruptedTurn,
     ResumeInterruptedTurn, StageCheckpoint, PromotePause, RepauseRun, RetireCheckpoints,
     RetireRunCheckpoints, CreateToolCall, ClaimToolCall, SettleToolCall, SettleRun

\* No step of a driver or of its environment makes two drivers share a token.
LEMMA TokensApartStep == DriverInv /\ TokensApart /\ [TLNext]_vars => TokensApart'
<1> SUFFICES ASSUME DriverInv, TokensApart, [TLNext]_vars PROVE TokensApart'
  BY Zenon
<1>1. minted \subseteq minted'
  BY Zenon, MintedGrows, TLStepImplements
<1>2. ASSUME NEW d \in Drivers, DriverStep(d) \/ HostStep(d) PROVE TokensApart'
  <2>1. TokenOf(d)
    BY Zenon, <1>2, DriverStepToken
  <2> QED
    BY ZenonT(40), <1>1, <2>1 DEF TokensApart, TokenOf
<1>3. ASSUME \A e \in Drivers : drv'[e].tok = drv[e].tok PROVE TokensApart'
  BY ZenonT(40), <1>1, <1>3 DEF TokensApart
<1>4. ASSUME NEW r \in Runs, Expire(r) PROVE TokensApart'
  BY Zenon, <1>3, <1>4 DEF Expire
<1>5. ASSUME NEW r \in Runs, NEW i \in Items, Enqueue(r, i) PROVE TokensApart'
  BY Zenon, <1>3, <1>5 DEF Enqueue
<1>6. ASSUME NEW r \in Runs, NEW i \in Items, EnqueuePush(r, i) PROVE TokensApart'
  <2>1. \A e \in Drivers : drv'[e].tok = drv[e].tok
    BY <1>6 DEF EnqueuePush, become, DriverInv, DriverTypeOK, Drives
  <2> QED
    BY Zenon, <1>3, <2>1
<1>7. CASE UNCHANGED vars
  BY Zenon, <1>3, <1>7 DEF vars
<1> QED
  BY Zenon, <1>2, <1>4, <1>5, <1>6, <1>7 DEF TLNext

\* The inductive invariant of the drivers: the store's own, the memories, and
\* the tokens.
TLInv == IInv /\ DriverInv /\ RunsHaveToken /\ TokensApart

\* The invariant of the drivers holds before the first call.
LEMMA TLInvInit == TLInit => TLInv
<1> SUFFICES ASSUME TLInit PROVE TLInv
  BY Zenon
<1>1. IInv
  BY Zenon, IInvInit DEF TLInit
<1>2. DriverTypeOK
  <2>1. Parked \in Drives
    BY ZenonT(40), IdentityAssumption DEF Parked, Drives, Points
  <2>2. wellFormed(Parked)
    BY Zenon, NoneAssumption DEF Parked, wellFormed, Unclaimed, Turnless
  <2> QED
    BY Zenon, <2>1, <2>2 DEF TLInit, DriverTypeOK
<1>3. CheckpointsHaveBytes
  BY Zenon DEF TLInit, Init, CheckpointsHaveBytes
<1>4. TokensApart /\ RunsHaveToken
  BY Zenon DEF TLInit, Init, TokensApart, RunsHaveToken, Parked
<1> QED
  BY Zenon, <1>1, <1>2, <1>3, <1>4 DEF TLInv, DriverInv, IInv

\* Every step of the turn loop and of its environment keeps it.
LEMMA TLInvStep == TLInv /\ [TLNext]_vars => TLInv'
<1> SUFFICES ASSUME TLInv, [TLNext]_vars PROVE TLInv'
  BY Zenon
<1>1. IInv /\ DriverInv /\ TokensApart
  BY Zenon DEF TLInv
<1>2. [Next]_storeVars
  BY Zenon, <1>1, TLStepImplements
<1>3. IInv'
  BY Zenon, <1>1, <1>2, IInvStep
<1>4. DriverTypeOK'
  BY Zenon, <1>1, DriverTypeStep
<1>5. CheckpointsHaveBytes'
  BY Zenon, <1>1, <1>2, CheckpointsHaveBytesStep DEF DriverInv
<1>6. TokensApart'
  BY Zenon, <1>1, TokensApartStep
<1>7. RunsHaveToken'
  BY Zenon, <1>1, <1>2, RunsHaveTokenStep DEF DriverInv, TLInv
<1> QED
  BY Zenon, <1>3, <1>4, <1>5, <1>6, <1>7 DEF TLInv, DriverInv, IInv

\* So it holds of every state of the turn loop.
LEMMA TLInvInvariant == TLSpec => []TLInv
  BY TLInvInit, TLInvStep, PTL DEF TLSpec

\* Whatever the drivers, the host and the clock do, a driver's memory fits the
\* point it is at.
THEOREM DriverTypeCorrect == TLSpec => []DriverTypeOK
  BY TLInvInvariant, PTL DEF TLInv, DriverInv

\* The orchestrator implements the store's specification: what is proved of the
\* store for arbitrary callers holds of every execution of the turn loop.
THEOREM TurnLoopImplementsStore == TLSpec => Spec
<1>1. TLInit => Init
  BY Zenon DEF TLInit
<1>2. TLInv /\ [TLNext]_vars => [Next]_storeVars
  BY Zenon, TLStepImplements DEF TLInv
<1> QED
  BY <1>1, <1>2, TLInvInvariant, PTL DEF TLSpec, Spec

\* Two drivers never pass the fence of a run at the same time, in any number of
\* processes and after any sequence of claims.
THEOREM FenceExclusive == TLSpec => []OneFencedDriver
<1>1. TLInv => OneFencedDriver
  <2> SUFFICES ASSUME TLInv, NEW d \in Drivers, NEW e \in Drivers, fenced(d), fenced(e),
                      drv[d].run = drv[e].run
               PROVE  d = e
    BY Zenon DEF OneFencedDriver
  <2>1. drv[d].tok = drv[e].tok
    BY Zenon DEF fenced, loadRunFence
  <2>2. drv[d].tok # None
    <3>1. drv[d].run # None /\ loadRunFence(drv[d].run, drv[d].tok)
      BY Zenon DEF fenced
    <3> QED
      BY Zenon, <3>1 DEF TLInv, DriverInv, DriverTypeOK, Drives, RunsHaveToken, loadRunFence, Writable
  <2> QED
    BY Zenon, <2>1, <2>2 DEF TLInv, TokensApart
<1> QED
  BY <1>1, TLInvInvariant, PTL

\* Whatever drivers crash, pause, resume or lose their fence, no submission is
\* stranded and none disagrees with its turn.
THEOREM DrivenInputSafe == TLSpec => []SubmissionsSound
  BY TurnLoopImplementsStore, SubmissionsAlwaysSound, PTL

-----------------------------------------------------------------------------
(***************************************************************************)
(* Drives of claims as read.  While every claim of ResumeRun finds the run *)
(* as the call read it, whatever crashes, whoever takes over and however   *)
(* many calls work on the run, a paused run can be resumed and a drive     *)
(* with the fence holds the current turn.  A stale claim can break both.   *)
(***************************************************************************)

\* What a drive depends on in the rows of its run.
View(r) ==
    [status |-> runStatus[r], token |-> claimToken[r], turn |-> currentTurn(r),
     at |-> IF currentTurn(r) = None THEN "none" ELSE turnState[currentTurn(r)],
     promoted |-> promotedRevision(r), rows |-> ckptState[r], blobs |-> ckptBlob[r]]

\* ResumeRun accepts the run, and there is a turn for it to take over.
Resumable(w) ==
    /\ w.promoted # 0
    /\ w.blobs[w.promoted].turn = w.turn
    /\ w.at = "interrupted"

\* The sentinel of a reconciled turn is in the memory of a drive only.
NoSentinel(w) ==
    \A v \in Revisions : w.rows[v] = "promoted" => Reconciled \notin w.blobs[v].rest

\* The rows of a run: it can be resumed while it is paused, its checkpoints
\* hold no sentinel of a reconciled turn, and before admission it has none.
RunFine(w) ==
    /\ w.status = "paused" => Resumable(w)
    /\ w.status = "none" => w.promoted = 0
    /\ NoSentinel(w)

\* A drive of Start before its loop.
Starting(m, w) ==
    /\ w.promoted = 0
    /\ m.cur = w.turn
    /\ Reconciled \notin m.buf
    /\ m.first => First \in m.buf

\* A drive of ResumeRun before its loop.
Resuming(m, w) ==
    /\ Resumable(w)
    /\ m.cur = w.turn
    /\ ~m.first
    /\ Reconciled \in m.buf => ~w.blobs[w.promoted].runner

\* A loop before its next entry: the sentinels speak of the current turn.
Looping(m, w) ==
    /\ m.first => First \in m.buf /\ m.cur = w.turn /\ Reconciled \notin m.buf
    /\ Reconciled \in m.buf => w.at = "interrupted"

\* The staged revision will be the promoted one, and is for the current turn.
Staged(m, w) ==
    /\ w.promoted < m.staged
    /\ w.rows[m.staged] # "none"
    /\ w.blobs[m.staged].turn = w.turn
    /\ Reconciled \notin w.blobs[m.staged].rest

\* What a driver's memory says of the rows of its run, at each point, is so.
Claimed(m, w) ==
    /\ m.pc \in {"push", "begin"} => Starting(m, w)
    /\ m.pc = "resumed" => Resuming(m, w)
    /\ m.pc = "load" => Starting(m, w) \/ Resuming(m, w)
    /\ m.pc = "loop" => Looping(m, w)
    /\ m.pc = "turn" => m.cur = w.turn /\ ~m.first /\ Reconciled \notin m.buf
    /\ m.pc = "pausing" => m.cur = w.turn /\ Staged(m, w)
    /\ m.pc = "carrierStage" => m.cur = w.turn
    /\ m.pc = "reconciled" => w.turn = None \/ w.at = "interrupted"
    /\ m.pc = "repause" => Staged(m, w) /\ w.at = "interrupted"
    /\ m.pc \in {"unhandled", "late", "clean", "carrier", "carrierStage"} =>
          m.staged = 0 \/ w.promoted <= m.staged

\* Points at which nothing was staged yet.
Unstaged ==
    {"push", "begin", "resume", "resumed", "load", "loop", "turn", "stopping",
     "reclaim", "reconcile", "reconciled"}

\* A memory fits the rows of its run while it holds the fence.
Fits(m, w) ==
    /\ m.pc \in Unstaged => m.staged = 0
    /\ m.pc = "resume" => ~m.first
    /\ w.token = m.tok /\ w.status \in Writable => Claimed(m, w)

\* The inductive invariant of the drives.
DriveInv ==
    /\ \A r \in Runs : RunFine(View(r))
    /\ \A d \in Drivers, r \in Runs : drv[d].run = r => Fits(drv[d], View(r))

(***************************************************************************)
(* The current turn and the promoted checkpoint as functions of columns.   *)
(***************************************************************************)

\* The turn of the largest ordinal among T.
greatest(T, ord) ==
    IF T = {} THEN None ELSE CHOOSE t \in T : \A u \in T : ord[u] <= ord[t]

\* The largest promoted revision of a column of rows, 0 without one.
highest(rows) ==
    LET P == {v \in Revisions : rows[v] = "promoted"}
    IN  IF P = {} THEN 0 ELSE CHOOSE v \in P : \A u \in P : u <= v

\* newest and promotedRevision, before and after a step, are these functions.
LEMMA Columns ==
  ASSUME NEW r
  PROVE  /\ currentTurn(r) = greatest(turnsOf(r, OpenTurn), turnOrdinal)
         /\ currentTurn(r)' = greatest(turnsOf(r, OpenTurn)', turnOrdinal')
         /\ promotedRevision(r) = highest(ckptState[r])
         /\ promotedRevision(r)' = highest(ckptState'[r])
  BY Zenon DEF currentTurn, newest, greatest, promotedRevision, highest

\* The turn that no other one exceeds is the greatest, if ordinals are distinct.
LEMMA GreatestIs ==
  ASSUME NEW T \in SUBSET Turns, NEW ord \in [Turns -> Ordinals \cup {0}],
         \A t, u \in T : ord[t] = ord[u] => t = u,
         NEW x \in T, \A u \in T : ord[u] <= ord[x]
  PROVE  greatest(T, ord) = x
<1> DEFINE y == greatest(T, ord)
<1>1. y \in T /\ \A u \in T : ord[u] <= ord[y]
  BY Zenon DEF greatest
<1> HIDE DEF y
<1>2. ord[x] \in Nat /\ ord[y] \in Nat
  <2>1. Ordinals \cup {0} \subseteq Nat
    BY IdentityAssumption
  <2> QED
    BY Zenon, <1>1, <2>1
<1>3. ord[x] <= ord[y] /\ ord[y] <= ord[x]
  BY Zenon, <1>1
<1>4. ord[x] = ord[y]
  BY <1>2, <1>3
<1> QED
  BY Zenon, <1>1, <1>4 DEF y

\* A set of turns has a greatest.
LEMMA GreatestExists ==
  ASSUME NEW T \in SUBSET Turns, NEW ord \in [Turns -> Ordinals \cup {0}], T # {}
  PROVE  /\ greatest(T, ord) \in T
         /\ \A u \in T : ord[u] <= ord[greatest(T, ord)]
<1>1. \E t \in T : \A u \in T : ord[u] <= ord[t]
  <2> DEFINE P == {ord[t] : t \in T} \ {0}
  <2>0. Ordinals \cup {0} \subseteq Nat
    BY IdentityAssumption
  <2>1. CASE P = {}
    <3>1. \A t \in T : ord[t] = 0
      BY Zenon, <2>1
    <3> QED
      BY <3>1
  <2>2. CASE P # {}
    <3>1. P \in SUBSET Ordinals
      BY Zenon
    <3>2. PICK n \in P : \A k \in P : k <= n
      <4> HIDE DEF P
      <4> QED
        BY Zenon, <2>2, <3>1, ColumnAssumption
    <3>3. PICK t \in T : ord[t] = n
      BY Zenon, <3>2
    <3>4. ASSUME NEW u \in T PROVE ord[u] <= ord[t]
      <4>1. CASE ord[u] = 0
        <5>1. ord[t] \in Nat
          BY Zenon, <2>0
        <5> QED
          BY <4>1, <5>1
      <4>2. CASE ord[u] # 0
        <5>1. ord[u] \in P
          BY Zenon, <4>2
        <5> QED
          BY Zenon, <3>2, <3>3, <5>1
      <4> QED
        BY Zenon, <4>1, <4>2
    <3> QED
      BY Zenon, <3>4
  <2> QED
    BY Zenon, <2>1, <2>2
<1> QED
  BY Zenon, <1>1 DEF greatest

\* The promoted revision that no other one exceeds is the highest.
LEMMA HighestIs ==
  ASSUME NEW rows \in [Revisions -> {"none", "staged", "promoted"}], NEW v \in Revisions,
         rows[v] = "promoted", \A u \in Revisions : rows[u] = "promoted" => u <= v
  PROVE  highest(rows) = v
<1> DEFINE P == {u \in Revisions : rows[u] = "promoted"}
           y == highest(rows)
<1>1. v \in P /\ \A u \in P : u <= v
  BY Zenon
<1>2. y \in P /\ \A u \in P : u <= y
  BY Zenon, <1>1 DEF highest
<1>3. v \in Nat /\ y \in Nat
  BY Zenon, <1>2, IdentityAssumption
<1>4. v <= y /\ y <= v
  BY Zenon, <1>1, <1>2
<1> HIDE DEF y
<1>5. y = v
  BY <1>3, <1>4
<1> QED
  BY Zenon, <1>5 DEF y

\* There is one if a revision is promoted.
LEMMA HighestExists ==
  ASSUME NEW rows \in [Revisions -> {"none", "staged", "promoted"}]
  PROVE  /\ highest(rows) \in Revisions \cup {0}
         /\ \A u \in Revisions : rows[u] = "promoted" =>
               /\ highest(rows) \in Revisions
               /\ rows[highest(rows)] = "promoted"
               /\ u <= highest(rows)
         /\ highest(rows) # 0 => rows[highest(rows)] = "promoted"
<1> DEFINE P == {v \in Revisions : rows[v] = "promoted"}
<1>1. CASE P = {}
  BY Zenon, <1>1 DEF highest
<1>2. CASE P # {}
  <2>1. P \in SUBSET Revisions
    BY Zenon
  <2>2. \E v \in P : \A u \in P : u <= v
    <3> HIDE DEF P
    <3> QED
      BY Zenon, <1>2, <2>1, ColumnAssumption
  <2>3. highest(rows) \in P /\ \A u \in P : u <= highest(rows)
    BY Zenon, <1>2, <2>2 DEF highest
  <2> QED
    BY Zenon, <2>3
<1> QED
  BY Zenon, <1>1, <1>2

\* Columns with the same promoted rows have the same highest.
LEMMA HighestKept ==
  ASSUME NEW rows \in [Revisions -> {"none", "staged", "promoted"}],
         NEW new \in [Revisions -> {"none", "staged", "promoted"}],
         \A u \in Revisions : new[u] = "promoted" <=> rows[u] = "promoted"
  PROVE  highest(new) = highest(rows)
<1>1. CASE \A u \in Revisions : rows[u] # "promoted"
  <2>1. highest(rows) = 0
    BY Zenon, <1>1 DEF highest
  <2>2. highest(new) = 0
    BY Zenon, <1>1 DEF highest
  <2> QED
    BY Zenon, <2>1, <2>2
<1>2. ASSUME NEW u \in Revisions, rows[u] = "promoted" PROVE highest(new) = highest(rows)
  <2>1. PICK h : h = highest(rows)
    BY Zenon
  <2>2. h \in Revisions /\ rows[h] = "promoted"
    BY Zenon, <1>2, <2>1, HighestExists
  <2>3. \A x \in Revisions : rows[x] = "promoted" => x <= h
    BY Zenon, <2>1, HighestExists
  <2>4. new[h] = "promoted" /\ \A x \in Revisions : new[x] = "promoted" => x <= h
    BY Zenon, <2>2, <2>3
  <2>5. highest(new) = h
    BY Zenon, <2>2, <2>4, HighestIs
  <2> QED
    BY Zenon, <2>1, <2>5
<1> QED
  BY Zenon, <1>1, <1>2

(***************************************************************************)
(* What a mutation of the store leaves of the rows of a run.               *)
(***************************************************************************)

\* The run has the same turns, in the same states.
SameTurns(r) ==
    \A t \in Turns :
        /\ turnRun'[t] = r <=> turnRun[t] = r
        /\ turnRun[t] = r => turnOrdinal'[t] = turnOrdinal[t] /\ turnState'[t] = turnState[t]

\* No turn of the run was opened or closed.
SameOpen(r) ==
    \A t \in Turns :
        /\ turnRun'[t] = r <=> turnRun[t] = r
        /\ turnRun[t] = r => /\ turnOrdinal'[t] = turnOrdinal[t]
                             /\ turnState'[t] \in OpenTurn <=> turnState[t] \in OpenTurn

SameRow(r) == runStatus'[r] = runStatus[r] /\ claimToken'[r] = claimToken[r]

SameCheckpoints(r) == ckptState'[r] = ckptState[r] /\ ckptBlob'[r] = ckptBlob[r]

\* Only rows of the run q changed.
Only(q) == \A r \in Runs : r # q => SameTurns(r) /\ SameRow(r) /\ SameCheckpoints(r)

\* The fields of the view of a run, before and after a step.
LEMMA ViewFields ==
  ASSUME NEW r
  PROVE  /\ View(r).status = runStatus[r]
         /\ View(r).token = claimToken[r]
         /\ View(r).turn = currentTurn(r)
         /\ View(r).at = IF currentTurn(r) = None THEN "none" ELSE turnState[currentTurn(r)]
         /\ View(r).promoted = promotedRevision(r)
         /\ View(r).rows = ckptState[r]
         /\ View(r).blobs = ckptBlob[r]
  BY Zenon DEF View

\* The same of the view after a step.
LEMMA ViewFieldsNext ==
  ASSUME NEW r
  PROVE  /\ View(r)'.status = runStatus'[r]
         /\ View(r)'.token = claimToken'[r]
         /\ View(r)'.turn = currentTurn(r)'
         /\ View(r)'.at = IF currentTurn(r)' = None THEN "none" ELSE turnState'[currentTurn(r)']
         /\ View(r)'.promoted = promotedRevision(r)'
         /\ View(r)'.rows = ckptState'[r]
         /\ View(r)'.blobs = ckptBlob'[r]
  BY Zenon DEF View

\* The open turns of a run have distinct ordinals.
LEMMA OpenTurnsApart ==
  ASSUME IInv, NEW r \in Runs
  PROVE  /\ turnsOf(r, OpenTurn) \in SUBSET Turns
         /\ turnOrdinal \in [Turns -> Ordinals \cup {0}]
         /\ \A t, u \in turnsOf(r, OpenTurn) : turnOrdinal[t] = turnOrdinal[u] => t = u
<1>1. turnsOf(r, OpenTurn) \in SUBSET Turns
  BY Zenon DEF turnsOf
<1>2. turnOrdinal \in [Turns -> Ordinals \cup {0}] /\ OrdinalsContiguous
  BY Zenon DEF IInv, TypeOK
<1>3. ASSUME NEW t \in turnsOf(r, OpenTurn), NEW u \in turnsOf(r, OpenTurn),
             turnOrdinal[t] = turnOrdinal[u]
      PROVE  t = u
  <2>1. t \in Turns /\ u \in Turns /\ turnRun[t] = r /\ turnRun[u] = r /\ r # None
    BY Zenon, NoneAssumption DEF turnsOf
  <2> QED
    BY Zenon, <1>2, <1>3, <2>1 DEF OrdinalsContiguous
<1> QED
  BY Zenon, <1>1, <1>2, <1>3

\* The same of the open turns after a step.
LEMMA OpenTurnsApartNext ==
  ASSUME IInv', NEW r \in Runs
  PROVE  /\ turnsOf(r, OpenTurn)' \in SUBSET Turns
         /\ turnOrdinal' \in [Turns -> Ordinals \cup {0}]
         /\ \A t, u \in turnsOf(r, OpenTurn)' : turnOrdinal'[t] = turnOrdinal'[u] => t = u
<1>1. turnsOf(r, OpenTurn)' \in SUBSET Turns
  BY Zenon DEF turnsOf
<1>2. turnOrdinal' \in [Turns -> Ordinals \cup {0}] /\ OrdinalsContiguous'
  BY Zenon DEF IInv, TypeOK
<1>3. ASSUME NEW t \in turnsOf(r, OpenTurn)', NEW u \in turnsOf(r, OpenTurn)',
             turnOrdinal'[t] = turnOrdinal'[u]
      PROVE  t = u
  <2>1. t \in Turns /\ u \in Turns /\ turnRun'[t] = r /\ turnRun'[u] = r /\ r # None
    BY Zenon, NoneAssumption DEF turnsOf
  <2> QED
    BY Zenon, <1>2, <1>3, <2>1 DEF OrdinalsContiguous
<1> QED
  BY Zenon, <1>1, <1>2, <1>3

\* The current turn of a run is its open turn of the largest ordinal.
LEMMA CurrentIs ==
  ASSUME IInv', NEW r \in Runs, NEW t \in turnsOf(r, OpenTurn)',
         \A u \in turnsOf(r, OpenTurn)' : turnOrdinal'[u] <= turnOrdinal'[t]
  PROVE  currentTurn(r)' = t
<1> DEFINE T == turnsOf(r, OpenTurn)'
<1>1. /\ T \in SUBSET Turns
      /\ turnOrdinal' \in [Turns -> Ordinals \cup {0}]
      /\ \A x, u \in T : turnOrdinal'[x] = turnOrdinal'[u] => x = u
      /\ t \in T
      /\ \A u \in T : turnOrdinal'[u] <= turnOrdinal'[t]
  BY Zenon, OpenTurnsApartNext
<1>2. currentTurn(r)' = greatest(T, turnOrdinal')
  BY Zenon, Columns
<1> HIDE DEF T
<1> QED
  BY Zenon, <1>1, <1>2, GreatestIs

\* currentTurn is the open turn of the run with the highest ordinal, if it has one.
LEMMA CurrentExists ==
  ASSUME IInv, NEW r \in Runs
  PROVE  /\ currentTurn(r) = None <=> turnsOf(r, OpenTurn) = {}
         /\ currentTurn(r) # None =>
               /\ currentTurn(r) \in turnsOf(r, OpenTurn)
               /\ \A u \in turnsOf(r, OpenTurn) : turnOrdinal[u] <= turnOrdinal[currentTurn(r)]
<1> DEFINE T == turnsOf(r, OpenTurn)
<1>1. T \in SUBSET Turns /\ turnOrdinal \in [Turns -> Ordinals \cup {0}]
  BY Zenon, OpenTurnsApart
<1>2. currentTurn(r) = greatest(T, turnOrdinal)
  BY Zenon, Columns
<1> HIDE DEF T
<1>3. CASE T = {}
  BY Zenon, <1>2, <1>3 DEF greatest, T
<1>4. CASE T # {}
  <2>1. greatest(T, turnOrdinal) \in T
        /\ \A u \in T : turnOrdinal[u] <= turnOrdinal[greatest(T, turnOrdinal)]
    BY Zenon, <1>1, <1>4, GreatestExists
  <2>2. greatest(T, turnOrdinal) # None
    BY Zenon, <1>1, <2>1, NoneAssumption
  <2> QED
    BY Zenon, <1>2, <1>4, <2>1, <2>2 DEF T
<1> QED
  BY Zenon, <1>3, <1>4

\* The current turn moves only when a turn is opened or closed.
LEMMA CurrentKept ==
  ASSUME IInv, IInv', NEW r \in Runs, SameOpen(r)
  PROVE  currentTurn(r)' = currentTurn(r)
<1>1. turnsOf(r, OpenTurn)' = turnsOf(r, OpenTurn)
  BY Zenon DEF turnsOf, SameOpen
<1>2. CASE turnsOf(r, OpenTurn) = {}
  BY Zenon, <1>1, <1>2, Columns DEF greatest
<1>3. CASE turnsOf(r, OpenTurn) # {}
  <2>0. PICK t : t = currentTurn(r)
    BY Zenon
  <2>1. t \in turnsOf(r, OpenTurn) /\ \A u \in turnsOf(r, OpenTurn) : turnOrdinal[u] <= turnOrdinal[t]
    BY Zenon, <1>3, <2>0, CurrentExists
  <2>2. \A u \in turnsOf(r, OpenTurn) : turnOrdinal'[u] = turnOrdinal[u]
    BY Zenon DEF turnsOf, SameOpen
  <2>3. ASSUME NEW u \in turnsOf(r, OpenTurn)' PROVE turnOrdinal'[u] <= turnOrdinal'[t]
    <3>1. u \in turnsOf(r, OpenTurn)
      BY Zenon, <1>1
    <3>2. turnOrdinal'[u] = turnOrdinal[u] /\ turnOrdinal'[t] = turnOrdinal[t]
          /\ turnOrdinal[u] <= turnOrdinal[t]
      BY Zenon, <2>1, <2>2, <3>1
    <3> HIDE DEF turnsOf
    <3> QED
      BY <3>2
  <2>4. t \in turnsOf(r, OpenTurn)'
    BY Zenon, <1>1, <2>1
  <2> QED
    BY Zenon, <2>0, <2>3, <2>4, CurrentIs
<1> QED
  BY Zenon, <1>2, <1>3

\* A run whose turns are the same has the same current turn, in the same state.
LEMMA TurnsKept ==
  ASSUME IInv, IInv', NEW r \in Runs, SameTurns(r)
  PROVE  View(r)'.turn = View(r).turn /\ View(r)'.at = View(r).at
<1>1. currentTurn(r)' = currentTurn(r)
  <2>1. SameOpen(r)
    BY Zenon DEF SameTurns, SameOpen
  <2> QED
    BY Zenon, <2>1, CurrentKept
<1>2. currentTurn(r) # None => turnState'[currentTurn(r)] = turnState[currentTurn(r)]
  <2>1. currentTurn(r) # None => currentTurn(r) \in Turns /\ turnRun[currentTurn(r)] = r
    BY Zenon, CurrentExists DEF turnsOf
  <2> QED
    BY Zenon, <2>1 DEF SameTurns
<1>3. View(r).turn = currentTurn(r) /\ View(r)'.turn = currentTurn(r)'
  BY Zenon, ViewFields, ViewFieldsNext
<1>4. View(r).at = IF currentTurn(r) = None THEN "none" ELSE turnState[currentTurn(r)]
  BY Zenon, ViewFields
<1>5. View(r)'.at = IF currentTurn(r)' = None THEN "none" ELSE turnState'[currentTurn(r)']
  BY Zenon, ViewFieldsNext
<1> HIDE DEF View
<1>6. View(r)'.at = IF currentTurn(r) = None THEN "none" ELSE turnState'[currentTurn(r)]
  BY Zenon, <1>1, <1>5
<1>7. View(r)'.at = View(r).at
  <2>1. CASE currentTurn(r) = None
    BY Zenon, <1>4, <1>6, <2>1
  <2>2. CASE currentTurn(r) # None
    <3>1. View(r).at = turnState[currentTurn(r)] /\ View(r)'.at = turnState'[currentTurn(r)]
      BY Zenon, <1>4, <1>6, <2>2
    <3> QED
      BY Zenon, <1>2, <2>2, <3>1
  <2> QED
    BY Zenon, <2>1, <2>2
<1> QED
  BY Zenon, <1>1, <1>3, <1>7

\* A run whose checkpoints are the same has the same promoted one.
LEMMA CheckpointsKept ==
  ASSUME NEW r \in Runs, SameCheckpoints(r)
  PROVE  /\ View(r)'.promoted = View(r).promoted
         /\ View(r)'.rows = View(r).rows
         /\ View(r)'.blobs = View(r).blobs
<1>1. ckptState'[r] = ckptState[r] /\ ckptBlob'[r] = ckptBlob[r]
  BY Zenon DEF SameCheckpoints
<1>2. promotedRevision(r) = highest(ckptState[r]) /\ promotedRevision(r)' = highest(ckptState'[r])
  BY Zenon, Columns
<1>3. promotedRevision(r)' = promotedRevision(r)
  BY Zenon, <1>1, <1>2
<1>4. View(r).promoted = promotedRevision(r) /\ View(r).rows = ckptState[r]
      /\ View(r).blobs = ckptBlob[r]
  BY Zenon, ViewFields
<1>5. View(r)'.promoted = promotedRevision(r)' /\ View(r)'.rows = ckptState'[r]
      /\ View(r)'.blobs = ckptBlob'[r]
  BY Zenon, ViewFieldsNext
<1> QED
  BY Zenon, <1>1, <1>3, <1>4, <1>5

\* A mutation of one run leaves what a drive of another depends on.
LEMMA ViewKept ==
  ASSUME IInv, IInv', NEW r \in Runs, SameTurns(r), SameRow(r), SameCheckpoints(r)
  PROVE  View(r)' = View(r)
<1>1. View(r).turn = View(r)'.turn /\ View(r).at = View(r)'.at
  BY Zenon, TurnsKept
<1>2. View(r).promoted = View(r)'.promoted /\ View(r).rows = View(r)'.rows
      /\ View(r).blobs = View(r)'.blobs
  BY Zenon, CheckpointsKept
<1>3. View(r).status = View(r)'.status /\ View(r).token = View(r)'.token
  BY Zenon, ViewFields, ViewFieldsNext DEF SameRow
<1> QED
  BY Zenon, <1>1, <1>2, <1>3 DEF View

\* Claims, starts and heartbeats write the row of the run.
LEMMA RowWritten ==
  ASSUME TypeOK, NEW q \in Runs, NEW k,
         ClaimRun(q, k) \/ StartRun(q, k) \/ RenewRunLease(q, k) \/ LeaseExpires(q)
  PROVE  Only(q) /\ SameTurns(q) /\ SameCheckpoints(q)
<1>1. CASE ClaimRun(q, k)
  BY Zenon, <1>1 DEF ClaimRun, TypeOK, Only, SameTurns, SameRow, SameCheckpoints, turnVars, ckptVars
<1>2. CASE StartRun(q, k)
  BY Zenon, <1>2 DEF StartRun, TypeOK, Only, SameTurns, SameRow, SameCheckpoints, turnVars, ckptVars
<1>3. CASE RenewRunLease(q, k)
  BY Zenon, <1>3 DEF RenewRunLease, Only, SameTurns, SameRow, SameCheckpoints, turnVars, ckptVars
<1>4. CASE LeaseExpires(q)
  BY Zenon, <1>4 DEF LeaseExpires, Only, SameTurns, SameRow, SameCheckpoints, turnVars, ckptVars
<1> QED
  BY Zenon, <1>1, <1>2, <1>3, <1>4

\* A step that writes no column leaves every run.
LEMMA NothingWritten ==
  ASSUME UNCHANGED <<runStatus, claimToken>>, UNCHANGED turnVars, UNCHANGED ckptVars,
         NEW r
  PROVE  SameTurns(r) /\ SameRow(r) /\ SameCheckpoints(r)
  BY Zenon DEF SameTurns, SameRow, SameCheckpoints, turnVars, ckptVars

\* Checkpoint mutations write the checkpoints, a compensating pause the row too.
LEMMA CheckpointsWritten ==
  ASSUME TypeOK, NEW q \in Runs, NEW k, NEW v, NEW b,
         StageCheckpoint(q, k, v, b) \/ RepauseRun(q, k, v)
            \/ RetireCheckpoints(q, k, v) \/ RetireRunCheckpoints(q, v)
  PROVE  Only(q) /\ SameTurns(q)
<1>1. CASE StageCheckpoint(q, k, v, b)
  BY Zenon, <1>1 DEF StageCheckpoint, TypeOK, Only, SameTurns, SameRow, SameCheckpoints, turnVars, runVars
<1>2. CASE RepauseRun(q, k, v)
  BY Zenon, <1>2 DEF RepauseRun, TypeOK, Only, SameTurns, SameRow, SameCheckpoints, turnVars
<1>3. CASE RetireCheckpoints(q, k, v)
  BY Zenon, <1>3 DEF RetireCheckpoints, deleteCheckpointsUpTo, TypeOK, Only, SameTurns, SameRow,
     SameCheckpoints, turnVars, runVars
<1>4. CASE RetireRunCheckpoints(q, v)
  BY Zenon, <1>4 DEF RetireRunCheckpoints, deleteCheckpointsUpTo, TypeOK, Only, SameTurns, SameRow,
     SameCheckpoints, turnVars, runVars
<1> QED
  BY Zenon, <1>1, <1>2, <1>3, <1>4

\* Turn mutations write turns of the run.
LEMMA TurnsWritten ==
  ASSUME TypeOK, RowOwned, NEW q \in Runs, NEW k, NEW t \in Turns, NEW n, NEW ids, NEW at,
         AdmitTurn(q, k, t, n, ids) \/ CompleteTurn(q, k, t, at)
            \/ ReconcileInterruptedTurn(q, k, t, at) \/ ResumeInterruptedTurn(q, k, t)
  PROVE  Only(q) /\ SameRow(q) /\ SameCheckpoints(q)
<1>1. CASE AdmitTurn(q, k, t, n, ids)
  <2>1. turnRun[t] \in {None, q}
    BY Zenon, <1>1 DEF AdmitTurn, createTurn, RowOwned
  <2>2. ASSUME NEW r \in Runs, r # q PROVE SameTurns(r)
    <3>1. turnRun'[t] = q /\ turnRun[t] # r
      BY ZenonT(60), <1>1, <2>1, <2>2, NoneAssumption DEF AdmitTurn, TypeOK
    <3>2. ASSUME NEW u \in Turns, u # t
          PROVE  /\ turnRun'[u] = turnRun[u] /\ turnOrdinal'[u] = turnOrdinal[u]
                 /\ turnState'[u] = turnState[u]
      BY ZenonT(60), <1>1, <3>2 DEF AdmitTurn, TypeOK
    <3> QED
      BY ZenonT(60), <2>2, <3>1, <3>2 DEF SameTurns
  <2> QED
    BY Zenon, <1>1, <2>2 DEF AdmitTurn, Only, SameRow, SameCheckpoints, runVars, ckptVars
<1>2. CASE CompleteTurn(q, k, t, at)
  <2>1. ASSUME NEW r \in Runs, r # q PROVE SameTurns(r)
    BY Zenon, <1>2, <2>1 DEF CompleteTurn, TypeOK, SameTurns
  <2> QED
    BY Zenon, <1>2, <2>1 DEF CompleteTurn, Only, SameRow, SameCheckpoints, runVars, ckptVars
<1>3. CASE ReconcileInterruptedTurn(q, k, t, at)
  <2>1. ASSUME NEW r \in Runs, r # q PROVE SameTurns(r)
    BY Zenon, <1>3, <2>1 DEF ReconcileInterruptedTurn, TypeOK, SameTurns
  <2> QED
    BY Zenon, <1>3, <2>1 DEF ReconcileInterruptedTurn, Only, SameRow, SameCheckpoints, runVars, ckptVars
<1>4. CASE ResumeInterruptedTurn(q, k, t)
  <2>1. ASSUME NEW r \in Runs, r # q PROVE SameTurns(r)
    BY Zenon, <1>4, <2>1 DEF ResumeInterruptedTurn, TypeOK, SameTurns
  <2> QED
    BY Zenon, <1>4, <2>1 DEF ResumeInterruptedTurn, Only, SameRow, SameCheckpoints, runVars, ckptVars
<1> QED
  BY Zenon, <1>1, <1>2, <1>3, <1>4

\* Admission of a run, its pause and its settlement write rows of that run.
LEMMA RunWritten ==
  ASSUME TypeOK, RowOwned, NEW q \in Runs, NEW k, NEW t \in Turns, NEW v, NEW ids, NEW at, NEW o,
         AdmitDurable(q, k, t) \/ PromotePause(q, k, v, t, ids, at) \/ SettleRun(q, k, o, at)
  PROVE  Only(q)
<1>1. CASE AdmitDurable(q, k, t)
  <2>1. turnRun[t] = None
    BY Zenon, <1>1 DEF AdmitDurable, RowOwned
  <2>2. ASSUME NEW r \in Runs, r # q PROVE SameTurns(r)
    BY ZenonT(60), <1>1, <2>1, <2>2, NoneAssumption DEF AdmitDurable, TypeOK, SameTurns
  <2> QED
    BY Zenon, <1>1, <2>2 DEF AdmitDurable, TypeOK, Only, SameRow, SameCheckpoints, ckptVars
<1>2. CASE PromotePause(q, k, v, t, ids, at)
  <2>1. ASSUME NEW r \in Runs, r # q PROVE SameTurns(r)
    BY Zenon, <1>2, <2>1 DEF PromotePause, TypeOK, SameTurns
  <2> QED
    BY Zenon, <1>2, <2>1 DEF PromotePause, TypeOK, Only, SameRow, SameCheckpoints
<1>3. CASE SettleRun(q, k, o, at)
  <2>1. ASSUME NEW r \in Runs, r # q PROVE SameTurns(r)
    BY Zenon, <1>3, <2>1 DEF SettleRun, residualTurns, TypeOK, SameTurns
  <2> QED
    BY Zenon, <1>3, <2>1 DEF SettleRun, TypeOK, Only, SameRow, SameCheckpoints, ckptVars
<1> QED
  BY Zenon, <1>1, <1>2, <1>3

(***************************************************************************)
(* What each mutation makes of the view of its run.                        *)
(***************************************************************************)

\* The fence in terms of the view.
LEMMA FenceView ==
  ASSUME NEW r, NEW k
  PROVE  loadRunFence(r, k) <=> View(r).token = k /\ View(r).status \in Writable
  BY Zenon, ViewFields DEF loadRunFence

\* A step that writes none of these columns leaves the view of every run.
LEMMA ViewsUntouched ==
  ASSUME IInv, IInv', UNCHANGED <<runStatus, claimToken>>, UNCHANGED turnVars, UNCHANGED ckptVars
  PROVE  \A r \in Runs : /\ SameTurns(r) /\ SameRow(r) /\ SameCheckpoints(r)
                         /\ View(r)' = View(r)
<1> SUFFICES ASSUME NEW r \in Runs
             PROVE  SameTurns(r) /\ SameRow(r) /\ SameCheckpoints(r) /\ View(r)' = View(r)
  BY Zenon
<1>1. SameTurns(r) /\ SameRow(r) /\ SameCheckpoints(r)
  BY Zenon, NothingWritten
<1> QED
  BY Zenon, <1>1, ViewKept

\* A turn inserted at the next ordinal is the current turn of its run.
LEMMA NewTurnIsCurrent ==
  ASSUME IInv, IInv', NEW q \in Runs, NEW t \in Turns, NEW n \in Ordinals, nextOrdinal(q, n),
         turnState' = [turnState EXCEPT ![t] = "admitted"],
         turnRun' = [turnRun EXCEPT ![t] = q],
         turnOrdinal' = [turnOrdinal EXCEPT ![t] = n]
  PROVE  View(q)'.turn = t /\ View(q)'.at = "admitted"
<1>0. TypeOK
  BY Zenon DEF IInv
<1>1. turnState'[t] = "admitted" /\ turnRun'[t] = q /\ turnOrdinal'[t] = n
  BY Zenon, <1>0 DEF TypeOK
<1>2. t \in turnsOf(q, OpenTurn)'
  BY Zenon, <1>1 DEF turnsOf, OpenTurn
<1>3. n \in Nat
  BY Zenon, IdentityAssumption
<1>4. ASSUME NEW u \in turnsOf(q, OpenTurn)' PROVE turnOrdinal'[u] <= turnOrdinal'[t]
  <2>1. CASE u = t
    BY <1>1, <1>3, <2>1
  <2>2. CASE u # t
    <3>1. u \in Turns /\ turnRun'[u] = q
      BY Zenon DEF turnsOf
    <3>2. turnRun[u] = q /\ turnOrdinal'[u] = turnOrdinal[u]
      BY ZenonT(60), <1>0, <2>2, <3>1 DEF TypeOK
    <3>3. turnOrdinal[u] < n
      BY Zenon, <3>1, <3>2 DEF nextOrdinal
    <3>4. turnOrdinal[u] \in Nat
      <4>1. Ordinals \cup {0} \subseteq Nat
        BY IdentityAssumption
      <4> QED
        BY ZenonT(60), <1>0, <3>1, <4>1 DEF TypeOK
    <3>5. turnOrdinal[u] <= n
      BY <1>3, <3>3, <3>4
    <3> QED
      BY Zenon, <1>1, <3>2, <3>5
  <2> QED
    BY Zenon, <2>1, <2>2
<1>5. currentTurn(q)' = t
  BY Zenon, <1>2, <1>4, CurrentIs
<1>6. t # None
  BY Zenon, NoneAssumption
<1>7. View(q)'.turn = currentTurn(q)'
      /\ View(q)'.at = IF currentTurn(q)' = None THEN "none" ELSE turnState'[currentTurn(q)']
  BY Zenon, ViewFieldsNext
<1> QED
  BY Zenon, <1>1, <1>5, <1>6, <1>7

\* A run whose row is the same has the same status and token.
LEMMA RowKept ==
  ASSUME NEW q, SameRow(q)
  PROVE  View(q)'.status = View(q).status /\ View(q)'.token = View(q).token
  BY Zenon, ViewFields, ViewFieldsNext DEF SameRow

\* A mutation of turns keeps the rest of the view.
LEMMA TurnMutationView ==
  ASSUME NEW q \in Runs, SameRow(q), SameCheckpoints(q)
  PROVE  /\ View(q)'.status = View(q).status /\ View(q)'.token = View(q).token
         /\ View(q)'.promoted = View(q).promoted
         /\ View(q)'.rows = View(q).rows /\ View(q)'.blobs = View(q).blobs
  BY Zenon, RowKept, CheckpointsKept

\* The newest of the turns in some open states is the current turn, if that is
\* in one of them.
LEMMA NewestIsCurrent ==
  ASSUME IInv, NEW q \in Runs, NEW S \in SUBSET OpenTurn,
         currentTurn(q) # None, turnState[currentTurn(q)] \in S
  PROVE  newest(turnsOf(q, S)) = currentTurn(q)
<1>1. PICK c : c = currentTurn(q)
  BY Zenon
<1>2. /\ c \in turnsOf(q, OpenTurn)
      /\ \A u \in turnsOf(q, OpenTurn) : turnOrdinal[u] <= turnOrdinal[c]
  BY Zenon, <1>1, CurrentExists
<1>3. c \in turnsOf(q, S) /\ turnsOf(q, S) \subseteq turnsOf(q, OpenTurn)
  BY Zenon, <1>1, <1>2 DEF turnsOf
<1>4. PICK T : T = turnsOf(q, S)
  BY Zenon
<1>5. /\ T \in SUBSET Turns
      /\ turnOrdinal \in [Turns -> Ordinals \cup {0}]
      /\ \A t, u \in T : turnOrdinal[t] = turnOrdinal[u] => t = u
  BY Zenon, <1>3, <1>4, OpenTurnsApart
<1>6. c \in T /\ \A u \in T : turnOrdinal[u] <= turnOrdinal[c]
  BY Zenon, <1>2, <1>3, <1>4
<1>7. greatest(T, turnOrdinal) = c
  BY ZenonT(60), <1>5, <1>6, GreatestIs
<1>8. newest(T) = greatest(T, turnOrdinal)
  BY Zenon DEF newest, greatest
<1> QED
  BY Zenon, <1>1, <1>4, <1>7, <1>8

\* A view whose turn is interrupted, in terms of the columns.
LEMMA InterruptedView ==
  ASSUME IInv, NEW q \in Runs, View(q).at = "interrupted"
  PROVE  /\ currentTurn(q) # None /\ turnState[currentTurn(q)] = "interrupted"
         /\ newest(turnsOf(q, {"interrupted"})) = View(q).turn
<1>1. View(q).at = IF currentTurn(q) = None THEN "none" ELSE turnState[currentTurn(q)]
  BY Zenon, ViewFields
<1>2. currentTurn(q) # None /\ turnState[currentTurn(q)] = "interrupted"
  BY Zenon, <1>1
<1>3. newest(turnsOf(q, {"interrupted"})) = currentTurn(q)
  BY Zenon, <1>2, NewestIsCurrent DEF OpenTurn
<1> QED
  BY Zenon, <1>2, <1>3, ViewFields

\* A turn that changes between open states leaves the current turn.
LEMMA OpenTurnMoves ==
  ASSUME IInv, IInv', NEW q \in Runs, NEW t \in Turns, turnState[t] \in OpenTurn,
         NEW s \in OpenTurn, turnState' = [turnState EXCEPT ![t] = s],
         UNCHANGED <<turnRun, turnOrdinal>>
  PROVE  /\ View(q)'.turn = View(q).turn
         /\ currentTurn(q)' = currentTurn(q)
         /\ View(q).turn = currentTurn(q)
         /\ turnState'[t] = s
         /\ View(q)'.at = IF currentTurn(q) = None THEN "none" ELSE turnState'[currentTurn(q)]
<1>1. turnState \in [Turns -> {"none"} \cup OpenTurn \cup ClosedTurn]
  BY Zenon DEF IInv, TypeOK
<1>2. SameOpen(q)
  BY Zenon, <1>1 DEF SameOpen
<1>3. currentTurn(q)' = currentTurn(q)
  BY Zenon, <1>2, CurrentKept
<1>4. turnState'[t] = s
  BY Zenon, <1>1
<1>5. View(q)'.turn = currentTurn(q)' /\ View(q).turn = currentTurn(q)
  BY Zenon, ViewFields, ViewFieldsNext
<1>6. View(q)'.at = IF currentTurn(q)' = None THEN "none" ELSE turnState'[currentTurn(q)']
  BY Zenon, ViewFieldsNext
<1>7. View(q)'.at = IF currentTurn(q) = None THEN "none" ELSE turnState'[currentTurn(q)]
  BY Zenon, <1>3, <1>6
<1> QED
  BY Zenon, <1>3, <1>4, <1>5, <1>7

\* Staging adds a row that is not promoted.
LEMMA StageView ==
  ASSUME IInv, IInv', NEW q \in Runs, NEW k, NEW v \in Revisions, NEW b, StageCheckpoint(q, k, v, b),
         NoSentinel(View(q))
  PROVE  /\ Only(q)
         /\ View(q)'.status = View(q).status /\ View(q)'.token = View(q).token
         /\ View(q)'.turn = View(q).turn /\ View(q)'.at = View(q).at
         /\ View(q)'.promoted = View(q).promoted
         /\ View(q)'.rows[v] = "staged" /\ View(q)'.blobs[v] = b
         /\ NoSentinel(View(q)')
<1>0. TypeOK
  BY Zenon DEF IInv
<1>1. Only(q) /\ SameTurns(q)
  BY Zenon, <1>0, CheckpointsWritten
<1>2. View(q)'.turn = View(q).turn /\ View(q)'.at = View(q).at
  BY Zenon, <1>1, TurnsKept
<1>3. View(q)'.status = View(q).status /\ View(q)'.token = View(q).token
  <2>1. SameRow(q)
    BY Zenon DEF StageCheckpoint, runVars, SameRow
  <2> QED
    BY Zenon, <2>1, RowKept
<1>4. /\ ckptState[q][v] = "none"
      /\ ckptState'[q][v] = "staged" /\ ckptBlob'[q][v] = b
      /\ \A u \in Revisions : u # v => ckptState'[q][u] = ckptState[q][u] /\ ckptBlob'[q][u] = ckptBlob[q][u]
  BY Zenon, <1>0 DEF StageCheckpoint, TypeOK
<1>5. /\ ckptState[q] \in [Revisions -> {"none", "staged", "promoted"}]
      /\ ckptState'[q] \in [Revisions -> {"none", "staged", "promoted"}]
  BY Zenon DEF IInv, TypeOK
<1>6. \A u \in Revisions : ckptState'[q][u] = "promoted" <=> ckptState[q][u] = "promoted"
  BY Zenon, <1>4
<1>7. View(q)'.promoted = View(q).promoted
  <2>1. highest(ckptState'[q]) = highest(ckptState[q])
    BY Zenon, <1>5, <1>6, HighestKept
  <2>2. promotedRevision(q) = highest(ckptState[q]) /\ promotedRevision(q)' = highest(ckptState'[q])
    BY Zenon, Columns
  <2>3. View(q).promoted = promotedRevision(q) /\ View(q)'.promoted = promotedRevision(q)'
    BY Zenon, ViewFields, ViewFieldsNext
  <2> QED
    BY ZenonT(60), <2>1, <2>2, <2>3
<1>8. /\ View(q).rows = ckptState[q] /\ View(q).blobs = ckptBlob[q]
      /\ View(q)'.rows = ckptState'[q] /\ View(q)'.blobs = ckptBlob'[q]
  BY Zenon, ViewFields, ViewFieldsNext
<1>9. ASSUME NEW u \in Revisions, ckptState'[q][u] = "promoted"
      PROVE  Reconciled \notin ckptBlob'[q][u].rest
  <2>1. u # v /\ ckptState[q][u] = "promoted" /\ ckptBlob'[q][u] = ckptBlob[q][u]
    BY Zenon, <1>4, <1>9
  <2> QED
    BY ZenonT(60), <1>8, <2>1 DEF NoSentinel
<1>10. NoSentinel(View(q)')
  BY Zenon, <1>8, <1>9 DEF NoSentinel
<1> QED
  BY ZenonT(60), <1>1, <1>2, <1>3, <1>4, <1>7, <1>8, <1>10

\* Promoting a revision above the promoted one makes it the promoted one.
LEMMA PromotedAbove ==
  ASSUME NEW rows \in [Revisions -> {"none", "staged", "promoted"}],
         NEW new \in [Revisions -> {"none", "staged", "promoted"}],
         NEW v \in Revisions, new[v] = "promoted",
         \A u \in Revisions : u # v => new[u] = rows[u], highest(rows) < v
  PROVE  highest(new) = v
<1>1. ASSUME NEW u \in Revisions, new[u] = "promoted" PROVE u <= v
  <2>0. u \in Nat /\ v \in Nat
    BY Zenon, IdentityAssumption
  <2>1. CASE u = v
    BY <2>0, <2>1
  <2>2. CASE u # v
    <3>1. rows[u] = "promoted"
      BY Zenon, <1>1, <2>2
    <3>2. highest(rows) \in Revisions /\ u <= highest(rows)
      BY Zenon, <3>1, HighestExists
    <3>3. highest(rows) \in Nat
      BY ZenonT(60), <3>2, IdentityAssumption
    <3> HIDE DEF highest
    <3> QED
      BY <2>0, <3>2, <3>3
  <2> QED
    BY Zenon, <2>1, <2>2
<1> QED
  BY Zenon, <1>1, HighestIs

\* The view after a step that promotes a staged revision of the run.
LEMMA PromoteView ==
  ASSUME IInv, IInv', NEW q \in Runs, NEW v \in Revisions, NoSentinel(View(q)),
         View(q).promoted < v, Reconciled \notin View(q).blobs[v].rest,
         ckptState'[q][v] = "promoted",
         \A u \in Revisions : u # v => ckptState'[q][u] = ckptState[q][u],
         ckptBlob' = ckptBlob
  PROVE  View(q)'.promoted = v /\ View(q)'.blobs = View(q).blobs /\ NoSentinel(View(q)')
<1>1. /\ ckptState[q] \in [Revisions -> {"none", "staged", "promoted"}]
      /\ ckptState'[q] \in [Revisions -> {"none", "staged", "promoted"}]
  BY Zenon DEF IInv, TypeOK
<1>2. /\ View(q).rows = ckptState[q] /\ View(q).blobs = ckptBlob[q]
      /\ View(q).promoted = promotedRevision(q)
  BY Zenon, ViewFields
<1>3. /\ View(q)'.rows = ckptState'[q] /\ View(q)'.blobs = ckptBlob'[q]
      /\ View(q)'.promoted = promotedRevision(q)'
  BY Zenon, ViewFieldsNext
<1>4. promotedRevision(q) = highest(ckptState[q]) /\ promotedRevision(q)' = highest(ckptState'[q])
  BY Zenon, Columns
<1>5. highest(ckptState[q]) < v
  BY Zenon, <1>2, <1>4
<1>6. highest(ckptState'[q]) = v
  <2>1. PICK rows, new : rows = ckptState[q] /\ new = ckptState'[q]
    BY Zenon
  <2>2. /\ rows \in [Revisions -> {"none", "staged", "promoted"}]
        /\ new \in [Revisions -> {"none", "staged", "promoted"}]
    BY ZenonT(60), <1>1, <2>1
  <2>3. new[v] = "promoted" /\ highest(rows) < v
    BY Zenon, <1>5, <2>1
  <2>4. \A u \in Revisions : u # v => new[u] = rows[u]
    BY Zenon, <2>1
  <2>5. highest(new) = v
    BY ZenonT(60), <2>2, <2>3, <2>4, PromotedAbove
  <2> QED
    BY ZenonT(60), <2>1, <2>5
<1>7. View(q)'.blobs = View(q).blobs
  BY Zenon, <1>2, <1>3
<1>8. ASSUME NEW u \in Revisions, View(q)'.rows[u] = "promoted"
      PROVE  Reconciled \notin View(q)'.blobs[u].rest
  <2>1. CASE u = v
    BY Zenon, <1>7, <2>1
  <2>2. CASE u # v
    <3>1. View(q).rows[u] = "promoted"
      BY Zenon, <1>2, <1>3, <1>8, <2>2
    <3> QED
      BY Zenon, <1>7, <3>1 DEF NoSentinel
  <2> QED
    BY Zenon, <2>1, <2>2
<1>9. NoSentinel(View(q)')
  BY Zenon, <1>8 DEF NoSentinel
<1> QED
  BY ZenonT(60), <1>3, <1>4, <1>6, <1>7, <1>9

\* Retiring checkpoints up to the promoted one leaves none promoted, and never
\* brings a row in.
LEMMA RetireView ==
  ASSUME IInv, IInv', NEW q \in Runs, NEW v \in Revisions, deleteCheckpointsUpTo(q, v),
         NoSentinel(View(q))
  PROVE  /\ NoSentinel(View(q)')
         /\ View(q).promoted = v => View(q)'.promoted = 0
<1>0. TypeOK
  BY Zenon DEF IInv
<1>1. \A u \in Revisions :
         /\ u <= v => ckptState'[q][u] = "none"
         /\ ~(u <= v) => ckptState'[q][u] = ckptState[q][u] /\ ckptBlob'[q][u] = ckptBlob[q][u]
  BY Zenon, <1>0 DEF deleteCheckpointsUpTo, TypeOK
<1>2. /\ View(q).rows = ckptState[q] /\ View(q).blobs = ckptBlob[q]
      /\ View(q).promoted = promotedRevision(q)
  BY Zenon, ViewFields
<1>3. /\ View(q)'.rows = ckptState'[q] /\ View(q)'.blobs = ckptBlob'[q]
      /\ View(q)'.promoted = promotedRevision(q)'
  BY Zenon, ViewFieldsNext
<1>4. promotedRevision(q) = highest(ckptState[q]) /\ promotedRevision(q)' = highest(ckptState'[q])
  BY Zenon, Columns
<1>5. ASSUME NEW u \in Revisions, View(q)'.rows[u] = "promoted"
      PROVE  Reconciled \notin View(q)'.blobs[u].rest
  <2>1. ~(u <= v)
    BY Zenon, <1>1, <1>3, <1>5
  <2>2. View(q).rows[u] = "promoted" /\ View(q)'.blobs[u] = View(q).blobs[u]
    BY ZenonT(60), <1>1, <1>2, <1>3, <1>5, <2>1
  <2> QED
    BY Zenon, <2>2 DEF NoSentinel
<1>6. NoSentinel(View(q)')
  BY Zenon, <1>5 DEF NoSentinel
<1>7. ASSUME View(q).promoted = v PROVE View(q)'.promoted = 0
  <2>1. highest(ckptState[q]) = v
    BY ZenonT(60), <1>2, <1>4, <1>7
  <2>2. ckptState[q] \in [Revisions -> {"none", "staged", "promoted"}]
    BY Zenon, <1>0 DEF TypeOK
  <2>3. \A u \in Revisions : ckptState[q][u] = "promoted" => u <= v
    BY Zenon, <2>1, <2>2, HighestExists
  <2>4. \A u \in Revisions : ckptState'[q][u] # "promoted"
    BY Zenon, <1>1, <2>3
  <2>5. highest(ckptState'[q]) = 0
    BY Zenon, <2>4 DEF highest
  <2> QED
    BY Zenon, <1>3, <1>4, <2>5
<1> QED
  BY Zenon, <1>6, <1>7

\* A driver stages above the promoted revision.
LEMMA StagesAbove ==
  ASSUME DriverInv, NEW d \in Drivers, NEW q \in Runs, drv[d].run = q,
         drv[d].staged = 0 \/ View(q).promoted <= drv[d].staged
  PROVE  View(q).promoted < stagedRevision(d)
<1>1. PICK p : p = promotedRevision(drv[d].run)
  BY Zenon
<1>2. View(q).promoted = p
  BY Zenon, <1>1, ViewFields
<1>3. p \in Nat /\ drv[d].staged \in Nat
  <2>1. Revisions \cup {0} \subseteq Nat
    BY IdentityAssumption
  <2>2. p \in Revisions \cup {0} /\ drv[d].staged \in Revisions \cup {0}
    BY Zenon, <1>1, PromotedRevisionIsPromoted, DriverMemory DEF DriverInv
  <2> QED
    BY Zenon, <2>1, <2>2
<1> DEFINE F == {v \in (p + 1)..(p + 8) : v \in Revisions => ckptState[drv[d].run][v] = "none"}
           least(S) == CHOOSE v \in S : \A u \in S : v <= u
<1>4. stagedRevision(d) = IF drv[d].staged > 0 THEN drv[d].staged + 1
                          ELSE IF F = {} THEN p + 8 ELSE least(F)
  BY <1>1, SMT DEF stagedRevision
<1>5. PICK free : free = F
  BY Zenon
<1>6. CASE drv[d].staged > 0
  <2>1. stagedRevision(d) = drv[d].staged + 1
    BY Zenon, <1>4, <1>6
  <2> QED
    BY <1>2, <1>3, <1>6, <2>1
<1>7. CASE ~(drv[d].staged > 0) /\ free = {}
  <2>1. stagedRevision(d) = p + 8
    BY Zenon, <1>4, <1>5, <1>7
  <2> QED
    BY <1>2, <1>3, <2>1
<1>8. CASE ~(drv[d].staged > 0) /\ free # {}
  <2>1. \A u \in free : u \in Nat /\ p < u /\ u <= p + 8
    BY <1>3, <1>5
  <2>2. \E v \in free : \A u \in free : v <= u
    <3> HIDE DEF F
    <3>1. ASSUME p + 1 \in free PROVE \E v \in free : \A u \in free : v <= u
      <4>1. \A u \in free : p + 1 <= u
        BY <1>3, <2>1, <3>1
      <4> QED
        BY Zenon, <3>1, <4>1
    <3>2. ASSUME p + 2 \in free, p + 1 \notin free PROVE \E v \in free : \A u \in free : v <= u
      <4>1. \A u \in free : p + 2 <= u
        BY <1>3, <2>1, <3>2
      <4> QED
        BY ZenonT(60), <3>2, <4>1
    <3>3. ASSUME p + 3 \in free, p + 1 \notin free, p + 2 \notin free PROVE \E v \in free : \A u \in free : v <= u
      <4>1. \A u \in free : p + 3 <= u
        BY <1>3, <2>1, <3>3
      <4> QED
        BY Zenon, <3>3, <4>1
    <3>4. ASSUME p + 4 \in free, p + 1 \notin free, p + 2 \notin free, p + 3 \notin free PROVE \E v \in free : \A u \in free : v <= u
      <4>1. \A u \in free : p + 4 <= u
        BY <1>3, <2>1, <3>4
      <4> QED
        BY ZenonT(60), <3>4, <4>1
    <3>5. ASSUME p + 5 \in free, p + 1 \notin free, p + 2 \notin free, p + 3 \notin free, p + 4 \notin free PROVE \E v \in free : \A u \in free : v <= u
      <4>1. \A u \in free : p + 5 <= u
        BY <1>3, <2>1, <3>5
      <4> QED
        BY ZenonT(60), <3>5, <4>1
    <3>6. ASSUME p + 6 \in free, p + 1 \notin free, p + 2 \notin free, p + 3 \notin free, p + 4 \notin free, p + 5 \notin free PROVE \E v \in free : \A u \in free : v <= u
      <4>1. \A u \in free : p + 6 <= u
        BY <1>3, <2>1, <3>6
      <4> QED
        BY ZenonT(60), <3>6, <4>1
    <3>7. ASSUME p + 7 \in free, p + 1 \notin free, p + 2 \notin free, p + 3 \notin free, p + 4 \notin free, p + 5 \notin free, p + 6 \notin free PROVE \E v \in free : \A u \in free : v <= u
      <4>1. \A u \in free : p + 7 <= u
        BY <1>3, <2>1, <3>7
      <4> QED
        BY Zenon, <3>7, <4>1
    <3>8. ASSUME p + 8 \in free, p + 1 \notin free, p + 2 \notin free, p + 3 \notin free, p + 4 \notin free, p + 5 \notin free, p + 6 \notin free, p + 7 \notin free PROVE \E v \in free : \A u \in free : v <= u
      <4>1. \A u \in free : p + 8 <= u
        BY <1>3, <2>1, <3>8
      <4> QED
        BY Zenon, <3>8, <4>1
    <3>9. \E u \in free : u \in {p + 1, p + 2, p + 3, p + 4, p + 5, p + 6, p + 7, p + 8}
      BY <1>3, <1>8, <2>1
    <3> QED
      BY ZenonT(60), <3>1, <3>2, <3>3, <3>4, <3>5, <3>6, <3>7, <3>8, <3>9
  <2>3. stagedRevision(d) = least(free)
    <3> HIDE DEF F, least
    <3> QED
      BY Zenon, <1>4, <1>5, <1>8
  <2>4. least(free) \in free
    BY Zenon, <2>2
  <2> QED
    BY ZenonT(60), <1>2, <2>1, <2>3, <2>4
<1> QED
  BY Zenon, <1>6, <1>7, <1>8

\* A compensating pause of a run that can be resumed, with no revision.
LEMMA RepausedView ==
  ASSUME IInv, IInv', NEW q \in Runs, NEW k, RepauseRun(q, k, 0), RunFine(View(q)), Resumable(View(q))
  PROVE  Only(q) /\ RunFine(View(q)')
<1>0. TypeOK
  BY Zenon DEF IInv
<1>1. Only(q) /\ SameTurns(q)
  BY Zenon, <1>0, CheckpointsWritten
<1>2. SameCheckpoints(q)
  <2>1. ckptState' = [ckptState EXCEPT ![q] =
                         [u \in Revisions |-> IF u = 0 THEN "promoted" ELSE @[u]]]
    BY Zenon DEF RepauseRun
  <2>2. ckptState'[q] = [u \in Revisions |-> IF u = 0 THEN "promoted" ELSE ckptState[q][u]]
    BY ZenonT(60), <1>0, <2>1 DEF TypeOK
  <2>3. \A u \in Revisions : u # 0
    BY IdentityAssumption
  <2>4. ckptState[q] \in [Revisions -> {"none", "staged", "promoted"}]
    BY Zenon, <1>0 DEF TypeOK
  <2>5. ckptState'[q] = ckptState[q]
    BY ZenonT(60), <2>2, <2>3, <2>4
  <2> QED
    BY Zenon, <2>5 DEF RepauseRun, SameCheckpoints
<1>3. View(q)'.status = "paused"
  <2>1. runStatus'[q] = "paused"
    BY Zenon, <1>0 DEF RepauseRun, TypeOK
  <2> QED
    BY ZenonT(60), <2>1, ViewFieldsNext
<1>4. /\ View(q)'.turn = View(q).turn /\ View(q)'.at = View(q).at
      /\ View(q)'.promoted = View(q).promoted
      /\ View(q)'.rows = View(q).rows /\ View(q)'.blobs = View(q).blobs
  BY ZenonT(60), <1>1, <1>2, TurnsKept, CheckpointsKept
<1>5. Resumable(View(q)')
  BY Zenon, <1>4 DEF Resumable
<1>6. NoSentinel(View(q)')
  BY Zenon, <1>4 DEF RunFine, NoSentinel
<1> QED
  BY ZenonT(60), <1>1, <1>3, <1>5, <1>6 DEF RunFine

(***************************************************************************)
(* A driver's step touches the rows of one run, and its new memory fits    *)
(* what it made of them.                                                   *)
(***************************************************************************)

\* Whoever else drives the run q does not notice the step of d in what it may
\* still write: the view is the same, or d held the token, or d has just
\* claimed with a new one, or nobody may write.
Alone(d, q) ==
    \/ View(q)' = View(q)
    \/ View(q).token = drv[d].tok
    \/ View(q)'.token \notin minted
    \/ View(q)'.status \notin Writable

\* What a step of the driver d does to its run.
Moves(d) ==
    \E q \in Runs :
        /\ drv[d].run = q \/ drv'[d].run = q
        /\ drv'[d].run \in {None, q}
        /\ \A e \in Drivers : e # d => drv'[e] = drv[e]
        /\ Only(q) /\ Alone(d, q)
        /\ RunFine(View(q)')
        /\ drv'[d].run = q => Fits(drv'[d], View(q)')

\* The state in which a driver at work takes its step.
LEMMA AtHand ==
  ASSUME TLInv, DriveInv, NEW d \in Drivers, drv[d].pc # "idle"
  PROVE  /\ drv[d].run \in Runs /\ drv[d] \in Drives
         /\ Fits(drv[d], View(drv[d].run)) /\ RunFine(View(drv[d].run))
<1>1. drv[d].run \in Runs /\ drv[d] \in Drives
  BY Zenon, DriverMemory DEF TLInv, DriverInv, DriverTypeOK
<1>2. PICK q \in Runs : q = drv[d].run
  BY Zenon, <1>1
<1>3. Fits(drv[d], View(q)) /\ RunFine(View(q))
  BY Zenon, <1>2 DEF DriveInv
<1> QED
  BY ZenonT(60), <1>1, <1>2, <1>3

\* A driver takes the memory m.
LEMMA Moving ==
  ASSUME TLInv, NEW d \in Drivers, NEW q \in Runs, NEW m, become(d, m),
         drv[d].run = q \/ m.run = q, m.run \in {None, q},
         Only(q), Alone(d, q), RunFine(View(q)'), m.run = q => Fits(m, View(q)')
  PROVE  Moves(d)
<1>1. drv \in [Drivers -> Drives]
  BY Zenon DEF TLInv, DriverInv, DriverTypeOK
<1>2. drv'[d] = m /\ \A e \in Drivers : e # d => drv'[e] = drv[e]
  BY Zenon, <1>1 DEF become
<1>3. Fits(m, View(q)') => Fits(drv'[d], View(q)')
  BY Zenon, <1>2
<1> QED
  BY Zenon, <1>2, <1>3 DEF Moves

\* A driver's call ends.
LEMMA Parking ==
  ASSUME TLInv, NEW d \in Drivers, NEW q \in Runs, drv[d].run = q, park(d),
         Only(q), Alone(d, q), RunFine(View(q)')
  PROVE  Moves(d)
<1>1. Parked.run = None /\ None # q
  BY Zenon, NoneAssumption DEF Parked
<1>2. become(d, Parked)
  BY Zenon DEF park
<1> HIDE DEF Parked
<1> QED
  BY ZenonT(60), <1>1, <1>2, Moving

\* A step that writes nothing leaves every run.
LEMMA Untouched ==
  ASSUME IInv, IInv', UNCHANGED storeVars, NEW q \in Runs
  PROVE  Only(q) /\ View(q)' = View(q)
<1>1. UNCHANGED <<runStatus, claimToken>> /\ UNCHANGED turnVars /\ UNCHANGED ckptVars
  BY Zenon DEF storeVars, runVars
<1>2. \A r \in Runs : SameTurns(r) /\ SameRow(r) /\ SameCheckpoints(r) /\ View(r)' = View(r)
  BY Zenon, <1>1, ViewsUntouched
<1> QED
  BY Zenon, <1>2 DEF Only

\* A call ends without writing.
LEMMA ParkUntouched ==
  ASSUME TLInv, IInv', DriveInv, NEW d \in Drivers, drv[d].pc # "idle", park(d), UNCHANGED storeVars
  PROVE  Moves(d)
<1>1. PICK q \in Runs : q = drv[d].run
  BY Zenon, AtHand
<1>2. Only(q) /\ View(q)' = View(q)
  BY Zenon, Untouched DEF TLInv
<1>3. RunFine(View(q))
  BY Zenon DEF DriveInv
<1>4. RunFine(View(q)') /\ Alone(d, q)
  BY ZenonT(60), <1>2, <1>3 DEF Alone
<1> QED
  BY ZenonT(60), <1>1, <1>2, <1>4, Parking

\* A driver moves on without writing.
LEMMA MoveUntouched ==
  ASSUME TLInv, IInv', DriveInv, NEW d \in Drivers, NEW q \in Runs, UNCHANGED storeVars,
         NEW m, become(d, m), m.run = q, Fits(m, View(q))
  PROVE  Moves(d)
<1>1. Only(q) /\ View(q)' = View(q)
  BY Zenon, Untouched DEF TLInv
<1>2. RunFine(View(q))
  BY Zenon DEF DriveInv
<1>3. RunFine(View(q)') /\ Fits(m, View(q)') /\ Alone(d, q)
  BY Zenon, <1>1, <1>2 DEF Alone
<1> QED
  BY ZenonT(60), <1>1, <1>3, Moving

\* The view of a run that settles.
LEMMA SettledView ==
  ASSUME IInv, NEW q \in Runs, NEW k, NEW o \in TerminalRun, NEW at, SettleRun(q, k, o, at),
         NoSentinel(View(q))
  PROVE  Only(q) /\ RunFine(View(q)') /\ View(q)'.status \in TerminalRun
<1>0. TypeOK /\ RowOwned
  BY Zenon DEF IInv
<1>1. Only(q)
  <2>1. ASSUME NEW r \in Runs, r # q PROVE SameTurns(r)
    BY ZenonT(60), <1>0, <2>1 DEF SettleRun, residualTurns, TypeOK, SameTurns
  <2> QED
    BY ZenonT(60), <1>0, <2>1 DEF SettleRun, TypeOK, Only, SameRow, SameCheckpoints, ckptVars
<1>2. View(q)'.status = o
  <2>1. runStatus'[q] = o
    BY ZenonT(60), <1>0 DEF SettleRun, TypeOK
  <2> QED
    BY Zenon, <2>1, ViewFieldsNext
<1>3. SameCheckpoints(q)
  BY Zenon DEF SettleRun, SameCheckpoints, ckptVars
<1>4. View(q)'.rows = View(q).rows /\ View(q)'.blobs = View(q).blobs
  BY ZenonT(60), <1>3, CheckpointsKept
<1>5. NoSentinel(View(q)')
  BY Zenon, <1>4 DEF NoSentinel
<1>6. o # "paused" /\ o # "none"
  BY Zenon DEF TerminalRun
<1> QED
  BY ZenonT(60), <1>1, <1>2, <1>5, <1>6 DEF RunFine

\* A call settles its run and ends.
LEMMA ParkSettled ==
  ASSUME TLInv, DriveInv, NEW d \in Drivers, drv[d].pc # "idle", park(d),
         NEW o \in TerminalRun, SettleRun(drv[d].run, drv[d].tok, o, someTime)
  PROVE  Moves(d)
<1>1. PICK q \in Runs : q = drv[d].run
  BY Zenon, AtHand
<1>2. NoSentinel(View(q))
  BY Zenon DEF DriveInv, RunFine
<1>3. SettleRun(q, drv[d].tok, o, someTime)
  BY Zenon, <1>1
<1>4. Only(q) /\ RunFine(View(q)') /\ View(q)'.status \in TerminalRun
  BY ZenonT(60), <1>2, <1>3, SettledView DEF TLInv
<1>5. Alone(d, q)
  BY Zenon, <1>4 DEF Alone, TerminalRun, Writable
<1> QED
  BY ZenonT(60), <1>1, <1>4, <1>5, Parking

\* Admission and claims write a token that nobody holds.
LEMMA ClaimsAlone ==
  ASSUME TypeOK, NEW d, NEW q \in Runs, NEW k,
         ClaimRun(q, k) \/ \E t : AdmitDurable(q, k, t)
  PROVE  Alone(d, q)
<1>1. claimToken'[q] = k /\ k \notin minted
  BY ZenonT(60) DEF ClaimRun, AdmitDurable, TypeOK
<1> QED
  BY Zenon, <1>1, ViewFieldsNext DEF Alone

\* Memories that fit, point by point: before the loop of a fresh run.
LEMMA FitsBegin ==
  ASSUME NEW m, NEW w, m.pc = "push" \/ m.pc = "begin", m.staged = 0,
         w.token = m.tok /\ w.status \in Writable => Starting(m, w)
  PROVE  Fits(m, w)
  BY Zenon DEF Fits, Claimed, Unstaged

\* Before the loop of a resumed run.
LEMMA FitsResumed ==
  ASSUME NEW m, NEW w, m.pc = "resumed", m.staged = 0,
         w.token = m.tok /\ w.status \in Writable => Resuming(m, w)
  PROVE  Fits(m, w)
  BY Zenon DEF Fits, Claimed, Unstaged

\* Before the checkpoint is loaded.
LEMMA FitsLoad ==
  ASSUME NEW m, NEW w, m.pc = "load", m.staged = 0,
         w.token = m.tok /\ w.status \in Writable => Starting(m, w) \/ Resuming(m, w)
  PROVE  Fits(m, w)
  BY Zenon DEF Fits, Claimed, Unstaged

\* Between two turns.
LEMMA FitsLoop ==
  ASSUME NEW m, NEW w, m.pc = "loop", m.staged = 0,
         w.token = m.tok /\ w.status \in Writable => Looping(m, w)
  PROVE  Fits(m, w)
  BY Zenon DEF Fits, Claimed, Unstaged

\* In a turn.
LEMMA FitsTurn ==
  ASSUME NEW m, NEW w, m.pc = "turn", m.staged = 0,
         w.token = m.tok /\ w.status \in Writable =>
            m.cur = w.turn /\ ~m.first /\ Reconciled \notin m.buf
  PROVE  Fits(m, w)
  BY Zenon DEF Fits, Claimed, Unstaged

\* Before the pause of a turn.
LEMMA FitsPausing ==
  ASSUME NEW m, NEW w, m.pc = "pausing",
         w.token = m.tok /\ w.status \in Writable => m.cur = w.turn /\ Staged(m, w)
  PROVE  Fits(m, w)
  BY Zenon DEF Fits, Claimed, Unstaged

\* In the exit protocol.
LEMMA FitsExit ==
  ASSUME NEW m, NEW w, m.pc = "unhandled" \/ m.pc = "late" \/ m.pc = "clean" \/ m.pc = "carrier"
            \/ m.pc = "carrierStage",
         w.token = m.tok /\ w.status \in Writable =>
            /\ m.staged = 0 \/ w.promoted <= m.staged
            /\ m.pc = "carrierStage" => m.cur = w.turn
  PROVE  Fits(m, w)
  BY Zenon DEF Fits, Claimed, Unstaged

\* After the turn of a crashed drive was interrupted.
LEMMA FitsReconciled ==
  ASSUME NEW m, NEW w, m.pc = "reconciled", m.staged = 0,
         w.token = m.tok /\ w.status \in Writable => w.turn = None \/ w.at = "interrupted"
  PROVE  Fits(m, w)
  BY Zenon DEF Fits, Claimed, Unstaged

\* Before reconciliation pauses the run.
LEMMA FitsRepause ==
  ASSUME NEW m, NEW w, m.pc = "repause",
         w.token = m.tok /\ w.status \in Writable => Staged(m, w) /\ w.at = "interrupted"
  PROVE  Fits(m, w)
  BY Zenon DEF Fits, Claimed, Unstaged

\* Where the rows say nothing.
LEMMA FitsElsewhere ==
  ASSUME NEW m, NEW w,
         \/ (m.pc = "stopping" \/ m.pc = "reclaim" \/ m.pc = "reconcile") /\ m.staged = 0
         \/ m.pc = "retire" \/ m.pc = "abandon" \/ m.pc = "abandoning" \/ m.pc = "abandoned"
  PROVE  Fits(m, w)
  BY Zenon DEF Fits, Claimed, Unstaged

\* A run that somebody drives.
LEMMA FineWhileWritable ==
  ASSUME NEW w, w.status \in Writable, NoSentinel(w)
  PROVE  RunFine(w)
  BY Zenon DEF RunFine, Writable

\* Start admits the run with its first turn, and drives that.
LEMMA StartMoves ==
  ASSUME TLInv, IInv', DriveInv, NEW d \in Drivers, NEW q \in Runs, Start(d, q)
  PROVE  Moves(d)
<1>0. IInv /\ TypeOK /\ RowOwned
  BY Zenon DEF TLInv, IInv
<1>1. PICK k, t : k = NewClaimToken /\ t = NewTurnID
  BY Zenon
<1>2. t \in Turns
  BY ZenonT(60), <1>0, <1>1, Identifiers DEF Start
<1> DEFINE m == [Parked EXCEPT !.pc = "push", !.run = q, !.tok = k, !.ord = 1, !.cur = t]
<1>3. AdmitDurable(q, k, t) /\ become(d, m)
  BY Zenon, <1>1 DEF Start
<1>4. /\ m.pc = "push" /\ m.run = q /\ m.tok = k /\ m.cur = t /\ m.staged = 0
      /\ m.buf = {} /\ m.first = FALSE
  BY Zenon DEF Parked
<1> HIDE DEF m
<1>5. Only(q)
  BY ZenonT(60), <1>0, <1>2, <1>3, RunWritten
<1>6. View(q)'.turn = t
  BY ZenonT(60), <1>0, <1>2, <1>3, NewTurnIsCurrent DEF AdmitDurable
<1>7. SameCheckpoints(q)
  BY ZenonT(60), <1>3 DEF AdmitDurable, SameCheckpoints, ckptVars
<1>8. View(q)'.promoted = View(q).promoted /\ View(q)'.rows = View(q).rows
      /\ View(q)'.blobs = View(q).blobs
  BY Zenon, <1>7, CheckpointsKept
<1>9. View(q).status = "none" /\ View(q)'.status = "pending"
  <2>1. runStatus[q] = "none" /\ runStatus'[q] = "pending"
    BY ZenonT(60), <1>0, <1>3 DEF AdmitDurable, TypeOK
  <2> QED
    BY ZenonT(60), <2>1, ViewFields, ViewFieldsNext
<1>10. View(q).promoted = 0 /\ NoSentinel(View(q))
  BY Zenon, <1>9 DEF DriveInv, RunFine
<1>11. RunFine(View(q)')
  BY ZenonT(60), <1>8, <1>9, <1>10 DEF RunFine, NoSentinel
<1>12. Starting(m, View(q)')
  BY ZenonT(60), <1>4, <1>6, <1>8, <1>10 DEF Starting
<1>13. Fits(m, View(q)')
  <2>1. (m.pc = "push" \/ m.pc = "begin") /\ m.staged = 0
    BY Zenon, <1>4
  <2> QED
    BY ZenonT(60), <1>12, <2>1, FitsBegin
<1>14. Alone(d, q)
  BY ZenonT(60), <1>0, <1>3, ClaimsAlone
<1> QED
  BY ZenonT(60), <1>3, <1>4, <1>5, <1>11, <1>13, <1>14, Moving

\* StartPush puts the sentinel of the first turn in the buffer.
LEMMA StartPushMoves ==
  ASSUME TLInv, IInv', DriveInv, NEW d \in Drivers, StartPush(d)
  PROVE  Moves(d)
<1>1. PICK q \in Runs : q = drv[d].run /\ drv[d] \in Drives /\ Fits(drv[d], View(q))
  BY Zenon, AtHand DEF StartPush
<1>2. PICK queued \in {drainQueuedInbox(drv[d].run), {}} :
         become(d, [drv[d] EXCEPT !.pc = "begin", !.first = (drv[d].buf = {}),
                                  !.buf = @ \cup {First} \cup queued])
  BY Zenon DEF StartPush
<1> DEFINE m == [drv[d] EXCEPT !.pc = "begin", !.first = (drv[d].buf = {}),
                              !.buf = @ \cup {First} \cup queued]
<1>3. /\ m.pc = "begin" /\ m.run = q /\ m.tok = drv[d].tok /\ m.cur = drv[d].cur
      /\ m.staged = drv[d].staged /\ m.buf = drv[d].buf \cup {First} \cup queued
  BY ZenonT(60), <1>1 DEF Drives
<1>4. become(d, m) /\ drv[d].pc = "push" /\ UNCHANGED storeVars
  BY Zenon, <1>2 DEF StartPush
<1> HIDE DEF m
<1>5. queued \subseteq Items
  BY Zenon DEF drainQueuedInbox
<1>6. drv[d].staged = 0
      /\ (View(q).token = drv[d].tok /\ View(q).status \in Writable => Starting(drv[d], View(q)))
  BY ZenonT(60), <1>1, <1>4 DEF Fits, Claimed, Unstaged
<1>7. Reconciled \notin drv[d].buf => Reconciled \notin m.buf
  BY ZenonT(60), <1>3, <1>5, SentinelAssumption
<1>8. First \in m.buf
  BY Zenon, <1>3
<1>9. Starting(drv[d], View(q)) => Starting(m, View(q))
  BY ZenonT(60), <1>3, <1>7, <1>8 DEF Starting
<1>10. Fits(m, View(q))
  <2>1. (m.pc = "push" \/ m.pc = "begin") /\ m.staged = 0
    BY Zenon, <1>3, <1>6
  <2>2. View(q).token = m.tok /\ View(q).status \in Writable => Starting(m, View(q))
    BY ZenonT(60), <1>3, <1>6, <1>9
  <2> QED
    BY ZenonT(60), <2>1, <2>2, FitsBegin
<1> QED
  BY ZenonT(60), <1>3, <1>4, <1>10, MoveUntouched

\* The view of a run whose row alone was written by its fenced driver.
LEMMA RowView ==
  ASSUME IInv, IInv', NEW q \in Runs, NEW k, ClaimRun(q, k) \/ StartRun(q, k), NoSentinel(View(q))
  PROVE  /\ Only(q)
         /\ View(q)'.status = "running"
         /\ View(q)'.turn = View(q).turn /\ View(q)'.at = View(q).at
         /\ View(q)'.promoted = View(q).promoted
         /\ View(q)'.rows = View(q).rows /\ View(q)'.blobs = View(q).blobs
         /\ RunFine(View(q)')
<1>0. TypeOK
  BY Zenon DEF IInv
<1>1. Only(q) /\ SameTurns(q) /\ SameCheckpoints(q)
  BY ZenonT(60), <1>0, RowWritten
<1>2. runStatus'[q] = "running"
  BY Zenon, <1>0 DEF ClaimRun, StartRun, TypeOK
<1>3. View(q)'.status = "running"
  BY Zenon, <1>2, ViewFieldsNext
<1>4. /\ View(q)'.turn = View(q).turn /\ View(q)'.at = View(q).at
      /\ View(q)'.promoted = View(q).promoted
      /\ View(q)'.rows = View(q).rows /\ View(q)'.blobs = View(q).blobs
  BY ZenonT(60), <1>1, TurnsKept, CheckpointsKept
<1>5. RunFine(View(q)')
  BY ZenonT(60), <1>3, <1>4 DEF RunFine, NoSentinel
<1> QED
  BY ZenonT(60), <1>1, <1>3, <1>4, <1>5

\* StartRun marks the run running, for a fresh run and for a resumed one.
LEMMA BeginMoves ==
  ASSUME TLInv, IInv', DriveInv, NEW d \in Drivers, BeginFresh(d) \/ ResumeStart(d)
  PROVE  Moves(d)
<1>1. PICK q \in Runs : q = drv[d].run /\ drv[d] \in Drives /\ Fits(drv[d], View(q)) /\ RunFine(View(q))
  BY Zenon, AtHand DEF BeginFresh, ResumeStart
<1> DEFINE m == [drv[d] EXCEPT !.pc = "load"]
<1>2. /\ m.pc = "load" /\ m.run = q /\ m.tok = drv[d].tok /\ m.cur = drv[d].cur
      /\ m.staged = drv[d].staged /\ m.buf = drv[d].buf /\ m.first = drv[d].first
  BY Zenon, <1>1 DEF Drives
<1>3. become(d, m) /\ drv[d].pc \in {"begin", "resumed"} /\ StartRun(q, drv[d].tok)
  BY Zenon, <1>1 DEF BeginFresh, ResumeStart
<1> HIDE DEF m
<1>4. View(q).token = drv[d].tok /\ View(q).status \in Writable
  BY ZenonT(60), <1>3, FenceView DEF StartRun
<1>5. drv[d].staged = 0 /\ (Starting(drv[d], View(q)) \/ Resuming(drv[d], View(q)))
  BY ZenonT(60), <1>1, <1>3, <1>4 DEF Fits, Claimed, Unstaged
<1>6. /\ Only(q) /\ RunFine(View(q)')
      /\ View(q)'.turn = View(q).turn /\ View(q)'.at = View(q).at
      /\ View(q)'.promoted = View(q).promoted /\ View(q)'.blobs = View(q).blobs
  BY ZenonT(60), <1>1, <1>3, RowView DEF RunFine, TLInv
<1>7. Starting(drv[d], View(q)) => Starting(m, View(q)')
  BY ZenonT(60), <1>2, <1>6 DEF Starting
<1>8. Resuming(drv[d], View(q)) => Resuming(m, View(q)')
  BY ZenonT(60), <1>2, <1>6 DEF Resuming, Resumable
<1>9. Fits(m, View(q)')
  BY ZenonT(60), <1>2, <1>5, <1>7, <1>8, FitsLoad
<1>10. Alone(d, q)
  BY Zenon, <1>4 DEF Alone
<1> QED
  BY ZenonT(60), <1>1, <1>2, <1>3, <1>6, <1>9, <1>10, Moving

\* ResumeRun reads a run, and begins with an entry that is none of Start's.
LEMMA ResumeReadMoves ==
  ASSUME TLInv, IInv', DriveInv, NEW d \in Drivers, NEW q \in Runs, ResumeRead(d, q)
  PROVE  Moves(d)
<1>1. PICK n, c, buf : become(d, [Parked EXCEPT !.pc = "resume", !.run = q, !.ord = n,
                                                !.cur = c, !.buf = buf])
  BY Zenon DEF ResumeRead
<1> DEFINE m == [Parked EXCEPT !.pc = "resume", !.run = q, !.ord = n, !.cur = c, !.buf = buf]
<1>2. become(d, m) /\ UNCHANGED storeVars
  BY Zenon, <1>1 DEF ResumeRead
<1>3. m.pc = "resume" /\ m.run = q /\ m.staged = 0 /\ m.first = FALSE
  BY Zenon DEF Parked
<1> HIDE DEF m
<1>4. Fits(m, View(q))
  BY ZenonT(60), <1>3 DEF Fits, Claimed
<1> QED
  BY ZenonT(60), <1>2, <1>3, <1>4, MoveUntouched

\* The claim of ResumeRun finds the run as it was read.
LEMMA ResumeClaimMoves ==
  ASSUME TLInv, IInv', DriveInv, ClaimsAsRead, NEW d \in Drivers, ResumeClaim(d)
  PROVE  Moves(d)
<1>1. PICK q \in Runs : q = drv[d].run /\ drv[d] \in Drives /\ Fits(drv[d], View(q)) /\ RunFine(View(q))
  BY Zenon, AtHand DEF ResumeClaim
<1>2. PICK k : k = NewClaimToken
  BY Zenon
<1> DEFINE m == [drv[d] EXCEPT !.pc = "resumed", !.tok = k]
<1>3. /\ m.pc = "resumed" /\ m.run = q /\ m.cur = drv[d].cur
      /\ m.staged = drv[d].staged /\ m.buf = drv[d].buf /\ m.first = drv[d].first
  BY Zenon, <1>1 DEF Drives
<1>4. become(d, m) /\ drv[d].pc = "resume" /\ ClaimRun(q, k)
  BY Zenon, <1>1, <1>2 DEF ResumeClaim
<1> HIDE DEF m
<1>5. drv[d].staged = 0 /\ ~drv[d].first
  BY ZenonT(60), <1>1, <1>4 DEF Fits, Unstaged
<1>6. /\ runStatus[q] = "paused" /\ drv[d].cur = currentTurn(q)
      /\ Reconciled \in drv[d].buf => ~envelope(q).runner
  BY Zenon, <1>1 DEF ClaimsAsRead
<1>7. /\ View(q).status = runStatus[q] /\ View(q).turn = currentTurn(q)
      /\ View(q).promoted = promotedRevision(q) /\ View(q).blobs = ckptBlob[q]
  BY Zenon, ViewFields
<1>8. Resuming(drv[d], View(q))
  <2>1. Resumable(View(q))
    BY ZenonT(60), <1>1, <1>6, <1>7 DEF RunFine
  <2> QED
    BY ZenonT(60), <1>5, <1>6, <1>7, <2>1 DEF Resuming, envelope
<1>9. /\ Only(q) /\ RunFine(View(q)')
      /\ View(q)'.turn = View(q).turn /\ View(q)'.at = View(q).at
      /\ View(q)'.promoted = View(q).promoted /\ View(q)'.blobs = View(q).blobs
  BY ZenonT(60), <1>1, <1>4, RowView DEF RunFine, TLInv
<1>10. Resuming(m, View(q)')
  BY ZenonT(60), <1>3, <1>8, <1>9 DEF Resuming, Resumable
<1>11. Fits(m, View(q)')
  BY ZenonT(60), <1>3, <1>5, <1>10, FitsResumed
<1>12. Alone(d, q)
  BY ZenonT(60), <1>4, ClaimsAlone DEF TLInv, IInv
<1> QED
  BY ZenonT(60), <1>1, <1>3, <1>4, <1>9, <1>11, <1>12, Moving

\* The claim is reverted: the run is as it was before it.
LEMMA ResumeStartFailsMoves ==
  ASSUME TLInv, IInv', DriveInv, NEW d \in Drivers, ResumeStartFails(d)
  PROVE  Moves(d)
<1>1. PICK q \in Runs : q = drv[d].run /\ drv[d] \in Drives /\ Fits(drv[d], View(q)) /\ RunFine(View(q))
  BY Zenon, AtHand DEF ResumeStartFails
<1>2. park(d) /\ drv[d].pc = "resumed" /\ RepauseRun(q, drv[d].tok, 0)
  BY Zenon, <1>1 DEF ResumeStartFails
<1>3. View(q).token = drv[d].tok /\ View(q).status \in Writable
  BY ZenonT(60), <1>2, FenceView DEF RepauseRun
<1>4. Resumable(View(q))
  BY ZenonT(60), <1>1, <1>2, <1>3 DEF Fits, Claimed, Resuming
<1>5. Only(q) /\ RunFine(View(q)')
  BY ZenonT(60), <1>1, <1>2, <1>4, RepausedView DEF TLInv
<1>6. Alone(d, q)
  BY Zenon, <1>3 DEF Alone
<1> QED
  BY ZenonT(60), <1>1, <1>2, <1>5, <1>6, Parking

\* The loop of a fresh run starts with what Start pushed.
LEMMA LoadFreshMoves ==
  ASSUME TLInv, IInv', DriveInv, NEW d \in Drivers, drv[d].pc = "load", UNCHANGED storeVars,
         promotedRevision(drv[d].run) = 0, become(d, [drv[d] EXCEPT !.pc = "loop"])
  PROVE  Moves(d)
<1>1. PICK q \in Runs : q = drv[d].run /\ drv[d] \in Drives /\ Fits(drv[d], View(q)) /\ RunFine(View(q))
  BY Zenon, AtHand
<1> DEFINE m == [drv[d] EXCEPT !.pc = "loop"]
<1>2. /\ m.pc = "loop" /\ m.run = q /\ m.tok = drv[d].tok /\ m.cur = drv[d].cur
      /\ m.staged = drv[d].staged /\ m.buf = drv[d].buf /\ m.first = drv[d].first
  BY Zenon, <1>1 DEF Drives
<1>3. become(d, m)
  BY Zenon
<1> HIDE DEF m
<1>4. View(q).promoted = 0
  BY ZenonT(60), <1>1, ViewFields
<1>5. /\ drv[d].staged = 0
      /\ View(q).token = drv[d].tok /\ View(q).status \in Writable => Starting(drv[d], View(q))
  BY ZenonT(60), <1>1, <1>4 DEF Fits, Claimed, Unstaged, Resuming, Resumable
<1>6. Starting(drv[d], View(q)) => Looping(m, View(q))
  BY Zenon, <1>2 DEF Starting, Looping
<1>7. Fits(m, View(q))
  BY ZenonT(60), <1>2, <1>5, <1>6, FitsLoop
<1> QED
  BY ZenonT(60), <1>2, <1>3, <1>7, MoveUntouched

\* The loop of a resumed run starts with the entries of its checkpoint.
LEMMA LoadEntriesMoves ==
  ASSUME TLInv, IInv', DriveInv, NEW d \in Drivers, drv[d].pc = "load", UNCHANGED storeVars,
         promotedRevision(drv[d].run) # 0,
         become(d, [drv[d] EXCEPT !.pc = "loop", !.loaded = TRUE,
                                  !.buf = @ \cup envelope(drv[d].run).rest])
  PROVE  Moves(d)
<1>1. PICK q \in Runs : q = drv[d].run /\ drv[d] \in Drives /\ Fits(drv[d], View(q)) /\ RunFine(View(q))
  BY Zenon, AtHand
<1> DEFINE m == [drv[d] EXCEPT !.pc = "loop", !.loaded = TRUE,
                              !.buf = @ \cup envelope(drv[d].run).rest]
<1>2. /\ m.pc = "loop" /\ m.run = q /\ m.tok = drv[d].tok
      /\ m.staged = drv[d].staged /\ m.first = drv[d].first
  BY Zenon, <1>1 DEF Drives
<1>3. become(d, m)
  BY Zenon
<1> HIDE DEF m
<1>4. View(q).promoted # 0
  BY Zenon, <1>1, ViewFields
<1>5. /\ drv[d].staged = 0
      /\ View(q).token = drv[d].tok /\ View(q).status \in Writable => Resuming(drv[d], View(q))
  BY ZenonT(60), <1>1, <1>4 DEF Fits, Claimed, Unstaged, Starting
<1>6. Resuming(drv[d], View(q)) => Looping(m, View(q))
  BY Zenon, <1>2 DEF Resuming, Resumable, Looping
<1>7. Fits(m, View(q))
  BY ZenonT(60), <1>2, <1>5, <1>6, FitsLoop
<1> QED
  BY ZenonT(60), <1>2, <1>3, <1>7, MoveUntouched

\* GenResume takes over the newest interrupted turn, which is the current one.
LEMMA LoadRunnerMoves ==
  ASSUME TLInv, IInv', DriveInv, NEW d \in Drivers, drv[d].pc = "load", UNCHANGED storeVars,
         promotedRevision(drv[d].run) # 0, envelope(drv[d].run).runner,
         NEW t, t = newest(turnsOf(drv[d].run, {"interrupted"})), NEW n,
         become(d, [drv[d] EXCEPT !.pc = "turn", !.loaded = TRUE, !.cur = t, !.ord = n,
                                  !.buf = @ \cup envelope(drv[d].run).rest,
                                  !.batch = envelope(drv[d].run).inflight])
  PROVE  Moves(d)
<1>1. PICK q \in Runs : q = drv[d].run /\ drv[d] \in Drives /\ Fits(drv[d], View(q)) /\ RunFine(View(q))
  BY Zenon, AtHand
<1> DEFINE m == [drv[d] EXCEPT !.pc = "turn", !.loaded = TRUE, !.cur = t, !.ord = n,
                              !.buf = @ \cup envelope(drv[d].run).rest,
                              !.batch = envelope(drv[d].run).inflight]
<1>2. /\ m.pc = "turn" /\ m.run = q /\ m.tok = drv[d].tok /\ m.cur = t
      /\ m.staged = drv[d].staged /\ m.first = drv[d].first
      /\ m.buf = drv[d].buf \cup envelope(drv[d].run).rest
  BY Zenon, <1>1 DEF Drives
<1>3. become(d, m)
  BY Zenon
<1> HIDE DEF m
<1>4. /\ View(q).promoted = promotedRevision(q) /\ View(q).blobs = ckptBlob[q]
      /\ View(q).rows = ckptState[q]
  BY Zenon, ViewFields
<1>5. View(q).promoted # 0 /\ View(q).blobs[View(q).promoted] = envelope(q) /\ envelope(q).runner
  BY ZenonT(60), <1>1, <1>4 DEF envelope
<1>6. /\ drv[d].staged = 0
      /\ View(q).token = drv[d].tok /\ View(q).status \in Writable => Resuming(drv[d], View(q))
  BY ZenonT(60), <1>1, <1>5 DEF Fits, Claimed, Unstaged, Starting
<1>7. Reconciled \notin envelope(q).rest
  <2>1. promotedRevision(q) \in Revisions /\ ckptState[q][promotedRevision(q)] = "promoted"
    BY ZenonT(60), <1>4, <1>5, PromotedRevisionIsPromoted DEF TLInv, DriverInv
  <2>2. NoSentinel(View(q))
    BY Zenon, <1>1 DEF RunFine
  <2> QED
    BY ZenonT(60), <1>4, <1>5, <2>1, <2>2 DEF NoSentinel
<1>8. ASSUME Resuming(drv[d], View(q)) PROVE m.cur = View(q).turn /\ ~m.first /\ Reconciled \notin m.buf
  <2>1. View(q).at = "interrupted" /\ ~drv[d].first
        /\ (Reconciled \in drv[d].buf => ~View(q).blobs[View(q).promoted].runner)
    BY Zenon, <1>8 DEF Resuming, Resumable
  <2>2. newest(turnsOf(q, {"interrupted"})) = View(q).turn
    BY Zenon, <2>1, InterruptedView DEF TLInv
  <2>3. m.cur = View(q).turn /\ ~m.first
    BY ZenonT(60), <1>1, <1>2, <2>1, <2>2
  <2>4. Reconciled \notin drv[d].buf
    BY Zenon, <1>5, <2>1
  <2> QED
    BY ZenonT(60), <1>1, <1>2, <1>7, <2>3, <2>4
<1>9. Fits(m, View(q))
  BY ZenonT(60), <1>2, <1>6, <1>8, FitsTurn
<1> QED
  BY ZenonT(60), <1>2, <1>3, <1>9, MoveUntouched

\* Run loads the promoted checkpoint, if there is one.
LEMMA LoadCheckpointMoves ==
  ASSUME TLInv, IInv', DriveInv, NEW d \in Drivers, LoadCheckpoint(d)
  PROVE  Moves(d)
<1>1. drv[d].pc = "load" /\ UNCHANGED storeVars
  BY Zenon DEF LoadCheckpoint
<1>2. CASE promotedRevision(drv[d].run) = 0
  <2>1. become(d, [drv[d] EXCEPT !.pc = "loop"])
    BY Zenon, <1>2 DEF LoadCheckpoint
  <2> QED
    BY ZenonT(60), <1>1, <1>2, <2>1, LoadFreshMoves
<1>3. CASE promotedRevision(drv[d].run) # 0 /\ ~envelope(drv[d].run).runner
  <2>1. become(d, [drv[d] EXCEPT !.pc = "loop", !.loaded = TRUE,
                                 !.buf = @ \cup envelope(drv[d].run).rest])
    BY Zenon, <1>3 DEF LoadCheckpoint
  <2> QED
    BY ZenonT(60), <1>1, <1>3, <2>1, LoadEntriesMoves
<1>4. CASE promotedRevision(drv[d].run) # 0 /\ envelope(drv[d].run).runner
  <2>1. PICK t, n :
           /\ t = newest(turnsOf(drv[d].run, {"interrupted"}))
           /\ n = IF turnOrdinal[t] > drv[d].ord THEN turnOrdinal[t] ELSE drv[d].ord
    BY Zenon
  <2>2. become(d, [drv[d] EXCEPT !.pc = "turn", !.loaded = TRUE, !.cur = t, !.ord = n,
                                 !.buf = @ \cup envelope(drv[d].run).rest,
                                 !.batch = envelope(drv[d].run).inflight])
    BY Zenon, <1>4, <2>1 DEF LoadCheckpoint
  <2> QED
    BY ZenonT(60), <1>1, <1>4, <2>1, <2>2, LoadRunnerMoves
<1> QED
  BY ZenonT(60), <1>2, <1>3, <1>4

\* The loop takes the sentinel of the first turn.
LEMMA GenInputFirstMoves ==
  ASSUME TLInv, IInv', DriveInv, NEW d \in Drivers, GenInputFirst(d)
  PROVE  Moves(d)
<1>1. PICK q \in Runs : q = drv[d].run /\ drv[d] \in Drives /\ Fits(drv[d], View(q)) /\ RunFine(View(q))
  BY Zenon, AtHand DEF GenInputFirst
<1> DEFINE m == [drv[d] EXCEPT !.pc = "turn", !.first = FALSE,
                              !.batch = {First}, !.buf = @ \ {First}]
<1>2. /\ m.pc = "turn" /\ m.run = q /\ m.tok = drv[d].tok /\ m.cur = drv[d].cur
      /\ m.staged = drv[d].staged /\ m.first = FALSE /\ m.buf = drv[d].buf \ {First}
  BY Zenon, <1>1 DEF Drives
<1>3. become(d, m) /\ drv[d].pc = "loop" /\ drv[d].first /\ UNCHANGED storeVars
  BY Zenon DEF GenInputFirst
<1> HIDE DEF m
<1>4. /\ drv[d].staged = 0
      /\ View(q).token = drv[d].tok /\ View(q).status \in Writable => Looping(drv[d], View(q))
  BY Zenon, <1>1, <1>3 DEF Fits, Claimed, Unstaged
<1>5. Looping(drv[d], View(q)) => m.cur = View(q).turn /\ ~m.first /\ Reconciled \notin m.buf
  BY ZenonT(60), <1>2, <1>3 DEF Looping
<1>6. Fits(m, View(q))
  BY ZenonT(60), <1>2, <1>4, <1>5, FitsTurn
<1> QED
  BY ZenonT(60), <1>2, <1>3, <1>6, MoveUntouched

\* The view of a run that admits a turn.
LEMMA AdmittedView ==
  ASSUME IInv, IInv', NEW q \in Runs, NEW k, NEW t \in Turns, NEW n \in Ordinals, NEW ids,
         AdmitTurn(q, k, t, n, ids), turnState[t] = "none", RunFine(View(q))
  PROVE  /\ Only(q) /\ RunFine(View(q)')
         /\ View(q)'.turn = t
         /\ View(q)'.promoted = View(q).promoted
<1>0. TypeOK /\ RowOwned
  BY Zenon DEF IInv
<1>1. nextOrdinal(q, n)
  BY Zenon DEF AdmitTurn, createTurn
<1>2. /\ turnState' = [turnState EXCEPT ![t] = "admitted"]
      /\ turnRun' = [turnRun EXCEPT ![t] = q]
      /\ turnOrdinal' = [turnOrdinal EXCEPT ![t] = n]
  BY Zenon DEF AdmitTurn
<1>3. View(q)'.turn = t
  BY ZenonT(60), <1>1, <1>2, NewTurnIsCurrent
<1>4. Only(q) /\ SameRow(q) /\ SameCheckpoints(q)
  <2>1. turnRun[t] \in {None, q}
    BY Zenon, <1>0 DEF AdmitTurn, createTurn, RowOwned
  <2>2. ASSUME NEW r \in Runs, r # q PROVE SameTurns(r)
    BY ZenonT(60), <1>0, <1>2, <2>1, <2>2, NoneAssumption DEF TypeOK, SameTurns
  <2> QED
    BY Zenon, <2>2 DEF AdmitTurn, Only, SameRow, SameCheckpoints, runVars, ckptVars
<1>5. /\ View(q)'.status = View(q).status
      /\ View(q)'.promoted = View(q).promoted
      /\ View(q)'.rows = View(q).rows /\ View(q)'.blobs = View(q).blobs
  BY Zenon, <1>4, TurnMutationView
<1>6. View(q)'.status \in Writable
  BY Zenon, <1>5, FenceView DEF AdmitTurn
<1>7. NoSentinel(View(q)')
  BY Zenon, <1>5 DEF RunFine, NoSentinel
<1>8. RunFine(View(q)')
  BY ZenonT(60), <1>6, <1>7, FineWhileWritable
<1> QED
  BY ZenonT(60), <1>3, <1>4, <1>5, <1>8

\* The view of a run of which a turn changes its state.
LEMMA TurnStateView ==
  ASSUME IInv, NEW q \in Runs, NEW k, NEW t \in Turns, NEW at,
         CompleteTurn(q, k, t, at) \/ ReconcileInterruptedTurn(q, k, t, at)
            \/ ResumeInterruptedTurn(q, k, t),
         RunFine(View(q))
  PROVE  Only(q) /\ RunFine(View(q)') /\ View(q)'.token = View(q).token
<1>0. TypeOK /\ RowOwned
  BY Zenon DEF IInv
<1>1. Only(q) /\ SameRow(q) /\ SameCheckpoints(q)
  BY ZenonT(60), <1>0, TurnsWritten
<1>2. /\ View(q)'.status = View(q).status /\ View(q)'.token = View(q).token
      /\ View(q)'.rows = View(q).rows /\ View(q)'.blobs = View(q).blobs
  BY ZenonT(60), <1>1, TurnMutationView
<1>3. loadRunFence(q, k)
  BY Zenon DEF CompleteTurn, ReconcileInterruptedTurn, ResumeInterruptedTurn
<1>4. View(q)'.status \in Writable
  BY ZenonT(60), <1>2, <1>3, FenceView
<1>5. NoSentinel(View(q)')
  BY Zenon, <1>2 DEF RunFine, NoSentinel
<1> QED
  BY ZenonT(60), <1>1, <1>2, <1>4, <1>5, FineWhileWritable

\* A fresh turn identity has no row.
LEMMA NewTurnIsFree ==
  ASSUME TypeOK, canMintTurn
  PROVE  NewTurnID \in Turns /\ turnState[NewTurnID] = "none"
  BY Zenon DEF canMintTurn, NewTurnID

\* The loop takes the sentinel of a reconciled turn: the current one resumes.
LEMMA GenInputReconciledMoves ==
  ASSUME TLInv, IInv', DriveInv, NEW d \in Drivers, GenInputReconciled(d)
  PROVE  Moves(d)
<1>0. IInv
  BY Zenon DEF TLInv
<1>1. PICK q \in Runs : q = drv[d].run /\ drv[d] \in Drives /\ Fits(drv[d], View(q)) /\ RunFine(View(q))
  BY Zenon, AtHand DEF GenInputReconciled
<1>2. PICK t \in {newest(turnsOf(drv[d].run, {"interrupted"}))} \ {None} :
         /\ ResumeInterruptedTurn(drv[d].run, drv[d].tok, t)
         /\ become(d, [drv[d] EXCEPT !.pc = "turn", !.cur = t,
                                     !.ord = IF turnOrdinal[t] > @ THEN turnOrdinal[t] ELSE @,
                                     !.batch = {Reconciled}, !.buf = @ \ {Reconciled}])
  BY Zenon DEF GenInputReconciled
<1> DEFINE m == [drv[d] EXCEPT !.pc = "turn", !.cur = t,
                              !.ord = IF turnOrdinal[t] > @ THEN turnOrdinal[t] ELSE @,
                              !.batch = {Reconciled}, !.buf = @ \ {Reconciled}]
<1>3. /\ m.pc = "turn" /\ m.run = q /\ m.tok = drv[d].tok /\ m.cur = t
      /\ m.staged = drv[d].staged /\ m.first = drv[d].first /\ m.buf = drv[d].buf \ {Reconciled}
  BY Zenon, <1>1 DEF Drives
<1>4. become(d, m)
  BY Zenon, <1>2
<1> HIDE DEF m
<1>5. /\ drv[d].pc = "loop" /\ ~(drv[d].first /\ First \in drv[d].buf)
      /\ Reconciled \in drv[d].buf
  BY Zenon DEF GenInputReconciled
<1>6. ResumeInterruptedTurn(q, drv[d].tok, t)
  BY ZenonT(60), <1>1, <1>2
<1>7. View(q).token = drv[d].tok /\ View(q).status \in Writable
  BY ZenonT(60), <1>6, FenceView DEF ResumeInterruptedTurn
<1>8. drv[d].staged = 0 /\ Looping(drv[d], View(q))
  BY ZenonT(60), <1>1, <1>5, <1>7 DEF Fits, Claimed, Unstaged
<1>9. View(q).at = "interrupted" /\ ~drv[d].first
  BY ZenonT(60), <1>5, <1>8 DEF Looping
<1>10. t = View(q).turn /\ t # None
  BY ZenonT(60), <1>0, <1>1, <1>2, <1>9, InterruptedView
<1>11. t \in Turns
  <2>1. View(q).turn = currentTurn(q)
    BY Zenon, ViewFields
  <2> QED
    BY ZenonT(60), <1>0, <1>10, <2>1, CurrentExists DEF turnsOf
<1>12. Only(q) /\ RunFine(View(q)')
  BY Zenon, <1>0, <1>1, <1>6, <1>11, TurnStateView
<1>13. View(q)'.turn = View(q).turn
  <2>1. /\ turnState[t] \in OpenTurn /\ turnState' = [turnState EXCEPT ![t] = "running"]
        /\ UNCHANGED <<turnRun, turnOrdinal>> /\ "running" \in OpenTurn
    BY Zenon, <1>6 DEF ResumeInterruptedTurn, OpenTurn
  <2> QED
    BY ZenonT(60), <1>0, <1>11, <2>1, OpenTurnMoves
<1>14. m.cur = View(q)'.turn /\ ~m.first /\ Reconciled \notin m.buf
  BY ZenonT(60), <1>3, <1>9, <1>10, <1>13
<1>15. Fits(m, View(q)')
  BY ZenonT(60), <1>3, <1>8, <1>14, FitsTurn
<1>16. Alone(d, q)
  BY Zenon, <1>7 DEF Alone
<1> QED
  BY ZenonT(60), <1>1, <1>3, <1>4, <1>12, <1>15, <1>16, Moving

\* The loop admits the next turn.
LEMMA GenInputAdmitMoves ==
  ASSUME TLInv, IInv', DriveInv, NEW d \in Drivers, GenInputAdmit(d)
  PROVE  Moves(d)
<1>0. IInv /\ TypeOK
  BY Zenon DEF TLInv, IInv
<1>1. PICK q \in Runs : q = drv[d].run /\ drv[d] \in Drives /\ Fits(drv[d], View(q)) /\ RunFine(View(q))
  BY Zenon, AtHand DEF GenInputAdmit, plainInput
<1>2. PICK t, seen : t = NewTurnID /\ seen = drv[d].seen \cup claimItems(d)
  BY Zenon
<1> DEFINE m == [drv[d] EXCEPT !.pc = "turn", !.cur = t, !.ord = @ + 1, !.seen = seen,
                              !.batch = drv[d].buf, !.buf = {}]
<1>3. /\ m.pc = "turn" /\ m.run = q /\ m.tok = drv[d].tok /\ m.cur = t
      /\ m.staged = drv[d].staged /\ m.first = drv[d].first /\ m.buf = {}
  BY Zenon, <1>1 DEF Drives
<1>4. become(d, m)
  BY Zenon, <1>2 DEF GenInputAdmit
<1> HIDE DEF m
<1>5. /\ drv[d].pc = "loop" /\ ~(drv[d].first /\ First \in drv[d].buf)
      /\ canMintTurn /\ drv[d].ord + 1 \in Ordinals
  BY Zenon DEF GenInputAdmit, plainInput
<1>6. AdmitTurn(q, drv[d].tok, t, drv[d].ord + 1, loadInboxItems(d))
  BY ZenonT(60), <1>1, <1>2 DEF GenInputAdmit
<1>7. View(q).token = drv[d].tok /\ View(q).status \in Writable
  BY ZenonT(60), <1>6, FenceView DEF AdmitTurn
<1>8. drv[d].staged = 0 /\ Looping(drv[d], View(q))
  BY ZenonT(60), <1>1, <1>5, <1>7 DEF Fits, Claimed, Unstaged
<1>9. ~drv[d].first
  BY ZenonT(60), <1>5, <1>8 DEF Looping
<1>10. t \in Turns /\ turnState[t] = "none"
  BY ZenonT(60), <1>0, <1>2, <1>5, NewTurnIsFree
<1>11. Only(q) /\ RunFine(View(q)') /\ View(q)'.turn = t
  BY ZenonT(60), <1>0, <1>1, <1>5, <1>6, <1>10, AdmittedView
<1>12. m.cur = View(q)'.turn /\ ~m.first /\ Reconciled \notin m.buf
  BY ZenonT(60), <1>3, <1>9, <1>11
<1>13. Fits(m, View(q)')
  BY ZenonT(60), <1>3, <1>8, <1>12, FitsTurn
<1>14. Alone(d, q)
  BY Zenon, <1>7 DEF Alone
<1> QED
  BY ZenonT(60), <1>1, <1>3, <1>4, <1>11, <1>13, <1>14, Moving

\* The loop stops itself over a batch it has seen.
LEMMA GenInputDuplicateMoves ==
  ASSUME TLInv, IInv', DriveInv, NEW d \in Drivers, GenInputDuplicate(d)
  PROVE  Moves(d)
<1>1. PICK q \in Runs : q = drv[d].run /\ drv[d] \in Drives /\ Fits(drv[d], View(q))
  BY Zenon, AtHand DEF GenInputDuplicate, plainInput
<1>2. PICK seen : seen = drv[d].seen \cup claimItems(d)
  BY Zenon
<1> DEFINE m == [drv[d] EXCEPT !.pc = "stopping", !.seen = seen]
<1>3. m.pc = "stopping" /\ m.run = q /\ m.staged = drv[d].staged
  BY Zenon, <1>1 DEF Drives
<1>4. become(d, m) /\ drv[d].pc = "loop" /\ UNCHANGED storeVars
  BY ZenonT(60), <1>2 DEF GenInputDuplicate, plainInput
<1> HIDE DEF m
<1>5. drv[d].staged = 0
  BY ZenonT(60), <1>1, <1>4 DEF Fits, Unstaged
<1>6. Fits(m, View(q))
  BY ZenonT(60), <1>3, <1>5, FitsElsewhere
<1> QED
  BY ZenonT(60), <1>3, <1>4, <1>6, MoveUntouched

\* A turn completes, and the loop goes on.
LEMMA CompletesTurnMoves ==
  ASSUME TLInv, IInv', DriveInv, NEW d \in Drivers, CompletesTurn(d)
  PROVE  Moves(d)
<1>1. PICK q \in Runs : q = drv[d].run /\ drv[d] \in Drives /\ Fits(drv[d], View(q)) /\ RunFine(View(q))
  BY Zenon, AtHand DEF CompletesTurn
<1> DEFINE m == [drv[d] EXCEPT !.pc = "loop", !.batch = {}]
<1>2. /\ m.pc = "loop" /\ m.run = q /\ m.tok = drv[d].tok
      /\ m.staged = drv[d].staged /\ m.first = drv[d].first /\ m.buf = drv[d].buf
  BY Zenon, <1>1 DEF Drives
<1>3. become(d, m) /\ drv[d].pc = "turn" /\ CompleteTurn(q, drv[d].tok, drv[d].cur, someTime)
  BY Zenon, <1>1 DEF CompletesTurn
<1> HIDE DEF m
<1>4. drv[d].cur \in Turns
  BY Zenon, <1>3, DriverMemory DEF TLInv, DriverInv, Turnless
<1>5. View(q).token = drv[d].tok /\ View(q).status \in Writable
  BY Zenon, <1>3, FenceView DEF CompleteTurn
<1>6. drv[d].staged = 0 /\ ~drv[d].first /\ Reconciled \notin drv[d].buf
  BY ZenonT(60), <1>1, <1>3, <1>5 DEF Fits, Claimed, Unstaged
<1>7. Only(q) /\ RunFine(View(q)')
  BY ZenonT(60), <1>1, <1>3, <1>4, TurnStateView DEF TLInv
<1>8. Looping(m, View(q)')
  BY Zenon, <1>2, <1>6 DEF Looping
<1>9. Fits(m, View(q)')
  BY ZenonT(60), <1>2, <1>6, <1>8, FitsLoop
<1>10. Alone(d, q)
  BY Zenon, <1>5 DEF Alone
<1> QED
  BY ZenonT(60), <1>1, <1>2, <1>3, <1>7, <1>9, <1>10, Moving

\* What staging the revision v of q makes of the view.
Stages(q, v, b) ==
    /\ Only(q) /\ RunFine(View(q)')
    /\ View(q)'.turn = View(q).turn /\ View(q)'.at = View(q).at
    /\ View(q)'.promoted < v /\ View(q)'.promoted <= v
    /\ View(q)'.rows[v] # "none" /\ View(q)'.blobs[v] = b

\* A driver stages a revision for its turn.
LEMMA StagedView ==
  ASSUME IInv, IInv', NEW q \in Runs, RunFine(View(q)), NEW k, NEW v \in Revisions, NEW b,
         StageCheckpoint(q, k, v, b), View(q).promoted < v
  PROVE  Stages(q, v, b)
<1>0. TypeOK /\ NoSentinel(View(q))
  BY Zenon DEF IInv, RunFine
<1>1. /\ Only(q)
      /\ View(q)'.status = View(q).status /\ View(q)'.token = View(q).token
      /\ View(q)'.turn = View(q).turn /\ View(q)'.at = View(q).at
      /\ View(q)'.promoted = View(q).promoted
      /\ View(q)'.rows[v] = "staged" /\ View(q)'.blobs[v] = b
      /\ NoSentinel(View(q)')
  BY Zenon, <1>0, StageView
<1>2. View(q).status \in Writable
  BY Zenon, FenceView DEF StageCheckpoint
<1>3. View(q)'.status \in Writable
  BY Zenon, <1>1, <1>2
<1>4. RunFine(View(q)')
  BY Zenon, <1>1, <1>3, FineWhileWritable
<1>5. PICK p : p = View(q).promoted
  BY Zenon
<1>6. p \in Nat /\ v \in Nat
  <2>1. Revisions \cup {0} \subseteq Nat
    BY IdentityAssumption
  <2>2. p \in Revisions \cup {0}
    BY ZenonT(60), <1>0, <1>5, ViewFields, PromotedRevisionIsPromoted
  <2> QED
    BY Zenon, <2>1, <2>2
<1>7. p <= v
  <2>1. p < v
    BY Zenon, <1>5
  <2> QED
    BY <1>6, <2>1
<1>8. View(q)'.promoted < v /\ View(q)'.promoted <= v
  BY Zenon, <1>1, <1>5, <1>7
<1>9. View(q)'.rows[v] # "none"
  BY Zenon, <1>1
<1> QED
  BY ZenonT(60), <1>1, <1>4, <1>8, <1>9 DEF Stages

\* An interrupted turn, and the carrier of a pause, stage for the current turn.
LEMMA PausingMoves ==
  ASSUME TLInv, IInv', DriveInv, NEW d \in Drivers, InterruptStage(d) \/ CarrierStage(d)
  PROVE  Moves(d)
<1>1. PICK q \in Runs : q = drv[d].run /\ drv[d] \in Drives /\ Fits(drv[d], View(q))
  BY Zenon, AtHand DEF InterruptStage, CarrierStage
<1>2. PICK v : v = stagedRevision(d)
  BY Zenon
<1>3. CASE InterruptStage(d)
  <2> DEFINE m == [drv[d] EXCEPT !.pc = "pausing", !.staged = v]
             b == [turn |-> drv[d].cur, runner |-> TRUE, rest |-> drv[d].buf, inflight |-> drv[d].batch]
  <2>1. m.pc = "pausing" /\ m.run = q /\ m.tok = drv[d].tok /\ m.cur = drv[d].cur /\ m.staged = v
    BY Zenon, <1>1 DEF Drives
  <2>2. b.turn = drv[d].cur /\ b.rest = drv[d].buf
    BY Zenon
  <2>3. /\ become(d, m) /\ drv[d].pc = "turn" /\ v \in Revisions
        /\ StageCheckpoint(q, drv[d].tok, v, b)
    BY ZenonT(60), <1>1, <1>2, <1>3 DEF InterruptStage, stage
  <2> HIDE DEF m, b
  <2>4. View(q).token = drv[d].tok /\ View(q).status \in Writable
    BY Zenon, <2>3, FenceView DEF StageCheckpoint
  <2>5. drv[d].staged = 0 /\ drv[d].cur = View(q).turn /\ Reconciled \notin drv[d].buf
    BY ZenonT(60), <1>1, <2>3, <2>4 DEF Fits, Claimed, Unstaged
  <2>6. /\ Only(q) /\ RunFine(View(q)')
        /\ View(q)'.turn = View(q).turn
        /\ View(q)'.promoted < v
        /\ View(q)'.rows[v] # "none" /\ View(q)'.blobs[v] = b
    <3>1. IInv /\ DriverInv /\ RunFine(View(q))
      BY Zenon DEF TLInv, DriveInv
    <3>2. drv[d].run = q /\ (drv[d].staged = 0 \/ View(q).promoted <= drv[d].staged)
      BY ZenonT(60), <1>1, <2>5
    <3>3. View(q).promoted < stagedRevision(d)
      BY ZenonT(60), <3>1, <3>2, StagesAbove
    <3>4. View(q).promoted < v
      BY ZenonT(60), <1>2, <3>3
    <3> QED
      <4>1. Stages(q, v, b)
        BY ZenonT(60), <2>3, <3>1, <3>4, StagedView
      <4> QED
        BY Zenon, <4>1 DEF Stages
  <2>7. m.cur = View(q)'.turn /\ Staged(m, View(q)')
    BY ZenonT(60), <2>1, <2>2, <2>5, <2>6 DEF Staged
  <2>8. Fits(m, View(q)')
    BY ZenonT(60), <2>1, <2>7, FitsPausing
  <2>9. Alone(d, q)
    BY Zenon, <2>4 DEF Alone
  <2> QED
    BY ZenonT(60), <1>1, <2>1, <2>3, <2>6, <2>8, <2>9, Moving
<1>4. CASE CarrierStage(d)
  <2> DEFINE m == [drv[d] EXCEPT !.pc = "pausing", !.staged = v, !.batch = {}]
             b == [turn |-> drv[d].cur, runner |-> FALSE, rest |-> {}, inflight |-> {}]
  <2>1. m.pc = "pausing" /\ m.run = q /\ m.tok = drv[d].tok /\ m.cur = drv[d].cur /\ m.staged = v
    BY Zenon, <1>1 DEF Drives
  <2>2. b.turn = drv[d].cur /\ b.rest = {}
    BY Zenon
  <2>3. /\ become(d, m) /\ drv[d].pc = "carrierStage" /\ v \in Revisions
        /\ StageCheckpoint(q, drv[d].tok, v, b)
    BY ZenonT(60), <1>1, <1>2, <1>4 DEF CarrierStage, stage
  <2> HIDE DEF m, b
  <2>4. View(q).token = drv[d].tok /\ View(q).status \in Writable
    BY ZenonT(60), <2>3, FenceView DEF StageCheckpoint
  <2>5. (drv[d].staged = 0 \/ View(q).promoted <= drv[d].staged) /\ drv[d].cur = View(q).turn
    BY ZenonT(60), <1>1, <2>3, <2>4 DEF Fits, Claimed
  <2>6. /\ Only(q) /\ RunFine(View(q)')
        /\ View(q)'.turn = View(q).turn
        /\ View(q)'.promoted < v
        /\ View(q)'.rows[v] # "none" /\ View(q)'.blobs[v] = b
    <3>1. IInv /\ DriverInv /\ RunFine(View(q))
      BY Zenon DEF TLInv, DriveInv
    <3>2. drv[d].run = q /\ (drv[d].staged = 0 \/ View(q).promoted <= drv[d].staged)
      BY ZenonT(60), <1>1, <2>5
    <3>3. View(q).promoted < stagedRevision(d)
      BY Zenon, <3>1, <3>2, StagesAbove
    <3>4. View(q).promoted < v
      BY Zenon, <1>2, <3>3
    <3> QED
      <4>1. Stages(q, v, b)
        BY ZenonT(60), <2>3, <3>1, <3>4, StagedView
      <4> QED
        BY Zenon, <4>1 DEF Stages
  <2>7. m.cur = View(q)'.turn /\ Staged(m, View(q)')
    BY ZenonT(60), <2>1, <2>2, <2>5, <2>6 DEF Staged
  <2>8. Fits(m, View(q)')
    BY Zenon, <2>1, <2>7, FitsPausing
  <2>9. Alone(d, q)
    BY Zenon, <2>4 DEF Alone
  <2> QED
    BY ZenonT(60), <1>1, <2>1, <2>3, <2>6, <2>8, <2>9, Moving
<1> QED
  BY Zenon, <1>3, <1>4

\* The pause of the current turn leaves a run that can be resumed.
LEMMA PromotePausedMoves ==
  ASSUME TLInv, IInv', DriveInv, NEW d \in Drivers, PromotePaused(d)
  PROVE  Moves(d)
<1>0. IInv /\ TypeOK /\ RowOwned /\ DriverTypeOK
  BY Zenon DEF TLInv, IInv, DriverInv
<1>1. PICK q \in Runs : q = drv[d].run /\ drv[d] \in Drives /\ Fits(drv[d], View(q)) /\ RunFine(View(q))
  BY Zenon, AtHand DEF PromotePaused
<1>2. PICK v, t, ids, at : v = drv[d].staged /\ t = drv[d].cur /\ ids = interruptedItemIDs(d)
                              /\ at = now(drv[d].cur)
  BY Zenon
<1>3. PromotePause(q, drv[d].tok, v, t, ids, at) /\ park(d) /\ drv[d].pc = "pausing"
  BY ZenonT(60), <1>1, <1>2 DEF PromotePaused
<1>4. v \in Revisions /\ t \in Turns
  BY ZenonT(60), <1>0, <1>2, <1>3, DriverMemory DEF Turnless
<1>5. View(q).token = drv[d].tok /\ View(q).status \in Writable
  BY ZenonT(60), <1>3, FenceView DEF PromotePause
<1>6. t = View(q).turn /\ Staged(drv[d], View(q))
  BY ZenonT(60), <1>1, <1>2, <1>3, <1>5 DEF Fits, Claimed
<1>7. /\ View(q).promoted < v /\ View(q).blobs[v].turn = t
      /\ Reconciled \notin View(q).blobs[v].rest
  BY ZenonT(60), <1>2, <1>6 DEF Staged
<1>8. Only(q)
  BY ZenonT(60), <1>0, <1>3, <1>4, RunWritten
<1>9. /\ ckptState'[q][v] = "promoted" /\ ckptBlob' = ckptBlob
      /\ \A u \in Revisions : u # v => ckptState'[q][u] = ckptState[q][u]
  BY ZenonT(60), <1>0, <1>3, <1>4 DEF PromotePause, TypeOK
<1>10. /\ View(q)'.promoted = v /\ View(q)'.blobs = View(q).blobs /\ NoSentinel(View(q)')
  <2>1. NoSentinel(View(q))
    BY Zenon, <1>1 DEF RunFine
  <2> QED
    BY ZenonT(60), <1>0, <1>4, <1>7, <1>9, <2>1, PromoteView
<1>11. View(q)'.turn = t /\ View(q)'.at = "interrupted"
  <2>1. /\ turnState[t] \in OpenTurn /\ turnState' = [turnState EXCEPT ![t] = "interrupted"]
        /\ UNCHANGED <<turnRun, turnOrdinal>> /\ "interrupted" \in OpenTurn
    BY ZenonT(60), <1>3 DEF PromotePause, ApplyInterruptTurn, OpenTurn
  <2>2. /\ View(q)'.turn = View(q).turn /\ View(q).turn = currentTurn(q)
        /\ turnState'[t] = "interrupted"
        /\ View(q)'.at = IF currentTurn(q) = None THEN "none" ELSE turnState'[currentTurn(q)]
    BY ZenonT(60), <1>0, <1>4, <2>1, OpenTurnMoves
  <2>3. t # None
    BY ZenonT(60), <1>4, NoneAssumption
  <2> QED
    BY ZenonT(60), <1>6, <2>2, <2>3
<1>12. View(q)'.status = "paused"
  <2>1. runStatus'[q] = "paused"
    BY ZenonT(60), <1>0, <1>3 DEF PromotePause, TypeOK
  <2> QED
    BY ZenonT(60), <2>1, ViewFieldsNext
<1>13. v # 0
  BY ZenonT(60), <1>4, IdentityAssumption
<1>14. Resumable(View(q)')
  BY ZenonT(60), <1>7, <1>10, <1>11, <1>13 DEF Resumable
<1>15. RunFine(View(q)')
  BY ZenonT(60), <1>10, <1>12, <1>14 DEF RunFine
<1>16. Alone(d, q)
  BY Zenon, <1>5 DEF Alone
<1> QED
  BY ZenonT(60), <1>1, <1>3, <1>8, <1>15, <1>16, Parking

\* The calls that end without a write.
LEMMA EndingMoves ==
  ASSUME TLInv, IInv', DriveInv, NEW d \in Drivers,
         PromoteRefused(d) \/ StageRefused(d) \/ ClaimRefused(d) \/ FenceLost(d) \/ Crash(d)
  PROVE  Moves(d)
<1>1. park(d) /\ UNCHANGED storeVars
  BY Zenon DEF PromoteRefused, StageRefused, ClaimRefused, FenceLost, Crash
<1>2. drv[d].pc # "idle"
  <2>1. drv[d].tok # None => drv[d].pc # "idle"
    BY Zenon DEF TLInv, DriverInv, DriverTypeOK, wellFormed, Unclaimed
  <2> QED
    BY Zenon, <2>1 DEF PromoteRefused, StageRefused, ClaimRefused, FenceLost, Crash
<1> QED
  BY ZenonT(60), <1>1, <1>2, ParkUntouched

\* The calls that end by settling their run.
LEMMA SettlingMoves ==
  ASSUME TLInv, IInv', DriveInv, NEW d \in Drivers,
         FailDrive(d) \/ ResumeEngineRefused(d) \/ ReconcileSettle(d) \/ AbandonSettle(d)
  PROVE  Moves(d)
<1>1. park(d) /\ drv[d].pc # "idle"
  BY Zenon DEF FailDrive, ResumeEngineRefused, ReconcileSettle, AbandonSettle
<1>2. \E o \in TerminalRun : SettleRun(drv[d].run, drv[d].tok, o, someTime)
  BY Zenon DEF FailDrive, ResumeEngineRefused, ReconcileSettle, AbandonSettle, TerminalRun
<1> QED
  BY ZenonT(60), <1>1, <1>2, ParkSettled

\* A refused admission ends a carrier, and fails the run of a loop.
LEMMA AdmitRefusedMoves ==
  ASSUME TLInv, IInv', DriveInv, NEW d \in Drivers, AdmitRefused(d)
  PROVE  Moves(d)
<1>1. park(d) /\ drv[d].pc # "idle"
  BY Zenon DEF AdmitRefused, plainInput
<1>2. CASE drv[d].pc = "carrier"
  <2>1. UNCHANGED storeVars
    BY Zenon, <1>2 DEF AdmitRefused
  <2> QED
    BY ZenonT(60), <1>1, <2>1, ParkUntouched
<1>3. CASE drv[d].pc # "carrier"
  <2>1. SettleRun(drv[d].run, drv[d].tok, "failed", someTime) /\ "failed" \in TerminalRun
    BY Zenon, <1>3 DEF AdmitRefused, TerminalRun
  <2> QED
    BY ZenonT(60), <1>1, <2>1, ParkSettled
<1> QED
  BY Zenon, <1>2, <1>3

\* A Stop between two turns stages the entries that are left.
LEMMA StopBetweenMoves ==
  ASSUME TLInv, IInv', DriveInv, NEW d \in Drivers, StopBetween(d)
  PROVE  Moves(d)
<1>1. PICK q \in Runs : q = drv[d].run /\ drv[d] \in Drives /\ Fits(drv[d], View(q))
  BY Zenon, AtHand DEF StopBetween
<1>2. PICK v, b : /\ v = stagedRevision(d)
                  /\ b = [turn |-> drv[d].cur, runner |-> FALSE, rest |-> drv[d].buf, inflight |-> {}]
  BY Zenon
<1> DEFINE m == [drv[d] EXCEPT !.pc = "unhandled", !.staged = v]
<1>3. m.pc = "unhandled" /\ m.run = q /\ m.staged = v
  BY ZenonT(60), <1>1 DEF Drives
<1>4. /\ become(d, m) /\ (drv[d].pc = "loop" \/ drv[d].pc = "stopping") /\ v \in Revisions
      /\ StageCheckpoint(q, drv[d].tok, v, b)
  BY ZenonT(60), <1>1, <1>2 DEF StopBetween, stage
<1> HIDE DEF m
<1>5. drv[d].staged = 0
  BY ZenonT(60), <1>1, <1>4 DEF Fits, Unstaged
<1>6. IInv /\ DriverInv /\ RunFine(View(q))
  BY Zenon DEF TLInv, DriveInv
<1>7. View(q).promoted < v
  <2>1. drv[d].run = q /\ (drv[d].staged = 0 \/ View(q).promoted <= drv[d].staged)
    BY ZenonT(60), <1>1, <1>5
  <2>2. View(q).promoted < stagedRevision(d)
    BY ZenonT(60), <1>6, <2>1, StagesAbove
  <2> QED
    BY ZenonT(60), <1>2, <2>2
<1>8. Stages(q, v, b)
  BY ZenonT(60), <1>4, <1>6, <1>7, StagedView
<1>9. Only(q) /\ RunFine(View(q)') /\ View(q)'.promoted <= v
  BY Zenon, <1>8 DEF Stages
<1>10. Fits(m, View(q)')
  <2>1. (m.staged = 0 \/ View(q)'.promoted <= m.staged) /\ m.pc # "carrierStage"
    BY ZenonT(60), <1>3, <1>9
  <2> QED
    BY ZenonT(60), <1>3, <2>1, FitsExit
<1>11. Alone(d, q)
  BY Zenon, <1>4, FenceView DEF Alone, StageCheckpoint
<1> QED
  BY ZenonT(60), <1>1, <1>3, <1>4, <1>9, <1>10, <1>11, Moving

\* A run whose checkpoints its driver retires up to the promoted one.
LEMMA RetiredView ==
  ASSUME IInv, IInv', NEW q \in Runs, NEW k, NEW v \in Revisions, v = View(q).promoted,
         RetireCheckpoints(q, k, v), RunFine(View(q))
  PROVE  Only(q) /\ RunFine(View(q)') /\ View(q)'.promoted = 0
<1>0. TypeOK /\ NoSentinel(View(q))
  BY Zenon DEF IInv, RunFine
<1>1. Only(q)
  BY ZenonT(60), <1>0, CheckpointsWritten
<1>2. NoSentinel(View(q)') /\ View(q)'.promoted = 0
  BY Zenon, <1>0, RetireView DEF RetireCheckpoints
<1>3. View(q)'.status \in Writable
  <2>1. SameRow(q)
    BY Zenon DEF RetireCheckpoints, runVars, SameRow
  <2>2. View(q).status \in Writable
    BY Zenon, FenceView DEF RetireCheckpoints
  <2> QED
    BY ZenonT(60), <2>1, <2>2, RowKept
<1> QED
  BY ZenonT(60), <1>1, <1>2, <1>3, FineWhileWritable

\* An idle loop stops, and drops the checkpoint it was resumed from.
LEMMA IdleStopMoves ==
  ASSUME TLInv, IInv', DriveInv, NEW d \in Drivers, IdleStop(d)
  PROVE  Moves(d)
<1>1. PICK q \in Runs : q = drv[d].run /\ drv[d] \in Drives /\ Fits(drv[d], View(q)) /\ RunFine(View(q))
  BY Zenon, AtHand DEF IdleStop
<1>2. drv[d].pc = "loop" /\ drv[d].staged = 0
  BY Zenon, <1>1 DEF IdleStop, Fits, Unstaged
<1>3. PICK p : p = promotedRevision(drv[d].run)
  BY Zenon
<1>4. p \in Revisions \cup {0} /\ View(q).promoted = p
  BY ZenonT(60), <1>1, <1>3, PromotedRevisionIsPromoted, ViewFields DEF TLInv, IInv
<1>5. (IF drv[d].staged > 0 THEN drv[d].staged ELSE promotedRevision(drv[d].run)) = p
  BY <1>2, <1>3
<1>6. \/ p > 0 /\ RetireCheckpoints(q, drv[d].tok, p)
         /\ become(d, [drv[d] EXCEPT !.pc = "late", !.staged = p])
      \/ UNCHANGED storeVars /\ become(d, [drv[d] EXCEPT !.pc = "late"])
  BY ZenonT(60), <1>1, <1>5 DEF IdleStop
<1>7. ASSUME p > 0, RetireCheckpoints(q, drv[d].tok, p),
             become(d, [drv[d] EXCEPT !.pc = "late", !.staged = p])
      PROVE  Moves(d)
  <2> DEFINE m == [drv[d] EXCEPT !.pc = "late", !.staged = p]
  <2>1. m.pc = "late" /\ m.run = q /\ m.staged = p
    BY Zenon, <1>1 DEF Drives
  <2>2. become(d, m)
    BY Zenon, <1>7
  <2> HIDE DEF m
  <2>3. p \in Revisions
    <3>1. p # 0
      BY <1>7
    <3> QED
      BY ZenonT(60), <1>4, <3>1
  <2>4. Only(q) /\ RunFine(View(q)') /\ View(q)'.promoted = 0
    BY ZenonT(60), <1>1, <1>4, <1>7, <2>3, RetiredView DEF TLInv
  <2>5. 0 <= p
    BY <2>3, IdentityAssumption
  <2>6. (m.staged = 0 \/ View(q)'.promoted <= m.staged) /\ m.pc # "carrierStage"
    BY ZenonT(60), <2>1, <2>4, <2>5
  <2>7. Fits(m, View(q)')
    BY ZenonT(60), <2>1, <2>6, FitsExit
  <2>8. Alone(d, q)
    BY ZenonT(60), <1>7, FenceView DEF Alone, RetireCheckpoints
  <2> QED
    BY ZenonT(60), <1>1, <2>1, <2>2, <2>4, <2>7, <2>8, Moving
<1>8. ASSUME UNCHANGED storeVars, become(d, [drv[d] EXCEPT !.pc = "late"])
      PROVE  Moves(d)
  <2> DEFINE m == [drv[d] EXCEPT !.pc = "late"]
  <2>1. m.pc = "late" /\ m.run = q /\ m.staged = 0
    BY ZenonT(60), <1>1, <1>2 DEF Drives
  <2>2. become(d, m)
    BY Zenon, <1>8
  <2> HIDE DEF m
  <2>3. Fits(m, View(q))
    BY ZenonT(60), <2>1, FitsExit
  <2> QED
    BY ZenonT(60), <1>8, <2>1, <2>2, <2>3, MoveUntouched
<1> QED
  BY ZenonT(60), <1>6, <1>7, <1>8

\* What is left in the buffer decides how the drive ends.
LEMMA QueuedAmongMoves ==
  ASSUME TLInv, IInv', DriveInv, NEW d \in Drivers, QueuedAmong(d)
  PROVE  Moves(d)
<1>1. PICK q \in Runs : q = drv[d].run /\ drv[d] \in Drives /\ Fits(drv[d], View(q))
  BY Zenon, AtHand DEF QueuedAmong
<1>2. PICK pc : /\ pc = "carrier" \/ pc = "clean"
                /\ become(d, [drv[d] EXCEPT !.pc = pc])
  BY Zenon DEF QueuedAmong
<1> DEFINE m == [drv[d] EXCEPT !.pc = pc]
<1>3. m.pc = pc /\ m.run = q /\ m.tok = drv[d].tok /\ m.staged = drv[d].staged
  BY Zenon, <1>1 DEF Drives
<1>4. become(d, m) /\ UNCHANGED storeVars /\ drv[d].pc \in {"unhandled", "late"}
  BY Zenon, <1>2 DEF QueuedAmong
<1> HIDE DEF m
<1>5. View(q).token = drv[d].tok /\ View(q).status \in Writable =>
         drv[d].staged = 0 \/ View(q).promoted <= drv[d].staged
  BY ZenonT(60), <1>1, <1>4 DEF Fits, Claimed
<1>6. View(q).token = m.tok /\ View(q).status \in Writable =>
         (m.staged = 0 \/ View(q).promoted <= m.staged) /\ m.pc # "carrierStage"
  BY ZenonT(60), <1>2, <1>3, <1>5
<1>7. Fits(m, View(q))
  BY ZenonT(60), <1>2, <1>3, <1>6, FitsExit
<1> QED
  BY ZenonT(60), <1>3, <1>4, <1>7, MoveUntouched

\* A drive that ends cleanly settles its run, or is asked for one more turn.
LEMMA SettleCleanMoves ==
  ASSUME TLInv, IInv', DriveInv, NEW d \in Drivers, SettleClean(d)
  PROVE  Moves(d)
<1>1. PICK q \in Runs : q = drv[d].run /\ drv[d] \in Drives /\ Fits(drv[d], View(q)) /\ RunFine(View(q))
  BY Zenon, AtHand DEF SettleClean
<1>2. drv[d].pc = "clean"
  BY Zenon DEF SettleClean
<1>3. CASE SettleRun(drv[d].run, drv[d].tok, "completed", someTime)
           /\ become(d, IF drv[d].staged > 0 THEN [drv[d] EXCEPT !.pc = "retire"] ELSE Parked)
  <2>1. SettleRun(q, drv[d].tok, "completed", someTime) /\ "completed" \in TerminalRun
    BY ZenonT(60), <1>1, <1>3 DEF TerminalRun
  <2>2. Only(q) /\ RunFine(View(q)') /\ View(q)'.status \in TerminalRun
    BY ZenonT(60), <1>1, <2>1, SettledView DEF TLInv, RunFine
  <2>5. Alone(d, q)
    BY Zenon, <2>2 DEF Alone, TerminalRun, Writable
  <2>3. CASE drv[d].staged > 0
    <3> DEFINE m == [drv[d] EXCEPT !.pc = "retire"]
    <3>1. m.pc = "retire" /\ m.run = q
      BY Zenon, <1>1 DEF Drives
    <3>2. become(d, m)
      BY ZenonT(60), <1>3, <2>3
    <3> HIDE DEF m
    <3>3. Fits(m, View(q)')
      BY ZenonT(60), <3>1, FitsElsewhere
    <3> QED
      BY ZenonT(60), <1>1, <2>2, <2>5, <3>1, <3>2, <3>3, Moving
  <2>4. CASE ~(drv[d].staged > 0)
    <3>1. park(d)
      BY Zenon, <1>3, <2>4 DEF park
    <3> QED
      BY ZenonT(60), <1>1, <2>2, <2>5, <3>1, Parking
  <2> QED
    BY ZenonT(60), <2>3, <2>4
<1>4. CASE become(d, [drv[d] EXCEPT !.pc = "carrier"]) /\ UNCHANGED storeVars
  <2> DEFINE m == [drv[d] EXCEPT !.pc = "carrier"]
  <2>1. m.pc = "carrier" /\ m.run = q /\ m.tok = drv[d].tok /\ m.staged = drv[d].staged
    BY Zenon, <1>1 DEF Drives
  <2>2. become(d, m)
    BY ZenonT(60), <1>4
  <2> HIDE DEF m
  <2>3. View(q).token = drv[d].tok /\ View(q).status \in Writable =>
           drv[d].staged = 0 \/ View(q).promoted <= drv[d].staged
    BY ZenonT(60), <1>1, <1>2 DEF Fits, Claimed
  <2>4. View(q).token = m.tok /\ View(q).status \in Writable =>
           (m.staged = 0 \/ View(q).promoted <= m.staged) /\ m.pc # "carrierStage"
    BY ZenonT(60), <2>1, <2>3
  <2>5. Fits(m, View(q))
    BY ZenonT(60), <2>1, <2>4, FitsExit
  <2> QED
    BY ZenonT(60), <1>4, <2>1, <2>2, <2>5, MoveUntouched
<1> QED
  BY ZenonT(60), <1>3, <1>4 DEF SettleClean

\* The checkpoints of a completed run go.
LEMMA RetireCompletedMoves ==
  ASSUME TLInv, IInv', DriveInv, NEW d \in Drivers, RetireCompleted(d)
  PROVE  Moves(d)
<1>0. IInv /\ TypeOK /\ DriverTypeOK
  BY Zenon DEF TLInv, IInv, DriverInv
<1>1. PICK q \in Runs : q = drv[d].run /\ drv[d] \in Drives /\ RunFine(View(q))
  BY Zenon, AtHand DEF RetireCompleted
<1>2. PICK v : v = drv[d].staged
  BY Zenon
<1>3. RetireRunCheckpoints(q, v) /\ park(d)
  BY ZenonT(60), <1>1, <1>2 DEF RetireCompleted
<1>4. v \in Revisions
  BY ZenonT(60), <1>0, <1>2, DriverMemory DEF RetireCompleted
<1>5. Only(q)
  BY ZenonT(60), <1>0, <1>3, CheckpointsWritten
<1>6. NoSentinel(View(q)')
  <2>1. NoSentinel(View(q)) /\ deleteCheckpointsUpTo(q, v)
    BY ZenonT(60), <1>1, <1>3 DEF RunFine, RetireRunCheckpoints
  <2> QED
    BY ZenonT(60), <1>0, <1>4, <2>1, RetireView
<1>7. View(q)'.status \in TerminalRun
  <2>1. SameRow(q) /\ runStatus[q] \in TerminalRun
    BY Zenon, <1>3 DEF RetireRunCheckpoints, runVars, SameRow
  <2>2. runStatus'[q] \in TerminalRun
    BY Zenon, <2>1 DEF SameRow
  <2> QED
    BY ZenonT(60), <2>2, ViewFieldsNext
<1>8. RunFine(View(q)')
  BY ZenonT(60), <1>6, <1>7 DEF RunFine, TerminalRun
<1>9. Alone(d, q)
  BY Zenon, <1>7 DEF Alone, TerminalRun, Writable
<1> QED
  BY ZenonT(60), <1>1, <1>3, <1>5, <1>8, <1>9, Parking

\* A turn without content is admitted to carry a pause.
LEMMA CarrierAdmitMoves ==
  ASSUME TLInv, IInv', DriveInv, NEW d \in Drivers, CarrierAdmit(d)
  PROVE  Moves(d)
<1>0. IInv /\ TypeOK
  BY Zenon DEF TLInv, IInv
<1>1. PICK q \in Runs : q = drv[d].run /\ drv[d] \in Drives /\ Fits(drv[d], View(q)) /\ RunFine(View(q))
  BY Zenon, AtHand DEF CarrierAdmit
<1>2. PICK t : t = NewTurnID
  BY Zenon
<1> DEFINE m == [drv[d] EXCEPT !.pc = "carrierStage", !.cur = t, !.ord = @ + 1]
<1>3. m.pc = "carrierStage" /\ m.run = q /\ m.cur = t /\ m.staged = drv[d].staged
  BY Zenon, <1>1 DEF Drives
<1>4. become(d, m)
  BY Zenon, <1>2 DEF CarrierAdmit
<1> HIDE DEF m
<1>5. /\ drv[d].pc = "carrier" /\ canMintTurn /\ drv[d].ord + 1 \in Ordinals
      /\ AdmitTurn(q, drv[d].tok, t, drv[d].ord + 1, {})
  BY ZenonT(60), <1>1, <1>2 DEF CarrierAdmit
<1>6. View(q).token = drv[d].tok /\ View(q).status \in Writable
  BY ZenonT(60), <1>5, FenceView DEF AdmitTurn
<1>7. drv[d].staged = 0 \/ View(q).promoted <= drv[d].staged
  BY ZenonT(60), <1>1, <1>5, <1>6 DEF Fits, Claimed
<1>8. t \in Turns /\ turnState[t] = "none"
  BY ZenonT(60), <1>0, <1>2, <1>5, NewTurnIsFree
<1>9. /\ Only(q) /\ RunFine(View(q)')
      /\ View(q)'.turn = t
      /\ View(q)'.promoted = View(q).promoted
  BY ZenonT(60), <1>0, <1>1, <1>5, <1>8, AdmittedView
<1>10. (m.staged = 0 \/ View(q)'.promoted <= m.staged) /\ m.cur = View(q)'.turn
  BY ZenonT(60), <1>3, <1>7, <1>9
<1>11. Fits(m, View(q)')
  BY ZenonT(60), <1>3, <1>10, FitsExit
<1>12. Alone(d, q)
  BY Zenon, <1>6 DEF Alone
<1> QED
  BY ZenonT(60), <1>1, <1>3, <1>4, <1>9, <1>11, <1>12, Moving

\* Crash reconciliation and Stop with Abandon read the run they are called for.
LEMMA CallMoves ==
  ASSUME TLInv, IInv', DriveInv, NEW d \in Drivers, NEW q \in Runs,
         ReclaimRead(d, q) \/ AbandonRead(d, q)
  PROVE  Moves(d)
<1>1. PICK pc : /\ pc = "reclaim" \/ pc = "abandon"
                /\ become(d, [Parked EXCEPT !.pc = pc, !.run = q])
  BY Zenon DEF ReclaimRead, AbandonRead
<1> DEFINE m == [Parked EXCEPT !.pc = pc, !.run = q]
<1>2. m.pc = pc /\ m.run = q /\ m.staged = 0
  BY Zenon DEF Parked
<1>3. become(d, m) /\ UNCHANGED storeVars
  BY Zenon, <1>1 DEF ReclaimRead, AbandonRead
<1> HIDE DEF m
<1>4. Fits(m, View(q))
  BY ZenonT(60), <1>1, <1>2, FitsElsewhere
<1> QED
  BY ZenonT(60), <1>2, <1>3, <1>4, MoveUntouched

\* Both claim the run.
LEMMA ClaimMoves ==
  ASSUME TLInv, IInv', DriveInv, NEW d \in Drivers, Reclaim(d) \/ AbandonClaim(d)
  PROVE  Moves(d)
<1>1. PICK q \in Runs : q = drv[d].run /\ drv[d] \in Drives /\ Fits(drv[d], View(q)) /\ RunFine(View(q))
  BY Zenon, AtHand DEF Reclaim, AbandonClaim
<1>2. PICK k : k = NewClaimToken
  BY Zenon
<1>3. PICK pc : /\ (pc = "reconcile" /\ drv[d].pc = "reclaim") \/ pc = "abandoning"
                /\ become(d, [drv[d] EXCEPT !.pc = pc, !.tok = k])
  BY Zenon, <1>2 DEF Reclaim, AbandonClaim
<1> DEFINE m == [drv[d] EXCEPT !.pc = pc, !.tok = k]
<1>4. m.pc = pc /\ m.run = q /\ m.staged = drv[d].staged
  BY Zenon, <1>1 DEF Drives
<1>5. become(d, m)
  BY Zenon, <1>3
<1> HIDE DEF m
<1>6. (pc = "reconcile" /\ drv[d].staged = 0) \/ pc = "abandoning"
  BY ZenonT(60), <1>1, <1>3 DEF Fits, Unstaged
<1>7. Fits(m, View(q)')
  BY ZenonT(60), <1>4, <1>6, FitsElsewhere
<1>8. ClaimRun(q, k)
  BY ZenonT(60), <1>1, <1>2 DEF Reclaim, AbandonClaim
<1>9. Only(q) /\ RunFine(View(q)')
  BY ZenonT(60), <1>1, <1>8, RowView DEF TLInv, RunFine
<1>10. Alone(d, q)
  BY ZenonT(60), <1>8, ClaimsAlone DEF TLInv, IInv
<1> QED
  BY ZenonT(60), <1>1, <1>4, <1>5, <1>7, <1>9, <1>10, Moving

\* Crash reconciliation interrupts the turn that the crash left at work.
LEMMA ReconcileTurnMoves ==
  ASSUME TLInv, IInv', DriveInv, NEW d \in Drivers, ReconcileTurn(d)
  PROVE  Moves(d)
<1>0. IInv /\ TypeOK
  BY Zenon DEF TLInv, IInv
<1>1. PICK q \in Runs : q = drv[d].run /\ drv[d] \in Drives /\ Fits(drv[d], View(q)) /\ RunFine(View(q))
  BY Zenon, AtHand DEF ReconcileTurn
<1> DEFINE m == [drv[d] EXCEPT !.pc = "reconciled"]
<1>2. m.pc = "reconciled" /\ m.run = q /\ m.staged = drv[d].staged
  BY Zenon, <1>1 DEF Drives
<1>3. become(d, m) /\ drv[d].pc = "reconcile"
  BY Zenon DEF ReconcileTurn
<1> HIDE DEF m
<1>4. drv[d].staged = 0
  BY ZenonT(60), <1>1, <1>3 DEF Fits, Unstaged
<1>5. PICK t, at : t = newest(turnsOf(q, {"admitted", "running"})) /\ at = now(t)
  BY Zenon
<1>6. IF t = None THEN UNCHANGED storeVars ELSE ReconcileInterruptedTurn(q, drv[d].tok, t, at)
  BY ZenonT(60), <1>1, <1>5 DEF ReconcileTurn
<1>7. PICK c : c = currentTurn(q)
  BY Zenon
<1>8. c # None => c \in Turns /\ turnState[c] \in OpenTurn
  <2>1. c # None => c \in turnsOf(q, OpenTurn)
    BY ZenonT(60), <1>0, <1>7, CurrentExists
  <2> QED
    BY ZenonT(60), <2>1 DEF turnsOf
<1>9. c # None /\ turnState[c] # "interrupted" => t = c
  <2>1. ASSUME c # None, turnState[c] # "interrupted" PROVE t = c
    <3>1. {"admitted", "running"} \in SUBSET OpenTurn
      BY Zenon DEF OpenTurn
    <3>2. turnState[c] \in {"admitted", "running"}
      BY ZenonT(60), <1>8, <2>1 DEF OpenTurn
    <3>3. currentTurn(q) # None /\ turnState[currentTurn(q)] \in {"admitted", "running"}
      BY ZenonT(60), <1>7, <2>1, <3>2
    <3>4. newest(turnsOf(q, {"admitted", "running"})) = currentTurn(q)
      BY ZenonT(60), <1>0, <3>1, <3>3, NewestIsCurrent
    <3> QED
      BY ZenonT(60), <1>5, <1>7, <3>4
  <2> QED
    BY ZenonT(60), <2>1
<1>10. ASSUME t = None PROVE Moves(d)
  <2>1. UNCHANGED storeVars
    BY ZenonT(60), <1>6, <1>10
  <2>2. c = None \/ turnState[c] = "interrupted"
    BY ZenonT(60), <1>9, <1>10
  <2>3. /\ View(q).turn = c
        /\ View(q).at = IF c = None THEN "none" ELSE turnState[c]
    BY ZenonT(60), <1>7, ViewFields
  <2>4. View(q).turn = None \/ View(q).at = "interrupted"
    BY ZenonT(60), <2>2, <2>3
  <2>5. Fits(m, View(q))
    BY ZenonT(60), <1>2, <1>4, <2>4, FitsReconciled
  <2> QED
    BY ZenonT(60), <1>2, <1>3, <2>1, <2>5, MoveUntouched
<1>11. ASSUME t # None PROVE Moves(d)
  <2>1. ReconcileInterruptedTurn(q, drv[d].tok, t, at)
    BY ZenonT(60), <1>6, <1>11
  <2>2. t \in Turns
    BY ZenonT(60), <1>0, <1>5, <1>11, NewestOfRun
  <2>3. Only(q) /\ RunFine(View(q)')
    BY ZenonT(60), <1>0, <1>1, <2>1, <2>2, TurnStateView
  <2>4. /\ turnState[t] \in OpenTurn /\ turnState' = [turnState EXCEPT ![t] = "interrupted"]
        /\ UNCHANGED <<turnRun, turnOrdinal>> /\ "interrupted" \in OpenTurn
    BY ZenonT(60), <2>1 DEF ReconcileInterruptedTurn, ApplyInterruptTurn, OpenTurn
  <2>5. /\ View(q)'.turn = View(q).turn /\ View(q).turn = currentTurn(q)
        /\ turnState'[t] = "interrupted"
        /\ View(q)'.at = IF currentTurn(q) = None THEN "none" ELSE turnState'[currentTurn(q)]
    BY ZenonT(60), <1>0, <2>2, <2>4, OpenTurnMoves
  <2>6. c # None => turnState'[c] = "interrupted"
    <3>1. c # None /\ c # t => turnState'[c] = turnState[c]
      BY ZenonT(60), <1>0, <1>8, <2>4 DEF TypeOK
    <3> QED
      BY ZenonT(60), <1>9, <2>5, <3>1
  <2>7. View(q)'.turn = c /\ View(q)'.at = IF c = None THEN "none" ELSE turnState'[c]
    BY ZenonT(60), <1>7, <2>5
  <2>8. View(q)'.turn = None \/ View(q)'.at = "interrupted"
    BY ZenonT(60), <2>6, <2>7
  <2>9. Fits(m, View(q)')
    BY ZenonT(60), <1>2, <1>4, <2>8, FitsReconciled
  <2>10. Alone(d, q)
    BY ZenonT(60), <2>1, FenceView DEF Alone, ReconcileInterruptedTurn
  <2> QED
    BY ZenonT(60), <1>1, <1>2, <1>3, <2>3, <2>9, <2>10, Moving
<1> QED
  BY ZenonT(60), <1>10, <1>11

\* A carrier is admitted for a checkpoint without an open turn.
LEMMA ReconcileCarrierMoves ==
  ASSUME TLInv, IInv', DriveInv, NEW d \in Drivers, ReconcileCarrier(d)
  PROVE  Moves(d)
<1>0. IInv /\ TypeOK
  BY Zenon DEF TLInv, IInv
<1>1. PICK q \in Runs : q = drv[d].run /\ drv[d] \in Drives /\ Fits(drv[d], View(q)) /\ RunFine(View(q))
  BY ZenonT(60), AtHand DEF ReconcileCarrier
<1>2. PICK t, n : t = NewTurnID /\ n = maxOrdinal(drv[d].run) + 1
  BY Zenon
<1> DEFINE m == [drv[d] EXCEPT !.pc = "reconcile"]
<1>3. m.pc = "reconcile" /\ m.run = q /\ m.staged = drv[d].staged
  BY ZenonT(60), <1>1 DEF Drives
<1>4. /\ become(d, m) /\ drv[d].pc = "reconciled" /\ canMintTurn /\ n \in Ordinals
      /\ AdmitTurn(q, drv[d].tok, t, n, {})
  BY ZenonT(60), <1>1, <1>2 DEF ReconcileCarrier
<1> HIDE DEF m
<1>5. drv[d].staged = 0
  BY ZenonT(60), <1>1, <1>4 DEF Fits, Unstaged
<1>6. t \in Turns /\ turnState[t] = "none"
  BY ZenonT(60), <1>0, <1>2, <1>4, NewTurnIsFree
<1>7. Only(q) /\ RunFine(View(q)')
  BY ZenonT(60), <1>0, <1>1, <1>4, <1>6, AdmittedView
<1>8. Fits(m, View(q)')
  BY ZenonT(60), <1>3, <1>5, FitsElsewhere
<1>9. Alone(d, q)
  BY ZenonT(60), <1>4, FenceView DEF Alone, AdmitTurn
<1> QED
  BY ZenonT(60), <1>1, <1>3, <1>4, <1>7, <1>8, <1>9, Moving

\* A checkpoint is staged for the turn that was interrupted.
LEMMA ReconcileStageMoves ==
  ASSUME TLInv, IInv', DriveInv, NEW d \in Drivers, ReconcileStage(d)
  PROVE  Moves(d)
<1>1. PICK q \in Runs : q = drv[d].run /\ drv[d] \in Drives /\ Fits(drv[d], View(q)) /\ RunFine(View(q))
  BY Zenon, AtHand DEF ReconcileStage
<1>2. PICK v, t : v = stagedRevision(d) /\ t = currentTurn(drv[d].run)
  BY Zenon
<1> DEFINE m == [drv[d] EXCEPT !.pc = "repause", !.staged = v]
           b == [turn |-> t, runner |-> FALSE, rest |-> {}, inflight |-> {}]
<1>3. m.pc = "repause" /\ m.run = q /\ m.staged = v
  BY Zenon, <1>1 DEF Drives
<1>4. b.turn = t /\ b.rest = {}
  BY Zenon
<1>5. /\ become(d, m) /\ drv[d].pc = "reconciled" /\ t # None /\ v \in Revisions
      /\ StageCheckpoint(q, drv[d].tok, v, b)
  BY ZenonT(60), <1>1, <1>2 DEF ReconcileStage
<1> HIDE DEF m, b
<1>6. View(q).token = drv[d].tok /\ View(q).status \in Writable
  BY ZenonT(60), <1>5, FenceView DEF StageCheckpoint
<1>7. drv[d].staged = 0 /\ (View(q).turn = None \/ View(q).at = "interrupted")
  BY ZenonT(60), <1>1, <1>5, <1>6 DEF Fits, Claimed, Unstaged
<1>8. View(q).turn = t
  BY ZenonT(60), <1>1, <1>2, ViewFields
<1>9. IInv /\ DriverInv
  BY Zenon DEF TLInv
<1>10. View(q).promoted < v
  <2>1. drv[d].run = q /\ (drv[d].staged = 0 \/ View(q).promoted <= drv[d].staged)
    BY ZenonT(60), <1>1, <1>7
  <2>2. View(q).promoted < stagedRevision(d)
    BY ZenonT(60), <1>9, <2>1, StagesAbove
  <2> QED
    BY ZenonT(60), <1>2, <2>2
<1>11. Stages(q, v, b)
  BY ZenonT(60), <1>1, <1>5, <1>9, <1>10, StagedView
<1>12. /\ Only(q) /\ RunFine(View(q)')
       /\ View(q)'.turn = t /\ View(q)'.at = "interrupted"
       /\ View(q)'.promoted < v
       /\ View(q)'.rows[v] # "none" /\ View(q)'.blobs[v] = b
  BY ZenonT(60), <1>5, <1>7, <1>8, <1>11 DEF Stages
<1>13. Staged(m, View(q)') /\ View(q)'.at = "interrupted"
  BY ZenonT(60), <1>3, <1>4, <1>12 DEF Staged
<1>14. Fits(m, View(q)')
  BY ZenonT(60), <1>3, <1>13, FitsRepause
<1>15. Alone(d, q)
  BY Zenon, <1>6 DEF Alone
<1> QED
  BY ZenonT(60), <1>1, <1>3, <1>5, <1>12, <1>14, <1>15, Moving

\* Reconciliation pauses the run again, behind a checkpoint of its turn.
LEMMA ReconcileRepauseMoves ==
  ASSUME TLInv, IInv', DriveInv, NEW d \in Drivers, ReconcileRepause(d)
  PROVE  Moves(d)
<1>0. IInv /\ TypeOK /\ DriverTypeOK /\ DriverInv
  BY Zenon DEF TLInv, IInv, DriverInv
<1>1. PICK q \in Runs : q = drv[d].run /\ drv[d] \in Drives /\ Fits(drv[d], View(q)) /\ RunFine(View(q))
  BY ZenonT(60), AtHand DEF ReconcileRepause
<1>2. PICK v : v = drv[d].staged
  BY Zenon
<1>3. RepauseRun(q, drv[d].tok, v) /\ park(d)
  BY ZenonT(60), <1>1, <1>2 DEF ReconcileRepause
<1>4. View(q).token = drv[d].tok /\ View(q).status \in Writable
  BY ZenonT(60), <1>3, FenceView DEF RepauseRun
<1>7. Alone(d, q)
  BY Zenon, <1>4 DEF Alone
<1>5. CASE drv[d].pc = "repause"
  <2>1. v \in Revisions
    BY ZenonT(60), <1>0, <1>2, <1>5, DriverMemory
  <2>2. Staged(drv[d], View(q)) /\ View(q).at = "interrupted"
    BY ZenonT(60), <1>1, <1>4, <1>5 DEF Fits, Claimed
  <2>3. /\ View(q).promoted < v /\ View(q).blobs[v].turn = View(q).turn
        /\ Reconciled \notin View(q).blobs[v].rest
    BY ZenonT(60), <1>2, <2>2 DEF Staged
  <2>4. Only(q) /\ SameTurns(q)
    BY ZenonT(60), <1>0, <1>3, CheckpointsWritten
  <2>5. View(q)'.turn = View(q).turn /\ View(q)'.at = View(q).at
    BY ZenonT(60), <1>0, <2>4, TurnsKept
  <2>6. /\ ckptState'[q][v] = "promoted" /\ ckptBlob' = ckptBlob
        /\ \A u \in Revisions : u # v => ckptState'[q][u] = ckptState[q][u]
    BY ZenonT(60), <1>0, <1>3, <2>1 DEF RepauseRun, TypeOK
  <2>7. View(q)'.promoted = v /\ View(q)'.blobs = View(q).blobs /\ NoSentinel(View(q)')
    <3>1. NoSentinel(View(q))
      BY Zenon, <1>1 DEF RunFine
    <3> QED
      BY ZenonT(60), <1>0, <2>1, <2>3, <2>6, <3>1, PromoteView
  <2>8. View(q)'.status = "paused"
    <3>1. runStatus'[q] = "paused"
      BY ZenonT(60), <1>0, <1>3 DEF RepauseRun, TypeOK
    <3> QED
      BY Zenon, <3>1, ViewFieldsNext
  <2>9. v # 0
    BY ZenonT(60), <2>1, IdentityAssumption
  <2>10. Resumable(View(q)')
    BY ZenonT(60), <2>2, <2>3, <2>5, <2>7, <2>9 DEF Resumable
  <2>11. RunFine(View(q)')
    BY ZenonT(60), <2>7, <2>8, <2>10 DEF RunFine
  <2> QED
    BY ZenonT(60), <1>1, <1>3, <1>7, <2>4, <2>11, Parking
<1>6. CASE drv[d].pc # "repause"
  <2>1. /\ drv[d].pc = "reconciled" /\ promotedRevision(q) # 0
        /\ envelope(q).turn = currentTurn(q)
    BY ZenonT(60), <1>1, <1>6 DEF ReconcileRepause
  <2>2. drv[d].staged = 0 /\ (View(q).turn = None \/ View(q).at = "interrupted")
    BY ZenonT(60), <1>1, <1>4, <2>1 DEF Fits, Claimed, Unstaged
  <2>3. /\ View(q).promoted = promotedRevision(q) /\ View(q).turn = currentTurn(q)
        /\ View(q).blobs = ckptBlob[q]
    BY ZenonT(60), ViewFields
  <2>4. View(q).blobs[View(q).promoted].turn = View(q).turn
    BY ZenonT(60), <2>1, <2>3 DEF envelope
  <2>5. View(q).turn # None
    BY ZenonT(60), <1>0, <2>1, <2>3, EnvelopeFields, NoneAssumption
  <2>6. Resumable(View(q))
    BY ZenonT(60), <2>1, <2>2, <2>3, <2>4, <2>5 DEF Resumable
  <2>7. RepauseRun(q, drv[d].tok, 0)
    BY ZenonT(60), <1>2, <1>3, <2>2
  <2>8. Only(q) /\ RunFine(View(q)')
    BY ZenonT(60), <1>0, <1>1, <2>6, <2>7, RepausedView
  <2> QED
    BY ZenonT(60), <1>1, <1>3, <1>7, <2>8, Parking
<1> QED
  BY ZenonT(60), <1>5, <1>6

\* Abandonment drops the promoted checkpoint.
LEMMA AbandonRetireMoves ==
  ASSUME TLInv, IInv', DriveInv, NEW d \in Drivers, AbandonRetire(d)
  PROVE  Moves(d)
<1>0. IInv /\ TypeOK
  BY Zenon DEF TLInv, IInv
<1>1. PICK q \in Runs : q = drv[d].run /\ drv[d] \in Drives /\ RunFine(View(q))
  BY ZenonT(60), AtHand DEF AbandonRetire
<1>2. PICK p : p = promotedRevision(drv[d].run)
  BY Zenon
<1> DEFINE m == [drv[d] EXCEPT !.pc = "abandoned"]
<1>3. m.pc = "abandoned" /\ m.run = q
  BY Zenon, <1>1 DEF Drives
<1>4. /\ become(d, m)
      /\ IF p = 0 THEN UNCHANGED storeVars ELSE RetireCheckpoints(q, drv[d].tok, p)
  BY ZenonT(60), <1>1, <1>2 DEF AbandonRetire
<1> HIDE DEF m
<1>5. CASE p = 0
  <2>1. UNCHANGED storeVars
    BY ZenonT(60), <1>4, <1>5
  <2>2. Fits(m, View(q))
    BY ZenonT(60), <1>3, FitsElsewhere
  <2> QED
    BY ZenonT(60), <1>3, <1>4, <2>1, <2>2, MoveUntouched
<1>6. CASE p # 0
  <2>1. RetireCheckpoints(q, drv[d].tok, p)
    BY ZenonT(60), <1>4, <1>6
  <2>2. p \in Revisions /\ p = View(q).promoted
    BY ZenonT(60), <1>0, <1>1, <1>2, <1>6, PromotedRevisionIsPromoted, ViewFields
  <2>3. Only(q) /\ RunFine(View(q)')
    BY ZenonT(60), <1>0, <1>1, <2>1, <2>2, RetiredView
  <2>4. Fits(m, View(q)')
    BY ZenonT(60), <1>3, FitsElsewhere
  <2>5. Alone(d, q)
    BY ZenonT(60), <2>1, FenceView DEF Alone, RetireCheckpoints
  <2> QED
    BY ZenonT(60), <1>1, <1>3, <1>4, <2>3, <2>4, <2>5, Moving
<1> QED
  BY ZenonT(60), <1>5, <1>6

\* A submission in the buffer is no sentinel, and every memory still fits.
LEMMA FitsPushed ==
  ASSUME NEW m, NEW w, NEW n, Fits(m, w),
         n.pc = m.pc, n.tok = m.tok, n.cur = m.cur, n.staged = m.staged, n.first = m.first,
         Reconciled \in n.buf <=> Reconciled \in m.buf, First \in m.buf => First \in n.buf
  PROVE  Fits(n, w)
<1>1. /\ Starting(m, w) => Starting(n, w)
      /\ Resuming(m, w) => Resuming(n, w)
      /\ Looping(m, w) => Looping(n, w)
      /\ Staged(m, w) => Staged(n, w)
  <2>1. Starting(m, w) => Starting(n, w)
    BY Zenon DEF Starting
  <2>2. Resuming(m, w) => Resuming(n, w)
    BY Zenon DEF Resuming
  <2>3. Looping(m, w) => Looping(n, w)
    BY ZenonT(60) DEF Looping
  <2>4. Staged(m, w) => Staged(n, w)
    BY Zenon DEF Staged
  <2> QED
    BY ZenonT(60), <2>1, <2>2, <2>3, <2>4
<1>2. Claimed(m, w) => Claimed(n, w)
  BY ZenonT(60), <1>1 DEF Claimed
<1> QED
  BY ZenonT(60), <1>1, <1>2 DEF Fits

\* A push lands in the loop of a driver.
LEMMA PushMoves ==
  ASSUME TLInv, IInv', DriveInv, NEW d \in Drivers, NEW i \in Items, registered(d),
         become(d, [drv[d] EXCEPT !.buf = @ \cup {i}]), UNCHANGED storeVars
  PROVE  Moves(d)
<1>1. PICK q \in Runs : q = drv[d].run /\ drv[d] \in Drives /\ Fits(drv[d], View(q))
  BY Zenon, AtHand DEF registered
<1> DEFINE m == [drv[d] EXCEPT !.buf = @ \cup {i}]
<1>2. /\ m.pc = drv[d].pc /\ m.run = q /\ m.tok = drv[d].tok /\ m.cur = drv[d].cur
      /\ m.staged = drv[d].staged /\ m.first = drv[d].first /\ m.buf = drv[d].buf \cup {i}
  BY Zenon, <1>1 DEF Drives
<1>3. become(d, m)
  BY Zenon
<1> HIDE DEF m
<1>4. i # Reconciled
  BY ZenonT(60), SentinelAssumption
<1>5. (Reconciled \in m.buf <=> Reconciled \in drv[d].buf) /\ (First \in drv[d].buf => First \in m.buf)
  BY ZenonT(60), <1>2, <1>4
<1>6. PICK n : n = drv[d]
  BY Zenon
<1>7. /\ Fits(n, View(q))
      /\ m.pc = n.pc /\ m.tok = n.tok /\ m.cur = n.cur /\ m.staged = n.staged /\ m.first = n.first
      /\ (Reconciled \in m.buf <=> Reconciled \in n.buf) /\ (First \in n.buf => First \in m.buf)
  BY ZenonT(60), <1>1, <1>2, <1>5, <1>6
<1>8. Fits(m, View(q))
  BY ZenonT(60), <1>7, FitsPushed
<1> QED
  BY ZenonT(60), <1>2, <1>3, <1>8, MoveUntouched

\* Leases come and go without a trace in the view.
LEMMA HeartbeatKeeps ==
  ASSUME TLInv, IInv', NEW q \in Runs,
         LeaseExpires(q) \/ \E k : RenewRunLease(q, k)
  PROVE  \A r \in Runs : View(r)' = View(r)
<1>1. UNCHANGED <<runStatus, claimToken>> /\ UNCHANGED turnVars /\ UNCHANGED ckptVars
  BY Zenon DEF LeaseExpires, RenewRunLease
<1> QED
  BY ZenonT(60), <1>1, ViewsUntouched DEF TLInv

\* Every step of a driver moves one run and fits what it made of it, except
\* that a heartbeat moves nothing.
LEMMA DriverMoves ==
  ASSUME TLInv, IInv', DriveInv, ClaimsAsRead, NEW d \in Drivers,
         DriverStep(d) \/ HostStep(d), ~Heartbeat(d)
  PROVE  Moves(d)
<1>1. ASSUME StartPush(d) \/ BeginFresh(d) \/ ResumeClaim(d) \/ ResumeStart(d) PROVE Moves(d)
  BY ZenonT(60), <1>1, StartPushMoves, BeginMoves, ResumeClaimMoves
<1>2. ASSUME LoadCheckpoint(d) \/ GenInputFirst(d) \/ GenInputReconciled(d) \/ GenInputAdmit(d)
             \/ GenInputDuplicate(d) \/ CompletesTurn(d)
      PROVE  Moves(d)
  BY ZenonT(60), <1>2, LoadCheckpointMoves, GenInputFirstMoves, GenInputReconciledMoves, GenInputAdmitMoves,
     GenInputDuplicateMoves, CompletesTurnMoves
<1>3. ASSUME PromotePaused(d) \/ CarrierStage(d) \/ InterruptStage(d) \/ StopBetween(d) PROVE Moves(d)
  BY ZenonT(60), <1>3, PromotePausedMoves, PausingMoves, StopBetweenMoves
<1>4. ASSUME PromoteRefused(d) \/ StageRefused(d) \/ ClaimRefused(d) \/ FenceLost(d) \/ Crash(d)
      PROVE  Moves(d)
  BY ZenonT(60), <1>4, EndingMoves
<1>5. ASSUME IdleStop(d) \/ QueuedAmong(d) \/ SettleClean(d) \/ RetireCompleted(d) \/ CarrierAdmit(d)
      PROVE  Moves(d)
  BY ZenonT(60), <1>5, IdleStopMoves, QueuedAmongMoves, SettleCleanMoves, RetireCompletedMoves,
     CarrierAdmitMoves
<1>6. ASSUME FailDrive(d) \/ ResumeEngineRefused(d) \/ ReconcileSettle(d) \/ AbandonSettle(d)
             \/ AdmitRefused(d)
      PROVE  Moves(d)
  BY ZenonT(60), <1>6, SettlingMoves, AdmitRefusedMoves
<1>7. ASSUME Reclaim(d) \/ AbandonClaim(d) \/ ReconcileTurn(d) \/ ReconcileCarrier(d)
             \/ ReconcileStage(d) \/ ReconcileRepause(d) \/ AbandonRetire(d)
      PROVE  Moves(d)
  BY ZenonT(60), <1>7, ClaimMoves, ReconcileTurnMoves, ReconcileCarrierMoves, ReconcileStageMoves,
     ReconcileRepauseMoves, AbandonRetireMoves
<1>8. ASSUME NEW r \in Runs, Start(d, r) \/ ResumeRead(d, r) \/ ReclaimRead(d, r) \/ AbandonRead(d, r)
      PROVE  Moves(d)
  BY ZenonT(60), <1>8, StartMoves, ResumeReadMoves, CallMoves
<1>9. ASSUME ResumeStartFails(d) PROVE Moves(d)
  BY ZenonT(60), <1>9, ResumeStartFailsMoves
<1> QED
  BY ZenonT(60), <1>1, <1>2, <1>3, <1>4, <1>5, <1>6, <1>7, <1>8, <1>9 DEF DriverStep, HostStep

\* A mutation leaves the token of a run, or writes one that nobody holds.
LEMMA TokenWritten ==
  ASSUME TypeOK, [Next]_storeVars, NEW q \in Runs
  PROVE  View(q)'.token = View(q).token \/ View(q)'.token \notin minted
<1>1. claimToken' = claimToken
      \/ \E r \in Runs, k \in Tokens \ minted : claimToken' = [claimToken EXCEPT ![r] = k]
  BY ZenonT(120) DEF Next, storeVars, runVars, AdmitRun, ClaimRun, AdmitDurable, LeaseExpires, EnqueueInbox,
     EnqueueInboxForRun, StartRun, RenewRunLease, AdmitTurn, CompleteTurn, ReconcileInterruptedTurn,
     ResumeInterruptedTurn, StageCheckpoint, PromotePause, RepauseRun, RetireCheckpoints,
     RetireRunCheckpoints, CreateToolCall, ClaimToolCall, SettleToolCall, SettleRun
<1>2. claimToken'[q] = claimToken[q] \/ claimToken'[q] \notin minted
  BY Zenon, <1>1 DEF TypeOK
<1> QED
  BY ZenonT(60), <1>2, ViewFields, ViewFieldsNext

\* The memory of another driver of the run still fits: if it may write, then
\* nothing has changed.
LEMMA OthersFit ==
  ASSUME TLInv, TLInv', [Next]_storeVars, NEW d \in Drivers, NEW e \in Drivers, e # d,
         NEW q \in Runs, drv'[e] = drv[e], Alone(d, q), Fits(drv[e], View(q))
  PROVE  Fits(drv'[e], View(q)')
<1>1. CASE View(q)' = View(q)
  BY Zenon, <1>1
<1>2. ASSUME View(q)' # View(q), View(q)'.token = drv[e].tok, View(q)'.status \in Writable PROVE FALSE
  <2>1. drv[e].tok # None
    <3>1. runStatus'[q] # "none"
      BY ZenonT(60), <1>2, ViewFieldsNext DEF Writable
    <3>2. claimToken'[q] # None
      BY ZenonT(60), <3>1 DEF TLInv, RunsHaveToken
    <3> QED
      BY ZenonT(60), <1>2, <3>2, ViewFieldsNext
  <2>2. drv[e].tok \in minted
    BY ZenonT(60), <2>1 DEF TLInv, TokensApart
  <2>3. View(q)'.token = View(q).token
    BY ZenonT(60), <1>2, <2>2, TokenWritten DEF TLInv, IInv
  <2>4. View(q).token = drv[d].tok
    BY ZenonT(60), <1>2, <2>2 DEF Alone
  <2>5. drv[e].tok = drv[d].tok
    BY ZenonT(60), <1>2, <2>3, <2>4
  <2> QED
    BY Zenon, <2>1, <2>5 DEF TLInv, TokensApart
<1>3. CASE View(q)' # View(q)
  <2>1. /\ drv[e].pc \in Unstaged => drv[e].staged = 0
        /\ drv[e].pc = "resume" => ~drv[e].first
    BY Zenon DEF Fits
  <2> QED
    BY ZenonT(60), <1>2, <1>3, <2>1 DEF Fits
<1> QED
  BY Zenon, <1>1, <1>3

\* A step of a driver keeps the invariant.
LEMMA MovesKeep ==
  ASSUME TLInv, TLInv', [Next]_storeVars, DriveInv, NEW d \in Drivers, Moves(d)
  PROVE  DriveInv'
<1>0. IInv /\ IInv'
  BY Zenon DEF TLInv
<1>1. PICK q \in Runs :
         /\ drv[d].run = q \/ drv'[d].run = q
         /\ drv'[d].run \in {None, q}
         /\ \A e \in Drivers : e # d => drv'[e] = drv[e]
         /\ Only(q) /\ Alone(d, q)
         /\ RunFine(View(q)')
         /\ drv'[d].run = q => Fits(drv'[d], View(q)')
  BY Zenon DEF Moves
<1>2. ASSUME NEW r \in Runs, r # q PROVE View(r)' = View(r)
  <2>1. SameTurns(r) /\ SameRow(r) /\ SameCheckpoints(r)
    BY ZenonT(60), <1>1, <1>2 DEF Only
  <2> QED
    BY ZenonT(60), <1>0, <2>1, ViewKept
<1>3. ASSUME NEW r \in Runs PROVE RunFine(View(r)')
  <2>1. CASE r = q
    BY ZenonT(60), <1>1, <2>1
  <2>2. CASE r # q
    <3>1. View(r)' = View(r) /\ RunFine(View(r))
      BY ZenonT(60), <1>2, <2>2 DEF DriveInv
    <3> QED
      BY ZenonT(60), <3>1
  <2> QED
    BY ZenonT(60), <2>1, <2>2
<1>4. ASSUME NEW e \in Drivers, NEW r \in Runs, drv'[e].run = r PROVE Fits(drv'[e], View(r)')
  <2>1. CASE e = d
    <3>1. r = q
      BY ZenonT(60), <1>1, <1>4, <2>1, NoneAssumption
    <3> QED
      BY ZenonT(60), <1>1, <1>4, <2>1, <3>1
  <2>2. CASE e # d
    <3>1. drv'[e] = drv[e] /\ Fits(drv[e], View(r))
      BY ZenonT(60), <1>1, <1>4, <2>2 DEF DriveInv
    <3>2. CASE r = q
      <4>1. Alone(d, r)
        BY ZenonT(60), <1>1, <3>2
      <4> QED
        BY ZenonT(60), <2>2, <3>1, <4>1, OthersFit
    <3>3. CASE r # q
      BY ZenonT(60), <1>2, <3>1, <3>3
    <3> QED
      BY ZenonT(60), <3>2, <3>3
  <2> QED
    BY ZenonT(60), <2>1, <2>2
<1> QED
  BY ZenonT(60), <1>3, <1>4 DEF DriveInv

\* Nor does a step that moves no driver and no view.
LEMMA QuietKeeps ==
  ASSUME DriveInv, drv' = drv, \A r \in Runs : View(r)' = View(r)
  PROVE  DriveInv'
<1>1. ASSUME NEW r \in Runs PROVE RunFine(View(r)')
  <2>1. View(r)' = View(r) /\ RunFine(View(r))
    BY Zenon DEF DriveInv
  <2> QED
    BY ZenonT(60), <2>1
<1>2. ASSUME NEW e \in Drivers, NEW r \in Runs, drv'[e].run = r PROVE Fits(drv'[e], View(r)')
  <2>1. View(r)' = View(r) /\ Fits(drv[e], View(r))
    BY ZenonT(60), <1>2 DEF DriveInv
  <2> QED
    BY Zenon, <2>1
<1> QED
  BY ZenonT(60), <1>1, <1>2 DEF DriveInv

\* Before the first call every run is fine and nobody drives.
LEMMA DriveInvInit == TLInit => DriveInv
<1> SUFFICES ASSUME TLInit PROVE DriveInv
  BY Zenon
<1>1. ASSUME NEW r \in Runs PROVE RunFine(View(r))
  <2>1. runStatus[r] = "none" /\ \A v \in Revisions : ckptState[r][v] = "none"
    BY Zenon DEF TLInit, Init
  <2>2. View(r).status = "none" /\ View(r).rows = ckptState[r] /\ View(r).promoted = promotedRevision(r)
    BY ZenonT(60), <2>1, ViewFields
  <2>3. promotedRevision(r) = 0
    BY Zenon, <2>1 DEF promotedRevision
  <2>4. NoSentinel(View(r))
    BY ZenonT(60), <2>1, <2>2 DEF NoSentinel
  <2> QED
    BY ZenonT(60), <2>2, <2>3, <2>4 DEF RunFine
<1>2. ASSUME NEW e \in Drivers, NEW r \in Runs PROVE drv[e].run # r
  <2>1. drv[e] = Parked
    BY Zenon DEF TLInit
  <2>2. Parked.run = None
    BY Zenon DEF Parked
  <2>3. r # None
    BY ZenonT(60), NoneAssumption
  <2> QED
    BY ZenonT(60), <2>1, <2>2, <2>3
<1> QED
  BY ZenonT(60), <1>1, <1>2 DEF DriveInv

\* Every step of the turn loop keeps it, if a claim of ResumeRun finds the run
\* as it was read.
LEMMA DriveInvStep ==
  TLInv /\ TLInv' /\ [ClaimsAsRead]_vars /\ DriveInv /\ [TLNext]_vars => DriveInv'
<1> SUFFICES ASSUME TLInv, TLInv', [ClaimsAsRead]_vars, DriveInv, [TLNext]_vars PROVE DriveInv'
  BY Zenon
<1>0. IInv /\ IInv' /\ [Next]_storeVars
  BY ZenonT(60), TLStepImplements DEF TLInv
<1>2. ASSUME UNCHANGED <<runStatus, claimToken>>, UNCHANGED turnVars, UNCHANGED ckptVars, drv' = drv
      PROVE  DriveInv'
  <2>1. \A r \in Runs : View(r)' = View(r)
    BY ZenonT(60), <1>0, <1>2, ViewsUntouched
  <2> QED
    BY ZenonT(60), <1>2, <2>1, QuietKeeps
<1>6. CASE UNCHANGED vars
  BY ZenonT(60), <1>2, <1>6 DEF vars, storeVars, runVars
<1>1. ASSUME NEW d \in Drivers, DriverStep(d) \/ HostStep(d) PROVE DriveInv'
  <2>1. CASE Heartbeat(d)
    <3>1. drv[d].run \in Runs
      BY ZenonT(60), <2>1, DriverMemory DEF TLInv, DriverInv, Heartbeat, heartbeats
    <3>2. RenewRunLease(drv[d].run, drv[d].tok) /\ drv' = drv
      BY ZenonT(60), <2>1 DEF Heartbeat
    <3>3. \A r \in Runs : View(r)' = View(r)
      BY ZenonT(60), <1>0, <3>1, <3>2, HeartbeatKeeps
    <3> QED
      BY ZenonT(60), <3>2, <3>3, QuietKeeps
  <2>2. CASE ~Heartbeat(d) /\ ClaimsAsRead
    <3>1. Moves(d)
      BY ZenonT(60), <1>0, <1>1, <2>2, DriverMoves
    <3> QED
      BY ZenonT(60), <1>0, <3>1, MovesKeep
  <2> QED
    BY ZenonT(60), <1>6, <2>1, <2>2
<1>3. ASSUME NEW r \in Runs, Expire(r) PROVE DriveInv'
  BY ZenonT(60), <1>2, <1>3 DEF Expire, LeaseExpires
<1>4. ASSUME NEW r \in Runs, NEW i \in Items, Enqueue(r, i) PROVE DriveInv'
  BY ZenonT(60), <1>2, <1>4 DEF Enqueue, EnqueueInboxForRun, runVars
<1>5. ASSUME NEW r \in Runs, NEW i \in Items, EnqueuePush(r, i) PROVE DriveInv'
  <2>1. UNCHANGED storeVars
    BY ZenonT(60), <1>5 DEF EnqueuePush
  <2>2. CASE drv' = drv
    BY ZenonT(60), <1>2, <2>1, <2>2 DEF storeVars, runVars
  <2>3. ASSUME NEW d \in Drivers, registered(d), become(d, [drv[d] EXCEPT !.buf = @ \cup {i}])
        PROVE  DriveInv'
    <3>1. Moves(d)
      BY ZenonT(60), <1>0, <2>1, <2>3, PushMoves
    <3> QED
      BY ZenonT(60), <1>0, <3>1, MovesKeep
  <2> QED
    BY ZenonT(60), <1>5, <2>2, <2>3 DEF EnqueuePush
<1> QED
  BY ZenonT(60), <1>1, <1>3, <1>4, <1>5, <1>6 DEF TLNext

\* So what the drives remember fits the rows of their runs.
LEMMA DriveInvariant == TLSpec /\ [][ClaimsAsRead]_vars => []DriveInv
  BY DriveInvInit, DriveInvStep, TLInvInvariant, PTL DEF TLSpec

\* What a drive that fits says of the checks of ResumeRun and of its turn.
LEMMA DriveInvShows ==
  ASSUME TLInv, DriveInv
  PROVE  ResumeAccepts /\ DrivenTurnIsCurrent
<1>1. ASSUME NEW r \in Runs, runStatus[r] = "paused"
      PROVE  promotedRevision(r) # 0 /\ envelope(r).turn = currentTurn(r)
  <2>1. /\ View(r).status = runStatus[r] /\ View(r).promoted = promotedRevision(r)
        /\ View(r).turn = currentTurn(r) /\ View(r).blobs = ckptBlob[r]
    BY ZenonT(60), ViewFields
  <2>2. Resumable(View(r))
    BY ZenonT(60), <1>1, <2>1 DEF DriveInv, RunFine
  <2> QED
    BY ZenonT(60), <2>1, <2>2 DEF Resumable, envelope
<1>2. ASSUME NEW d \in Drivers, drv[d].pc = "turn" \/ drv[d].pc = "pausing", fenced(d)
      PROVE  drv[d].cur = currentTurn(drv[d].run)
  <2>1. PICK q \in Runs : q = drv[d].run /\ Fits(drv[d], View(q))
    BY ZenonT(60), <1>2, AtHand
  <2>2. loadRunFence(q, drv[d].tok)
    BY ZenonT(60), <1>2, <2>1 DEF fenced
  <2>3. View(q).token = drv[d].tok /\ View(q).status \in Writable
    BY ZenonT(60), <2>2, FenceView
  <2>4. drv[d].cur = View(q).turn
    BY ZenonT(60), <1>2, <2>1, <2>3 DEF Fits, Claimed
  <2> QED
    BY ZenonT(60), <2>1, <2>4, ViewFields
<1>3. ResumeAccepts
  BY ZenonT(60), <1>1 DEF ResumeAccepts
<1>4. DrivenTurnIsCurrent
  BY ZenonT(60), <1>2 DEF DrivenTurnIsCurrent
<1> QED
  BY ZenonT(60), <1>3, <1>4

\* A paused run can always be resumed: the check at turn_loop.go:1878 never
\* refuses it, after any sequence of pauses, carriers, crashes, take-overs,
\* reconciliations and reverted claims, of any number of concurrent calls, if
\* every claim of ResumeRun finds the run as the call read it.
THEOREM PausedRunsResume == TLSpec /\ [][ClaimsAsRead]_vars => []ResumeAccepts
  BY DriveInvariant, DriveInvShows, TLInvInvariant, PTL

\* Under the same condition a driver with the fence drives and pauses the turn
\* that is current in the store.
THEOREM DrivesCurrentTurn == TLSpec /\ [][ClaimsAsRead]_vars => []DrivenTurnIsCurrent
  BY DriveInvariant, DriveInvShows, TLInvInvariant, PTL

\* No two calls (Start, ResumeRun, Resume, Stop) work on one run at a time.
Undisputed ==
    \A d, e \in Drivers : drv[d].run # None /\ drv[d].run = drv[e].run => d = e

\* What ResumeRun has read is so until it claims the run.
AsRead(m, w) ==
    m.pc = "resume" => /\ w.status = "paused"
                       /\ m.cur = w.turn
                       /\ Reconciled \in m.buf => ~w.blobs[w.promoted].runner

\* And it is so for every call that has read.
ReadInv == \A d \in Drivers, r \in Runs : drv[d].run = r => AsRead(drv[d], View(r))

\* Then a claim finds the run as it was read.
LEMMA ReadsClaimAsRead ==
  ASSUME TLInv, ReadInv
  PROVE  ClaimsAsRead
<1> SUFFICES ASSUME NEW d \in Drivers, ResumeClaim(d)
             PROVE  /\ runStatus[drv[d].run] = "paused"
                    /\ drv[d].cur = currentTurn(drv[d].run)
                    /\ Reconciled \in drv[d].buf => ~envelope(drv[d].run).runner
  BY Zenon DEF ClaimsAsRead
<1>1. drv[d].pc = "resume"
  BY Zenon DEF ResumeClaim
<1>2. PICK q \in Runs : q = drv[d].run
  BY ZenonT(60), <1>1, DriverMemory DEF TLInv, DriverInv
<1>3. AsRead(drv[d], View(q))
  BY ZenonT(60), <1>2 DEF ReadInv
<1>4. /\ View(q).status = runStatus[q] /\ View(q).turn = currentTurn(q)
      /\ View(q).promoted = promotedRevision(q) /\ View(q).blobs = ckptBlob[q]
  BY ZenonT(60), ViewFields
<1> QED
  BY ZenonT(60), <1>1, <1>2, <1>3, <1>4 DEF AsRead, envelope

\* Only ResumeRead brings a driver to where it has read and not claimed.
LEMMA OnlyReadsRead ==
  ASSUME TLInv, NEW d \in Drivers, DriverStep(d) \/ HostStep(d), ~Heartbeat(d),
         \A r \in Runs : ~ResumeRead(d, r)
  PROVE  drv'[d].pc # "resume"
<1>1. drv \in [Drivers -> Drives] /\ drv[d] \in Drives
  BY Zenon DEF TLInv, DriverInv, DriverTypeOK
<1>2. ASSUME NEW m, become(d, m), m.pc # "resume" PROVE drv'[d].pc # "resume"
  BY ZenonT(60), <1>1, <1>2 DEF become
<1>3. ASSUME park(d) PROVE drv'[d].pc # "resume"
  <2>1. Parked.pc = "idle"
    BY Zenon DEF Parked
  <2> QED
    BY ZenonT(60), <1>2, <1>3, <2>1 DEF park
<1>4. ASSUME ResumeStartFails(d) \/ FailDrive(d) \/ PromotePaused(d) \/ PromoteRefused(d) \/ StageRefused(d)
      PROVE  drv'[d].pc # "resume"
  BY ZenonT(60), <1>3, <1>4 DEF ResumeStartFails, FailDrive, PromotePaused, PromoteRefused, StageRefused
<1>5. ASSUME RetireCompleted(d) \/ AdmitRefused(d) \/ ResumeEngineRefused(d) \/ ReconcileSettle(d) \/ ReconcileRepause(d)
      PROVE  drv'[d].pc # "resume"
  BY ZenonT(60), <1>3, <1>5 DEF RetireCompleted, AdmitRefused, ResumeEngineRefused, ReconcileSettle, ReconcileRepause
<1>6. ASSUME AbandonSettle(d) \/ ClaimRefused(d) \/ FenceLost(d) \/ Crash(d)
      PROVE  drv'[d].pc # "resume"
  BY ZenonT(60), <1>3, <1>6 DEF AbandonSettle, ClaimRefused, FenceLost, Crash
<1>7. CASE StartPush(d)
  BY <1>1, <1>7 DEF StartPush, Drives, become
<1>8. CASE BeginFresh(d)
  BY ZenonT(60), <1>1, <1>8 DEF BeginFresh, Drives, become
<1>9. CASE ResumeClaim(d)
  BY ZenonT(60), <1>1, <1>9 DEF ResumeClaim, Drives, become
<1>10. CASE ResumeStart(d)
  BY ZenonT(60), <1>1, <1>10 DEF ResumeStart, Drives, become
<1>11. CASE GenInputFirst(d)
  BY ZenonT(60), <1>1, <1>11 DEF GenInputFirst, Drives, become
<1>12. CASE GenInputReconciled(d)
  BY <1>1, <1>12 DEF GenInputReconciled, Drives, become
<1>13. CASE GenInputAdmit(d)
  BY ZenonT(60), <1>1, <1>13 DEF GenInputAdmit, Drives, become
<1>14. CASE GenInputDuplicate(d)
  BY ZenonT(60), <1>1, <1>14 DEF GenInputDuplicate, Drives, become
<1>15. CASE CompletesTurn(d)
  BY ZenonT(60), <1>1, <1>15 DEF CompletesTurn, Drives, become
<1>16. CASE InterruptStage(d)
  BY ZenonT(60), <1>1, <1>16 DEF InterruptStage, Drives, become
<1>17. CASE StopBetween(d)
  BY ZenonT(60), <1>1, <1>17 DEF StopBetween, Drives, become
<1>18. CASE QueuedAmong(d)
  BY ZenonT(60), <1>1, <1>18 DEF QueuedAmong, Drives, become
<1>19. CASE CarrierAdmit(d)
  BY ZenonT(60), <1>1, <1>19 DEF CarrierAdmit, Drives, become
<1>20. CASE CarrierStage(d)
  BY ZenonT(60), <1>1, <1>20 DEF CarrierStage, Drives, become
<1>21. CASE Reclaim(d)
  BY ZenonT(60), <1>1, <1>21 DEF Reclaim, Drives, become
<1>22. CASE ReconcileTurn(d)
  BY ZenonT(60), <1>1, <1>22 DEF ReconcileTurn, Drives, become
<1>23. CASE ReconcileCarrier(d)
  BY ZenonT(60), <1>1, <1>23 DEF ReconcileCarrier, Drives, become
<1>24. CASE ReconcileStage(d)
  BY ZenonT(60), <1>1, <1>24 DEF ReconcileStage, Drives, become
<1>25. CASE AbandonClaim(d)
  BY ZenonT(60), <1>1, <1>25 DEF AbandonClaim, Drives, become
<1>26. CASE AbandonRetire(d)
  BY ZenonT(60), <1>1, <1>26 DEF AbandonRetire, Drives, become
<1>27. CASE SettleClean(d)
  BY <1>1, <1>27 DEF SettleClean, Drives, Parked, become
<1>28. CASE LoadCheckpoint(d)
  <2>1. PICK c, o, buf, at :
           \/ become(d, [drv[d] EXCEPT !.pc = "loop"])
           \/ become(d, [drv[d] EXCEPT !.pc = "loop", !.loaded = TRUE, !.buf = buf])
           \/ become(d, [drv[d] EXCEPT !.pc = "turn", !.loaded = TRUE, !.cur = c, !.ord = o,
                                       !.buf = buf, !.batch = at])
    BY ZenonT(60), <1>28 DEF LoadCheckpoint
  <2>2. CASE become(d, [drv[d] EXCEPT !.pc = "loop"])
    BY ZenonT(60), <1>1, <2>2 DEF Drives, become
  <2>3. CASE become(d, [drv[d] EXCEPT !.pc = "loop", !.loaded = TRUE, !.buf = buf])
    BY ZenonT(60), <1>1, <2>3 DEF Drives, become
  <2>4. CASE become(d, [drv[d] EXCEPT !.pc = "turn", !.loaded = TRUE, !.cur = c, !.ord = o,
                                      !.buf = buf, !.batch = at])
    BY ZenonT(60), <1>1, <2>4 DEF Drives, become
  <2> QED
    BY ZenonT(60), <2>1, <2>2, <2>3, <2>4
<1>29. CASE IdleStop(d)
  <2>1. \E v : \/ become(d, [drv[d] EXCEPT !.pc = "late", !.staged = v])
               \/ become(d, [drv[d] EXCEPT !.pc = "late"])
    BY Zenon, <1>29 DEF IdleStop
  <2> QED
    BY ZenonT(60), <1>1, <2>1 DEF Drives, become
<1>30. ASSUME NEW r \in Runs, Start(d, r) \/ ReclaimRead(d, r) \/ AbandonRead(d, r)
      PROVE  drv'[d].pc # "resume"
  BY ZenonT(60), <1>1, <1>30 DEF Start, ReclaimRead, AbandonRead, Parked, become
<1> QED
  BY ZenonT(60), <1>4, <1>5, <1>6, <1>7, <1>8, <1>9, <1>10, <1>11, <1>12, <1>13, <1>14, <1>15, <1>16, <1>17, <1>18, <1>19, <1>20, <1>21, <1>22, <1>23, <1>24, <1>25, <1>26, <1>27, <1>28, <1>29, <1>30 DEF DriverStep, HostStep

\* Nobody else moves the run that a call has read, while nobody disputes it.
LEMMA ReadInvMoves ==
  ASSUME TLInv, TLInv', DriveInv, ReadInv, Undisputed, Undisputed', NEW d \in Drivers, Moves(d),
         drv'[d].pc # "resume" \/ \E r \in Runs : ResumeRead(d, r)
  PROVE  ReadInv'
<1>0. IInv /\ IInv'
  BY Zenon DEF TLInv
<1>1. PICK q \in Runs :
         /\ drv[d].run = q \/ drv'[d].run = q
         /\ drv'[d].run \in {None, q}
         /\ \A e \in Drivers : e # d => drv'[e] = drv[e]
         /\ Only(q)
  BY Zenon DEF Moves
<1>2. ASSUME NEW e \in Drivers, NEW r \in Runs, drv'[e].run = r, e # d PROVE AsRead(drv'[e], View(r)')
  <2>1. drv'[e] = drv[e] /\ r # None
    BY ZenonT(60), <1>1, <1>2, NoneAssumption
  <2>2. r # q
    <3>1. drv[d].run # r
      BY ZenonT(60), <1>2, <2>1 DEF Undisputed
    <3>2. drv'[d].run # r
      BY ZenonT(60), <1>2, <2>1 DEF Undisputed
    <3> QED
      BY ZenonT(60), <1>1, <3>1, <3>2
  <2>3. SameTurns(r) /\ SameRow(r) /\ SameCheckpoints(r)
    BY ZenonT(60), <1>1, <2>2 DEF Only
  <2>4. View(r)' = View(r)
    BY ZenonT(60), <1>0, <2>3, ViewKept
  <2>5. AsRead(drv[e], View(r))
    BY ZenonT(60), <1>2, <2>1 DEF ReadInv
  <2> QED
    BY ZenonT(60), <2>1, <2>4, <2>5
<1>3. ASSUME NEW r \in Runs, drv'[d].run = r, drv'[d].pc # "resume" PROVE AsRead(drv'[d], View(r)')
  BY ZenonT(60), <1>3 DEF AsRead
<1>4. ASSUME NEW r \in Runs, drv'[d].run = r, NEW s \in Runs, ResumeRead(d, s)
      PROVE  AsRead(drv'[d], View(r)')
  <2>1. PICK c, sentinel, n :
           /\ c = currentTurn(s) /\ n = maxOrdinal(s)
           /\ sentinel = IF ~envelope(s).runner /\ turnState[c] = "interrupted" /\ hasUserMessages(c)
                           THEN {Reconciled} ELSE {}
    BY Zenon
  <2> DEFINE m == [Parked EXCEPT !.pc = "resume", !.run = s, !.ord = n,
                                 !.cur = c, !.buf = drainQueuedInbox(s) \cup sentinel]
  <2>2. become(d, m) /\ runStatus[s] = "paused" /\ UNCHANGED storeVars
    BY ZenonT(60), <1>4, <2>1 DEF ResumeRead
  <2>3. m.run = s /\ m.cur = c /\ m.buf = drainQueuedInbox(s) \cup sentinel
    BY Zenon DEF Parked
  <2> HIDE DEF m
  <2>4. drv'[d] = m
    BY ZenonT(60), <2>2 DEF become, TLInv, DriverInv, DriverTypeOK
  <2>5. r = s
    BY ZenonT(60), <1>4, <2>3, <2>4
  <2>6. View(s)' = View(s)
    BY ZenonT(60), <1>0, <2>2, Untouched
  <2>7. /\ View(s).status = runStatus[s] /\ View(s).turn = currentTurn(s)
        /\ View(s).promoted = promotedRevision(s) /\ View(s).blobs = ckptBlob[s]
    BY Zenon, ViewFields
  <2>8. ASSUME Reconciled \in m.buf PROVE ~View(s).blobs[View(s).promoted].runner
    <3>1. Reconciled \in sentinel
      BY ZenonT(60), <2>3, <2>8, SentinelAssumption DEF drainQueuedInbox
    <3>2. ~envelope(s).runner
      BY ZenonT(60), <2>1, <3>1
    <3> QED
      BY ZenonT(60), <2>7, <3>2 DEF envelope
  <2>9. AsRead(m, View(s))
    BY ZenonT(60), <2>1, <2>2, <2>3, <2>7, <2>8 DEF AsRead
  <2> QED
    BY ZenonT(60), <2>4, <2>5, <2>6, <2>9
<1>5. ASSUME NEW e \in Drivers, NEW r \in Runs, drv'[e].run = r PROVE AsRead(drv'[e], View(r)')
  BY ZenonT(60), <1>2, <1>3, <1>4, <1>5
<1> QED
  BY ZenonT(60), <1>5 DEF ReadInv

\* A step that moves no view and no driver that has read.
LEMMA ReadInvQuiet ==
  ASSUME ReadInv, \A r \in Runs : View(r)' = View(r),
         \A e \in Drivers : drv'[e] = drv[e] \/ drv'[e].pc # "resume"
  PROVE  ReadInv'
<1>1. ASSUME NEW e \in Drivers, NEW r \in Runs, drv'[e].run = r PROVE AsRead(drv'[e], View(r)')
  <2>1. CASE drv'[e].pc # "resume"
    BY Zenon, <2>1 DEF AsRead
  <2>2. CASE drv'[e] = drv[e]
    <3>1. AsRead(drv[e], View(r)) /\ View(r)' = View(r)
      BY Zenon, <1>1, <2>2 DEF ReadInv
    <3> QED
      BY Zenon, <2>2, <3>1
  <2> QED
    BY ZenonT(60), <2>1, <2>2
<1> QED
  BY Zenon, <1>1 DEF ReadInv

\* Every step keeps what was read, and with it the invariant of the drives.
LEMMA ReadInvStep ==
  /\ TLInv /\ TLInv' /\ Undisputed /\ Undisputed' /\ DriveInv /\ ReadInv /\ [TLNext]_vars
  => DriveInv' /\ ReadInv'
<1> SUFFICES ASSUME TLInv, TLInv', Undisputed, Undisputed', DriveInv, ReadInv, [TLNext]_vars
             PROVE  DriveInv' /\ ReadInv'
  BY Zenon
<1>0. IInv /\ IInv' /\ ClaimsAsRead
  BY Zenon, ReadsClaimAsRead DEF TLInv
<1>1. DriveInv'
  BY Zenon, <1>0, DriveInvStep
<1>2. ASSUME UNCHANGED <<runStatus, claimToken>>, UNCHANGED turnVars, UNCHANGED ckptVars,
             \A e \in Drivers : drv'[e] = drv[e] \/ drv'[e].pc # "resume"
      PROVE  ReadInv'
  <2>1. \A r \in Runs : View(r)' = View(r)
    BY ZenonT(60), <1>0, <1>2, ViewsUntouched
  <2> QED
    BY ZenonT(60), <1>2, <2>1, ReadInvQuiet
<1>3. ASSUME NEW d \in Drivers, DriverStep(d) \/ HostStep(d) PROVE ReadInv'
  <2>1. CASE Heartbeat(d)
    BY ZenonT(60), <1>2, <2>1 DEF Heartbeat, RenewRunLease
  <2>2. CASE ~Heartbeat(d)
    <3>1. Moves(d)
      BY ZenonT(60), <1>0, <1>3, <2>2, DriverMoves
    <3>2. drv'[d].pc # "resume" \/ \E r \in Runs : ResumeRead(d, r)
      BY ZenonT(60), <1>3, <2>2, OnlyReadsRead
    <3> QED
      BY ZenonT(60), <3>1, <3>2, ReadInvMoves
  <2> QED
    BY Zenon, <2>1, <2>2
<1>4. ASSUME NEW r \in Runs, Expire(r) PROVE ReadInv'
  BY ZenonT(60), <1>2, <1>4 DEF Expire, LeaseExpires
<1>5. ASSUME NEW r \in Runs, NEW i \in Items, Enqueue(r, i) PROVE ReadInv'
  BY ZenonT(60), <1>2, <1>5 DEF Enqueue, EnqueueInboxForRun, runVars
<1>6. ASSUME NEW r \in Runs, NEW i \in Items, EnqueuePush(r, i) PROVE ReadInv'
  <2>1. UNCHANGED storeVars
    BY Zenon, <1>6 DEF EnqueuePush
  <2>2. \A e \in Drivers : drv'[e] = drv[e] \/ drv'[e].pc # "resume"
    <3>1. drv \in [Drivers -> Drives]
      BY Zenon DEF TLInv, DriverInv, DriverTypeOK
    <3>2. ASSUME NEW d \in Drivers, registered(d), become(d, [drv[d] EXCEPT !.buf = @ \cup {i}])
          PROVE  \A e \in Drivers : drv'[e] = drv[e] \/ drv'[e].pc # "resume"
      <4>1. drv'[d].pc = drv[d].pc /\ \A e \in Drivers : e # d => drv'[e] = drv[e]
        BY ZenonT(60), <3>1, <3>2 DEF become, Drives
      <4>2. drv[d].pc # "resume"
        BY ZenonT(60), <3>2 DEF registered
      <4> QED
        BY ZenonT(60), <4>1, <4>2
    <3> QED
      BY ZenonT(60), <1>6, <3>2 DEF EnqueuePush
  <2> QED
    BY ZenonT(60), <1>2, <2>1, <2>2 DEF storeVars, runVars
<1>7. ASSUME UNCHANGED vars PROVE ReadInv'
  <2>1. UNCHANGED storeVars /\ drv' = drv
    BY Zenon, <1>7 DEF vars
  <2>2. \A e \in Drivers : drv'[e] = drv[e] \/ drv'[e].pc # "resume"
    BY Zenon, <2>1
  <2>3. UNCHANGED <<runStatus, claimToken>> /\ UNCHANGED turnVars /\ UNCHANGED ckptVars
    BY Zenon, <2>1 DEF storeVars, runVars
  <2>4. \A r \in Runs : View(r)' = View(r)
    BY ZenonT(60), <1>0, <2>3, ViewsUntouched
  <2> QED
    BY ZenonT(60), <2>2, <2>4, ReadInvQuiet
<1>8. ReadInv'
  BY ZenonT(60), <1>3, <1>4, <1>5, <1>6, <1>7 DEF TLNext
<1> QED
  BY ZenonT(60), <1>1, <1>8

\* Before the first call nothing was read.
LEMMA ReadInvInit == TLInit => ReadInv
<1> SUFFICES ASSUME TLInit PROVE ReadInv
  BY Zenon
<1>1. ASSUME NEW e \in Drivers PROVE drv[e].pc # "resume"
  <2>1. drv[e] = Parked /\ Parked.pc = "idle"
    BY Zenon DEF TLInit, Parked
  <2> QED
    BY Zenon, <2>1
<1> QED
  BY Zenon, <1>1 DEF ReadInv, AsRead

\* A claim finds what was read in every step.
LEMMA ReadInvShows == TLInv /\ ReadInv => [ClaimsAsRead]_vars
  BY Zenon, ReadsClaimAsRead

\* A host that never has two calls at work on one run (Start, ResumeRun, Resume
\* and Stop in any process) gives ResumeRun what it needs: every claim finds
\* the run as the call read it, whatever crashes in between.
THEOREM SerialCallsClaimAsRead == TLSpec /\ []Undisputed => [][ClaimsAsRead]_vars
<1>1. TLSpec /\ []Undisputed => [](DriveInv /\ ReadInv)
  BY DriveInvInit, ReadInvInit, ReadInvStep, TLInvInvariant, PTL DEF TLSpec
<1> QED
  BY <1>1, ReadInvShows, TLInvInvariant, PTL
=============================================================================
