------------------------ MODULE KeyedAdmissionProofs ------------------------
(***************************************************************************)
(* For any number of calls, keys and requests: one run per key, definite   *)
(* failures, and retries that agree.                                       *)
(*                                                                         *)
(* The invariant says what a transaction that may still commit knows.  It  *)
(* is the only one, because it holds the lock, also while it is in doubt;  *)
(* so what it read of the receipt is still true when it commits.           *)
(***************************************************************************)
EXTENDS KeyedAdmission, TLAPS

\* The rows and what the calls keep of them.
Shape ==
    /\ request \in [Calls -> Requests]
    /\ lock \in Calls \cup {None}
    /\ doubt \subseteq Calls
    /\ receipts \in [Keys -> ReceiptRows \cup {None}]
    /\ result \in [Calls -> Answers \cup {None}]
    /\ AdmissionTypeOK

\* A call that has not reached its commit wrote nothing.
Unwritten ==
    \A c \in Calls : step[c] \in {"called", "preparing", "beginning", "inside", "committing"}
                     => runs[c] = "none" /\ c \notin doubt

\* A receipt names the run it was written with, and that run's request.
ReceiptOfRun ==
    \A k \in Keys : receipts[k] # None =>
        /\ request[receipts[k].run].key = k
        /\ receipts[k].fingerprint = fingerprintAdmission(request[receipts[k].run])

\* A run admitted under a key has the receipt.
RunHasReceipt ==
    \A c \in Calls : keyed(c) /\ runs[c] # "none" => admission(c) # None /\ admission(c).run = c

\* What a transaction that may still commit read is still so.
StagedIsCurrent ==
    \A c \in Calls : step[c] = "committing" \/ c \in doubt =>
        \/ staged[c] = "admission" /\ runs[c] = "none" /\ (keyed(c) => admission(c) = None)
        \/ /\ staged[c] = "receipt" /\ keyed(c) /\ admission(c) # None
           /\ admission(c).fingerprint = fingerprintAdmission(request[c])

\* A call knows whether its failure may have been a success.
CauseIsTrue ==
    \A c \in Calls : step[c] = "failed" =>
        /\ cause[c] # "unknown" => runs[c] = "none" /\ c \notin doubt
        /\ cause[c] = "conflict" => /\ keyed(c) /\ admission(c) # None
                                    /\ admission(c).fingerprint # fingerprintAdmission(request[c])

\* A keyed call that returned while it was in doubt said so, or was told of
\* an earlier run.
DoubtIsTold ==
    \A c \in doubt : /\ step[c] \in {"failed", "returned", "crashed"}
                     /\ keyed(c) /\ step[c] = "returned" => result[c].as \in {"unknown", "existing"}

AdmissionInv ==
    /\ Shape /\ Unwritten /\ ReceiptOfRun /\ RunHasReceipt /\ StagedIsCurrent
    /\ CauseIsTrue /\ DoubtIsTold /\ OneRunPerKey /\ FailureIsDefinite /\ RetriesAgree

-----------------------------------------------------------------------------
\* The key of a keyed call has a column in the receipts.
LEMMA KeyHasReceipt ==
    ASSUME Shape, NEW c \in Calls, keyed(c)
    PROVE  request[c].key \in Keys
  BY Zenon DEF Shape, keyed, Keys

\* No call has begun.
LEMMA InitHolds ==
    ASSUME AdmissionIdentities, AdmissionInit
    PROVE  AdmissionInv
<1>1. Shape
  BY Zenon DEF AdmissionIdentities, AdmissionInit, Shape, AdmissionTypeOK, Steps
<1>2. Unwritten /\ ReceiptOfRun /\ RunHasReceipt /\ StagedIsCurrent /\ CauseIsTrue /\ DoubtIsTold
  BY Zenon DEF AdmissionInit, Unwritten, ReceiptOfRun, RunHasReceipt, StagedIsCurrent, CauseIsTrue,
         DoubtIsTold
<1>3. OneRunPerKey /\ FailureIsDefinite /\ RetriesAgree
  BY Zenon DEF AdmissionInit, OneRunPerKey, FailureIsDefinite, RetriesAgree
<1>. QED  BY Zenon, <1>1, <1>2, <1>3 DEF AdmissionInv

\* A transaction that commits, at once or after a doubt: it was alone, and it
\* leaves every receipt that was there.
LEMMA AppliedKeeps ==
    ASSUME AdmissionIdentities, AdmissionInv, NEW c \in Calls, step[c] = "committing" \/ c \in doubt,
           applied(c), UNCHANGED request
    PROVE  /\ receipts' \in [Keys -> ReceiptRows \cup {None}]
           /\ ReceiptOfRun' /\ RunHasReceipt'
           /\ runs' \in [Calls -> {"none", "open", "terminal"}]
           /\ lock' = None
           /\ \A d \in Calls \ {c} : d \notin doubt /\ step[d] \notin {"inside", "committing"}
           /\ \A d \in Calls \ {c} : runs'[d] = runs[d]
           /\ staged[c] = "admission" => runs'[c] # "none"
           /\ staged[c] = "receipt" => keyed(c) /\ admission(c) # None /\ runs' = runs
           /\ \A d \in Calls : keyed(d) /\ admission(d) # None => admission(d)' = admission(d)
           /\ staged[c] \in {"admission", "receipt"}
           /\ keyed(c) => /\ admission(c)' # None
                          /\ admission(c)'.fingerprint = fingerprintAdmission(request[c])
<1>. USE DEF AdmissionInv
<1>1. /\ lock' = None
      /\ \A d \in Calls \ {c} : d \notin doubt /\ step[d] \notin {"inside", "committing"}
  BY Zenon DEF applied, Shape, AdmissionTypeOK
<1>2. CASE staged[c] = "receipt"
  <2>1. UNCHANGED <<identity, runs, receipts>>
    BY Zenon, <1>2 DEF applied
  <2>2. /\ keyed(c) /\ admission(c) # None
        /\ admission(c).fingerprint = fingerprintAdmission(request[c])
    BY Zenon, <1>2 DEF StagedIsCurrent
  <2>. QED
    BY Zenon, <1>1, <1>2, <2>1, <2>2
       DEF Shape, AdmissionTypeOK, ReceiptOfRun, RunHasReceipt, keyed, admission, fingerprintAdmission
<1>3. CASE staged[c] = "admission"
  <2>. DEFINE row == [run |-> c, fingerprint |-> fingerprintAdmission(request[c])]
  <2>1. writes(c)
    BY Zenon, <1>3 DEF applied
  <2>2. /\ row \in ReceiptRows /\ row # None /\ row.run = c
        /\ row.fingerprint = fingerprintAdmission(request[c])
    BY DEF Shape, ReceiptRows, AdmissionIdentities
  <2>3. keyed(c) => admission(c) = None
    BY Zenon, <1>3 DEF StagedIsCurrent
  <2>4. /\ runs' \in [Calls -> {"none", "open", "terminal"}]
        /\ runs'[c] = "open" /\ \A d \in Calls \ {c} : runs'[d] = runs[d]
    BY Zenon, <2>1 DEF writes, Shape, AdmissionTypeOK
  <2>5. CASE ~keyed(c)
    BY Zenon, <1>1, <1>3, <2>1, <2>4, <2>5
       DEF writes, Shape, ReceiptOfRun, RunHasReceipt, keyed, admission, fingerprintAdmission
  <2>6. CASE keyed(c)
    <3>1. receipts' = [receipts EXCEPT ![request[c].key] = row]
      BY Zenon, <2>1, <2>6 DEF writes
    <3>2. request[c].key \in Keys
      BY Zenon, <2>6, KeyHasReceipt
    <3>. HIDE DEF row
    <3>3. /\ receipts' \in [Keys -> ReceiptRows \cup {None}]
          /\ receipts'[request[c].key] = row
          /\ \A k \in Keys : k # request[c].key => receipts'[k] = receipts[k]
      BY Zenon, <2>2, <3>1, <3>2 DEF Shape
    <3>4. \A d \in Calls : keyed(d) => request[d].key \in Keys
      BY Zenon, KeyHasReceipt
    <3>5. ReceiptOfRun'
      BY ZenonT(60), <2>2, <3>2, <3>3 DEF ReceiptOfRun, fingerprintAdmission
    <3>6. \A d \in Calls : keyed(d) /\ admission(d) # None => admission(d)' = admission(d)
      BY Zenon, <2>3, <2>6, <3>3, <3>4 DEF keyed, admission
    <3>7. RunHasReceipt'
      BY <2>2, <2>4, <2>6, <3>3, <3>4, <3>6 DEF RunHasReceipt, keyed, admission
    <3>. QED
      BY Zenon, <1>1, <1>3, <2>2, <2>4, <2>6, <3>3, <3>5, <3>6, <3>7 DEF admission
  <2>. QED  BY Zenon, <2>5, <2>6
<1>. QED
  BY Zenon, <1>2, <1>3 DEF applied

\* What a call is told of a receipt is so.
LEMMA ExistingAnswer ==
    ASSUME Shape, ReceiptOfRun, NEW c \in Calls, keyed(c), admission(c) # None
    PROVE  LET answer == admissionResultForExisting(c, admission(c))
           IN  /\ answer \in Answers /\ answer.as \in {"existing", "conflict"}
               /\ agrees(c, answer)
<1>1. request[c].key \in Keys
  BY Zenon, KeyHasReceipt
<1>2. /\ admission(c) \in ReceiptRows
      /\ admission(c).fingerprint = fingerprintAdmission(request[admission(c).run])
  BY Zenon, <1>1 DEF Shape, ReceiptOfRun, admission
<1>3. admission(c).run \in Calls
  BY Zenon, <1>2 DEF ReceiptRows
<1>. QED
  BY <1>2, <1>3 DEF admissionResultForExisting, agrees, fingerprintAdmission, Answers, Outcomes

\* An answer that was true stays true while the receipts stay.
LEMMA AnswersStand ==
    ASSUME RetriesAgree, UNCHANGED request, NEW c \in Calls,
           keyed(c) /\ result[c] # None /\ admission(c) # None => admission(c)' = admission(c),
           keyed(c), result[c] # None, result'[c] = result[c]
    PROVE  agrees(c, result[c])'
  BY Zenon DEF RetriesAgree, agrees, keyed

\* The validations and the first lookup.
LEMMA StartKeeps ==
    ASSUME AdmissionIdentities, AdmissionInv, NEW c \in Calls, Start(c)
    PROVE  AdmissionInv'
<1>. USE DEF AdmissionInv, Start, return, admissible, database
<1>1. Shape'
  BY ExistingAnswer DEF Shape, AdmissionTypeOK, AdmissionIdentities, Answers, Outcomes, Steps
<1>2. Unwritten'
  BY ZenonT(60) DEF Unwritten, Shape, AdmissionTypeOK, DoubtIsTold
<1>3. ReceiptOfRun' /\ RunHasReceipt'
  BY Zenon DEF ReceiptOfRun, RunHasReceipt, keyed, admission, fingerprintAdmission
<1>4. StagedIsCurrent'
  BY DEF StagedIsCurrent, Unwritten, Shape, AdmissionTypeOK, keyed, admission, fingerprintAdmission
<1>5. CauseIsTrue'
  BY DEF CauseIsTrue, Unwritten, Shape, AdmissionTypeOK, keyed, admission, fingerprintAdmission
<1>6. DoubtIsTold'
  BY ZenonT(60) DEF DoubtIsTold, Shape, AdmissionTypeOK, Unwritten, keyed
<1>7. OneRunPerKey'
  BY <1>3, ExistingAnswer
     DEF OneRunPerKey, RunHasReceipt, Shape, AdmissionTypeOK, AdmissionIdentities, Answers, keyed,
         admission
<1>8. FailureIsDefinite'
  BY Zenon DEF FailureIsDefinite, Unwritten, Shape, AdmissionTypeOK, keyed
<1>9. RetriesAgree'
  <2>. SUFFICES ASSUME NEW d \in Calls, keyed(d), result'[d] # None
                PROVE  agrees(d, result'[d])
    BY Zenon DEF RetriesAgree, agrees, keyed, admission
  <2>1. CASE result'[d] = result[d]
    BY Zenon, <2>1 DEF RetriesAgree
  <2>2. CASE d = c /\ result'[d] # result[d]
    BY <2>2, ExistingAnswer DEF Shape, agrees
  <2>. QED
    BY Zenon, <2>1, <2>2 DEF Shape
<1>. QED  BY Zenon, <1>1, <1>2, <1>3, <1>4, <1>5, <1>6, <1>7, <1>8, <1>9

\* The plan and the model.
LEMMA PrepareKeeps ==
    ASSUME AdmissionIdentities, AdmissionInv, NEW c \in Calls, Prepare(c)
    PROVE  AdmissionInv'
<1>. USE DEF AdmissionInv, Prepare, failed, database
<1>1. Shape'
  BY DEF Shape, AdmissionTypeOK, AdmissionIdentities, Answers, Outcomes, Steps
<1>2. Unwritten'
  BY ZenonT(60) DEF Unwritten, Shape, AdmissionTypeOK, DoubtIsTold
<1>3. ReceiptOfRun' /\ RunHasReceipt'
  BY Zenon DEF ReceiptOfRun, RunHasReceipt, keyed, admission, fingerprintAdmission
<1>4. StagedIsCurrent'
  BY DEF StagedIsCurrent, Unwritten, Shape, AdmissionTypeOK, keyed, admission, fingerprintAdmission
<1>5. CauseIsTrue'
  BY DEF CauseIsTrue, Unwritten, Shape, AdmissionTypeOK, keyed, admission, fingerprintAdmission
<1>6. DoubtIsTold'
  BY Zenon DEF DoubtIsTold, Shape, AdmissionTypeOK, Unwritten, keyed
<1>7. OneRunPerKey'
  BY ZenonT(60), <1>3
     DEF OneRunPerKey, RunHasReceipt, Shape, AdmissionTypeOK, AdmissionIdentities, Answers, keyed,
         admission
<1>8. FailureIsDefinite'
  BY Zenon DEF FailureIsDefinite, Unwritten, Shape, AdmissionTypeOK, keyed
<1>9. RetriesAgree'
  BY Zenon DEF RetriesAgree, agrees, Shape, AdmissionTypeOK, keyed, admission
<1>. QED  BY Zenon, <1>1, <1>2, <1>3, <1>4, <1>5, <1>6, <1>7, <1>8, <1>9

\* The lock is free: no other transaction can still commit.
LEMMA LockKeeps ==
    ASSUME AdmissionIdentities, AdmissionInv, NEW c \in Calls, LockAdmissionSession(c)
    PROVE  AdmissionInv'
<1>. USE DEF AdmissionInv, LockAdmissionSession
<1>1. Shape'
  BY Zenon DEF Shape, AdmissionTypeOK, AdmissionIdentities, Answers, Outcomes, Steps
<1>2. Unwritten'
  BY ZenonT(60) DEF Unwritten, Shape, AdmissionTypeOK, DoubtIsTold
<1>3. ReceiptOfRun' /\ RunHasReceipt'
  BY Zenon DEF ReceiptOfRun, RunHasReceipt, keyed, admission, fingerprintAdmission
<1>4. StagedIsCurrent'
  BY Zenon DEF StagedIsCurrent, Unwritten, Shape, AdmissionTypeOK, keyed, admission, fingerprintAdmission
<1>5. CauseIsTrue'
  BY Zenon DEF CauseIsTrue, Unwritten, Shape, AdmissionTypeOK, keyed, admission, fingerprintAdmission
<1>6. DoubtIsTold'
  BY Zenon DEF DoubtIsTold, Shape, AdmissionTypeOK, Unwritten, keyed
<1>7. OneRunPerKey'
  BY ZenonT(60), <1>3
     DEF OneRunPerKey, RunHasReceipt, Shape, AdmissionTypeOK, AdmissionIdentities, Answers, keyed,
         admission
<1>8. FailureIsDefinite'
  BY Zenon DEF FailureIsDefinite, Unwritten, Shape, AdmissionTypeOK, keyed
<1>9. RetriesAgree'
  BY Zenon DEF RetriesAgree, agrees, Shape, AdmissionTypeOK, keyed, admission
<1>. QED  BY Zenon, <1>1, <1>2, <1>3, <1>4, <1>5, <1>6, <1>7, <1>8, <1>9

\* A transaction that never began.
LEMMA BeginFailsKeeps ==
    ASSUME AdmissionIdentities, AdmissionInv, NEW c \in Calls, BeginFails(c)
    PROVE  AdmissionInv'
<1>. USE DEF AdmissionInv, BeginFails, failed, database
<1>1. Shape'
  BY Zenon DEF Shape, AdmissionTypeOK, AdmissionIdentities, Answers, Outcomes, Steps
<1>2. Unwritten'
  BY ZenonT(60) DEF Unwritten, Shape, AdmissionTypeOK, DoubtIsTold
<1>3. ReceiptOfRun' /\ RunHasReceipt'
  BY Zenon DEF ReceiptOfRun, RunHasReceipt, keyed, admission, fingerprintAdmission
<1>4. StagedIsCurrent'
  BY ZenonT(60) DEF StagedIsCurrent, Unwritten, Shape, AdmissionTypeOK, keyed, admission, fingerprintAdmission
<1>5. CauseIsTrue'
  BY ZenonT(60) DEF CauseIsTrue, Unwritten, Shape, AdmissionTypeOK, keyed, admission, fingerprintAdmission
<1>6. DoubtIsTold'
  BY ZenonT(60) DEF DoubtIsTold, Shape, AdmissionTypeOK, Unwritten, keyed
<1>7. OneRunPerKey'
  BY ZenonT(60), <1>3
     DEF OneRunPerKey, RunHasReceipt, Shape, AdmissionTypeOK, AdmissionIdentities, Answers, keyed,
         admission
<1>8. FailureIsDefinite'
  BY Zenon DEF FailureIsDefinite, Unwritten, Shape, AdmissionTypeOK, keyed
<1>9. RetriesAgree'
  BY Zenon DEF RetriesAgree, agrees, Shape, AdmissionTypeOK, keyed, admission
<1>. QED  BY Zenon, <1>1, <1>2, <1>3, <1>4, <1>5, <1>6, <1>7, <1>8, <1>9

\* What is staged was read under the lock.
LEMMA AdmitKeeps ==
    ASSUME AdmissionIdentities, AdmissionInv, NEW c \in Calls, admitDurable(c)
    PROVE  AdmissionInv'
<1>. USE DEF AdmissionInv, failed, rollback
<1>1. Shape'
  <2>1. /\ step[c] = "inside" /\ UNCHANGED <<request, result, doubt, identity, runs, receipts>>
        /\ \/ /\ \E s \in {"admission", "receipt"} : staged' = [staged EXCEPT ![c] = s]
              /\ step' = [step EXCEPT ![c] = "committing"]
              /\ UNCHANGED <<cause, lock>>
           \/ /\ \E w \in {"refused", "conflict"} : cause' = [cause EXCEPT ![c] = w]
              /\ step' = [step EXCEPT ![c] = "failed"]
              /\ lock' = None /\ UNCHANGED staged
    BY Zenon DEF admitDurable
  <2>. QED
    BY <2>1 DEF Shape, AdmissionTypeOK, Steps, Unwritten
<1>2. Unwritten'
  BY ZenonT(60) DEF admitDurable, Unwritten, Shape, AdmissionTypeOK
<1>3. ReceiptOfRun' /\ RunHasReceipt'
  BY Zenon DEF admitDurable, ReceiptOfRun, RunHasReceipt, keyed, admission, fingerprintAdmission
<1>4. StagedIsCurrent'
  BY DEF admitDurable, admissionResultForExisting, StagedIsCurrent, Unwritten, Shape,
         AdmissionTypeOK, keyed, admission, fingerprintAdmission
<1>5. CauseIsTrue'
  BY DEF admitDurable, admissionResultForExisting, CauseIsTrue, Unwritten, Shape, AdmissionTypeOK,
         keyed, admission, fingerprintAdmission
<1>6. DoubtIsTold'
  BY ZenonT(60) DEF admitDurable, DoubtIsTold, Shape, AdmissionTypeOK, Unwritten, keyed
<1>7. OneRunPerKey'
  BY Zenon DEF admitDurable, OneRunPerKey, keyed
<1>8. FailureIsDefinite'
  BY Zenon DEF admitDurable, FailureIsDefinite, keyed
<1>9. RetriesAgree'
  BY Zenon DEF admitDurable, RetriesAgree, agrees, keyed, admission
<1>. QED  BY Zenon, <1>1, <1>2, <1>3, <1>4, <1>5, <1>6, <1>7, <1>8, <1>9

\* The lookup after a failure.
LEMMA ResolveKeeps ==
    ASSUME AdmissionIdentities, AdmissionInv, NEW c \in Calls, resolveFailedAdmission(c)
    PROVE  AdmissionInv'
<1>. USE DEF AdmissionInv, return, database
<1>1. Shape'
  <2>1. /\ step' = [step EXCEPT ![c] = "returned"]
        /\ \E a \in Answers : result' = [result EXCEPT ![c] = a]
        /\ UNCHANGED <<request, cause, staged, database>>
    BY Zenon, ExistingAnswer DEF resolveFailedAdmission, Answers, Outcomes
  <2>. QED
    BY <2>1 DEF Shape, AdmissionTypeOK, AdmissionIdentities, Answers, Steps
<1>2. Unwritten'
  BY ZenonT(60) DEF resolveFailedAdmission, Unwritten, Shape, AdmissionTypeOK
<1>3. ReceiptOfRun' /\ RunHasReceipt'
  BY Zenon DEF resolveFailedAdmission, ReceiptOfRun, RunHasReceipt, keyed, admission, fingerprintAdmission
<1>4. StagedIsCurrent'
  BY DEF resolveFailedAdmission, StagedIsCurrent, Shape, AdmissionTypeOK, keyed, admission,
         fingerprintAdmission
<1>5. CauseIsTrue'
  BY DEF resolveFailedAdmission, CauseIsTrue, Shape, AdmissionTypeOK, keyed, admission,
         fingerprintAdmission
<1>6. DoubtIsTold'
  BY DEF resolveFailedAdmission, admissionResultForExisting, DoubtIsTold, CauseIsTrue,
         StagedIsCurrent, Shape, AdmissionTypeOK, keyed, admission, fingerprintAdmission
<1>7. OneRunPerKey'
  BY ExistingAnswer DEF resolveFailedAdmission, OneRunPerKey, Shape, AdmissionTypeOK, keyed
<1>8. FailureIsDefinite'
  <2>. SUFFICES ASSUME NEW d \in Calls, keyed(d), result'[d] # None,
                       result'[d].as \in {"failed", "conflict"}
                PROVE  runs[d] = "none" /\ d \notin doubt
    BY Zenon DEF resolveFailedAdmission, FailureIsDefinite, keyed
  <2>1. CASE result'[d] = result[d]
    BY Zenon, <2>1 DEF FailureIsDefinite
  <2>2. CASE d = c /\ admission(c) = None
    BY <2>2 DEF resolveFailedAdmission, CauseIsTrue, Shape
  <2>3. CASE d = c /\ admission(c) # None /\ cause[c] # "unknown"
    BY Zenon, <2>3 DEF resolveFailedAdmission, CauseIsTrue
  <2>4. CASE d = c /\ admission(c) # None /\ cause[c] = "unknown"
    <3>1. admission(c).fingerprint # fingerprintAdmission(request[c])
      BY <2>4 DEF resolveFailedAdmission, admissionResultForExisting, Shape
    <3>2. runs[c] = "none"
      BY <2>4, <3>1, KeyHasReceipt DEF RunHasReceipt, ReceiptOfRun, admission
    <3>3. c \notin doubt
      BY Zenon, <2>4, <3>1 DEF StagedIsCurrent
    <3>. QED  BY Zenon, <2>4, <3>2, <3>3
  <2>. QED
    BY Zenon, <2>1, <2>2, <2>3, <2>4 DEF resolveFailedAdmission, Shape
<1>9. RetriesAgree'
  <2>. SUFFICES ASSUME NEW d \in Calls, keyed(d), result'[d] # None
                PROVE  agrees(d, result'[d])
    BY Zenon DEF resolveFailedAdmission, RetriesAgree, agrees, keyed, admission
  <2>1. CASE result'[d] = result[d]
    BY Zenon, <2>1 DEF RetriesAgree
  <2>2. CASE d = c /\ result'[d] # result[d]
    BY <2>2, ExistingAnswer DEF resolveFailedAdmission, CauseIsTrue, Shape, agrees
  <2>. QED
    BY Zenon, <2>1, <2>2 DEF resolveFailedAdmission, Shape
<1>. QED  BY Zenon, <1>1, <1>2, <1>3, <1>4, <1>5, <1>6, <1>7, <1>8, <1>9

\* A transaction in doubt commits or is rolled back.
LEMMA SettleKeeps ==
    ASSUME AdmissionIdentities, AdmissionInv, NEW c \in Calls, Settle(c)
    PROVE  AdmissionInv'
<1>. USE DEF AdmissionInv, Settle
<1>1. Shape'
  <2>1. /\ receipts' \in [Keys -> ReceiptRows \cup {None}]
        /\ runs' \in [Calls -> {"none", "open", "terminal"}] /\ lock' = None
    BY Zenon, AppliedKeeps DEF Shape, AdmissionTypeOK
  <2>2. \A d \in Calls : d \notin doubt' /\ step'[d] \notin {"inside", "committing"}
    BY ZenonT(60) DEF DoubtIsTold, Shape, AdmissionTypeOK
  <2>. QED
    BY Zenon, <2>1, <2>2 DEF Shape, AdmissionTypeOK
<1>2. Unwritten'
  BY Zenon, AppliedKeeps DEF Unwritten, DoubtIsTold, Shape
<1>3. ReceiptOfRun' /\ RunHasReceipt'
  BY ZenonT(60), AppliedKeeps DEF ReceiptOfRun, RunHasReceipt, keyed, admission, fingerprintAdmission
<1>4. StagedIsCurrent'
  <2>1. \A d \in Calls : step'[d] # "committing" /\ d \notin doubt'
    BY Zenon DEF DoubtIsTold, Shape, AdmissionTypeOK
  <2>. QED  BY Zenon, <2>1 DEF StagedIsCurrent
<1>5. CauseIsTrue'
  <2>1. ASSUME NEW d \in Calls, step[d] = "failed"
        PROVE  /\ cause[d] # "unknown" => runs'[d] = "none" /\ d \notin doubt'
               /\ keyed(d) /\ admission(d) # None => admission(d)' = admission(d)
    BY <2>1, AppliedKeeps, SMTT(60) DEF CauseIsTrue, admission
  <2>2. UNCHANGED <<request, step, cause>>
    BY Zenon
  <2>. HIDE DEF Settle
  <2>. QED
    BY Zenon, <2>1, <2>2 DEF CauseIsTrue, keyed, fingerprintAdmission
<1>6. DoubtIsTold'
  BY Zenon DEF DoubtIsTold, keyed
<1>7. OneRunPerKey'
  BY <1>3, AppliedKeeps DEF OneRunPerKey, RunHasReceipt, keyed, admission
<1>8. FailureIsDefinite'
  BY AppliedKeeps, SMTT(60) DEF FailureIsDefinite, DoubtIsTold, Shape, AdmissionTypeOK, keyed
<1>9. RetriesAgree'
  <2>1. UNCHANGED <<request, result>>
    BY Zenon
  <2>2. \A d \in Calls : keyed(d) /\ admission(d) # None => admission(d)' = admission(d)
    BY Zenon, AppliedKeeps DEF admission
  <2>3. ASSUME NEW d \in Calls, keyed(d), result[d] # None, agrees(d, result[d])
        PROVE  agrees(d, result[d])'
    BY Zenon, <2>1, <2>2, <2>3 DEF agrees
  <2>. QED  BY Zenon, <2>1, <2>3 DEF RetriesAgree, keyed
<1>. QED  BY Zenon, <1>1, <1>2, <1>3, <1>4, <1>5, <1>6, <1>7, <1>8, <1>9

\* A process dies; a transaction in doubt keeps its lock.
LEMMA CrashKeeps ==
    ASSUME AdmissionIdentities, AdmissionInv, NEW c \in Calls, Crash(c)
    PROVE  AdmissionInv'
<1>. USE DEF AdmissionInv, Crash
<1>1. Shape'
  BY DEF Shape, AdmissionTypeOK, AdmissionIdentities, Answers, Outcomes, Steps
<1>2. Unwritten'
  BY Zenon DEF Unwritten, Shape, AdmissionTypeOK, DoubtIsTold
<1>3. ReceiptOfRun' /\ RunHasReceipt'
  BY Zenon DEF ReceiptOfRun, RunHasReceipt, keyed, admission, fingerprintAdmission
<1>4. StagedIsCurrent'
  BY ZenonT(60) DEF StagedIsCurrent, Unwritten, Shape, AdmissionTypeOK, keyed, admission, fingerprintAdmission
<1>5. CauseIsTrue'
  BY Zenon DEF CauseIsTrue, Unwritten, Shape, AdmissionTypeOK, keyed, admission, fingerprintAdmission
<1>6. DoubtIsTold'
  BY ZenonT(60) DEF DoubtIsTold, Shape, AdmissionTypeOK, Unwritten, keyed
<1>7. OneRunPerKey'
  BY ZenonT(60), <1>3
     DEF OneRunPerKey, RunHasReceipt, Shape, AdmissionTypeOK, AdmissionIdentities, Answers, keyed,
         admission
<1>8. FailureIsDefinite'
  BY Zenon DEF FailureIsDefinite, Unwritten, Shape, AdmissionTypeOK, keyed
<1>9. RetriesAgree'
  BY Zenon DEF RetriesAgree, agrees, Shape, AdmissionTypeOK, keyed, admission
<1>. QED  BY Zenon, <1>1, <1>2, <1>3, <1>4, <1>5, <1>6, <1>7, <1>8, <1>9

\* A run that ends was admitted.
LEMMA RunEndsKeeps ==
    ASSUME AdmissionIdentities, AdmissionInv, NEW c \in Calls, RunEnds(c)
    PROVE  AdmissionInv'
<1>. USE DEF AdmissionInv, RunEnds
<1>1. Shape'
  BY Zenon DEF Shape, AdmissionTypeOK, AdmissionIdentities, Answers, Outcomes, Steps
<1>2. Unwritten'
  BY Zenon DEF Unwritten, Shape, AdmissionTypeOK, DoubtIsTold
<1>3. ReceiptOfRun' /\ RunHasReceipt'
  BY DEF ReceiptOfRun, RunHasReceipt, Shape, AdmissionTypeOK, keyed, admission, fingerprintAdmission
<1>4. StagedIsCurrent'
  BY ZenonT(60) DEF StagedIsCurrent, Unwritten, Shape, AdmissionTypeOK, keyed, admission, fingerprintAdmission
<1>5. CauseIsTrue'
  BY Zenon DEF CauseIsTrue, Unwritten, Shape, AdmissionTypeOK, keyed, admission, fingerprintAdmission
<1>6. DoubtIsTold'
  BY Zenon DEF DoubtIsTold, Shape, AdmissionTypeOK, Unwritten, keyed
<1>7. OneRunPerKey'
  BY <1>3
     DEF OneRunPerKey, RunHasReceipt, Shape, AdmissionTypeOK, AdmissionIdentities, Answers, keyed,
         admission
<1>8. FailureIsDefinite'
  BY Zenon DEF FailureIsDefinite, Unwritten, Shape, AdmissionTypeOK, keyed
<1>9. RetriesAgree'
  BY Zenon DEF RetriesAgree, agrees, Shape, AdmissionTypeOK, keyed, admission
<1>. QED  BY Zenon, <1>1, <1>2, <1>3, <1>4, <1>5, <1>6, <1>7, <1>8, <1>9

\* The four outcomes of the commit.
LEMMA CommitKeeps ==
    ASSUME AdmissionIdentities, AdmissionInv, NEW c \in Calls, Commit(c)
    PROVE  AdmissionInv'
<1>. USE DEF AdmissionInv, Commit, return, failed, rollback
<1>1. Shape'
  <2>1. /\ receipts' \in [Keys -> ReceiptRows \cup {None}]
        /\ runs' \in [Calls -> {"none", "open", "terminal"}]
        /\ lock' \in Calls \cup {None} /\ doubt' \subseteq Calls
    BY Zenon, AppliedKeeps DEF Shape, AdmissionTypeOK
  <2>2. applied(c) => admitted(c) \in Answers
    <3>1. CASE staged[c] = "admission"
      BY Zenon, <3>1 DEF admitted, Answers, Outcomes
    <3>2. CASE staged[c] = "receipt"
      BY Zenon, <3>2, KeyHasReceipt
         DEF StagedIsCurrent, Shape, ReceiptRows, admission, admitted, Answers, Outcomes
    <3>. QED  BY Zenon, <3>1, <3>2 DEF applied
  <2>3. \A d \in Calls : d \in doubt' \/ step'[d] \in {"inside", "committing"} => lock' = d
    BY DEF Unwritten, Shape, AdmissionTypeOK
  <2>4. /\ UNCHANGED <<request, staged>>
        /\ \/ /\ \E a \in Answers : result' = [result EXCEPT ![c] = a]
              /\ step' = [step EXCEPT ![c] = "returned"] /\ UNCHANGED cause
           \/ /\ \E w \in {"refused", "unknown"} : cause' = [cause EXCEPT ![c] = w]
              /\ step' = [step EXCEPT ![c] = "failed"] /\ UNCHANGED result
    BY Zenon, <2>2
  <2>5. step \in [Calls -> Steps] /\ step[c] = "committing"
    BY Zenon DEF Shape, AdmissionTypeOK
  <2>. HIDE DEF Commit
  <2>. QED
    BY <2>1, <2>3, <2>4, <2>5 DEF Shape, AdmissionTypeOK, AdmissionIdentities, Answers, Steps
<1>2. Unwritten'
  <2>1. step'[c] \in {"failed", "returned"} /\ \A d \in Calls \ {c} : step'[d] = step[d]
    BY ZenonT(60) DEF Shape, AdmissionTypeOK
  <2>2. \A d \in Calls \ {c} : runs'[d] = runs[d] /\ (d \in doubt' <=> d \in doubt)
    BY Zenon, AppliedKeeps DEF Shape, AdmissionTypeOK
  <2>. QED
    BY Zenon, <2>1, <2>2 DEF Unwritten
<1>3. ReceiptOfRun' /\ RunHasReceipt'
  BY ZenonT(60), AppliedKeeps DEF ReceiptOfRun, RunHasReceipt, keyed, admission, fingerprintAdmission
<1>4. StagedIsCurrent'
  <2>1. \A d \in Calls : step'[d] # "committing"
    BY ZenonT(60) DEF Shape, AdmissionTypeOK
  <2>2. \A d \in Calls : d \in doubt' => d = c /\ UNCHANGED <<identity, runs, receipts>>
    BY DEF Shape, AdmissionTypeOK, Unwritten
  <2>. QED
    BY Zenon, <2>1, <2>2 DEF StagedIsCurrent, keyed, admission, fingerprintAdmission
<1>5. CauseIsTrue'
  <2>1. ASSUME NEW d \in Calls \ {c}
        PROVE  /\ step'[d] = step[d] /\ cause'[d] = cause[d] /\ runs'[d] = runs[d]
               /\ d \in doubt' <=> d \in doubt
               /\ keyed(d) /\ admission(d) # None => admission(d)' = admission(d)
    BY AppliedKeeps, SMTT(60) DEF Shape, AdmissionTypeOK, admission
  <2>2. step'[c] = "failed" /\ cause'[c] # "unknown"
        => cause'[c] = "refused" /\ runs'[c] = "none" /\ c \notin doubt'
    BY ZenonT(60) DEF Shape, AdmissionTypeOK, Unwritten
  <2>. HIDE DEF Commit
  <2>3. UNCHANGED request
    BY Zenon DEF Commit
  <2>. QED
    BY ZenonT(60), <2>1, <2>2, <2>3 DEF CauseIsTrue, keyed, fingerprintAdmission
<1>6. DoubtIsTold'
  BY DEF DoubtIsTold, Shape, AdmissionTypeOK, Unwritten, keyed
<1>7. OneRunPerKey'
  BY <1>3, AppliedKeeps, SMTT(60)
     DEF admitted, OneRunPerKey, RunHasReceipt, Shape, AdmissionTypeOK, keyed, admission
<1>8. FailureIsDefinite'
  BY AppliedKeeps, SMTT(60) DEF admitted, FailureIsDefinite, Shape, AdmissionTypeOK, keyed
<1>9. RetriesAgree'
  <2>. SUFFICES ASSUME NEW d \in Calls, keyed(d), result'[d] # None
                PROVE  agrees(d, result[d])'
    BY Zenon DEF RetriesAgree, keyed
  <2>1. keyed(d) /\ admission(d) # None => admission(d)' = admission(d)
    BY Zenon, AppliedKeeps DEF admission
  <2>2. CASE result'[d] = result[d]
    BY Zenon, <2>1, <2>2, AnswersStand
  <2>3. CASE d = c /\ result'[d] # result[d] /\ staged[c] = "admission"
    BY <2>3 DEF admitted, agrees, Shape
  <2>4. CASE d = c /\ result'[d] # result[d] /\ staged[c] = "receipt"
    <3>1. admission(c) # None /\ result'[c] = admissionResultForExisting(c, admission(c))
      BY Zenon, <2>4 DEF StagedIsCurrent, admitted, admissionResultForExisting, Shape
    <3>2. agrees(c, result'[c])
      BY Zenon, <2>4, <3>1, ExistingAnswer
    <3>. QED
      BY ZenonT(60), <2>1, <2>4, <3>1, <3>2 DEF agrees
  <2>. QED
    BY Zenon, <2>2, <2>3, <2>4 DEF applied, Shape
<1>. QED  BY Zenon, <1>1, <1>2, <1>3, <1>4, <1>5, <1>6, <1>7, <1>8, <1>9

-----------------------------------------------------------------------------
\* Every step, of a call, the database, a process or a run, keeps the invariant.
LEMMA NextKeeps ==
    ASSUME AdmissionIdentities, AdmissionInv, [AdmissionNext]_admissionVars
    PROVE  AdmissionInv'
<1>1. CASE UNCHANGED admissionVars
  BY ZenonT(60), <1>1
     DEF admissionVars, AdmissionInv, Shape, AdmissionTypeOK, Unwritten, ReceiptOfRun, RunHasReceipt,
         StagedIsCurrent, CauseIsTrue, DoubtIsTold, OneRunPerKey, FailureIsDefinite, RetriesAgree,
         agrees, keyed, admission
<1>2. ASSUME NEW c \in Calls, Call(c) \/ BeginFails(c) \/ Settle(c) \/ Crash(c) \/ RunEnds(c)
      PROVE  AdmissionInv'
  BY Zenon, <1>2, StartKeeps, PrepareKeeps, LockKeeps, BeginFailsKeeps, AdmitKeeps, CommitKeeps, ResolveKeeps,
     SettleKeeps, CrashKeeps, RunEndsKeeps DEF Call
<1>. QED  BY Zenon, <1>1, <1>2 DEF AdmissionNext

\* What the calls of Start know of each other and of the database holds at
\* every moment: the lookups, the lock, the lost acknowledgements.
THEOREM AdmissionInvariant == AdmissionIdentities => (AdmissionSpec => []AdmissionInv)
<1>. SUFFICES ASSUME AdmissionIdentities PROVE AdmissionSpec => []AdmissionInv
  BY Zenon
<1>1. AdmissionInit => AdmissionInv
  BY Zenon, InitHolds
<1>2. AdmissionInv /\ [AdmissionNext]_admissionVars => AdmissionInv'
  BY Zenon, NextKeeps
<1>. QED  BY <1>1, <1>2, PTL DEF AdmissionSpec

\* The state keeps its shape, and a transaction that is open or in doubt holds
\* the lock of the session (LockAdmissionSession).
THEOREM AdmissionTyped == AdmissionIdentities => (AdmissionSpec => []AdmissionTypeOK)
<1>1. AdmissionInv => AdmissionTypeOK
  BY Zenon DEF AdmissionInv, Shape
<1>. QED  BY <1>1, AdmissionInvariant, PTL

\* However many calls use a key, and whatever is lost between them and the
\* database, one run is admitted under it (Start, RecordAdmission).
THEOREM KeyAdmitsOnce == AdmissionIdentities => (AdmissionSpec => []OneRunPerKey)
<1>1. AdmissionInv => OneRunPerKey
  BY Zenon DEF AdmissionInv
<1>. QED  BY <1>1, AdmissionInvariant, PTL

\* A keyed call that reports a definite failure admitted nothing and never
\* will (resolveFailedAdmission).
THEOREM FailuresDefinite == AdmissionIdentities => (AdmissionSpec => []FailureIsDefinite)
<1>1. AdmissionInv => FailureIsDefinite
  BY Zenon DEF AdmissionInv
<1>. QED  BY <1>1, AdmissionInvariant, PTL

\* Calls with one key are told of the same run, or of the difference between
\* their requests (admissionResultForExisting).
THEOREM RetriesAgreeAlways == AdmissionIdentities => (AdmissionSpec => []RetriesAgree)
<1>1. AdmissionInv => RetriesAgree
  BY Zenon DEF AdmissionInv
<1>. QED  BY <1>1, AdmissionInvariant, PTL

\* What Start answers a keyed call is true for ever, with lost
\* acknowledgements, crashes, retries and any number of concurrent calls
\* (resolveFailedAdmission, admissionResultForExisting).
THEOREM AnswersAlwaysTrue == AdmissionIdentities => (AdmissionSpec => []AnswersAreTrue)
  BY FailuresDefinite, RetriesAgreeAlways, PTL DEF AnswersAreTrue
=============================================================================
