------------------------ MODULE ModelDispatchProofs ------------------------
(***************************************************************************)
(* Proofs about ModelDispatch, for any numbers of attempts, models, nodes, *)
(* resumes and faults: the ledger is truthful, no call follows output that *)
(* was shown, and an approval is decided once.  They hold as long as the   *)
(* acknowledgement of an answer's commit is not lost: when it is, the      *)
(* adapter takes the answer for uncommitted and calls the provider again.  *)
(***************************************************************************)
EXTENDS ModelDispatch, SequenceTheorems, TLAPS

\* The bounds, and that a commit is acknowledged when it takes place.
AcksArrive == DispatchBounds /\ "commit" \notin LostAcks

-----------------------------------------------------------------------------
(* The inductive invariant.                                                *)

\* Where a node may stand between two steps.
Moving == {"node", "begin", "claimed", "prepared", "started", "dispatch", "calling",
           "answered", "uncommitted", "committed", "tools", "asking", "pausing"}
Places == Moving \cup Resting

RowType     == [state : RowStates, msg : Nat, calls : Nat, charged : Nat, durable : BOOLEAN]
AdapterType == [msg : Nat, need : BOOLEAN]
EngineType  == [used : BOOLEAN, failed : Nat, emitted : BOOLEAN]
CallType    == [at : Places, who : Adapters, try : 1 .. Attempts, node : 1 .. Nodes,
                answer : Answers \cup {"none"}, heard : BOOLEAN]
RecordType  == [status : {"pending", "decided"}, decision : Decisions \cup {"none"},
                responses : Nat]
ResumeType  == [n : Nat, decision : Decisions \cup {"none"}, active : BOOLEAN]

Types ==
    /\ ledger \in Seq(RowType) /\ commits \in Seq(Nat)
    /\ adapter \in [Adapters -> AdapterType] /\ engine \in EngineType
    /\ call \in CallType
    /\ approvals \in Seq(RecordType) /\ checkpoint \in Nat /\ resume \in ResumeType
    /\ replaced \in SUBSET (Nat \X Nat) /\ resumed \in SUBSET (Nat \X Nat)

\* Where the last row of the ledger belongs to the adapter that runs.
Rowed    == {"prepared", "started", "dispatch", "calling", "answered", "uncommitted", "committed"}
Sent     == {"calling", "answered", "uncommitted", "committed"}
\* Where a message was claimed and nothing has been committed to it.
Claimed  == ({"claimed"} \cup Rowed) \ {"committed"}
\* Where an engine that stopped can be: its rows are never looked at again.
Stopped  == {"paused", "interrupted"}

\* What holds of every row at every moment.
RowTrue(r) ==
    /\ r.calls \in 0 .. 1 /\ r.charged <= r.calls
    /\ r.calls = 1 => r.state # "prepared"
    /\ r.state = "completed" \/ r.durable => r.calls = 1

\* The rows: every one but the last, which an adapter may be at work on, is
\* charged for the call it stands for.
Rows ==
    /\ \A i \in 1 .. Len(ledger) : RowTrue(ledger[i]) /\ ledger[i].msg \in 1 .. Len(commits)
    /\ call.at \notin Stopped =>
         \A i \in 1 .. Len(ledger) :
            i < Len(ledger) \/ call.at \notin Rowed => ledger[i].charged = ledger[i].calls
    /\ call.at \in Rowed =>
         /\ Len(ledger) > 0
         /\ ledger[Row].state = IF call.at = "prepared" THEN "prepared" ELSE "dispatch_started"
         /\ ledger[Row].calls = IF call.at \in Sent THEN 1 ELSE 0
         /\ ledger[Row].charged = 0
         /\ ledger[Row].durable <=> call.at = "committed"
         /\ ledger[Row].msg = Mine.msg

\* An adapter that may write to its message again finds it empty.
Unanswered(a) == adapter[a].msg # 0 /\ ~adapter[a].need => commits[adapter[a].msg] = 0

\* The messages: adapters write to messages of their own, and the placeholder
\* belongs to nobody as long as it counts as unused.
Messages ==
    /\ Len(commits) > 0
    /\ \A m \in 1 .. Len(commits) : commits[m] <= 1
    /\ \A a \in Adapters : adapter[a].msg <= Len(commits)
    /\ \A a, b \in Adapters : adapter[a].msg # 0 /\ adapter[a].msg = adapter[b].msg => a = b
    /\ ~engine.used => commits[1] = 0 /\ \A a \in Adapters : adapter[a].msg # 1
    /\ call.at \in Claimed \cup {"node", "begin", "tools"} => \A a \in Adapters : Unanswered(a)
    /\ call.at = "committed" =>
         /\ \A a \in Adapters : a # call.who => Unanswered(a)
         /\ call.answer = "calls" => Mine.need
    /\ call.at \in Claimed => Mine.msg # 0 /\ ~Mine.need

\* The attempts: the failed attempt that waits for its replacement is an
\* earlier row that carries no answer and has not been replaced.
Attempted ==
    /\ \A p \in replaced :
         /\ p[1] \in 1 .. Len(ledger) /\ p[2] \in 1 .. Len(ledger) /\ p[1] < p[2]
         /\ ~ledger[p[1]].durable
         /\ \A q \in replaced : p[1] = q[1] => p = q
    /\ engine.failed # 0 =>
         /\ engine.failed <= Len(ledger) /\ ~ledger[engine.failed].durable
         /\ \A p \in replaced : p[1] # engine.failed
         /\ call.at \in Rowed => engine.failed < Len(ledger)
         /\ call.at \notin {"dispatch", "tools"} \cup Sent

\* The resumption: it is announced once, by a row that was started.
Announced ==
    /\ \A p, q \in resumed : p = q
    /\ ~engine.emitted => resumed = {}
    /\ \A p \in resumed :
         /\ p[1] <= call.node
         /\ p[1] = call.node => p[2] \in 1 .. Len(ledger) /\ ledger[p[2]].state # "prepared"

\* Output and approvals: nothing was shown of a node that may still call its
\* provider, a run that was paused has an approval to wait for, a node whose
\* tools run is not the last, and a record has one response when it is decided
\* and none before.
Decided ==
    /\ call.at \in Claimed \cup {"node", "begin"} => ~call.heard
    /\ checkpoint <= Len(approvals)
    /\ resume.active \/ call.at = "paused" => checkpoint # 0
    /\ call.at = "pausing" => Len(approvals) # 0
    /\ call.at = "tools" => call.node < Nodes
    /\ \A i \in 1 .. Len(approvals) :
         approvals[i].responses = IF approvals[i].status = "decided" THEN 1 ELSE 0

DispatchInv == Types /\ Rows /\ Messages /\ Attempted /\ Announced /\ Decided

-----------------------------------------------------------------------------
(* What the wrappers do with an error.                                     *)

Errors == {"plain", "partial", "committed", "interrupt"}

\* An error ends the node, pauses it, or leads to another attempt, by this
\* adapter or by one that starts afresh; only a plain one leads there.
LEMMA RaisesShape ==
    ASSUME AcksArrive, Types, NEW err \in Errors, raises(err)
    PROVE  /\ call' \in CallType /\ call'.node = call.node
           /\ adapter' \in [Adapters -> AdapterType]
           /\ call'.at \in {"node", "pausing", "failed"}
           /\ call'.at = "node" => err = "plain" /\ call'.heard = call.heard
           /\ call'.at = "pausing" => err = "interrupt"
           /\ \A a \in Adapters : adapter'[a] = adapter[a] \/ adapter'[a] = fresh
<1>. USE DEF AcksArrive, DispatchBounds, Types, CallType, AdapterType, Adapters, Places, Moving,
             Resting, fresh
<1>0. ASSUME NEW try \in 1 .. Attempts, NEW who \in Adapters, err = "plain", again(try, who, err)
      PROVE  call' = [call EXCEPT !.at = "node", !.try = try, !.who = who]
  <2>1. (call.heard \/ err = "partial") = call.heard
    BY Zenon, <1>0
  <2>. QED  BY Zenon, <1>0, <2>1 DEF again
<1>1. CASE retries(err) /\ retry(err) /\ UNCHANGED adapter
  <2>1. err = "plain" /\ call.try + 1 \in 1 .. Attempts /\ call.who \in Adapters
    BY <1>1 DEF retries, defaultShouldRetry
  <2>2. call' = [call EXCEPT !.at = "node", !.try = call.try + 1, !.who = call.who]
    BY Zenon, <1>0, <1>1, <2>1 DEF retry
  <2>. QED  BY Zenon, <1>1, <2>1, <2>2
<1>2. CASE failsOver(err) /\ again(1, call.who + 1, err)
           /\ adapter' = [adapter EXCEPT ![call.who + 1] = fresh]
  <2>1. err = "plain" /\ 1 \in 1 .. Attempts /\ call.who + 1 \in Adapters
    BY <1>2, SMTT(60) DEF failsOver, defaultShouldFailover
  <2>2. call' = [call EXCEPT !.at = "node", !.try = 1, !.who = call.who + 1]
    BY Zenon, <1>0, <1>2, <2>1
  <2>. QED  BY Zenon, <1>2, <2>1, <2>2
<1>3. CASE /\ ~retries(err) /\ ~failsOver(err)
           /\ goes(IF err = "interrupt" THEN "pausing" ELSE "failed")
           /\ UNCHANGED adapter
  BY Zenon, <1>3 DEF goes
<1>. QED  BY Zenon, <1>1, <1>2, <1>3 DEF raises

\* An error leaves the messages as they are: an adapter that tries again may
\* still write to its message, and one that starts afresh has none.
LEMMA RaisesMessages ==
    ASSUME AcksArrive, Types, Messages, NEW err \in Errors, raises(err), commits' = commits,
           engine'.used = engine.used, err = "plain" => \A a \in Adapters : Unanswered(a)
    PROVE  Messages'
<1>1. /\ call'.at \in {"node", "pausing", "failed"} /\ (call'.at = "node" => err = "plain")
      /\ \A a \in Adapters : adapter'[a] = adapter[a] \/ adapter'[a] = fresh
  BY Zenon, RaisesShape
<1>. USE DEF fresh
<1>2. \A a, b \in Adapters : adapter'[a].msg # 0 /\ adapter'[a].msg = adapter'[b].msg => a = b
  BY <1>1 DEF Messages
<1>3. ~engine'.used => commits'[1] = 0 /\ \A a \in Adapters : adapter'[a].msg # 1
  BY <1>1 DEF Messages
<1>4. call'.at = "node" => \A a \in Adapters : Unanswered(a)'
  BY <1>1 DEF Unanswered
<1>5. \A a \in Adapters : adapter'[a].msg <= Len(commits')
  <2>1. Len(commits) \in Nat /\ Len(commits') = Len(commits)
    BY Zenon, LenProperties DEF Types
  <2>. QED  BY <1>1, <2>1 DEF Messages
<1>6. call'.at \notin Claimed \cup {"begin", "tools", "committed"}
  BY Zenon, <1>1 DEF Claimed, Rowed
<1>. QED  BY Zenon, <1>2, <1>3, <1>4, <1>5, <1>6 DEF Messages

-----------------------------------------------------------------------------
\* The invariant holds at the start.
LEMMA InitHolds == AcksArrive /\ DispatchInit => DispatchInv
<1>. SUFFICES ASSUME AcksArrive, DispatchInit PROVE DispatchInv
  BY Zenon
<1>. USE DEF DispatchInit, AcksArrive, DispatchBounds
<1>1. Types
  BY DEF Types, RowType, AdapterType, EngineType, CallType, RecordType, ResumeType, Places, Moving,
         Adapters, fresh, firstNode
<1>2. Rows
  BY DEF Rows, firstNode, Rowed
<1>3. Messages
  BY DEF Messages, firstNode, fresh, Claimed, Rowed, Unanswered
<1>4. Attempted /\ Announced
  BY Zenon DEF Attempted, Announced, firstNode
<1>5. Decided
  BY DEF Decided, firstNode
<1>. QED  BY Zenon, <1>1, <1>2, <1>3, <1>4, <1>5 DEF DispatchInv

-----------------------------------------------------------------------------
(* Facts about the rows and records that the steps share.                  *)

\* What the types say of the lengths, rows and records.
LEMMA Basics ==
    ASSUME Types
    PROVE  /\ Len(ledger) \in Nat /\ Len(commits) \in Nat /\ Len(approvals) \in Nat
           /\ \A i \in 1 .. Len(ledger) : ledger[i] \in RowType
           /\ \A m \in 1 .. Len(commits) : commits[m] \in Nat
           /\ \A i \in 1 .. Len(approvals) : approvals[i] \in RecordType
           /\ call.who \in Adapters /\ Mine \in AdapterType /\ call.at \in Places
  BY Zenon, LenProperties, ElementOfSeq DEF Types, CallType, Mine

\* Writing the last row leaves the others.
LEMMA RowWritten ==
    ASSUME Types, Len(ledger) > 0, NEW r \in RowType, row(r)
    PROVE  /\ ledger' \in Seq(RowType) /\ Len(ledger') = Len(ledger)
           /\ ledger'[Len(ledger)] = r
           /\ \A i \in 1 .. Len(ledger) : i # Len(ledger) => ledger'[i] = ledger[i]
<1>1. Len(ledger) \in 1 .. Len(ledger)
  BY LenProperties DEF Types
<1>. QED  BY <1>1, ExceptSeq DEF Types, row, Row

\* A record is decided with one response, or left as it is.
RecordsKept ==
    /\ approvals' \in Seq(RecordType) /\ Len(approvals') = Len(approvals)
    /\ \A i \in 1 .. Len(approvals) :
         /\ approvals'[i].responses = IF approvals'[i].status = "decided" THEN 1 ELSE 0
         /\ approvals[i].status = "decided" => approvals'[i] = approvals[i]

\* Records that are left alone are kept.
LEMMA RecordsUnchanged ==
    ASSUME Types, Decided, approvals' = approvals
    PROVE  RecordsKept
  BY Zenon DEF RecordsKept, Types, Decided

\* Deciding the pending record leaves the others, and has one response.
LEMMA RecordDecided ==
    ASSUME Types, Decided, checkpoint # 0, approvals[checkpoint].status = "pending",
           NEW d \in Decisions, decided(d, 1)
    PROVE  RecordsKept
<1>1. checkpoint \in 1 .. Len(approvals)
  BY LenProperties DEF Types, Decided
<1>2. approvals[checkpoint] \in RecordType /\ approvals[checkpoint].responses = 0
  BY Zenon, <1>1, ElementOfSeq DEF Types, Decided
<1>3. [status |-> "decided", decision |-> d, responses |-> 0 + 1] \in RecordType
  BY DEF RecordType
<1>4. approvals' = [approvals EXCEPT ![checkpoint] =
                       [status |-> "decided", decision |-> d, responses |-> 0 + 1]]
  BY Zenon, <1>2 DEF decided
<1>. QED  BY <1>1, <1>2, <1>3, <1>4, ExceptSeq DEF RecordsKept, Types, Decided

-----------------------------------------------------------------------------
(* Every step keeps the invariant.                                         *)

\* What Prepare does: it goes on, or it raises an error, and it decides at most
\* one record.
LEMMA PrepareShape ==
    ASSUME AcksArrive, DispatchInv, Prepare
    PROVE  /\ RecordsKept
           /\ \/ goes("begin") /\ adapter' = adapter
              \/ needsMessage
              \/ raises("plain")
              \/ raises("interrupt") /\ checkpoint # 0
<1>. USE DEF DispatchInv
<1>1. CASE ~resume.active /\ goes("begin") /\ UNCHANGED <<adapter, approvals>>
  BY Zenon, <1>1, RecordsUnchanged
<1>2. CASE resume.active /\ raises("interrupt") /\ UNCHANGED approvals
  BY Zenon, <1>2, RecordsUnchanged DEF Decided
<1>3. CASE resume.active /\ resume.decision \in Decisions /\ prepareTargeted
  <2>1. CASE approvals[checkpoint].status = "pending" /\ commitDecision(resume.decision)
    <3>1. checkpoint # 0
      BY Zenon, <1>3 DEF Decided
    <3>. QED  BY Zenon, <1>3, <2>1, <3>1, RecordDecided, RecordsUnchanged DEF commitDecision
  <2>2. CASE UNCHANGED approvals /\ (needsMessage \/ raises("plain"))
    BY Zenon, <2>2, RecordsUnchanged
  <2>. QED  BY Zenon, <1>3, <2>1, <2>2 DEF prepareTargeted
<1>. QED  BY Zenon, <1>1, <1>2, <1>3 DEF Prepare

\* goes moves the call and keeps what it heard.
LEMMA GoesShape ==
    ASSUME Types, NEW pc \in Places, goes(pc)
    PROVE  call' \in CallType /\ call'.at = pc /\ call'.who = call.who /\ call'.node = call.node
           /\ call'.heard = call.heard /\ call'.answer = call.answer
  BY Zenon DEF goes, Types, CallType

\* needsMessage only asks for another message.
LEMMA NeedsShape ==
    ASSUME Types, needsMessage
    PROVE  /\ adapter' \in [Adapters -> AdapterType]
           /\ \A a \in Adapters : adapter'[a].msg = adapter[a].msg /\ (adapter[a].need => adapter'[a].need)
<1>. DEFINE r == [Mine EXCEPT !.need = TRUE]
<1>1. call.who \in Adapters /\ Mine \in AdapterType
  BY Zenon, Basics
<1>2. r \in AdapterType /\ r.msg = Mine.msg /\ r.need
  BY Zenon, <1>1 DEF AdapterType
<1>3. adapter' = [adapter EXCEPT ![call.who] = r]
  BY Zenon DEF needsMessage, Mine
<1>. HIDE DEF r
<1>. QED  BY Zenon, <1>1, <1>2, <1>3 DEF Types, Mine

\* Starting a node, with a resumed decision or without.
LEMMA PrepareKeeps ==
    ASSUME AcksArrive, DispatchInv, Prepare
    PROVE  DispatchInv'
<1>1. /\ call.at = "node"
      /\ UNCHANGED <<ledger, commits, engine, checkpoint, resume, replaced, resumed>>
  BY Zenon DEF Prepare, at
<1>2. /\ call' \in CallType /\ call'.node = call.node
      /\ adapter' \in [Adapters -> AdapterType]
      /\ call'.at \in {"node", "begin", "pausing", "failed"}
      /\ call'.at \in {"node", "begin"} => call'.heard = call.heard
      /\ call'.at = "pausing" => checkpoint # 0
  <2>0. \/ goes("begin") /\ (adapter' = adapter \/ needsMessage)
        \/ raises("plain") \/ (raises("interrupt") /\ checkpoint # 0)
    <3>1. needsMessage => goes("begin")
      BY Zenon DEF needsMessage
    <3>2. \/ goes("begin") /\ adapter' = adapter
          \/ needsMessage
          \/ raises("plain")
          \/ raises("interrupt") /\ checkpoint # 0
      BY Zenon, PrepareShape
    <3>. QED  BY Zenon, <3>1, <3>2
  <2>1. CASE goes("begin") /\ (adapter' = adapter \/ needsMessage)
    <3>1. "begin" \in Places
      BY Zenon DEF Places, Moving
    <3>. QED  BY Zenon, <2>1, <3>1, GoesShape, NeedsShape DEF DispatchInv, Types
  <2>2. CASE raises("plain") \/ (raises("interrupt") /\ checkpoint # 0)
    BY Zenon, <2>2, RaisesShape DEF Errors, DispatchInv
  <2>. QED  BY Zenon, <2>0, <2>1, <2>2
<1>3. Messages'
  <2>1. CASE goes("begin") /\ (adapter' = adapter \/ needsMessage)
    <3>1. call'.at = "begin"
      BY Zenon, <2>1, GoesShape DEF DispatchInv, Places, Moving
    <3>2. \A a \in Adapters : adapter'[a].msg = adapter[a].msg /\ (adapter[a].need => adapter'[a].need)
      BY Zenon, <2>1, NeedsShape DEF DispatchInv
    <3>. QED  BY ZenonT(60), <1>1, <3>1, <3>2 DEF DispatchInv, Messages, Unanswered, Claimed, Rowed
  <2>2. CASE raises("plain") \/ raises("interrupt")
    BY Zenon, <1>1, <2>2, RaisesMessages DEF Errors, DispatchInv, Messages
  <2>3. goes("begin") \/ ~needsMessage
    BY Zenon DEF needsMessage
  <2>. QED  BY Zenon, <2>1, <2>2, <2>3, PrepareShape
<1>4. Types'
  BY Zenon, <1>1, <1>2, PrepareShape DEF DispatchInv, Types, RecordsKept
<1>5. Rows'
  BY Zenon, <1>1, <1>2 DEF DispatchInv, Rows, Rowed, Stopped
<1>6. Attempted' /\ Announced'
  BY Zenon, <1>1, <1>2 DEF DispatchInv, Attempted, Announced, Rowed, Sent
<1>7. Decided'
  BY <1>1, <1>2, PrepareShape, Basics DEF DispatchInv, Decided, RecordsKept, Claimed, Rowed, Types
<1>. QED  BY Zenon, <1>3, <1>4, <1>5, <1>6, <1>7 DEF DispatchInv

\* What an error leaves behind: the rows say no less than before and are
\* charged for, a remembered attempt is one of them, and another attempt is
\* made only while nothing was shown or committed.
ErrorLeaves(err) ==
    /\ UNCHANGED <<commits, approvals, checkpoint, resume, replaced>>
    /\ ledger' \in Seq(RowType) /\ Len(ledger') = Len(ledger)
    /\ \A i \in 1 .. Len(ledger) :
         /\ RowTrue(ledger'[i]) /\ ledger'[i].msg = ledger[i].msg
         /\ ledger'[i].durable = ledger[i].durable /\ ledger'[i].charged = ledger'[i].calls
         /\ ledger[i].state # "prepared" => ledger'[i].state # "prepared"
    /\ engine' \in EngineType /\ engine'.used = engine.used
    /\ engine'.failed # 0 =>
         /\ engine'.failed \in 1 .. Len(ledger) /\ ~ledger[engine'.failed].durable
         /\ \A p \in replaced : p[1] # engine'.failed
    /\ resumed' \in SUBSET (Nat \X Nat) /\ (\A p, q \in resumed' : p = q)
    /\ ~engine'.emitted => resumed' = {}
    /\ \A p \in resumed' :
         p \in resumed \/ (p = <<call.node, Row>> /\ Row > 0 /\ ledger'[Row].state # "prepared")
    /\ err = "plain" => ~call.heard /\ \A a \in Adapters : Unanswered(a)

\* An error the adapter raises: retried, failed over or final.
LEMMA ErrorKeeps ==
    ASSUME AcksArrive, DispatchInv, NEW err \in Errors \ {"interrupt"}, raises(err), ErrorLeaves(err)
    PROVE  DispatchInv'
<1>1. /\ call' \in CallType /\ call'.node = call.node
      /\ adapter' \in [Adapters -> AdapterType]
      /\ call'.at \in {"node", "failed"}
      /\ call'.at = "node" => ~call'.heard
  BY Zenon, RaisesShape DEF DispatchInv, Errors, ErrorLeaves
<1>2. Types'
  BY Zenon, <1>1 DEF ErrorLeaves, Types, DispatchInv
<1>3. Messages'
  BY Zenon, RaisesMessages DEF ErrorLeaves, DispatchInv
<1>4. Rows'
  BY Zenon, <1>1 DEF ErrorLeaves, Rows, DispatchInv, Rowed, Stopped
<1>5. Attempted'
  <2>1. \A p \in replaced : p[1] \in 1 .. Len(ledger) /\ ~ledger'[p[1]].durable
    BY Zenon DEF ErrorLeaves, Attempted, DispatchInv
  <2>2. engine'.failed # 0 => engine'.failed \in 1 .. Len(ledger) /\ ~ledger'[engine'.failed].durable
    BY Zenon DEF ErrorLeaves
  <2>. QED  BY <1>1, <2>1, <2>2, Basics DEF ErrorLeaves, Attempted, DispatchInv, Rowed, Sent
<1>6. Announced'
  <2>1. Row \in Nat /\ call.node \in Nat
    BY Basics DEF Row, DispatchInv, Types, CallType
  <2>2. \A p \in resumed' :
           /\ p[1] <= call.node
           /\ p[1] = call.node => p[2] \in 1 .. Len(ledger) /\ ledger'[p[2]].state # "prepared"
    BY <2>1 DEF ErrorLeaves, Announced, DispatchInv, Row
  <2>. QED  BY Zenon, <1>1, <2>2 DEF ErrorLeaves, Announced
<1>7. Decided'
  BY Zenon, <1>1 DEF ErrorLeaves, Decided, DispatchInv, Claimed, Rowed
<1>. QED  BY Zenon, <1>2, <1>3, <1>4, <1>5, <1>6, <1>7 DEF DispatchInv

\* An error that changes nothing but the adapters, outside the work on a row.
LEMMA PlainErrorKeeps ==
    ASSUME AcksArrive, DispatchInv, raises("plain"), call.at \in {"begin", "claimed"},
           UNCHANGED <<ledger, commits, engine, approvals, checkpoint, resume, replaced, resumed>>
    PROVE  DispatchInv'
<1>1. ErrorLeaves("plain")
  <2>1. \A i \in 1 .. Len(ledger) : RowTrue(ledger[i]) /\ ledger[i].charged = ledger[i].calls
    BY Zenon DEF DispatchInv, Rows, Rowed, Stopped
  <2>2. ~call.heard /\ \A a \in Adapters : Unanswered(a)
    BY Zenon DEF DispatchInv, Messages, Decided, Claimed
  <2>3. Types /\ Attempted /\ Announced
    BY Zenon DEF DispatchInv
  <2>. QED  BY <2>1, <2>2, <2>3 DEF ErrorLeaves, Types, EngineType, Attempted, Announced
<1>. QED  BY Zenon, <1>1, ErrorKeeps DEF Errors

\* The message an adapter claims is its own and empty.
LEMMA ClaimShape ==
    ASSUME Types, Messages, call.at = "begin", NEW m \in 1 .. Len(commits) + 1, currentMessageID(m)
    PROVE  /\ commits' \in Seq(Nat) /\ Len(commits') \in Nat /\ Len(commits') >= Len(commits)
           /\ \A k \in 1 .. Len(commits) : commits'[k] = commits[k]
           /\ \A k \in 1 .. Len(commits') : k > Len(commits) => commits'[k] = 0
           /\ m \in 1 .. Len(commits') /\ commits'[m] = 0
           /\ \A a \in Adapters : a # call.who => adapter[a].msg # m
           /\ engine' \in EngineType /\ engine'.failed = engine.failed
           /\ engine'.emitted = engine.emitted /\ (~engine'.used => ~engine.used /\ m # 1)
<1>0. /\ Len(commits) \in Nat /\ Len(commits) > 0 /\ call.who \in Adapters /\ Mine \in AdapterType
      /\ engine \in EngineType
      /\ \A a \in Adapters : adapter[a].msg \in 0 .. Len(commits)
  BY Basics DEF Types, Messages, AdapterType
<1>1. CASE Mine = fresh /\ ~engine.used /\ m = 1 /\ UNCHANGED commits
           /\ engine' = [engine EXCEPT !.used = TRUE]
  <2>1. engine' \in EngineType /\ engine'.used /\ engine'.failed = engine.failed
        /\ engine'.emitted = engine.emitted
    BY Zenon, <1>0, <1>1 DEF EngineType
  <2>2. commits[1] = 0 /\ \A a \in Adapters : adapter[a].msg # 1
    BY Zenon, <1>1 DEF Messages
  <2>. QED  BY <1>0, <1>1, <2>1, <2>2 DEF Types
<1>2. CASE Mine.msg /= 0 /\ ~Mine.need /\ m = Mine.msg /\ UNCHANGED <<commits, engine>>
  <2>1. commits[m] = 0
    BY Zenon, <1>0, <1>2 DEF Messages, Unanswered, Mine
  <2>2. \A a \in Adapters : a # call.who => adapter[a].msg # m
    BY Zenon, <1>0, <1>2 DEF Messages, Mine
  <2>3. m \in 1 .. Len(commits) /\ (~engine.used => m # 1)
    BY <1>0, <1>2 DEF Messages, Mine
  <2>. QED  BY <1>0, <1>2, <2>1, <2>2, <2>3 DEF Types
<1>3. CASE m = Len(commits) + 1 /\ commits' = Append(commits, 0) /\ UNCHANGED engine
  <2>1. /\ commits' \in Seq(Nat) /\ Len(commits') = Len(commits) + 1
        /\ \A k \in 1 .. Len(commits) : commits'[k] = commits[k]
        /\ commits'[Len(commits) + 1] = 0
    BY <1>3, AppendProperties DEF Types
  <2>. QED  BY <1>0, <1>3, <2>1
<1>. QED  BY Zenon, <1>1, <1>2, <1>3 DEF currentMessageID

\* Claiming the message the answer goes to.
LEMMA ClaimKeeps ==
    ASSUME AcksArrive, DispatchInv, ClaimMessage
    PROVE  DispatchInv'
<1>0. call.at = "begin" /\ UNCHANGED <<ledger, approvals, checkpoint, resume, replaced, resumed>>
  BY Zenon DEF ClaimMessage, at
<1>1. ASSUME NEW m \in 1 .. Len(commits) + 1, currentMessageID(m), goes("claimed"),
             adapter' = [adapter EXCEPT ![call.who] = [msg |-> m, need |-> FALSE]]
      PROVE  DispatchInv'
  <2>1. /\ commits' \in Seq(Nat) /\ Len(commits') \in Nat /\ Len(commits') >= Len(commits)
        /\ \A k \in 1 .. Len(commits) : commits'[k] = commits[k]
        /\ \A k \in 1 .. Len(commits') : k > Len(commits) => commits'[k] = 0
        /\ m \in 1 .. Len(commits') /\ commits'[m] = 0
        /\ \A a \in Adapters : a # call.who => adapter[a].msg # m
        /\ engine' \in EngineType /\ engine'.failed = engine.failed
        /\ engine'.emitted = engine.emitted /\ (~engine'.used => ~engine.used /\ m # 1)
    BY Zenon, <1>0, <1>1, ClaimShape DEF DispatchInv
  <2>2. /\ call' \in CallType /\ call'.at = "claimed" /\ call'.who = call.who
        /\ call'.node = call.node /\ call'.heard = call.heard
    BY Zenon, <1>1, GoesShape DEF DispatchInv, Places, Moving
  <2>3. /\ Len(commits) \in Nat /\ Len(commits) > 0 /\ call.who \in Adapters
        /\ \A a \in Adapters : adapter[a] \in AdapterType
        /\ \A a \in Adapters : adapter[a].msg \in 0 .. Len(commits)
    BY Basics DEF DispatchInv, Messages, Types, AdapterType
  <2>4. /\ adapter' \in [Adapters -> AdapterType]
        /\ adapter'[call.who].msg = m /\ ~adapter'[call.who].need
        /\ \A a \in Adapters : a # call.who => adapter'[a] = adapter[a]
    BY <1>1, <2>3 DEF DispatchInv, Types, AdapterType
  <2>5. Types'
    BY Zenon, <1>0, <2>1, <2>2, <2>4 DEF DispatchInv, Types
  <2>6. Rows'
    BY <1>0, <2>1, <2>2, <2>3 DEF DispatchInv, Rows, Rowed, Stopped
  <2>7. Messages'
    <3>1. \A k \in 1 .. Len(commits') : commits'[k] <= 1
      BY <2>1, <2>3, SMTT(60) DEF DispatchInv, Messages
    <3>2. \A a \in Adapters : adapter'[a].msg <= Len(commits')
      BY <2>1, <2>3, <2>4
    <3>3. \A a, b \in Adapters : adapter'[a].msg # 0 /\ adapter'[a].msg = adapter'[b].msg => a = b
      BY <2>1, <2>3, <2>4 DEF DispatchInv, Messages
    <3>4. ~engine'.used => commits'[1] = 0 /\ \A a \in Adapters : adapter'[a].msg # 1
      BY <2>1, <2>3, <2>4 DEF DispatchInv, Messages
    <3>5. \A a \in Adapters : Unanswered(a)'
      <4>1. \A a \in Adapters : Unanswered(a)
        BY Zenon, <1>0 DEF DispatchInv, Messages
      <4>. QED  BY <2>1, <2>3, <2>4, <4>1, SMTT(60) DEF Unanswered
    <3>6. Mine'.msg # 0 /\ ~Mine'.need
      BY <2>1, <2>2, <2>4 DEF Mine
    <3>. QED  BY <2>1, <2>2, <2>3, <3>1, <3>2, <3>3, <3>4, <3>5, <3>6 DEF Messages, Claimed, Rowed
  <2>8. Attempted' /\ Announced'
    BY ZenonT(60), <1>0, <2>1, <2>2 DEF DispatchInv, Attempted, Announced, Rowed, Sent
  <2>9. Decided'
    BY Zenon, <1>0, <2>2 DEF DispatchInv, Decided, Claimed, Rowed
  <2>. QED  BY Zenon, <2>5, <2>6, <2>7, <2>8, <2>9 DEF DispatchInv
<1>2. CASE raises("plain") /\ UNCHANGED <<commits, engine>>
  BY Zenon, <1>0, <1>2, PlainErrorKeeps
<1>. QED  BY Zenon, <1>1, <1>2 DEF ClaimMessage

\* What an adapter that works on the last row knows.
LEMMA AtWork ==
    ASSUME DispatchInv, call.at \in Rowed
    PROVE  /\ Len(ledger) \in Nat /\ Len(ledger) > 0 /\ Row = Len(ledger)
           /\ \A i \in 1 .. Len(ledger) : ledger[i] \in RowType /\ RowTrue(ledger[i])
           /\ \A i \in 1 .. Len(ledger) : i # Row => ledger[i].charged = ledger[i].calls
           /\ ledger[Row].state = IF call.at = "prepared" THEN "prepared" ELSE "dispatch_started"
           /\ ledger[Row].calls = IF call.at \in Sent THEN 1 ELSE 0
           /\ ledger[Row].charged = 0 /\ (ledger[Row].durable <=> call.at = "committed")
           /\ \A i \in 1 .. Len(ledger) : ledger[i].msg \in 1 .. Len(commits)
           /\ ledger[Row].msg = Mine.msg
<1>1. Len(ledger) \in Nat /\ \A i \in 1 .. Len(ledger) : ledger[i] \in RowType
  BY Zenon, Basics DEF DispatchInv
<1>. QED  BY <1>1 DEF DispatchInv, Rows, Rowed, Stopped, Row

\* Writing the request row.
LEMMA PrepareRequestKeeps ==
    ASSUME AcksArrive, DispatchInv, PrepareModelRequest
    PROVE  DispatchInv'
<1>0. /\ call.at = "claimed"
      /\ UNCHANGED <<commits, engine, approvals, checkpoint, resume, replaced, resumed>>
  BY Zenon DEF PrepareModelRequest, at
<1>. DEFINE r == [state |-> "prepared", msg |-> Mine.msg, calls |-> 0, charged |-> 0, durable |-> FALSE]
<1>1. CASE ledger' = Append(ledger, r) /\ goes("prepared") /\ UNCHANGED adapter
  <2>1. /\ call' \in CallType /\ call'.at = "prepared" /\ call'.who = call.who
        /\ call'.node = call.node /\ call'.heard = call.heard
    BY Zenon, <1>1, GoesShape DEF DispatchInv, Places, Moving
  <2>2. /\ Len(ledger) \in Nat /\ Len(commits) \in Nat /\ call.who \in Adapters
        /\ Mine.msg \in 1 .. Len(commits) /\ ~Mine.need /\ Mine' = Mine
    BY <1>0, <1>1, <2>1, Basics DEF DispatchInv, Messages, Claimed, Mine, AdapterType
  <2>3. r \in RowType
    BY <2>2 DEF RowType, RowStates
  <2>4. /\ ledger' \in Seq(RowType) /\ Len(ledger') = Len(ledger) + 1
        /\ \A i \in 1 .. Len(ledger) : ledger'[i] = ledger[i]
        /\ ledger'[Len(ledger) + 1] = r
    BY <1>1, <2>3, AppendProperties DEF DispatchInv, Types
  <2>5. Types'
    BY Zenon, <1>0, <1>1, <2>1, <2>4 DEF DispatchInv, Types
  <2>6. Rows'
    <3>1. \A i \in 1 .. Len(ledger) : /\ RowTrue(ledger[i]) /\ ledger[i].msg \in 1 .. Len(commits)
                                      /\ ledger[i].charged = ledger[i].calls
      BY Zenon, <1>0 DEF DispatchInv, Rows, Rowed, Stopped
    <3>2. RowTrue(r)
      BY DEF RowTrue
    <3>3. \A i \in 1 .. Len(ledger') : i \in 1 .. Len(ledger) \/ i = Len(ledger')
      BY <2>2, <2>4
    <3>4. \A i \in 1 .. Len(ledger') : RowTrue(ledger'[i]) /\ ledger'[i].msg \in 1 .. Len(commits')
      BY <1>0, <2>2, <2>4, <3>1, <3>2, <3>3
    <3>5. \A i \in 1 .. Len(ledger') : ledger'[i].charged = ledger'[i].calls
      BY <2>2, <2>4, <3>1, <3>3
    <3>6. ledger'[Len(ledger')] = r
      BY Zenon, <2>4
    <3>. QED  BY <2>1, <2>2, <2>4, <3>4, <3>5, <3>6 DEF Rows, Rowed, Sent, Row
  <2>7. Messages'
    <3>1. call.at \in Claimed /\ call'.at \in Claimed /\ call'.at # "committed"
      BY Zenon, <1>0, <2>1 DEF Claimed, Rowed
    <3>2. Mine'.msg # 0 /\ ~Mine'.need
      BY <2>2
    <3>3. \A a \in Adapters : Unanswered(a)'
      BY Zenon, <1>0, <1>1, <3>1 DEF DispatchInv, Messages, Unanswered
    <3>. QED  BY Zenon, <1>0, <1>1, <3>1, <3>2, <3>3 DEF DispatchInv, Messages
  <2>8. Attempted'
    <3>1. \A p \in replaced :
             /\ p[1] \in 1 .. Len(ledger') /\ p[2] \in 1 .. Len(ledger') /\ p[1] < p[2]
             /\ ~ledger'[p[1]].durable
             /\ \A q \in replaced : p[1] = q[1] => p = q
      BY <2>2, <2>4 DEF DispatchInv, Attempted
    <3>2. engine.failed \in Nat
      BY Zenon DEF DispatchInv, Types, EngineType
    <3>3. engine.failed # 0 =>
             /\ engine.failed <= Len(ledger) /\ ~ledger'[engine.failed].durable
             /\ \A p \in replaced : p[1] # engine.failed
      BY <2>2, <2>4, <3>2 DEF DispatchInv, Attempted
    <3>. QED  BY <1>0, <2>1, <2>2, <2>4, <3>1, <3>2, <3>3 DEF Attempted, Rowed, Sent
  <2>9. Announced'
    BY <1>0, <2>1, <2>2, <2>4 DEF DispatchInv, Announced
  <2>10. Decided'
    BY Zenon, <1>0, <2>1 DEF DispatchInv, Decided, Claimed, Rowed
  <2>. QED  BY Zenon, <2>5, <2>6, <2>7, <2>8, <2>9, <2>10 DEF DispatchInv
<1>2. CASE raises("plain") /\ UNCHANGED ledger
  BY Zenon, <1>0, <1>2, PlainErrorKeeps
<1>. QED  BY Zenon, <1>1, <1>2 DEF PrepareModelRequest

\* The resumption is announced by the row that was started.
LEMMA EmitShape ==
    ASSUME DispatchInv, call.at = "started", emit
    PROVE  /\ resumed' \in SUBSET (Nat \X Nat) /\ (\A p, q \in resumed' : p = q)
           /\ \A p \in resumed' : p \in resumed \/ p = <<call.node, Row>>
<1>1. call.node \in Nat /\ Row \in Nat
  BY Basics DEF DispatchInv, Types, CallType, Row
<1>2. CASE engine.emitted
  BY Zenon, <1>2 DEF emit, DispatchInv, Types, Announced
<1>3. CASE ~engine.emitted
  <2>1. resumed' = {<<call.node, Row>>}
    BY Zenon, <1>3 DEF emit, DispatchInv, Announced
  <2>. QED  BY <1>1, <2>1
<1>. QED  BY Zenon, <1>2, <1>3

\* A write that fails between the row's creation and its dispatch.
LEMMA ErrorAtRow ==
    ASSUME AcksArrive, DispatchInv, call.at \in {"prepared", "started"}, raises("plain"),
           rowBecomes("failed") \/ UNCHANGED ledger,
           UNCHANGED <<commits, approvals, checkpoint, resume, replaced>>,
           engine' \in EngineType, engine'.used = engine.used, engine'.failed \in {0, engine.failed},
           \/ UNCHANGED resumed /\ engine'.emitted = engine.emitted
           \/ call.at = "started" /\ emit /\ engine'.emitted
    PROVE  DispatchInv'
<1>0. call.at \in Rowed /\ call.at \in Claimed /\ call.at \notin Sent /\ call.at # "committed"
  BY Zenon DEF Rowed, Claimed, Sent
<1>1. /\ Len(ledger) \in Nat /\ Len(ledger) > 0 /\ Row = Len(ledger)
      /\ \A i \in 1 .. Len(ledger) : ledger[i] \in RowType /\ RowTrue(ledger[i])
      /\ \A i \in 1 .. Len(ledger) : ledger[i].charged = ledger[i].calls
      /\ ledger[Row].state = (IF call.at = "prepared" THEN "prepared" ELSE "dispatch_started")
      /\ ledger[Row].calls = 0 /\ ledger[Row].charged = 0 /\ ~ledger[Row].durable
  BY Zenon, <1>0, AtWork
<1>2. /\ ledger' \in Seq(RowType) /\ Len(ledger') = Len(ledger)
      /\ \A i \in 1 .. Len(ledger) :
           /\ RowTrue(ledger'[i]) /\ ledger'[i].msg = ledger[i].msg
           /\ ledger'[i].durable = ledger[i].durable /\ ledger'[i].charged = ledger'[i].calls
           /\ ledger[i].state # "prepared" => ledger'[i].state # "prepared"
  <2>1. CASE UNCHANGED ledger
    BY Zenon, <1>1, <2>1 DEF DispatchInv, Types
  <2>2. CASE rowBecomes("failed")
    <3>. DEFINE r == [ledger[Row] EXCEPT !.state = "failed"]
    <3>1. /\ r \in RowType /\ r.state = "failed" /\ r.calls = 0 /\ r.charged = 0
          /\ r.durable = ledger[Row].durable /\ r.msg = ledger[Row].msg
      BY <1>1 DEF RowType, RowStates
    <3>2. RowTrue(r)
      BY <1>1, <3>1 DEF RowTrue
    <3>3. row(r)
      BY Zenon, <2>2 DEF rowBecomes
    <3>. HIDE DEF r
    <3>4. /\ ledger' \in Seq(RowType) /\ Len(ledger') = Len(ledger) /\ ledger'[Len(ledger)] = r
          /\ \A i \in 1 .. Len(ledger) : i # Len(ledger) => ledger'[i] = ledger[i]
      BY Zenon, <1>1, <3>1, <3>3, RowWritten DEF DispatchInv
    <3>. QED  BY Zenon, <1>1, <3>1, <3>2, <3>4
  <2>. QED  BY Zenon, <2>1, <2>2
<1>3. /\ resumed' \in SUBSET (Nat \X Nat) /\ (\A p, q \in resumed' : p = q)
      /\ ~engine'.emitted => resumed' = {}
      /\ \A p \in resumed' :
           p \in resumed \/ (p = <<call.node, Row>> /\ Row > 0 /\ ledger'[Row].state # "prepared")
  <2>1. CASE UNCHANGED resumed /\ engine'.emitted = engine.emitted
    BY Zenon, <2>1 DEF DispatchInv, Types, Announced
  <2>2. CASE call.at = "started" /\ emit /\ engine'.emitted
    <3>1. Row \in 1 .. Len(ledger) /\ ledger[Row].state # "prepared"
      BY <1>1, <2>2
    <3>. QED  BY Zenon, <1>1, <1>2, <2>2, <3>1, EmitShape
  <2>. QED  BY Zenon, <2>1, <2>2
<1>4. ~call.heard /\ \A a \in Adapters : Unanswered(a)
  BY Zenon, <1>0 DEF DispatchInv, Messages, Decided
<1>5. engine'.failed # 0 =>
         /\ engine'.failed \in 1 .. Len(ledger) /\ ~ledger[engine'.failed].durable
         /\ \A p \in replaced : p[1] # engine'.failed
  BY <1>1, SMTT(60) DEF DispatchInv, Attempted, EngineType
<1>6. ErrorLeaves("plain")
  BY Zenon, <1>2, <1>3, <1>4, <1>5 DEF ErrorLeaves
<1>. QED  BY Zenon, <1>6, ErrorKeeps DEF Errors

\* The adapter goes on with its row: the row says how far it is, and nothing
\* else changes.
LEMMA AdvanceKeeps ==
    ASSUME AcksArrive, DispatchInv, call.at \in Rowed \ {"committed"},
           call' \in CallType, call'.at \in Rowed \ {"prepared", "dispatch", "committed"},
           call'.at \in Sent => call.at \in {"dispatch"} \cup Sent,
           call'.who = call.who, call'.node = call.node, call'.heard = call.heard,
           ledger' \in Seq(RowType), Len(ledger') = Len(ledger),
           \A i \in 1 .. Len(ledger) : i # Len(ledger) => ledger'[i] = ledger[i],
           ledger'[Len(ledger)].state = "dispatch_started",
           ledger'[Len(ledger)].calls = IF call'.at \in Sent THEN 1 ELSE 0,
           ledger'[Len(ledger)].charged = 0, ~ledger'[Len(ledger)].durable,
           ledger'[Len(ledger)].msg = ledger[Len(ledger)].msg,
           UNCHANGED <<commits, adapter, engine, approvals, checkpoint, resume, replaced, resumed>>
    PROVE  DispatchInv'
<1>1. /\ Len(ledger) \in Nat /\ Len(ledger) > 0 /\ Row = Len(ledger) /\ Row' = Row
      /\ \A i \in 1 .. Len(ledger) : ledger[i] \in RowType /\ RowTrue(ledger[i])
      /\ \A i \in 1 .. Len(ledger) : i # Row => ledger[i].charged = ledger[i].calls
      /\ ~ledger[Row].durable
      /\ \A i \in 1 .. Len(ledger) : ledger[i].msg \in 1 .. Len(commits)
      /\ ledger[Row].msg = Mine.msg
  BY Zenon, AtWork DEF Row
<1>2. Types'
  BY Zenon DEF DispatchInv, Types
<1>3. Rows'
  <2>1. RowTrue(ledger'[Len(ledger)])
    BY DEF RowTrue
  <2>2. \A i \in 1 .. Len(ledger') : RowTrue(ledger'[i]) /\ ledger'[i].msg \in 1 .. Len(commits')
    BY Zenon, <1>1, <2>1
  <2>3. \A i \in 1 .. Len(ledger') : i < Len(ledger') => ledger'[i].charged = ledger'[i].calls
    BY <1>1
  <2>4. Mine' = Mine
    BY Zenon DEF Mine
  <2>. QED  BY Zenon, <1>1, <2>2, <2>3, <2>4 DEF Rows, Rowed, Stopped
<1>4. Messages'
  <2>1. call.at \in Claimed /\ call'.at \in Claimed /\ call'.at # "committed" /\ Mine' = Mine
    BY Zenon DEF Claimed, Rowed, Mine
  <2>2. \A a \in Adapters : Unanswered(a)'
    BY Zenon, <2>1 DEF DispatchInv, Messages, Unanswered
  <2>. QED  BY Zenon, <2>1, <2>2 DEF DispatchInv, Messages
<1>5. Attempted'
  <2>1. \A i \in 1 .. Len(ledger) : ~ledger[i].durable => ~ledger'[i].durable
    BY Zenon, <1>1
  <2>2. engine.failed \in Nat
    BY Zenon DEF DispatchInv, Types, EngineType
  <2>. QED  BY <1>1, <2>1, <2>2 DEF DispatchInv, Attempted, Rowed
<1>6. Announced'
  BY ZenonT(60), <1>1 DEF DispatchInv, Announced
<1>7. Decided'
  BY Zenon DEF DispatchInv, Decided, Claimed, Rowed
<1>. QED  BY Zenon, <1>2, <1>3, <1>4, <1>5, <1>6, <1>7 DEF DispatchInv

\* Marking the request row started.
LEMMA UpdateRequestKeeps ==
    ASSUME AcksArrive, DispatchInv, UpdateModelRequest
    PROVE  DispatchInv'
<1>0. /\ call.at = "prepared" /\ call.at \in Rowed
      /\ UNCHANGED <<commits, engine, approvals, checkpoint, resume, replaced, resumed>>
  BY Zenon DEF UpdateModelRequest, at, Rowed
<1>1. CASE rowBecomes("dispatch_started") /\ goes("started") /\ UNCHANGED adapter
  <2>. DEFINE r == [ledger[Row] EXCEPT !.state = "dispatch_started"]
  <2>1. /\ Len(ledger) \in Nat /\ Len(ledger) > 0 /\ Row = Len(ledger) /\ ledger[Row] \in RowType
        /\ ledger[Row].calls = 0 /\ ledger[Row].charged = 0 /\ ~ledger[Row].durable
    BY <1>0, AtWork DEF Sent
  <2>2. /\ r \in RowType /\ r.state = "dispatch_started" /\ r.calls = 0 /\ r.charged = 0
        /\ ~r.durable /\ r.msg = ledger[Row].msg
    BY Zenon, <2>1 DEF RowType, RowStates
  <2>3. row(r)
    BY Zenon, <1>1 DEF rowBecomes
  <2>. HIDE DEF r
  <2>4. /\ ledger' \in Seq(RowType) /\ Len(ledger') = Len(ledger) /\ ledger'[Len(ledger)] = r
        /\ \A i \in 1 .. Len(ledger) : i # Len(ledger) => ledger'[i] = ledger[i]
    BY Zenon, <2>1, <2>2, <2>3, RowWritten DEF DispatchInv
  <2>5. /\ call' \in CallType /\ call'.at = "started" /\ call'.who = call.who
        /\ call'.node = call.node /\ call'.heard = call.heard
    BY Zenon, <1>1, GoesShape DEF DispatchInv, Places, Moving
  <2>6. "started" \in Rowed \ {"prepared", "dispatch", "committed"} /\ "started" \notin Sent
        /\ call.at \in Rowed \ {"committed"}
    BY Zenon, <1>0 DEF Rowed, Sent
  <2>. QED  BY Zenon, <1>0, <1>1, <2>1, <2>2, <2>4, <2>5, <2>6, AdvanceKeeps
<1>2. CASE raises("plain") /\ (rowBecomes("failed") \/ UNCHANGED ledger)
  BY Zenon, <1>0, <1>2, ErrorAtRow DEF DispatchInv, Types
<1>. QED  BY Zenon, <1>1, <1>2 DEF UpdateModelRequest, startModelRequest

\* Handing the request to the provider.
LEMMA DispatchKeeps ==
    ASSUME AcksArrive, DispatchInv, Dispatch
    PROVE  DispatchInv'
<1>. DEFINE r == [ledger[Row] EXCEPT !.calls = @ + 1]
<1>0. /\ call.at = "dispatch" /\ call.at \in Rowed /\ goes("calling") /\ row(r)
      /\ UNCHANGED <<commits, adapter, engine, approvals, checkpoint, resume, replaced, resumed>>
  BY Zenon DEF Dispatch, at, Rowed
<1>1. /\ Len(ledger) \in Nat /\ Len(ledger) > 0 /\ Row = Len(ledger) /\ ledger[Row] \in RowType
      /\ ledger[Row].calls = 0 /\ ledger[Row].charged = 0 /\ ~ledger[Row].durable
      /\ ledger[Row].state = "dispatch_started"
  BY <1>0, AtWork DEF Sent
<1>2. /\ r \in RowType /\ r.state = "dispatch_started" /\ r.calls = 1 /\ r.charged = 0
      /\ ~r.durable /\ r.msg = ledger[Row].msg
  BY <1>1 DEF RowType
<1>. HIDE DEF r
<1>3. /\ ledger' \in Seq(RowType) /\ Len(ledger') = Len(ledger) /\ ledger'[Len(ledger)] = r
      /\ \A i \in 1 .. Len(ledger) : i # Len(ledger) => ledger'[i] = ledger[i]
  BY Zenon, <1>0, <1>1, <1>2, RowWritten DEF DispatchInv
<1>4. /\ call' \in CallType /\ call'.at = "calling" /\ call'.who = call.who
      /\ call'.node = call.node /\ call'.heard = call.heard
  BY Zenon, <1>0, GoesShape DEF DispatchInv, Places, Moving
<1>5. "calling" \in Rowed \ {"prepared", "dispatch", "committed"} /\ "calling" \in Sent
      /\ call.at \in Rowed \ {"committed"}
  BY Zenon, <1>0 DEF Rowed, Sent
<1>. QED  BY Zenon, <1>0, <1>1, <1>2, <1>3, <1>4, <1>5, AdvanceKeeps

\* Recording the events of the attempt before the provider is called.
LEMMA RecordFactsKeeps ==
    ASSUME AcksArrive, DispatchInv, RecordFacts
    PROVE  DispatchInv'
<1>0. /\ call.at = "started" /\ call.at \in Rowed /\ call.at \in Claimed
      /\ UNCHANGED <<commits, approvals, checkpoint, resume>>
  BY Zenon DEF RecordFacts, at, Rowed, Claimed
<1>1. engine \in EngineType
  BY Zenon DEF DispatchInv, Types
<1>2. takeFailedAttempt => /\ engine' \in EngineType /\ engine'.used = engine.used
                           /\ engine'.failed = 0 /\ engine'.emitted
  <2>1. 0 \in Nat /\ TRUE \in BOOLEAN
    BY Zenon
  <2>. HAVE takeFailedAttempt
  <2>2. engine' \in EngineType
    BY Zenon, <1>1, <2>1 DEF takeFailedAttempt, EngineType
  <2>3. engine'.used = engine.used /\ engine'.failed = 0
    BY Zenon, <1>1 DEF takeFailedAttempt, EngineType
  <2>4. engine'.emitted = TRUE
    BY Zenon, <1>1 DEF takeFailedAttempt, EngineType
  <2>. QED  BY Zenon, <2>2, <2>3, <2>4
<1>3. peekFailedAttempt => /\ engine' \in EngineType /\ engine'.used = engine.used
                           /\ engine'.failed = engine.failed /\ engine'.emitted
  BY ZenonT(60), <1>1 DEF peekFailedAttempt, EngineType
<1>4. CASE /\ emit /\ takeFailedAttempt /\ goes("dispatch")
           /\ replaced' = replaced \cup ({engine.failed} \ {0}) \X {Row}
           /\ UNCHANGED <<ledger, adapter>>
  <2>1. /\ Len(ledger) \in Nat /\ Len(ledger) > 0 /\ Row = Len(ledger)
        /\ ledger[Row].state = "dispatch_started"
    BY Zenon, <1>0, AtWork
  <2>2. /\ call' \in CallType /\ call'.at = "dispatch" /\ call'.who = call.who
        /\ call'.node = call.node /\ call'.heard = call.heard
    BY Zenon, <1>4, GoesShape DEF DispatchInv, Places, Moving
  <2>3. /\ engine' \in EngineType /\ engine'.used = engine.used
        /\ engine'.failed = 0 /\ engine'.emitted
    BY Zenon, <1>2, <1>4
  <2>4. /\ resumed' \in SUBSET (Nat \X Nat) /\ (\A p, q \in resumed' : p = q)
        /\ \A p \in resumed' : p \in resumed \/ p = <<call.node, Row>>
    BY Zenon, <1>0, <1>4, EmitShape
  <2>5. engine.failed \in Nat /\ call.node \in Nat
    BY <1>1 DEF EngineType, DispatchInv, Types, CallType
  <2>6. /\ replaced' \in SUBSET (Nat \X Nat)
        /\ \A p \in replaced' : p \in replaced \/ (p = <<engine.failed, Row>> /\ engine.failed # 0)
    BY <1>4, <2>1, <2>5 DEF DispatchInv, Types
  <2>7. Types'
    BY Zenon, <1>0, <1>4, <2>2, <2>3, <2>4, <2>6 DEF DispatchInv, Types
  <2>8. Rows'
    BY Zenon, <1>0, <1>4, <2>2 DEF DispatchInv, Rows, Rowed, Stopped, Sent, Row, Mine
  <2>9. Messages'
    <3>1. call'.at \in Claimed /\ call'.at # "committed" /\ Mine' = Mine
      BY Zenon, <1>4, <2>2 DEF Claimed, Rowed, Mine
    <3>2. \A a \in Adapters : Unanswered(a)'
      BY Zenon, <1>0, <1>4 DEF DispatchInv, Messages, Unanswered
    <3>. QED  BY Zenon, <1>0, <1>4, <2>3, <3>1, <3>2 DEF DispatchInv, Messages
  <2>10. Attempted'
    <3>1. engine.failed # 0 =>
             /\ engine.failed \in 1 .. Len(ledger) /\ engine.failed < Row
             /\ ~ledger[engine.failed].durable /\ \A p \in replaced : p[1] # engine.failed
      BY <1>0, <2>1, <2>5 DEF DispatchInv, Attempted
    <3>2. \A p \in replaced' :
             /\ p[1] \in 1 .. Len(ledger) /\ p[2] \in 1 .. Len(ledger) /\ p[1] < p[2]
             /\ ~ledger[p[1]].durable
      BY <2>1, <2>6, <3>1 DEF DispatchInv, Attempted
    <3>3. \A p, q \in replaced' : p[1] = q[1] => p = q
      BY <2>6, <3>1 DEF DispatchInv, Attempted
    <3>. QED  BY Zenon, <1>4, <2>3, <3>2, <3>3 DEF Attempted
  <2>11. Announced'
    <3>1. \A p \in resumed' :
             /\ p[1] <= call.node
             /\ p[1] = call.node => p[2] \in 1 .. Len(ledger) /\ ledger[p[2]].state # "prepared"
      BY <2>1, <2>4, <2>5 DEF DispatchInv, Announced
    <3>. QED  BY Zenon, <1>4, <2>2, <2>3, <2>4, <3>1 DEF Announced
  <2>12. Decided'
    BY Zenon, <1>0, <2>2 DEF DispatchInv, Decided, Claimed, Rowed
  <2>. QED  BY Zenon, <2>7, <2>8, <2>9, <2>10, <2>11, <2>12 DEF DispatchInv
<1>5. CASE /\ raises("plain") /\ (rowBecomes("failed") \/ UNCHANGED ledger)
           /\ UNCHANGED <<engine, replaced, resumed>>
  BY Zenon, <1>0, <1>1, <1>5, ErrorAtRow
<1>6. CASE /\ raises("plain") /\ emit /\ (peekFailedAttempt \/ takeFailedAttempt)
           /\ UNCHANGED <<ledger, replaced>>
  BY Zenon, <1>0, <1>2, <1>3, <1>6, ErrorAtRow
<1>. QED  BY Zenon, <1>4, <1>5, <1>6 DEF RecordFacts

\* finish charges the row and closes it, if it can; a failed attempt is
\* remembered then.
LEMMA FinishShape ==
    ASSUME DispatchInv, call.at \in Sent, NEW state \in {"completed", "failed"},
           NEW err, NEW ok \in BOOLEAN, finish(state, err, ok)
    PROVE  /\ ledger' \in Seq(RowType) /\ Len(ledger') = Len(ledger)
           /\ \A i \in 1 .. Len(ledger) :
                /\ RowTrue(ledger'[i]) /\ ledger'[i].msg = ledger[i].msg
                /\ ledger'[i].durable = ledger[i].durable /\ ledger'[i].charged = ledger'[i].calls
                /\ ledger[i].state # "prepared" => ledger'[i].state # "prepared"
           /\ engine' \in EngineType /\ engine'.used = engine.used
           /\ engine'.emitted = engine.emitted
           /\ engine'.failed = 0 \/ (err # "none" /\ engine'.failed = Row)
<1>0. call.at \in Rowed
  BY Zenon DEF Rowed, Sent
<1>1. /\ Len(ledger) \in Nat /\ Len(ledger) > 0 /\ Row = Len(ledger) /\ ledger[Row] \in RowType
      /\ \A i \in 1 .. Len(ledger) : RowTrue(ledger[i])
      /\ \A i \in 1 .. Len(ledger) : i # Row => ledger[i].charged = ledger[i].calls
      /\ ledger[Row].calls = 1 /\ ledger[Row].charged = 0
      /\ ledger[Row].state = "dispatch_started"
  BY <1>0, AtWork, SMTT(60) DEF Sent
<1>2. engine \in EngineType /\ engine.failed = 0
  BY Zenon, <1>0 DEF DispatchInv, Types, Attempted
<1>3. ASSUME NEW r \in RowType, row(r), r.calls = 1, r.charged = 1, r.state # "prepared",
             r.msg = ledger[Row].msg, r.durable = ledger[Row].durable
      PROVE  /\ ledger' \in Seq(RowType) /\ Len(ledger') = Len(ledger)
             /\ \A i \in 1 .. Len(ledger) :
                  /\ RowTrue(ledger'[i]) /\ ledger'[i].msg = ledger[i].msg
                  /\ ledger'[i].durable = ledger[i].durable /\ ledger'[i].charged = ledger'[i].calls
                  /\ ledger[i].state # "prepared" => ledger'[i].state # "prepared"
  <2>1. /\ ledger' \in Seq(RowType) /\ Len(ledger') = Len(ledger) /\ ledger'[Len(ledger)] = r
        /\ \A i \in 1 .. Len(ledger) : i # Len(ledger) => ledger'[i] = ledger[i]
    BY Zenon, <1>1, <1>3, RowWritten DEF DispatchInv
  <2>2. RowTrue(r)
    BY <1>3 DEF RowTrue
  <2>. QED  BY Zenon, <1>1, <1>3, <2>1, <2>2
<1>4. CASE ok
  <2>. DEFINE r == addUsage([ledger[Row] EXCEPT !.state = state])
  <2>1. /\ r \in RowType /\ r.calls = 1 /\ r.charged = 1 /\ r.state # "prepared"
        /\ r.msg = ledger[Row].msg /\ r.durable = ledger[Row].durable
    <3>. DEFINE q == [ledger[Row] EXCEPT !.state = state]
    <3>1. /\ q \in RowType /\ q.calls = 1 /\ q.charged = 0 /\ q.state # "prepared"
          /\ q.msg = ledger[Row].msg /\ q.durable = ledger[Row].durable
      BY Zenon, <1>1 DEF RowType, RowStates
    <3>2. r = [q EXCEPT !.charged = q.charged + 1]
      BY Zenon DEF addUsage
    <3>. HIDE DEF q, r
    <3>. QED  BY <3>1, <3>2 DEF RowType
  <2>2. row(r) /\ engine' = [engine EXCEPT !.failed = IF err = "none" THEN @ ELSE Row]
    BY Zenon, <1>4 DEF finish
  <2>. HIDE DEF r
  <2>3. /\ engine' \in EngineType /\ engine'.used = engine.used
        /\ engine'.emitted = engine.emitted
        /\ engine'.failed = IF err = "none" THEN 0 ELSE Row
    BY Zenon, <1>1, <1>2, <2>2 DEF EngineType
  <2>. QED  BY Zenon, <1>3, <2>1, <2>2, <2>3
<1>5. CASE ~ok
  <2>. DEFINE r == addUsage(ledger[Row])
  <2>1. /\ r \in RowType /\ r.calls = 1 /\ r.charged = 1 /\ r.state # "prepared"
        /\ r.msg = ledger[Row].msg /\ r.durable = ledger[Row].durable
    BY <1>1 DEF RowType, RowStates, addUsage
  <2>2. row(r) /\ UNCHANGED engine
    BY Zenon, <1>5 DEF finish
  <2>. HIDE DEF r
  <2>. QED  BY Zenon, <1>2, <1>3, <2>1, <2>2
<1>. QED  BY Zenon, <1>4, <1>5

\* An attempt that ends with an error before its answer is durable.
LEMMA AttemptFails ==
    ASSUME AcksArrive, DispatchInv, call.at \in Sent \ {"committed"},
           NEW state \in {"completed", "failed"}, NEW err \in {"plain", "partial"},
           NEW ok \in BOOLEAN, finish(state, err, ok), raises(err),
           UNCHANGED <<commits, approvals, checkpoint, resume, replaced, resumed>>
    PROVE  DispatchInv'
<1>0. call.at \in Rowed /\ call.at \in Claimed
  BY Zenon DEF Rowed, Claimed, Sent
<1>1. /\ ledger' \in Seq(RowType) /\ Len(ledger') = Len(ledger)
      /\ \A i \in 1 .. Len(ledger) :
           /\ RowTrue(ledger'[i]) /\ ledger'[i].msg = ledger[i].msg
           /\ ledger'[i].durable = ledger[i].durable /\ ledger'[i].charged = ledger'[i].calls
           /\ ledger[i].state # "prepared" => ledger'[i].state # "prepared"
      /\ engine' \in EngineType /\ engine'.used = engine.used
      /\ engine'.emitted = engine.emitted /\ engine'.failed \in {0, Row}
  BY Zenon, FinishShape
<1>2. Len(ledger) \in Nat /\ Len(ledger) > 0 /\ Row = Len(ledger) /\ ~ledger[Row].durable
  BY Zenon, <1>0, AtWork
<1>3. engine'.failed # 0 =>
         /\ engine'.failed \in 1 .. Len(ledger) /\ ~ledger[engine'.failed].durable
         /\ \A p \in replaced : p[1] # engine'.failed
  <2>1. \A p \in replaced : p[1] # Row
    BY <1>2 DEF DispatchInv, Attempted
  <2>. QED  BY <1>1, <1>2, <2>1
<1>4. ~call.heard /\ \A a \in Adapters : Unanswered(a)
  BY Zenon, <1>0 DEF DispatchInv, Messages, Decided
<1>5. /\ resumed' \in SUBSET (Nat \X Nat) /\ (\A p, q \in resumed' : p = q)
      /\ ~engine'.emitted => resumed' = {}
  BY Zenon, <1>1 DEF DispatchInv, Types, Announced
<1>6. ErrorLeaves(err)
  BY Zenon, <1>1, <1>3, <1>4, <1>5 DEF ErrorLeaves
<1>. QED  BY Zenon, <1>6, ErrorKeeps DEF Errors

\* The stream of the provider: an answer, or an error before or after output was shown.
LEMMA ReceiveKeeps ==
    ASSUME AcksArrive, DispatchInv, ReceiveModelStream
    PROVE  DispatchInv'
<1>0. /\ call.at = "calling" /\ call.at \in Sent \ {"committed"}
      /\ UNCHANGED <<commits, approvals, checkpoint, resume, replaced, resumed>>
  BY Zenon DEF ReceiveModelStream, at, Sent
<1>1. ASSUME NEW a \in Answers, call' = [call EXCEPT !.at = "answered", !.answer = a],
             UNCHANGED <<ledger, adapter, engine>>
      PROVE  DispatchInv'
  <2>1. /\ call' \in CallType /\ call'.at = "answered" /\ call'.who = call.who
        /\ call'.node = call.node /\ call'.heard = call.heard
    BY Zenon, <1>1 DEF DispatchInv, Types, CallType, Places, Moving
  <2>2. /\ call.at \in Rowed \ {"committed"} /\ "answered" \in Sent
        /\ "answered" \in Rowed \ {"prepared", "dispatch", "committed"}
    BY Zenon, <1>0 DEF Rowed, Sent
  <2>3. /\ Len(ledger) \in Nat /\ Len(ledger) > 0 /\ Row = Len(ledger)
        /\ ledger[Row].state = "dispatch_started" /\ ledger[Row].calls = 1
        /\ ledger[Row].charged = 0 /\ ~ledger[Row].durable
    BY Zenon, <1>0, <2>2, AtWork
  <2>. QED  BY Zenon, <1>0, <1>1, <2>1, <2>2, <2>3, AdvanceKeeps DEF DispatchInv, Types
<1>2. ASSUME NEW err \in {"plain", "partial"}, NEW ok \in BOOLEAN,
             finish("failed", err, ok), raises(err)
      PROVE  DispatchInv'
  BY Zenon, <1>0, <1>2, AttemptFails
<1>. QED  BY Zenon, <1>1, <1>2 DEF ReceiveModelStream

\* A commit that fails.
LEMMA CommitFailsKeeps ==
    ASSUME AcksArrive, DispatchInv, CommitFails
    PROVE  DispatchInv'
<1>1. /\ call.at \in Sent \ {"committed"}
      /\ UNCHANGED <<commits, approvals, checkpoint, resume, replaced, resumed>>
  BY Zenon DEF CommitFails, at, Sent
<1>2. PICK ok \in BOOLEAN : finish("completed", "plain", ok) /\ raises("plain")
  BY Zenon DEF CommitFails
<1>. QED  BY Zenon, <1>1, <1>2, AttemptFails

\* Committing the answer into the message.
LEMMA CommitKeeps ==
    ASSUME AcksArrive, DispatchInv, Commit
    PROVE  DispatchInv'
<1>0. /\ call.at = "answered" /\ call.at \in Rowed \ {"committed"} /\ call.at \in Claimed
      /\ UNCHANGED <<engine, approvals, checkpoint, resume, replaced, resumed>>
  BY Zenon DEF Commit, at, Rowed, Claimed
<1>1. /\ Len(ledger) \in Nat /\ Len(ledger) > 0 /\ Row = Len(ledger)
      /\ \A i \in 1 .. Len(ledger) : ledger[i] \in RowType /\ RowTrue(ledger[i])
      /\ \A i \in 1 .. Len(ledger) : i # Row => ledger[i].charged = ledger[i].calls
      /\ ledger[Row].state = "dispatch_started" /\ ledger[Row].calls = 1
      /\ ledger[Row].charged = 0 /\ ~ledger[Row].durable
      /\ \A i \in 1 .. Len(ledger) : ledger[i].msg \in 1 .. Len(commits)
      /\ ledger[Row].msg = Mine.msg
  BY Zenon, <1>0, AtWork DEF Sent
<1>2. CASE /\ commitAssistantTurn
           /\ call' = [call EXCEPT !.at = "committed", !.heard = TRUE]
           /\ adapter' = [adapter EXCEPT ![call.who].need = @ \/ call.answer = "calls"]
  <2>. DEFINE r == [ledger[Row] EXCEPT !.durable = TRUE]
  <2>. DEFINE need == Mine.need \/ call.answer = "calls"
  <2>. DEFINE b == [Mine EXCEPT !.need = need]
  <2>. DEFINE m == Mine.msg
  <2>1. /\ Len(commits) \in Nat /\ call.who \in Adapters /\ Mine \in AdapterType
        /\ m \in 1 .. Len(commits) /\ commits \in Seq(Nat) /\ commits[m] = 0
    <3>1. Unanswered(call.who) /\ Mine.msg # 0 /\ ~Mine.need
      BY Zenon, <1>0, Basics DEF DispatchInv, Messages
    <3>2. m \in 1 .. Len(commits)
      BY <1>1
    <3>. QED  BY Zenon, <3>1, <3>2, Basics DEF DispatchInv, Types, Unanswered, Mine
  <2>2. /\ r \in RowType /\ r.state = "dispatch_started" /\ r.calls = 1 /\ r.charged = 0
        /\ r.msg = m /\ r.durable
    <3>0. ledger[Row] \in RowType
      BY <1>1
    <3>1. r \in RowType
      BY Zenon, <3>0 DEF RowType
    <3>2. r.state = "dispatch_started" /\ r.calls = 1 /\ r.charged = 0 /\ r.msg = m
      BY Zenon, <1>1, <3>0 DEF RowType
    <3>3. r.durable = TRUE
      BY Zenon, <3>0 DEF RowType
    <3>. QED  BY Zenon, <3>1, <3>2, <3>3
  <2>3. row(r)
    BY Zenon, <1>2 DEF commitAssistantTurn
  <2>4. /\ call' \in CallType /\ call'.at = "committed" /\ call'.who = call.who
        /\ call'.node = call.node /\ call'.answer = call.answer
    BY Zenon, <1>2 DEF DispatchInv, Types, CallType, Places, Moving
  <2>5. need \in BOOLEAN /\ (call.answer = "calls" => need)
    BY Zenon
  <2>6. adapter' = [adapter EXCEPT ![call.who] = b]
    BY <1>2, Zenon DEF Mine
  <2>. HIDE DEF r, need
  <2>7. b \in AdapterType /\ b.msg = m /\ b.need = need
    BY Zenon, <2>1, <2>5 DEF AdapterType
  <2>. HIDE DEF b
  <2>8. /\ ledger' \in Seq(RowType) /\ Len(ledger') = Len(ledger) /\ ledger'[Len(ledger)] = r
        /\ \A i \in 1 .. Len(ledger) : i # Len(ledger) => ledger'[i] = ledger[i]
    BY Zenon, <1>1, <2>2, <2>3, RowWritten DEF DispatchInv
  <2>9. /\ adapter' \in [Adapters -> AdapterType] /\ adapter'[call.who] = b
        /\ \A a \in Adapters : a # call.who => adapter'[a] = adapter[a]
    BY Zenon, <2>1, <2>6, <2>7 DEF DispatchInv, Types
  <2>10. /\ commits' \in Seq(Nat) /\ Len(commits') = Len(commits) /\ commits'[m] = 1
         /\ \A k \in 1 .. Len(commits) : k # m => commits'[k] = commits[k]
    <3>1. commits' = [commits EXCEPT ![m] = 0 + 1]
      BY Zenon, <1>1, <1>2, <2>1 DEF commitAssistantTurn
    <3>. QED  BY <2>1, <3>1, ExceptSeq
  <2>11. Types'
    BY Zenon, <1>0, <2>4, <2>8, <2>9, <2>10 DEF DispatchInv, Types
  <2>12. Rows'
    <3>1. RowTrue(r)
      BY <2>2 DEF RowTrue
    <3>2. \A i \in 1 .. Len(ledger') : RowTrue(ledger'[i]) /\ ledger'[i].msg \in 1 .. Len(commits')
      BY Zenon, <1>1, <2>1, <2>2, <2>8, <2>10, <3>1
    <3>3. \A i \in 1 .. Len(ledger') : i < Len(ledger') => ledger'[i].charged = ledger'[i].calls
      BY <1>1, <2>8
    <3>4. Mine'.msg = m /\ ledger'[Row'] = r
      BY Zenon, <2>4, <2>7, <2>8, <2>9 DEF Mine, Row
    <3>. QED  BY Zenon, <1>1, <2>2, <2>4, <2>8, <3>2, <3>3, <3>4 DEF Rows, Rowed, Sent, Stopped
  <2>13. Messages'
    <3>1. \A k \in 1 .. Len(commits') : commits'[k] <= 1
      BY <2>10 DEF DispatchInv, Messages
    <3>2. \A a \in Adapters : adapter'[a].msg = adapter[a].msg
      BY Zenon, <2>7, <2>9 DEF Mine
    <3>3. ~engine'.used => commits'[1] = 0
      BY <1>0, <2>1, <2>10, SMTT(60) DEF DispatchInv, Messages, Mine
    <3>4. \A a \in Adapters : a # call'.who => Unanswered(a)'
      <4>1. \A a \in Adapters : a # call.who => Unanswered(a) /\ adapter[a].msg # m
        BY Zenon, <1>0, <2>1 DEF DispatchInv, Messages, Mine
      <4>2. \A a \in Adapters : adapter[a].msg \in 0 .. Len(commits)
        BY <2>1 DEF DispatchInv, Messages, Types, AdapterType
      <4>. QED  BY <2>1, <2>4, <2>9, <2>10, <4>1, <4>2 DEF Unanswered
    <3>5. call'.answer = "calls" => Mine'.need
      BY Zenon, <2>4, <2>5, <2>7, <2>9 DEF Mine
    <3>. QED  BY ZenonT(60), <1>0, <2>4, <2>10, <3>1, <3>2, <3>3, <3>4, <3>5 DEF DispatchInv, Messages, Claimed
  <2>14. Attempted'
    <3>1. engine.failed = 0
      BY Zenon, <1>0 DEF DispatchInv, Attempted, Sent
    <3>2. \A p \in replaced : p[1] \in 1 .. Len(ledger) /\ p[1] # Len(ledger)
      BY <1>1 DEF DispatchInv, Attempted
    <3>. QED  BY Zenon, <1>0, <2>8, <3>1, <3>2 DEF DispatchInv, Attempted
  <2>15. Announced'
    BY Zenon, <1>0, <1>1, <2>2, <2>4, <2>8 DEF DispatchInv, Announced
  <2>16. Decided'
    BY Zenon, <1>0, <2>4 DEF DispatchInv, Decided, Claimed
  <2>. QED  BY Zenon, <2>11, <2>12, <2>13, <2>14, <2>15, <2>16 DEF DispatchInv
<1>3. CASE goes("uncommitted") /\ UNCHANGED <<commits, ledger, adapter>>
  <2>1. /\ call' \in CallType /\ call'.at = "uncommitted" /\ call'.who = call.who
        /\ call'.node = call.node /\ call'.heard = call.heard
    BY Zenon, <1>3, GoesShape DEF DispatchInv, Places, Moving
  <2>2. /\ "uncommitted" \in Rowed \ {"prepared", "dispatch", "committed"}
        /\ "uncommitted" \in Sent /\ call.at \in Sent
    BY Zenon, <1>0 DEF Rowed, Sent
  <2>. QED  BY Zenon, <1>0, <1>1, <1>3, <2>1, <2>2, AdvanceKeeps DEF DispatchInv, Types
<1>4. "commit" \notin LostAcks
  BY Zenon DEF AcksArrive
<1>. QED  BY Zenon, <1>2, <1>3, <1>4 DEF Commit

\* Finishing the request row after the commit.
LEMMA FinishKeeps ==
    ASSUME AcksArrive, DispatchInv, Finish
    PROVE  DispatchInv'
<1>0. /\ call.at = "committed" /\ call.at \in Sent /\ call.at \in Rowed
      /\ UNCHANGED <<commits, approvals, checkpoint, resume, replaced, resumed>>
  BY Zenon DEF Finish, at, Sent, Rowed
<1>1. ASSUME NEW ok \in BOOLEAN, finish("completed", "none", ok)
      PROVE  /\ ledger' \in Seq(RowType) /\ Len(ledger') = Len(ledger)
             /\ \A i \in 1 .. Len(ledger) :
                  /\ RowTrue(ledger'[i]) /\ ledger'[i].msg = ledger[i].msg
                  /\ ledger'[i].durable = ledger[i].durable /\ ledger'[i].charged = ledger'[i].calls
                  /\ ledger[i].state # "prepared" => ledger'[i].state # "prepared"
             /\ engine' \in EngineType /\ engine'.used = engine.used
             /\ engine'.emitted = engine.emitted /\ engine'.failed = 0
  BY Zenon, <1>0, <1>1, FinishShape
<1>2. CASE finish("completed", "none", TRUE) /\ goes(continuation) /\ UNCHANGED adapter
  <2>1. continuation \in {"asking", "tools", "completed"}
        /\ (continuation = "tools" => call.answer = "calls" /\ call.node < Nodes)
    BY Zenon DEF continuation
  <2>2. /\ call' \in CallType /\ call'.at \in {"asking", "tools", "completed"}
        /\ call'.at = "tools" => call.answer = "calls" /\ call.node < Nodes
        /\ call'.who = call.who /\ call'.node = call.node
    BY Zenon, <1>2, <2>1, GoesShape DEF DispatchInv, Places, Moving, Resting
  <2>3. /\ ledger' \in Seq(RowType) /\ Len(ledger') = Len(ledger)
        /\ \A i \in 1 .. Len(ledger) :
             /\ RowTrue(ledger'[i]) /\ ledger'[i].msg = ledger[i].msg
             /\ ledger'[i].durable = ledger[i].durable /\ ledger'[i].charged = ledger'[i].calls
             /\ ledger[i].state # "prepared" => ledger'[i].state # "prepared"
        /\ engine' \in EngineType /\ engine'.used = engine.used
        /\ engine'.emitted = engine.emitted /\ engine'.failed = 0
    BY Zenon, <1>1, <1>2
  <2>4. Types'
    BY Zenon, <1>0, <1>2, <2>2, <2>3 DEF DispatchInv, Types
  <2>5. Rows'
    BY Zenon, <1>0, <2>2, <2>3 DEF DispatchInv, Rows, Rowed, Stopped
  <2>6. Messages'
    <3>1. call'.at = "tools" => \A a \in Adapters : Unanswered(a)'
      <4>. SUFFICES ASSUME call'.at = "tools", NEW a \in Adapters PROVE Unanswered(a)'
        BY Zenon
      <4>1. CASE a = call.who
        BY Zenon, <1>0, <1>2, <2>2, <4>1 DEF DispatchInv, Messages, Unanswered, Mine
      <4>2. CASE a # call.who
        BY Zenon, <1>0, <1>2, <4>2 DEF DispatchInv, Messages, Unanswered
      <4>. QED  BY Zenon, <4>1, <4>2
    <3>2. call'.at \notin Claimed \cup {"node", "begin", "committed"}
      BY Zenon, <2>2 DEF Claimed, Rowed
    <3>. QED  BY ZenonT(60), <1>0, <1>2, <2>3, <3>1, <3>2 DEF DispatchInv, Messages
  <2>7. Attempted'
    BY Zenon, <1>0, <2>3 DEF DispatchInv, Attempted
  <2>8. Announced'
    BY ZenonT(60), <1>0, <2>2, <2>3 DEF DispatchInv, Announced
  <2>9. Decided'
    BY Zenon, <1>0, <2>2 DEF DispatchInv, Decided, Claimed, Rowed
  <2>. QED  BY Zenon, <2>4, <2>5, <2>6, <2>7, <2>8, <2>9 DEF DispatchInv
<1>3. CASE finish("completed", "none", FALSE) /\ raises("committed")
  <2>1. /\ ledger' \in Seq(RowType) /\ Len(ledger') = Len(ledger)
        /\ \A i \in 1 .. Len(ledger) :
             /\ RowTrue(ledger'[i]) /\ ledger'[i].msg = ledger[i].msg
             /\ ledger'[i].durable = ledger[i].durable /\ ledger'[i].charged = ledger'[i].calls
             /\ ledger[i].state # "prepared" => ledger'[i].state # "prepared"
        /\ engine' \in EngineType /\ engine'.used = engine.used
        /\ engine'.emitted = engine.emitted /\ engine'.failed = 0
    BY Zenon, <1>1, <1>3
  <2>2. ErrorLeaves("committed")
    BY Zenon, <1>0, <2>1 DEF ErrorLeaves, DispatchInv, Types, Announced
  <2>. QED  BY Zenon, <1>3, <2>2, ErrorKeeps DEF Errors
<1>. QED  BY Zenon, <1>2, <1>3 DEF Finish, committedFailed

\* Asking for an approval appends a record.
RecordAsked ==
    /\ approvals' \in Seq(RecordType) /\ Len(approvals') = Len(approvals) + 1
    /\ \A i \in 1 .. Len(approvals) : approvals'[i] = approvals[i]
    /\ approvals'[Len(approvals) + 1].status = "pending"
    /\ approvals'[Len(approvals) + 1].responses = 0

\* A pause asks for an approval, or finds the answer committed.
LEMMA PauseShape ==
    ASSUME DispatchInv, Pause
    PROVE  \/ RecordAsked /\ raises("interrupt")
           \/ UNCHANGED approvals /\ raises("committed")
<1>. DEFINE r == [status |-> "pending", decision |-> "none", responses |-> 0]
<1>1. r \in RecordType
  BY Zenon DEF RecordType
<1>2. CASE approvals' = Append(approvals, r) /\ raises("interrupt")
  <2>1. /\ approvals' \in Seq(RecordType) /\ Len(approvals') = Len(approvals) + 1
        /\ \A i \in 1 .. Len(approvals) : approvals'[i] = approvals[i]
        /\ approvals'[Len(approvals) + 1] = r
    BY <1>1, <1>2, AppendProperties DEF DispatchInv, Types
  <2>. QED  BY <1>2, <2>1 DEF RecordAsked
<1>. QED  BY Zenon, <1>2 DEF Pause, committedFailed

\* Pausing for an approval.
LEMMA PauseKeeps ==
    ASSUME AcksArrive, DispatchInv, Pause
    PROVE  DispatchInv'
<1>0. /\ call.at = "asking"
      /\ UNCHANGED <<ledger, commits, engine, checkpoint, resume, replaced, resumed>>
  BY Zenon DEF Pause, at
<1>1. \A i \in 1 .. Len(ledger) : RowTrue(ledger[i]) /\ ledger[i].charged = ledger[i].calls
  BY Zenon, <1>0 DEF DispatchInv, Rows, Rowed, Stopped
<1>2. CASE RecordAsked /\ raises("interrupt")
  <2>1. /\ call' \in CallType /\ call'.node = call.node
        /\ adapter' \in [Adapters -> AdapterType] /\ call'.at \in {"pausing", "failed"}
    BY Zenon, <1>2, RaisesShape DEF DispatchInv, Errors
  <2>2. Len(approvals) \in Nat
    BY Zenon, Basics DEF DispatchInv
  <2>3. Types'
    BY Zenon, <1>0, <1>2, <2>1 DEF DispatchInv, Types, RecordAsked
  <2>4. Rows'
    BY Zenon, <1>0, <1>1, <2>1 DEF DispatchInv, Rows, Rowed
  <2>5. Messages'
    BY Zenon, <1>0, <1>2, RaisesMessages DEF DispatchInv, Errors
  <2>6. Attempted' /\ Announced'
    BY Zenon, <1>0, <2>1 DEF DispatchInv, Attempted, Announced, Rowed, Sent
  <2>7. \A i \in 1 .. Len(approvals') :
           approvals'[i].responses = IF approvals'[i].status = "decided" THEN 1 ELSE 0
    BY <1>2, <2>2 DEF DispatchInv, Decided, RecordAsked
  <2>8. Decided'
    BY <1>0, <1>2, <2>1, <2>2, <2>7, SMTT(60) DEF DispatchInv, Types, Decided, RecordAsked, Claimed, Rowed
  <2>. QED  BY Zenon, <2>3, <2>4, <2>5, <2>6, <2>8 DEF DispatchInv
<1>3. CASE UNCHANGED approvals /\ raises("committed")
  <2>1. Types /\ Attempted /\ Announced
    BY Zenon DEF DispatchInv
  <2>2. ErrorLeaves("committed")
    BY <1>0, <1>1, <1>3, <2>1, SMTT(60) DEF ErrorLeaves, Types, EngineType, Attempted, Announced
  <2>. QED  BY Zenon, <1>3, <2>2, ErrorKeeps DEF Errors
<1>. QED  BY Zenon, <1>2, <1>3, PauseShape

\* Promoting the checkpoint that waits for the approval.
LEMMA PromoteKeeps ==
    ASSUME AcksArrive, DispatchInv, PromotePause
    PROVE  DispatchInv'
<1>0. /\ call.at = "pausing" /\ goes("paused")
      /\ UNCHANGED <<ledger, commits, adapter, engine, approvals, resume, replaced, resumed>>
  BY Zenon DEF PromotePause, at
<1>1. /\ call' \in CallType /\ call'.at = "paused" /\ call'.who = call.who /\ call'.node = call.node
  BY Zenon, <1>0, GoesShape DEF DispatchInv, Places, Resting
<1>2. checkpoint' \in Nat /\ checkpoint' <= Len(approvals) /\ checkpoint' # 0
  <2>1. Len(approvals) \in Nat /\ Len(approvals) # 0
    BY Zenon, <1>0, Basics DEF DispatchInv, Decided
  <2>2. CASE resume.active /\ resume.decision = "none"
    BY Zenon, <2>2 DEF PromotePause, DispatchInv, Decided, Types
  <2>3. CASE ~(resume.active /\ resume.decision = "none")
    BY <2>1, <2>3 DEF PromotePause
  <2>. QED  BY Zenon, <2>2, <2>3
<1>3. Types'
  BY Zenon, <1>0, <1>1, <1>2 DEF DispatchInv, Types
<1>4. Rows'
  BY Zenon, <1>0, <1>1 DEF DispatchInv, Rows, Rowed, Stopped
<1>5. Messages'
  BY Zenon, <1>0, <1>1 DEF DispatchInv, Messages, Claimed, Rowed
<1>6. Attempted' /\ Announced'
  BY Zenon, <1>0, <1>1 DEF DispatchInv, Attempted, Announced, Rowed, Sent
<1>7. Decided'
  BY Zenon, <1>0, <1>1, <1>2 DEF DispatchInv, Decided, Claimed, Rowed
<1>. QED  BY Zenon, <1>3, <1>4, <1>5, <1>6, <1>7 DEF DispatchInv

\* Going on to the next node.
LEMMA NextNodeKeeps ==
    ASSUME AcksArrive, DispatchInv, NextNode
    PROVE  DispatchInv'
<1>0. /\ call.at = "tools" /\ ledger' = <<>> /\ replaced' = {}
      /\ resume' = [resume EXCEPT !.active = FALSE]
      /\ UNCHANGED <<commits, approvals, checkpoint, resumed, adapter, engine>>
  BY Zenon DEF NextNode, nextNodesRows, at
<1>1. PICK who \in {0, call.who} : call' = [firstNode(who) EXCEPT !.node = call.node + 1]
  BY Zenon DEF NextNode
<1>2. call.node \in 1 .. Nodes /\ call.node < Nodes /\ Nodes \in Nat /\ who \in Adapters
  BY <1>0 DEF DispatchInv, Decided, Types, CallType, AcksArrive, DispatchBounds, Adapters
<1>3. call' = [at |-> "node", who |-> who, try |-> 1, node |-> call.node + 1,
               answer |-> "none", heard |-> FALSE]
  BY Zenon, <1>1 DEF firstNode
<1>4. call' \in CallType /\ call'.at = "node" /\ call'.node = call.node + 1 /\ ~call'.heard
  BY <1>2, <1>3 DEF CallType, Places, Moving, AcksArrive, DispatchBounds
<1>5. resume' \in ResumeType /\ ~resume'.active
  BY Zenon, <1>0 DEF DispatchInv, Types, ResumeType
<1>6. Types'
  BY <1>0, <1>4, <1>5 DEF DispatchInv, Types
<1>7. Rows'
  BY <1>0, <1>4 DEF Rows, Rowed
<1>8. Messages'
  <2>1. \A a \in Adapters : Unanswered(a)'
    BY Zenon, <1>0 DEF DispatchInv, Messages, Unanswered
  <2>. QED  BY Zenon, <1>0, <1>4, <2>1 DEF DispatchInv, Messages, Claimed, Rowed
<1>9. Attempted'
  BY Zenon, <1>0 DEF DispatchInv, Attempted
<1>10. Announced'
  <2>1. \A p \in resumed : p[1] \in Nat
    BY Zenon DEF DispatchInv, Types
  <2>. QED  BY <1>0, <1>2, <1>4, <2>1 DEF DispatchInv, Announced
<1>11. Decided'
  BY Zenon, <1>0, <1>4, <1>5 DEF DispatchInv, Decided
<1>. QED  BY Zenon, <1>6, <1>7, <1>8, <1>9, <1>10, <1>11 DEF DispatchInv

\* Resuming with a decision.
LEMMA ResumeKeeps ==
    ASSUME AcksArrive, DispatchInv, ResumePaused
    PROVE  DispatchInv'
<1>0. call.at = "paused" /\ UNCHANGED <<approvals, checkpoint>>
  BY Zenon DEF ResumePaused, at
<1>1. PICK d \in Decisions \cup {"none"} : resumeEngine(d)
  BY Zenon DEF ResumePaused
<1>2. /\ call' \in CallType /\ call'.at = "node" /\ call'.node = 1 /\ ~call'.heard
  BY <1>1, SMTT(60) DEF resumeEngine, firstNode, CallType, Places, Moving, Adapters, AcksArrive, DispatchBounds
<1>3. adapter' \in [Adapters -> AdapterType] /\ \A a \in Adapters : adapter'[a].msg = 0
  BY Zenon, <1>1 DEF resumeEngine, fresh, AdapterType
<1>4. /\ engine' \in EngineType /\ engine'.failed = 0
      /\ ~engine'.emitted /\ (~engine'.used => ~messageHasParts)
  <2>1. messageHasParts \in BOOLEAN
    BY DEF messageHasParts
  <2>2. engine' = [used |-> messageHasParts, failed |-> 0, emitted |-> FALSE]
    BY Zenon, <1>1 DEF resumeEngine
  <2>. QED  BY Zenon, <2>1, <2>2 DEF EngineType
<1>5. resume' \in ResumeType
  BY <1>1 DEF resumeEngine, ResumeType, DispatchInv, Types
<1>6. commits' \in Seq(Nat) /\ Len(commits') = 1 /\ commits'[1] = commits[1]
  <2>1. commits \in Seq(Nat) /\ Len(commits) \in Nat /\ Len(commits) > 0
    BY Zenon, Basics DEF DispatchInv, Types, Messages
  <2>. QED  BY <1>1, <2>1, SubSeqProperties, SMTT(60) DEF resumeEngine
<1>7. ledger' = <<>> /\ replaced' = {} /\ resumed' = {}
  BY Zenon, <1>1 DEF resumeEngine, nextNodesRows
<1>8. commits[1] \in Nat /\ commits[1] <= 1 /\ (~messageHasParts => commits[1] = 0)
  BY Basics, SMTT(60) DEF DispatchInv, Messages, messageHasParts
<1>9. Types'
  BY <1>0, <1>2, <1>3, <1>4, <1>5, <1>6, <1>7, SMTT(60) DEF DispatchInv, Types
<1>10. Rows'
  BY <1>2, <1>7, SMTT(60) DEF Rows, Rowed
<1>11. Messages'
  BY <1>2, <1>3, <1>4, <1>6, <1>8 DEF Messages, Unanswered, Claimed, Rowed
<1>12. Attempted' /\ Announced'
  BY Zenon, <1>4, <1>7 DEF Attempted, Announced
<1>13. Decided'
  BY Zenon, <1>0, <1>2 DEF DispatchInv, Decided
<1>. QED  BY Zenon, <1>9, <1>10, <1>11, <1>12, <1>13 DEF DispatchInv

\* A crash of the engine.
LEMMA CrashKeeps ==
    ASSUME AcksArrive, DispatchInv, EngineCrash
    PROVE  DispatchInv'
<1>0. /\ goes(IF checkpoint = 0 THEN "interrupted" ELSE "paused")
      /\ UNCHANGED <<ledger, commits, approvals, checkpoint, replaced, resumed, adapter, engine, resume>>
  BY Zenon DEF EngineCrash, durable
<1>1. /\ call' \in CallType /\ call'.at \in Stopped /\ call'.node = call.node
      /\ call'.at = "paused" => checkpoint # 0
  BY <1>0, GoesShape DEF DispatchInv, Places, Resting, Stopped
<1>2. Types'
  BY Zenon, <1>0, <1>1 DEF DispatchInv, Types
<1>3. Rows'
  BY Zenon, <1>0, <1>1 DEF DispatchInv, Rows, Rowed, Stopped
<1>4. Messages'
  BY Zenon, <1>0, <1>1 DEF DispatchInv, Messages, Claimed, Rowed, Stopped
<1>5. Attempted' /\ Announced'
  BY Zenon, <1>0, <1>1 DEF DispatchInv, Attempted, Announced, Rowed, Sent, Stopped
<1>6. Decided'
  BY Zenon, <1>0, <1>1 DEF DispatchInv, Decided, Claimed, Rowed, Stopped
<1>. QED  BY Zenon, <1>2, <1>3, <1>4, <1>5, <1>6 DEF DispatchInv

\* A step that changes nothing keeps the invariant.
LEMMA UnchangedKeeps ==
    ASSUME DispatchInv, UNCHANGED dispatchVars
    PROVE  DispatchInv'
<1>. USE DEF dispatchVars, DispatchInv
<1>1. Types'
  BY Zenon DEF Types
<1>2. Rows'
  BY ZenonT(60) DEF Rows, Row, Mine
<1>3. Messages'
  BY SMTT(60) DEF Messages, Unanswered, Mine
<1>4. Attempted' /\ Announced'
  BY SMTT(60) DEF Attempted, Announced, Row
<1>5. Decided'
  BY SMTT(60) DEF Decided
<1>. QED  BY Zenon, <1>1, <1>2, <1>3, <1>4, <1>5

\* Every step of the adapter keeps the invariant.
LEMMA NextKeeps ==
    ASSUME AcksArrive, DispatchInv, [DispatchNext]_dispatchVars
    PROVE  DispatchInv'
  BY Zenon, PrepareKeeps, ClaimKeeps, PrepareRequestKeeps, UpdateRequestKeeps, RecordFactsKeeps, DispatchKeeps,
     ReceiveKeeps, CommitKeeps, CommitFailsKeeps, FinishKeeps, PauseKeeps, PromoteKeeps, NextNodeKeeps,
     ResumeKeeps, CrashKeeps, UnchangedKeeps
     DEF DispatchNext, Step, Rest

\* The invariant of the adapter holds throughout.
LEMMA DispatchInvariant == AcksArrive => (DispatchSpec => []DispatchInv)
<1>. SUFFICES ASSUME AcksArrive PROVE DispatchSpec => []DispatchInv
  BY Zenon
<1>1. DispatchInit => DispatchInv
  BY Zenon, InitHolds
<1>2. DispatchInv /\ [DispatchNext]_dispatchVars => DispatchInv'
  BY Zenon, NextKeeps
<1>. QED  BY <1>1, <1>2, PTL DEF DispatchSpec

-----------------------------------------------------------------------------
(* What a turn's model calls promise.                                      *)

\* Every row names a message of its engine and stands for at most one call,
\* adapters and calls stay within the configured attempts and models, and a
\* checkpoint waits for an approval that was asked for.
THEOREM DispatchTypeCorrect == AcksArrive => (DispatchSpec => []DispatchTypeOK)
<1>. SUFFICES ASSUME AcksArrive PROVE DispatchSpec => []DispatchTypeOK
  BY Zenon
<1>1. DispatchInv => DispatchTypeOK
  <2>. SUFFICES ASSUME DispatchInv PROVE DispatchTypeOK
    BY Zenon
  <2>1. \A i \in 1 .. Row : ledger[i] \in RowType /\ RowTrue(ledger[i]) /\ ledger[i].msg \in 1 .. Len(commits)
    BY Zenon, Basics DEF DispatchInv, Rows, Row
  <2>2. \A a \in Adapters : adapter[a].msg \in 0 .. Len(commits)
    BY Basics DEF DispatchInv, Messages, Types, AdapterType
  <2>3. checkpoint \in 0 .. Len(approvals)
    BY Basics DEF DispatchInv, Types, Decided
  <2>4. call.try \in 1 .. Attempts /\ call.who \in Adapters /\ call.node \in 1 .. Nodes
    BY Zenon DEF DispatchInv, Types, CallType
  <2>. QED  BY Zenon, <2>1, <2>2, <2>3, <2>4 DEF DispatchTypeOK, RowType, RowTrue
<1>. QED  BY <1>1, DispatchInvariant, PTL

\* What is durable of the attempts is true whatever writes fail and wherever
\* the engine dies: the rows say what was sent and are charged for it, no
\* message receives two answers, each failed attempt is replaced once, and a
\* resume is announced once by a dispatch that was started (begin, dispatch,
\* commit and finish of adk_model.go with the wrappers of adk_retry.go).
THEOREM LedgerAlwaysTruthful == AcksArrive => (DispatchSpec => []LedgerTruthful)
<1>. SUFFICES ASSUME AcksArrive PROVE DispatchSpec => []LedgerTruthful
  BY Zenon
<1>1. DispatchInv => LedgerTruthful
  <2>. SUFFICES ASSUME DispatchInv PROVE LedgerTruthful
    BY Zenon
  <2>1. rowsTruthful
    BY Zenon DEF rowsTruthful, DispatchInv, Rows, RowTrue, Row
  <2>2. oneAnswerPerMessage
    BY Zenon DEF oneAnswerPerMessage, DispatchInv, Messages
  <2>3. usageCharged
    BY Zenon DEF usageCharged, DispatchInv, Rows, RowTrue, Rowed, Stopped, Row
  <2>4. replacedAttempts
    BY Zenon DEF replacedAttempts, DispatchInv, Attempted
  <2>5. resumedNamesDispatch
    BY Zenon DEF resumedNamesDispatch, DispatchInv, Announced
  <2>. QED  BY Zenon, <2>1, <2>2, <2>3, <2>4, <2>5 DEF LedgerTruthful
<1>. QED  BY <1>1, DispatchInvariant, PTL

\* Once a node's output was shown to observers or committed, no other physical
\* call is made for that node: a call starts only while nothing was heard of it
\* (errPartialStreamObserved and errCommittedDispatchFailed stop the wrappers).
THEOREM CallsPrecedeOutput == AcksArrive => (DispatchSpec => NoCallAfterOutput)
<1>. SUFFICES ASSUME AcksArrive PROVE DispatchSpec => NoCallAfterOutput
  BY Zenon
<1>1. DispatchInv => (at("dispatch") /\ call'.at = "calling" => ~call.heard)
  BY Zenon DEF DispatchInv, Decided, at, Claimed, Rowed
<1>. QED  BY <1>1, DispatchInvariant, PTL DEF DispatchSpec, NoCallAfterOutput

\* A step keeps every decided record and answers a decision with one message.
LEMMA RecordsStep ==
    ASSUME AcksArrive, DispatchInv, [DispatchNext]_dispatchVars
    PROVE  \A i \in 1 .. Len(approvals) :
             /\ approvals'[i].responses = IF approvals'[i].status = "decided" THEN 1 ELSE 0
             /\ approvals[i].status = "decided" => approvals'[i] = approvals[i]
<1>1. CASE Prepare
  BY Zenon, <1>1, PrepareShape DEF RecordsKept
<1>2. CASE Pause
  BY Zenon, <1>2, PauseShape DEF RecordAsked, DispatchInv, Decided
<1>3. CASE UNCHANGED approvals
  BY Zenon, <1>3 DEF DispatchInv, Decided
<1>. QED
  BY Zenon, <1>1, <1>2, <1>3
     DEF DispatchNext, Step, ClaimMessage, PrepareModelRequest, UpdateModelRequest, RecordFacts,
         Dispatch, ReceiveModelStream, Commit, CommitFails, Finish, PromotePause, NextNode, ResumePaused,
         EngineCrash, Rest, dispatchVars, durable

\* An approval is decided together with exactly one response message and never
\* decided otherwise later, also when the acknowledgement of that transaction
\* is lost and the resume is repeated (prepare and its targeted resume).
THEOREM ApprovalsDecidedOnce == AcksArrive => (DispatchSpec => DecisionOnce)
<1>. SUFFICES ASSUME AcksArrive PROVE DispatchSpec => DecisionOnce
  BY Zenon
<1>1. DispatchInv /\ [DispatchNext]_dispatchVars =>
         \A i \in 1 .. Len(approvals) :
            /\ approvals'[i].responses = IF approvals'[i].status = "decided" THEN 1 ELSE 0
            /\ approvals[i].status = "decided" => approvals'[i] = approvals[i]
  BY Zenon, RecordsStep
<1>. QED  BY <1>1, DispatchInvariant, PTL DEF DispatchSpec, DecisionOnce
=============================================================================
