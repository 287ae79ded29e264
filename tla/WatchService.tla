---------------------------- MODULE WatchService ----------------------------
(***************************************************************************)
(* The watch service: observers of a session see its durable state, read   *)
(* from the store by one poller per watched session, and the text a model  *)
(* is streaming now, handed over by the runtime.  The consumer is the      *)
(* AG-UI bridge, which keeps one view per subscription.                    *)
(*                                                                         *)
(* Everything done under service.mu is one step.  Reads of the store are   *)
(* made without it: they are steps of their own, and the memory of what    *)
(* was read lives in the poller, the Watch call or the Resnapshot call.    *)
(*                                                                         *)
(* A tick and a Hint both let the poller take its next round, and a tick   *)
(* may come at any time, so the wake channel needs no variable.  A         *)
(* terminated subscription leaves service.subscriptions and group.subs at  *)
(* once, and a group is cancelled and leaves service.sessions with its     *)
(* last subscription, so these three maps are the operators `registered',  *)
(* `members' and `groupOf'.                                                *)
(***************************************************************************)
EXTENDS Naturals, Sequences, FiniteSets, FiniteSetsExt

CONSTANTS
    Sessions, Runs, Messages,   \* identities
    StoreIDs, Replacements,     \* incarnations of the database, and which of
                                \* them may replace it while it is watched
    Groups, Subs,               \* pollers and subscriptions that ever exist
    Resnapshotters,             \* the subscriptions that call Resnapshot
    Attempts,                   \* model attempts, each tapped once
    sessionOf, runOf,           \* the session of a run, the run of a message
    InitialRows,                \* the databases the service may start on
    MaxRevision, MaxVersion,    \* bounds on the counters
    MaxSubscriptions, MaxWatchedSessions, MaxLiveRuns, MaxLiveTextBytes,
    PendingUpdates,             \* watch.Options
    None, Failed,
    Outcomes                    \* how a read may fail: None (no usable answer)
                                \* or Failed (an error, a timeout)

ASSUME WatchIdentities ==
    /\ sessionOf \in [Runs -> Sessions]
    /\ runOf \in [Messages -> Runs]
    /\ Replacements \subseteq StoreIDs /\ Resnapshotters \subseteq Subs
    /\ None # Failed /\ Failed \notin StoreIDs
    /\ None \notin Sessions \cup Runs \cup Messages \cup StoreIDs
                    \cup Groups \cup Subs \cup Attempts

ASSUME WatchOptions ==
    /\ MaxRevision \in Nat /\ MaxVersion \in Nat
    /\ \A n \in {MaxSubscriptions, MaxWatchedSessions, MaxLiveRuns,
                 MaxLiveTextBytes, PendingUpdates} : n \in Nat \ {0}
    /\ Outcomes \subseteq {None, Failed}

VARIABLES
    storeID, rows,  \* the database: its incarnation, what each session shows
    group,          \* watchedSession and the locals of its poll goroutine
    sub,            \* Subscription and the locals of the calls made on it
    live,           \* service.live: the text retained for each run
    liveBytes, version, closed,
    begun,          \* the message of each attempt that was begun
    view            \* WatchBridge: snapshot and overlays of each subscription

serviceVars == <<group, sub, live, liveBytes, version, closed, begun, view>>
liveVars == <<live, liveBytes, version, begun>>
storeVars == <<storeID, rows>>
vars == <<storeVars, serviceVars>>

-----------------------------------------------------------------------------
(* Snapshots and updates.                                                  *)

RunState == {"none", "active", "terminal"}
MessageState == {"none", "open", "final"}

Row == [rev : 0..MaxRevision,
        run : [Runs -> RunState], msg : [Messages -> MessageState]]

Watermark == [store : StoreIDs \cup {None, Failed}, rev : 0..MaxRevision]

Snapshot == [mark : Watermark,
             run : [Runs -> RunState], msg : [Messages -> MessageState]]

\* No watermark yet; an invalid answer has none either.  A failed read.
noMark == [store |-> None, rev |-> 0]
failedMark == [store |-> Failed, rev |-> 0]

emptySnapshot(mark) == [mark |-> mark, run |-> [r \in Runs |-> "none"],
                        msg |-> [m \in Messages |-> "none"]]
noSnapshot == emptySnapshot(noMark)

\* ReadObservationRevision and ReadObservationSnapshot: one read transaction.
markOf(s) == [store |-> storeID, rev |-> rows[s].rev]

snapshotOf(s) ==
    [mark |-> markOf(s),
     run |-> [r \in Runs |-> IF sessionOf[r] = s THEN rows[s].run[r] ELSE "none"],
     msg |-> [m \in Messages |->
                IF sessionOf[runOf[m]] = s THEN rows[s].msg[m] ELSE "none"]]

\* What a read may return: what is there, no usable answer, an error.
readMark(s) ==
    {markOf(s)}
    \cup {x \in {noMark, failedMark} : x.store \in Outcomes}

readSnapshot(s) ==
    {snapshotOf(s)}
    \cup {emptySnapshot(x) : x \in readMark(s) \ {markOf(s)}}

\* Mutant: any answer counts as a snapshot.
anySnapshot(snap) == TRUE

validSnapshot(snap) == snap.mark.store \in StoreIDs

Eligible(snap, m) == snap.run[runOf[m]] = "active" /\ snap.msg[m] = "open"

Durable(snap) == [kind |-> "durable", snap |-> snap]

\* An overlay names a message, or a run whose message is not visible yet.
\* The bridge's answer for a message without a retained text is the last form.
Overlay == [kind : {"live"}, run : Runs, msg : Messages, attempt : Attempts,
            len : 0..MaxLiveTextBytes, ver : 0..MaxVersion]
           \cup
           [kind : {"unavailable"}, run : Runs, msg : Messages \cup {None},
            attempt : Attempts \cup {None}, len : {0}, ver : 0..MaxVersion]

\* The text retained for a run: liveEntry.
Live == [msg : Messages, attempt : Attempts, len : 0..MaxLiveTextBytes,
         available : BOOLEAN, ver : 0..MaxVersion]

ASSUME WatchData ==
    /\ IsFiniteSet(Runs) /\ IsFiniteSet(Messages)
    /\ InitialRows \subseteq [Sessions -> Row]
    /\ None \notin Live \cup Overlay

-----------------------------------------------------------------------------
(* Queues.  These are operators of SequencesExt by their definitions there; *)
(* the module itself (it extends Bags) would make each step of the proofs  *)
(* several times slower.                                                   *)

SetToSeq(S) == CHOOSE f \in [1..Cardinality(S) -> S] : IsInjective(f)

ReplaceAt(q, i, e) == [q EXCEPT ![i] = e]

FoldLeft(op(_, _), base, q) ==
    MapThenFoldSet(LAMBDA x, y : op(y, x), base, LAMBDA i : q[i],
                   LAMBDA S : Max(S), DOMAIN q)

-----------------------------------------------------------------------------
(* Groups and subscriptions.                                               *)

registered == {u \in Subs : sub[u].group # None /\ sub[u].err = "none"}

members(g) == {u \in registered : sub[u].group = g}

cancelled(g) == members(g) = {}

started == {g \in Groups : group[g].pc # "free"}

\* Mutant: a group whose last subscription left stays in service.sessions.
staleGroupOf(s) == {g \in started : group[g].session = s}

groupOf(s) == {g \in started : group[g].session = s /\ ~cancelled(g)}

watchedSessions == {s \in Sessions : groupOf(s) # {}}

\* service.workers: pollers, Watch calls and Resnapshot calls still running.
workers == {g \in Groups : group[g].pc \notin {"free", "gone"}}
             \cup {u \in Subs : sub[u].watch \in {"reading", "read"}}
             \cup {u \in Subs : sub[u].resnap \in {"reading", "read"}}

\* terminateLocked.  The snapshot of a terminated subscription is not read
\* again, so the model forgets it.
terminated(m, err) ==
    IF m.err # "none" THEN m
    ELSE [m EXCEPT !.err = err, !.pending = <<>>, !.notify = TRUE,
                   !.snap = noSnapshot]

sameOverlay(old, u) == /\ old.kind # "durable" /\ u.kind # "durable"
                       /\ old.run = u.run /\ old.msg = u.msg

enqueued(m, u) ==
    LET at == {i \in DOMAIN m.pending : sameOverlay(m.pending[i], u)}
    IN  IF m.err # "none" \/ ~m.ready THEN m
        ELSE IF at # {}
        THEN [m EXCEPT !.pending = ReplaceAt(m.pending, Min(at), u),
                       !.notify = TRUE]
        ELSE IF Len(m.pending) >= PendingUpdates
        THEN terminated(m, "resync")
        ELSE [m EXCEPT !.pending = Append(m.pending, u), !.notify = TRUE]

\* The overlay a message or a run has now, given the retained texts lv and
\* the version v of the service.
messageOverlay(m, lv, v) ==
    LET r == runOf[m]
    IN  IF lv[r] # None /\ lv[r].msg = m
        THEN [kind |-> IF lv[r].available THEN "live" ELSE "unavailable",
              run |-> r, msg |-> m, attempt |-> lv[r].attempt,
              len |-> lv[r].len, ver |-> lv[r].ver]
        ELSE [kind |-> "unavailable", run |-> r, msg |-> m, attempt |-> None,
              len |-> 0, ver |-> v]

runOverlay(r, v) == [kind |-> "unavailable", run |-> r, msg |-> None,
                     attempt |-> None, len |-> 0, ver |-> v]

seedLocked(m, lv, v) ==
    LET shown == {x \in Messages : Eligible(m.snap, x)}
        bare == {r \in Runs : m.snap.run[r] = "active"
                                /\ \A x \in shown : runOf[x] # r}
    IN  FoldLeft(enqueued, m,
          [i \in 1..Cardinality(shown) |->
             messageOverlay(SetToSeq(shown)[i], lv, v)]
          \o [i \in 1..Cardinality(bare) |-> runOverlay(SetToSeq(bare)[i], v)])

seedSessionLocked(s, lv, v) ==
    sub' = [u \in Subs |->
              IF \E g \in groupOf(s) : u \in members(g) /\ sub[u].ready
              THEN seedLocked(sub[u], lv, v) ELSE sub[u]]

-----------------------------------------------------------------------------
(* The database.                                                           *)

noRow == [rev |-> 0, run |-> [r \in Runs |-> "none"],
          msg |-> [m \in Messages |-> "none"]]

\* A transaction that changes what session s shows raises its revision.  A
\* session has at most one run that is not terminal, a message opens in an
\* active run, and terminal runs and finalized messages stay as they are.
Commit(s) ==
    /\ rows[s].rev < MaxRevision
    /\ \E run \in [Runs -> RunState], msg \in [Messages -> MessageState] :
         /\ \A r \in Runs :
              /\ run[r] # rows[s].run[r] =>
                   /\ sessionOf[r] = s
                   /\ run[r] = IF rows[s].run[r] = "none" THEN "active"
                               ELSE "terminal"
              /\ rows[s].run[r] = "terminal" => run[r] = "terminal"
         /\ Cardinality({r \in Runs : run[r] = "active"}) <= 1
         /\ \A m \in Messages :
              /\ msg[m] # rows[s].msg[m] =>
                   /\ run[runOf[m]] # "none"
                   /\ msg[m] = IF rows[s].msg[m] = "none" THEN "open" ELSE "final"
              /\ rows[s].msg[m] = "final" => msg[m] = "final"
         /\ rows' = [rows EXCEPT ![s] =
              [rev |-> @.rev + 1, run |-> run, msg |-> msg]]
    /\ UNCHANGED <<storeID, serviceVars>>

\* The database is replaced by an empty one, or by an older copy of itself.
StoreReplaced(id) ==
    /\ \E s \in Sessions : rows[s].rev > 0
    /\ storeID' = id
    /\ rows' = [s \in Sessions |-> noRow]
    /\ UNCHANGED serviceVars

-----------------------------------------------------------------------------
(* Watch.                                                                  *)

idleGroup == [session |-> None, pc |-> "free", mark |-> noMark, base |-> noMark,
              rev |-> noMark, need |-> FALSE, read |-> noSnapshot]

noSub == [group |-> None, watch |-> "no", got |-> noSnapshot, ready |-> FALSE,
          snap |-> noSnapshot, pending |-> <<>>, err |-> "none",
          notify |-> FALSE, next |-> "looking", resnap |-> "no", base |-> noMark]

noView == [snap |-> noSnapshot, overlay |-> [k \in Messages \cup {None} |-> None]]

\* NewWatchBridge.
newView(snap) == [noView EXCEPT !.snap = snap]

\* safeReadError, or ErrResyncRequired for an answer that is not valid.
readError(snap) == IF snap.mark = failedMark THEN "read" ELSE "resync"

Watch(u, s) ==
    /\ sub[u].group = None
    /\ ~closed
    /\ Cardinality(registered) < MaxSubscriptions
    /\ \E g \in Groups :
         /\ IF groupOf(s) # {}
            THEN g \in groupOf(s) /\ UNCHANGED group
            ELSE /\ Cardinality(watchedSessions) < MaxWatchedSessions
                 /\ group[g].pc = "free"
                 /\ group' = [group EXCEPT
                      ![g] = [idleGroup EXCEPT !.session = s, !.pc = "select"]]
         /\ sub' = [sub EXCEPT
              ![u] = [noSub EXCEPT !.group = g, !.watch = "reading"]]
    /\ UNCHANGED <<storeVars, liveVars, closed, view>>

WatchRead(u) ==
    /\ sub[u].watch = "reading"
    /\ \E x \in readSnapshot(group[sub[u].group].session) :
         sub' = [sub EXCEPT ![u] = [sub[u] EXCEPT !.watch = "read", !.got = x]]
    /\ UNCHANGED <<storeVars, group, liveVars, closed, view>>

WatchFinish(u) ==
    LET m == [sub[u] EXCEPT !.watch = "done", !.got = noSnapshot]
        snap == sub[u].got
    IN  /\ sub[u].watch = "read"
        /\ IF m.err # "none" \/ ~validSnapshot(snap)
           THEN /\ sub' = [sub EXCEPT ![u] = terminated(m, readError(snap))]
                /\ UNCHANGED view
           ELSE LET seeded == seedLocked([m EXCEPT !.ready = TRUE, !.snap = snap],
                                          live, version)
                IN  /\ sub' = [sub EXCEPT ![u] = seeded]
                    /\ view' = IF seeded.err # "none" THEN view
                               ELSE [view EXCEPT ![u] = newView(snap)]
        /\ UNCHANGED <<storeVars, group, liveVars, closed>>

\* Subscription.Close, called by the observer or when its context ends.
SubClose(u) ==
    /\ u \in registered
    /\ sub' = [sub EXCEPT ![u] = terminated(sub[u], "closed")]
    /\ UNCHANGED <<storeVars, group, liveVars, closed, view>>

-----------------------------------------------------------------------------
(* poll: one round of the goroutine of group g.                            *)

returns(g) == group' = [group EXCEPT
    ![g] = [idleGroup EXCEPT !.session = group[g].session, !.pc = "gone"]]

PollTake(g) ==
    LET ahead == {sub[u].snap.mark : u \in {x \in members(g) : sub[x].ready}}
        known == {group[g].mark} \cup ahead
    IN  /\ group[g].pc = "select"
        /\ \E base \in known :
             /\ \A x \in known : x.store = None \/ x.rev <= base.rev
             /\ base.store = None => ahead = {}
             /\ (group[g].mark.store # None /\ group[g].mark.rev = base.rev)
                  => base = group[g].mark
             /\ group' = [group EXCEPT ![g] =
                  [group[g] EXCEPT !.pc = "revision", !.base = base]]
        /\ UNCHANGED <<storeVars, sub, liveVars, closed, view>>

PollCancelled(g) ==
    /\ group[g].pc = "select"
    /\ cancelled(g)
    /\ returns(g)
    /\ UNCHANGED <<storeVars, sub, liveVars, closed, view>>

PollRevision(g) ==
    /\ group[g].pc = "revision"
    /\ \E x \in readMark(group[g].session) :
         group' = [group EXCEPT ![g] = [group[g] EXCEPT !.pc = "need", !.rev = x]]
    /\ UNCHANGED <<storeVars, sub, liveVars, closed, view>>

\* Mutant: only the watermark of the group decides whether a read is needed.
PollNeedOfGroup(g) ==
    LET need == /\ group[g].rev # failedMark
                /\ \/ group[g].mark.store = None
                   \/ group[g].mark # group[g].rev
    IN  /\ group[g].pc = "need"
        /\ group' = [group EXCEPT ![g] =
             [group[g] EXCEPT !.pc = IF need THEN "snapshot" ELSE "apply",
                              !.need = need]]
        /\ UNCHANGED <<storeVars, sub, liveVars, closed, view>>

PollNeed(g) ==
    LET need == /\ group[g].rev # failedMark
                /\ \/ group[g].mark.store = None \/ group[g].mark # group[g].rev
                   \/ \E u \in members(g) : /\ sub[u].ready
                                            /\ sub[u].snap.mark # group[g].rev
    IN  /\ group[g].pc = "need"
        /\ group' = [group EXCEPT ![g] =
             [group[g] EXCEPT !.pc = IF need THEN "snapshot" ELSE "apply",
                              !.need = need]]
        /\ UNCHANGED <<storeVars, sub, liveVars, closed, view>>

PollSnapshot(g) ==
    /\ group[g].pc = "snapshot"
    /\ \E x \in readSnapshot(group[g].session) :
         group' = [group EXCEPT ![g] = [group[g] EXCEPT !.pc = "apply", !.read = x]]
    /\ UNCHANGED <<storeVars, sub, liveVars, closed, view>>

\* What the answers of the two reads make of the round.
pollVerdict(p) ==
    IF p.rev = failedMark \/ (p.need /\ p.read.mark = failedMark) THEN "read"
    ELSE IF \/ p.rev.store = None
            \/ p.base.store # None
                 /\ (p.rev.store # p.base.store \/ p.rev.rev < p.base.rev)
    THEN "resync"
    ELSE IF p.need /\ ( \/ ~validSnapshot(p.read)
                        \/ p.read.mark.store # p.rev.store
                        \/ p.read.mark.rev < p.rev.rev )
    THEN "resync"
    ELSE "ok"

\* A subscription receives the snapshot of a round: every queued overlay was
\* about the one it replaces.
replaced(m, snap) ==
    IF ~m.ready THEN m
    ELSE IF snap.mark.store # m.snap.mark.store THEN terminated(m, "resync")
    ELSE IF snap.mark.rev <= m.snap.mark.rev THEN m
    ELSE seedLocked(enqueued([m EXCEPT !.snap = snap, !.pending = <<>>],
                             Durable(snap)), live, version)

PollApply(g) ==
    LET p == group[g]
        done == [p EXCEPT !.base = noMark, !.rev = noMark, !.need = FALSE,
                          !.read = noSnapshot]
        next(mark) == group' = [group EXCEPT
                        ![g] = [done EXCEPT !.mark = mark, !.pc = "select"]]
    IN  /\ p.pc = "apply"
        /\ IF cancelled(g) THEN returns(g) /\ UNCHANGED sub
           ELSE IF pollVerdict(p) # "ok"
           THEN /\ sub' = [u \in Subs |-> IF u \in members(g)
                             THEN terminated(sub[u], pollVerdict(p)) ELSE sub[u]]
                /\ returns(g)
           ELSE IF p.need
           THEN /\ sub' = [u \in Subs |-> IF u \in members(g)
                             THEN replaced(sub[u], p.read) ELSE sub[u]]
                /\ next(p.read.mark)
           ELSE next(p.mark) /\ UNCHANGED sub
        /\ UNCHANGED <<storeVars, liveVars, closed, view>>

-----------------------------------------------------------------------------
(* The bridge.                                                             *)

watchOverlayEligible(snap, o) ==
    IF o.msg # None THEN Eligible(snap, o.msg)
    ELSE /\ snap.run[o.run] = "active"
         /\ \A m \in Messages : runOf[m] = o.run => snap.msg[m] # "open"

\* A durable update the bridge would answer with ErrResyncRequired.
refuses(v, u) ==
    /\ u.kind = "durable"
    /\ \/ u.snap.mark.store # v.snap.mark.store
       \/ u.snap.mark.rev <= v.snap.mark.rev

\* Updates arrive in delivery order, so the bridge's sequence needs no variable.
Apply(v, u) ==
    IF refuses(v, u) THEN v
    ELSE IF u.kind = "durable"
    THEN [snap |-> u.snap,
          overlay |-> [k \in DOMAIN v.overlay |->
             IF v.overlay[k] # None /\ watchOverlayEligible(u.snap, v.overlay[k])
             THEN v.overlay[k] ELSE None]]
    ELSE IF watchOverlayEligible(v.snap, u)
              /\ (v.overlay[u.msg] = None \/ u.ver > v.overlay[u.msg].ver)
    THEN [v EXCEPT !.overlay[u.msg] = u]
    ELSE v

-----------------------------------------------------------------------------
(* Next: the observer looks, waits for the notify channel, looks again.    *)
(* Between two calls it is about to look.  The operation gate is held      *)
(* across the read of a Resnapshot and, inside one step, by each look.     *)

gateFree(u) == sub[u].resnap = "no"

NextLook(u) ==
    LET m == sub[u]
    IN  /\ m.watch = "done" /\ m.ready
        /\ m.next = "looking"
        /\ \/ gateFree(u)
           \/ m.err # "none"
        /\ IF m.err # "none"
           THEN /\ sub' = [sub EXCEPT ![u] = [m EXCEPT !.next = "ended"]]
                /\ UNCHANGED view
           ELSE IF m.pending # <<>>
           THEN /\ sub' = [sub EXCEPT ![u] =
                     [m EXCEPT !.pending = Tail(m.pending)]]
                /\ view' = [view EXCEPT ![u] = Apply(view[u], Head(m.pending))]
           ELSE /\ sub' = [sub EXCEPT ![u] = [m EXCEPT !.next = "waiting"]]
                /\ UNCHANGED view
        /\ UNCHANGED <<storeVars, group, liveVars, closed>>

NextWakes(u) ==
    /\ sub[u].next = "waiting"
    /\ sub[u].notify
    /\ sub' = [sub EXCEPT
         ![u] = [sub[u] EXCEPT !.next = "looking", !.notify = FALSE]]
    /\ UNCHANGED <<storeVars, group, liveVars, closed, view>>

\* The context of the call ends; the token, if there is one, stays for the
\* next call.
NextGivesUp(u) ==
    /\ sub[u].next = "waiting"
    /\ sub' = [sub EXCEPT ![u] = [sub[u] EXCEPT !.next = "looking"]]
    /\ UNCHANGED <<storeVars, group, liveVars, closed, view>>

-----------------------------------------------------------------------------
(* Resnapshot: the observer starts over from a fresh snapshot.             *)

ResnapshotBegin(u) ==
    /\ u \in Resnapshotters
    /\ sub[u].watch = "done" /\ sub[u].ready
    /\ gateFree(u)
    /\ sub[u].err = "none"
    /\ sub' = [sub EXCEPT ![u] =
         [sub[u] EXCEPT !.resnap = "reading", !.base = sub[u].snap.mark]]
    /\ UNCHANGED <<storeVars, group, liveVars, closed, view>>

ResnapshotRead(u) ==
    /\ sub[u].resnap = "reading"
    /\ \E x \in readSnapshot(group[sub[u].group].session) :
         sub' = [sub EXCEPT ![u] = [sub[u] EXCEPT !.resnap = "read", !.got = x]]
    /\ UNCHANGED <<storeVars, group, liveVars, closed, view>>

\* Mutant: a resnapshot is not compared with the snapshot it replaces.
ResnapshotAnything(u) ==
    LET m == [sub[u] EXCEPT !.resnap = "no", !.got = noSnapshot, !.base = noMark]
        got == sub[u].got
    IN  /\ sub[u].resnap = "read"
        /\ IF m.err # "none" \/ ~validSnapshot(got)
           THEN /\ sub' = [sub EXCEPT ![u] = terminated(m, readError(got))]
                /\ UNCHANGED view
           ELSE LET seeded == seedLocked([m EXCEPT !.pending = <<>>, !.snap = got],
                                          live, version)
                IN  /\ sub' = [sub EXCEPT ![u] = seeded]
                    /\ view' = IF seeded.err # "none" THEN view
                               ELSE [view EXCEPT ![u] = newView(got)]
        /\ UNCHANGED <<storeVars, group, liveVars, closed>>

ResnapshotFinish(u) ==
    LET m == [sub[u] EXCEPT !.resnap = "no", !.got = noSnapshot, !.base = noMark]
        got == sub[u].got
        snap == IF m.snap.mark.rev > got.mark.rev THEN m.snap ELSE got
    IN  /\ sub[u].resnap = "read"
        /\ IF \/ m.err # "none"
              \/ ~validSnapshot(got)
              \/ got.mark.store # sub[u].base.store
              \/ got.mark.rev < sub[u].base.rev
           THEN /\ sub' = [sub EXCEPT ![u] = terminated(m, readError(got))]
                /\ UNCHANGED view
           ELSE LET seeded == seedLocked([m EXCEPT !.pending = <<>>, !.snap = snap],
                                          live, version)
                IN  /\ sub' = [sub EXCEPT ![u] = seeded]
                    /\ view' = IF seeded.err # "none" THEN view
                               ELSE [view EXCEPT ![u] = newView(snap)]
        /\ UNCHANGED <<storeVars, group, liveVars, closed>>

-----------------------------------------------------------------------------
(* Live text, tapped by the runtime.                                       *)

retained(r) == IF live[r] = None THEN 0 ELSE live[r].len

\* Mutant: the text of the attempt that is replaced stays in the account.
BeginAttemptKeepsBytes(a, m) ==
    LET r == runOf[m]
        room == Cardinality({x \in Runs \ {r} : live[x] # None}) < MaxLiveRuns
    IN  /\ ~closed
        /\ begun[a] = None
        /\ version < MaxVersion
        /\ begun' = [begun EXCEPT ![a] = m]
        /\ version' = version + 1
        /\ live' = [live EXCEPT ![r] =
             IF room THEN [msg |-> m, attempt |-> a, len |-> 0,
                           available |-> TRUE, ver |-> version + 1]
             ELSE None]
        /\ seedSessionLocked(sessionOf[r], live', version')
        /\ UNCHANGED <<storeVars, group, liveBytes, closed, view>>

BeginAttempt(a, m) ==
    LET r == runOf[m]
        room == Cardinality({x \in Runs \ {r} : live[x] # None}) < MaxLiveRuns
    IN  /\ ~closed
        /\ begun[a] = None
        /\ version < MaxVersion
        /\ begun' = [begun EXCEPT ![a] = m]
        /\ version' = version + 1
        /\ liveBytes' = liveBytes - retained(r)
        /\ live' = [live EXCEPT ![r] =
             IF room THEN [msg |-> m, attempt |-> a, len |-> 0,
                           available |-> TRUE, ver |-> version + 1]
             ELSE None]
        /\ seedSessionLocked(sessionOf[r], live', version')
        /\ UNCHANGED <<storeVars, group, closed, view>>

\* An append or a finish of an attempt that is no longer the retained one
\* changes nothing.
current(a) == \E r \in Runs : live[r] # None /\ live[r].attempt = a

\* n bytes of text, or n = None for text that is not UTF-8.
AppendText(a, n) ==
    LET r == runOf[begun[a]]
        old == live[r]
        fits == n # None /\ n <= MaxLiveTextBytes - liveBytes
    IN  /\ current(a)
        /\ old.available
        /\ version < MaxVersion
        /\ version' = version + 1
        /\ liveBytes' = IF fits THEN liveBytes + n ELSE liveBytes - retained(r)
        /\ live' = [live EXCEPT ![r] = [old EXCEPT !.ver = version + 1,
                      !.len = IF fits THEN old.len + n ELSE 0, !.available = fits]]
        /\ seedSessionLocked(sessionOf[r], live', version')
        /\ UNCHANGED <<storeVars, group, begun, closed, view>>

\* Mutant: the end of an attempt has no version of its own.
droppedSameVersion(r) ==
    /\ liveBytes' = liveBytes - retained(r)
    /\ live' = [live EXCEPT ![r] = None]
    /\ seedSessionLocked(sessionOf[r], live', version)
    /\ UNCHANGED <<storeVars, group, version, begun, closed, view>>

\* The text of run r is dropped; the overlays of its session say so.
dropped(r) ==
    /\ version < MaxVersion
    /\ version' = version + 1
    /\ liveBytes' = liveBytes - retained(r)
    /\ live' = [live EXCEPT ![r] = None]
    /\ seedSessionLocked(sessionOf[r], live', version')
    /\ UNCHANGED <<storeVars, group, begun, closed, view>>

FinishAttempt(a) == current(a) /\ dropped(runOf[begun[a]])

\* After Close nothing is retained and ReleaseRun changes nothing.
ReleaseRun(r) == ~closed /\ dropped(r)

-----------------------------------------------------------------------------

Close ==
    /\ ~closed
    /\ closed' = TRUE
    /\ sub' = [u \in Subs |-> IF u \in registered
                 THEN terminated(sub[u], "closed") ELSE sub[u]]
    /\ live' = [r \in Runs |-> None]
    /\ liveBytes' = 0
    /\ UNCHANGED <<storeVars, group, version, begun, view>>

Init ==
    /\ storeID \in StoreIDs
    /\ rows \in InitialRows
    /\ group = [g \in Groups |-> idleGroup]
    /\ sub = [u \in Subs |-> noSub]
    /\ live = [r \in Runs |-> None] /\ liveBytes = 0 /\ version = 0
    /\ closed = FALSE
    /\ begun = [a \in Attempts |-> None]
    /\ view = [u \in Subs |-> noView]

PollStep(g) == \/ PollTake(g) \/ PollCancelled(g) \/ PollRevision(g)
               \/ PollNeed(g) \/ PollSnapshot(g) \/ PollApply(g)

CallStep(u) == \/ WatchRead(u) \/ WatchFinish(u)
               \/ ResnapshotRead(u) \/ ResnapshotFinish(u)

NextStep(u) == NextLook(u) \/ NextWakes(u)

LiveStep == \/ \E a \in Attempts, m \in Messages : BeginAttempt(a, m)
            \/ \E a \in Attempts, n \in 1..MaxLiveTextBytes \cup {None} :
                 AppendText(a, n)
            \/ \E a \in Attempts : FinishAttempt(a)
            \/ \E r \in Runs : ReleaseRun(r)

StoreStep == \/ \E s \in Sessions : Commit(s)
             \/ \E id \in Replacements : StoreReplaced(id)

Next == \/ StoreStep
        \/ \E u \in Subs, s \in Sessions : Watch(u, s)
        \/ \E u \in Subs : SubClose(u) \/ ResnapshotBegin(u) \/ NextGivesUp(u)
        \/ \E u \in Subs : CallStep(u) \/ NextStep(u)
        \/ \E g \in Groups : PollStep(g)
        \/ LiveStep
        \/ Close

Spec == Init /\ [][Next]_vars

\* Goroutines run, reads return (each has a timeout), tickers tick, and the
\* observer keeps calling Next as SessionWatchHandler does.
FairSpec == /\ Spec
            /\ \A g \in Groups : WF_vars(PollStep(g))
            /\ \A u \in Subs : WF_vars(CallStep(u)) /\ WF_vars(NextStep(u))

-----------------------------------------------------------------------------
(* Properties.                                                             *)

\* The values the service, its pollers, its subscriptions and the bridges hold.
WatchTypeOK ==
    /\ storeID \in StoreIDs
    /\ rows \in [Sessions -> Row]
    /\ \A g \in Groups :
         /\ group[g].session \in Sessions \cup {None}
         /\ group[g].pc \in {"free", "select", "revision", "need", "snapshot",
                             "apply", "gone"}
         /\ {group[g].mark, group[g].base, group[g].rev} \subseteq Watermark
         /\ Failed \notin {group[g].mark.store, group[g].base.store}
         /\ group[g].need \in BOOLEAN /\ group[g].read \in Snapshot
    /\ \A u \in Subs :
         /\ sub[u].group \in Groups \cup {None}
         /\ sub[u].watch \in {"no", "reading", "read", "done"}
         /\ {sub[u].got, sub[u].snap} \subseteq Snapshot
         /\ sub[u].snap.mark.store # Failed
         /\ sub[u].ready \in BOOLEAN /\ sub[u].notify \in BOOLEAN
         /\ \A i \in DOMAIN sub[u].pending :
              \/ sub[u].pending[i] \in [kind : {"durable"}, snap : Snapshot]
              \/ sub[u].pending[i] \in Overlay
         /\ sub[u].err \in {"none", "read", "resync", "closed"}
         /\ sub[u].next \in {"looking", "waiting", "ended"}
         /\ sub[u].resnap \in {"no", "reading", "read"}
         /\ sub[u].base \in Watermark
         /\ view[u].snap \in Snapshot
         /\ \A k \in Messages \cup {None} :
              view[u].overlay[k] \in Overlay \cup {None}
    /\ \A r \in Runs : live[r] \in Live \cup {None}
    /\ liveBytes \in Nat /\ version \in 0..MaxVersion /\ closed \in BOOLEAN
    /\ \A a \in Attempts : begun[a] \in Messages \cup {None}

\* Subscriptions handed to an observer and not terminated.
watching == {u \in registered : sub[u].watch = "done"}

\* The bridge never answers a queued update with ErrResyncRequired, and no
\* queued overlay is about a message or a run that the snapshot it follows has
\* finished ("prevents delayed live work from resurrecting ... views").
queueFitsView ==
    \A u \in watching :
      /\ \A i \in DOMAIN sub[u].pending :
           IF sub[u].pending[i].kind = "durable"
           THEN i = 1 /\ ~refuses(view[u], sub[u].pending[i])
           ELSE watchOverlayEligible(sub[u].snap, sub[u].pending[i])
      /\ Len(sub[u].pending) <= PendingUpdates

\* No update is lost or applied to the wrong snapshot: an observer that reads
\* all that is queued has the snapshot of its subscription, and for exactly
\* the messages still open in it the text retained now, whatever polls,
\* resnapshots and late taps came in between (seedLocked, Apply).  What is queued
\* for it is always accepted.
ViewConverges ==
    /\ queueFitsView
    /\ \A u \in watching :
         LET final == FoldLeft(Apply, view[u], sub[u].pending)
         IN  /\ final.snap = sub[u].snap
             /\ \A m \in Messages :
                  IF ~Eligible(final.snap, m) THEN final.overlay[m] = None
                  ELSE LET has == final.overlay[m]
                           kept == live[runOf[m]]
                       IN  IF kept # None /\ kept.msg = m /\ kept.available
                           THEN /\ has # None /\ has.kind = "live"
                                /\ has.attempt = kept.attempt /\ has.len = kept.len
                           ELSE has # None /\ has.kind = "unavailable"

\* An observer that waits while there is something to read, or after its
\* subscription ended, has a token to wake it (signal, sub.notify).
noLostWakeup ==
    \A u \in Subs :
      (sub[u].next = "waiting" /\ (sub[u].pending # <<>> \/ sub[u].err # "none"))
        => sub[u].notify

\* Every registered subscription has a poller that still runs, and a session
\* has one poller that is not cancelled, also while old pollers wind down; and an
\* observer with something to read is woken (Watch, poll, signal).
SubscriberServed ==
    /\ noLostWakeup
    /\ \A u \in registered : group[sub[u].group].pc \notin {"free", "gone"}
    /\ \A s \in Sessions : Cardinality(groupOf(s)) <= 1

\* The byte account of the service is the text it retains, within its limits.
LiveAccounted ==
    /\ liveBytes = MapThenSumSet(retained, Runs)
    /\ liveBytes <= MaxLiveTextBytes
    /\ Cardinality({r \in Runs : live[r] # None}) <= MaxLiveRuns

\* What an observer has seen never goes back: its view stays with one
\* incarnation of the store and its revision never falls; and the updates
\* queued for it are ones its bridge accepts (Apply, ErrResyncRequired).
ViewNeverGoesBack ==
    [][/\ queueFitsView'
       /\ \A u \in Subs : view[u].snap.mark # noMark =>
            /\ view'[u].snap.mark.store = view[u].snap.mark.store
            /\ view'[u].snap.mark.rev >= view[u].snap.mark.rev]_vars

\* Once a session stops changing, every observer that is still subscribed sees
\* its last revision and keeps seeing it ("periodic reads establish durable
\* truth", poll).
catchesUp ==
    \A s \in Sessions, id \in StoreIDs, n \in 0..MaxRevision :
      <>[](storeID = id /\ rows[s].rev = n)
        => <>[](\A u \in watching : group[sub[u].group].session = s =>
                  view[u].snap.mark = [store |-> id, rev |-> n])

\* An observer whose subscription ended is told so by Next.
endIsReported ==
    \A u \in Subs :
      (sub[u].ready /\ sub[u].watch = "done" /\ sub[u].err # "none")
        ~> (sub[u].next = "ended")

\* Close returns: after it every poller, Watch and Resnapshot call ends.
closeDrains == closed ~> (workers = {})

\* No observer is left with a stale view and no word of it: it catches up, or
\* Next tells it that its subscription ended; and Close leaves nobody at work
\* (poll, terminateLocked, Close).
ObserversLearn == catchesUp /\ endIsReported /\ closeDrains
=============================================================================
