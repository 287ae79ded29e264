------------------------- MODULE WatchServiceProofs -------------------------
(***************************************************************************)
(* Proofs about the watch service, for any number of sessions, runs,       *)
(* messages, pollers, subscriptions and attempts: the inductive invariant  *)
(* relates the memory of every poller and every call to the subscriptions, *)
(* and the queue of every subscription to the view of its observer.        *)
(***************************************************************************)
EXTENDS WatchSubscriptionProofs

-----------------------------------------------------------------------------
(* Watch.                                                                  *)

\* The group that serves session s has a member, and every registered
\* subscription of s is one.
LEMMA GroupOfSession ==
  ASSUME WatchInv, NEW s, NEW g \in groupOf(s)
  PROVE  /\ g \in Groups /\ group[g].session = s /\ group[g].pc \notin {"free", "gone"}
         /\ \A w \in registered : subSession(w) = s => sub[w].group = g
<1>1. g \in Groups /\ group[g].session = s /\ ~cancelled(g)
  BY Zenon DEF groupOf, started
<1>2. PICK y : y \in registered /\ sub[y].group = g
  BY <1>1, ZenonT(60) DEF cancelled, members
<1>3. group[g].pc \notin {"free", "gone"}
  BY <1>2, ZenonT(60) DEF WatchInv, Served
<1>4. subSession(y) = s
  BY <1>1, <1>2, ZenonT(60) DEF subSession
<1>5. \A w \in registered : subSession(w) = s => sub[w].group = g
  BY <1>2, <1>4, ZenonT(60) DEF WatchInv, Served
<1>6. QED
  BY <1>1, <1>3, <1>5, ZenonT(60)

\* A registered subscription is a member of the group of its session.
LEMMA InGroupOf ==
  ASSUME WatchInv, NEW w \in registered
  PROVE  sub[w].group \in groupOf(subSession(w)) /\ w \in members(sub[w].group)
<1>1. w \in Subs /\ sub[w].group # None
  BY Zenon DEF registered
<1>2. sub[w].group \in Groups
  BY <1>1, SubHas, ZenonT(60)
<1>3. group[sub[w].group].pc # "free"
  BY <1>1, ZenonT(60) DEF WatchInv, SubsFine
<1>4. w \in members(sub[w].group)
  BY ZenonT(60) DEF members
<1>5. QED
  BY <1>2, <1>3, <1>4, ZenonT(60) DEF groupOf, started, cancelled, subSession

\* A subscription that was just opened is fine.
LEMMA WatchedFine ==
  ASSUME NEW g \in Groups, NEW s, NEW lv, NEW ver
  PROVE  LET k == [noSub EXCEPT !.group = g, !.watch = "reading"]
         IN  /\ k \in SubState /\ k.group = g /\ k.err = "none"
             /\ SubFine(k, noView, s, lv, ver)
<1> DEFINE k == [noSub EXCEPT !.group = g, !.watch = "reading"]
<1>1. k \in SubState
  BY ZenonT(60), Blank DEF SubState
<1>2. /\ k.group = g /\ k.watch = "reading" /\ k.got = noSnapshot /\ k.ready = FALSE
      /\ k.snap = noSnapshot /\ k.pending = <<>> /\ k.err = "none"
      /\ k.next = "looking" /\ k.resnap = "no"
  BY DEF noSub
<1>3. g # None /\ "reading" # "no" /\ "reading" # "done" /\ "looking" # "waiting"
  BY WatchIdentities
<1>4. noView.snap = noSnapshot /\ ofSession(noSnapshot, s)
  BY Blank DEF noView
<1> HIDE DEF k
<1>5. SubFine(k, noView, s, lv, ver)
  BY <1>2, <1>3, <1>4, ZenonT(60) DEF SubFine
<1>6. QED
  BY <1>1, <1>2, <1>5, ZenonT(60) DEF k

\* Watch joins the poller of the session or starts the only one.
LEMMA WatchGroup ==
  ASSUME WatchInv, NEW s \in Sessions, NEW g \in Groups,
         IF groupOf(s) # {}
         THEN g \in groupOf(s) /\ UNCHANGED group
         ELSE /\ group[g].pc = "free"
              /\ group' = [group EXCEPT
                   ![g] = [idleGroup EXCEPT !.session = s, !.pc = "select"]]
  PROVE  /\ group' \in [Groups -> PollerState] /\ PollersSound' /\ GroupsKeep
         /\ \A h \in Groups : group[h].pc # "free" => group'[h] = group[h]
         /\ group'[g].session = s /\ group'[g].pc \notin {"free", "gone"}
         /\ \A w \in registered : subSession(w) = s => sub[w].group = g
<1>0. group \in [Groups -> PollerState] /\ PollersSound
  BY Zenon DEF WatchInv, Types
<1>1. CASE groupOf(s) # {}
  <2>1. g \in groupOf(s) /\ group' = group
    BY <1>1, ZenonT(60)
  <2>2. PollersSound' /\ GroupsKeep
    BY <1>0, <2>1, ZenonT(60) DEF PollersSound, GroupsKeep
  <2>3. QED
    BY <1>0, <2>1, <2>2, GroupOfSession, ZenonT(60)
<1>2. CASE groupOf(s) = {}
  <2> DEFINE p == [idleGroup EXCEPT !.session = s, !.pc = "select"]
  <2>1. group[g].pc = "free" /\ group' = [group EXCEPT ![g] = p]
    BY <1>2, ZenonT(60)
  <2>2. p \in PollerState
    BY ZenonT(60), Blank DEF PollerState
  <2>3. /\ p.session = s /\ p.pc = "select" /\ p.mark = noMark /\ p.base = noMark
        /\ p.read = noSnapshot
    BY DEF idleGroup
  <2> HIDE DEF p
  <2>4. /\ group' \in [Groups -> PollerState] /\ group'[g] = p
        /\ \A h \in Groups : h # g => group'[h] = group[h]
    BY <1>0, <2>1, <2>2
  <2>5. \A h \in Groups : group[h].pc # "free" => group'[h] = group[h]
    BY <2>1, <2>4, ZenonT(60)
  <2>6. noMark.store # Failed /\ ofSession(noSnapshot, s)
    BY Blank, WatchIdentities DEF noMark
  <2>7. PollersSound'
    <3>1. ASSUME NEW h \in Groups
          PROVE  /\ group'[h].pc # "free" => group'[h].session \in Sessions
                 /\ Failed \notin {group'[h].mark.store, group'[h].base.store}
                 /\ ofSession(group'[h].read, group'[h].session)
      <4>1. CASE h = g
        BY <2>3, <2>4, <2>6, <4>1, ZenonT(60)
      <4>2. CASE h # g
        BY <1>0, <2>4, <4>2, ZenonT(60) DEF PollersSound
      <4>3. QED
        BY <4>1, <4>2, ZenonT(60)
    <3>2. QED
      BY <3>1, ZenonT(60) DEF PollersSound
  <2>8. GroupsKeep
    BY <2>5, ZenonT(60) DEF GroupsKeep
  <2>9. \A w \in registered : subSession(w) # s
    BY <1>2, InGroupOf, ZenonT(60)
  <2>10. group'[g].session = s /\ group'[g].pc \notin {"free", "gone"}
    BY <2>3, <2>4
  <2>11. QED
    BY <2>4, <2>5, <2>7, <2>8, <2>9, <2>10, ZenonT(60)
<1>3. QED
  BY <1>1, <1>2, ZenonT(60)

\* Watch keeps the invariant: a session whose last subscription left gets a new
\* poller, also while the old one winds down.
LEMMA WatchActionInv ==
  ASSUME WatchInv, NEW u \in Subs, NEW s \in Sessions, Watch(u, s)
  PROVE  WatchInv'
<1>1. PICK g \in Groups :
        /\ IF groupOf(s) # {}
           THEN g \in groupOf(s) /\ UNCHANGED group
           ELSE /\ group[g].pc = "free"
                /\ group' = [group EXCEPT
                     ![g] = [idleGroup EXCEPT !.session = s, !.pc = "select"]]
        /\ sub' = [sub EXCEPT ![u] = [noSub EXCEPT !.group = g, !.watch = "reading"]]
  BY ZenonT(60) DEF Watch
<1>2. /\ sub[u].group = None /\ storeID' = storeID /\ rows' = rows /\ live' = live
      /\ liveBytes' = liveBytes /\ version' = version /\ begun' = begun
      /\ closed' = closed /\ view' = view /\ UNCHANGED liveVars
  BY Zenon DEF Watch, storeVars, liveVars
<1> DEFINE k == [noSub EXCEPT !.group = g, !.watch = "reading"]
<1>3. /\ k \in SubState /\ k.group = g /\ k.err = "none"
      /\ SubFine(k, noView, s, live, version)
  BY WatchedFine, ZenonT(60)
<1>4. sub' = [sub EXCEPT ![u] = k]
  BY <1>1, ZenonT(60)
<1> HIDE DEF k
<1>5. /\ group' \in [Groups -> PollerState] /\ PollersSound'
      /\ \A h \in Groups : group[h].pc # "free" => group'[h] = group[h]
      /\ group'[g].session = s /\ group'[g].pc \notin {"free", "gone"}
      /\ \A w \in registered : subSession(w) = s => sub[w].group = g
  BY <1>1, WatchGroup, ZenonT(60)
<1>6. sub \in [Subs -> SubState]
  BY ZenonT(60) DEF WatchInv, Types
<1>7. /\ sub' \in [Subs -> SubState] /\ sub'[u] = k
      /\ \A x \in Subs : x # u => sub'[x] = sub[x]
  BY <1>3, <1>4, <1>6
<1>8. Types'
  BY <1>2, <1>5, <1>7, Zenon DEF WatchInv, Types
<1>9. LiveSound' /\ LiveAccounted'
  BY <1>2, LiveKept, Zenon DEF WatchInv
<1>10. view[u] = noView
  <2>1. SubFine(sub[u], view[u], subSession(u), live, version)
    BY SubHas, ZenonT(60)
  <2>2. sub[u].watch # "done"
    <3>1. sub[u] = noSub
      BY <1>2, <2>1, ZenonT(60) DEF SubFine
    <3>2. noSub.watch # "done"
      BY Zenon DEF noSub
    <3>3. QED
      BY <3>1, <3>2, Zenon
  <2>3. QED
    BY <2>1, <2>2, Zenon DEF SubFine
<1>11. ASSUME NEW x \in Subs, x # u, sub[x].group # None
       PROVE  /\ group'[sub[x].group] = group[sub[x].group] /\ subSession(x)' = subSession(x)
              /\ group[sub[x].group].pc # "free"
  <2>1. sub[x].group \in Groups
    BY <1>11, SubHas, ZenonT(60)
  <2>2. group[sub[x].group].pc # "free"
    BY <1>11, ZenonT(60) DEF WatchInv, SubsFine
  <2>3. QED
    BY <1>5, <1>7, <1>11, <2>1, <2>2, ZenonT(60) DEF subSession
<1>12. subSession(u)' = s
  BY <1>3, <1>5, <1>7, ZenonT(60) DEF subSession
<1>13. SubsFine'
  <2>1. SUFFICES ASSUME NEW x \in Subs
                 PROVE  /\ sub'[x].group # None => group'[sub'[x].group].pc # "free"
                        /\ SubFine(sub'[x], view'[x], subSession(x)', live', version')
    BY ZenonT(60) DEF SubsFine
  <2>2. SubFine(sub[x], view[x], subSession(x), live, version)
    BY SubHas, ZenonT(60)
  <2>3. CASE x = u
    <3>1. group'[g].pc # "free"
      BY <1>5
    <3>2. QED
      BY <1>2, <1>3, <1>7, <1>10, <1>12, <2>3, <3>1, ZenonT(60)
  <2>4. CASE x # u /\ sub[x].group # None
    BY <1>2, <1>7, <1>11, <2>2, <2>4, ZenonT(60)
  <2>5. CASE x # u /\ sub[x].group = None
    <3>1. SubFine(sub[x], view[x], subSession(x)', live, version)
      BY <2>2, <2>5, UnwatchedFine, ZenonT(60)
    <3>2. QED
      BY <1>2, <1>7, <2>5, <3>1, ZenonT(60)
  <2>6. QED
    BY <2>3, <2>4, <2>5, ZenonT(60)
<1>14. ASSUME NEW x \in registered', x # u
       PROVE  /\ x \in registered /\ sub'[x].group = sub[x].group
              /\ subSession(x)' = subSession(x)
              /\ group'[sub'[x].group] = group[sub[x].group]
  <2>1. x \in Subs /\ sub[x].group # None /\ sub[x].err = "none" /\ sub'[x] = sub[x]
    BY <1>7, <1>14, ZenonT(60) DEF registered
  <2>2. QED
    BY <1>11, <1>14, <2>1, ZenonT(60) DEF registered
<1>15. Served'
  <2>1. ASSUME NEW x \in registered'
        PROVE  group'[sub'[x].group].pc \notin {"free", "gone"}
    <3>1. CASE x = u
      BY <1>3, <1>5, <1>7, <3>1, ZenonT(60)
    <3>2. CASE x # u
      <4>1. group[sub[x].group].pc \notin {"free", "gone"}
        BY <1>14, <3>2, ZenonT(60) DEF WatchInv, Served
      <4>2. QED
        BY <1>14, <3>2, <4>1, ZenonT(60)
    <3>3. QED
      BY <3>1, <3>2, ZenonT(60)
  <2>2. ASSUME NEW x \in registered', x # u, subSession(x)' = s
        PROVE  sub'[x].group = g
    <3>1. x \in registered /\ subSession(x) = s /\ sub'[x].group = sub[x].group
      BY <1>14, <2>2, ZenonT(60)
    <3>2. QED
      BY <1>5, <3>1, ZenonT(60)
  <2>3. ASSUME NEW x \in registered', NEW y \in registered', x # u, y # u,
               subSession(x)' = subSession(y)'
        PROVE  sub'[x].group = sub'[y].group
    <3>1. /\ x \in registered /\ sub'[x].group = sub[x].group /\ subSession(x)' = subSession(x)
          /\ y \in registered /\ sub'[y].group = sub[y].group /\ subSession(y)' = subSession(y)
      BY <1>14, <2>3, ZenonT(60)
    <3>2. subSession(x) = subSession(y)
      BY <2>3, <3>1, ZenonT(60)
    <3>3. QED
      BY <3>1, <3>2, ZenonT(60) DEF WatchInv, Served
  <2>4. sub'[u].group = g
    BY <1>3, <1>7, ZenonT(60)
  <2>5. ASSUME NEW x \in registered', NEW y \in registered', subSession(x)' = subSession(y)'
        PROVE  sub'[x].group = sub'[y].group
    BY <1>12, <2>2, <2>3, <2>4, <2>5, ZenonT(60)
  <2>6. QED
    BY <2>1, <2>5, ZenonT(60) DEF Served
<1>16. QED
  BY <1>5, <1>8, <1>9, <1>13, <1>15, ZenonT(60) DEF WatchInv

-----------------------------------------------------------------------------
(* The poller.                                                             *)

\* The poller of group g moved on to p.
PollMoved(g, p) ==
    /\ p \in PollerState /\ group[g].pc # "free" /\ p.pc # "free"
    /\ p.session = group[g].session
    /\ Failed \notin {p.mark.store, p.base.store} /\ ofSession(p.read, p.session)
    /\ group' = [group EXCEPT ![g] = p]
    /\ UNCHANGED <<storeVars, liveVars, closed, view>>

\* A poller that returns leaves no subscription of its group.
Left(g, p) == p.pc = "gone" => \A u \in Subs : sub[u].group = g => sub'[u].err # "none"

\* The step of a poller leaves every subscription fine.
SubsStay == \A u \in Subs : SubFine(sub'[u], view[u], subSession(u), live, version)

\* A step of a poller keeps the invariant.
LEMMA PollInv ==
  ASSUME WatchInv, NEW g \in Groups, NEW p, PollMoved(g, p), Left(g, p),
         sub' \in [Subs -> SubState], SubsKeep, SubsStay
  PROVE  WatchInv'
<1>1. /\ storeID' = storeID /\ rows' = rows /\ live' = live
      /\ liveBytes' = liveBytes /\ version' = version /\ begun' = begun
      /\ closed' = closed /\ view' = view
  BY Zenon DEF PollMoved, storeVars, liveVars
<1>2. group \in [Groups -> PollerState]
  BY Zenon DEF WatchInv, Types
<1>3. /\ group' \in [Groups -> PollerState] /\ group'[g] = p
      /\ \A h \in Groups : h # g => group'[h] = group[h]
  BY <1>2 DEF PollMoved
<1>4. Types'
  BY <1>1, <1>3, ZenonT(60) DEF WatchInv, Types
<1>5. PollersSound'
  <2>1. ASSUME NEW h \in Groups
        PROVE  /\ group'[h].pc # "free" => group'[h].session \in Sessions
               /\ Failed \notin {group'[h].mark.store, group'[h].base.store}
               /\ ofSession(group'[h].read, group'[h].session)
    <3>1. /\ group[h].pc # "free" => group[h].session \in Sessions
          /\ Failed \notin {group[h].mark.store, group[h].base.store}
          /\ ofSession(group[h].read, group[h].session)
      BY Zenon DEF WatchInv, PollersSound
    <3>2. CASE h = g
      BY <1>3, <3>1, <3>2, ZenonT(60) DEF PollMoved
    <3>3. CASE h # g
      BY <1>3, <3>1, <3>3, ZenonT(60)
    <3>4. QED
      BY <3>2, <3>3, ZenonT(60)
  <2>2. QED
    BY <2>1, ZenonT(60) DEF PollersSound
<1>6. LiveSound' /\ LiveAccounted'
  BY LiveKept, ZenonT(60) DEF WatchInv, PollMoved
<1>7. GroupsKeep
  <2>1. ASSUME NEW h \in Groups, group[h].pc # "free"
        PROVE  group'[h].pc # "free" /\ group'[h].session = group[h].session
    <3>1. CASE h = g
      BY <1>3, <3>1, ZenonT(60) DEF PollMoved
    <3>2. CASE h # g
      BY <1>3, <2>1, <3>2, ZenonT(60)
    <3>3. QED
      BY <3>1, <3>2, ZenonT(60)
  <2>2. QED
    BY <2>1, ZenonT(60) DEF GroupsKeep
<1>8. StillServed
  <2>1. SUFFICES ASSUME NEW x \in Subs, sub[x].group # None, sub'[x].err = "none"
                 PROVE  group'[sub[x].group].pc # "gone"
    BY Zenon DEF StillServed
  <2>2. x \in registered
    BY <2>1, ZenonT(60) DEF registered, SubsKeep
  <2>3. group[sub[x].group].pc \notin {"free", "gone"}
    BY <2>2, ZenonT(60) DEF WatchInv, Served
  <2>4. sub[x].group \in Groups
    BY <2>1, SubHas, ZenonT(60)
  <2>5. CASE sub[x].group = g
    BY <1>3, <2>1, <2>5, ZenonT(60) DEF Left
  <2>6. CASE sub[x].group # g
    <3>1. group'[sub[x].group] = group[sub[x].group]
      BY <1>3, <2>4, <2>6, ZenonT(60)
    <3>2. QED
      BY <2>3, <3>1
  <2>7. QED
    BY <2>5, <2>6, ZenonT(60)
<1>9. SubsFineNext
  BY <1>1, ZenonT(60) DEF SubsFineNext, SubsStay
<1>10. SubsFine' /\ Served'
  BY <1>7, <1>8, <1>9, SubsMove, ZenonT(60) DEF WatchInv
<1>11. QED
  BY <1>4, <1>5, <1>6, <1>10, ZenonT(60) DEF WatchInv

\* A step of the poller that leaves the subscriptions alone.
LEMMA PollAlone ==
  ASSUME WatchInv, NEW g \in Groups, NEW p, PollMoved(g, p), UNCHANGED sub,
         p.pc = "gone" => cancelled(g)
  PROVE  WatchInv'
<1>1. sub' \in [Subs -> SubState]
  BY ZenonT(60) DEF WatchInv, Types
<1>2. SubsKeep
  BY ZenonT(60) DEF SubsKeep
<1>3. SubsStay
  BY ZenonT(60) DEF WatchInv, SubsFine, SubsStay
<1>4. Left(g, p)
  <2>1. SUFFICES ASSUME p.pc = "gone", NEW u \in Subs, sub[u].group = g, sub'[u].err = "none"
                 PROVE  FALSE
    BY ZenonT(60) DEF Left
  <2>2. g # None
    BY WatchIdentities
  <2>3. u \in members(g)
    BY <2>1, <2>2, ZenonT(60) DEF members, registered
  <2>4. QED
    BY <2>1, <2>3, ZenonT(60) DEF cancelled
<1>5. QED
  BY <1>1, <1>2, <1>3, <1>4, PollInv, ZenonT(60)

\* What is known of one poller that was started.
LEMMA PollerHas ==
  ASSUME WatchInv, NEW g \in Groups
  PROVE  /\ group[g] \in PollerState
         /\ group[g].pc # "free" => group[g].session \in Sessions
         /\ Failed \notin {group[g].mark.store, group[g].base.store}
         /\ ofSession(group[g].read, group[g].session)
         /\ noMark.store # Failed /\ \A s : ofSession(noSnapshot, s)
<1>1. group[g] \in PollerState
  BY ZenonT(60) DEF WatchInv, Types
<1>2. noMark.store # Failed
  BY WatchIdentities DEF noMark
<1>3. QED
  BY <1>1, <1>2, Blank, ZenonT(60) DEF WatchInv, PollersSound

\* The poller returns.
LEMMA ReturnsMoves ==
  ASSUME WatchInv, NEW g \in Groups, group[g].pc # "free", returns(g),
         UNCHANGED <<storeVars, liveVars, closed, view>>
  PROVE  \E p : PollMoved(g, p) /\ p.pc = "gone"
<1> DEFINE p == [idleGroup EXCEPT !.session = group[g].session, !.pc = "gone"]
<1>1. group[g].session \in Sessions
  BY PollerHas, ZenonT(60)
<1>2. p \in PollerState
  BY ZenonT(60), <1>1, Blank DEF PollerState
<1>3. /\ p.session = group[g].session /\ p.pc = "gone" /\ p.mark = noMark
      /\ p.base = noMark /\ p.read = noSnapshot /\ p.pc # "free"
  BY DEF idleGroup
<1>4. group' = [group EXCEPT ![g] = p]
  BY Zenon DEF returns
<1> HIDE DEF p
<1>5. PollMoved(g, p)
  BY <1>2, <1>3, <1>4, PollerHas, ZenonT(60) DEF PollMoved
<1>6. QED
  BY <1>3, <1>5, ZenonT(60)

\* PollTake keeps the invariant.
LEMMA PollTakeInv ==
  ASSUME WatchInv, NEW g \in Groups, PollTake(g)
  PROVE  WatchInv'
<1> DEFINE ahead == {sub[u].snap.mark : u \in {x \in members(g) : sub[x].ready}}
<1>1. PICK base \in {group[g].mark} \cup ahead :
        group' = [group EXCEPT ![g] = [group[g] EXCEPT !.pc = "revision", !.base = base]]
  BY ZenonT(60) DEF PollTake
<1>2. group[g].pc = "select" /\ UNCHANGED <<storeVars, sub, liveVars, closed, view>>
  BY ZenonT(60) DEF PollTake
<1>3. ASSUME base # group[g].mark
      PROVE  base \in Watermark /\ base.store # Failed
  <2>1. PICK u \in members(g) : sub[u].ready /\ base = sub[u].snap.mark
    BY <1>1, <1>3, ZenonT(60)
  <2>2. u \in Subs /\ sub[u].err = "none"
    BY ZenonT(60) DEF members, registered
  <2>3. sub[u] \in SubState /\ validSnapshot(sub[u].snap)
    BY <2>1, <2>2, SubHas, ZenonT(60) DEF SubFine
  <2>4. base \in Watermark
    BY <2>1, <2>3 DEF SubState, Snapshot
  <2>5. base.store # Failed
    BY <2>1, <2>3, WatchIdentities, ZenonT(60) DEF validSnapshot
  <2>6. QED
    BY <2>4, <2>5, ZenonT(60)
<1> HIDE DEF ahead
<1>4. group[g] \in PollerState /\ Failed \notin {group[g].mark.store, group[g].base.store}
  BY PollerHas, ZenonT(60)
<1>5. base \in Watermark /\ base.store # Failed
  <2>1. group[g].mark \in Watermark
    BY <1>4 DEF PollerState
  <2>2. QED
    BY <1>3, <1>4, <2>1, ZenonT(60)
<1> DEFINE p == [group[g] EXCEPT !.pc = "revision", !.base = base]
<1>6. /\ p \in PollerState /\ p.pc = "revision" /\ p.pc # "free" /\ p.pc # "gone"
      /\ p.session = group[g].session /\ p.mark = group[g].mark /\ p.base = base
      /\ p.read = group[g].read
  BY ZenonT(60), <1>4, <1>5 DEF PollerState
<1>7. group' = [group EXCEPT ![g] = p]
  BY <1>1, ZenonT(60)
<1> HIDE DEF p
<1>8. group[g].pc # "free"
  BY <1>2
<1>9. PollMoved(g, p)
  BY <1>2, <1>4, <1>5, <1>6, <1>7, <1>8, PollerHas, ZenonT(60) DEF PollMoved
<1>10. QED
  BY <1>2, <1>6, <1>9, PollAlone, ZenonT(60)

\* PollCancelled keeps the invariant: nobody is subscribed.
LEMMA PollCancelledInv ==
  ASSUME WatchInv, NEW g \in Groups, PollCancelled(g)
  PROVE  WatchInv'
<1>1. /\ group[g].pc = "select" /\ cancelled(g) /\ returns(g) /\ UNCHANGED sub
      /\ UNCHANGED <<storeVars, liveVars, closed, view>>
  BY ZenonT(60) DEF PollCancelled
<1>2. group[g].pc # "free"
  BY <1>1
<1>3. QED
  BY <1>1, <1>2, ReturnsMoves, PollAlone, ZenonT(60)

\* The poller keeps the marks it starts from, and what it read is of its session.
LEMMA PollOn ==
  ASSUME WatchInv, NEW g \in Groups, NEW p \in PollerState, group[g].pc # "free",
         p.pc # "free", p.pc # "gone", p.session = group[g].session,
         p.mark = group[g].mark, p.base = group[g].base,
         ofSession(p.read, group[g].session),
         group' = [group EXCEPT ![g] = p],
         UNCHANGED <<storeVars, sub, liveVars, closed, view>>
  PROVE  WatchInv'
<1>1. UNCHANGED sub /\ UNCHANGED <<storeVars, liveVars, closed, view>>
  BY ZenonT(60)
<1>2. Failed \notin {p.mark.store, p.base.store}
  BY PollerHas, ZenonT(60)
<1>3. PollMoved(g, p)
  BY <1>1, <1>2, ZenonT(60) DEF PollMoved
<1>4. QED
  BY <1>1, <1>3, PollAlone, ZenonT(60)

\* PollRevision keeps the invariant.
LEMMA PollRevisionInv ==
  ASSUME WatchInv, NEW g \in Groups, PollRevision(g)
  PROVE  WatchInv'
<1>1. PICK x \in readMark(group[g].session) :
        group' = [group EXCEPT ![g] = [group[g] EXCEPT !.pc = "need", !.rev = x]]
  BY ZenonT(60) DEF PollRevision
<1>2. group[g].pc = "revision" /\ UNCHANGED <<storeVars, sub, liveVars, closed, view>>
  BY ZenonT(60) DEF PollRevision
<1>3. group[g].pc # "free"
  BY <1>2
<1>4. group[g] \in PollerState /\ group[g].session \in Sessions
        /\ ofSession(group[g].read, group[g].session)
  BY <1>3, PollerHas, ZenonT(60)
<1>5. x \in Watermark
  BY <1>4, ReadsAre, ZenonT(60) DEF WatchInv, Types
<1> DEFINE p == [group[g] EXCEPT !.pc = "need", !.rev = x]
<1>6. /\ p \in PollerState /\ p.pc # "free" /\ p.pc # "gone"
      /\ p.session = group[g].session /\ p.mark = group[g].mark
      /\ p.base = group[g].base /\ p.read = group[g].read
  BY ZenonT(60), <1>4, <1>5 DEF PollerState
<1>7. group' = [group EXCEPT ![g] = p]
  BY <1>1, ZenonT(60)
<1> HIDE DEF p
<1>8. QED
  BY <1>2, <1>3, <1>4, <1>6, <1>7, PollOn, ZenonT(60)

\* PollNeed keeps the invariant.
LEMMA PollNeedInv ==
  ASSUME WatchInv, NEW g \in Groups, PollNeed(g)
  PROVE  WatchInv'
<1>1. PICK need \in BOOLEAN :
        group' = [group EXCEPT ![g] =
          [group[g] EXCEPT !.pc = IF need THEN "snapshot" ELSE "apply", !.need = need]]
  <2> DEFINE need == /\ group[g].rev # failedMark
                     /\ \/ group[g].mark.store = None \/ group[g].mark # group[g].rev
                        \/ \E u \in members(g) : /\ sub[u].ready
                                                 /\ sub[u].snap.mark # group[g].rev
  <2>1. need \in BOOLEAN
    BY ZenonT(60)
  <2>2. group' = [group EXCEPT ![g] =
          [group[g] EXCEPT !.pc = IF need THEN "snapshot" ELSE "apply", !.need = need]]
    BY Zenon DEF PollNeed
  <2> HIDE DEF need
  <2>3. QED
    BY <2>1, <2>2, ZenonT(60)
<1>2. group[g].pc = "need" /\ UNCHANGED <<storeVars, sub, liveVars, closed, view>>
  BY Zenon DEF PollNeed
<1>3. group[g].pc # "free"
  BY <1>2
<1>4. group[g] \in PollerState /\ ofSession(group[g].read, group[g].session)
  BY PollerHas, ZenonT(60)
<1> DEFINE p == [group[g] EXCEPT !.pc = IF need THEN "snapshot" ELSE "apply", !.need = need]
<1>5. /\ p \in PollerState /\ p.pc # "free" /\ p.pc # "gone"
      /\ p.session = group[g].session /\ p.mark = group[g].mark
      /\ p.base = group[g].base /\ p.read = group[g].read
  BY ZenonT(60), <1>4 DEF PollerState
<1>6. group' = [group EXCEPT ![g] = p]
  BY <1>1, ZenonT(60)
<1> HIDE DEF p
<1>7. QED
  BY <1>2, <1>3, <1>4, <1>5, <1>6, PollOn, ZenonT(60)

\* PollSnapshot keeps the invariant.
LEMMA PollSnapshotInv ==
  ASSUME WatchInv, NEW g \in Groups, PollSnapshot(g)
  PROVE  WatchInv'
<1>1. PICK x \in readSnapshot(group[g].session) :
        group' = [group EXCEPT ![g] = [group[g] EXCEPT !.pc = "apply", !.read = x]]
  BY ZenonT(60) DEF PollSnapshot
<1>2. group[g].pc = "snapshot" /\ UNCHANGED <<storeVars, sub, liveVars, closed, view>>
  BY ZenonT(60) DEF PollSnapshot
<1>3. group[g].pc # "free"
  BY <1>2
<1>4. group[g] \in PollerState /\ group[g].session \in Sessions
  BY <1>3, PollerHas, ZenonT(60)
<1>5. x \in Snapshot /\ ofSession(x, group[g].session)
  BY <1>4, ReadsAre, ZenonT(60) DEF WatchInv, Types
<1> DEFINE p == [group[g] EXCEPT !.pc = "apply", !.read = x]
<1>6. /\ p \in PollerState /\ p.pc # "free" /\ p.pc # "gone"
      /\ p.session = group[g].session /\ p.mark = group[g].mark
      /\ p.base = group[g].base /\ p.read = x
  BY ZenonT(60), <1>4, <1>5 DEF PollerState
<1>7. group' = [group EXCEPT ![g] = p]
  BY <1>1, ZenonT(60)
<1> HIDE DEF p
<1>8. QED
  BY <1>2, <1>3, <1>5, <1>6, <1>7, PollOn, ZenonT(60)

\* A step of a poller that moves the members of its group.
LEMMA MembersMove ==
  ASSUME WatchInv, NEW g \in Groups, NEW f,
         sub' = [u \in Subs |-> IF u \in members(g) THEN f[u] ELSE sub[u]],
         \A u \in members(g) :
           /\ f[u] \in SubState /\ f[u].group = sub[u].group
           /\ SubFine(f[u], view[u], subSession(u), live, version)
  PROVE  sub' \in [Subs -> SubState] /\ SubsKeep /\ SubsStay
<1>1. \A u \in members(g) : u \in Subs /\ sub[u].err = "none"
  BY ZenonT(60) DEF members, registered
<1>2. \A u \in Subs : /\ sub[u] \in SubState
                      /\ SubFine(sub[u], view[u], subSession(u), live, version)
  BY SubHas, ZenonT(60)
<1>3. \A u \in Subs : /\ u \in members(g) => sub'[u] = f[u]
                      /\ u \notin members(g) => sub'[u] = sub[u]
  OBVIOUS
<1>4. sub' \in [Subs -> SubState]
  <2>1. \A u \in Subs : (IF u \in members(g) THEN f[u] ELSE sub[u]) \in SubState
    BY <1>2, ZenonT(60)
  <2>2. QED
    BY <2>1, ZenonT(60)
<1>5. SubsKeep
  BY <1>1, <1>3, ZenonT(60) DEF SubsKeep
<1>6. SubsStay
  BY <1>2, <1>3, ZenonT(60) DEF SubsStay
<1>7. QED
  BY <1>4, <1>5, <1>6, ZenonT(60)

\* The verdicts of a round; a good one has a snapshot of a store.
LEMMA VerdictIs ==
  ASSUME NEW p \in PollerState
  PROVE  /\ pollVerdict(p) \in {"read", "resync", "ok"}
         /\ (pollVerdict(p) = "ok" /\ p.need) => p.read.mark.store # Failed
<1>1. pollVerdict(p) \in {"read", "resync", "ok"}
  BY DEF pollVerdict
<1>2. ASSUME pollVerdict(p) = "ok", p.need
      PROVE  validSnapshot(p.read)
  BY <1>2 DEF pollVerdict
<1>3. QED
  BY <1>1, <1>2, WatchIdentities, ZenonT(60) DEF validSnapshot

\* What is known of the members of a group.
LEMMA MemberHas ==
  ASSUME WatchInv, NEW g \in Groups, NEW u \in members(g)
  PROVE  /\ u \in Subs /\ sub[u].err = "none" /\ sub[u].group = g /\ sub[u].group # None
         /\ subSession(u) = group[g].session
<1>1. u \in Subs /\ sub[u].err = "none" /\ sub[u].group = g /\ sub[u].group # None
  BY ZenonT(60) DEF members, registered
<1>2. QED
  BY <1>1, ZenonT(60) DEF subSession

\* The poll goroutine goes round, from the mark it reached.
LEMMA RoundEnds ==
  ASSUME WatchInv, NEW g \in Groups, group[g].pc = "apply",
         NEW mark \in Watermark, mark.store # Failed,
         NEW done, done = [group[g] EXCEPT !.base = noMark, !.rev = noMark,
                             !.need = FALSE, !.read = noSnapshot],
         group' = [group EXCEPT ![g] = [done EXCEPT !.mark = mark, !.pc = "select"]],
         UNCHANGED <<storeVars, liveVars, closed, view>>
  PROVE  \E p : PollMoved(g, p) /\ p.pc # "gone"
<1> DEFINE p == [done EXCEPT !.mark = mark, !.pc = "select"]
<1>1. group[g] \in PollerState
  BY PollerHas, ZenonT(60)
<1>2. done \in PollerState /\ done.session = group[g].session /\ done.base = noMark
        /\ done.read = noSnapshot
  BY ZenonT(60), <1>1, Blank DEF PollerState
<1>3. /\ p \in PollerState /\ p.pc # "free" /\ p.pc # "gone"
      /\ p.session = group[g].session /\ p.mark = mark
      /\ p.base = noMark /\ p.read = noSnapshot
  BY ZenonT(60), <1>2 DEF PollerState
<1>4. group' = [group EXCEPT ![g] = p]
  BY ZenonT(60)
<1> HIDE DEF p
<1>5. group[g].pc # "free"
  OBVIOUS
<1>6. PollMoved(g, p)
  BY <1>3, <1>4, <1>5, PollerHas, ZenonT(60) DEF PollMoved
<1>7. QED
  BY <1>3, <1>6, ZenonT(60)

\* A round that fails ends every subscription of the group and the poller.
LEMMA PollEndsInv ==
  ASSUME WatchInv, NEW g \in Groups, group[g].pc = "apply",
         NEW e \in {"read", "resync"},
         sub' = [u \in Subs |-> IF u \in members(g) THEN terminated(sub[u], e) ELSE sub[u]],
         returns(g), UNCHANGED <<storeVars, liveVars, closed, view>>
  PROVE  WatchInv'
<1> DEFINE f == [u \in Subs |-> terminated(sub[u], e)]
<1>1. ASSUME NEW u \in members(g)
      PROVE  /\ f[u] \in SubState /\ f[u].group = sub[u].group
             /\ SubFine(f[u], view[u], subSession(u), live, version)
             /\ f[u].err # "none"
  <2>1. u \in Subs /\ sub[u].group # None
    BY MemberHas, ZenonT(60)
  <2>2. sub[u] \in SubState /\ SubFine(sub[u], view[u], subSession(u), live, version)
    BY <2>1, SubHas, ZenonT(60)
  <2>3. e \in {"read", "resync", "closed"}
    OBVIOUS
  <2>4. /\ terminated(sub[u], e) \in SubState
        /\ SubFine(terminated(sub[u], e), view[u], subSession(u), live, version)
        /\ terminated(sub[u], e).group = sub[u].group
        /\ terminated(sub[u], e).err # "none"
    BY <2>1, <2>2, <2>3, TerminatedFine, ZenonT(60)
  <2>5. f[u] = terminated(sub[u], e)
    BY <2>1, ZenonT(60)
  <2>6. QED
    BY <2>4, <2>5, ZenonT(60)
<1>2. sub' = [u \in Subs |-> IF u \in members(g) THEN f[u] ELSE sub[u]]
  OBVIOUS
<1>3. \A u \in Subs : /\ u \in members(g) => sub'[u] = f[u]
                      /\ u \notin members(g) => sub'[u] = sub[u]
  BY <1>2, ZenonT(60)
<1> HIDE DEF f
<1>4. sub' \in [Subs -> SubState] /\ SubsKeep /\ SubsStay
  BY <1>1, <1>2, MembersMove, ZenonT(60)
<1>5. group[g].pc # "free"
  OBVIOUS
<1>6. PICK p : PollMoved(g, p) /\ p.pc = "gone"
  BY <1>5, ReturnsMoves, ZenonT(60)
<1>7. Left(g, p)
  <2>1. SUFFICES ASSUME NEW u \in Subs, sub[u].group = g
                 PROVE  sub'[u].err # "none"
    BY ZenonT(60) DEF Left
  <2>2. CASE u \in members(g)
    BY <1>1, <1>3, <2>2, ZenonT(60)
  <2>3. CASE u \notin members(g)
    <3>1. g # None
      BY WatchIdentities
    <3>2. sub[u].err # "none"
      BY <2>1, <2>3, <3>1, ZenonT(60) DEF members, registered
    <3>3. QED
      BY <1>3, <2>3, <3>2, ZenonT(60)
  <2>4. QED
    BY <2>2, <2>3, ZenonT(60)
<1>8. QED
  BY <1>4, <1>6, <1>7, PollInv, ZenonT(60)

\* A round that has a snapshot hands it to every subscription of the group.
LEMMA PollReplacesInv ==
  ASSUME WatchInv, NEW g \in Groups, group[g].pc = "apply",
         NEW snap, snap = group[g].read, snap.mark.store # Failed,
         sub' = [u \in Subs |-> IF u \in members(g) THEN replaced(sub[u], snap) ELSE sub[u]],
         NEW p, PollMoved(g, p), p.pc # "gone"
  PROVE  WatchInv'
<1> DEFINE f == [u \in Subs |-> replaced(sub[u], snap)]
<1>1. ASSUME NEW u \in members(g)
      PROVE  /\ f[u] \in SubState /\ f[u].group = sub[u].group
             /\ SubFine(f[u], view[u], subSession(u), live, version)
  <2>1. u \in Subs /\ sub[u].group # None /\ sub[u].err = "none"
          /\ subSession(u) = group[g].session
    BY MemberHas, ZenonT(60)
  <2>2. /\ sub[u] \in SubState /\ view[u] \in ViewState
        /\ SubFine(sub[u], view[u], subSession(u), live, version)
        /\ version \in 0..MaxVersion /\ Retains(live, version)
    BY <2>1, SubHas, ZenonT(60)
  <2>3. snap \in Snapshot
    <3>1. group[g] \in PollerState
      BY PollerHas, ZenonT(60)
    <3>2. QED
      BY <3>1 DEF PollerState
  <2>4. ofSession(snap, subSession(u))
    BY <2>1, PollerHas, ZenonT(60)
  <2>5. /\ replaced(sub[u], snap) \in SubState
        /\ replaced(sub[u], snap).group = sub[u].group
        /\ SubFine(replaced(sub[u], snap), view[u], subSession(u), live, version)
    BY <2>1, <2>2, <2>3, <2>4, ReplacedFine, ZenonT(60)
  <2>6. f[u] = replaced(sub[u], snap)
    BY <2>1, ZenonT(60)
  <2>7. QED
    BY <2>5, <2>6, ZenonT(60)
<1>2. sub' = [u \in Subs |-> IF u \in members(g) THEN f[u] ELSE sub[u]]
  OBVIOUS
<1> HIDE DEF f
<1>3. sub' \in [Subs -> SubState] /\ SubsKeep /\ SubsStay
  BY <1>1, <1>2, MembersMove, ZenonT(60)
<1>4. Left(g, p)
  BY ZenonT(60) DEF Left
<1>5. QED
  BY <1>3, <1>4, PollInv, ZenonT(60)

\* PollApply keeps the invariant.
LEMMA PollApplyInv ==
  ASSUME WatchInv, NEW g \in Groups, PollApply(g)
  PROVE  WatchInv'
<1> DEFINE p == group[g]
           done == [p EXCEPT !.base = noMark, !.rev = noMark, !.need = FALSE,
                             !.read = noSnapshot]
           next(mark) == group' = [group EXCEPT
                           ![g] = [done EXCEPT !.mark = mark, !.pc = "select"]]
<1>1. /\ p.pc = "apply" /\ UNCHANGED <<storeVars, liveVars, closed, view>>
      /\ cancelled(g) => returns(g) /\ UNCHANGED sub
      /\ (~cancelled(g) /\ pollVerdict(p) # "ok") =>
           /\ sub' = [u \in Subs |-> IF u \in members(g)
                        THEN terminated(sub[u], pollVerdict(p)) ELSE sub[u]]
           /\ returns(g)
      /\ (~cancelled(g) /\ pollVerdict(p) = "ok" /\ p.need) =>
           /\ sub' = [u \in Subs |-> IF u \in members(g)
                        THEN replaced(sub[u], p.read) ELSE sub[u]]
           /\ next(p.read.mark)
      /\ (~cancelled(g) /\ pollVerdict(p) = "ok" /\ ~p.need) => next(p.mark) /\ UNCHANGED sub
  BY Zenon DEF PollApply
<1>2. p \in PollerState /\ p.mark.store # Failed
  BY PollerHas, ZenonT(60)
<1>3. p.mark \in Watermark /\ p.read.mark \in Watermark /\ p.pc # "free"
  BY <1>1, <1>2 DEF PollerState, Snapshot
<1>4. /\ pollVerdict(p) \in {"read", "resync", "ok"}
      /\ (pollVerdict(p) = "ok" /\ p.need) => p.read.mark.store # Failed
  BY <1>2, VerdictIs, ZenonT(60)
<1>5. ASSUME NEW mark \in Watermark, mark.store # Failed, next(mark)
      PROVE  \E x : PollMoved(g, x) /\ x.pc # "gone"
  BY <1>1, <1>5, RoundEnds, ZenonT(60)
<1> HIDE DEF done, next
<1>6. CASE cancelled(g)
  BY <1>1, <1>3, <1>6, ReturnsMoves, PollAlone, ZenonT(60)
<1>7. CASE ~cancelled(g) /\ pollVerdict(p) # "ok"
  <2>1. pollVerdict(p) \in {"read", "resync"}
    BY <1>4, <1>7
  <2>2. QED
    BY <1>1, <1>7, <2>1, PollEndsInv, ZenonT(60)
<1>8. CASE ~cancelled(g) /\ pollVerdict(p) = "ok" /\ p.need
  <2>1. PICK x : PollMoved(g, x) /\ x.pc # "gone"
    BY <1>1, <1>3, <1>4, <1>5, <1>8, ZenonT(60)
  <2>2. QED
    BY <1>1, <1>4, <1>8, <2>1, PollReplacesInv, ZenonT(60)
<1>9. CASE ~cancelled(g) /\ pollVerdict(p) = "ok" /\ ~p.need
  <2>1. PICK x : PollMoved(g, x) /\ x.pc # "gone"
    BY <1>1, <1>2, <1>3, <1>5, <1>9, ZenonT(60)
  <2>2. QED
    BY <1>1, <1>9, <2>1, PollAlone, ZenonT(60)
<1>10. QED
  BY <1>6, <1>7, <1>8, <1>9, ZenonT(60)

\* Every step of a poller keeps the invariant.
LEMMA PollStepInv ==
  ASSUME WatchInv, NEW g \in Groups, PollStep(g)
  PROVE  WatchInv'
BY PollTakeInv, PollCancelledInv, PollRevisionInv, PollNeedInv, PollSnapshotInv,
   PollApplyInv, ZenonT(60) DEF PollStep

-----------------------------------------------------------------------------
(* The live text.                                                          *)

\* What is retained for run r becomes e, and the session of r is told.
LiveMoved(r, e) ==
    /\ version < MaxVersion /\ version' = version + 1
    /\ live' = [live EXCEPT ![r] = e]
    /\ e # None => /\ e \in Live /\ e.ver = version + 1 /\ runOf[e.msg] = r
                   /\ ~e.available => e.len = 0
    /\ seedSessionLocked(sessionOf[r], live', version')
    /\ UNCHANGED <<storeVars, group, closed, view>>

\* What such a step makes of the texts.
LEMMA LiveIs ==
  ASSUME WatchInv, NEW r \in Runs, NEW e, LiveMoved(r, e)
  PROVE  /\ live \in [Runs -> Live \cup {None}] /\ live' \in [Runs -> Live \cup {None}]
         /\ live'[r] = e /\ onlyAt(live, live', r)
         /\ version \in 0..MaxVersion /\ version + 1 \in 0..MaxVersion
         /\ Retains(live, version) /\ Retains(live', version + 1)
         /\ LiveStepAt(live, live', r, version)
<1>1. live \in [Runs -> Live \cup {None}] /\ version \in 0..MaxVersion
  BY ZenonT(60) DEF WatchInv, Types
<1>2. e \in Live \cup {None}
  BY ZenonT(60) DEF LiveMoved
<1>3. /\ live' \in [Runs -> Live \cup {None}] /\ live'[r] = e
      /\ \A x \in Runs : x # r => live'[x] = live[x]
  BY <1>1, <1>2 DEF LiveMoved
<1>4. onlyAt(live, live', r)
  BY <1>3, ZenonT(60) DEF onlyAt
<1>5. version + 1 \in 0..MaxVersion
  BY <1>1, WatchOptions DEF LiveMoved
<1>6. Retains(live, version)
  BY <1>1, ZenonT(60) DEF WatchInv, LiveSound, Retains
<1>7. LiveStepAt(live, live', r, version)
  BY <1>3, <1>4, ZenonT(60) DEF LiveMoved, LiveStepAt
<1>8. ASSUME NEW x \in Runs, live'[x] # None
      PROVE  /\ runOf[live'[x].msg] = x /\ live'[x].ver <= version + 1
             /\ ~live'[x].available => live'[x].len = 0
  <2>1. CASE x = r
    <3>1. /\ runOf[e.msg] = r /\ e.ver = version + 1
          /\ ~e.available => e.len = 0
      BY <1>3, <1>8, <2>1, ZenonT(60) DEF LiveMoved
    <3>2. e.ver <= version + 1
      BY <1>1, <3>1
    <3>3. QED
      BY <1>3, <2>1, <3>1, <3>2, ZenonT(60)
  <2>2. CASE x # r
    <3>1. live'[x] = live[x]
      BY <1>3, <2>2, ZenonT(60)
    <3>2. /\ runOf[live[x].msg] = x /\ live[x].ver <= version
          /\ ~live[x].available => live[x].len = 0
      BY <1>6, <1>8, <3>1, ZenonT(60) DEF Retains
    <3>3. live[x] \in Live
      BY <1>1, <1>8, <3>1
    <3>4. live[x].ver <= version + 1
      BY <1>1, <3>2, <3>3 DEF Live
    <3>5. QED
      BY <3>1, <3>2, <3>4, ZenonT(60)
  <2>3. QED
    BY <2>1, <2>2, ZenonT(60)
<1>9. Retains(live', version + 1)
  BY <1>3, <1>8, ZenonT(60) DEF Retains
<1>10. QED
  BY <1>1, <1>3, <1>4, <1>5, <1>6, <1>7, <1>9, ZenonT(60)

\* It leaves every subscription fine: those of the session of r are reseeded, and
\* the others show nothing of r.
LEMMA SessionReseeded ==
  ASSUME WatchInv, NEW r \in Runs, NEW e, LiveMoved(r, e), NEW u \in Subs
  PROVE  /\ sub'[u] \in SubState /\ sub'[u].group = sub[u].group
         /\ sub'[u].err = "none" => sub[u].err = "none"
         /\ SubFine(sub'[u], view[u], subSession(u), live', version + 1)
<1> DEFINE hears(x) == \E g \in groupOf(sessionOf[r]) : x \in members(g) /\ sub[x].ready
           s == subSession(u)
<1>1. version' = version + 1
  BY ZenonT(60) DEF LiveMoved
<1>2. sub'[u] = IF hears(u) THEN seedLocked(sub[u], live', version + 1) ELSE sub[u]
  BY <1>1, ZenonT(60) DEF LiveMoved, seedSessionLocked
<1>3. /\ sub[u] \in SubState /\ view[u] \in ViewState
      /\ SubFine(sub[u], view[u], s, live, version)
  BY SubHas, ZenonT(60)
<1>4. /\ version \in 0..MaxVersion /\ version + 1 \in 0..MaxVersion
      /\ Retains(live, version) /\ Retains(live', version + 1)
      /\ LiveStepAt(live, live', r, version)
  BY LiveIs, ZenonT(60)
<1>5. CASE hears(u)
  <2>1. sub[u].err = "none" /\ sub[u].ready
    BY <1>5, ZenonT(60) DEF members, registered
  <2>2. sub'[u] = seedLocked(sub[u], live', version + 1)
    BY <1>2, <1>5, ZenonT(60)
  <2>3. /\ seedLocked(sub[u], live', version + 1) \in SubState
        /\ seedLocked(sub[u], live', version + 1).group = sub[u].group
        /\ SubFine(seedLocked(sub[u], live', version + 1), view[u], s, live', version + 1)
    <3>1. Carried(seedLocked(sub[u], live', version + 1), sub[u], view[u], s,
                  live', version + 1)
      BY <1>3, <1>4, <2>1, ReseededFine, ZenonT(60)
    <3>2. QED
      BY <3>1, ZenonT(60) DEF Carried
  <2>4. QED
    BY <2>1, <2>2, <2>3, ZenonT(60)
<1>6. CASE ~hears(u)
  <2>1. sub'[u] = sub[u]
    BY <1>2, <1>6, ZenonT(60)
  <2>2. CASE sub[u].err # "none" \/ ~sub[u].ready
    <3>1. SubFine(sub[u], view[u], s, live', version + 1)
      BY <1>3, <2>2, IdleFine, ZenonT(60)
    <3>2. QED
      BY <1>3, <2>1, <3>1, ZenonT(60)
  <2>3. CASE sub[u].err = "none" /\ sub[u].ready
    <3>1. sub[u].group # None
      BY <1>3, <2>3, InUse, ZenonT(60)
    <3>2. u \in registered
      BY <2>3, <3>1, ZenonT(60) DEF registered
    <3>3. sub[u].group \in groupOf(s) /\ u \in members(sub[u].group)
      BY <3>2, InGroupOf, ZenonT(60)
    <3>4. sessionOf[r] # s
      BY <1>6, <2>3, <3>3, ZenonT(60)
    <3>5. SubFine(sub[u], view[u], s, live', version + 1)
      BY <1>3, <1>4, <2>3, <3>4, OtherFine, ZenonT(60)
    <3>6. QED
      BY <1>3, <2>1, <3>5, Zenon
  <2>4. QED
    BY <2>2, <2>3, ZenonT(60)
<1>7. QED
  BY <1>5, <1>6, ZenonT(60)

\* The account after the step, and room for one more run.
Accounted(r, e) ==
    /\ liveBytes' \in Nat /\ liveBytes' <= MaxLiveTextBytes
    /\ liveBytes' + bytesIn(live, r) = liveBytes + (IF e = None THEN 0 ELSE e.len)
    /\ e # None => \/ live[r] # None
                   \/ Cardinality({x \in Runs \ {r} : live[x] # None}) < MaxLiveRuns

\* The account holds after the step.
LEMMA AccountMoves ==
  ASSUME WatchInv, NEW r \in Runs, NEW e, LiveMoved(r, e), Accounted(r, e)
  PROVE  LiveAccounted'
<1>1. /\ live \in [Runs -> Live \cup {None}] /\ live' \in [Runs -> Live \cup {None}]
      /\ live'[r] = e /\ onlyAt(live, live', r)
  BY LiveIs, ZenonT(60)
<1>2. liveBytes \in Nat /\ liveBytes = total(live)
  BY SumIsTotal, ZenonT(60) DEF WatchInv, Types, LiveAccounted
<1>3. /\ total(live) \in Nat /\ total(live') \in Nat /\ bytesIn(live, r) \in Nat
      /\ bytesIn(live', r) \in Nat
      /\ total(live') + bytesIn(live, r) = total(live) + bytesIn(live', r)
  BY <1>1, TotalChange, ZenonT(60)
<1>4. bytesIn(live', r) = IF e = None THEN 0 ELSE e.len
  BY <1>1, ZenonT(60) DEF bytesIn
<1>5. liveBytes' \in Nat /\ liveBytes' + bytesIn(live, r) = liveBytes + bytesIn(live', r)
  BY <1>4 DEF Accounted
<1>6. liveBytes' = total(live')
  BY <1>2, <1>3, <1>5
<1>7. liveBytes' = MapThenSumSet(retained, Runs)'
  BY <1>6, SumIsTotal, ZenonT(60)
<1> DEFINE others == {x \in Runs \ {r} : live[x] # None}
           old == {x \in Runs : live[x] # None}
           new == {x \in Runs : live'[x] # None}
<1>8. /\ IsFiniteSet(others) /\ IsFiniteSet(old)
      /\ Cardinality(others) \in Nat /\ Cardinality(old) \in Nat
  <2>1. others \in SUBSET Runs /\ old \in SUBSET Runs
    OBVIOUS
  <2>2. IsFiniteSet(others) /\ IsFiniteSet(old)
    BY <2>1, WatchData, FS_Subset, ZenonT(60)
  <2>3. QED
    BY <2>2, FS_CardinalityType, ZenonT(60)
<1>9. Cardinality(old) <= MaxLiveRuns /\ MaxLiveRuns \in Nat
  BY WatchOptions DEF WatchInv, LiveAccounted
<1>10. Cardinality(new) <= MaxLiveRuns
  <2>1. CASE e = None
    <3>1. new \subseteq old
      BY <1>1, <2>1, ZenonT(60) DEF onlyAt
    <3>2. Cardinality(new) <= Cardinality(old) /\ Cardinality(new) \in Nat
      BY <1>8, <3>1, FS_Subset, FS_CardinalityType, ZenonT(60)
    <3>3. QED
      BY <1>8, <1>9, <3>2
  <2>2. CASE e # None /\ live[r] # None
    <3>1. new = old
      BY <1>1, <2>2, ZenonT(60) DEF onlyAt
    <3>2. QED
      BY <1>9, <3>1, ZenonT(60)
  <2>3. CASE e # None /\ live[r] = None
    <3>1. new = others \cup {r} /\ r \notin others
      BY <1>1, <2>3 DEF onlyAt
    <3>2. Cardinality(new) = Cardinality(others) + 1
      BY <1>8, <3>1, FS_AddElement, ZenonT(60)
    <3>3. Cardinality(others) < MaxLiveRuns
      BY <2>3, ZenonT(60) DEF Accounted
    <3>4. QED
      BY <1>8, <1>9, <3>2, <3>3
  <2>4. QED
    BY <2>1, <2>2, <2>3, ZenonT(60)
<1>11. QED
  BY <1>7, <1>10, ZenonT(60) DEF LiveAccounted, Accounted

\* Attempts begun stay begun, and the text retained is one of them.
BegunKept(e) ==
    /\ begun' \in [Attempts -> Messages \cup {None}]
    /\ \A a \in Attempts : begun[a] # None => begun'[a] = begun[a]
    /\ e # None => begun'[e.attempt] = e.msg

\* A step of the live text keeps the invariant.
LEMMA LiveInv ==
  ASSUME WatchInv, NEW r \in Runs, NEW e, LiveMoved(r, e), Accounted(r, e), BegunKept(e)
  PROVE  WatchInv'
<1>1. /\ storeID' = storeID /\ rows' = rows /\ group' = group
      /\ closed' = closed /\ view' = view /\ version' = version + 1
  BY ZenonT(60) DEF LiveMoved, storeVars
<1>2. /\ live' \in [Runs -> Live \cup {None}] /\ live'[r] = e /\ onlyAt(live, live', r)
      /\ live \in [Runs -> Live \cup {None}]
      /\ version + 1 \in 0..MaxVersion /\ Retains(live', version + 1)
  BY LiveIs, ZenonT(60)
<1>3. \A u \in Subs :
        /\ sub'[u] \in SubState /\ sub'[u].group = sub[u].group
        /\ sub'[u].err = "none" => sub[u].err = "none"
        /\ SubFine(sub'[u], view[u], subSession(u), live', version + 1)
  BY SessionReseeded, ZenonT(60)
<1>4. sub' \in [Subs -> SubState]
  <2>1. sub' = [u \in Subs |-> sub'[u]]
    BY ZenonT(60) DEF LiveMoved, seedSessionLocked
  <2>2. QED
    BY <1>3, <2>1, ZenonT(60)
<1>5. Types'
  <2>1. begun' \in [Attempts -> Messages \cup {None}] /\ liveBytes' \in Nat
    BY ZenonT(60) DEF BegunKept, Accounted
  <2>2. QED
    BY <1>1, <1>2, <1>4, <2>1, ZenonT(60) DEF WatchInv, Types
<1>6. PollersSound'
  BY <1>1, ZenonT(60) DEF WatchInv, PollersSound
<1>7. LiveSound'
  <2>1. ASSUME NEW x \in Runs, live'[x] # None
        PROVE  begun'[live'[x].attempt] = live'[x].msg
    <3>1. CASE x = r
      BY <1>2, <2>1, <3>1, ZenonT(60) DEF BegunKept
    <3>2. CASE x # r
      <4>1. live'[x] = live[x]
        BY <1>2, <3>2, ZenonT(60) DEF onlyAt
      <4>2. begun[live[x].attempt] = live[x].msg
        BY <2>1, <4>1, ZenonT(60) DEF WatchInv, LiveSound
      <4>3. live[x] \in Live
        BY <1>2, <2>1, <4>1
      <4>4. live[x].attempt \in Attempts /\ live[x].msg # None
        BY <4>3, WatchIdentities DEF Live
      <4>5. QED
        BY <4>1, <4>2, <4>4, ZenonT(60) DEF BegunKept
    <3>3. QED
      BY <3>1, <3>2, ZenonT(60)
  <2>2. QED
    BY <1>1, <1>2, <2>1, ZenonT(60) DEF LiveSound, Retains
<1>8. LiveAccounted'
  BY AccountMoves, ZenonT(60)
<1>9. SubsKeep
  BY <1>3, ZenonT(60) DEF SubsKeep
<1>10. GroupsKeep
  BY <1>1, ZenonT(60) DEF GroupsKeep
<1>11. StillServed
  <2>1. SUFFICES ASSUME NEW x \in Subs, sub[x].group # None, sub'[x].err = "none"
                 PROVE  group'[sub[x].group].pc # "gone"
    BY ZenonT(60) DEF StillServed
  <2>2. x \in registered
    BY <1>9, <2>1, ZenonT(60) DEF registered, SubsKeep
  <2>3. group[sub[x].group].pc \notin {"free", "gone"}
    BY <2>2, ZenonT(60) DEF WatchInv, Served
  <2>4. QED
    BY <1>1, <2>3
<1>12. SubsFineNext
  BY <1>1, <1>3, ZenonT(60) DEF SubsFineNext
<1>13. SubsFine' /\ Served'
  BY <1>9, <1>10, <1>11, <1>12, SubsMove, ZenonT(60) DEF WatchInv
<1>14. QED
  BY <1>5, <1>6, <1>7, <1>8, <1>13, ZenonT(60) DEF WatchInv

\* What is known of the text of a run.
LEMMA BytesHas ==
  ASSUME WatchInv, NEW r \in Runs
  PROVE  /\ liveBytes \in Nat /\ liveBytes <= MaxLiveTextBytes
         /\ bytesIn(live, r) \in Nat /\ bytesIn(live, r) <= liveBytes
         /\ retained(r) = bytesIn(live, r)
<1>1. live \in [Runs -> Live \cup {None}] /\ liveBytes \in Nat
  BY ZenonT(60) DEF WatchInv, Types
<1>2. liveBytes = total(live) /\ liveBytes <= MaxLiveTextBytes
  BY SumIsTotal, ZenonT(60) DEF WatchInv, LiveAccounted
<1>3. onlyAt(live, live, r)
  BY ZenonT(60) DEF onlyAt
<1>4. bytesIn(live, r) \in Nat /\ bytesIn(live, r) <= total(live)
  BY <1>1, <1>3, TotalChange, ZenonT(60)
<1>5. retained(r) = bytesIn(live, r)
  BY ZenonT(60) DEF retained, bytesIn
<1>6. QED
  BY <1>1, <1>2, <1>4, <1>5, ZenonT(60)

\* An attempt that is still retained is the one begun for the text of its run.
LEMMA CurrentIs ==
  ASSUME WatchInv, NEW a \in Attempts, current(a)
  PROVE  LET r == runOf[begun[a]]
         IN  r \in Runs /\ live[r] # None /\ live[r] \in Live /\ live[r].attempt = a
             /\ live[r].msg = begun[a] /\ runOf[live[r].msg] = r
<1>1. PICK x \in Runs : live[x] # None /\ live[x].attempt = a
  BY ZenonT(60) DEF current
<1>2. runOf[live[x].msg] = x /\ begun[a] = live[x].msg
  BY <1>1, ZenonT(60) DEF WatchInv, LiveSound
<1>3. live[x] \in Live
  BY <1>1 DEF WatchInv, Types
<1>4. runOf[begun[a]] = x
  BY <1>2, ZenonT(60)
<1>5. QED
  BY <1>1, <1>2, <1>3, <1>4, ZenonT(60)

\* Dropping the text of a run keeps the invariant (FinishAttempt, ReleaseRun).
LEMMA DroppedInv ==
  ASSUME WatchInv, NEW r \in Runs, dropped(r)
  PROVE  WatchInv'
<1>1. /\ version < MaxVersion /\ version' = version + 1
      /\ liveBytes' = liveBytes - retained(r) /\ live' = [live EXCEPT ![r] = None]
      /\ seedSessionLocked(sessionOf[r], live', version')
      /\ UNCHANGED <<storeVars, group, closed, view>> /\ begun' = begun
  BY ZenonT(60) DEF dropped
<1>2. LiveMoved(r, None)
  BY <1>1, ZenonT(60) DEF LiveMoved
<1>3. Accounted(r, None)
  <2>1. /\ liveBytes \in Nat /\ liveBytes <= MaxLiveTextBytes
        /\ bytesIn(live, r) \in Nat /\ bytesIn(live, r) <= liveBytes
        /\ liveBytes' = liveBytes - bytesIn(live, r)
    BY <1>1, BytesHas, ZenonT(60)
  <2>2. /\ liveBytes' \in Nat /\ liveBytes' <= MaxLiveTextBytes
        /\ liveBytes' + bytesIn(live, r) = liveBytes + 0
    BY <2>1, WatchOptions
  <2>3. QED
    BY <2>2 DEF Accounted
<1>4. BegunKept(None)
  BY <1>1, ZenonT(60) DEF WatchInv, Types, BegunKept
<1>5. QED
  BY <1>2, <1>3, <1>4, LiveInv, ZenonT(60)

\* BeginAttempt keeps the invariant, with room for the run and without.
LEMMA BeginAttemptInv ==
  ASSUME WatchInv, NEW a \in Attempts, NEW m \in Messages, BeginAttempt(a, m)
  PROVE  WatchInv'
<1> DEFINE r == runOf[m]
           room == Cardinality({x \in Runs \ {r} : live[x] # None}) < MaxLiveRuns
           new == [msg |-> m, attempt |-> a, len |-> 0, available |-> TRUE,
                   ver |-> version + 1]
           e == IF room THEN new ELSE None
<1>1. /\ version < MaxVersion /\ version' = version + 1 /\ begun[a] = None
      /\ liveBytes' = liveBytes - retained(r) /\ live' = [live EXCEPT ![r] = e]
      /\ seedSessionLocked(sessionOf[r], live', version')
      /\ UNCHANGED <<storeVars, group, closed, view>>
      /\ begun' = [begun EXCEPT ![a] = m]
  BY ZenonT(60) DEF BeginAttempt
<1>2. r \in Runs
  BY WatchIdentities
<1>3. version \in 0..MaxVersion /\ begun \in [Attempts -> Messages \cup {None}]
  BY ZenonT(60) DEF WatchInv, Types
<1>4. new \in Live /\ new.ver = version + 1 /\ new.msg = m /\ new.attempt = a
        /\ new.len = 0 /\ new.available = TRUE
  BY <1>1, <1>3, WatchOptions DEF Live
<1> HIDE DEF new
<1>5. room => e = new
  BY ZenonT(60)
<1>6. ~room => e = None
  BY ZenonT(60)
<1>7. e # None => room
  BY <1>6, ZenonT(60)
<1> HIDE DEF e
<1>8. LiveMoved(r, e)
  <2>1. e # None => /\ e \in Live /\ e.ver = version + 1 /\ runOf[e.msg] = r
                    /\ ~e.available => e.len = 0
    BY <1>4, <1>5, <1>7, ZenonT(60)
  <2>2. QED
    BY <1>1, <2>1, ZenonT(60) DEF LiveMoved
<1>9. Accounted(r, e)
  <2>1. e # None => e.len = 0
    BY <1>4, <1>5, <1>7, ZenonT(60)
  <2>2. /\ liveBytes \in Nat /\ liveBytes <= MaxLiveTextBytes
        /\ bytesIn(live, r) \in Nat /\ bytesIn(live, r) <= liveBytes
        /\ retained(r) = bytesIn(live, r)
    BY <1>2, BytesHas, ZenonT(60)
  <2> HIDE DEF r
  <2>3. /\ liveBytes' \in Nat /\ liveBytes' <= MaxLiveTextBytes
        /\ liveBytes' + bytesIn(live, r) = liveBytes + 0
    BY <1>1, <2>2, WatchOptions
  <2>4. (IF e = None THEN 0 ELSE e.len) = 0
    BY <2>1
  <2>5. QED
    BY <1>7, <2>3, <2>4 DEF Accounted
<1>10. BegunKept(e)
  <2>1. /\ begun' \in [Attempts -> Messages \cup {None}] /\ begun'[a] = m
        /\ \A x \in Attempts : x # a => begun'[x] = begun[x]
    BY <1>1, <1>3
  <2>2. e # None => begun'[e.attempt] = e.msg
    BY <1>4, <1>5, <1>7, <2>1, ZenonT(60)
  <2>3. QED
    BY <1>1, <2>1, <2>2, ZenonT(60) DEF BegunKept
<1>11. QED
  BY <1>2, <1>8, <1>9, <1>10, LiveInv, ZenonT(60)

\* AppendText keeps the invariant, for text that fits and text that does not.
LEMMA AppendTextInv ==
  ASSUME WatchInv, NEW a \in Attempts, NEW n \in 1..MaxLiveTextBytes \cup {None},
         AppendText(a, n)
  PROVE  WatchInv'
<1> DEFINE r == runOf[begun[a]]
           old == live[r]
           fits == n # None /\ n <= MaxLiveTextBytes - liveBytes
           len == IF fits THEN old.len + n ELSE 0
           e == [old EXCEPT !.ver = version + 1, !.len = len, !.available = fits]
<1>1. /\ version < MaxVersion /\ version' = version + 1 /\ current(a)
      /\ liveBytes' = IF fits THEN liveBytes + n ELSE liveBytes - retained(r)
      /\ live' = [live EXCEPT ![r] = e]
      /\ seedSessionLocked(sessionOf[r], live', version')
      /\ UNCHANGED <<storeVars, group, closed, view>> /\ begun' = begun
  BY ZenonT(60) DEF AppendText
<1>2. /\ r \in Runs /\ old # None /\ old \in Live /\ old.attempt = a /\ old.msg = begun[a]
      /\ runOf[old.msg] = r
  BY <1>1, CurrentIs, ZenonT(60)
<1>3. version \in 0..MaxVersion /\ begun \in [Attempts -> Messages \cup {None}]
  BY ZenonT(60) DEF WatchInv, Types
<1>4. /\ liveBytes \in Nat /\ liveBytes <= MaxLiveTextBytes
      /\ bytesIn(live, r) \in Nat /\ bytesIn(live, r) <= liveBytes
      /\ retained(r) = bytesIn(live, r)
  BY <1>2, BytesHas, ZenonT(60)
<1>5. bytesIn(live, r) = old.len
  BY <1>2, ZenonT(60) DEF bytesIn
<1>6. old.len \in Nat /\ old.len <= liveBytes /\ retained(r) = old.len
  BY <1>4, <1>5, ZenonT(60)
<1> HIDE DEF old, r
<1>7. fits => /\ n \in Nat /\ old.len + n \in 0..MaxLiveTextBytes
              /\ liveBytes + n \in Nat /\ liveBytes + n <= MaxLiveTextBytes
  BY <1>4, <1>6, WatchOptions
<1>8. ~fits => /\ liveBytes - old.len \in Nat
               /\ liveBytes - old.len <= MaxLiveTextBytes
               /\ 0 \in 0..MaxLiveTextBytes
  BY <1>4, <1>6, WatchOptions
<1>9. fits \in BOOLEAN
  BY ZenonT(60)
<1>10. /\ len \in 0..MaxLiveTextBytes
       /\ fits => len = old.len + n
       /\ ~fits => len = 0
  BY <1>7, <1>8, ZenonT(60)
<1> HIDE DEF fits, len
<1>11. version + 1 \in 0..MaxVersion
  BY <1>1, <1>3, WatchOptions
<1>12. /\ e \in Live /\ e.msg = old.msg /\ e.attempt = old.attempt
       /\ e.ver = version + 1 /\ e.len = len /\ e.available = fits
  BY ZenonT(60), <1>2, <1>9, <1>10, <1>11 DEF Live
<1> HIDE DEF e
<1>13. e # None
  BY <1>12, WatchData, ZenonT(60)
<1>14. LiveMoved(r, e)
  BY <1>1, <1>2, <1>10, <1>12, ZenonT(60) DEF LiveMoved
<1>15. Accounted(r, e)
  <2>1. CASE fits
    <3>1. liveBytes' = liveBytes + n /\ e.len = old.len + n
      BY <1>1, <1>10, <1>12, <2>1, ZenonT(60)
    <3>2. /\ liveBytes' \in Nat /\ liveBytes' <= MaxLiveTextBytes
          /\ liveBytes' + bytesIn(live, r) = liveBytes + e.len
      BY <1>4, <1>5, <1>6, <1>7, <2>1, <3>1
    <3>3. QED
      BY <1>2, <1>13, <3>2 DEF Accounted, old
  <2>2. CASE ~fits
    <3>1. liveBytes' = liveBytes - old.len /\ e.len = 0
      BY <1>1, <1>6, <1>10, <1>12, <2>2, ZenonT(60)
    <3>2. /\ liveBytes' \in Nat /\ liveBytes' <= MaxLiveTextBytes
          /\ liveBytes' + bytesIn(live, r) = liveBytes + e.len
      BY <1>4, <1>5, <1>6, <1>8, <2>2, <3>1
    <3>3. QED
      BY <1>2, <1>13, <3>2 DEF Accounted, old
  <2>3. QED
    BY <2>1, <2>2, ZenonT(60)
<1>16. BegunKept(e)
  BY <1>1, <1>2, <1>3, <1>12, ZenonT(60) DEF BegunKept
<1>17. QED
  BY <1>2, <1>14, <1>15, <1>16, LiveInv, ZenonT(60)

\* Every step of the live text keeps the invariant.
LEMMA LiveStepInv ==
  ASSUME WatchInv, LiveStep
  PROVE  WatchInv'
<1>1. ASSUME NEW a \in Attempts, FinishAttempt(a)
      PROVE  WatchInv'
  BY <1>1, CurrentIs, DroppedInv, ZenonT(60) DEF FinishAttempt
<1>2. ASSUME NEW r \in Runs, ReleaseRun(r)
      PROVE  WatchInv'
  BY <1>2, DroppedInv, ZenonT(60) DEF ReleaseRun
<1>3. QED
  BY <1>1, <1>2, BeginAttemptInv, AppendTextInv, ZenonT(60) DEF LiveStep

\* Nothing is retained: the account is empty.
LEMMA NothingRetained ==
  /\ live = [r \in Runs |-> None] /\ liveBytes = 0 => LiveSound /\ LiveAccounted
  /\ live' = [r \in Runs |-> None] /\ liveBytes' = 0 => LiveSound' /\ LiveAccounted'
<1>1. \A lv : lv = [r \in Runs |-> None] =>
        {r \in Runs : lv[r] # None} = {} /\ \A r \in Runs : lv[r] = None
  OBVIOUS
<1>2. Cardinality({}) <= MaxLiveRuns /\ 0 <= MaxLiveTextBytes
  BY FS_EmptySet, WatchOptions
<1>3. ASSUME live = [r \in Runs |-> None], liveBytes = 0
      PROVE  LiveSound /\ LiveAccounted
  <2>1. /\ {r \in Runs : live[r] # None} = {} /\ \A r \in Runs : live[r] = None
    BY <1>1, <1>3, ZenonT(60)
  <2>2. MapThenSumSet(retained, Runs) = 0
    BY <1>3, SumIsTotal, TotalOfNone, ZenonT(60)
  <2>3. QED
    BY <1>2, <1>3, <2>1, <2>2, ZenonT(60) DEF LiveSound, LiveAccounted
<1>4. ASSUME live' = [r \in Runs |-> None], liveBytes' = 0
      PROVE  LiveSound' /\ LiveAccounted'
  <2>1. /\ {r \in Runs : live'[r] # None} = {} /\ \A r \in Runs : live'[r] = None
    BY <1>1, <1>4, ZenonT(60)
  <2>2. MapThenSumSet(retained, Runs)' = 0
    BY <1>4, SumIsTotal, TotalOfNone, ZenonT(60)
  <2>3. QED
    BY <1>2, <1>4, <2>1, <2>2, ZenonT(60) DEF LiveSound, LiveAccounted
<1>5. QED
  BY <1>3, <1>4, ZenonT(60)

\* Close keeps the invariant.
LEMMA CloseInv ==
  ASSUME WatchInv, Close
  PROVE  WatchInv'
<1>1. /\ storeID' = storeID /\ rows' = rows /\ group' = group /\ version' = version
      /\ begun' = begun /\ view' = view /\ closed' = TRUE
      /\ live' = [r \in Runs |-> None] /\ liveBytes' = 0
      /\ sub' = [u \in Subs |-> IF u \in registered
                   THEN terminated(sub[u], "closed") ELSE sub[u]]
  BY ZenonT(60) DEF Close, storeVars
<1>2. ASSUME NEW u \in Subs
      PROVE  /\ sub'[u] \in SubState /\ sub'[u].group = sub[u].group
             /\ sub'[u].err = "none" => sub[u].err = "none" /\ sub[u].group = None
             /\ SubFine(sub'[u], view[u], subSession(u), live', version)
  <2>1. /\ sub[u] \in SubState
        /\ SubFine(sub[u], view[u], subSession(u), live, version)
    BY SubHas, ZenonT(60)
  <2>2. CASE u \in registered
    <3>1. sub'[u] = terminated(sub[u], "closed")
      BY <1>1, <2>2, ZenonT(60)
    <3>2. sub[u].group # None /\ "closed" \in {"read", "resync", "closed"}
      BY <2>2 DEF registered
    <3>3. /\ terminated(sub[u], "closed") \in SubState
          /\ SubFine(terminated(sub[u], "closed"), view[u], subSession(u), live, version)
          /\ terminated(sub[u], "closed").group = sub[u].group
          /\ terminated(sub[u], "closed").err # "none"
      BY <2>1, <3>2, TerminatedFine, ZenonT(60)
    <3>4. SubFine(terminated(sub[u], "closed"), view[u], subSession(u), live', version)
      BY <3>3, IdleFine, ZenonT(60)
    <3>5. QED
      BY <3>1, <3>3, <3>4, ZenonT(60)
  <2>3. CASE u \notin registered
    <3>1. sub'[u] = sub[u]
      BY <1>1, <2>3, ZenonT(60)
    <3>2. sub[u].err # "none" \/ sub[u].group = None
      BY <2>3, ZenonT(60) DEF registered
    <3>3. sub[u].err # "none" \/ ~sub[u].ready
      BY <2>1, <3>2, InUse, ZenonT(60)
    <3>4. SubFine(sub[u], view[u], subSession(u), live', version)
      BY <2>1, <3>3, IdleFine, ZenonT(60)
    <3>5. QED
      BY <2>1, <3>1, <3>2, <3>4, ZenonT(60)
  <2>4. QED
    BY <2>2, <2>3, ZenonT(60)
<1>3. sub' \in [Subs -> SubState]
  <2>1. sub' = [u \in Subs |-> sub'[u]]
    BY <1>1, ZenonT(60)
  <2>2. QED
    BY <1>2, <2>1, ZenonT(60)
<1>4. live' \in [Runs -> Live \cup {None}] /\ liveBytes' \in Nat /\ closed' \in BOOLEAN
  BY <1>1
<1>5. Types'
  BY <1>1, <1>3, <1>4, ZenonT(60) DEF WatchInv, Types
<1>6. PollersSound'
  BY <1>1, ZenonT(60) DEF WatchInv, PollersSound
<1>7. LiveSound' /\ LiveAccounted'
  BY <1>1, NothingRetained, ZenonT(60)
<1>8. SubsKeep
  BY <1>2, ZenonT(60) DEF SubsKeep
<1>9. GroupsKeep
  BY <1>1, ZenonT(60) DEF GroupsKeep
<1>10. StillServed
  BY <1>2, ZenonT(60) DEF StillServed
<1>11. SubsFineNext
  BY <1>1, <1>2, ZenonT(60) DEF SubsFineNext
<1>12. SubsFine' /\ Served'
  BY <1>8, <1>9, <1>10, <1>11, SubsMove, ZenonT(60) DEF WatchInv
<1>13. QED
  BY <1>5, <1>6, <1>7, <1>12, ZenonT(60) DEF WatchInv

-----------------------------------------------------------------------------
(* Results.                                                                *)

\* The service starts with the invariant.
LEMMA InitInv ==
  ASSUME Init
  PROVE  WatchInv
<1>1. /\ storeID \in StoreIDs /\ rows \in InitialRows
      /\ group = [g \in Groups |-> idleGroup] /\ sub = [u \in Subs |-> noSub]
      /\ live = [r \in Runs |-> None] /\ liveBytes = 0 /\ version = 0
      /\ closed = FALSE /\ begun = [a \in Attempts |-> None]
      /\ view = [u \in Subs |-> noView]
  BY ZenonT(60) DEF Init
<1>2. /\ \A g \in Groups : group[g] = idleGroup
      /\ \A u \in Subs : sub[u] = noSub /\ view[u] = noView
  BY <1>1, ZenonT(60)
<1>3. /\ idleGroup.pc = "free" /\ idleGroup.mark = noMark /\ idleGroup.base = noMark
      /\ idleGroup.read = noSnapshot
      /\ noSub.group = None /\ noSub.watch = "no" /\ noSub.ready = FALSE
      /\ noSub.snap = noSnapshot /\ noSub.pending = <<>> /\ noSub.err = "none"
      /\ noSub.next = "looking" /\ noSub.resnap = "no"
      /\ noMark.store # Failed
  BY WatchIdentities DEF idleGroup, noSub, noMark
<1>4. Types
  <2>1. rows \in [Sessions -> Row]
    BY <1>1, WatchData, ZenonT(60)
  <2>2. group \in [Groups -> PollerState] /\ sub \in [Subs -> SubState]
          /\ view \in [Subs -> ViewState]
    BY <1>1, Blank, ZenonT(60)
  <2>3. live \in [Runs -> Live \cup {None}] /\ begun \in [Attempts -> Messages \cup {None}]
    BY <1>1
  <2>4. liveBytes \in Nat /\ version \in 0..MaxVersion /\ closed \in BOOLEAN
    <3>1. 0 \in Nat /\ 0 \in 0..MaxVersion /\ FALSE \in BOOLEAN
      BY WatchOptions
    <3>2. QED
      BY <1>1, <3>1, ZenonT(60)
  <2>5. QED
    BY <1>1, <2>1, <2>2, <2>3, <2>4, ZenonT(60) DEF Types
<1>5. PollersSound
  BY <1>2, <1>3, Blank, ZenonT(60) DEF PollersSound
<1>6. SubsFine
  <2>1. "looking" # "waiting" /\ "no" # "done"
    OBVIOUS
  <2>2. \A s : SubFine(noSub, noView, s, live, version)
    BY <1>3, <2>1, ZenonT(60) DEF SubFine
  <2>3. QED
    BY <1>2, <1>3, <2>2, ZenonT(60) DEF SubsFine
<1>7. Served
  <2>1. registered = {}
    BY <1>2, <1>3, ZenonT(60) DEF registered
  <2>2. QED
    BY <2>1, ZenonT(60) DEF Served
<1>8. QED
  BY <1>1, <1>4, <1>5, <1>6, <1>7, NothingRetained, ZenonT(60) DEF WatchInv

\* Every step keeps it.
LEMMA NextInv ==
  ASSUME WatchInv, [Next]_vars
  PROVE  WatchInv'
<1>1. CASE UNCHANGED vars
  <2>1. UNCHANGED serviceVars /\ storeID' = storeID /\ rows' = rows
    BY <1>1, ZenonT(60) DEF vars, storeVars
  <2>2. storeID \in StoreIDs /\ rows \in [Sessions -> Row]
    BY ZenonT(60) DEF WatchInv, Types
  <2>3. QED
    BY <2>1, <2>2, ServiceStands, ZenonT(60)
<1>2. ASSUME NEW u \in Subs, CallStep(u)
      PROVE  WatchInv'
  BY <1>2, WatchReadInv, WatchFinishInv, ResnapshotReadInv, ResnapshotFinishInv, ZenonT(60)
     DEF CallStep
<1>3. ASSUME NEW u \in Subs, NextStep(u) \/ NextGivesUp(u)
      PROVE  WatchInv'
  BY <1>3, NextLookInv, NextWakesInv, ZenonT(60) DEF NextStep
<1>4. ASSUME NEW u \in Subs, SubClose(u) \/ ResnapshotBegin(u)
      PROVE  WatchInv'
  BY <1>4, SubCloseInv, ResnapshotBeginInv, ZenonT(60)
<1>5. CASE Next
  BY <1>2, <1>3, <1>4, <1>5, StoreStepInv, WatchActionInv, PollStepInv, LiveStepInv,
     CloseInv, ZenonT(60) DEF Next
<1>6. QED
  BY <1>1, <1>5, ZenonT(60)

\* The inductive invariant holds always, for any number of sessions, runs,
\* messages, pollers, subscriptions and attempts and any limits (service, poll,
\* Watch, Next, Resnapshot, the live tap).
THEOREM WatchInvariant == Spec => []WatchInv
<1>1. Init => WatchInv
  BY InitInv, ZenonT(60)
<1>2. WatchInv /\ [Next]_vars => WatchInv'
  BY NextInv, ZenonT(60)
<1>3. QED
  BY <1>1, <1>2, PTL DEF Spec

\* The values the service, its pollers, its subscriptions and the bridges hold
\* always have their types (WatchTypeOK).
THEOREM WatchTypeCorrect == Spec => []WatchTypeOK
<1>1. ASSUME WatchInv
      PROVE  WatchTypeOK
  <2>0. Types
    BY <1>1, ZenonT(60) DEF WatchInv
  <2>1. ASSUME NEW g \in Groups
        PROVE  /\ group[g].session \in Sessions \cup {None}
               /\ group[g].pc \in {"free", "select", "revision", "need", "snapshot",
                                   "apply", "gone"}
               /\ {group[g].mark, group[g].base, group[g].rev} \subseteq Watermark
               /\ Failed \notin {group[g].mark.store, group[g].base.store}
               /\ group[g].need \in BOOLEAN /\ group[g].read \in Snapshot
    <3>1. /\ group[g] \in PollerState
          /\ Failed \notin {group[g].mark.store, group[g].base.store}
      BY <1>1, PollerHas, ZenonT(60)
    <3>2. QED
      BY <3>1 DEF PollerState
  <2>2. ASSUME NEW u \in Subs
        PROVE  /\ sub[u].group \in Groups \cup {None}
               /\ sub[u].watch \in {"no", "reading", "read", "done"}
               /\ {sub[u].got, sub[u].snap} \subseteq Snapshot
               /\ sub[u].ready \in BOOLEAN /\ sub[u].notify \in BOOLEAN
               /\ sub[u].err \in {"none", "read", "resync", "closed"}
               /\ sub[u].next \in {"looking", "waiting", "ended"}
               /\ sub[u].resnap \in {"no", "reading", "read"}
               /\ sub[u].base \in Watermark
               /\ sub[u].pending \in Seq(Update)
               /\ sub[u].snap.mark.store # Failed
    <3>1. sub[u] \in SubState /\ SubFine(sub[u], view[u], subSession(u), live, version)
      BY <1>1, SubHas, ZenonT(60)
    <3>2. CASE sub[u].err # "none" \/ ~sub[u].ready
      <4>1. sub[u].snap = noSnapshot
        BY <3>1, <3>2, ZenonT(60) DEF SubFine
      <4>2. noSnapshot.mark.store # Failed
        BY WatchIdentities DEF noSnapshot, emptySnapshot, noMark
      <4>3. QED
        BY <3>1, <4>1, <4>2 DEF SubState
    <3>3. CASE sub[u].err = "none" /\ sub[u].ready
      <4>1. validSnapshot(sub[u].snap)
        BY <3>1, <3>3, ZenonT(60) DEF SubFine
      <4>2. sub[u].snap.mark.store # Failed
        BY <4>1, WatchIdentities, ZenonT(60) DEF validSnapshot
      <4>3. QED
        BY <3>1, <4>2 DEF SubState
    <3>4. QED
      BY <3>2, <3>3, ZenonT(60)
  <2>3. ASSUME NEW u \in Subs, NEW i \in DOMAIN sub[u].pending
        PROVE  \/ sub[u].pending[i] \in [kind : {"durable"}, snap : Snapshot]
               \/ sub[u].pending[i] \in Overlay
    <3>1. sub[u].pending[i] \in Update
      BY <2>2, <2>3
    <3>2. QED
      BY <3>1, ZenonT(60) DEF Update
  <2>4. ASSUME NEW u \in Subs
        PROVE  /\ view[u].snap \in Snapshot
               /\ \A k \in Messages \cup {None} :
                    view[u].overlay[k] \in Overlay \cup {None}
    <3>1. view[u] \in ViewState
      BY <2>0, ZenonT(60) DEF Types
    <3>2. view[u].snap \in Snapshot
            /\ view[u].overlay \in [Messages \cup {None} -> Overlay \cup {None}]
      BY <3>1 DEF ViewState
    <3>3. QED
      BY <3>2, ZenonT(60)
  <2>5. /\ storeID \in StoreIDs /\ rows \in [Sessions -> Row]
        /\ \A r \in Runs : live[r] \in Live \cup {None}
        /\ liveBytes \in Nat /\ version \in 0..MaxVersion /\ closed \in BOOLEAN
        /\ \A a \in Attempts : begun[a] \in Messages \cup {None}
    BY <2>0, ZenonT(60) DEF Types
  <2>6. QED
    BY <2>1, <2>2, <2>3, <2>4, <2>5, ZenonT(60) DEF WatchTypeOK
<1>2. QED
  BY <1>1, WatchInvariant, PTL

\* The byte account of the service is always the text it retains, within
\* MaxLiveTextBytes and MaxLiveRuns, whatever attempts are begun, replaced,
\* appended to, finished and released (beginAttempt, append, finish, ReleaseRun).
THEOREM LiveBytesAccounted == Spec => []LiveAccounted
<1>1. WatchInv => LiveAccounted
  BY ZenonT(60) DEF WatchInv
<1>2. QED
  BY <1>1, WatchInvariant, PTL

\* Every registered subscription always has a poller that runs, a session has one
\* poller that is not cancelled, and an observer with something to read has its
\* token (Watch, poll, signal).
THEOREM SubscribersServed == Spec => []SubscriberServed
<1>1. ASSUME WatchInv
      PROVE  SubscriberServed
  <2>1. noLostWakeup
    BY <1>1, SubHas, ZenonT(60) DEF noLostWakeup, SubFine
  <2>2. \A u \in registered : group[sub[u].group].pc \notin {"free", "gone"}
    BY <1>1, ZenonT(60) DEF WatchInv, Served
  <2>3. ASSUME NEW s \in Sessions
        PROVE  Cardinality(groupOf(s)) <= 1
    <3>1. ASSUME NEW g \in groupOf(s), NEW h \in groupOf(s)
          PROVE  g = h
      <4>1. PICK y : y \in registered /\ sub[y].group = h
        BY ZenonT(60) DEF groupOf, cancelled, members
      <4>2. subSession(y) = s
        BY <1>1, <4>1, GroupOfSession, ZenonT(60) DEF subSession
      <4>3. QED
        BY <1>1, <4>1, <4>2, GroupOfSession, ZenonT(60)
    <3>2. CASE groupOf(s) = {}
      BY <3>2, FS_EmptySet
    <3>3. CASE groupOf(s) # {}
      <4>1. PICK g : groupOf(s) = {g}
        BY <3>1, <3>3, ZenonT(60)
      <4>2. Cardinality(groupOf(s)) = 1
        BY <4>1, FS_Singleton, ZenonT(60)
      <4>3. QED
        BY <4>2
    <3>4. QED
      BY <3>2, <3>3, ZenonT(60)
  <2>4. QED
    BY <2>1, <2>2, <2>3, ZenonT(60) DEF SubscriberServed
<1>2. QED
  BY <1>1, WatchInvariant, PTL

\* What a subscription that is watched has for its observer.
LEMMA WatchingHas ==
  ASSUME WatchInv, NEW u \in watching
  PROVE  /\ u \in Subs /\ view[u] \in ViewState /\ sub[u].snap \in Snapshot
         /\ sub[u].pending \in Seq(Update) /\ Len(sub[u].pending) <= PendingUpdates
         /\ Fits(view[u], sub[u].snap, sub[u].pending, live, version)
<1>1. u \in Subs /\ sub[u].err = "none" /\ sub[u].watch = "done"
  BY ZenonT(60) DEF watching, registered
<1>2. /\ sub[u] \in SubState /\ view[u] \in ViewState
      /\ SubFine(sub[u], view[u], subSession(u), live, version)
  BY <1>1, SubHas, ZenonT(60)
<1>3. sub[u].ready
  BY <1>1, <1>2, ZenonT(60) DEF SubFine
<1>4. /\ Fits(view[u], sub[u].snap, sub[u].pending, live, version)
      /\ Len(sub[u].pending) <= PendingUpdates
  BY <1>1, <1>2, <1>3, ZenonT(60) DEF SubFine
<1>5. sub[u].snap \in Snapshot /\ sub[u].pending \in Seq(Update)
  BY <1>2 DEF SubState
<1>6. QED
  BY <1>1, <1>2, <1>4, <1>5, ZenonT(60)

\* The head of the queue is not refused.
LEMMA Accepted ==
  ASSUME NEW v \in ViewState, NEW snap \in Snapshot, NEW q \in Seq(Update),
         durableFits(v, snap, q)
  PROVE  \A i \in DOMAIN q : q[i].kind = "durable" => i = 1 /\ ~refuses(v, q[i])
<1> SUFFICES ASSUME NEW i \in DOMAIN q, q[i].kind = "durable"
             PROVE  i = 1 /\ ~refuses(v, q[i])
  OBVIOUS
<1>1. i \in DOMAIN q \ overlays(q) /\ overlays(q) # DOMAIN q
  BY ZenonT(60) DEF overlays
<1>2. /\ i = 1 /\ q[i].snap = snap /\ v.snap.mark.store = snap.mark.store
      /\ v.snap.mark.rev < snap.mark.rev
  BY <1>1, ZenonT(60) DEF durableFits
<1>3. v.snap.mark.rev \in Nat /\ snap.mark.rev \in Nat
  BY DEF ViewState, Snapshot, Watermark
<1>4. ~(snap.mark.rev <= v.snap.mark.rev)
  BY <1>2, <1>3
<1>5. QED
  BY <1>2, <1>4, ZenonT(60) DEF refuses

\* The bridge accepts every queued update.
LEMMA QueuesFit ==
  ASSUME WatchInv
  PROVE  queueFitsView
<1>1. ASSUME NEW u \in watching, NEW i \in DOMAIN sub[u].pending
      PROVE  IF sub[u].pending[i].kind = "durable"
             THEN i = 1 /\ ~refuses(view[u], sub[u].pending[i])
             ELSE watchOverlayEligible(sub[u].snap, sub[u].pending[i])
  <2>1. /\ view[u] \in ViewState /\ sub[u].snap \in Snapshot /\ sub[u].pending \in Seq(Update)
        /\ durableFits(view[u], sub[u].snap, sub[u].pending)
        /\ aimed(sub[u].snap, sub[u].pending)
    BY WatchingHas, ZenonT(60) DEF Fits
  <2>2. CASE sub[u].pending[i].kind = "durable"
    <3>1. \A j \in DOMAIN sub[u].pending :
            sub[u].pending[j].kind = "durable" => j = 1 /\ ~refuses(view[u], sub[u].pending[j])
      BY <2>1, Accepted, ZenonT(60)
    <3>2. QED
      BY <2>2, <3>1, ZenonT(60)
  <2>3. CASE sub[u].pending[i].kind # "durable"
    BY <2>1, <2>3, ZenonT(60) DEF aimed, overlays
  <2>4. QED
    BY <2>2, <2>3, ZenonT(60)
<1>2. \A u \in watching : Len(sub[u].pending) <= PendingUpdates
  BY WatchingHas, ZenonT(60)
<1>3. QED
  BY <1>1, <1>2, ZenonT(60) DEF queueFitsView

\* No update is lost or applied to the wrong snapshot: an observer that applies all
\* that is queued always has the snapshot of its subscription and the text retained
\* for exactly the messages open in it, for queues of every length (seedLocked,
\* enqueue, Apply).
THEOREM ViewsConverge == Spec => []ViewConverges
<1>1. ASSUME WatchInv
      PROVE  ViewConverges
  <2>1. ASSUME NEW u \in watching
        PROVE  LET final == FoldLeft(Apply, view[u], sub[u].pending)
               IN  /\ final.snap = sub[u].snap
                   /\ \A m \in Messages :
                        IF ~Eligible(final.snap, m) THEN final.overlay[m] = None
                        ELSE LET has == final.overlay[m]
                                 keeps == live[runOf[m]]
                             IN  IF keeps # None /\ keeps.msg = m /\ keeps.available
                                 THEN /\ has # None /\ has.kind = "live"
                                      /\ has.attempt = keeps.attempt
                                      /\ has.len = keeps.len
                                 ELSE has # None /\ has.kind = "unavailable"
    <3> DEFINE final == FoldLeft(Apply, view[u], sub[u].pending)
    <3>1. Shows(final, sub[u].snap, live)
      BY <1>1, WatchingHas, QueueShows, ZenonT(60)
    <3> HIDE DEF final
    <3>2. final.snap = sub[u].snap
      BY <3>1, ZenonT(60) DEF Shows
    <3>3. ASSUME NEW m \in Messages
          PROVE  IF ~Eligible(final.snap, m) THEN final.overlay[m] = None
                 ELSE LET has == final.overlay[m]
                          keeps == live[runOf[m]]
                      IN  IF keeps # None /\ keeps.msg = m /\ keeps.available
                          THEN /\ has # None /\ has.kind = "live"
                               /\ has.attempt = keeps.attempt
                               /\ has.len = keeps.len
                          ELSE has # None /\ has.kind = "unavailable"
      <4>1. ~Eligible(final.snap, m) => final.overlay[m] = None
        BY <3>1, <3>2, ZenonT(60) DEF Shows
      <4>2. Eligible(final.snap, m) =>
              final.overlay[m] # None /\ tells(final.overlay[m], m, live)
        BY <3>1, <3>2, ZenonT(60) DEF Shows
      <4>3. QED
        BY <4>1, <4>2, ZenonT(60) DEF tells, kept
    <3>4. QED
      BY <3>2, <3>3, ZenonT(60) DEF final
  <2>2. queueFitsView
    BY <1>1, QueuesFit, ZenonT(60)
  <2>3. QED
    BY <2>1, <2>2, ZenonT(60) DEF ViewConverges
<1>2. QED
  BY <1>1, WatchInvariant, PTL

\* The watermark of view y is not behind the one of view v.
NotBehind(v, y) ==
    v.snap.mark # noMark => /\ y.snap.mark.store = v.snap.mark.store
                            /\ y.snap.mark.rev >= v.snap.mark.rev

\* A view is not behind itself.
LEMMA SameView ==
  ASSUME NEW v \in ViewState
  PROVE  NotBehind(v, v)
<1>1. v.snap.mark.rev \in Nat
  BY DEF ViewState, Snapshot, Watermark
<1>2. v.snap.mark.rev >= v.snap.mark.rev
  BY <1>1
<1>3. QED
  BY <1>2, ZenonT(60) DEF NotBehind

\* The bridge never puts a view back (Apply refuses an older snapshot).
LEMMA ApplyNotBehind ==
  ASSUME NEW v \in ViewState, NEW x \in Update
  PROVE  NotBehind(v, Apply(v, x))
<1>1. CASE refuses(v, x)
  <2>1. Apply(v, x) = v
    BY <1>1, ZenonT(60) DEF Apply
  <2>2. QED
    BY <2>1, SameView, ZenonT(60)
<1>2. CASE ~refuses(v, x) /\ x.kind = "durable"
  <2>1. x.snap \in Snapshot
    BY <1>2 DEF Update, Overlay
  <2>2. Apply(v, x).snap = x.snap
    BY <1>2 DEF Apply
  <2>3. x.snap.mark.store = v.snap.mark.store /\ ~(x.snap.mark.rev <= v.snap.mark.rev)
    BY <1>2, ZenonT(60) DEF refuses
  <2>4. x.snap.mark.rev \in Nat /\ v.snap.mark.rev \in Nat
    BY <2>1 DEF ViewState, Snapshot, Watermark
  <2>5. x.snap.mark.rev >= v.snap.mark.rev
    BY <2>3, <2>4
  <2>6. QED
    BY <2>2, <2>3, <2>5, ZenonT(60) DEF NotBehind
<1>3. CASE ~refuses(v, x) /\ x.kind # "durable"
  <2>1. Apply(v, x).snap = v.snap
    BY <1>3 DEF Apply, ViewState
  <2>2. QED
    BY <2>1, SameView, ZenonT(60) DEF NotBehind
<1>4. QED
  BY <1>1, <1>2, <1>3, ZenonT(60)

\* No observer's view goes back in this step.
NoneBehind == \A u \in Subs : NotBehind(view[u], view'[u])

\* The steps that give an observer a view, and the others.
LEMMA ViewSteps ==
  ASSUME [Next]_vars
  PROVE  \/ UNCHANGED view
         \/ \E u \in Subs : WatchFinish(u) \/ NextLook(u) \/ ResnapshotFinish(u)
<1>1. UNCHANGED vars \/ StoreStep => UNCHANGED view
  BY ZenonT(60) DEF vars, serviceVars, StoreStep, Commit, StoreReplaced
<1>2. \A u \in Subs, s \in Sessions : Watch(u, s) => UNCHANGED view
  BY ZenonT(60) DEF Watch
<1>3. \A u \in Subs : SubClose(u) \/ ResnapshotBegin(u) \/ NextGivesUp(u) \/ WatchRead(u)
                        \/ ResnapshotRead(u) \/ NextWakes(u) => UNCHANGED view
  BY ZenonT(60) DEF SubClose, ResnapshotBegin, NextGivesUp, WatchRead, ResnapshotRead, NextWakes
<1>4. \A g \in Groups : PollStep(g) => UNCHANGED view
  BY ZenonT(60) DEF PollStep, PollTake, PollCancelled, PollRevision, PollNeed, PollSnapshot,
       PollApply
<1>5. LiveStep => UNCHANGED view
  BY ZenonT(60) DEF LiveStep, BeginAttempt, AppendText, FinishAttempt, ReleaseRun, dropped
<1>6. Close => UNCHANGED view
  BY ZenonT(60) DEF Close
<1>7. QED
  BY <1>1, <1>2, <1>3, <1>4, <1>5, <1>6, ZenonT(60) DEF Next, CallStep, NextStep

\* A step that moves one view forward.
LEMMA OneView ==
  ASSUME WatchInv, NEW u \in Subs, NEW y, NotBehind(view[u], y),
         view' = [view EXCEPT ![u] = y]
  PROVE  NoneBehind
<1>1. view \in [Subs -> ViewState]
  BY ZenonT(60) DEF WatchInv, Types
<1>2. view'[u] = y /\ \A x \in Subs : x # u => view'[x] = view[x]
  BY <1>1, ZenonT(60)
<1>3. \A x \in Subs : NotBehind(view[x], view[x])
  BY <1>1, SameView, ZenonT(60)
<1>4. QED
  BY <1>2, <1>3, ZenonT(60) DEF NoneBehind

\* A step that moves none.
LEMMA AllSame ==
  ASSUME WatchInv, UNCHANGED view
  PROVE  NoneBehind
BY SubHas, SameView, ZenonT(60) DEF NoneBehind

\* WatchFinish gives the observer its first view.
LEMMA WatchFinishForward ==
  ASSUME WatchInv, NEW u \in Subs, WatchFinish(u)
  PROVE  NoneBehind
<1>1. SubFine(sub[u], view[u], subSession(u), live, version)
  BY SubHas, ZenonT(60)
<1>2. sub[u].watch # "done"
  BY DEF WatchFinish
<1>3. view[u] = noView
  BY <1>1, <1>2, ZenonT(60) DEF SubFine
<1>4. \A y : NotBehind(view[u], y)
  BY <1>3 DEF NotBehind, noView, noSnapshot, emptySnapshot
<1>5. UNCHANGED view \/ view' = [view EXCEPT ![u] = newView(sub[u].got)]
  BY ZenonT(60) DEF WatchFinish
<1>6. QED
  BY <1>4, <1>5, OneView, AllSame, ZenonT(60)

\* NextLook applies an update.
LEMMA NextLookForward ==
  ASSUME WatchInv, NEW u \in Subs, NextLook(u)
  PROVE  NoneBehind
<1>1. \/ UNCHANGED view
      \/ /\ sub[u].pending # <<>>
         /\ view' = [view EXCEPT ![u] = Apply(view[u], Head(sub[u].pending))]
  BY ZenonT(60) DEF NextLook
<1>2. ASSUME sub[u].pending # <<>>
      PROVE  NotBehind(view[u], Apply(view[u], Head(sub[u].pending)))
  <2>1. sub[u] \in SubState /\ view[u] \in ViewState
    BY SubHas, ZenonT(60)
  <2>2. sub[u].pending \in Seq(Update)
    BY <2>1 DEF SubState
  <2>3. Head(sub[u].pending) \in Update
    BY <1>2, <2>2
  <2>4. QED
    BY <2>1, <2>3, ApplyNotBehind, ZenonT(60)
<1>3. QED
  BY <1>1, <1>2, OneView, AllSame, ZenonT(60)

\* ResnapshotFinish gives the observer a view no older than the one it has.
LEMMA ResnapshotForward ==
  ASSUME WatchInv, NEW u \in Subs, ResnapshotFinish(u)
  PROVE  NoneBehind
<1> DEFINE got == sub[u].got
           m == [sub[u] EXCEPT !.resnap = "no", !.got = noSnapshot, !.base = noMark]
           snap == IF sub[u].snap.mark.rev > got.mark.rev THEN sub[u].snap ELSE got
<1>1. /\ sub[u] \in SubState /\ view[u] \in ViewState
      /\ SubFine(sub[u], view[u], subSession(u), live, version)
  BY SubHas, ZenonT(60)
<1>2. m.err = sub[u].err /\ m.snap = sub[u].snap
  BY <1>1 DEF SubState
<1> HIDE DEF m
<1>3. \/ UNCHANGED view
      \/ /\ sub[u].err = "none" /\ got.mark.store = sub[u].base.store
         /\ view' = [view EXCEPT ![u] = newView(snap)]
  BY <1>2, ZenonT(60) DEF ResnapshotFinish, m
<1>4. sub[u].resnap # "no"
  BY DEF ResnapshotFinish
<1>5. ASSUME sub[u].err = "none", got.mark.store = sub[u].base.store
      PROVE  NotBehind(view[u], newView(snap))
  <2>1. sub[u].ready
    BY <1>1, <1>4, ZenonT(60) DEF SubFine
  <2>2. /\ sub[u].base.store = sub[u].snap.mark.store
        /\ durableFits(view[u], sub[u].snap, sub[u].pending)
    BY <1>1, <1>4, <1>5, <2>1, ZenonT(60) DEF SubFine, Fits
  <2>3. /\ sub[u].snap \in Snapshot /\ got \in Snapshot
        /\ sub[u].snap.mark.rev \in Nat /\ got.mark.rev \in Nat
        /\ view[u].snap.mark.rev \in Nat
    BY <1>1 DEF SubState, ViewState, Snapshot, Watermark
  <2>4. /\ view[u].snap.mark.store = sub[u].snap.mark.store
        /\ \/ view[u].snap.mark.rev = sub[u].snap.mark.rev
           \/ view[u].snap.mark.rev < sub[u].snap.mark.rev
    BY <2>2, ZenonT(60) DEF durableFits
  <2>5. CASE sub[u].snap.mark.rev > got.mark.rev
    <3>1. snap = sub[u].snap
      BY <2>5, ZenonT(60)
    <3> HIDE DEF snap
    <3>2. sub[u].snap.mark.rev >= view[u].snap.mark.rev
      BY <2>3, <2>4
    <3>3. newView(snap).snap = sub[u].snap
      BY <2>3, <3>1, NewViewFits, ZenonT(60)
    <3>4. QED
      BY <2>4, <3>2, <3>3, ZenonT(60) DEF NotBehind
  <2>6. CASE ~(sub[u].snap.mark.rev > got.mark.rev)
    <3>1. snap = got
      BY <2>6, ZenonT(60)
    <3> HIDE DEF snap
    <3>2. got.mark.rev >= view[u].snap.mark.rev
      BY <2>3, <2>4, <2>6
    <3>3. newView(snap).snap = got
      BY <2>3, <3>1, NewViewFits, ZenonT(60)
    <3>4. got.mark.store = view[u].snap.mark.store
      BY <1>5, <2>2, <2>4, ZenonT(60)
    <3>5. QED
      BY <3>2, <3>3, <3>4, ZenonT(60) DEF NotBehind
  <2>7. QED
    BY <2>5, <2>6, ZenonT(60)
<1>6. QED
  BY <1>3, <1>5, OneView, AllSame, ZenonT(60)

\* No step puts an observer back: its view stays with one incarnation of the store
\* and its revision never falls, through polls, resnapshots that race them and
\* updates that were queued before (Apply, ResnapshotFinish, ErrResyncRequired).
THEOREM ViewsNeverGoBack == Spec => ViewNeverGoesBack
<1>1. ASSUME WatchInv, [Next]_vars
      PROVE  NoneBehind
  BY <1>1, ViewSteps, WatchFinishForward, NextLookForward, ResnapshotForward, AllSame, ZenonT(60)
<1>2. WatchInv => queueFitsView
  BY QueuesFit, ZenonT(60)
<1>3. WatchInv /\ [Next]_vars => WatchInv'
  BY NextInv, Zenon
<1>4. WatchInv /\ WatchInv' /\ queueFitsView' /\ [Next]_vars =>
        [/\ queueFitsView'
         /\ \A u \in Subs : view[u].snap.mark # noMark =>
              /\ view'[u].snap.mark.store = view[u].snap.mark.store
              /\ view'[u].snap.mark.rev >= view[u].snap.mark.rev]_vars
  BY <1>1, ZenonT(60) DEF NoneBehind, NotBehind
<1>5. QED
  BY <1>2, <1>3, <1>4, WatchInvariant, PTL DEF Spec, ViewNeverGoesBack
=============================================================================
