---------------------- MODULE WatchSubscriptionProofs -----------------------
(***************************************************************************)
(* One subscription of the watch service: its queue, the view its observer *)
(* has, and the texts retained for the runs.  The queue `fits' the view    *)
(* when applying it leads to what is retained now; the lemmas show that    *)
(* seeding, polling, applying and starting over keep it so.  What is said  *)
(* of a fold holds by the least prefix, or the least set of runs, for      *)
(* which it fails: there is none.                                          *)
(***************************************************************************)
EXTENDS WatchService, FiniteSetTheorems, TLAPS

\* A poller, an update, a subscription and a view.
PollerState ==
    [session : Sessions \cup {None},
     pc : {"free", "select", "revision", "need", "snapshot", "apply", "gone"},
     mark : Watermark, base : Watermark, rev : Watermark, need : BOOLEAN,
     read : Snapshot]

Update == [kind : {"durable"}, snap : Snapshot] \cup Overlay

SubState ==
    [group : Groups \cup {None}, watch : {"no", "reading", "read", "done"},
     got : Snapshot, ready : BOOLEAN, snap : Snapshot, pending : Seq(Update),
     err : {"none", "read", "resync", "closed"}, notify : BOOLEAN,
     next : {"looking", "waiting", "ended"}, resnap : {"no", "reading", "read"},
     base : Watermark]

ViewState == [snap : Snapshot, overlay : [Messages \cup {None} -> Overlay \cup {None}]]

\* A snapshot shows runs of session s only.
ofSession(snap, s) == \A r \in Runs : snap.run[r] # "none" => sessionOf[r] = s

-----------------------------------------------------------------------------
(* The texts lv, published up to version ver, seen through one message.    *)

kept(m, lv) == lv[runOf[m]] # None /\ lv[runOf[m]].msg = m

\* The version an overlay of message m would have now.
ceiling(m, lv, ver) == IF kept(m, lv) THEN lv[runOf[m]].ver ELSE ver

\* Overlay o says of message m what is retained for it.
tells(o, m, lv) ==
    IF kept(m, lv) /\ lv[runOf[m]].available
    THEN /\ o.kind = "live" /\ o.attempt = lv[runOf[m]].attempt
         /\ o.len = lv[runOf[m]].len
    ELSE o.kind = "unavailable"

\* Overlay o was published no later than now, and one of the current version
\* says what is retained now.
dated(o, lv, ver) ==
    o.msg # None => /\ o.run = runOf[o.msg]
                    /\ o.ver <= ceiling(o.msg, lv, ver)
                    /\ o.ver = ceiling(o.msg, lv, ver) => tells(o, o.msg, lv)

overlays(q) == {i \in DOMAIN q : q[i].kind # "durable"}

\* The snapshot of view v and the snapshot snap of its subscription, whose
\* queue is q, differ by the snapshot at the head of the queue.
durableFits(v, snap, q) ==
    IF overlays(q) = DOMAIN q THEN v.snap = snap
    ELSE /\ \A i \in DOMAIN q \ overlays(q) : i = 1 /\ q[i].snap = snap
         /\ v.snap.mark.store = snap.mark.store
         /\ v.snap.mark.rev < snap.mark.rev

\* Queued overlays are about different things, which snapshot snap shows open.
distinct(q) == \A i, j \in overlays(q) : sameOverlay(q[i], q[j]) => i = j

aimed(snap, q) ==
    \A i \in overlays(q) : /\ watchOverlayEligible(snap, q[i])
                           /\ q[i].msg # None => q[i].run = runOf[q[i].msg]

\* They say what is retained.
fresh(q, lv, ver) ==
    \A i \in overlays(q) : /\ dated(q[i], lv, ver)
                           /\ q[i].msg # None => tells(q[i], q[i].msg, lv)

shownFits(v, lv, ver) ==
    \A k \in Messages \cup {None} : v.overlay[k] # None =>
      /\ v.overlay[k].msg = k
      /\ watchOverlayEligible(v.snap, v.overlay[k])
      /\ dated(v.overlay[k], lv, ver)

\* Every open message has an overlay queued, or shown if no snapshot is queued;
\* and the overlay shown is no later than a queued one that contradicts it.
told(v, snap, q, lv) ==
    \A m \in Messages :
      /\ Eligible(snap, m) =>
           \/ \E i \in overlays(q) : q[i].msg = m
           \/ /\ overlays(q) = DOMAIN q
              /\ v.overlay[m] # None /\ tells(v.overlay[m], m, lv)
      /\ \A i \in overlays(q) :
           (q[i].msg = m /\ v.overlay[m] # None /\ v.overlay[m].ver >= q[i].ver)
             => tells(v.overlay[m], m, lv)

Fits(v, snap, q, lv, ver) ==
    /\ durableFits(v, snap, q) /\ distinct(q) /\ aimed(snap, q)
    /\ fresh(q, lv, ver) /\ shownFits(v, lv, ver) /\ told(v, snap, q, lv)

\* What holds of subscription m of session s, whose observer has view v, between
\* the steps of the calls made on it.
SubFine(m, v, s, lv, ver) ==
    /\ m.group = None => m = noSub
    /\ m.watch = "no" => m.group = None
    /\ m.group # None => /\ ofSession(m.got, s) /\ ofSession(m.snap, s)
                         /\ ofSession(v.snap, s)
    /\ m.ready => m.watch = "done"
    /\ (m.watch = "done" /\ m.err = "none") => m.ready
    /\ (m.err # "none" \/ ~m.ready) => m.pending = <<>> /\ m.snap = noSnapshot
    /\ (m.err = "none" /\ m.ready) => validSnapshot(m.snap)
    /\ m.watch # "done" => v = noView
    /\ m.resnap # "no" => m.ready
    /\ (m.resnap # "no" /\ m.err = "none") =>
         m.base.store = m.snap.mark.store /\ m.base.rev <= m.snap.mark.rev
    /\ (m.next = "waiting" /\ (m.pending # <<>> \/ m.err # "none")) => m.notify
    /\ (m.err = "none" /\ m.ready) =>
         /\ Fits(v, m.snap, m.pending, lv, ver)
         /\ Len(m.pending) <= PendingUpdates

-----------------------------------------------------------------------------
(* Folds.                                                                  *)

\* A set of naturals that is not empty has a least element; what is said below of
\* every length of a queue and of every set of runs is proved by the least
\* counterexample.
LEMMA LeastNatural ==
  ASSUME NEW T \in SUBSET Nat, T # {}
  PROVE  \E n \in T : \A k \in T : n <= k
<1>1. PICK n \in T : \A k \in T : ~(<<k, n>> \in OpToRel(<, Nat))
  BY WFMin, NatLessThanWellFounded, Zenon
<1>2. ASSUME NEW k \in T
      PROVE  n <= k
  <2>1. <<k, n>> \notin {ss \in Nat \X Nat : ss[1] < ss[2]}
    BY <1>1, Zenon DEF OpToRel
  <2>2. ~(k < n)
    BY <2>1
  <2>3. QED
    BY <2>2
<1>3. QED
  BY <1>2, Zenon

\* it folds F over the subsets of S, the element c[s] of a subset s first.
IsFold(it, S, base, F, c) ==
    it = [s \in SUBSET S |-> IF s = {} THEN base
            ELSE F[<<it[s \ {c[s]}], c[s]>>]]

\* A function that folds F over the subsets of a finite set exists: the one that
\* the folds of the model choose.
LEMMA FoldExists ==
  ASSUME NEW S, IsFiniteSet(S), NEW V, NEW base \in V,
         NEW F \in [V \X S -> V], NEW c,
         \A s \in SUBSET S : s # {} => c[s] \in s
  PROVE  \E it \in [SUBSET S -> V] : IsFold(it, S, base, F, c)
<1> DEFINE Upto(n) == {s \in SUBSET S : Cardinality(s) <= n}
           Good(n) == \E it \in [Upto(n) -> V] :
                        it = [s \in Upto(n) |-> IF s = {} THEN base
                                ELSE F[<<it[s \ {c[s]}], c[s]>>]]
           Bad == {n \in Nat : ~Good(n)}
<1>1. Good(0)
  <2> DEFINE g == [s \in Upto(0) |-> base]
  <2>1. \A s \in Upto(0) : s = {}
    BY FS_EmptySet, FS_Subset, FS_CardinalityType
  <2>2. g \in [Upto(0) -> V]
    OBVIOUS
  <2>3. g = [s \in Upto(0) |-> IF s = {} THEN base ELSE F[<<g[s \ {c[s]}], c[s]>>]]
    BY <2>1
  <2>4. QED
    BY Zenon, <2>2, <2>3
<1>2. ASSUME NEW n \in Nat, n # 0, Good(n - 1)
      PROVE  Good(n)
  <2>1. PICK f \in [Upto(n - 1) -> V] :
               f = [s \in Upto(n - 1) |-> IF s = {} THEN base
                      ELSE F[<<f[s \ {c[s]}], c[s]>>]]
    BY Zenon, <1>2
  <2> DEFINE g == [s \in Upto(n) |-> IF s = {} THEN base
                     ELSE F[<<f[s \ {c[s]}], c[s]>>]]
  <2>2. ASSUME NEW s \in Upto(n), s # {}
        PROVE  /\ s \ {c[s]} \in Upto(n - 1) /\ c[s] \in S
    <3>1. IsFiniteSet(s) /\ c[s] \in s
      <4>1. s \in SUBSET S
        BY Zenon
      <4>2. IsFiniteSet(s)
        BY <4>1, FS_Subset, Zenon
      <4>3. QED
        BY <4>1, <4>2, <2>2, Zenon
    <3>2. Cardinality(s \ {c[s]}) = Cardinality(s) - 1 /\ Cardinality(s) \in Nat
      BY Zenon, <3>1, FS_RemoveElement, FS_CardinalityType
    <3>3. QED
      BY <3>1, <3>2, <2>2
  <2>3. \A s \in Upto(n - 1) : g[s] = f[s] /\ s \in Upto(n)
    <3>1. \A s \in Upto(n - 1) : s \in Upto(n)
      BY FS_CardinalityType, FS_Subset
    <3>2. QED
      BY Zenon, <3>1, <2>1
  <2>4. g \in [Upto(n) -> V]
    BY Zenon, <2>2, <2>1
  <2>5. g = [s \in Upto(n) |-> IF s = {} THEN base ELSE F[<<g[s \ {c[s]}], c[s]>>]]
    BY Zenon, <2>2, <2>3
  <2>6. QED
    BY Zenon, <2>4, <2>5
<1> HIDE DEF Good
<1>3. Bad = {}
  <2>1. SUFFICES ASSUME Bad # {} PROVE FALSE
    OBVIOUS
  <2>2. PICK n \in Bad : \A k \in Bad : n <= k
    BY Zenon, <2>1, LeastNatural
  <2>3. n # 0 /\ n - 1 \in Nat
    BY <1>1
  <2>4. n - 1 \notin Bad
    BY <2>2, <2>3
  <2>5. QED
    BY <2>3, <2>4, <1>2
<1>4. Good(Cardinality(S)) /\ Upto(Cardinality(S)) = SUBSET S
  <2>1. Cardinality(S) \in Nat
    BY FS_CardinalityType
  <2>2. \A s \in SUBSET S : Cardinality(s) <= Cardinality(S)
    BY FS_Subset
  <2>3. QED
    BY <1>3, <2>1, <2>2
<1> HIDE DEF Upto
<1>5. PICK it \in [Upto(Cardinality(S)) -> V] :
             it = [s \in Upto(Cardinality(S)) |-> IF s = {} THEN base
                     ELSE F[<<it[s \ {c[s]}], c[s]>>]]
  BY <1>4, Zenon DEF Good
<1>6. QED
  BY <1>4, <1>5, ZenonT(60) DEF IsFold

\* FoldLeft takes the elements of a queue from its last index down.
LEMMA MaxInterval ==
  ASSUME NEW i \in Nat, i # 0
  PROVE  Max(1..i) = i /\ (1..i) \ {i} = 1..(i - 1)
<1>1. \E x \in 1..i : \A y \in 1..i : x >= y
  OBVIOUS
<1>2. Max(1..i) \in 1..i /\ \A y \in 1..i : Max(1..i) >= y
  BY <1>1 DEF Max
<1>3. QED
  BY <1>2

\* The greatest of some indices is one of them.
LEMMA MaxInside ==
  ASSUME NEW n \in Nat, NEW s \in SUBSET (1..n), s # {}
  PROVE  Max(s) \in s
<1> DEFINE T == {k \in Nat : \E x \in s : k = n - x}
<1>1. T \in SUBSET Nat /\ T # {}
  <2>1. PICK x \in s : TRUE
    BY Zenon
  <2>2. n - x \in T
    BY <2>1
  <2>3. QED
    BY Zenon, <2>2
<1>2. PICK k \in T : \A j \in T : k <= j
  BY Zenon, <1>1, LeastNatural
<1>3. PICK x \in s : k = n - x
  OBVIOUS
<1>4. ASSUME NEW y \in s PROVE x >= y
  <2>1. n - y \in T
    OBVIOUS
  <2>2. k <= n - y
    BY <1>2, <2>1
  <2>3. x \in 1..n /\ y \in 1..n
    OBVIOUS
  <2>4. QED
    BY <2>2, <2>3, <1>3
<1>5. \E z \in s : \A y \in s : z >= y
  BY <1>4
<1>6. QED
  BY <1>5, Zenon DEF Max

\* Each update of q takes a view of G[i - 1] to a view of G[i].
Along(G, q) == \A i \in 1..Len(q) : \A x \in G[i - 1] \cap ViewState :
                 Apply(x, q[i]) \in G[i]

\* The bridge keeps its view well-formed (Apply).
LEMMA ApplyType ==
  ASSUME NEW v \in ViewState, NEW u \in Update
  PROVE  Apply(v, u) \in ViewState
<1>1. CASE u.kind = "durable"
  BY <1>1 DEF Apply, ViewState, Update, Overlay
<1>2. CASE u.kind # "durable"
  BY <1>2 DEF Apply, ViewState, Update, Overlay, refuses
<1>3. QED
  BY <1>1, <1>2

\* Applying a whole queue: what every update carries from one set of views to the
\* next holds of the view at the end (Apply, FoldLeft).
LEMMA FoldOfUpdates ==
  ASSUME NEW v \in ViewState, NEW q \in Seq(Update), NEW G, v \in G[0], Along(G, q)
  PROVE  FoldLeft(Apply, v, q) \in G[Len(q)]
<1> DEFINE n == Len(q)
           Is(f) == f = [s \in SUBSET (DOMAIN q) |-> IF s = {} THEN v
                           ELSE Apply(f[s \ {Max(s)}], q[Max(s)])]
<1>0. n \in Nat /\ DOMAIN q = 1..n
  OBVIOUS
<1>1. \E f : Is(f)
  <2> DEFINE F == [p \in ViewState \X (1..n) |-> Apply(p[1], q[p[2]])]
             c == [s \in SUBSET (1..n) |-> Max(s)]
  <2>1. F \in [ViewState \X (1..n) -> ViewState]
    <3>1. ASSUME NEW p \in ViewState \X (1..n)
          PROVE  Apply(p[1], q[p[2]]) \in ViewState
      BY <1>0, ApplyType
    <3>2. QED
      BY <3>1
  <2>2. ASSUME NEW s \in SUBSET (1..n), s # {}
        PROVE  c[s] = Max(s) /\ c[s] \in s
    BY Zenon, <1>0, <2>2, MaxInside
  <2>3. IsFiniteSet(1..n)
    BY <1>0, FS_Interval
  <2> HIDE DEF F, c
  <2>4. PICK it \in [SUBSET (1..n) -> ViewState] : IsFold(it, 1..n, v, F, c)
    BY Zenon, <2>1, <2>2, <2>3, FoldExists
  <2>5. ASSUME NEW s \in SUBSET (1..n), s # {}
        PROVE  F[<<it[s \ {c[s]}], c[s]>>] = Apply(it[s \ {Max(s)}], q[Max(s)])
    <3>1. c[s] = Max(s) /\ Max(s) \in 1..n
      BY Zenon, <2>2, <2>5
    <3>2. it[s \ {Max(s)}] \in ViewState
      BY <2>4
    <3>3. QED
      BY <3>1, <3>2 DEF F
  <2>6. it = [s \in SUBSET (DOMAIN q) |-> IF s = {} THEN v
                ELSE Apply(it[s \ {Max(s)}], q[Max(s)])]
    BY Zenon, <2>4, <2>5, <1>0 DEF IsFold
  <2>7. QED
    BY Zenon, <2>6
<1>2. PICK f : Is(f) /\ FoldLeft(Apply, v, q) = f[DOMAIN q]
  <2>1. Is(CHOOSE f : Is(f))
    BY Zenon, <1>1
  <2>2. FoldLeft(Apply, v, q) = (CHOOSE f : Is(f))[DOMAIN q]
    BY DEF FoldLeft, MapThenFoldSet
  <2>3. QED
    BY Zenon, <2>1, <2>2
<1> DEFINE Bad == {i \in 0..n : f[1..i] \notin G[i] \cap ViewState}
<1>3. Bad = {}
  <2>1. SUFFICES ASSUME Bad # {} PROVE FALSE
    OBVIOUS
  <2>2. PICK i \in Bad : \A k \in Bad : i <= k
    <3>1. Bad \in SUBSET Nat
      BY <1>0
    <3>2. QED
      BY <2>1, <3>1, LeastNatural, Zenon
  <2>3. f[1..0] = v
    BY <1>0, <1>2
  <2>4. i # 0 /\ i \in Nat /\ i \in 1..n
    BY <2>3, <1>0
  <2>5. f[1..(i - 1)] \in G[i - 1] \cap ViewState
    BY <2>2, <2>4
  <2>6. f[1..i] = Apply(f[1..(i - 1)], q[i])
    <3>1. Max(1..i) = i /\ (1..i) \ {i} = 1..(i - 1)
      BY <2>4, MaxInterval
    <3>2. 1..i \in SUBSET (DOMAIN q) /\ 1..i # {}
      <4>1. \A k \in 1..i : k \in 1..n
        BY <2>4, <1>0
      <4>2. 1 \in 1..i
        BY <2>4
      <4>3. QED
        BY <4>1, <4>2, <1>0, Zenon
    <3>3. QED
      BY Zenon, <1>2, <3>1, <3>2
  <2>7. Apply(f[1..(i - 1)], q[i]) \in ViewState
    BY <2>4, <2>5, <1>0, ApplyType
  <2>8. QED
    BY <2>4, <2>5, <2>6, <2>7 DEF Along
<1>4. n \in 0..n
  BY <1>0
<1>5. f[1..n] \in G[n] \cap ViewState
  BY <1>3, <1>4, Zenon
<1>6. QED
  BY <1>0, <1>2, <1>5, Zenon

\* The first of some indices is one of them.
LEMMA MinInside ==
  ASSUME NEW s \in SUBSET Nat, s # {}
  PROVE  Min(s) \in s
<1>1. \E x \in s : \A y \in s : x <= y
  BY LeastNatural, Zenon
<1>2. QED
  BY <1>1, Zenon DEF Min

\* enqueue overwrites one element of the queue and leaves the others.
LEMMA ReplaceIn ==
  ASSUME NEW q \in Seq(Update), NEW i \in DOMAIN q, NEW x \in Update
  PROVE  /\ ReplaceAt(q, i, x) \in Seq(Update)
         /\ Len(ReplaceAt(q, i, x)) = Len(q)
         /\ ReplaceAt(q, i, x)[i] = x
         /\ \A j \in DOMAIN q : j # i => ReplaceAt(q, i, x)[j] = q[j]
BY DEF ReplaceAt

\* enqueue appends one element to the queue and leaves the others.
LEMMA AppendIn ==
  ASSUME NEW q \in Seq(Update), NEW x \in Update
  PROVE  /\ Append(q, x) \in Seq(Update)
         /\ Len(Append(q, x)) = Len(q) + 1
         /\ Append(q, x)[Len(q) + 1] = x
         /\ \A j \in DOMAIN q : Append(q, x)[j] = q[j]
OBVIOUS

\* terminateLocked keeps a subscription well-formed.
LEMMA TerminatedType ==
  ASSUME NEW m \in SubState, NEW e \in {"read", "resync", "closed"}
  PROVE  terminated(m, e) \in SubState
<1>1. noSnapshot \in Snapshot /\ <<>> \in Seq(Update)
  BY WatchOptions DEF noSnapshot, emptySnapshot, noMark, Snapshot, Watermark, RunState, MessageState
<1>2. QED
  BY ZenonT(60), <1>1 DEF terminated, SubState

\* enqueue keeps a subscription well-formed.
LEMMA EnqueuedType ==
  ASSUME NEW m \in SubState, NEW u \in Update
  PROVE  enqueued(m, u) \in SubState
<1> DEFINE at == {i \in DOMAIN m.pending : sameOverlay(m.pending[i], u)}
<1>1. m.pending \in Seq(Update)
  BY DEF SubState
<1>2. CASE m.err # "none" \/ ~m.ready
  BY <1>2, Zenon DEF enqueued
<1>3. CASE m.err = "none" /\ m.ready /\ at # {}
  <2>1. Min(at) \in at
    <3>1. at \in SUBSET Nat
      BY <1>1
    <3>2. QED
      BY <1>3, <3>1, MinInside, Zenon
  <2>2. ReplaceAt(m.pending, Min(at), u) \in Seq(Update)
    BY <1>1, <2>1, ReplaceIn
  <2>3. enqueued(m, u) = [m EXCEPT !.pending = ReplaceAt(m.pending, Min(at), u),
                                   !.notify = TRUE]
    BY <1>3, Zenon DEF enqueued
  <2>4. QED
    BY ZenonT(60), <2>2, <2>3 DEF SubState
<1>4. CASE m.err = "none" /\ m.ready /\ at = {} /\ Len(m.pending) >= PendingUpdates
  <2>1. enqueued(m, u) = terminated(m, "resync")
    BY <1>4, Zenon DEF enqueued
  <2>2. QED
    BY <2>1, TerminatedType, Zenon
<1>5. CASE m.err = "none" /\ m.ready /\ at = {} /\ ~(Len(m.pending) >= PendingUpdates)
  <2>1. enqueued(m, u) = [m EXCEPT !.pending = Append(m.pending, u), !.notify = TRUE]
    BY <1>5, Zenon DEF enqueued
  <2>2. Append(m.pending, u) \in Seq(Update)
    BY <1>1, AppendIn, Zenon
  <2>3. QED
    BY ZenonT(60), <2>1, <2>2 DEF SubState
<1>6. QED
  BY <1>2, <1>3, <1>4, <1>5, Zenon

\* Each overlay of q, when it is queued, takes a subscription of G[i - 1] to one of
\* G[i].
AlongQueue(G, q) == \A i \in 1..Len(q) : \A x \in G[i - 1] \cap SubState :
                      enqueued(x, q[i]) \in G[i]

\* Queueing several overlays: what every enqueue carries from one set of
\* subscriptions to the next holds of the subscription at the end.
LEMMA FoldOfEnqueues ==
  ASSUME NEW m \in SubState, NEW q \in Seq(Update), NEW G, m \in G[0], AlongQueue(G, q)
  PROVE  FoldLeft(enqueued, m, q) \in G[Len(q)] \cap SubState
<1> DEFINE n == Len(q)
           Is(f) == f = [s \in SUBSET (DOMAIN q) |-> IF s = {} THEN m
                           ELSE enqueued(f[s \ {Max(s)}], q[Max(s)])]
<1>0. n \in Nat /\ DOMAIN q = 1..n
  OBVIOUS
<1>1. \E f : Is(f)
  <2> DEFINE F == [p \in SubState \X (1..n) |-> enqueued(p[1], q[p[2]])]
             c == [s \in SUBSET (1..n) |-> Max(s)]
  <2>1. F \in [SubState \X (1..n) -> SubState]
    <3>1. ASSUME NEW p \in SubState \X (1..n)
          PROVE  enqueued(p[1], q[p[2]]) \in SubState
      BY <1>0, EnqueuedType
    <3>2. QED
      BY <3>1
  <2>2. ASSUME NEW s \in SUBSET (1..n), s # {}
        PROVE  c[s] = Max(s) /\ c[s] \in s
    BY ZenonT(60), <1>0, <2>2, MaxInside
  <2>3. IsFiniteSet(1..n)
    BY <1>0, FS_Interval
  <2> HIDE DEF F, c
  <2>4. PICK it \in [SUBSET (1..n) -> SubState] : IsFold(it, 1..n, m, F, c)
    BY ZenonT(60), <2>1, <2>2, <2>3, FoldExists
  <2>5. ASSUME NEW s \in SUBSET (1..n), s # {}
        PROVE  F[<<it[s \ {c[s]}], c[s]>>] = enqueued(it[s \ {Max(s)}], q[Max(s)])
    <3>1. c[s] = Max(s) /\ Max(s) \in 1..n
      BY ZenonT(60), <2>2, <2>5
    <3>2. it[s \ {Max(s)}] \in SubState
      BY <2>4
    <3>3. QED
      BY <3>1, <3>2 DEF F
  <2>6. it = [s \in SUBSET (DOMAIN q) |-> IF s = {} THEN m
                ELSE enqueued(it[s \ {Max(s)}], q[Max(s)])]
    BY ZenonT(60), <2>4, <2>5, <1>0 DEF IsFold
  <2>7. QED
    BY ZenonT(60), <2>6
<1>2. PICK f : Is(f) /\ FoldLeft(enqueued, m, q) = f[DOMAIN q]
  <2>1. Is(CHOOSE f : Is(f))
    BY ZenonT(60), <1>1
  <2>2. FoldLeft(enqueued, m, q) = (CHOOSE f : Is(f))[DOMAIN q]
    BY DEF FoldLeft, MapThenFoldSet
  <2>3. QED
    BY ZenonT(60), <2>1, <2>2
<1> DEFINE Bad == {i \in 0..n : f[1..i] \notin G[i] \cap SubState}
<1>3. Bad = {}
  <2>1. SUFFICES ASSUME Bad # {} PROVE FALSE
    OBVIOUS
  <2>2. PICK i \in Bad : \A k \in Bad : i <= k
    <3>1. Bad \in SUBSET Nat
      BY <1>0
    <3>2. QED
      BY <2>1, <3>1, LeastNatural, Zenon
  <2>3. f[1..0] = m
    BY <1>0, <1>2
  <2>4. i # 0 /\ i \in Nat /\ i \in 1..n
    BY <2>3, <1>0
  <2>5. f[1..(i - 1)] \in G[i - 1] \cap SubState
    BY <2>2, <2>4
  <2>6. f[1..i] = enqueued(f[1..(i - 1)], q[i])
    <3>1. Max(1..i) = i /\ (1..i) \ {i} = 1..(i - 1)
      BY <2>4, MaxInterval
    <3>2. 1..i \in SUBSET (DOMAIN q) /\ 1..i # {}
      <4>1. \A k \in 1..i : k \in 1..n
        BY <2>4, <1>0
      <4>2. 1 \in 1..i
        BY <2>4
      <4>3. QED
        BY <4>1, <4>2, <1>0, Zenon
    <3>3. QED
      BY ZenonT(60), <1>2, <3>1, <3>2
  <2>7. enqueued(f[1..(i - 1)], q[i]) \in SubState
    BY <2>4, <2>5, <1>0, EnqueuedType
  <2>8. QED
    BY <2>4, <2>5, <2>6, <2>7 DEF AlongQueue
<1>4. n \in 0..n
  BY <1>0
<1>5. f[1..n] \in G[n] \cap SubState
  BY <1>3, <1>4, Zenon
<1>6. QED
  BY <1>0, <1>2, <1>5, Zenon

-----------------------------------------------------------------------------
(* What a sequence of enqueues makes of a queue.                           *)

\* Queue z is queue p after the first i overlays of q were queued.
Merged(p, z, q, i) ==
    /\ \A j \in DOMAIN z :
         \/ \E k \in 1..i : z[j] = q[k] /\ (j \in DOMAIN p => sameOverlay(p[j], q[k]))
         \/ /\ j \in DOMAIN p /\ z[j] = p[j]
            /\ \A k \in 1..i : ~sameOverlay(p[j], q[k])
    /\ \A k \in 1..i : \E j \in DOMAIN z : z[j] = q[k]
    /\ distinct(z)

\* The calls made on a subscription are where they were.
sameCalls(x, m) ==
    /\ x.group = m.group /\ x.watch = m.watch /\ x.got = m.got /\ x.ready = m.ready
    /\ x.next = m.next /\ x.resnap = m.resnap /\ x.base = m.base

\* Subscription x is m after the first i overlays of q were queued.
After(m, x, q, i) ==
    /\ sameCalls(x, m)
    /\ (m.err # "none" \/ ~m.ready) => x = m
    /\ (m.err = "none" /\ m.ready) =>
         \/ /\ x.err = "resync" /\ x.pending = <<>> /\ x.snap = noSnapshot /\ x.notify
         \/ /\ x.err = "none" /\ x.snap = m.snap
            /\ Len(m.pending) <= Len(x.pending) /\ Len(x.pending) <= PendingUpdates
            /\ x.pending # m.pending => x.notify
            /\ m.notify => x.notify
            /\ Merged(m.pending, x.pending, q, i)

\* Overlays of different messages or runs.
different(q) == \A i, j \in DOMAIN q : sameOverlay(q[i], q[j]) => i = j

\* An overlay that replaces the queued one of the same message keeps the account
\* of what was merged (enqueue).
LEMMA MergedReplace ==
  ASSUME NEW p \in Seq(Update), NEW z \in Seq(Update), NEW q \in Seq(Overlay),
         NEW i \in Nat, i + 1 \in DOMAIN q, different(q), Len(p) <= Len(z),
         Merged(p, z, q, i), NEW a \in DOMAIN z, sameOverlay(z[a], q[i + 1])
  PROVE  Merged(p, ReplaceAt(z, a, q[i + 1]), q, i + 1)
<1> DEFINE y == ReplaceAt(z, a, q[i + 1])
<1>r. /\ y \in Seq(Update) /\ Len(y) = Len(z) /\ y[a] = q[i + 1]
      /\ \A j \in DOMAIN z : j # a => y[j] = z[j]
  <2>1. q[i + 1] \in Update
    BY DEF Update
  <2>2. QED
    BY <2>1, ReplaceIn, ZenonT(60)
<1> HIDE DEF y
<1> USE <1>r
<1>0. /\ DOMAIN y = DOMAIN z /\ \A j \in DOMAIN p : j \in DOMAIN z
      /\ \A k \in 1..(i + 1) : k \in 1..i \/ k = i + 1
      /\ \A k \in 1..i : k \in 1..(i + 1) /\ k # i + 1 /\ k \in DOMAIN q
      /\ i + 1 \in 1..(i + 1)
  OBVIOUS
<1>1. ASSUME NEW j \in DOMAIN y
      PROVE  \/ \E k \in 1..(i + 1) : /\ y[j] = q[k]
                                      /\ j \in DOMAIN p => sameOverlay(p[j], q[k])
             \/ /\ j \in DOMAIN p /\ y[j] = p[j]
                /\ \A k \in 1..(i + 1) : ~sameOverlay(p[j], q[k])
  <2>1. \/ \E k \in 1..i : z[j] = q[k] /\ (j \in DOMAIN p => sameOverlay(p[j], q[k]))
        \/ /\ j \in DOMAIN p /\ z[j] = p[j]
           /\ \A k \in 1..i : ~sameOverlay(p[j], q[k])
    BY <1>0, Zenon DEF Merged
  <2>2. CASE j = a
    <3>1. j \in DOMAIN p => sameOverlay(p[j], q[i + 1])
      BY <2>1, <2>2, Zenon DEF sameOverlay
    <3>2. QED
      BY <3>1, <2>2, <1>0, Zenon
  <2>3. CASE j # a
    <3>1. y[j] = z[j] /\ ~sameOverlay(z[j], q[i + 1])
      <4>1. sameOverlay(z[j], q[i + 1]) => sameOverlay(z[j], z[a])
        BY Zenon DEF sameOverlay
      <4>2. sameOverlay(z[j], z[a]) => j \in overlays(z) /\ a \in overlays(z)
        BY <1>0, Zenon DEF sameOverlay, overlays
      <4>3. QED
        BY <4>1, <4>2, <2>3, <1>0, Zenon DEF Merged, distinct
    <3>2. QED
      BY <3>1, <2>1, <1>0, Zenon
  <2>4. QED
    BY <2>2, <2>3, Zenon
<1>2. ASSUME NEW k \in 1..(i + 1)
      PROVE  \E j \in DOMAIN y : y[j] = q[k]
  <2>1. CASE k = i + 1
    BY <2>1, <1>0, Zenon
  <2>2. CASE k # i + 1
    <3>1. k \in 1..i
      BY <2>2, <1>0, Zenon
    <3>2. PICK j \in DOMAIN z : z[j] = q[k]
      BY <3>1, Zenon DEF Merged
    <3>3. j # a
      BY <3>1, <3>2, <1>0, Zenon DEF different
    <3>4. QED
      BY <3>2, <3>3, <1>0, Zenon
  <2>3. QED
    BY <2>1, <2>2, Zenon
<1>3. distinct(y)
  <2>1. SUFFICES ASSUME NEW j \in overlays(y), NEW l \in overlays(y),
                        sameOverlay(y[j], y[l])
                 PROVE  j = l
    BY Zenon DEF distinct
  <2>2. ASSUME NEW b \in DOMAIN z, y[b].kind # "durable"
        PROVE  b \in overlays(z) /\ sameOverlay(y[b], z[b]) /\ sameOverlay(z[b], y[b])
    BY <2>2, <1>0, Zenon DEF sameOverlay, overlays
  <2>3. /\ j \in overlays(z) /\ l \in overlays(z) /\ sameOverlay(z[j], y[j])
        /\ sameOverlay(y[l], z[l])
    BY <2>2, <1>0, Zenon DEF overlays
  <2>4. sameOverlay(z[j], z[l])
    BY <2>1, <2>3, Zenon DEF sameOverlay
  <2>5. QED
    BY <2>3, <2>4, Zenon DEF Merged, distinct
<1>4. QED
  BY <1>1, <1>2, <1>3, Zenon DEF Merged, y

\* So does an overlay appended because none of its message is queued (enqueue).
LEMMA MergedAppend ==
  ASSUME NEW p \in Seq(Update), NEW z \in Seq(Update), NEW q \in Seq(Overlay),
         NEW i \in Nat, i + 1 \in DOMAIN q, Len(p) <= Len(z),
         Merged(p, z, q, i), \A j \in DOMAIN z : ~sameOverlay(z[j], q[i + 1])
  PROVE  Merged(p, Append(z, q[i + 1]), q, i + 1)
<1> DEFINE n == Len(z) + 1
           y == Append(z, q[i + 1])
<1>r. /\ y \in Seq(Update) /\ Len(y) = Len(z) + 1 /\ y[Len(z) + 1] = q[i + 1]
      /\ \A j \in DOMAIN z : y[j] = z[j]
  <2>1. q[i + 1] \in Update
    BY DEF Update
  <2>2. QED
    BY <2>1, AppendIn, Zenon
<1> HIDE DEF y
<1> USE <1>r
<1>0. /\ \A j \in DOMAIN y : j \in DOMAIN z \/ j = n
      /\ \A j \in DOMAIN z : j \in DOMAIN y /\ j # n
      /\ n \in DOMAIN y /\ n \notin DOMAIN p
      /\ \A k \in 1..(i + 1) : k \in 1..i \/ k = i + 1
      /\ \A k \in 1..i : k \in 1..(i + 1)
      /\ i + 1 \in 1..(i + 1) /\ y[n] = q[i + 1]
  OBVIOUS
<1> HIDE DEF n
<1>1. ASSUME NEW j \in DOMAIN y
      PROVE  \/ \E k \in 1..(i + 1) : /\ y[j] = q[k]
                                      /\ j \in DOMAIN p => sameOverlay(p[j], q[k])
             \/ /\ j \in DOMAIN p /\ y[j] = p[j]
                /\ \A k \in 1..(i + 1) : ~sameOverlay(p[j], q[k])
  <2>1. CASE j = n
    BY <2>1, <1>0, Zenon
  <2>2. CASE j \in DOMAIN z
    <3>1. \/ \E k \in 1..i : z[j] = q[k] /\ (j \in DOMAIN p => sameOverlay(p[j], q[k]))
          \/ /\ j \in DOMAIN p /\ z[j] = p[j]
             /\ \A k \in 1..i : ~sameOverlay(p[j], q[k])
      BY <2>2, Zenon DEF Merged
    <3>2. y[j] = z[j] /\ ~sameOverlay(z[j], q[i + 1])
      BY <2>2, Zenon
    <3>3. QED
      BY <3>1, <3>2, <1>0, Zenon
  <2>3. QED
    BY <2>1, <2>2, <1>0, Zenon
<1>2. ASSUME NEW k \in 1..(i + 1)
      PROVE  \E j \in DOMAIN y : y[j] = q[k]
  <2>1. CASE k = i + 1
    BY <2>1, <1>0, Zenon
  <2>2. CASE k \in 1..i
    <3>1. PICK j \in DOMAIN z : z[j] = q[k]
      BY <2>2, Zenon DEF Merged
    <3>2. QED
      BY <3>1, <1>0, Zenon
  <2>3. QED
    BY <2>1, <2>2, <1>0, Zenon
<1>3. distinct(y)
  <2>1. SUFFICES ASSUME NEW j \in overlays(y), NEW l \in overlays(y),
                        sameOverlay(y[j], y[l])
                 PROVE  j = l
    BY Zenon DEF distinct
  <2>2. j \in DOMAIN y /\ l \in DOMAIN y
    BY Zenon DEF overlays
  <2>3. CASE j \in DOMAIN z /\ l \in DOMAIN z
    <3>1. j \in overlays(z) /\ l \in overlays(z) /\ sameOverlay(z[j], z[l])
      BY <2>1, <2>3, Zenon DEF overlays
    <3>2. QED
      BY <3>1, Zenon DEF Merged, distinct
  <2>4. CASE j = n /\ l \in DOMAIN z
    BY <2>1, <2>4, <1>0, Zenon DEF sameOverlay
  <2>5. CASE j \in DOMAIN z /\ l = n
    BY <2>1, <2>5, <1>0, Zenon DEF sameOverlay
  <2>6. QED
    BY <2>2, <2>3, <2>4, <2>5, <1>0, Zenon
<1>4. QED
  BY <1>1, <1>2, <1>3, Zenon DEF Merged, y

\* One more enqueue: the overlay is merged, or the queue was full and the
\* subscription ends with ErrResyncRequired.
LEMMA AfterStep ==
  ASSUME NEW m \in SubState, NEW x \in SubState, NEW q \in Seq(Overlay),
         NEW i \in Nat, i + 1 \in DOMAIN q, different(q), After(m, x, q, i)
  PROVE  After(m, enqueued(x, q[i + 1]), q, i + 1)
<1> DEFINE u == q[i + 1]
           at == {j \in DOMAIN x.pending : sameOverlay(x.pending[j], u)}
           y == enqueued(x, u)
<1>0. /\ m.pending \in Seq(Update) /\ x.pending \in Seq(Update)
      /\ u \in Overlay /\ u \in Update
  BY DEF SubState, Update
<1>1. CASE x.err # "none" \/ ~x.ready
  <2>1. y = x
    BY <1>1, Zenon DEF enqueued
  <2>2. (m.err = "none" /\ m.ready) => x.err # "none"
    BY <1>1, Zenon DEF After, sameCalls
  <2>3. After(m, x, q, i + 1)
    BY <2>2, Zenon DEF After
  <2>4. QED
    BY <2>1, <2>3, Zenon
<1>2. ASSUME x.err = "none", x.ready
      PROVE  /\ m.err = "none" /\ m.ready /\ x.snap = m.snap /\ sameCalls(x, m)
             /\ Len(m.pending) <= Len(x.pending) /\ Len(x.pending) <= PendingUpdates
             /\ m.notify => x.notify
             /\ Merged(m.pending, x.pending, q, i)
  BY <1>2 DEF After, sameCalls
<1>3. CASE x.err = "none" /\ x.ready /\ at # {}
  <2> DEFINE a == Min(at)
             r == ReplaceAt(x.pending, a, u)
  <2>1. a \in DOMAIN x.pending /\ sameOverlay(x.pending[a], u)
    <3>1. at \in SUBSET Nat
      BY <1>0
    <3>2. a \in at
      BY <1>3, <3>1, MinInside, Zenon
    <3>3. QED
      BY <3>2, Zenon
  <2>2. y = [x EXCEPT !.pending = r, !.notify = TRUE]
    BY <1>3, Zenon DEF enqueued
  <2> HIDE DEF a
  <2>3. /\ r \in Seq(Update) /\ Len(r) = Len(x.pending) /\ r[a] = u
        /\ \A j \in DOMAIN x.pending : j # a => r[j] = x.pending[j]
    BY <1>0, <2>1, ReplaceIn, ZenonT(60)
  <2>4. Merged(m.pending, r, q, i + 1)
    BY <1>0, <1>2, <1>3, <2>1, MergedReplace, ZenonT(30)
  <2> HIDE DEF r, at, y
  <2>5. /\ y.pending = r /\ y.notify /\ y.err = "none" /\ y.snap = x.snap
        /\ sameCalls(y, x)
    BY Zenon, <2>2, <1>3 DEF SubState, sameCalls
  <2>6. sameCalls(y, m)
    BY <2>5, <1>2, <1>3, Zenon DEF sameCalls
  <2>7. QED
    BY <2>3, <2>4, <2>5, <2>6, <1>2, <1>3, Zenon DEF After, y
<1>4. CASE x.err = "none" /\ x.ready /\ at = {} /\ Len(x.pending) >= PendingUpdates
  <2>1. y = terminated(x, "resync")
    BY <1>4, Zenon DEF enqueued
  <2> HIDE DEF y
  <2>2. /\ y.err = "resync" /\ y.pending = <<>> /\ y.snap = noSnapshot /\ y.notify
        /\ sameCalls(y, x)
    BY ZenonT(60), <2>1, <1>4 DEF terminated, SubState, sameCalls
  <2>3. sameCalls(y, m)
    BY <2>2, <1>2, <1>4, Zenon DEF sameCalls
  <2>4. QED
    BY <2>2, <2>3, <1>2, <1>4, Zenon DEF After, y
<1>5. CASE x.err = "none" /\ x.ready /\ at = {} /\ ~(Len(x.pending) >= PendingUpdates)
  <2> DEFINE r == Append(x.pending, u)
  <2>1. y = [x EXCEPT !.pending = r, !.notify = TRUE]
    BY <1>5, Zenon DEF enqueued
  <2>2. /\ r \in Seq(Update) /\ Len(r) = Len(x.pending) + 1
        /\ r[Len(x.pending) + 1] = u
        /\ \A j \in DOMAIN x.pending : r[j] = x.pending[j]
    BY <1>0, AppendIn, Zenon
  <2>3. \A j \in DOMAIN x.pending : ~sameOverlay(x.pending[j], u)
    BY <1>5, Zenon
  <2>4. Merged(m.pending, r, q, i + 1)
    BY <1>0, <1>2, <1>5, <2>3, MergedAppend, ZenonT(30)
  <2> HIDE DEF r, at, y
  <2>5. /\ y.pending = r /\ y.notify /\ y.err = "none" /\ y.snap = x.snap
        /\ sameCalls(y, x)
    BY ZenonT(60), <2>1, <1>5 DEF SubState, sameCalls
  <2>6. sameCalls(y, m)
    BY <2>5, <1>2, <1>5, Zenon DEF sameCalls
  <2>7. Len(m.pending) <= Len(r) /\ Len(r) <= PendingUpdates
    BY <1>0, <1>2, <1>5, <2>2, WatchOptions
  <2>8. QED
    BY <2>4, <2>5, <2>6, <2>7, <1>2, <1>5, Zenon DEF After, y
<1>6. QED
  BY <1>1, <1>3, <1>4, <1>5, Zenon

\* Before the first enqueue.
LEMMA AfterNone ==
  ASSUME NEW m \in SubState, NEW q, distinct(m.pending),
         Len(m.pending) <= PendingUpdates
  PROVE  After(m, m, q, 0)
<1>1. \A k \in 1..0 : FALSE
  OBVIOUS
<1>2. Merged(m.pending, m.pending, q, 0)
  BY <1>1, Zenon DEF Merged
<1>3. Len(m.pending) <= Len(m.pending)
  BY DEF SubState
<1>4. QED
  BY <1>2, <1>3, Zenon DEF After, sameCalls

\* After all of them (the loop of seedLocked).
LEMMA AfterAll ==
  ASSUME NEW m \in SubState, NEW q \in Seq(Overlay), different(q),
         distinct(m.pending), Len(m.pending) <= PendingUpdates
  PROVE  /\ FoldLeft(enqueued, m, q) \in SubState
         /\ After(m, FoldLeft(enqueued, m, q), q, Len(q))
<1> DEFINE G == [i \in 0..Len(q) |-> {x \in SubState : After(m, x, q, i)}]
<1>0. Len(q) \in Nat /\ DOMAIN q = 1..Len(q) /\ q \in Seq(Update)
  BY DEF Update
<1>1. m \in G[0]
  BY <1>0, AfterNone
<1>2. ASSUME NEW i \in 1..Len(q), NEW x \in G[i - 1] \cap SubState
      PROVE  enqueued(x, q[i]) \in G[i]
  <2>1. /\ i - 1 \in Nat /\ (i - 1) + 1 = i /\ i - 1 \in 0..Len(q) /\ i \in 0..Len(q)
        /\ i \in DOMAIN q
    BY <1>0
  <2>2. After(m, x, q, i - 1)
    BY <2>1
  <2>3. After(m, enqueued(x, q[i]), q, i)
    BY <2>1, <2>2, AfterStep
  <2>4. q[i] \in Update
    BY <1>0, <2>1
  <2>5. enqueued(x, q[i]) \in SubState
    BY <2>4, EnqueuedType
  <2>6. QED
    BY <2>1, <2>3, <2>5
<1> HIDE DEF G
<1>3. AlongQueue(G, q)
  BY <1>2 DEF AlongQueue
<1>4. FoldLeft(enqueued, m, q) \in G[Len(q)] \cap SubState
  BY <1>0, <1>1, <1>3, FoldOfEnqueues
<1>5. Len(q) \in 0..Len(q)
  BY <1>0
<1>6. QED
  BY <1>4, <1>5 DEF G

-----------------------------------------------------------------------------
(* What seedLocked queues.                                                 *)

\* SetToSeq lists a finite set, each element once.
LEMMA SeqOfSet ==
  ASSUME NEW S, IsFiniteSet(S)
  PROVE  /\ Cardinality(S) \in Nat
         /\ SetToSeq(S) \in [1..Cardinality(S) -> S]
         /\ \A i, j \in 1..Cardinality(S) : SetToSeq(S)[i] = SetToSeq(S)[j] => i = j
         /\ \A x \in S : \E i \in 1..Cardinality(S) : SetToSeq(S)[i] = x
<1> DEFINE n == Cardinality(S)
           f == SetToSeq(S)
<1>1. n \in Nat /\ ExistsBijection(1..n, S)
  BY FS_CardinalityType, Zenon
<1>2. PICK g \in [1..n -> S] : IsInjective(g)
  BY <1>1 DEF ExistsBijection, Bijection, Injection, Surjection, IsInjective
<1>3. f \in [1..n -> S] /\ IsInjective(f)
  BY <1>2, Zenon DEF SetToSeq
<1> HIDE DEF f
<1>4. \A i, j \in 1..n : f[i] = f[j] => i = j
  BY <1>3 DEF IsInjective
<1>5. f \in Injection(1..n, S)
  BY <1>3, <1>4 DEF Injection, IsInjective
<1>6. IsFiniteSet(1..n) /\ Cardinality(1..n) = n
  BY <1>1, FS_Interval
<1>7. f \in Surjection(1..n, S)
  BY <1>5, <1>6, FS_Injection
<1>8. \A x \in S : \E i \in 1..n : f[i] = x
  BY <1>7 DEF Surjection
<1>9. QED
  BY <1>1, <1>3, <1>4, <1>8, Zenon DEF f

\* The retained texts lv of the service, published up to version ver.
Retains(lv, ver) ==
    /\ lv \in [Runs -> Live \cup {None}]
    /\ \A r \in Runs : lv[r] # None =>
         /\ runOf[lv[r].msg] = r
         /\ lv[r].ver <= ver
         /\ ~lv[r].available => lv[r].len = 0

\* The overlay of a message tells what is retained for it, at the version of that
\* text (messageOverlay).
LEMMA MessageOverlayIs ==
  ASSUME NEW lv, NEW ver \in 0..MaxVersion, Retains(lv, ver), NEW m \in Messages
  PROVE  LET o == messageOverlay(m, lv, ver)
         IN  /\ o \in Overlay /\ o.kind # "durable" /\ o.msg = m /\ o.run = runOf[m]
             /\ o.ver = ceiling(m, lv, ver) /\ tells(o, m, lv)
<1> DEFINE r == runOf[m]
<1>0. r \in Runs /\ m # None /\ None \notin Live
  BY WatchIdentities, WatchData
<1>1. CASE lv[r] # None /\ lv[r].msg = m
  <2>1. lv[r] \in Live
    BY <1>0, <1>1 DEF Retains
  <2>2. ~lv[r].available => lv[r].len = 0
    BY <1>0, <1>1 DEF Retains
  <2>3. messageOverlay(m, lv, ver) =
          [kind |-> IF lv[r].available THEN "live" ELSE "unavailable",
           run |-> r, msg |-> m, attempt |-> lv[r].attempt,
           len |-> lv[r].len, ver |-> lv[r].ver]
    BY <1>1 DEF messageOverlay
  <2>4. QED
    BY <1>0, <1>1, <2>1, <2>2, <2>3 DEF Live, Overlay, ceiling, kept, tells
<1>2. CASE ~(lv[r] # None /\ lv[r].msg = m)
  <2>1. messageOverlay(m, lv, ver) =
          [kind |-> "unavailable", run |-> r, msg |-> m, attempt |-> None,
           len |-> 0, ver |-> ver]
    BY <1>2 DEF messageOverlay
  <2>2. QED
    BY <1>0, <1>2, <2>1 DEF Overlay, ceiling, kept, tells
<1>3. QED
  BY <1>1, <1>2, Zenon

\* The overlay of a run that shows no message (runOverlay).
LEMMA RunOverlayIs ==
  ASSUME NEW ver \in 0..MaxVersion, NEW r \in Runs
  PROVE  LET o == runOverlay(r, ver)
         IN  /\ o \in Overlay /\ o.kind # "durable" /\ o.msg = None /\ o.run = r
BY DEF runOverlay, Overlay

\* What seedLocked queues for a snapshot.
shown(snap) == {x \in Messages : Eligible(snap, x)}

bare(snap) == {r \in Runs : snap.run[r] = "active"
                              /\ \A x \in shown(snap) : runOf[x] # r}

\* q holds the overlays of what snapshot snap shows open, each once.
Seeds(q, snap, lv, ver) ==
    /\ q \in Seq(Overlay) /\ different(q)
    /\ \A i \in DOMAIN q : \/ \E x \in shown(snap) : q[i] = messageOverlay(x, lv, ver)
                           \/ \E r \in bare(snap) : q[i] = runOverlay(r, ver)
    /\ \A x \in shown(snap) : \E i \in DOMAIN q : q[i] = messageOverlay(x, lv, ver)
    /\ \A r \in bare(snap) : \E i \in DOMAIN q : q[i] = runOverlay(r, ver)

\* seedLocked queues the overlays of what the snapshot shows open, one by one.
LEMMA SeededBy ==
  ASSUME NEW m, NEW lv, NEW ver \in 0..MaxVersion, Retains(lv, ver)
  PROVE  \E q : Seeds(q, m.snap, lv, ver) /\ seedLocked(m, lv, ver) = FoldLeft(enqueued, m, q)
<1> DEFINE A == shown(m.snap)
           B == bare(m.snap)
           a == Cardinality(A)
           b == Cardinality(B)
           s == SetToSeq(A)
           t == SetToSeq(B)
           qa == [i \in 1..a |-> messageOverlay(s[i], lv, ver)]
           qb == [i \in 1..b |-> runOverlay(t[i], ver)]
           q == qa \o qb
<1>1. seedLocked(m, lv, ver) = FoldLeft(enqueued, m, q)
  BY Zenon DEF seedLocked, shown, bare
<1>2. IsFiniteSet(A) /\ IsFiniteSet(B)
  BY FS_Subset, WatchData DEF shown, bare
<1>3. /\ a \in Nat /\ s \in [1..a -> A] /\ \A i, j \in 1..a : s[i] = s[j] => i = j
      /\ \A x \in A : \E i \in 1..a : s[i] = x
  BY <1>2, SeqOfSet, Zenon
<1>4. /\ b \in Nat /\ t \in [1..b -> B] /\ \A i, j \in 1..b : t[i] = t[j] => i = j
      /\ \A x \in B : \E i \in 1..b : t[i] = x
  BY <1>2, SeqOfSet, Zenon
<1>5. A \subseteq Messages /\ B \subseteq Runs /\ \A x \in A : \A r \in B : runOf[x] # r
  BY DEF shown, bare
<1> HIDE DEF A, B, a, b, s, t
<1>q. /\ \A i \in 1..a : qa[i] = messageOverlay(s[i], lv, ver)
      /\ \A i \in 1..b : qb[i] = runOverlay(t[i], ver)
      /\ DOMAIN qa = 1..a /\ DOMAIN qb = 1..b
      /\ qa = [i \in 1..a |-> qa[i]] /\ qb = [i \in 1..b |-> qb[i]]
  OBVIOUS
<1> HIDE DEF qa, qb
<1>6. ASSUME NEW i \in 1..a
      PROVE  /\ qa[i] = messageOverlay(s[i], lv, ver) /\ s[i] \in A
             /\ qa[i] \in Overlay /\ qa[i].msg = s[i] /\ qa[i].run = runOf[s[i]]
  <2>1. s[i] \in A /\ s[i] \in Messages
    BY <1>3, <1>5
  <2>2. qa[i] = messageOverlay(s[i], lv, ver)
    BY <1>q, Zenon
  <2>3. /\ messageOverlay(s[i], lv, ver) \in Overlay
        /\ messageOverlay(s[i], lv, ver).msg = s[i]
        /\ messageOverlay(s[i], lv, ver).run = runOf[s[i]]
    BY <2>1, MessageOverlayIs, ZenonT(120)
  <2>4. QED
    BY <2>1, <2>2, <2>3, Zenon
<1>7. ASSUME NEW i \in 1..b
      PROVE  /\ qb[i] = runOverlay(t[i], ver) /\ t[i] \in B
             /\ qb[i] \in Overlay /\ qb[i].msg = None /\ qb[i].run = t[i]
  <2>1. t[i] \in B /\ t[i] \in Runs
    BY <1>4, <1>5
  <2>2. qb[i] = runOverlay(t[i], ver)
    BY <1>q, Zenon
  <2>3. /\ runOverlay(t[i], ver) \in Overlay
        /\ runOverlay(t[i], ver).msg = None
        /\ runOverlay(t[i], ver).run = t[i]
    BY <2>1, RunOverlayIs, ZenonT(30)
  <2>4. QED
    BY <2>1, <2>2, <2>3, Zenon
<1>8. qa \in Seq(Overlay) /\ Len(qa) = a
  BY <1>3, <1>6, <1>q
<1>9. qb \in Seq(Overlay) /\ Len(qb) = b
  BY <1>4, <1>7, <1>q
<1>10. /\ q \in Seq(Overlay) /\ DOMAIN q = 1..(a + b)
       /\ \A i \in 1..a : q[i] = qa[i]
       /\ \A i \in 1..b : q[a + i] = qb[i]
  BY <1>3, <1>4, <1>8, <1>9
<1>11. /\ \A i \in 1..(a + b) : i \in 1..a \/ \E j \in 1..b : i = a + j
       /\ \A i \in 1..a : i \in 1..(a + b)
       /\ \A j \in 1..b : a + j \in 1..(a + b)
  <2>1. ASSUME NEW i \in 1..(a + b), i \notin 1..a
        PROVE  \E j \in 1..b : i = a + j
    <3>1. i - a \in 1..b /\ i = a + (i - a)
      BY <1>3, <1>4, <2>1
    <3>2. QED
      BY <3>1, Zenon
  <2>2. QED
    BY <2>1, <1>3, <1>4
<1> HIDE DEF q
<1>12. ASSUME NEW i \in DOMAIN q
       PROVE  \/ \E x \in A : q[i] = messageOverlay(x, lv, ver)
              \/ \E r \in B : q[i] = runOverlay(r, ver)
  <2>1. CASE i \in 1..a
    BY <2>1, <1>6, <1>10, ZenonT(60)
  <2>2. CASE i \notin 1..a
    <3>1. PICK j \in 1..b : i = a + j
      BY <2>2, <1>10, <1>11, Zenon
    <3>2. q[i] = qb[j]
      BY <3>1, <1>10, Zenon
    <3>3. QED
      BY <3>2, <1>7, Zenon
  <2>3. QED
    BY <2>1, <2>2, Zenon
<1>13. ASSUME NEW x \in A
       PROVE  \E i \in DOMAIN q : q[i] = messageOverlay(x, lv, ver)
  <2>1. PICK i \in 1..a : s[i] = x
    BY <1>3, Zenon
  <2>2. q[i] = messageOverlay(x, lv, ver) /\ i \in DOMAIN q
    BY <2>1, <1>6, <1>10, <1>11, Zenon
  <2>3. QED
    BY <2>2, Zenon
<1>14. ASSUME NEW r \in B
       PROVE  \E i \in DOMAIN q : q[i] = runOverlay(r, ver)
  <2>1. PICK i \in 1..b : t[i] = r
    BY <1>4, Zenon
  <2>2. q[a + i] = qb[i] /\ a + i \in DOMAIN q
    BY <1>10, <1>11, Zenon
  <2>3. QED
    BY <2>1, <2>2, <1>7, Zenon
<1>15. different(q)
  <2>1. SUFFICES ASSUME NEW i \in DOMAIN q, NEW j \in DOMAIN q,
                        q[i].msg = q[j].msg, q[i].run = q[j].run
                 PROVE  i = j
    BY Zenon DEF different, sameOverlay
  <2>2. \A k \in 1..a : q[k].msg = s[k] /\ s[k] # None
    <3>1. \A x \in A : x # None
      BY <1>5, WatchIdentities
    <3>2. QED
      BY <3>1, <1>6, <1>10, Zenon
  <2>3. ASSUME NEW k \in DOMAIN q, k \notin 1..a
        PROVE  \E l \in 1..b : k = a + l /\ q[k].msg = None /\ q[k].run = t[l]
    <3>1. PICK l \in 1..b : k = a + l
      BY <2>3, <1>10, <1>11, Zenon
    <3>2. q[k] = qb[l]
      BY <3>1, <1>10, Zenon
    <3>3. QED
      BY <3>1, <3>2, <1>7, Zenon
  <2>4. CASE i \in 1..a /\ j \in 1..a
    BY <2>1, <2>2, <2>4, <1>3
  <2>5. CASE i \in 1..a /\ j \notin 1..a
    BY <2>1, <2>2, <2>3, <2>5, Zenon
  <2>6. CASE i \notin 1..a /\ j \in 1..a
    BY <2>1, <2>2, <2>3, <2>6, Zenon
  <2>7. CASE i \notin 1..a /\ j \notin 1..a
    <3>1. PICK k \in 1..b : i = a + k /\ q[i].run = t[k]
      BY <2>3, <2>7, Zenon
    <3>2. PICK l \in 1..b : j = a + l /\ q[j].run = t[l]
      BY <2>3, <2>7, Zenon
    <3>3. k = l
      BY <2>1, <3>1, <3>2, <1>4
    <3>4. QED
      BY <3>1, <3>2, <3>3, Zenon
  <2>8. QED
    BY <2>4, <2>5, <2>6, <2>7, Zenon
<1>16. Seeds(q, m.snap, lv, ver)
  BY <1>10, <1>12, <1>13, <1>14, <1>15, Zenon DEF Seeds, A, B
<1>17. QED
  BY <1>1, <1>16, Zenon DEF q, qa, qb, a, b, s, t, A, B

-----------------------------------------------------------------------------
(* A seeded queue fits the view.                                           *)

\* What is seeded is open in the snapshot and tells what is retained.
LEMMA SeedOpen ==
  ASSUME NEW snap, NEW lv, NEW ver \in 0..MaxVersion, Retains(lv, ver), NEW q,
         Seeds(q, snap, lv, ver), NEW k \in DOMAIN q
  PROVE  /\ q[k].kind # "durable"
         /\ watchOverlayEligible(snap, q[k])
         /\ q[k].msg # None => /\ q[k].msg \in Messages /\ q[k].run = runOf[q[k].msg]
                               /\ q[k].ver = ceiling(q[k].msg, lv, ver)
                               /\ tells(q[k], q[k].msg, lv)
<1>1. CASE \E x \in shown(snap) : q[k] = messageOverlay(x, lv, ver)
  <2>1. PICK x \in shown(snap) : q[k] = messageOverlay(x, lv, ver)
    BY <1>1, Zenon
  <2>2. x \in Messages /\ Eligible(snap, x) /\ x # None
    BY WatchIdentities DEF shown
  <2>3. /\ q[k].kind # "durable" /\ q[k].msg = x /\ q[k].run = runOf[x]
        /\ q[k].ver = ceiling(x, lv, ver) /\ tells(q[k], x, lv)
    <3>1. LET o == messageOverlay(x, lv, ver)
          IN  /\ o \in Overlay /\ o.kind # "durable" /\ o.msg = x /\ o.run = runOf[x]
              /\ o.ver = ceiling(x, lv, ver) /\ tells(o, x, lv)
      BY <2>2, MessageOverlayIs, Zenon
    <3>2. QED
      BY <2>1, <3>1, Zenon
  <2>4. watchOverlayEligible(snap, q[k])
    BY <2>2, <2>3, Zenon DEF watchOverlayEligible
  <2>5. QED
    BY <2>2, <2>3, <2>4, Zenon
<1>2. CASE \E r \in bare(snap) : q[k] = runOverlay(r, ver)
  <2>1. PICK r \in bare(snap) : q[k] = runOverlay(r, ver)
    BY <1>2, Zenon
  <2>2. /\ r \in Runs /\ snap.run[r] = "active" /\ \A x \in shown(snap) : runOf[x] # r
    BY Zenon DEF bare
  <2>3. q[k].kind # "durable" /\ q[k].msg = None /\ q[k].run = r
    BY <2>1, <2>2, RunOverlayIs, ZenonT(60)
  <2>4. \A m \in Messages : runOf[m] = r => snap.msg[m] # "open"
    BY <2>2, Zenon DEF shown, Eligible
  <2>5. watchOverlayEligible(snap, q[k])
    BY <2>2, <2>3, <2>4, Zenon DEF watchOverlayEligible
  <2>6. QED
    BY <2>3, <2>5, Zenon
<1>3. QED
  BY <1>1, <1>2, Zenon DEF Seeds

\* Every overlay of something open in the snapshot is overwritten by a seed.
LEMMA SeedReaches ==
  ASSUME NEW snap, NEW lv, NEW ver \in 0..MaxVersion, Retains(lv, ver), NEW q,
         Seeds(q, snap, lv, ver), NEW o \in Overlay, watchOverlayEligible(snap, o),
         o.msg # None => o.run = runOf[o.msg]
  PROVE  \E k \in DOMAIN q : sameOverlay(o, q[k])
<1>0. o.kind # "durable" /\ o.run \in Runs /\ o.msg \in Messages \cup {None}
  BY DEF Overlay
<1>1. CASE o.msg # None
  <2>1. o.msg \in shown(snap)
    BY <1>0, <1>1, Zenon DEF shown, watchOverlayEligible
  <2>2. PICK k \in DOMAIN q : q[k] = messageOverlay(o.msg, lv, ver)
    BY <2>1, Zenon DEF Seeds
  <2>3. q[k].kind # "durable" /\ q[k].msg = o.msg /\ q[k].run = runOf[o.msg]
    <3>1. o.msg \in Messages
      BY <1>0, <1>1, Zenon
    <3>2. LET x == messageOverlay(o.msg, lv, ver)
          IN  /\ x \in Overlay /\ x.kind # "durable" /\ x.msg = o.msg /\ x.run = runOf[o.msg]
              /\ x.ver = ceiling(o.msg, lv, ver) /\ tells(x, o.msg, lv)
      BY <3>1, MessageOverlayIs, Zenon
    <3>3. QED
      BY <2>2, <3>2, Zenon
  <2>4. QED
    BY <2>3, <1>0, <1>1, Zenon DEF sameOverlay
<1>2. CASE o.msg = None
  <2>1. o.run \in bare(snap)
    <3>1. /\ snap.run[o.run] = "active"
          /\ \A m \in Messages : runOf[m] = o.run => snap.msg[m] # "open"
      BY <1>2, Zenon DEF watchOverlayEligible
    <3>2. \A x \in shown(snap) : runOf[x] # o.run
      BY <3>1, Zenon DEF shown, Eligible
    <3>3. QED
      BY <3>1, <3>2, <1>0, Zenon DEF bare
  <2>2. PICK k \in DOMAIN q : q[k] = runOverlay(o.run, ver)
    BY <2>1, Zenon DEF Seeds
  <2>3. q[k].kind # "durable" /\ q[k].msg = None /\ q[k].run = o.run
    BY <2>2, <1>0, RunOverlayIs, ZenonT(120)
  <2>4. QED
    BY <2>3, <1>0, <1>2, Zenon DEF sameOverlay
<1>3. QED
  BY <1>1, <1>2, Zenon

\* No text has a version that the service has not reached.
LEMMA CeilingNat ==
  ASSUME NEW lv, NEW ver \in 0..MaxVersion, Retains(lv, ver), NEW m \in Messages
  PROVE  ceiling(m, lv, ver) \in Nat /\ ceiling(m, lv, ver) <= ver
<1>0. runOf[m] \in Runs /\ MaxVersion \in Nat
  BY WatchIdentities, WatchOptions
<1>1. CASE kept(m, lv)
  <2>1. lv[runOf[m]] \in Live /\ lv[runOf[m]].ver <= ver
    BY <1>0, <1>1 DEF Retains, kept
  <2>2. lv[runOf[m]].ver \in Nat
    BY <1>0, <2>1 DEF Live
  <2>3. QED
    BY <1>1, <2>1, <2>2, Zenon DEF ceiling
<1>2. CASE ~kept(m, lv)
  BY <1>2, <1>0 DEF ceiling
<1>3. QED
  BY <1>1, <1>2, Zenon

\* A queue into which the seeds were merged fits the view: every queued overlay
\* is new, and every open message has one.
LEMMA MergedFits ==
  ASSUME NEW p \in Seq(Update), NEW z \in Seq(Update), NEW q, NEW v \in ViewState,
         NEW snap \in Snapshot, NEW lv, NEW ver \in 0..MaxVersion, Retains(lv, ver),
         Seeds(q, snap, lv, ver), Merged(p, z, q, Len(q)), Len(p) <= Len(z),
         durableFits(v, snap, p), aimed(snap, p), shownFits(v, lv, ver)
  PROVE  Fits(v, snap, z, lv, ver)
<1>0. /\ \A j \in DOMAIN p : j \in DOMAIN z
      /\ DOMAIN q = 1..Len(q)
      /\ overlays(p) \subseteq DOMAIN p /\ overlays(z) \subseteq DOMAIN z
  BY DEF Seeds, overlays
<1>1. ASSUME NEW j \in DOMAIN z
      PROVE  \/ \E k \in DOMAIN q : /\ z[j] = q[k]
                                    /\ j \in DOMAIN p => sameOverlay(p[j], q[k])
             \/ /\ j \in DOMAIN p /\ z[j] = p[j]
                /\ \A k \in DOMAIN q : ~sameOverlay(p[j], q[k])
  BY <1>0, Zenon DEF Merged
<1>2. ASSUME NEW k \in DOMAIN q
      PROVE  /\ q[k].kind # "durable"
             /\ watchOverlayEligible(snap, q[k])
             /\ q[k].msg # None => /\ q[k].msg \in Messages /\ q[k].run = runOf[q[k].msg]
                                   /\ q[k].ver = ceiling(q[k].msg, lv, ver)
                                   /\ tells(q[k], q[k].msg, lv)
  BY SeedOpen, Zenon
<1>3. ASSUME NEW j \in overlays(z)
      PROVE  \E k \in DOMAIN q : z[j] = q[k]
  <2>1. SUFFICES ASSUME j \in DOMAIN p, z[j] = p[j],
                        \A k \in DOMAIN q : ~sameOverlay(p[j], q[k])
                 PROVE  FALSE
    BY <1>0, <1>1, Zenon
  <2>2. j \in overlays(p)
    BY <2>1, ZenonT(60) DEF overlays
  <2>3. p[j] \in Overlay
    BY <2>1, <2>2 DEF Update, overlays
  <2>4. watchOverlayEligible(snap, p[j]) /\ (p[j].msg # None => p[j].run = runOf[p[j].msg])
    BY <2>2, Zenon DEF aimed
  <2>5. QED
    BY <2>1, <2>3, <2>4, SeedReaches, ZenonT(30)
<1>4. ASSUME NEW j \in overlays(z)
      PROVE  /\ watchOverlayEligible(snap, z[j])
             /\ z[j].msg # None => /\ z[j].msg \in Messages /\ z[j].run = runOf[z[j].msg]
                                   /\ z[j].ver = ceiling(z[j].msg, lv, ver)
                                   /\ tells(z[j], z[j].msg, lv)
  <2>1. PICK k \in DOMAIN q : z[j] = q[k]
    BY <1>3, Zenon
  <2>2. /\ watchOverlayEligible(snap, q[k])
        /\ q[k].msg # None => /\ q[k].msg \in Messages /\ q[k].run = runOf[q[k].msg]
                              /\ q[k].ver = ceiling(q[k].msg, lv, ver)
                              /\ tells(q[k], q[k].msg, lv)
    BY <1>2, Zenon
  <2>3. QED
    BY <2>1, <2>2, Zenon
<1>5. durableFits(v, snap, z)
  <2>1. ASSUME NEW j \in DOMAIN z, j \notin overlays(z)
        PROVE  j \in DOMAIN p /\ j \notin overlays(p) /\ z[j] = p[j]
    BY <2>1, <1>1, <1>2, Zenon DEF overlays
  <2>2. ASSUME NEW j \in DOMAIN p, j \notin overlays(p)
        PROVE  j \in DOMAIN z /\ j \notin overlays(z) /\ z[j] = p[j]
    <3>1. j \in DOMAIN z /\ \A k \in DOMAIN q : ~sameOverlay(p[j], q[k])
      BY <2>2, <1>0, Zenon DEF overlays, sameOverlay
    <3>2. z[j] = p[j]
      BY <3>1, <2>2, <1>1, Zenon
    <3>3. QED
      BY <3>1, <3>2, <2>2, Zenon DEF overlays
  <2>3. overlays(z) = DOMAIN z <=> overlays(p) = DOMAIN p
    BY <2>1, <2>2, <1>0, Zenon
  <2>4. QED
    BY <2>1, <2>3, Zenon DEF durableFits
<1>6. distinct(z)
  BY Zenon DEF Merged
<1>7. aimed(snap, z)
  BY <1>4, Zenon DEF aimed
<1>8. fresh(z, lv, ver)
  <2>1. ASSUME NEW j \in overlays(z), z[j].msg # None
        PROVE  /\ z[j].run = runOf[z[j].msg] /\ z[j].ver <= ceiling(z[j].msg, lv, ver)
               /\ tells(z[j], z[j].msg, lv)
    <3>1. /\ z[j].msg \in Messages /\ z[j].run = runOf[z[j].msg]
          /\ z[j].ver = ceiling(z[j].msg, lv, ver) /\ tells(z[j], z[j].msg, lv)
      BY <1>4, <2>1, Zenon
    <3>2. ceiling(z[j].msg, lv, ver) \in Nat
      BY <3>1, CeilingNat, Zenon
    <3>3. QED
      BY <3>1, <3>2
  <2>2. QED
    BY <2>1, ZenonT(60) DEF fresh, dated
<1>9. told(v, snap, z, lv)
  <2>1. ASSUME NEW m \in Messages, Eligible(snap, m)
        PROVE  \E i \in overlays(z) : z[i].msg = m
    <3>1. m \in shown(snap)
      BY <2>1, Zenon DEF shown
    <3>2. PICK k \in DOMAIN q : q[k] = messageOverlay(m, lv, ver)
      BY <3>1, Zenon DEF Seeds
    <3>3. q[k].msg = m
      <4>1. LET x == messageOverlay(m, lv, ver)
            IN  /\ x \in Overlay /\ x.kind # "durable" /\ x.msg = m /\ x.run = runOf[m]
                /\ x.ver = ceiling(m, lv, ver) /\ tells(x, m, lv)
        BY MessageOverlayIs, Zenon
      <4>2. QED
        BY <3>2, <4>1, Zenon
    <3>4. PICK i \in DOMAIN z : z[i] = q[k]
      BY <1>0, Zenon DEF Merged
    <3>5. QED
      BY <3>3, <3>4, <1>2, Zenon DEF overlays
  <2>2. ASSUME NEW m \in Messages, NEW i \in overlays(z), z[i].msg = m,
               v.overlay[m] # None, v.overlay[m].ver >= z[i].ver
        PROVE  tells(v.overlay[m], m, lv)
    <3>1. m # None
      BY WatchIdentities
    <3>2. z[i].ver = ceiling(m, lv, ver)
      BY <1>4, <2>2, <3>1, Zenon
    <3>3. v.overlay[m].msg = m /\ dated(v.overlay[m], lv, ver)
      BY <2>2, Zenon DEF shownFits
    <3>4. v.overlay[m].ver <= ceiling(m, lv, ver)
      BY <3>1, <3>3, Zenon DEF dated
    <3>5. v.overlay[m].ver \in Nat /\ ceiling(m, lv, ver) \in Nat
      <4>1. v.overlay[m] \in Overlay
        BY <2>2 DEF ViewState
      <4>2. v.overlay[m].ver \in Nat
        BY <4>1, WatchOptions DEF Overlay
      <4>3. QED
        BY <4>2, CeilingNat, Zenon
    <3>6. v.overlay[m].ver = ceiling(m, lv, ver)
      BY <2>2, <3>2, <3>4, <3>5
    <3>7. QED
      BY <3>1, <3>3, <3>6, Zenon DEF dated
  <2>3. QED
    BY <2>1, <2>2, Zenon DEF told
<1>10. QED
  BY <1>5, <1>6, <1>7, <1>8, <1>9, Zenon DEF Fits

-----------------------------------------------------------------------------
(* Seeding and applying.                                                   *)

Reseeded(x, m, v, lv, ver) ==
    /\ x \in SubState /\ sameCalls(x, m)
    /\ \/ /\ x.err = "resync" /\ x.pending = <<>> /\ x.snap = noSnapshot /\ x.notify
       \/ /\ x.err = "none" /\ x.snap = m.snap /\ Len(x.pending) <= PendingUpdates
          /\ x.pending # m.pending => x.notify
          /\ m.notify => x.notify
          /\ Fits(v, m.snap, x.pending, lv, ver)

\* seedLocked: the subscription has a queue that fits its view again, or it ended
\* with ErrResyncRequired because the queue was full.
LEMMA SeedFits ==
  ASSUME NEW m \in SubState, NEW v \in ViewState, NEW lv, NEW ver \in 0..MaxVersion,
         Retains(lv, ver), m.err = "none", m.ready,
         durableFits(v, m.snap, m.pending), distinct(m.pending),
         aimed(m.snap, m.pending), shownFits(v, lv, ver),
         Len(m.pending) <= PendingUpdates
  PROVE  Reseeded(seedLocked(m, lv, ver), m, v, lv, ver)
<1> DEFINE x == seedLocked(m, lv, ver)
<1>1. PICK q : Seeds(q, m.snap, lv, ver) /\ x = FoldLeft(enqueued, m, q)
  BY SeededBy, Zenon
<1>2. q \in Seq(Overlay) /\ different(q)
  BY <1>1, Zenon DEF Seeds
<1>3. x \in SubState /\ After(m, x, q, Len(q))
  BY <1>1, <1>2, AfterAll, Zenon
<1> HIDE DEF x
<1>4. m.pending \in Seq(Update) /\ x.pending \in Seq(Update) /\ m.snap \in Snapshot
  BY <1>3 DEF SubState
<1>5. CASE x.err = "resync" /\ x.pending = <<>> /\ x.snap = noSnapshot /\ x.notify
  BY <1>3, <1>5, Zenon DEF Reseeded, After, x
<1>6. CASE /\ x.err = "none" /\ x.snap = m.snap
           /\ Len(m.pending) <= Len(x.pending) /\ Len(x.pending) <= PendingUpdates
           /\ x.pending # m.pending => x.notify
           /\ m.notify => x.notify
           /\ Merged(m.pending, x.pending, q, Len(q))
  <2>1. Fits(v, m.snap, x.pending, lv, ver)
    BY <1>1, <1>4, <1>6, MergedFits, Zenon
  <2>2. QED
    BY <1>3, <1>6, <2>1, Zenon DEF Reseeded, After, x
<1>7. QED
  BY <1>3, <1>5, <1>6, Zenon DEF After

\* The queue without its head.
LEMMA TailIs ==
  ASSUME NEW q \in Seq(Update), q # <<>>
  PROVE  /\ Head(q) = q[1] /\ 1 \in DOMAIN q /\ q[1] \in Update /\ Tail(q) \in Seq(Update)
         /\ \A i \in DOMAIN Tail(q) : /\ i + 1 \in DOMAIN q /\ i + 1 # 1
                                      /\ Tail(q)[i] = q[i + 1]
         /\ \A i \in DOMAIN q : i # 1 =>
              \E j \in DOMAIN Tail(q) : i = j + 1 /\ Tail(q)[j] = q[i]
         /\ Len(Tail(q)) <= Len(q)
         /\ \A i, j \in DOMAIN Tail(q) : i + 1 = j + 1 => i = j
<1>1. Len(q) \in Nat /\ Len(q) > 0 /\ DOMAIN q = 1..Len(q)
  OBVIOUS
<1>2. /\ Tail(q) \in Seq(Update) /\ DOMAIN Tail(q) = 1..(Len(q) - 1)
      /\ Len(Tail(q)) = Len(q) - 1
      /\ \A i \in 1..(Len(q) - 1) : Tail(q)[i] = q[i + 1]
  OBVIOUS
<1>3. \A i \in DOMAIN q : i # 1 =>
        \E j \in DOMAIN Tail(q) : i = j + 1 /\ Tail(q)[j] = q[i]
  <2>1. TAKE i \in DOMAIN q
  <2>2. HAVE i # 1
  <2>3. i - 1 \in DOMAIN Tail(q) /\ i = (i - 1) + 1
    BY <1>1, <1>2, <2>2
  <2>4. QED
    BY <1>2, <2>3
<1>4. \A i, j \in DOMAIN Tail(q) : i + 1 = j + 1 => i = j
  BY <1>2
<1>5. QED
  BY <1>1, <1>2, <1>3, <1>4

\* What is said of every queued overlay holds of the queue without its head.
LEMMA TailKeeps ==
  ASSUME NEW q \in Seq(Update), q # <<>>, NEW snap, NEW lv, NEW ver,
         distinct(q), aimed(snap, q), fresh(q, lv, ver)
  PROVE  distinct(Tail(q)) /\ aimed(snap, Tail(q)) /\ fresh(Tail(q), lv, ver)
<1> DEFINE t == Tail(q)
<1>1. \A i \in overlays(t) : i + 1 \in overlays(q) /\ t[i] = q[i + 1] /\ i \in DOMAIN t
  BY TailIs DEF overlays
<1>2. distinct(t)
  <2>1. SUFFICES ASSUME NEW i \in overlays(t), NEW j \in overlays(t), sameOverlay(t[i], t[j])
                 PROVE  i = j
    BY Zenon DEF distinct
  <2>2. i + 1 = j + 1
    BY <1>1, <2>1, Zenon DEF distinct
  <2>3. QED
    BY <1>1, <2>2, TailIs, Zenon
<1>3. aimed(snap, t)
  BY <1>1, Zenon DEF aimed
<1>4. fresh(t, lv, ver)
  BY <1>1, Zenon DEF fresh
<1>5. QED
  BY <1>2, <1>3, <1>4

\* The bridge applies a queued snapshot: the view has the snapshot of the
\* subscription, and every open message has an overlay queued behind it.
LEMMA ApplyDurable ==
  ASSUME NEW v \in ViewState, NEW snap \in Snapshot, NEW q \in Seq(Update), q # <<>>,
         NEW lv, NEW ver, Fits(v, snap, q, lv, ver), q[1].kind = "durable"
  PROVE  LET w == Apply(v, q[1])
         IN  w.snap = snap /\ shownFits(w, lv, ver) /\ told(w, snap, Tail(q), lv)
<1> DEFINE w == Apply(v, q[1])
           t == Tail(q)
<1>t. /\ \A i \in DOMAIN Tail(q) : /\ i + 1 \in DOMAIN q /\ i + 1 # 1
                                     /\ Tail(q)[i] = q[i + 1]
      /\ \A i \in DOMAIN q : i # 1 =>
           \E j \in DOMAIN Tail(q) : i = j + 1 /\ Tail(q)[j] = q[i]
  BY TailIs, Zenon
<1>1. 1 \in DOMAIN q /\ 1 \notin overlays(q) /\ overlays(q) # DOMAIN q
  BY TailIs DEF overlays
<1>2. q[1].snap = snap /\ ~refuses(v, q[1])
  <2>1. q[1].snap = snap /\ v.snap.mark.store = snap.mark.store
                         /\ v.snap.mark.rev < snap.mark.rev
    BY <1>1, Zenon DEF Fits, durableFits
  <2>2. v.snap.mark.rev \in Nat /\ snap.mark.rev \in Nat
    BY WatchOptions DEF ViewState, Snapshot, Watermark
  <2>3. QED
    BY <2>1, <2>2 DEF refuses
<1>3. w = [snap |-> snap,
           overlay |-> [k \in DOMAIN v.overlay |->
             IF v.overlay[k] # None /\ watchOverlayEligible(snap, v.overlay[k])
             THEN v.overlay[k] ELSE None]]
  BY <1>2 DEF Apply
<1>4. DOMAIN v.overlay = Messages \cup {None}
  BY DEF ViewState
<1>5. /\ w.snap = snap
      /\ \A k \in Messages \cup {None} : w.overlay[k] # None =>
           w.overlay[k] = v.overlay[k] /\ watchOverlayEligible(snap, v.overlay[k])
  BY <1>3, <1>4
<1> HIDE DEF w
<1>6. shownFits(w, lv, ver)
  BY <1>5, Zenon DEF Fits, shownFits
<1>7. told(w, snap, t, lv)
  <2>1. ASSUME NEW m \in Messages, Eligible(snap, m)
        PROVE  \E i \in overlays(t) : t[i].msg = m
    <3>1. PICK i \in overlays(q) : q[i].msg = m
      BY <1>1, <2>1, Zenon DEF Fits, told
    <3>2. i # 1 /\ i \in DOMAIN q /\ q[i].kind # "durable"
      BY <1>1, <3>1, Zenon DEF overlays
    <3>3. PICK j \in DOMAIN t : t[j] = q[i]
      BY <3>2, <1>t, Zenon
    <3>4. QED
      BY <3>1, <3>2, <3>3, Zenon DEF overlays
  <2>2. ASSUME NEW m \in Messages, NEW i \in overlays(t), t[i].msg = m,
               w.overlay[m] # None, w.overlay[m].ver >= t[i].ver
        PROVE  tells(w.overlay[m], m, lv)
    <3>1. i + 1 \in overlays(q) /\ t[i] = q[i + 1]
      BY <2>2, TailIs DEF overlays
    <3>2. v.overlay[m] = w.overlay[m]
      BY <1>5, <2>2, Zenon
    <3>3. QED
      BY <2>2, <3>1, <3>2, Zenon DEF Fits, told
  <2>3. QED
    BY <2>1, <2>2, Zenon DEF told
<1>8. QED
  BY <1>5, <1>6, <1>7 DEF w

\* The bridge applies a queued overlay: it is shown, unless a later one is.
LEMMA ApplyOverlay ==
  ASSUME NEW v \in ViewState, NEW snap \in Snapshot, NEW q \in Seq(Update), q # <<>>,
         NEW lv, NEW ver, Fits(v, snap, q, lv, ver), q[1].kind # "durable"
  PROVE  LET w == Apply(v, q[1])
         IN  w.snap = snap /\ shownFits(w, lv, ver) /\ told(w, snap, Tail(q), lv)
<1> DEFINE h == q[1]
           w == Apply(v, h)
           t == Tail(q)
<1>t. /\ \A i \in DOMAIN Tail(q) : /\ i + 1 \in DOMAIN q /\ i + 1 # 1
                                     /\ Tail(q)[i] = q[i + 1]
      /\ \A i \in DOMAIN q : i # 1 =>
           \E j \in DOMAIN Tail(q) : i = j + 1 /\ Tail(q)[j] = q[i]
  BY TailIs, Zenon
<1>1. h \in Overlay /\ h # None
  BY TailIs, WatchData DEF Update
<1>2. /\ h.msg \in Messages \cup {None} /\ DOMAIN v.overlay = Messages \cup {None}
      /\ h.ver \in Nat
  BY <1>1, WatchOptions DEF Overlay, ViewState
<1>3. 1 \in overlays(q)
  BY TailIs DEF overlays
<1>4. overlays(q) = DOMAIN q /\ v.snap = snap
  <2>1. \A i \in DOMAIN q : i \in overlays(q)
    BY <1>3, Zenon DEF Fits, durableFits
  <2>2. overlays(q) = DOMAIN q
    BY <2>1, Zenon DEF overlays
  <2>3. QED
    BY <2>2, Zenon DEF Fits, durableFits
<1>5. /\ watchOverlayEligible(snap, h) /\ dated(h, lv, ver)
      /\ h.msg # None => h.run = runOf[h.msg] /\ tells(h, h.msg, lv)
  BY <1>3, Zenon DEF Fits, aimed, fresh
<1>6. /\ \A i \in overlays(t) : i + 1 \in overlays(q) /\ i + 1 # 1 /\ t[i] = q[i + 1]
      /\ \A i \in overlays(q) : i # 1 => \E j \in overlays(t) : t[j] = q[i]
      /\ overlays(t) = DOMAIN t
  <2>1. \A i \in DOMAIN t : i + 1 \in overlays(q) /\ i + 1 # 1 /\ t[i] = q[i + 1]
    BY <1>4, <1>t, Zenon
  <2>2. \A i \in DOMAIN t : t[i].kind # "durable"
    BY <2>1, Zenon DEF overlays
  <2>3. overlays(t) = DOMAIN t
    BY <2>2, Zenon DEF overlays
  <2>4. QED
    BY <1>4, <2>1, <2>3, <1>t, Zenon
<1>7. ~refuses(v, h)
  BY Zenon DEF refuses
<1> HIDE DEF h, t
<1>8. CASE v.overlay[h.msg] = None \/ h.ver > v.overlay[h.msg].ver
  <2>1. w = [v EXCEPT !.overlay[h.msg] = h]
    BY <1>4, <1>5, <1>7, <1>8, q[1].kind # "durable" DEF Apply, h
  <2>2. /\ w.snap = snap /\ w.overlay[h.msg] = h
        /\ \A k \in Messages \cup {None} : k # h.msg => w.overlay[k] = v.overlay[k]
    BY <1>2, <1>4, <2>1 DEF ViewState
  <2> HIDE DEF w
  <2>3. shownFits(w, lv, ver)
    BY <1>4, <1>5, <2>2, Zenon DEF Fits, shownFits
  <2>4. ASSUME NEW m \in Messages, Eligible(snap, m), \A i \in overlays(t) : t[i].msg # m
        PROVE  w.overlay[m] # None /\ tells(w.overlay[m], m, lv)
    <3>1. CASE h.msg = m
      <4>1. h.msg # None
        BY <3>1, WatchIdentities
      <4>2. QED
        BY <1>1, <1>5, <2>2, <3>1, <4>1, Zenon
    <3>2. CASE h.msg # m
      <4>1. \A i \in overlays(q) : q[i].msg # m
        BY <1>6, <2>4, <3>2, ZenonT(60) DEF h
      <4>2. v.overlay[m] # None /\ tells(v.overlay[m], m, lv)
        BY <2>4, <4>1, Zenon DEF Fits, told
      <4>3. QED
        BY <2>2, <3>2, <4>2, Zenon
    <3>3. QED
      BY <3>1, <3>2, Zenon
  <2>5. ASSUME NEW m \in Messages, NEW i \in overlays(t), t[i].msg = m,
               w.overlay[m] # None, w.overlay[m].ver >= t[i].ver
        PROVE  tells(w.overlay[m], m, lv)
    <3>1. m # None
      BY WatchIdentities
    <3>2. i + 1 \in overlays(q) /\ i + 1 # 1 /\ t[i] = q[i + 1]
      BY <1>6, Zenon
    <3>3. h.msg # m
      <4>1. SUFFICES ASSUME h.msg = m PROVE FALSE
        BY Zenon
      <4>2. q[i + 1].run = runOf[m] /\ q[i + 1].kind # "durable"
        BY <2>5, <3>1, <3>2, Zenon DEF Fits, aimed, overlays
      <4>3. sameOverlay(q[1], q[i + 1])
        BY <1>5, <2>5, <3>1, <3>2, <4>1, <4>2, q[1].kind # "durable", Zenon DEF sameOverlay, h
      <4>4. QED
        BY <1>3, <3>2, <4>3, Zenon DEF Fits, distinct
    <3>4. w.overlay[m] = v.overlay[m]
      BY <2>2, <3>3, Zenon
    <3>5. QED
      BY <2>5, <3>2, <3>4, Zenon DEF Fits, told
  <2>6. told(w, snap, t, lv)
    BY <1>6, <2>4, <2>5, Zenon DEF told
  <2>7. QED
    BY <2>2, <2>3, <2>6, Zenon DEF w, h, t
<1>9. CASE ~(v.overlay[h.msg] = None \/ h.ver > v.overlay[h.msg].ver)
  <2>1. w = v
    BY <1>7, <1>9, q[1].kind # "durable", Zenon DEF Apply, h
  <2>2. v.overlay[h.msg] # None /\ v.overlay[h.msg].ver >= h.ver
    <3>1. v.overlay[h.msg] \in Overlay
      BY <1>2, <1>9 DEF ViewState
    <3>2. v.overlay[h.msg].ver \in Nat
      BY <3>1, WatchOptions DEF Overlay
    <3>3. QED
      BY <1>2, <1>9, <3>2
  <2> HIDE DEF w
  <2>3. ASSUME NEW m \in Messages, Eligible(snap, m), \A i \in overlays(t) : t[i].msg # m
        PROVE  v.overlay[m] # None /\ tells(v.overlay[m], m, lv)
    <3>1. CASE h.msg = m
      BY <1>3, <2>2, <3>1, ZenonT(60) DEF Fits, told, h
    <3>2. CASE h.msg # m
      <4>1. \A i \in overlays(q) : q[i].msg # m
        BY <1>6, <2>3, <3>2, Zenon DEF h
      <4>2. QED
        BY <2>3, <4>1, Zenon DEF Fits, told
    <3>3. QED
      BY <3>1, <3>2, Zenon
  <2>4. ASSUME NEW m \in Messages, NEW i \in overlays(t), t[i].msg = m,
               v.overlay[m] # None, v.overlay[m].ver >= t[i].ver
        PROVE  tells(v.overlay[m], m, lv)
    <3>1. i + 1 \in overlays(q) /\ t[i] = q[i + 1]
      BY <1>6, Zenon
    <3>2. QED
      BY <2>4, <3>1, Zenon DEF Fits, told
  <2>5. told(v, snap, t, lv)
    BY <1>6, <2>3, <2>4, Zenon DEF told
  <2>6. QED
    BY <1>4, <2>1, <2>5, Zenon DEF w, h, t, Fits
<1>10. QED
  BY <1>8, <1>9, Zenon

\* Applying the head of a queue that fits leaves a queue that fits.
LEMMA ApplyKeeps ==
  ASSUME NEW v \in ViewState, NEW snap \in Snapshot, NEW q \in Seq(Update), q # <<>>,
         NEW lv, NEW ver, Fits(v, snap, q, lv, ver)
  PROVE  /\ Fits(Apply(v, Head(q)), snap, Tail(q), lv, ver)
         /\ Apply(v, Head(q)).snap = snap
<1>1. LET w == Apply(v, q[1])
      IN  w.snap = snap /\ shownFits(w, lv, ver) /\ told(w, snap, Tail(q), lv)
  BY ApplyDurable, ApplyOverlay, Zenon
<1>2. distinct(Tail(q)) /\ aimed(snap, Tail(q)) /\ fresh(Tail(q), lv, ver)
  BY TailKeeps, Zenon DEF Fits
<1>t. /\ \A i \in DOMAIN Tail(q) : /\ i + 1 \in DOMAIN q /\ i + 1 # 1
                                     /\ Tail(q)[i] = q[i + 1]
      /\ \A i \in DOMAIN q : i # 1 =>
           \E j \in DOMAIN Tail(q) : i = j + 1 /\ Tail(q)[j] = q[i]
  BY TailIs, Zenon
<1>3. overlays(Tail(q)) = DOMAIN Tail(q)
  <2>1. \A i \in DOMAIN q : i # 1 => i \in overlays(q)
    BY Zenon DEF Fits, durableFits
  <2>2. \A i \in DOMAIN Tail(q) : i \in overlays(Tail(q))
    BY <2>1, <1>t, ZenonT(60) DEF overlays
  <2>3. QED
    BY <2>2, Zenon DEF overlays
<1>4. Head(q) = q[1]
  BY TailIs, Zenon
<1>5. durableFits(Apply(v, q[1]), snap, Tail(q))
  BY <1>1, <1>3, Zenon DEF durableFits
<1>6. QED
  BY <1>1, <1>2, <1>4, <1>5, Zenon DEF Fits

\* View f shows snapshot snap and, of exactly the messages open in it, what is
\* retained.
Shows(f, snap, lv) ==
    /\ f.snap = snap
    /\ \A m \in Messages : IF Eligible(snap, m)
                           THEN f.overlay[m] # None /\ tells(f.overlay[m], m, lv)
                           ELSE f.overlay[m] = None

\* With an empty queue the view shows what is retained.
LEMMA EmptyShows ==
  ASSUME NEW v, NEW snap, NEW lv, NEW ver, Fits(v, snap, <<>>, lv, ver)
  PROVE  Shows(v, snap, lv)
<1>1. overlays(<<>>) = {} /\ DOMAIN <<>> = {}
  BY DEF overlays
<1>2. v.snap = snap
  BY <1>1, Zenon DEF Fits, durableFits
<1>3. \A m \in Messages : m # None
  BY WatchIdentities
<1>4. \A m \in Messages : v.overlay[m] # None => Eligible(snap, m)
  BY <1>2, <1>3, Zenon DEF Fits, shownFits, watchOverlayEligible
<1>5. \A m \in Messages : Eligible(snap, m) => v.overlay[m] # None /\ tells(v.overlay[m], m, lv)
  BY <1>1, Zenon DEF Fits, told
<1>6. QED
  BY <1>2, <1>4, <1>5, Zenon DEF Shows

\* An observer that applies the whole queue has the snapshot of its subscription
\* and the text retained for every message open in it (Apply, ViewConverges).
LEMMA QueueShows ==
  ASSUME NEW v \in ViewState, NEW snap \in Snapshot, NEW q \in Seq(Update),
         NEW lv, NEW ver, Fits(v, snap, q, lv, ver)
  PROVE  Shows(FoldLeft(Apply, v, q), snap, lv)
<1> DEFINE n == Len(q)
           rest(i) == SubSeq(q, i + 1, n)
           G == [i \in 0..n |-> {x \in ViewState : Fits(x, snap, rest(i), lv, ver)}]
<1>0. n \in Nat /\ DOMAIN q = 1..n
  OBVIOUS
<1>1. rest(0) = q
  OBVIOUS
<1>2. rest(n) = <<>>
  OBVIOUS
<1>3. \A i \in 1..n : /\ rest(i - 1) \in Seq(Update) /\ rest(i - 1) # <<>>
                      /\ Head(rest(i - 1)) = q[i]
                      /\ Tail(rest(i - 1)) = rest(i)
  OBVIOUS
<1> HIDE DEF rest
<1>4. v \in G[0]
  BY <1>0, <1>1
<1>5. ASSUME NEW i \in 1..n, NEW x \in G[i - 1] \cap ViewState
      PROVE  Apply(x, q[i]) \in G[i]
  <2>1. i - 1 \in 0..n /\ i \in 0..n /\ q[i] \in Update
    BY <1>0
  <2>2. Fits(x, snap, rest(i - 1), lv, ver)
    BY <2>1
  <2>3. Fits(Apply(x, q[i]), snap, rest(i), lv, ver)
    <3>1. /\ rest(i - 1) \in Seq(Update) /\ rest(i - 1) # <<>>
          /\ Head(rest(i - 1)) = q[i] /\ Tail(rest(i - 1)) = rest(i)
      BY <1>3, Zenon
    <3>2. Fits(Apply(x, Head(rest(i - 1))), snap, Tail(rest(i - 1)), lv, ver)
      BY <2>2, <3>1, ApplyKeeps, Zenon
    <3>3. QED
      BY <3>1, <3>2, Zenon
  <2>4. Apply(x, q[i]) \in ViewState
    BY <2>1, ApplyType, Zenon
  <2>5. QED
    BY <2>1, <2>3, <2>4
<1>6. n \in 0..n
  BY <1>0
<1>7. \A x \in G[n] : Fits(x, snap, <<>>, lv, ver)
  BY <1>2, <1>6
<1> HIDE DEF G
<1>8. Along(G, q)
  BY <1>5, Zenon DEF Along
<1>9. FoldLeft(Apply, v, q) \in G[n]
  BY <1>4, <1>8, FoldOfUpdates, Zenon
<1>10. QED
  BY <1>7, <1>9, EmptyShows, Zenon

-----------------------------------------------------------------------------
(* The account of the retained text.                                       *)

\* The text that lv retains for run r, and the choice the fold of the model makes.
bytesIn(lv, r) == IF lv[r] = None THEN 0 ELSE lv[r].len

pick(s) == CHOOSE x \in s : TRUE

\* it[s] is the text that lv retains for the runs of s.
IsTotal(it, lv) ==
    it = [s \in SUBSET Runs |-> IF s = {} THEN 0
            ELSE bytesIn(lv, pick(s)) + it[s \ {pick(s)}]]

total(lv) == (CHOOSE it : IsTotal(it, lv))[Runs]

\* The text of a run has a length.
LEMMA BytesNat ==
  ASSUME NEW lv \in [Runs -> Live \cup {None}], NEW r \in Runs
  PROVE  bytesIn(lv, r) \in Nat
<1>1. CASE lv[r] = None
  BY <1>1 DEF bytesIn
<1>2. CASE lv[r] # None
  BY <1>2, WatchOptions DEF bytesIn, Live
<1>3. QED
  BY <1>1, <1>2, Zenon

\* There is a total.
LEMMA TotalExists ==
  ASSUME NEW lv \in [Runs -> Live \cup {None}]
  PROVE  \E it \in [SUBSET Runs -> Nat] : IsTotal(it, lv)
<1> DEFINE F == [p \in Nat \X Runs |-> bytesIn(lv, p[2]) + p[1]]
           c == [s \in SUBSET Runs |-> pick(s)]
<1>1. F \in [Nat \X Runs -> Nat]
  <2>1. ASSUME NEW p \in Nat \X Runs
        PROVE  bytesIn(lv, p[2]) + p[1] \in Nat
    <3>1. p[2] \in Runs /\ p[1] \in Nat
      OBVIOUS
    <3>2. bytesIn(lv, p[2]) \in Nat
      BY <3>1, BytesNat, Zenon
    <3>3. QED
      BY <3>1, <3>2
  <2>2. QED
    BY <2>1, Zenon
<1>2. ASSUME NEW s \in SUBSET Runs, s # {}
      PROVE  c[s] = pick(s) /\ c[s] \in s
  BY <1>2 DEF pick
<1>3. IsFiniteSet(Runs) /\ 0 \in Nat
  BY WatchData
<1> HIDE DEF F, c
<1>4. PICK it \in [SUBSET Runs -> Nat] : IsFold(it, Runs, 0, F, c)
  BY <1>1, <1>2, <1>3, FoldExists, ZenonT(30)
<1>5. ASSUME NEW s \in SUBSET Runs, s # {}
      PROVE  F[<<it[s \ {c[s]}], c[s]>>] = bytesIn(lv, pick(s)) + it[s \ {pick(s)}]
  <2>1. c[s] = pick(s) /\ pick(s) \in Runs
    BY <1>2, <1>5, Zenon
  <2>2. it[s \ {pick(s)}] \in Nat
    BY <1>4
  <2>3. QED
    BY <2>1, <2>2 DEF F
<1>6. IsTotal(it, lv)
  BY Zenon, <1>4, <1>5 DEF IsFold, IsTotal
<1>7. QED
  BY <1>6, Zenon

\* The total of a set of runs is the text of one and the total of the others.
LEMMA TotalStep ==
  ASSUME NEW lv, NEW it, IsTotal(it, lv)
  PROVE  /\ it[{}] = 0
         /\ \A s \in SUBSET Runs : s # {} =>
              it[s] = bytesIn(lv, pick(s)) + it[s \ {pick(s)}]
BY Zenon DEF IsTotal

\* What one run adds to the total over s.
share(lv, r, s) == IF r \in s THEN bytesIn(lv, r) ELSE 0

\* The totals f and g differ by what run r adds to them.
differAt(lv, lw, r, f, g, s) ==
    /\ f[s] \in Nat /\ g[s] \in Nat
    /\ share(lv, r, s) \in Nat /\ share(lw, r, s) \in Nat
    /\ share(lv, r, s) <= f[s]
    /\ g[s] + share(lv, r, s) = f[s] + share(lw, r, s)

\* lw differs from lv at run r only.
onlyAt(lv, lw, r) == \A x \in Runs : x # r => lw[x] = lv[x]

\* A change at run r changes the total of every set of runs by what r adds to it.
LEMMA TotalsDiffer ==
  ASSUME NEW lv \in [Runs -> Live \cup {None}], NEW lw \in [Runs -> Live \cup {None}],
         NEW r \in Runs, onlyAt(lv, lw, r),
         NEW f, IsTotal(f, lv), NEW g, IsTotal(g, lw), NEW S \in SUBSET Runs
  PROVE  differAt(lv, lw, r, f, g, S)
<1> DEFINE Good(s) == /\ f[s] \in Nat /\ g[s] \in Nat
                      /\ share(lv, r, s) <= f[s]
                      /\ g[s] + share(lv, r, s) = f[s] + share(lw, r, s)
           Bad == {n \in Nat : \E s \in SUBSET Runs : Cardinality(s) = n /\ ~Good(s)}
<1>1. \A s \in SUBSET Runs : share(lv, r, s) \in Nat /\ share(lw, r, s) \in Nat
  BY BytesNat DEF share
<1>2. \A s \in SUBSET Runs : IsFiniteSet(s) /\ Cardinality(s) \in Nat
  BY WatchData, FS_Subset, FS_CardinalityType, Zenon
<1>t. /\ \A s \in SUBSET Runs : s # {} => f[s] = bytesIn(lv, pick(s)) + f[s \ {pick(s)}]
      /\ \A s \in SUBSET Runs : s # {} => g[s] = bytesIn(lw, pick(s)) + g[s \ {pick(s)}]
  BY TotalStep
<1>3. Good({})
  BY <1>1, TotalStep DEF share
<1>4. ASSUME NEW s \in SUBSET Runs, s # {}, Good(s \ {pick(s)})
      PROVE  Good(s)
  <2> DEFINE x == pick(s)
             t == s \ {x}
  <2>1. x \in s /\ x \in Runs
    BY <1>4 DEF pick
  <2>2. bytesIn(lv, x) \in Nat /\ bytesIn(lw, x) \in Nat
    BY <2>1, BytesNat, Zenon
  <2>3. f[s] = bytesIn(lv, x) + f[t] /\ g[s] = bytesIn(lw, x) + g[t]
    BY <1>4, <1>t, ZenonT(60)
  <2>4. CASE x = r
    <3>1. /\ share(lv, r, t) = 0 /\ share(lw, r, t) = 0
          /\ share(lv, r, s) = bytesIn(lv, x) /\ share(lw, r, s) = bytesIn(lw, x)
      BY <2>1, <2>4 DEF share
    <3>2. QED
      BY <1>4, <2>2, <2>3, <3>1
  <2>5. CASE x # r
    <3>1. /\ share(lv, r, t) = share(lv, r, s) /\ share(lw, r, t) = share(lw, r, s)
          /\ bytesIn(lv, x) = bytesIn(lw, x)
      BY <2>1, <2>5 DEF share, bytesIn, onlyAt
    <3>2. share(lv, r, s) \in Nat /\ share(lw, r, s) \in Nat
      BY <1>1
    <3>3. QED
      BY <1>4, <2>2, <2>3, <3>1, <3>2
  <2>6. QED
    BY <2>4, <2>5, Zenon
<1>5. Bad = {}
  <2>1. SUFFICES ASSUME Bad # {} PROVE FALSE
    BY Zenon
  <2>2. PICK n \in Bad : \A k \in Bad : n <= k
    <3>1. Bad \in SUBSET Nat
      BY Zenon
    <3>2. QED
      BY <2>1, <3>1, LeastNatural, Zenon
  <2>3. PICK s \in SUBSET Runs : Cardinality(s) = n /\ ~Good(s)
    BY <2>2, Zenon
  <2>4. s # {} /\ ~Good(s \ {pick(s)})
    BY <1>3, <1>4, <2>3, ZenonT(60)
  <2>5. pick(s) \in s /\ s \ {pick(s)} \in SUBSET Runs
    BY <2>4 DEF pick
  <2>6. Cardinality(s \ {pick(s)}) = n - 1 /\ n \in Nat /\ n - 1 \in Nat
    <3>1. Cardinality(s \ {pick(s)}) = Cardinality(s) - 1
      BY <1>2, <2>5, FS_RemoveElement, Zenon
    <3>2. Cardinality(s \ {pick(s)}) \in Nat
      BY <1>2, <2>5, Zenon
    <3>3. QED
      BY <2>2, <2>3, <3>1, <3>2
  <2>7. n - 1 \in Bad
    BY <2>4, <2>5, <2>6, Zenon
  <2>8. n <= n - 1
    BY <2>2, <2>7, Zenon
  <2>9. QED
    BY <2>6, <2>8
<1>6. Good(S)
  BY <1>2, <1>5, Zenon
<1>7. QED
  BY <1>1, <1>6, Zenon DEF differAt

\* A change at run r changes the total by the difference at r.
LEMMA TotalChange ==
  ASSUME NEW lv \in [Runs -> Live \cup {None}], NEW lw \in [Runs -> Live \cup {None}],
         NEW r \in Runs, onlyAt(lv, lw, r)
  PROVE  /\ total(lv) \in Nat /\ total(lw) \in Nat
         /\ bytesIn(lv, r) \in Nat /\ bytesIn(lw, r) \in Nat
         /\ bytesIn(lv, r) <= total(lv)
         /\ total(lw) + bytesIn(lv, r) = total(lv) + bytesIn(lw, r)
<1> DEFINE f == CHOOSE it : IsTotal(it, lv)
           g == CHOOSE it : IsTotal(it, lw)
<1>1. IsTotal(f, lv) /\ IsTotal(g, lw)
  BY TotalExists, Zenon
<1>2. total(lv) = f[Runs] /\ total(lw) = g[Runs]
  BY Zenon DEF total
<1> HIDE DEF f, g
<1>3. /\ share(lv, r, Runs) = bytesIn(lv, r) /\ share(lw, r, Runs) = bytesIn(lw, r)
      /\ Runs \in SUBSET Runs
  BY Zenon DEF share
<1>4. differAt(lv, lw, r, f, g, Runs)
  BY <1>1, <1>3, TotalsDiffer, ZenonT(30)
<1>5. QED
  BY <1>2, <1>3, <1>4, Zenon DEF differAt

\* The total of nothing is zero.
LEMMA TotalOfNone ==
  ASSUME NEW lv, lv = [r \in Runs |-> None]
  PROVE  total(lv) = 0
<1> DEFINE f == CHOOSE it : IsTotal(it, lv)
           Bad == {n \in Nat : \E s \in SUBSET Runs : Cardinality(s) = n /\ f[s] # 0}
<1>1. lv \in [Runs -> Live \cup {None}]
  OBVIOUS
<1>2. IsTotal(f, lv)
  BY <1>1, TotalExists, Zenon
<1>3. total(lv) = f[Runs]
  BY Zenon DEF total
<1> HIDE DEF f
<1>4. \A s \in SUBSET Runs : IsFiniteSet(s) /\ Cardinality(s) \in Nat
  BY WatchData, FS_Subset, FS_CardinalityType, Zenon
<1>5. Bad = {}
  <2>1. SUFFICES ASSUME Bad # {} PROVE FALSE
    BY Zenon
  <2>2. PICK n \in Bad : \A k \in Bad : n <= k
    <3>1. Bad \in SUBSET Nat
      BY Zenon
    <3>2. QED
      BY <2>1, <3>1, LeastNatural, Zenon
  <2>3. PICK s \in SUBSET Runs : Cardinality(s) = n /\ f[s] # 0
    BY <2>2, Zenon
  <2>4. s # {}
    BY <1>2, <2>3, TotalStep, Zenon
  <2>5. pick(s) \in s /\ s \ {pick(s)} \in SUBSET Runs
    BY <2>4 DEF pick
  <2>6. f[s] = bytesIn(lv, pick(s)) + f[s \ {pick(s)}]
    <3>1. \A w \in SUBSET Runs : w # {} => f[w] = bytesIn(lv, pick(w)) + f[w \ {pick(w)}]
      BY <1>2, TotalStep
    <3>2. QED
      BY <2>4, <3>1, Zenon
  <2>7. bytesIn(lv, pick(s)) = 0
    BY <2>5 DEF bytesIn
  <2>8. f[s \ {pick(s)}] # 0
    BY <2>3, <2>6, <2>7
  <2>9. Cardinality(s \ {pick(s)}) = n - 1 /\ n \in Nat /\ n - 1 \in Nat
    <3>1. Cardinality(s \ {pick(s)}) = Cardinality(s) - 1
      BY <1>4, <2>5, FS_RemoveElement, Zenon
    <3>2. Cardinality(s \ {pick(s)}) \in Nat
      BY <1>4, <2>5, Zenon
    <3>3. QED
      BY <2>2, <2>3, <3>1, <3>2
  <2>10. n - 1 \in Bad
    BY <2>5, <2>8, <2>9, Zenon
  <2>11. n <= n - 1
    BY <2>2, <2>10, Zenon
  <2>12. QED
    BY <2>9, <2>11
<1>6. QED
  BY <1>3, <1>4, <1>5, Zenon

\* The sum in LiveAccounted is this total, before a step and after it.
LEMMA SumIsTotal ==
  /\ MapThenSumSet(retained, Runs) = total(live)
  /\ MapThenSumSet(retained, Runs)' = total(live')
BY DEF MapThenSumSet, MapThenFoldSet, retained, total, IsTotal, bytesIn, pick

-----------------------------------------------------------------------------
(* A step of the live text.                                                *)

\* The texts lw are lv after a step that gave run r the next version.
LiveStepAt(lv, lw, r, ver) ==
    /\ onlyAt(lv, lw, r)
    /\ lw[r] # None => lw[r].ver = ver + 1 /\ runOf[lw[r].msg] = r

\* A step of run r changes nothing for the messages of other runs.
LEMMA OtherMessage ==
  ASSUME NEW lv, NEW lw, NEW r \in Runs, onlyAt(lv, lw, r), NEW m \in Messages, runOf[m] # r
  PROVE  /\ kept(m, lw) = kept(m, lv)
         /\ \A o : tells(o, m, lv) => tells(o, m, lw)
<1>1. runOf[m] \in Runs
  BY WatchIdentities
<1>2. lw[runOf[m]] = lv[runOf[m]]
  BY <1>1, Zenon DEF onlyAt
<1>3. QED
  BY <1>2, Zenon DEF kept, tells

\* An overlay that was dated stays dated: the step of r has a version of its own.
LEMMA DatedGrows ==
  ASSUME NEW lv, NEW ver \in 0..MaxVersion, Retains(lv, ver), NEW r \in Runs, NEW lw,
         LiveStepAt(lv, lw, r, ver), NEW o \in Overlay, dated(o, lv, ver)
  PROVE  dated(o, lw, ver + 1)
<1>1. SUFFICES ASSUME o.msg # None
               PROVE  /\ o.run = runOf[o.msg]
                      /\ o.ver <= ceiling(o.msg, lw, ver + 1)
                      /\ o.ver = ceiling(o.msg, lw, ver + 1) => tells(o, o.msg, lw)
  BY Zenon DEF dated
<1> DEFINE m == o.msg
<1>2. m \in Messages /\ o.ver \in Nat /\ ver \in Nat
  BY <1>1, WatchOptions DEF Overlay
<1>3. /\ o.run = runOf[m] /\ o.ver <= ceiling(m, lv, ver)
      /\ o.ver = ceiling(m, lv, ver) => tells(o, m, lv)
  BY <1>1, Zenon DEF dated
<1>4. ceiling(m, lv, ver) \in Nat /\ ceiling(m, lv, ver) <= ver
  BY <1>2, CeilingNat, Zenon
<1> HIDE DEF m
<1>5. o.ver <= ver /\ o.ver < ver + 1 /\ o.ver # ver + 1
  BY <1>2, <1>3, <1>4
<1>6. CASE ceiling(m, lw, ver + 1) = ver + 1
  <2>1. o.ver <= ver + 1
    BY <1>2, <1>5
  <2>2. QED
    BY <1>3, <1>5, <1>6, <2>1, Zenon DEF m
<1>7. CASE ceiling(m, lw, ver + 1) # ver + 1
  <2>1. kept(m, lw)
    BY <1>7, Zenon DEF ceiling
  <2>2. runOf[m] # r
    BY <1>7, <2>1, Zenon DEF ceiling, kept, LiveStepAt
  <2>3. onlyAt(lv, lw, r)
    BY Zenon DEF LiveStepAt
  <2>4. kept(m, lv) /\ (tells(o, m, lv) => tells(o, m, lw))
    BY <1>2, <2>1, <2>2, <2>3, OtherMessage, Zenon
  <2>5. lw[runOf[m]] = lv[runOf[m]]
    BY <1>2, <2>2, <2>3, WatchIdentities DEF onlyAt
  <2>6. ceiling(m, lw, ver + 1) = ceiling(m, lv, ver)
    BY <2>1, <2>4, <2>5, Zenon DEF ceiling
  <2>7. QED
    BY <1>3, <2>4, <2>6, Zenon DEF m
<1>8. QED
  BY <1>6, <1>7, Zenon

\* So do the overlays a view shows.
LEMMA ShownGrows ==
  ASSUME NEW lv, NEW ver \in 0..MaxVersion, Retains(lv, ver), NEW r \in Runs, NEW lw,
         LiveStepAt(lv, lw, r, ver), NEW v \in ViewState, shownFits(v, lv, ver)
  PROVE  shownFits(v, lw, ver + 1)
<1>1. ASSUME NEW k \in Messages \cup {None}, v.overlay[k] # None
      PROVE  dated(v.overlay[k], lw, ver + 1)
  <2>1. v.overlay[k] \in Overlay
    BY <1>1 DEF ViewState
  <2>2. dated(v.overlay[k], lv, ver)
    BY <1>1, Zenon DEF shownFits
  <2>3. QED
    BY <2>1, <2>2, DatedGrows, Zenon
<1>2. QED
  BY <1>1, Zenon DEF shownFits

\* A queue that fits its view fits it after a step of a run of another session.
LEMMA OtherSession ==
  ASSUME NEW lv, NEW ver \in 0..MaxVersion, Retains(lv, ver), NEW r \in Runs, NEW lw,
         LiveStepAt(lv, lw, r, ver), NEW v \in ViewState, NEW snap \in Snapshot,
         NEW q \in Seq(Update), Fits(v, snap, q, lv, ver),
         NEW s, ofSession(snap, s), sessionOf[r] # s
  PROVE  Fits(v, snap, q, lw, ver + 1)
<1>1. ASSUME NEW m \in Messages, Eligible(snap, m)
      PROVE  \A o : tells(o, m, lv) => tells(o, m, lw)
  <2>1. runOf[m] \in Runs /\ snap.run[runOf[m]] # "none"
    BY <1>1, WatchIdentities DEF Eligible
  <2>2. runOf[m] # r
    BY <2>1, Zenon DEF ofSession
  <2>3. onlyAt(lv, lw, r)
    BY Zenon DEF LiveStepAt
  <2>4. QED
    BY <2>2, <2>3, OtherMessage, ZenonT(60)
<1>2. ASSUME NEW i \in overlays(q)
      PROVE  /\ q[i] \in Overlay
             /\ q[i].msg # None => q[i].msg \in Messages /\ Eligible(snap, q[i].msg)
  <2>1. q[i] \in Overlay
    BY DEF Update, overlays
  <2>2. q[i].msg \in Messages \cup {None}
    BY <2>1 DEF Overlay
  <2>3. watchOverlayEligible(snap, q[i])
    BY Zenon DEF Fits, aimed
  <2>4. QED
    BY <2>1, <2>2, <2>3, ZenonT(60) DEF watchOverlayEligible
<1>3. fresh(q, lw, ver + 1)
  <2>1. ASSUME NEW i \in overlays(q)
        PROVE  dated(q[i], lw, ver + 1)
    <3>1. dated(q[i], lv, ver)
      BY Zenon DEF Fits, fresh
    <3>2. q[i] \in Overlay
      BY <1>2, Zenon
    <3>3. QED
      BY <3>1, <3>2, DatedGrows, Zenon
  <2>2. ASSUME NEW i \in overlays(q), q[i].msg # None
        PROVE  tells(q[i], q[i].msg, lw)
    <3>1. tells(q[i], q[i].msg, lv)
      BY <2>2, Zenon DEF Fits, fresh
    <3>2. QED
      BY <1>1, <1>2, <2>2, <3>1, Zenon
  <2>3. QED
    BY <2>1, <2>2, Zenon DEF fresh
<1>4. shownFits(v, lw, ver + 1)
  BY ShownGrows, Zenon DEF Fits
<1>5. told(v, snap, q, lw)
  <2>1. ASSUME NEW m \in Messages, Eligible(snap, m)
        PROVE  \/ \E i \in overlays(q) : q[i].msg = m
               \/ /\ overlays(q) = DOMAIN q
                  /\ v.overlay[m] # None /\ tells(v.overlay[m], m, lw)
    <3>1. \/ \E i \in overlays(q) : q[i].msg = m
          \/ /\ overlays(q) = DOMAIN q
             /\ v.overlay[m] # None /\ tells(v.overlay[m], m, lv)
      BY <2>1, Zenon DEF Fits, told
    <3>2. QED
      BY <1>1, <2>1, <3>1, Zenon
  <2>2. ASSUME NEW m \in Messages, NEW i \in overlays(q),
               q[i].msg = m, v.overlay[m] # None, v.overlay[m].ver >= q[i].ver
        PROVE  tells(v.overlay[m], m, lw)
    <3>1. tells(v.overlay[m], m, lv)
      BY <2>2, Zenon DEF Fits, told
    <3>2. m # None
      BY WatchIdentities
    <3>3. Eligible(snap, m)
      BY <1>2, <2>2, <3>2, Zenon
    <3>4. QED
      BY <1>1, <3>1, <3>3, Zenon
  <2>3. QED
    BY <2>1, <2>2, Zenon DEF told
<1>6. QED
  BY <1>3, <1>4, <1>5, Zenon DEF Fits

-----------------------------------------------------------------------------
(* What the calls make of a subscription. *)

\* The empty values have their types.
LEMMA Blank ==
  /\ noSnapshot \in Snapshot /\ noMark \in Watermark /\ failedMark \in Watermark
  /\ noView \in ViewState /\ noSub \in SubState /\ idleGroup \in PollerState
  /\ \A s : ofSession(noSnapshot, s)
<1>1. noMark \in Watermark /\ failedMark \in Watermark
  BY WatchOptions DEF noMark, failedMark, Watermark
<1>2. noSnapshot \in Snapshot
  BY <1>1 DEF noSnapshot, emptySnapshot, Snapshot, RunState, MessageState
<1>3. noView \in ViewState
  BY <1>2 DEF noView, ViewState
<1>4. noSub \in SubState
  BY <1>1, <1>2 DEF noSub, SubState
<1>5. idleGroup \in PollerState
  BY <1>1, <1>2 DEF idleGroup, PollerState
<1>6. \A s : ofSession(noSnapshot, s)
  BY DEF ofSession, noSnapshot, emptySnapshot
<1>7. QED
  BY <1>1, <1>2, <1>3, <1>4, <1>5, <1>6, Zenon

\* A new view fits a queue that is empty (NewWatchBridge).
LEMMA NewViewFits ==
  ASSUME NEW snap \in Snapshot, NEW lv, NEW ver
  PROVE  /\ newView(snap) \in ViewState /\ newView(snap).snap = snap
         /\ durableFits(newView(snap), snap, <<>>) /\ distinct(<<>>)
         /\ aimed(snap, <<>>) /\ shownFits(newView(snap), lv, ver)
<1>1. newView(snap) = [snap |-> snap, overlay |-> [k \in Messages \cup {None} |-> None]]
  BY DEF newView, noView
<1>2. newView(snap) \in ViewState /\ newView(snap).snap = snap
  BY <1>1 DEF ViewState
<1>3. \A k \in Messages \cup {None} : newView(snap).overlay[k] = None
  BY <1>1
<1>4. overlays(<<>>) = {} /\ DOMAIN <<>> = {}
  BY DEF overlays
<1>5. QED
  BY <1>2, <1>3, <1>4, Zenon DEF durableFits, distinct, aimed, shownFits

\* A subscription that is terminated is fine.
LEMMA TerminatedFine ==
  ASSUME NEW m \in SubState, NEW v, NEW s, NEW lv, NEW ver, SubFine(m, v, s, lv, ver),
         m.group # None, NEW e \in {"read", "resync", "closed"}
  PROVE  /\ terminated(m, e) \in SubState
         /\ SubFine(terminated(m, e), v, s, lv, ver)
         /\ terminated(m, e).group = m.group /\ terminated(m, e).err # "none"
<1>1. CASE m.err # "none"
  BY <1>1, Zenon DEF terminated
<1>2. CASE m.err = "none"
  <2> DEFINE x == terminated(m, e)
  <2>1. x = [m EXCEPT !.err = e, !.pending = <<>>, !.notify = TRUE, !.snap = noSnapshot]
    BY <1>2 DEF terminated
  <2>2. x \in SubState
    BY TerminatedType
  <2>3. /\ x.err = e /\ x.pending = <<>> /\ x.notify /\ x.snap = noSnapshot
        /\ x.group = m.group /\ x.watch = m.watch /\ x.got = m.got /\ x.ready = m.ready
        /\ x.next = m.next /\ x.resnap = m.resnap
    BY <2>1 DEF SubState
  <2>4. e # "none" /\ ofSession(noSnapshot, s)
    BY Blank
  <2> HIDE DEF x
  <2>5. SubFine(x, v, s, lv, ver)
    BY <2>3, <2>4, Zenon DEF SubFine
  <2>6. QED
    BY <2>2, <2>3, <2>4, <2>5, Zenon DEF x
<1>3. QED
  BY <1>1, <1>2, Zenon

-----------------------------------------------------------------------------
(* The calls made on a subscription.                                       *)

\* A subscription with a call made on it was opened.
LEMMA InUse ==
  ASSUME NEW m, NEW v, NEW s, NEW lv, NEW ver, SubFine(m, v, s, lv, ver),
         m.watch # "no" \/ m.next # "looking" \/ m.resnap # "no" \/ m.ready
  PROVE  m.group # None
<1>1. m.group = None => m = noSub
  BY Zenon DEF SubFine
<1>2. noSub.watch = "no" /\ noSub.next = "looking" /\ noSub.resnap = "no" /\ noSub.ready = FALSE
  BY Zenon DEF noSub
<1>3. QED
  BY <1>1, <1>2, Zenon

\* A subscription is fine when it was reseeded.
LEMMA SeededFine ==
  ASSUME NEW m \in SubState, NEW x, NEW v, NEW w, NEW s, NEW lv, NEW ver,
         Reseeded(x, m, v, lv, ver), m.group # None, m.watch = "done", m.ready,
         ofSession(m.got, s), ofSession(m.snap, s), ofSession(w.snap, s),
         validSnapshot(m.snap),
         m.resnap # "no" =>
           m.base.store = m.snap.mark.store /\ m.base.rev <= m.snap.mark.rev,
         (m.next = "waiting" /\ m.pending # <<>>) => m.notify,
         x.err = "none" => w = v
  PROVE  SubFine(x, w, s, lv, ver) /\ x \in SubState
<1>1. x \in SubState /\ sameCalls(x, m) /\ ofSession(noSnapshot, s)
  BY Blank, Zenon DEF Reseeded
<1>2. /\ x.group = m.group /\ x.watch = m.watch /\ x.got = m.got /\ x.ready = m.ready
      /\ x.next = m.next /\ x.resnap = m.resnap /\ x.base = m.base
  BY <1>1, Zenon DEF sameCalls
<1>3. CASE x.err = "resync" /\ x.pending = <<>> /\ x.snap = noSnapshot /\ x.notify
  <2>1. x.err # "none"
    BY <1>3
  <2>2. QED
    BY <1>1, <1>2, <1>3, <2>1, ZenonT(60) DEF SubFine
<1>4. CASE /\ x.err = "none" /\ x.snap = m.snap /\ Len(x.pending) <= PendingUpdates
           /\ x.pending # m.pending => x.notify
           /\ m.notify => x.notify
           /\ Fits(v, m.snap, x.pending, lv, ver)
  <2>1. (x.next = "waiting" /\ x.pending # <<>>) => x.notify
    BY <1>2, <1>4, Zenon
  <2>2. QED
    BY <1>1, <1>2, <1>4, <2>1, Zenon DEF SubFine
<1>5. QED
  BY <1>3, <1>4, Zenon DEF Reseeded

\* Watch has an answer from the store.
LEMMA ReadFine ==
  ASSUME NEW m \in SubState, NEW v, NEW s, NEW lv, NEW ver, SubFine(m, v, s, lv, ver),
         NEW x \in Snapshot, ofSession(x, s), m.watch = "reading"
  PROVE  LET w == [m EXCEPT !.watch = "read", !.got = x]
         IN  w \in SubState /\ w.group = m.group /\ w.err = m.err
             /\ SubFine(w, v, s, lv, ver)
<1> DEFINE w == [m EXCEPT !.watch = "read", !.got = x]
<1>1. /\ w \in SubState /\ w.group = m.group /\ w.watch = "read" /\ w.got = x
      /\ w.ready = m.ready /\ w.snap = m.snap /\ w.pending = m.pending /\ w.err = m.err
      /\ w.notify = m.notify /\ w.next = m.next /\ w.resnap = m.resnap /\ w.base = m.base
  BY Zenon DEF SubState
<1>2. "read" # "no" /\ "read" # "done" /\ "reading" # "done" /\ "reading" # "no"
  OBVIOUS
<1>3. m.group # None /\ ~m.ready
  <2>1. ~m.ready
    BY <1>2, Zenon DEF SubFine
  <2>2. m.group # None
    BY <1>2, InUse, Zenon
  <2>3. QED
    BY <2>1, <2>2
<1> HIDE DEF w
<1>4. SubFine(w, v, s, lv, ver)
  BY <1>1, <1>2, <1>3, Zenon DEF SubFine
<1>5. QED
  BY <1>1, <1>4, Zenon DEF w

\* Watch fails: the subscription ended meanwhile or the answer is no snapshot.
LEMMA FailedFine ==
  ASSUME NEW m \in SubState, NEW v, NEW s, NEW lv, NEW ver, SubFine(m, v, s, lv, ver),
         m.watch = "read", NEW e \in {"read", "resync", "closed"}
  PROVE  LET w == terminated([m EXCEPT !.watch = "done", !.got = noSnapshot], e)
         IN  w \in SubState /\ w.group = m.group /\ w.err # "none"
             /\ SubFine(w, v, s, lv, ver)
<1> DEFINE k == [m EXCEPT !.watch = "done", !.got = noSnapshot]
           w == terminated(k, e)
<1>0. noSnapshot \in Snapshot /\ ofSession(noSnapshot, s)
  BY Blank, Zenon
<1>1. /\ k \in SubState /\ k.group = m.group /\ k.watch = "done" /\ k.got = noSnapshot
      /\ k.ready = m.ready /\ k.snap = m.snap /\ k.pending = m.pending /\ k.err = m.err
      /\ k.notify = m.notify /\ k.next = m.next /\ k.resnap = m.resnap /\ k.base = m.base
  BY ZenonT(60), <1>0 DEF SubState
<1>2. m.group # None /\ ~m.ready /\ "done" # "no" /\ e # "none"
  <2>1. "read" # "no" /\ "read" # "done" /\ "done" # "no" /\ e # "none"
    OBVIOUS
  <2>2. m.group # None
    BY <2>1, InUse, Zenon
  <2>3. QED
    BY <2>1, <2>2, Zenon DEF SubFine
<1>3. w \in SubState
  BY <1>1, TerminatedType, Zenon
<1> HIDE DEF k
<1>4. CASE m.err # "none"
  <2>1. w = k
    BY <1>1, <1>4, Zenon DEF terminated
  <2>2. SubFine(k, v, s, lv, ver)
    BY <1>0, <1>1, <1>2, <1>4, Zenon DEF SubFine
  <2>3. QED
    BY <1>1, <1>4, <2>1, <2>2, Zenon DEF k
<1>5. CASE m.err = "none"
  <2>1. w = [k EXCEPT !.err = e, !.pending = <<>>, !.notify = TRUE, !.snap = noSnapshot]
    BY <1>1, <1>5 DEF terminated
  <2>2. /\ w.err = e /\ w.pending = <<>> /\ w.notify /\ w.snap = noSnapshot
        /\ w.group = m.group /\ w.watch = "done" /\ w.got = noSnapshot /\ w.ready = m.ready
        /\ w.next = m.next /\ w.resnap = m.resnap
    BY <1>1, <2>1 DEF SubState
  <2> HIDE DEF w
  <2>3. SubFine(w, v, s, lv, ver)
    BY <1>0, <1>2, <2>2, Zenon DEF SubFine
  <2>4. QED
    BY <1>2, <1>3, <2>2, <2>3, Zenon DEF w, k
<1>6. QED
  BY <1>4, <1>5, Zenon

\* What a subscription becomes when its observer starts over from snap.
LEMMA StartedFine ==
  ASSUME NEW m \in SubState, NEW v, NEW s, NEW lv, NEW ver \in 0..MaxVersion,
         Retains(lv, ver), NEW snap \in Snapshot,
         m.err = "none", m.ready, m.pending = <<>>, m.snap = snap, m.group # None,
         m.watch = "done", ofSession(m.got, s), ofSession(snap, s), ofSession(v.snap, s),
         validSnapshot(snap), m.resnap = "no"
  PROVE  LET x == seedLocked(m, lv, ver)
         IN  /\ x \in SubState /\ x.group = m.group
             /\ SubFine(x, IF x.err # "none" THEN v ELSE newView(snap), s, lv, ver)
<1> DEFINE x == seedLocked(m, lv, ver)
           w == IF x.err # "none" THEN v ELSE newView(snap)
<1>1. /\ newView(snap) \in ViewState /\ newView(snap).snap = snap
      /\ durableFits(newView(snap), snap, <<>>) /\ distinct(<<>>)
      /\ aimed(snap, <<>>) /\ shownFits(newView(snap), lv, ver)
  BY NewViewFits, Zenon
<1>2. Len(<<>>) <= PendingUpdates
  BY WatchOptions
<1>3. Reseeded(x, m, newView(snap), lv, ver)
  BY <1>1, <1>2, SeedFits, Zenon
<1> HIDE DEF x
<1>4. ofSession(w.snap, s) /\ (x.err = "none" => w = newView(snap))
  BY <1>1, Zenon
<1> HIDE DEF w
<1>5. SubFine(x, w, s, lv, ver) /\ x \in SubState
  BY <1>3, <1>4, SeededFine, ZenonT(60)
<1>6. x.group = m.group
  BY <1>3, Zenon DEF Reseeded, sameCalls
<1>7. QED
  BY <1>5, <1>6, Zenon DEF x, w

\* Next hands the head of the queue to the bridge.
LEMMA LookFine ==
  ASSUME NEW m \in SubState, NEW v \in ViewState, NEW s, NEW lv, NEW ver,
         SubFine(m, v, s, lv, ver), m.err = "none", m.ready, m.pending # <<>>,
         m.next = "looking"
  PROVE  LET w == [m EXCEPT !.pending = Tail(m.pending)]
         IN  /\ w \in SubState /\ w.group = m.group /\ w.err = m.err
             /\ Apply(v, Head(m.pending)) \in ViewState
             /\ SubFine(w, Apply(v, Head(m.pending)), s, lv, ver)
<1> DEFINE w == [m EXCEPT !.pending = Tail(m.pending)]
           y == Apply(v, Head(m.pending))
<1>0. m.pending \in Seq(Update) /\ m.snap \in Snapshot
  BY DEF SubState
<1>1. /\ Head(m.pending) \in Update /\ Tail(m.pending) \in Seq(Update)
      /\ Len(Tail(m.pending)) <= Len(m.pending)
  BY <1>0, TailIs
<1>2. /\ w \in SubState /\ w.group = m.group /\ w.watch = m.watch /\ w.got = m.got
      /\ w.ready = m.ready /\ w.snap = m.snap /\ w.pending = Tail(m.pending) /\ w.err = m.err
      /\ w.notify = m.notify /\ w.next = m.next /\ w.resnap = m.resnap /\ w.base = m.base
  BY ZenonT(60), <1>1 DEF SubState
<1>3. Fits(v, m.snap, m.pending, lv, ver) /\ Len(m.pending) <= PendingUpdates
  BY Zenon DEF SubFine
<1>4. y \in ViewState
  BY <1>1, ApplyType, Zenon
<1>5. Fits(y, m.snap, Tail(m.pending), lv, ver) /\ y.snap = m.snap
  BY <1>0, <1>3, ApplyKeeps, Zenon
<1>6. Len(Tail(m.pending)) <= PendingUpdates
  BY <1>0, <1>1, <1>3, WatchOptions
<1>7. "looking" # "waiting" /\ m.group # None /\ m.watch = "done"
  <2>1. "looking" # "waiting"
    OBVIOUS
  <2>2. QED
    BY <2>1, InUse, Zenon DEF SubFine
<1> HIDE DEF w, y
<1>8. SubFine(w, y, s, lv, ver)
  BY <1>2, <1>5, <1>6, <1>7, Zenon DEF SubFine
<1>9. QED
  BY <1>2, <1>4, <1>8, Zenon DEF w, y

\* The observer waits, looks again or is told that its subscription ended.
LEMMA ObserverFine ==
  ASSUME NEW m \in SubState, NEW v, NEW s, NEW lv, NEW ver, SubFine(m, v, s, lv, ver),
         m.group # None, NEW next \in {"looking", "waiting", "ended"},
         NEW notify \in BOOLEAN,
         next # "waiting" \/ (m.pending = <<>> /\ m.err = "none")
  PROVE  LET w == [m EXCEPT !.next = next, !.notify = notify]
         IN  w \in SubState /\ w.group = m.group /\ w.err = m.err
             /\ SubFine(w, v, s, lv, ver)
<1> DEFINE w == [m EXCEPT !.next = next, !.notify = notify]
<1>1. /\ w \in SubState /\ w.group = m.group /\ w.watch = m.watch /\ w.got = m.got
      /\ w.ready = m.ready /\ w.snap = m.snap /\ w.pending = m.pending /\ w.err = m.err
      /\ w.next = next /\ w.resnap = m.resnap /\ w.base = m.base
  BY Zenon DEF SubState
<1> HIDE DEF w
<1>2. SubFine(w, v, s, lv, ver)
  BY <1>1, Zenon DEF SubFine
<1>3. QED
  BY <1>1, <1>2, Zenon DEF w

\* The snapshot a Resnapshot call would replace is no older than its base.
baseFits(m, resnap, base) ==
    (resnap # "no" /\ m.err = "none") =>
      base.store = m.snap.mark.store /\ base.rev <= m.snap.mark.rev

\* Subscription w is m with another Resnapshot call, or none.
calls(w, m) ==
    \E resnap \in {"no", "reading", "read"}, got \in Snapshot, base \in Watermark :
      w = [m EXCEPT !.resnap = resnap, !.got = got, !.base = base]

\* A Resnapshot call begins, or has its answer.
LEMMA ResnapshotFine ==
  ASSUME NEW m \in SubState, NEW v, NEW s, NEW lv, NEW ver, SubFine(m, v, s, lv, ver),
         m.group # None, m.ready, NEW w,
         calls(w, m), baseFits(m, w.resnap, w.base), ofSession(w.got, s)
  PROVE  w \in SubState /\ w.group = m.group /\ w.err = m.err
         /\ SubFine(w, v, s, lv, ver)
<1>0. PICK resnap \in {"no", "reading", "read"}, got \in Snapshot, base \in Watermark :
             w = [m EXCEPT !.resnap = resnap, !.got = got, !.base = base]
  BY Zenon DEF calls
<1>1. /\ w \in SubState /\ w.group = m.group /\ w.watch = m.watch
      /\ w.ready = m.ready /\ w.snap = m.snap /\ w.pending = m.pending /\ w.err = m.err
      /\ w.notify = m.notify /\ w.next = m.next
  BY ZenonT(60), <1>0 DEF SubState
<1>2. SubFine(w, v, s, lv, ver)
  BY <1>1, Zenon DEF SubFine, baseFits
<1>3. QED
  BY <1>1, <1>2, Zenon

-----------------------------------------------------------------------------
(* Polls, and steps that leave a subscription alone.                       *)

\* The texts do not matter to a subscription that has no queue.
LEMMA IdleFine ==
  ASSUME NEW m, NEW v, NEW s, NEW lv, NEW ver, NEW lw, NEW wer,
         SubFine(m, v, s, lv, ver), m.err # "none" \/ ~m.ready
  PROVE  SubFine(m, v, s, lw, wer)
BY Zenon DEF SubFine

\* The session does not matter to a subscription that was never opened.
LEMMA UnwatchedFine ==
  ASSUME NEW m, NEW v, NEW s, NEW t, NEW lv, NEW ver,
         SubFine(m, v, s, lv, ver), m.group = None
  PROVE  SubFine(m, v, t, lv, ver)
BY Zenon DEF SubFine

\* A step of a run of another session leaves a subscription fine.
LEMMA OtherFine ==
  ASSUME NEW lv, NEW ver \in 0..MaxVersion, Retains(lv, ver), NEW r \in Runs, NEW lw,
         LiveStepAt(lv, lw, r, ver), NEW m \in SubState, NEW v \in ViewState, NEW s,
         SubFine(m, v, s, lv, ver), m.err = "none", m.ready, sessionOf[r] # s
  PROVE  SubFine(m, v, s, lw, ver + 1)
<1>1. m.group # None /\ m.snap \in Snapshot /\ m.pending \in Seq(Update)
  BY InUse, Zenon DEF SubState
<1>2. ofSession(m.snap, s) /\ Fits(v, m.snap, m.pending, lv, ver)
  BY <1>1, Zenon DEF SubFine
<1>3. Fits(v, m.snap, m.pending, lw, ver + 1)
  BY <1>1, <1>2, OtherSession, ZenonT(30)
<1>4. QED
  BY <1>3, Zenon DEF SubFine

\* x is subscription m after a step that leaves its observer with view v.
Carried(x, m, v, s, lv, ver) ==
    x \in SubState /\ x.group = m.group /\ SubFine(x, v, s, lv, ver)

\* A step of a run reseeds the subscriptions of its session and leaves them fine
\* (seedSessionLocked).
LEMMA ReseededFine ==
  ASSUME NEW lv, NEW ver \in 0..MaxVersion, Retains(lv, ver), NEW r \in Runs, NEW lw,
         LiveStepAt(lv, lw, r, ver), ver + 1 \in 0..MaxVersion, Retains(lw, ver + 1),
         NEW m \in SubState, NEW v \in ViewState, NEW s,
         SubFine(m, v, s, lv, ver), m.err = "none", m.ready
  PROVE  Carried(seedLocked(m, lw, ver + 1), m, v, s, lw, ver + 1)
<1> DEFINE x == seedLocked(m, lw, ver + 1)
<1>1. m.group # None
  BY InUse, Zenon
<1>2. /\ ofSession(m.got, s) /\ ofSession(m.snap, s) /\ ofSession(v.snap, s)
      /\ validSnapshot(m.snap) /\ m.watch = "done"
      /\ m.resnap # "no" =>
           m.base.store = m.snap.mark.store /\ m.base.rev <= m.snap.mark.rev
      /\ (m.next = "waiting" /\ m.pending # <<>>) => m.notify
      /\ Fits(v, m.snap, m.pending, lv, ver) /\ Len(m.pending) <= PendingUpdates
  BY <1>1, Zenon DEF SubFine
<1>3. shownFits(v, lw, ver + 1)
  <2>1. shownFits(v, lv, ver)
    BY <1>2, Zenon DEF Fits
  <2>2. QED
    BY <2>1, ShownGrows, Zenon
<1>4. /\ durableFits(v, m.snap, m.pending) /\ distinct(m.pending)
      /\ aimed(m.snap, m.pending)
  BY <1>2, Zenon DEF Fits
<1>5. Reseeded(x, m, v, lw, ver + 1)
  BY <1>2, <1>3, <1>4, SeedFits, ZenonT(60)
<1> HIDE DEF x
<1>6. SubFine(x, v, s, lw, ver + 1) /\ x \in SubState
  BY <1>1, <1>2, <1>5, SeededFine, ZenonT(60)
<1>7. x.group = m.group
  BY <1>5, Zenon DEF Reseeded, sameCalls
<1>8. QED
  BY <1>6, <1>7, Zenon DEF x, Carried

\* A poll empties the queue and queues its snapshot.
LEMMA DurableQueued ==
  ASSUME NEW m \in SubState, m.err = "none", m.ready, NEW snap \in Snapshot
  PROVE  LET e == enqueued([m EXCEPT !.snap = snap, !.pending = <<>>], Durable(snap))
         IN  /\ e \in SubState /\ e.group = m.group /\ e.watch = m.watch /\ e.got = m.got
             /\ e.ready = m.ready /\ e.snap = snap /\ e.pending = <<Durable(snap)>>
             /\ e.err = m.err /\ e.notify = TRUE /\ e.next = m.next
             /\ e.resnap = m.resnap /\ e.base = m.base
<1> DEFINE k == [m EXCEPT !.snap = snap, !.pending = <<>>]
           d == Durable(snap)
           e == enqueued(k, d)
<1>0. <<>> \in Seq(Update)
  OBVIOUS
<1>1. /\ k \in SubState /\ k.group = m.group /\ k.watch = m.watch /\ k.got = m.got
      /\ k.ready = m.ready /\ k.snap = snap /\ k.pending = <<>> /\ k.err = m.err
      /\ k.next = m.next /\ k.resnap = m.resnap /\ k.base = m.base
  BY Zenon, <1>0 DEF SubState
<1>2. d \in Update
  BY DEF Update, Durable
<1> HIDE DEF k
<1>3. {i \in DOMAIN k.pending : sameOverlay(k.pending[i], d)} = {}
  BY <1>1
<1>4. ~(Len(k.pending) >= PendingUpdates)
  BY <1>1, WatchOptions
<1>5. e = [k EXCEPT !.pending = Append(k.pending, d), !.notify = TRUE]
  BY <1>1, <1>3, <1>4 DEF enqueued
<1>6. Append(k.pending, d) = <<d>> /\ <<d>> \in Seq(Update)
  BY <1>1, <1>2
<1> HIDE DEF e, d
<1>7. /\ e \in SubState /\ e.group = k.group /\ e.watch = k.watch /\ e.got = k.got
      /\ e.ready = k.ready /\ e.snap = k.snap /\ e.pending = <<d>> /\ e.err = k.err
      /\ e.notify = TRUE /\ e.next = k.next /\ e.resnap = k.resnap /\ e.base = k.base
  BY ZenonT(60), <1>1, <1>5, <1>6 DEF SubState
<1>8. QED
  BY <1>1, <1>7, Zenon DEF e, d, k

\* A queue that holds a newer snapshot only fits the view.
LEMMA DurableFits ==
  ASSUME NEW v \in ViewState, NEW old \in Snapshot, NEW q, durableFits(v, old, q),
         NEW snap \in Snapshot, snap.mark.store = old.mark.store,
         ~(snap.mark.rev <= old.mark.rev)
  PROVE  /\ durableFits(v, snap, <<Durable(snap)>>) /\ distinct(<<Durable(snap)>>)
         /\ aimed(snap, <<Durable(snap)>>) /\ Len(<<Durable(snap)>>) <= PendingUpdates
<1> DEFINE z == <<Durable(snap)>>
<1>1. DOMAIN z = {1} /\ z[1].kind = "durable" /\ z[1].snap = snap
  BY DEF Durable
<1>2. Len(z) <= PendingUpdates
  BY WatchOptions
<1> HIDE DEF z
<1>3. overlays(z) = {} /\ overlays(z) # DOMAIN z
  BY <1>1 DEF overlays
<1>4. v.snap.mark.rev \in Nat /\ old.mark.rev \in Nat /\ snap.mark.rev \in Nat
  BY WatchOptions DEF ViewState, Snapshot, Watermark
<1>5. v.snap.mark.store = old.mark.store /\ v.snap.mark.rev <= old.mark.rev
  <2>1. CASE v.snap = old
    BY <2>1, <1>4
  <2>2. CASE v.snap.mark.store = old.mark.store /\ v.snap.mark.rev < old.mark.rev
    BY <2>2, <1>4
  <2>3. QED
    BY <2>1, <2>2, ZenonT(60) DEF durableFits
<1>6. v.snap.mark.store = snap.mark.store /\ v.snap.mark.rev < snap.mark.rev
  BY <1>4, <1>5
<1>7. durableFits(v, snap, z)
  BY <1>1, <1>3, <1>6, ZenonT(60) DEF durableFits
<1>8. QED
  BY <1>2, <1>3, <1>7, Zenon DEF z, distinct, aimed

\* A poll leaves every subscription of its group fine (replaceLocked).
LEMMA ReplacedFine ==
  ASSUME version \in 0..MaxVersion, Retains(live, version),
         NEW m \in SubState, NEW v \in ViewState, NEW s,
         SubFine(m, v, s, live, version), m.group # None, m.err = "none",
         NEW snap \in Snapshot, ofSession(snap, s)
  PROVE  /\ replaced(m, snap) \in SubState /\ replaced(m, snap).group = m.group
         /\ SubFine(replaced(m, snap), v, s, live, version)
<1>1. CASE ~m.ready \/ (snap.mark.store = m.snap.mark.store /\ snap.mark.rev <= m.snap.mark.rev)
  <2>1. replaced(m, snap) = m
    BY <1>1, Zenon DEF replaced
  <2>2. QED
    BY <2>1, Zenon
<1>2. CASE m.ready /\ snap.mark.store # m.snap.mark.store
  <2>1. replaced(m, snap) = terminated(m, "resync")
    BY <1>2, Zenon DEF replaced
  <2>2. /\ terminated(m, "resync") \in SubState
        /\ SubFine(terminated(m, "resync"), v, s, live, version)
        /\ terminated(m, "resync").group = m.group
    BY TerminatedFine, Zenon
  <2>3. QED
    BY <2>1, <2>2, Zenon
<1>3. CASE m.ready /\ snap.mark.store = m.snap.mark.store /\ ~(snap.mark.rev <= m.snap.mark.rev)
  <2> DEFINE e == enqueued([m EXCEPT !.snap = snap, !.pending = <<>>], Durable(snap))
             x == seedLocked(e, live, version)
  <2>1. replaced(m, snap) = x
    BY <1>3, Zenon DEF replaced
  <2>2. /\ e \in SubState /\ e.group = m.group /\ e.watch = m.watch /\ e.got = m.got
        /\ e.ready = m.ready /\ e.snap = snap /\ e.pending = <<Durable(snap)>>
        /\ e.err = m.err /\ e.notify = TRUE /\ e.next = m.next
        /\ e.resnap = m.resnap /\ e.base = m.base
    BY <1>3, DurableQueued, Zenon
  <2> HIDE DEF e
  <2>3. /\ ofSession(m.got, s) /\ ofSession(v.snap, s)
        /\ validSnapshot(m.snap) /\ m.watch = "done"
        /\ m.resnap # "no" =>
             m.base.store = m.snap.mark.store /\ m.base.rev <= m.snap.mark.rev
        /\ Fits(v, m.snap, m.pending, live, version)
    BY <1>3, Zenon DEF SubFine
  <2>4. m.snap \in Snapshot /\ m.base \in Watermark
    BY DEF SubState
  <2>5. durableFits(v, m.snap, m.pending) /\ shownFits(v, live, version)
    BY <2>3, Zenon DEF Fits
  <2>6. /\ durableFits(v, snap, <<Durable(snap)>>) /\ distinct(<<Durable(snap)>>)
        /\ aimed(snap, <<Durable(snap)>>) /\ Len(<<Durable(snap)>>) <= PendingUpdates
    BY <1>3, <2>4, <2>5, DurableFits, ZenonT(60)
  <2>7. Reseeded(x, e, v, live, version)
    <3>1. /\ e.err = "none" /\ e.ready /\ durableFits(v, e.snap, e.pending)
          /\ distinct(e.pending) /\ aimed(e.snap, e.pending)
          /\ Len(e.pending) <= PendingUpdates
      BY <1>3, <2>2, <2>6, Zenon
    <3>2. QED
      BY <2>2, <2>5, <3>1, SeedFits, ZenonT(60)
  <2> HIDE DEF x
  <2>8. validSnapshot(snap)
    BY <1>3, <2>3, ZenonT(60) DEF validSnapshot
  <2>9. m.resnap # "no" => m.base.store = snap.mark.store /\ m.base.rev <= snap.mark.rev
    <3>1. m.base.rev \in Nat /\ m.snap.mark.rev \in Nat /\ snap.mark.rev \in Nat
      BY <2>4, WatchOptions DEF Watermark, Snapshot
    <3>2. QED
      BY <1>3, <2>3, <3>1
  <2>10. /\ e.group # None /\ e.watch = "done" /\ e.ready /\ ofSession(e.got, s)
         /\ ofSession(e.snap, s) /\ validSnapshot(e.snap)
         /\ e.resnap # "no" =>
              e.base.store = e.snap.mark.store /\ e.base.rev <= e.snap.mark.rev
         /\ (e.next = "waiting" /\ e.pending # <<>>) => e.notify
    BY <1>3, <2>2, <2>3, <2>8, <2>9, ZenonT(60)
  <2>11. SubFine(x, v, s, live, version) /\ x \in SubState
    BY <2>2, <2>3, <2>7, <2>10, SeededFine, ZenonT(60)
  <2>12. x.group = m.group
    BY <2>2, <2>7, Zenon DEF Reseeded, sameCalls
  <2>13. QED
    BY <2>1, <2>11, <2>12, ZenonT(60)
<1>4. QED
  BY <1>1, <1>2, <1>3, ZenonT(60)

-----------------------------------------------------------------------------
(***************************************************************************)
(* The inductive invariant of the service relates the memory of every      *)
(* poller and every call to the subscriptions, and the queue of every      *)
(* subscription to the view of its observer.  The steps below are those of *)
(* a subscription that is registered: the reads of its Watch, Next,        *)
(* Resnapshot and its Close; and those of the store.                       *)
(***************************************************************************)

\* Every variable has its type.
Types ==
    /\ storeID \in StoreIDs /\ rows \in [Sessions -> Row]
    /\ group \in [Groups -> PollerState] /\ sub \in [Subs -> SubState]
    /\ view \in [Subs -> ViewState]
    /\ live \in [Runs -> Live \cup {None}] /\ begun \in [Attempts -> Messages \cup {None}]
    /\ liveBytes \in Nat /\ version \in 0..MaxVersion /\ closed \in BOOLEAN

\* What a poller remembers between its steps.
PollersSound ==
    \A g \in Groups :
      /\ group[g].pc # "free" => group[g].session \in Sessions
      /\ Failed \notin {group[g].mark.store, group[g].base.store}
      /\ ofSession(group[g].read, group[g].session)

\* The session a subscription is for.
subSession(u) == group[sub[u].group].session

\* A registered subscription has a poller, and a session has one of them.
Served ==
    /\ \A u \in registered : group[sub[u].group].pc \notin {"free", "gone"}
    /\ \A u, w \in registered :
         subSession(u) = subSession(w) => sub[u].group = sub[w].group

\* What is retained for a run: the text of an attempt begun for a message of
\* that run, published at a version the service has reached.
LiveSound ==
    \A r \in Runs : live[r] # None =>
      /\ runOf[live[r].msg] = r
      /\ begun[live[r].attempt] = live[r].msg
      /\ live[r].ver <= version
      /\ ~live[r].available => live[r].len = 0

\* Every subscription is fine, and its poller was started.
SubsFine ==
    \A u \in Subs :
      /\ sub[u].group # None => group[sub[u].group].pc # "free"
      /\ SubFine(sub[u], view[u], subSession(u), live, version)

-----------------------------------------------------------------------------
(* The inductive invariant.                                                *)

\* The inductive invariant of the watch service.
WatchInv == /\ Types /\ PollersSound /\ SubsFine /\ Served
            /\ LiveSound /\ LiveAccounted

\* The step keeps subscriptions in their groups and revives none.
SubsKeep ==
    \A u \in Subs : /\ sub'[u].group = sub[u].group
                    /\ sub'[u].err = "none" => sub[u].err = "none"

\* The step keeps pollers with their sessions.
GroupsKeep ==
    \A g \in Groups : group[g].pc # "free" =>
      group'[g].pc # "free" /\ group'[g].session = group[g].session

\* The poller of a subscription that has not ended has not returned.
StillServed ==
    \A u \in Subs : (sub[u].group # None /\ sub'[u].err = "none") =>
      group'[sub[u].group].pc # "gone"

\* The step leaves every subscription fine.
SubsFineNext ==
    \A u \in Subs : SubFine(sub'[u], view'[u], subSession(u), live', version')

\* Together these carry over what is said of subscriptions and pollers.
LEMMA SubsMove ==
  ASSUME Types, SubsFine, Served, SubsKeep, GroupsKeep, StillServed, SubsFineNext
  PROVE  SubsFine' /\ Served'
<1>1. ASSUME NEW u \in Subs
      PROVE  /\ sub'[u].group = sub[u].group
             /\ sub[u].group # None => /\ sub[u].group \in Groups
                                       /\ group'[sub[u].group].pc # "free"
                                       /\ group'[sub[u].group].session = subSession(u)
  <2>1. sub[u].group \in Groups \cup {None}
    BY DEF Types, SubState
  <2>2. sub[u].group # None => group[sub[u].group].pc # "free"
    BY Zenon DEF SubsFine
  <2>3. QED
    BY <2>1, <2>2, ZenonT(60) DEF SubsKeep, GroupsKeep, subSession
<1>2. SubsFine'
  <2>1. SUFFICES ASSUME NEW u \in Subs
                 PROVE  /\ sub'[u].group # None => group'[sub'[u].group].pc # "free"
                        /\ SubFine(sub'[u], view'[u], subSession(u)', live', version')
    BY Zenon DEF SubsFine
  <2>2. SubFine(sub'[u], view'[u], subSession(u), live', version')
    BY Zenon DEF SubsFineNext
  <2>3. CASE sub[u].group = None
    BY <1>1, <2>2, <2>3, UnwatchedFine, ZenonT(60)
  <2>4. CASE sub[u].group # None
    <3>1. subSession(u)' = subSession(u)
      BY <1>1, <2>4, ZenonT(60) DEF subSession
    <3>2. QED
      BY <1>1, <2>2, <2>4, <3>1, ZenonT(60)
  <2>5. QED
    BY <2>3, <2>4, ZenonT(60)
<1>3. \A u \in registered' : u \in registered /\ u \in Subs /\ sub[u].group # None
                              /\ sub'[u].err = "none"
  BY Zenon DEF registered, SubsKeep
<1>4. \A u \in registered' : group'[sub'[u].group].pc \notin {"free", "gone"}
  <2>1. TAKE u \in registered'
  <2>2. u \in Subs /\ sub[u].group # None /\ sub'[u].err = "none"
    BY <1>3, Zenon
  <2>3. group'[sub'[u].group].pc # "free" /\ group'[sub'[u].group].pc # "gone"
    BY <1>1, <2>2, ZenonT(60) DEF StillServed
  <2>4. QED
    BY <2>3
<1>5. \A u, w \in registered' :
        subSession(u)' = subSession(w)' => sub'[u].group = sub'[w].group
  <2>1. ASSUME NEW u \in registered'
        PROVE  u \in registered /\ subSession(u)' = subSession(u)
                 /\ sub'[u].group = sub[u].group
    BY <1>1, <1>3, ZenonT(60) DEF subSession
  <2>2. \A u, w \in registered : subSession(u) = subSession(w) => sub[u].group = sub[w].group
    BY Zenon DEF Served
  <2>3. ASSUME NEW u \in registered', NEW w \in registered', subSession(u)' = subSession(w)'
        PROVE  sub'[u].group = sub'[w].group
    <3>1. /\ u \in registered /\ subSession(u)' = subSession(u) /\ sub'[u].group = sub[u].group
          /\ w \in registered /\ subSession(w)' = subSession(w) /\ sub'[w].group = sub[w].group
      BY <2>1, Zenon
    <3>2. subSession(u) = subSession(w)
      BY <2>3, <3>1, ZenonT(60)
    <3>3. QED
      BY <2>2, <3>1, <3>2, ZenonT(60)
  <2>4. QED
    BY <2>3, Zenon
<1>6. QED
  BY <1>2, <1>4, <1>5, ZenonT(60) DEF Served

\* A step that leaves the texts alone keeps their account.
LEMMA LiveKept ==
  ASSUME LiveSound, LiveAccounted, UNCHANGED liveVars
  PROVE  LiveSound' /\ LiveAccounted'
<1>1. live' = live /\ liveBytes' = liveBytes /\ version' = version /\ begun' = begun
  BY Zenon DEF liveVars
<1>2. LiveSound'
  BY <1>1, ZenonT(60) DEF LiveSound
<1>3. MapThenSumSet(retained, Runs)' = MapThenSumSet(retained, Runs)
  BY <1>1, SumIsTotal, ZenonT(60)
<1>4. liveBytes' = MapThenSumSet(retained, Runs)'
  BY <1>1, <1>3, ZenonT(60) DEF LiveAccounted
<1>5. /\ liveBytes' <= MaxLiveTextBytes
      /\ Cardinality({r \in Runs : live'[r] # None}) <= MaxLiveRuns
  BY <1>1, Zenon DEF LiveAccounted
<1>6. QED
  BY <1>2, <1>4, <1>5, ZenonT(60) DEF LiveAccounted

\* The step changed subscription u to w and the view of its observer to y.
SubMoved(u, w, y) ==
    /\ w \in SubState /\ w.group = sub[u].group
    /\ w.err = "none" => sub[u].err = "none"
    /\ y \in ViewState /\ SubFine(w, y, subSession(u), live, version)
    /\ sub' = [sub EXCEPT ![u] = w] /\ view' = [view EXCEPT ![u] = y]
    /\ UNCHANGED <<storeVars, group, liveVars, closed>>

\* A step of one subscription and its observer keeps the invariant.
LEMMA OneSub ==
  ASSUME WatchInv, NEW u \in Subs, NEW w, NEW y, SubMoved(u, w, y)
  PROVE  WatchInv'
<1>1. /\ storeID' = storeID /\ rows' = rows /\ group' = group /\ live' = live
      /\ liveBytes' = liveBytes /\ version' = version /\ begun' = begun
      /\ closed' = closed
  BY Zenon DEF SubMoved, storeVars, liveVars
<1>2. sub \in [Subs -> SubState] /\ view \in [Subs -> ViewState]
  BY Zenon DEF WatchInv, Types
<1>3. /\ sub' \in [Subs -> SubState] /\ view' \in [Subs -> ViewState]
      /\ sub'[u] = w /\ view'[u] = y
      /\ \A x \in Subs : x # u => sub'[x] = sub[x] /\ view'[x] = view[x]
  BY <1>2 DEF SubMoved
<1>4. Types'
  BY <1>1, <1>3, ZenonT(60) DEF WatchInv, Types
<1>5. PollersSound'
  BY <1>1, Zenon DEF WatchInv, PollersSound
<1>6. LiveSound' /\ LiveAccounted'
  BY LiveKept, Zenon DEF WatchInv, SubMoved
<1>7. SubsKeep
  BY <1>3, Zenon DEF SubMoved, SubsKeep
<1>8. GroupsKeep
  BY <1>1, ZenonT(60) DEF GroupsKeep
<1>9. StillServed
  <2>1. SUFFICES ASSUME NEW x \in Subs, sub[x].group # None, sub'[x].err = "none"
                 PROVE  group'[sub[x].group].pc # "gone"
    BY Zenon DEF StillServed
  <2>2. x \in registered
    BY <1>7, <2>1, ZenonT(60) DEF registered, SubsKeep
  <2>3. group[sub[x].group].pc \notin {"free", "gone"}
    BY <2>2, Zenon DEF WatchInv, Served
  <2>4. QED
    BY <1>1, <2>3
<1>10. SubsFineNext
  <2>1. ASSUME NEW x \in Subs, x # u
        PROVE  SubFine(sub'[x], view'[x], subSession(x), live', version')
    <3>1. SubFine(sub[x], view[x], subSession(x), live, version)
      BY Zenon DEF WatchInv, SubsFine
    <3>2. QED
      BY <1>1, <1>3, <2>1, <3>1, ZenonT(60)
  <2>2. SubFine(sub'[u], view'[u], subSession(u), live', version')
    BY <1>1, <1>3, ZenonT(60) DEF SubMoved
  <2>3. QED
    BY <2>1, <2>2, ZenonT(60) DEF SubsFineNext
<1>11. SubsFine' /\ Served'
  BY <1>7, <1>8, <1>9, <1>10, SubsMove, ZenonT(60) DEF WatchInv
<1>12. QED
  BY <1>4, <1>5, <1>6, <1>11, ZenonT(60) DEF WatchInv

\* What is known of one subscription.
LEMMA SubHas ==
  ASSUME WatchInv, NEW u \in Subs
  PROVE  /\ sub[u] \in SubState /\ view[u] \in ViewState
         /\ SubFine(sub[u], view[u], subSession(u), live, version)
         /\ version \in 0..MaxVersion /\ Retains(live, version)
         /\ view = [view EXCEPT ![u] = view[u]]
         /\ sub[u].group # None => sub[u].group \in Groups /\ subSession(u) \in Sessions
<1>1. /\ sub[u] \in SubState /\ view[u] \in ViewState /\ version \in 0..MaxVersion
      /\ view = [view EXCEPT ![u] = view[u]]
      /\ live \in [Runs -> Live \cup {None}]
  BY DEF WatchInv, Types
<1>2. SubFine(sub[u], view[u], subSession(u), live, version)
  BY Zenon DEF WatchInv, SubsFine
<1>3. Retains(live, version)
  BY <1>1, ZenonT(60) DEF WatchInv, LiveSound, Retains
<1>4. sub[u].group # None => sub[u].group \in Groups
  BY <1>1 DEF SubState
<1>5. sub[u].group # None => subSession(u) \in Sessions
  BY <1>4, Zenon DEF WatchInv, SubsFine, PollersSound, subSession
<1>6. QED
  BY <1>1, <1>2, <1>3, <1>4, <1>5, ZenonT(60)

\* What a read of the store returns is about the session that is read.
LEMMA ReadsAre ==
  ASSUME storeID \in StoreIDs, rows \in [Sessions -> Row], NEW s \in Sessions
  PROVE  /\ \A x \in readMark(s) : /\ x \in Watermark
                                   /\ x # failedMark => x.store # Failed
         /\ \A x \in readSnapshot(s) : x \in Snapshot /\ ofSession(x, s)
<1>1. rows[s] \in Row
  OBVIOUS
<1>2. markOf(s) \in Watermark /\ markOf(s).store # Failed
  BY <1>1, WatchIdentities DEF markOf, Row, Watermark
<1>3. ASSUME NEW x \in readMark(s)
      PROVE  x \in Watermark /\ (x # failedMark => x.store # Failed)
  <2>1. x = markOf(s) \/ x = noMark \/ x = failedMark
    BY DEF readMark
  <2>2. noMark.store # Failed
    BY WatchIdentities DEF noMark
  <2>3. QED
    BY <1>2, <2>1, <2>2, Blank, ZenonT(60)
<1>4. snapshotOf(s) \in Snapshot /\ ofSession(snapshotOf(s), s)
  <2>1. rows[s].run \in [Runs -> RunState] /\ rows[s].msg \in [Messages -> MessageState]
    BY <1>1 DEF Row
  <2>2. snapshotOf(s) \in Snapshot
    BY <1>2, <2>1 DEF snapshotOf, Snapshot, RunState, MessageState
  <2>3. \A r \in Runs : snapshotOf(s).run[r] # "none" => sessionOf[r] = s
    BY DEF snapshotOf
  <2>4. QED
    BY <2>2, <2>3, ZenonT(60) DEF ofSession
<1>5. ASSUME NEW x \in Watermark
      PROVE  emptySnapshot(x) \in Snapshot /\ ofSession(emptySnapshot(x), s)
  BY DEF emptySnapshot, Snapshot, ofSession, RunState, MessageState
<1>6. ASSUME NEW x \in readSnapshot(s)
      PROVE  x \in Snapshot /\ ofSession(x, s)
  <2>1. x = snapshotOf(s) \/ \E y \in readMark(s) : x = emptySnapshot(y)
    BY Zenon DEF readSnapshot
  <2>2. QED
    BY <1>3, <1>4, <1>5, <2>1, ZenonT(60)
<1>7. QED
  BY <1>3, <1>6, ZenonT(60)

-----------------------------------------------------------------------------
(* Watch and Next.                                                         *)

\* Fields a call leaves alone.
LEMMA KeptFields ==
  ASSUME NEW m \in SubState
  PROVE  /\ \A next : [m EXCEPT !.next = next] = [m EXCEPT !.next = next, !.notify = m.notify]
         /\ \A resnap, base : [m EXCEPT !.resnap = resnap, !.base = base] =
                                [m EXCEPT !.resnap = resnap, !.got = m.got, !.base = base]
         /\ \A resnap, got : [m EXCEPT !.resnap = resnap, !.got = got] =
                               [m EXCEPT !.resnap = resnap, !.got = got, !.base = m.base]
BY ZenonT(60) DEF SubState

\* WatchRead keeps the invariant.
LEMMA WatchReadInv ==
  ASSUME WatchInv, NEW u \in Subs, WatchRead(u)
  PROVE  WatchInv'
<1>1. /\ sub[u] \in SubState /\ view[u] \in ViewState
      /\ SubFine(sub[u], view[u], subSession(u), live, version)
      /\ view = [view EXCEPT ![u] = view[u]]
      /\ sub[u].group # None => subSession(u) \in Sessions
  BY SubHas, Zenon
<1>2. sub[u].watch = "reading" /\ "reading" # "no"
  BY DEF WatchRead
<1>3. sub[u].group # None
  BY <1>1, <1>2, InUse, ZenonT(60)
<1>4. PICK x \in readSnapshot(subSession(u)) :
             sub' = [sub EXCEPT ![u] = [sub[u] EXCEPT !.watch = "read", !.got = x]]
  BY Zenon DEF WatchRead, subSession
<1>5. x \in Snapshot /\ ofSession(x, subSession(u))
  <2>1. storeID \in StoreIDs /\ rows \in [Sessions -> Row] /\ subSession(u) \in Sessions
    BY <1>1, <1>3, ZenonT(60) DEF WatchInv, Types
  <2>2. QED
    BY <2>1, ReadsAre, ZenonT(60)
<1> DEFINE w == [sub[u] EXCEPT !.watch = "read", !.got = x]
<1>6. w \in SubState /\ w.group = sub[u].group /\ w.err = sub[u].err
        /\ SubFine(w, view[u], subSession(u), live, version)
  BY <1>1, <1>2, <1>5, ReadFine, ZenonT(60)
<1>7. sub' = [sub EXCEPT ![u] = w] /\ view' = [view EXCEPT ![u] = view[u]]
        /\ UNCHANGED <<storeVars, group, liveVars, closed>>
  BY <1>1, <1>4, ZenonT(60) DEF WatchRead
<1> HIDE DEF w
<1>8. SubMoved(u, w, view[u])
  BY <1>1, <1>6, <1>7, ZenonT(60) DEF SubMoved
<1>9. QED
  BY <1>8, OneSub, ZenonT(60)

\* WatchFinish keeps the invariant: the subscription is seeded for the view it hands
\* over, or ends.
LEMMA WatchFinishInv ==
  ASSUME WatchInv, NEW u \in Subs, WatchFinish(u)
  PROVE  WatchInv'
<1> DEFINE m == [sub[u] EXCEPT !.watch = "done", !.got = noSnapshot]
           snap == sub[u].got
<1>1. /\ sub[u] \in SubState /\ view[u] \in ViewState
      /\ SubFine(sub[u], view[u], subSession(u), live, version)
      /\ version \in 0..MaxVersion /\ Retains(live, version)
      /\ view = [view EXCEPT ![u] = view[u]]
  BY SubHas, ZenonT(60)
<1>2. sub[u].watch = "read" /\ "read" # "no" /\ "read" # "done"
  BY DEF WatchFinish
<1>3. sub[u].group # None
  BY <1>1, <1>2, InUse, ZenonT(60)
<1>4. /\ ofSession(snap, subSession(u)) /\ ofSession(view[u].snap, subSession(u))
      /\ view[u] = noView /\ ~sub[u].ready /\ sub[u].resnap = "no"
      /\ sub[u].pending = <<>> /\ sub[u].snap = noSnapshot
  BY <1>1, <1>2, <1>3, ZenonT(60) DEF SubFine
<1>5. m.err = sub[u].err /\ m.group = sub[u].group
  BY <1>1 DEF SubState
<1>6. UNCHANGED <<storeVars, group, liveVars, closed>>
  BY Zenon DEF WatchFinish
<1>7. CASE m.err # "none" \/ ~validSnapshot(snap)
  <2> DEFINE e == readError(snap)
             w == terminated(m, e)
  <2>1. e \in {"read", "resync", "closed"}
    BY DEF readError
  <2>2. w \in SubState /\ w.group = sub[u].group /\ w.err # "none"
             /\ SubFine(w, view[u], subSession(u), live, version)
    BY <1>1, <1>2, <2>1, FailedFine, ZenonT(60)
  <2>3. sub' = [sub EXCEPT ![u] = w] /\ view' = [view EXCEPT ![u] = view[u]]
    BY <1>1, <1>7, ZenonT(60) DEF WatchFinish
  <2> HIDE DEF w
  <2>4. SubMoved(u, w, view[u])
    BY <1>1, <1>6, <2>2, <2>3, ZenonT(60) DEF SubMoved
  <2>5. QED
    BY <2>4, OneSub, ZenonT(60)
<1>8. CASE m.err = "none" /\ validSnapshot(snap)
  <2> DEFINE k == [m EXCEPT !.ready = TRUE, !.snap = snap]
             x == seedLocked(k, live, version)
             y == IF x.err # "none" THEN view[u] ELSE newView(snap)
  <2>0. noSnapshot \in Snapshot /\ ofSession(noSnapshot, subSession(u))
    BY Blank, ZenonT(60)
  <2>1. /\ k \in SubState /\ k.group = sub[u].group /\ k.watch = "done"
        /\ k.got = noSnapshot /\ k.ready = TRUE /\ k.snap = snap
        /\ k.pending = sub[u].pending /\ k.err = sub[u].err /\ k.resnap = sub[u].resnap
        /\ snap \in Snapshot
    BY ZenonT(60), <1>1, <2>0 DEF SubState
  <2>2. /\ sub' = [sub EXCEPT ![u] = x]
        /\ view' = IF x.err # "none" THEN view ELSE [view EXCEPT ![u] = newView(snap)]
    BY <1>8, ZenonT(60) DEF WatchFinish
  <2>3. view' = [view EXCEPT ![u] = y]
    BY <1>1, <2>2, ZenonT(60)
  <2> HIDE DEF k
  <2>4. /\ x \in SubState /\ x.group = k.group
        /\ SubFine(x, y, subSession(u), live, version)
    <3>1. /\ k.err = "none" /\ k.ready /\ k.pending = <<>> /\ k.group # None
          /\ ofSession(k.got, subSession(u)) /\ k.resnap = "no"
      BY <1>3, <1>4, <1>5, <1>8, <2>0, <2>1, ZenonT(60)
    <3>2. QED
      BY <1>1, <1>4, <1>8, <2>1, <3>1, StartedFine, ZenonT(60)
  <2>5. y \in ViewState
    BY <1>1, <2>1, NewViewFits, ZenonT(60)
  <2> HIDE DEF x, y
  <2>6. SubMoved(u, x, y)
    BY <1>5, <1>6, <1>8, <2>1, <2>2, <2>3, <2>4, <2>5, ZenonT(60) DEF SubMoved
  <2>7. QED
    BY <2>6, OneSub, ZenonT(60)
<1>9. QED
  BY <1>7, <1>8, ZenonT(60)

\* SubClose keeps the invariant.
LEMMA SubCloseInv ==
  ASSUME WatchInv, NEW u \in Subs, SubClose(u)
  PROVE  WatchInv'
<1> DEFINE w == terminated(sub[u], "closed")
<1>1. /\ sub[u] \in SubState /\ view[u] \in ViewState
      /\ SubFine(sub[u], view[u], subSession(u), live, version)
      /\ view = [view EXCEPT ![u] = view[u]]
  BY SubHas, Zenon
<1>2. sub[u].group # None
  BY Zenon DEF SubClose, registered
<1>3. /\ w \in SubState /\ SubFine(w, view[u], subSession(u), live, version)
      /\ w.group = sub[u].group /\ w.err # "none"
  BY <1>1, <1>2, TerminatedFine, ZenonT(60)
<1>4. sub' = [sub EXCEPT ![u] = w] /\ view' = [view EXCEPT ![u] = view[u]]
        /\ UNCHANGED <<storeVars, group, liveVars, closed>>
  BY <1>1, Zenon DEF SubClose
<1> HIDE DEF w
<1>5. SubMoved(u, w, view[u])
  BY <1>1, <1>3, <1>4, ZenonT(60) DEF SubMoved
<1>6. QED
  BY <1>5, OneSub, Zenon

\* The steps of the observer that leave its view alone.
LEMMA ObserverInv ==
  ASSUME WatchInv, NEW u \in Subs, sub[u].group # None,
         NEW next \in {"looking", "waiting", "ended"}, NEW notify \in BOOLEAN,
         next # "waiting" \/ (sub[u].pending = <<>> /\ sub[u].err = "none"),
         sub' = [sub EXCEPT ![u] = [sub[u] EXCEPT !.next = next, !.notify = notify]],
         UNCHANGED <<storeVars, group, liveVars, closed, view>>
  PROVE  WatchInv'
<1> DEFINE w == [sub[u] EXCEPT !.next = next, !.notify = notify]
<1>1. /\ sub[u] \in SubState /\ view[u] \in ViewState
      /\ SubFine(sub[u], view[u], subSession(u), live, version)
      /\ view = [view EXCEPT ![u] = view[u]]
  BY SubHas, Zenon
<1>2. w \in SubState /\ w.group = sub[u].group /\ w.err = sub[u].err
        /\ SubFine(w, view[u], subSession(u), live, version)
  BY <1>1, ObserverFine, ZenonT(60)
<1>3. sub' = [sub EXCEPT ![u] = w] /\ view' = [view EXCEPT ![u] = view[u]]
        /\ UNCHANGED <<storeVars, group, liveVars, closed>>
  BY <1>1, Zenon
<1> HIDE DEF w
<1>4. SubMoved(u, w, view[u])
  BY <1>1, <1>2, <1>3, Zenon DEF SubMoved
<1>5. QED
  BY <1>4, OneSub, ZenonT(60)

\* NextLook keeps the invariant: the update it takes from the queue is one the
\* bridge accepts.
LEMMA NextLookInv ==
  ASSUME WatchInv, NEW u \in Subs, NextLook(u)
  PROVE  WatchInv'
<1> DEFINE m == sub[u]
<1>1. /\ m \in SubState /\ view[u] \in ViewState
      /\ SubFine(m, view[u], subSession(u), live, version)
  BY SubHas, Zenon
<1>2. /\ m.watch = "done" /\ m.ready /\ m.next = "looking"
      /\ UNCHANGED <<storeVars, group, liveVars, closed>>
  BY Zenon DEF NextLook
<1>3. m.group # None
  BY <1>1, <1>2, InUse, ZenonT(60)
<1>4. m.notify \in BOOLEAN
  BY <1>1 DEF SubState
<1>5. \A next : [m EXCEPT !.next = next] = [m EXCEPT !.next = next, !.notify = m.notify]
  BY <1>1, KeptFields, ZenonT(60)
<1>6. CASE m.err # "none"
  <2>1. /\ sub' = [sub EXCEPT ![u] = [m EXCEPT !.next = "ended"]]
        /\ UNCHANGED <<storeVars, group, liveVars, closed, view>>
    BY <1>2, <1>6, ZenonT(60) DEF NextLook
  <2>2. sub' = [sub EXCEPT ![u] = [m EXCEPT !.next = "ended", !.notify = m.notify]]
    BY <1>5, <2>1, ZenonT(60)
  <2>3. "ended" # "waiting" /\ "ended" \in {"looking", "waiting", "ended"}
    OBVIOUS
  <2>4. QED
    BY <1>3, <1>4, <2>1, <2>2, <2>3, ObserverInv, ZenonT(60)
<1>7. CASE m.err = "none" /\ m.pending = <<>>
  <2>1. /\ sub' = [sub EXCEPT ![u] = [m EXCEPT !.next = "waiting"]]
        /\ UNCHANGED <<storeVars, group, liveVars, closed, view>>
    BY <1>2, <1>7, ZenonT(60) DEF NextLook
  <2>2. sub' = [sub EXCEPT ![u] = [m EXCEPT !.next = "waiting", !.notify = m.notify]]
    BY <1>5, <2>1, ZenonT(60)
  <2>3. "waiting" \in {"looking", "waiting", "ended"}
    OBVIOUS
  <2>4. QED
    BY <1>3, <1>4, <1>7, <2>1, <2>2, <2>3, ObserverInv, ZenonT(60)
<1>8. CASE m.err = "none" /\ m.pending # <<>>
  <2> DEFINE w == [m EXCEPT !.pending = Tail(m.pending)]
             y == Apply(view[u], Head(m.pending))
  <2>1. sub' = [sub EXCEPT ![u] = w] /\ view' = [view EXCEPT ![u] = y]
    BY <1>8, ZenonT(60) DEF NextLook
  <2>2. /\ w \in SubState /\ w.group = m.group /\ w.err = m.err
        /\ y \in ViewState
        /\ SubFine(w, y, subSession(u), live, version)
    BY <1>1, <1>2, <1>8, LookFine, ZenonT(60)
  <2> HIDE DEF w, y
  <2>3. SubMoved(u, w, y)
    BY <1>2, <1>8, <2>1, <2>2, ZenonT(60) DEF SubMoved
  <2>4. QED
    BY <2>3, OneSub, Zenon
<1>9. QED
  BY <1>6, <1>7, <1>8, Zenon

\* NextWakes and NextGivesUp keep the invariant.
LEMMA NextWakesInv ==
  ASSUME WatchInv, NEW u \in Subs, NextWakes(u) \/ NextGivesUp(u)
  PROVE  WatchInv'
<1>1. /\ sub[u] \in SubState
      /\ SubFine(sub[u], view[u], subSession(u), live, version)
  BY SubHas, ZenonT(60)
<1>2. /\ sub[u].next = "waiting" /\ "waiting" # "looking"
      /\ UNCHANGED <<storeVars, group, liveVars, closed, view>>
  BY DEF NextWakes, NextGivesUp
<1>3. sub[u].group # None
  BY <1>1, <1>2, InUse, ZenonT(60)
<1>4. sub[u].notify \in BOOLEAN /\ FALSE \in BOOLEAN /\ "looking" \in {"looking", "waiting", "ended"}
  BY <1>1 DEF SubState
<1>5. CASE NextWakes(u)
  <2>1. sub' = [sub EXCEPT ![u] = [sub[u] EXCEPT !.next = "looking", !.notify = FALSE]]
    BY <1>5, ZenonT(60) DEF NextWakes
  <2>2. QED
    BY <1>2, <1>3, <1>4, <2>1, ObserverInv, ZenonT(60)
<1>6. CASE NextGivesUp(u)
  <2>1. sub' = [sub EXCEPT ![u] = [sub[u] EXCEPT !.next = "looking", !.notify = sub[u].notify]]
    BY <1>1, <1>6, KeptFields, ZenonT(60) DEF NextGivesUp
  <2>2. QED
    BY <1>2, <1>3, <1>4, <2>1, ObserverInv, ZenonT(60)
<1>7. QED
  BY <1>5, <1>6, ZenonT(60)

-----------------------------------------------------------------------------
(* Resnapshot, and the database.                                           *)

\* A Resnapshot call begins, has its answer or is given up.
LEMMA CallInv ==
  ASSUME WatchInv, NEW u \in Subs, sub[u].group # None, sub[u].ready,
         NEW resnap \in {"no", "reading", "read"},
         NEW got \in Snapshot, ofSession(got, subSession(u)), NEW base \in Watermark,
         baseFits(sub[u], resnap, base),
         sub' = [sub EXCEPT ![u] =
                   [sub[u] EXCEPT !.resnap = resnap, !.got = got, !.base = base]],
         UNCHANGED <<storeVars, group, liveVars, closed, view>>
  PROVE  WatchInv'
<1> DEFINE w == [sub[u] EXCEPT !.resnap = resnap, !.got = got, !.base = base]
<1>1. /\ sub[u] \in SubState /\ view[u] \in ViewState
      /\ SubFine(sub[u], view[u], subSession(u), live, version)
      /\ view = [view EXCEPT ![u] = view[u]]
  BY SubHas, ZenonT(60)
<1>w. calls(w, sub[u]) /\ w.resnap = resnap /\ w.got = got /\ w.base = base
  <2>1. calls(w, sub[u])
    BY Zenon DEF calls
  <2>2. QED
    BY <2>1, <1>1 DEF SubState
<1>3. sub' = [sub EXCEPT ![u] = w] /\ view' = [view EXCEPT ![u] = view[u]]
        /\ UNCHANGED <<storeVars, group, liveVars, closed>>
  BY <1>1, Zenon
<1> HIDE DEF w
<1>2. w \in SubState /\ w.group = sub[u].group /\ w.err = sub[u].err
        /\ SubFine(w, view[u], subSession(u), live, version)
  <2>1. baseFits(sub[u], w.resnap, w.base) /\ ofSession(w.got, subSession(u))
    BY <1>w, ZenonT(60)
  <2>2. QED
    BY <1>1, <1>w, <2>1, ResnapshotFine, ZenonT(60)
<1>4. SubMoved(u, w, view[u])
  BY <1>1, <1>2, <1>3, ZenonT(60) DEF SubMoved
<1>5. QED
  BY <1>4, OneSub, ZenonT(60)

\* ResnapshotBegin keeps the invariant.
LEMMA ResnapshotBeginInv ==
  ASSUME WatchInv, NEW u \in Subs, ResnapshotBegin(u)
  PROVE  WatchInv'
<1> DEFINE m == sub[u]
<1>1. /\ m \in SubState
      /\ SubFine(m, view[u], subSession(u), live, version)
  BY SubHas, ZenonT(60)
<1>2. /\ m.ready /\ m.err = "none"
      /\ sub' = [sub EXCEPT ![u] = [m EXCEPT !.resnap = "reading", !.base = m.snap.mark]]
      /\ UNCHANGED <<storeVars, group, liveVars, closed, view>>
  BY Zenon DEF ResnapshotBegin
<1>3. m.group # None
  BY <1>1, <1>2, InUse, ZenonT(60)
<1>4. ofSession(m.got, subSession(u))
  BY <1>1, <1>3, ZenonT(60) DEF SubFine
<1>5. m.got \in Snapshot /\ m.snap.mark \in Watermark /\ m.snap.mark.rev <= m.snap.mark.rev
  BY <1>1, WatchOptions DEF SubState, Snapshot, Watermark
<1>6. sub' = [sub EXCEPT ![u] =
                [m EXCEPT !.resnap = "reading", !.got = m.got, !.base = m.snap.mark]]
  BY <1>1, <1>2, KeptFields, ZenonT(60)
<1>7. "reading" \in {"no", "reading", "read"}
  OBVIOUS
<1>8. QED
  <2>1. baseFits(m, "reading", m.snap.mark)
    BY <1>5, Zenon DEF baseFits
  <2>2. QED
    BY <1>2, <1>3, <1>4, <1>5, <1>6, <1>7, <2>1, CallInv, ZenonT(60)

\* ResnapshotRead keeps the invariant.
LEMMA ResnapshotReadInv ==
  ASSUME WatchInv, NEW u \in Subs, ResnapshotRead(u)
  PROVE  WatchInv'
<1> DEFINE m == sub[u]
<1>1. /\ m \in SubState
      /\ SubFine(m, view[u], subSession(u), live, version)
      /\ m.group # None => subSession(u) \in Sessions
  BY SubHas, ZenonT(60)
<1>2. /\ m.resnap = "reading" /\ "reading" # "no"
      /\ UNCHANGED <<storeVars, group, liveVars, closed, view>>
  BY DEF ResnapshotRead
<1>3. m.group # None /\ m.ready
  <2>1. m.group # None
    BY <1>1, <1>2, InUse, ZenonT(60)
  <2>2. QED
    BY <1>1, <1>2, <2>1, ZenonT(60) DEF SubFine
<1>4. PICK x \in readSnapshot(subSession(u)) :
             sub' = [sub EXCEPT ![u] = [m EXCEPT !.resnap = "read", !.got = x]]
  BY ZenonT(60) DEF ResnapshotRead, subSession
<1>5. x \in Snapshot /\ ofSession(x, subSession(u))
  <2>1. storeID \in StoreIDs /\ rows \in [Sessions -> Row] /\ subSession(u) \in Sessions
    BY <1>1, <1>3, ZenonT(60) DEF WatchInv, Types
  <2>2. QED
    BY <2>1, ReadsAre, Zenon
<1>6. m.base \in Watermark /\ "read" \in {"no", "reading", "read"}
  BY <1>1 DEF SubState
<1>7. sub' = [sub EXCEPT ![u] =
                [m EXCEPT !.resnap = "read", !.got = x, !.base = m.base]]
  BY <1>1, <1>4, KeptFields, ZenonT(60)
<1>8. baseFits(m, "read", m.base)
  BY <1>1, <1>2, ZenonT(60) DEF SubFine, baseFits
<1>9. QED
  BY <1>2, <1>3, <1>5, <1>6, <1>7, <1>8, CallInv, ZenonT(60)

\* ResnapshotFinish keeps the invariant, also when a poll replaced the snapshot
\* while the store was read.
LEMMA ResnapshotFinishInv ==
  ASSUME WatchInv, NEW u \in Subs, ResnapshotFinish(u)
  PROVE  WatchInv'
<1> DEFINE m == [sub[u] EXCEPT !.resnap = "no", !.got = noSnapshot, !.base = noMark]
           got == sub[u].got
           snap == IF m.snap.mark.rev > got.mark.rev THEN m.snap ELSE got
           bad == \/ m.err # "none"
                  \/ ~validSnapshot(got)
                  \/ got.mark.store # sub[u].base.store
                  \/ got.mark.rev < sub[u].base.rev
<1>1. /\ sub[u] \in SubState /\ view[u] \in ViewState
      /\ SubFine(sub[u], view[u], subSession(u), live, version)
      /\ version \in 0..MaxVersion /\ Retains(live, version)
      /\ view = [view EXCEPT ![u] = view[u]]
  BY SubHas, Zenon
<1>2. sub[u].resnap = "read" /\ "read" # "no"
  BY DEF ResnapshotFinish
<1>3. sub[u].group # None
  BY <1>1, <1>2, InUse, ZenonT(60)
<1>4. /\ sub[u].ready /\ sub[u].watch = "done"
      /\ ofSession(got, subSession(u)) /\ ofSession(sub[u].snap, subSession(u))
      /\ ofSession(view[u].snap, subSession(u))
      /\ sub[u].err = "none" => validSnapshot(sub[u].snap)
  BY <1>1, <1>2, <1>3, ZenonT(60) DEF SubFine
<1>5. noSnapshot \in Snapshot /\ noMark \in Watermark /\ ofSession(noSnapshot, subSession(u))
  BY Blank, Zenon
<1>6. UNCHANGED <<storeVars, group, liveVars, closed>>
  BY Zenon DEF ResnapshotFinish
<1>7. /\ m \in SubState /\ m.group = sub[u].group /\ m.watch = sub[u].watch
      /\ m.got = noSnapshot /\ m.ready = sub[u].ready /\ m.snap = sub[u].snap
      /\ m.err = sub[u].err /\ m.resnap = "no"
  BY ZenonT(60), <1>1, <1>5 DEF SubState
<1>8. CASE bad
  <2> DEFINE e == readError(got)
             w == terminated(m, e)
  <2>1. e \in {"read", "resync", "closed"} /\ "no" \in {"no", "reading", "read"}
    BY DEF readError
  <2>2. SubFine(m, view[u], subSession(u), live, version)
    <3>1. calls(m, sub[u])
      BY <1>5, <2>1, ZenonT(60) DEF calls
    <3> HIDE DEF m
    <3>2. baseFits(sub[u], m.resnap, m.base) /\ ofSession(m.got, subSession(u))
      BY <1>5, <1>7, ZenonT(60) DEF baseFits
    <3>3. QED
      BY <1>1, <1>3, <1>4, <3>1, <3>2, ResnapshotFine, ZenonT(60)
  <2>3. sub' = [sub EXCEPT ![u] = w] /\ view' = [view EXCEPT ![u] = view[u]]
    BY <1>1, <1>8, ZenonT(60) DEF ResnapshotFinish
  <2> HIDE DEF m, e
  <2>4. /\ w \in SubState /\ SubFine(w, view[u], subSession(u), live, version)
        /\ w.group = m.group /\ w.err # "none"
    BY <1>3, <1>7, <2>1, <2>2, TerminatedFine, ZenonT(60)
  <2> HIDE DEF w
  <2>5. SubMoved(u, w, view[u])
    BY <1>1, <1>6, <1>7, <2>3, <2>4, ZenonT(60) DEF SubMoved
  <2>6. QED
    BY <2>5, OneSub, Zenon
<1>9. CASE ~bad
  <2> DEFINE k == [m EXCEPT !.pending = <<>>, !.snap = snap]
             x == seedLocked(k, live, version)
             y == IF x.err # "none" THEN view[u] ELSE newView(snap)
  <2>1. m.err = "none" /\ validSnapshot(got)
    BY <1>9, Zenon
  <2>2. snap = sub[u].snap \/ snap = got
    BY <1>7, ZenonT(60)
  <2>3. /\ sub' = [sub EXCEPT ![u] = x]
        /\ view' = IF x.err # "none" THEN view ELSE [view EXCEPT ![u] = newView(snap)]
    BY <1>9, ZenonT(60) DEF ResnapshotFinish
  <2> HIDE DEF snap, m, x
  <2>4. view' = [view EXCEPT ![u] = y]
    BY <1>1, <2>3, ZenonT(60)
  <2>5. /\ snap \in Snapshot /\ ofSession(snap, subSession(u)) /\ validSnapshot(snap)
    <3>1. sub[u].snap \in Snapshot /\ got \in Snapshot
      BY <1>1 DEF SubState
    <3>2. QED
      BY <1>4, <1>7, <2>1, <2>2, <3>1, ZenonT(60)
  <2>6. <<>> \in Seq(Update)
    OBVIOUS
  <2>7. /\ k \in SubState /\ k.group = m.group /\ k.watch = m.watch
        /\ k.got = m.got /\ k.ready = m.ready /\ k.snap = snap
        /\ k.pending = <<>> /\ k.err = m.err /\ k.resnap = m.resnap
    BY ZenonT(60), <1>7, <2>5, <2>6 DEF SubState
  <2> HIDE DEF k
  <2>8. /\ x \in SubState /\ x.group = k.group
        /\ SubFine(x, y, subSession(u), live, version)
    <3>1. /\ k.err = "none" /\ k.ready /\ k.group # None /\ k.watch = "done"
          /\ ofSession(k.got, subSession(u)) /\ k.resnap = "no"
      BY <1>3, <1>4, <1>5, <1>7, <2>1, <2>7, ZenonT(60)
    <3>2. QED
      BY <1>1, <1>4, <2>5, <2>7, <3>1, StartedFine, ZenonT(60) DEF x
  <2>9. y \in ViewState
    BY <1>1, <2>5, NewViewFits, ZenonT(60)
  <2> HIDE DEF x, y
  <2>10. SubMoved(u, x, y)
    BY <1>6, <1>7, <2>1, <2>3, <2>4, <2>7, <2>8, <2>9, ZenonT(60) DEF SubMoved
  <2>11. QED
    BY <2>10, OneSub, Zenon
<1>10. QED
  BY <1>8, <1>9, ZenonT(60)

-----------------------------------------------------------------------------
(* Steps of the database. *)

\* A step of the database alone keeps the invariant.
LEMMA ServiceStands ==
  ASSUME WatchInv, UNCHANGED serviceVars, storeID' \in StoreIDs, rows' \in [Sessions -> Row]
  PROVE  WatchInv'
<1>1. /\ group' = group /\ sub' = sub /\ live' = live /\ liveBytes' = liveBytes
      /\ version' = version /\ closed' = closed /\ begun' = begun /\ view' = view
      /\ UNCHANGED liveVars
  BY Zenon DEF serviceVars, liveVars
<1>2. Types'
  BY <1>1, Zenon DEF WatchInv, Types
<1>3. PollersSound'
  BY <1>1, Zenon DEF WatchInv, PollersSound
<1>4. SubsFine'
  BY <1>1, ZenonT(60) DEF WatchInv, SubsFine, subSession
<1>5. Served'
  BY <1>1, ZenonT(60) DEF WatchInv, Served, subSession, registered
<1>6. LiveSound' /\ LiveAccounted'
  BY <1>1, LiveKept, Zenon DEF WatchInv
<1>7. QED
  BY <1>2, <1>3, <1>4, <1>5, <1>6, ZenonT(60) DEF WatchInv

\* Commit and StoreReplaced keep the invariant.
LEMMA StoreStepInv ==
  ASSUME WatchInv, StoreStep
  PROVE  WatchInv'
<1>0. storeID \in StoreIDs /\ rows \in [Sessions -> Row]
  BY Zenon DEF WatchInv, Types
<1>1. ASSUME NEW s \in Sessions, Commit(s)
      PROVE  WatchInv'
  <2>1. PICK run \in [Runs -> RunState], msg \in [Messages -> MessageState] :
          rows' = [rows EXCEPT ![s] = [rev |-> rows[s].rev + 1, run |-> run, msg |-> msg]]
    BY ZenonT(60), <1>0, <1>1 DEF Commit
  <2>2. rows[s].rev + 1 \in 0..MaxRevision
    BY <1>0, <1>1, WatchOptions DEF Commit, Row
  <2>3. [rev |-> rows[s].rev + 1, run |-> run, msg |-> msg] \in Row
    BY <2>2 DEF Row
  <2>4. rows' \in [Sessions -> Row]
    BY <1>0, <2>1, <2>3, ZenonT(60)
  <2>5. UNCHANGED serviceVars /\ storeID' \in StoreIDs
    BY <1>0, <1>1, ZenonT(60) DEF Commit
  <2>6. QED
    BY <2>4, <2>5, ServiceStands, ZenonT(60)
<1>2. ASSUME NEW id \in Replacements, StoreReplaced(id)
      PROVE  WatchInv'
  <2>1. noRow \in Row
    BY WatchOptions DEF noRow, Row, RunState, MessageState
  <2>2. rows' \in [Sessions -> Row]
    BY <1>2, <2>1 DEF StoreReplaced
  <2>3. UNCHANGED serviceVars /\ storeID' \in StoreIDs
    BY <1>2, WatchIdentities DEF StoreReplaced
  <2>4. QED
    BY <2>2, <2>3, ServiceStands, ZenonT(60)
<1>3. QED
  BY <1>1, <1>2, Zenon DEF StoreStep

=============================================================================
