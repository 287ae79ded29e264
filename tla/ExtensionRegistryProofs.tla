----------------------- MODULE ExtensionRegistryProofs -----------------------
(***************************************************************************)
(* Proofs about the extension registry, for any sets of mounts, plans and  *)
(* closers, any number of cleanups and any queue size: the lease count of  *)
(* a mount is exact, its cleanups run once and after its last callback,    *)
(* and Flush is a barrier.                                                 *)
(***************************************************************************)
EXTENDS ExtensionRegistry, FiniteSetTheorems, TLAPS

-----------------------------------------------------------------------------
(* The inductive invariant.                                                *)

\* Task i of plan p waits or runs.
holds(p, i) ==
    \/ worker[p] # None /\ worker[p].id = i
    \/ \E j \in 1 .. Len(queue[p]) : queue[p][j].id = i

\* A plan holds no task twice, only tasks that were accepted, and Flush's
\* marker only once Flush was called.
Distinct ==
    \A p \in Plans :
       /\ \A j, k \in 1 .. Len(queue[p]) : queue[p][j].id = queue[p][k].id => j = k
       /\ worker[p] # None => \A j \in 1 .. Len(queue[p]) : queue[p][j].id # worker[p].id
       /\ \A i \in 0 .. Notices : holds(p, i) => i <= Len(accepted)
       /\ plan[p].flush = "idle" => ~holds(p, Marker)

\* A plan leases nothing before its snapshot, and a running hook belongs to a
\* mount that the open plan leases.
Planned ==
    \A p \in Plans :
       /\ plan[p].stage = "none" => plan[p].left = {}
       /\ plan[p].hook \in Mounts => plan[p].stage = "open" /\ plan[p].hook \in plan[p].left

\* The count of every mount is the number of its leases.
Leased ==
    \A m \in Mounts : IsFiniteSet(leasesOf(m)) /\ mount[m].refs = Cardinality(leasesOf(m))

\* A mount drains for good, and is leased only once it is committed.
Mounted ==
    \A m \in Mounts :
       /\ mount[m].drained => mount[m].stage = "inactive" /\ mount[m].refs = 0
       /\ mount[m].stage \in {"new", "prepared", "discarded"} => mount[m].refs = 0

\* Cleanups run on a drained mount, or on one that was never committed.
Cleaned ==
    /\ \A c \in Closers :
          /\ closer[c].at \in {"draining", "cleaning"} => closer[c].mount \in Mounts
          /\ closer[c].at = "cleaning" => mount[closer[c].mount].drained
    /\ \A m \in Mounts, e \in EffectIDs :
          /\ effect[m][e].runs <= 1
          /\ ~effect[m][e].done => effect[m][e].runs = 0
          /\ effect[m][e].runs > 0 => mount[m].drained \/ mount[m].stage = "discarded"

\* An accepted notification is delivered or held, and what was accepted before
\* Flush is ahead of Flush's marker.
Ahead(p, i, j) ==
    \/ i \in finished
    \/ worker[p] # None /\ worker[p].id = i
    \/ \E k \in 1 .. (j - 1) : queue[p][k].id = i

Ordered ==
    \A p \in Plans :
       /\ \A i \in acceptedOf(p) : i \in finished \/ holds(p, i)
       /\ plan[p].before \subseteq acceptedOf(p)
       /\ worker[p] # None /\ worker[p].id = Marker => plan[p].before \subseteq finished
       /\ \A j \in 1 .. Len(queue[p]) :
             queue[p][j].id = Marker => \A i \in plan[p].before : Ahead(p, i, j)
       /\ plan[p].flush = "flushed" => plan[p].before \subseteq finished

\* The inductive invariant.
RegistryInv ==
    /\ RegistryTypeOK /\ Distinct /\ Planned /\ Leased /\ Mounted /\ Cleaned /\ Ordered
    /\ ListedWhileActive

-----------------------------------------------------------------------------
(* Types.                                                                  *)

\* What the provers know of a queue that grows at its end.
LEMMA AppendFacts ==
    ASSUME NEW S, NEW s \in Seq(S), NEW e \in S
    PROVE  /\ Append(s, e) \in Seq(S) /\ Len(Append(s, e)) = Len(s) + 1
           /\ Append(s, e)[Len(s) + 1] = e /\ Len(s) + 1 \in 1 .. Len(Append(s, e))
           /\ \A j \in 1 .. Len(s) : Append(s, e)[j] = s[j] /\ j \in 1 .. Len(Append(s, e))
           /\ \A j \in 1 .. Len(Append(s, e)) : j \in 1 .. Len(s) \/ j = Len(s) + 1
           /\ \A j \in 1 .. Len(s) : j # Len(s) + 1
<1>1. /\ Append(s, e) \in Seq(S) /\ Len(Append(s, e)) = Len(s) + 1 /\ Len(s) \in Nat
      /\ \A j \in 1 .. Len(s) : Append(s, e)[j] = s[j]
      /\ Append(s, e)[Len(s) + 1] = e
  OBVIOUS
<1>. QED  BY <1>1

\* What the provers know of a queue that is served at its head.
LEMMA TailFacts ==
    ASSUME NEW S, NEW s \in Seq(S), s # <<>>
    PROVE  /\ Len(s) \in Nat \ {0} /\ Head(s) = s[1] /\ Head(s) \in S /\ 1 \in 1 .. Len(s)
           /\ Tail(s) \in Seq(S) /\ Len(Tail(s)) = Len(s) - 1
           /\ \A j \in 1 .. Len(Tail(s)) :
                 j + 1 \in 1 .. Len(s) /\ j + 1 # 1 /\ Tail(s)[j] = s[j + 1]
           /\ \A j \in 1 .. Len(s) :
                 j = 1 \/ (j - 1 \in 1 .. Len(Tail(s)) /\ Tail(s)[j - 1] = s[j])
<1>1. /\ Len(s) \in Nat \ {0} /\ Head(s) = s[1] /\ Head(s) \in S
      /\ Tail(s) \in Seq(S) /\ Len(Tail(s)) = Len(s) - 1
      /\ \A j \in 1 .. Len(s) - 1 : Tail(s)[j] = s[j + 1]
  OBVIOUS
<1>. QED  BY <1>1

\* A queue with room takes one more task.
LEMMA QueueGrows ==
    ASSUME RegistryTypeOK, NEW p \in Plans, NEW t \in Task, Len(queue[p]) < QueueSize,
           queue' = [queue EXCEPT ![p] = Append(queue[p], t)]
    PROVE  /\ queue' \in [Plans -> Seq(Task)] /\ \A q \in Plans : Len(queue'[q]) <= QueueSize
           /\ queue'[p] = Append(queue[p], t) /\ \A q \in Plans : q # p => queue'[q] = queue[q]
<1>1. queue \in [Plans -> Seq(Task)] /\ \A q \in Plans : Len(queue[q]) <= QueueSize
  BY Zenon DEF RegistryTypeOK
<1>2. Append(queue[p], t) \in Seq(Task) /\ Len(Append(queue[p], t)) = Len(queue[p]) + 1
  BY Zenon, <1>1, AppendFacts
<1>3. /\ queue' \in [Plans -> Seq(Task)] /\ queue'[p] = Append(queue[p], t)
      /\ \A q \in Plans : q # p => queue'[q] = queue[q]
  BY Zenon, <1>1, <1>2
<1>4. Len(queue'[p]) <= QueueSize
  <2>1. queue[p] \in Seq(Task)
    BY Zenon, <1>1
  <2>2. Len(queue[p]) \in Nat
    BY <2>1
  <2>. QED  BY <1>2, <1>3, <2>2, RegistryOptions
<1>. QED  BY Zenon, <1>1, <1>3, <1>4

\* A mount and a plan with these fields.
MountIs(r, g, n, d) == r \in MountState /\ r.stage = g /\ r.refs = n /\ r.drained = d
\* A plan's record, field by field.
PlanIs(r, g, l, h, f, b) ==
    /\ r \in PlanState /\ r.stage = g /\ r.left = l /\ r.hook = h
    /\ r.flush = f /\ r.before = b

\* One mount changes.
LEMMA MountChanges ==
    ASSUME RegistryTypeOK, NEW m \in Mounts, NEW x \in MountState, becomes(m, x)
    PROVE  /\ mount' \in [Mounts -> MountState] /\ mount'[m] = x
           /\ \A k \in Mounts : k # m => mount'[k] = mount[k]
  BY Zenon DEF RegistryTypeOK, becomes

\* One plan changes.
LEMMA PlanChanges ==
    ASSUME RegistryTypeOK, NEW p \in Plans, NEW x \in PlanState, planned(p, x)
    PROVE  /\ plan' \in [Plans -> PlanState] /\ plan'[p] = x
           /\ \A q \in Plans : q # p => plan'[q] = plan[q]
  BY Zenon DEF RegistryTypeOK, planned

\* A mount and a plan have the fields of their records.
LEMMA Fields ==
    ASSUME RegistryTypeOK
    PROVE  /\ \A m \in Mounts :
                 /\ mount[m] \in MountState /\ mount[m].refs \in Nat
                 /\ mount[m].drained \in BOOLEAN
           /\ \A p \in Plans :
                 /\ plan[p] \in PlanState /\ plan[p].left \subseteq Mounts
                 /\ plan[p].before \subseteq 1 .. Notices
                 /\ queue[p] \in Seq(Task) /\ Len(queue[p]) \in Nat
                 /\ \A j \in 1 .. Len(queue[p]) : queue[p][j] \in Task
           /\ \A t \in Task : /\ t.id \in 0 .. Notices
                              /\ t.id = Marker => t.mount = None
                              /\ t.id # Marker => t.mount \in Mounts /\ t.id \in 1 .. Notices
<1>1. \A m \in Mounts : /\ mount[m] \in MountState /\ mount[m].refs \in Nat
                        /\ mount[m].drained \in BOOLEAN
  BY Zenon DEF RegistryTypeOK, MountState
<1>2. \A p \in Plans : /\ plan[p] \in PlanState /\ plan[p].left \subseteq Mounts
                       /\ plan[p].before \subseteq 1 .. Notices
  BY Zenon DEF RegistryTypeOK, PlanState
<1>3. \A p \in Plans : /\ queue[p] \in Seq(Task) /\ Len(queue[p]) \in Nat
                       /\ \A j \in 1 .. Len(queue[p]) : queue[p][j] \in Task
  BY DEF RegistryTypeOK
<1>4. \A t \in Task : /\ t.id \in 0 .. Notices
                      /\ t.id = Marker => t.mount = None
                      /\ t.id # Marker => t.mount \in Mounts /\ t.id \in 1 .. Notices
  BY RegistryOptions DEF Task, Marker
<1>. QED  BY Zenon, <1>1, <1>2, <1>3, <1>4

\* What a mount becomes when it changes its stage, gains or gives back a lease.
LEMMA StageMoves ==
    ASSUME NEW r \in MountState, NEW g \in {"prepared", "discarded", "active"}
    PROVE  MountIs([r EXCEPT !.stage = g], g, r.refs, r.drained)
  BY Zenon DEF MountState, MountIs

\* Deactivate leaves a mount's record well typed, drained when no lease is out.
LEMMA DrainMoves ==
    ASSUME NEW r \in MountState
    PROVE  MountIs([r EXCEPT !.stage = "inactive", !.drained = r.refs = 0],
                   "inactive", r.refs, r.refs = 0)
  BY Zenon DEF MountState, MountIs

\* retain leaves a mount's record well typed.
LEMMA RetainMoves ==
    ASSUME NEW r \in MountState
    PROVE  MountIs([r EXCEPT !.refs = @ + 1], r.stage, r.refs + 1, r.drained)
  BY DEF MountState, MountIs

\* release leaves a leased mount's record well typed.
LEMMA ReleaseMoves ==
    ASSUME NEW r \in MountState
    PROVE  LET left == IF r.refs > 0 THEN r.refs - 1 ELSE 0
           IN  MountIs(release(r), r.stage, left, r.drained \/ (left = 0 /\ r.stage # "active"))
<1>. DEFINE left == IF r.refs > 0 THEN r.refs - 1 ELSE 0
            d == r.drained \/ (left = 0 /\ r.stage # "active")
<1>1. left \in Nat /\ d \in BOOLEAN
  BY DEF MountState
<1>2. release(r) = [r EXCEPT !.refs = left, !.drained = d]
  BY Zenon DEF release
<1>. HIDE DEF left, d
<1>3. MountIs(release(r), r.stage, left, d)
  BY Zenon, <1>1, <1>2 DEF MountState, MountIs
<1>. QED  BY Zenon, <1>3 DEF left, d

\* What a plan becomes when its run, its hook or its Flush moves on.
LEMMA OpenMoves ==
    ASSUME NEW r \in PlanState, NEW ms \in SUBSET Mounts
    PROVE  PlanIs([r EXCEPT !.stage = "open", !.left = ms], "open", ms, r.hook, r.flush, r.before)
  BY Zenon DEF PlanState, PlanIs

\* Entering and leaving a hook leaves a plan's record well typed.
LEMMA HookMoves ==
    ASSUME NEW r \in PlanState, NEW h \in Mounts \cup {"returned"}
    PROVE  PlanIs([r EXCEPT !.hook = h], r.stage, r.left, h, r.flush, r.before)
  BY Zenon DEF PlanState, PlanIs

\* So does the return of Flush's marker.
LEMMA FlushedMoves ==
    ASSUME NEW r \in PlanState
    PROVE  PlanIs([r EXCEPT !.flush = "flushed"], r.stage, r.left, r.hook, "flushed", r.before)
  BY Zenon DEF PlanState, PlanIs

\* So does Flush.
LEMMA FlushMoves ==
    ASSUME NEW r \in PlanState, NEW f \in {"waiting", "ending"}, NEW b \in SUBSET (1 .. Notices)
    PROVE  PlanIs([r EXCEPT !.flush = f, !.before = b], r.stage, r.left, r.hook, f, b)
  BY Zenon DEF PlanState, PlanIs

\* So does closing the queue of a released plan.
LEMMA ShutMoves ==
    ASSUME NEW r \in PlanState
    PROVE  PlanIs([r EXCEPT !.stage = "closed"], "closed", r.left, r.hook, r.flush, r.before)
  BY Zenon DEF PlanState, PlanIs

\* So does giving back the lease of one mount.
LEMMA LeaveMoves ==
    ASSUME NEW r \in PlanState, NEW m \in Mounts
    PROVE  PlanIs([r EXCEPT !.left = @ \ {m}], r.stage, r.left \ {m}, r.hook, r.flush, r.before)
  BY Zenon DEF PlanState, PlanIs

\* The notifications that a plan accepted have the numbers they were given.
LEMMA AcceptedIDs ==
    ASSUME RegistryTypeOK, NEW p \in Plans
    PROVE  acceptedOf(p) \subseteq 1 .. Notices
<1>1. Len(accepted) \in Nat /\ Len(accepted) <= Notices
  BY DEF RegistryTypeOK
<1>2. 1 .. Len(accepted) \subseteq 1 .. Notices
  BY <1>1, RegistryOptions
<1>. QED  BY Zenon, <1>2 DEF acceptedOf

\* What each operation does to its mount or its plan.
LEMMA DiscardShape ==
    ASSUME RegistryTypeOK, NEW m \in Mounts, PrepareMount(m) \/ Rollback(m)
    PROVE  /\ mount' \in [Mounts -> MountState]
           /\ mount[m].stage \in {"new", "prepared"} /\ mount'[m].stage \in {"prepared", "discarded"}
           /\ mount'[m].refs = mount[m].refs /\ mount'[m].drained = mount[m].drained
           /\ \A k \in Mounts : k # m => mount'[k] = mount[k]
           /\ effect' = effect \/ (mount'[m].stage = "discarded" /\ allRan(m))
<1>1. /\ mount[m].stage \in {"new", "prepared"}
      /\ \E g \in {"prepared", "discarded"} :
            /\ becomes(m, [mount[m] EXCEPT !.stage = g])
            /\ (effect' = effect \/ (g = "discarded" /\ allRan(m)))
  BY Zenon DEF PrepareMount, Rollback
<1>2. PICK g \in {"prepared", "discarded"} :
         /\ becomes(m, [mount[m] EXCEPT !.stage = g])
         /\ (effect' = effect \/ (g = "discarded" /\ allRan(m)))
  BY Zenon, <1>1
<1>3. MountIs([mount[m] EXCEPT !.stage = g], g, mount[m].refs, mount[m].drained)
  BY Zenon, Fields, StageMoves
<1>4. /\ mount' \in [Mounts -> MountState] /\ mount'[m].stage = g
      /\ mount'[m].refs = mount[m].refs /\ mount'[m].drained = mount[m].drained
      /\ \A k \in Mounts : k # m => mount'[k] = mount[k]
  <2>1. /\ mount' \in [Mounts -> MountState] /\ mount'[m] = [mount[m] EXCEPT !.stage = g]
        /\ \A k \in Mounts : k # m => mount'[k] = mount[k]
    BY Zenon, <1>2, <1>3, MountChanges DEF MountIs
  <2>. QED  BY Zenon, <1>3, <2>1 DEF MountIs
<1>. QED  BY Zenon, <1>1, <1>2, <1>4

\* What Commit does to the mounts.
LEMMA CommitShape ==
    ASSUME RegistryTypeOK, NEW m \in Mounts, CommitMount(m)
    PROVE  /\ mount' \in [Mounts -> MountState] /\ mount'[m].stage = "active"
           /\ mount'[m].refs = mount[m].refs /\ mount'[m].drained = mount[m].drained
           /\ \A k \in Mounts : k # m => mount'[k] = mount[k]
<1>1. MountIs([mount[m] EXCEPT !.stage = "active"], "active", mount[m].refs, mount[m].drained)
  BY Zenon, Fields, StageMoves
<1>2. /\ mount' \in [Mounts -> MountState] /\ mount'[m] = [mount[m] EXCEPT !.stage = "active"]
      /\ \A k \in Mounts : k # m => mount'[k] = mount[k]
  BY Zenon, <1>1, MountChanges DEF CommitMount, MountIs
<1>. QED  BY Zenon, <1>1, <1>2 DEF MountIs

\* What Deactivate does to the mounts.
LEMMA DrainShape ==
    ASSUME RegistryTypeOK, NEW m \in Mounts, deactivateLocked(m), active(m)
    PROVE  /\ mount' \in [Mounts -> MountState] /\ mount'[m].stage = "inactive"
           /\ mount'[m].refs = mount[m].refs /\ mount'[m].drained = (mount[m].refs = 0)
           /\ \A k \in Mounts : k # m => mount'[k] = mount[k]
<1>1. MountIs([mount[m] EXCEPT !.stage = "inactive", !.drained = mount[m].refs = 0],
              "inactive", mount[m].refs, mount[m].refs = 0)
  BY Zenon, Fields, DrainMoves
<1>2. /\ mount' \in [Mounts -> MountState] /\ mount'[m] = [mount[m] EXCEPT !.stage = "inactive", !.drained = mount[m].refs = 0]
      /\ \A k \in Mounts : k # m => mount'[k] = mount[k]
  BY Zenon, <1>1, MountChanges DEF deactivateLocked, MountIs
<1>. QED  BY Zenon, <1>1, <1>2 DEF MountIs

\* What retain does to the mounts.
LEMMA RetainShape ==
    ASSUME RegistryTypeOK, NEW m \in Mounts, retain(m)
    PROVE  /\ mount' \in [Mounts -> MountState] /\ mount'[m].stage = mount[m].stage
           /\ mount'[m].refs = mount[m].refs + 1 /\ mount'[m].drained = mount[m].drained
           /\ \A k \in Mounts : k # m => mount'[k] = mount[k]
<1>1. MountIs([mount[m] EXCEPT !.refs = @ + 1], mount[m].stage, mount[m].refs + 1, mount[m].drained)
  BY Zenon, Fields, RetainMoves
<1>2. /\ mount' \in [Mounts -> MountState] /\ mount'[m] = [mount[m] EXCEPT !.refs = @ + 1]
      /\ \A k \in Mounts : k # m => mount'[k] = mount[k]
  BY Zenon, <1>1, MountChanges DEF retain, MountIs
<1>. QED  BY Zenon, <1>1, <1>2 DEF MountIs

\* What release does to the mounts.
LEMMA ReleaseShape ==
    ASSUME RegistryTypeOK, NEW m \in Mounts, becomes(m, release(mount[m]))
    PROVE  /\ mount' \in [Mounts -> MountState]
           /\ \A k \in Mounts : k # m => mount'[k] = mount[k]
           /\ mount[m].refs > 0 =>
                 /\ mount'[m].stage = mount[m].stage /\ mount'[m].refs = mount[m].refs - 1
                 /\ mount'[m].drained <=>
                       mount[m].drained \/ (mount[m].refs = 1 /\ mount[m].stage # "active")
<1>. DEFINE r == mount[m]
            left == IF r.refs > 0 THEN r.refs - 1 ELSE 0
            d == r.drained \/ (left = 0 /\ r.stage # "active")
<1>1. MountIs(release(r), r.stage, left, d)
  BY Zenon, Fields, ReleaseMoves
<1>2. r.refs > 0 => left = r.refs - 1 /\ (left = 0 <=> r.refs = 1)
  BY Fields
<1>. HIDE DEF left, d
<1>3. /\ mount' \in [Mounts -> MountState] /\ mount'[m].stage = r.stage
      /\ mount'[m].refs = left /\ mount'[m].drained = d
      /\ \A k \in Mounts : k # m => mount'[k] = mount[k]
  <2>1. /\ mount' \in [Mounts -> MountState] /\ mount'[m] = release(r)
        /\ \A k \in Mounts : k # m => mount'[k] = mount[k]
    BY Zenon, <1>1, MountChanges DEF MountIs
  <2>. QED  BY Zenon, <1>1, <2>1 DEF MountIs
<1>. QED  BY Zenon, <1>2, <1>3 DEF d

\* What Snapshot does to the plans and the mounts.
LEMMA SnapshotShape ==
    ASSUME RegistryTypeOK, NEW p \in Plans, Snapshot(p)
    PROVE  /\ leased(Target[p]) \in SUBSET Mounts
           /\ plan' \in [Plans -> PlanState] /\ plan'[p].stage = "open"
           /\ plan'[p].left = leased(Target[p]) /\ plan'[p].hook = plan[p].hook
           /\ plan'[p].flush = plan[p].flush /\ plan'[p].before = plan[p].before
           /\ \A q \in Plans : q # p => plan'[q] = plan[q]
           /\ mount' \in [Mounts -> MountState]
           /\ \A m \in Mounts :
                 /\ mount'[m].stage = mount[m].stage /\ mount'[m].drained = mount[m].drained
                 /\ mount'[m].refs = IF m \in leased(Target[p]) THEN mount[m].refs + 1
                                                                ELSE mount[m].refs
<1>. DEFINE ms == leased(Target[p])
<1>1. ms \in SUBSET Mounts
  BY Zenon DEF leased
<1>2. /\ planned(p, [plan[p] EXCEPT !.stage = "open", !.left = ms])
      /\ mount' = [m \in Mounts |-> IF m \in ms THEN [mount[m] EXCEPT !.refs = @ + 1] ELSE mount[m]]
  BY Zenon DEF Snapshot
<1>. HIDE DEF ms
<1>3. PlanIs([plan[p] EXCEPT !.stage = "open", !.left = ms], "open", ms, plan[p].hook,
             plan[p].flush, plan[p].before)
  BY Zenon, <1>1, Fields, OpenMoves
<1>4. /\ plan' \in [Plans -> PlanState] /\ plan'[p].stage = "open" /\ plan'[p].left = ms
      /\ plan'[p].hook = plan[p].hook /\ plan'[p].flush = plan[p].flush
      /\ plan'[p].before = plan[p].before /\ \A q \in Plans : q # p => plan'[q] = plan[q]
  <2>1. /\ plan' \in [Plans -> PlanState] /\ plan'[p] = [plan[p] EXCEPT !.stage = "open", !.left = ms]
        /\ \A q \in Plans : q # p => plan'[q] = plan[q]
    BY Zenon, <1>2, <1>3, PlanChanges DEF PlanIs
  <2>. QED  BY Zenon, <1>3, <2>1 DEF PlanIs
<1>5. ASSUME NEW m \in Mounts
      PROVE  MountIs(mount'[m], mount[m].stage,
                     IF m \in ms THEN mount[m].refs + 1 ELSE mount[m].refs, mount[m].drained)
  <2>1. CASE m \in ms
    <3>1. mount'[m] = [mount[m] EXCEPT !.refs = @ + 1]
      BY Zenon, <1>2, <2>1
    <3>. QED  BY Zenon, <2>1, <3>1, Fields, RetainMoves
  <2>2. CASE m \notin ms
    BY Zenon, <1>2, <2>2, Fields DEF MountIs
  <2>. QED  BY Zenon, <2>1, <2>2
<1>6. mount' \in [Mounts -> MountState]
  BY Zenon, <1>2, <1>5 DEF MountIs
<1>. QED  BY Zenon, <1>1, <1>4, <1>5, <1>6 DEF ms, MountIs

\* What a hook does to the plans.
LEMMA HookShape ==
    ASSUME RegistryTypeOK, Planned, NEW p \in Plans,
           HookReturns(p) \/ Release(p) \/ \E m \in Mounts : CallHook(p, m)
    PROVE  /\ plan' \in [Plans -> PlanState] /\ plan'[p].left = plan[p].left
           /\ plan'[p].flush = plan[p].flush /\ plan'[p].before = plan[p].before
           /\ plan'[p].stage = "none" => plan[p].stage = "none"
           /\ plan'[p].hook \in Mounts => plan'[p].stage = "open" /\ plan'[p].hook \in plan'[p].left
           /\ \A q \in Plans : q # p => plan'[q] = plan[q]
<1>. DEFINE r == plan[p]
<1>1. CASE HookReturns(p)
  <2>1. PlanIs([r EXCEPT !.hook = "returned"], r.stage, r.left, "returned", r.flush, r.before)
    BY Zenon, Fields, HookMoves
  <2>2. /\ plan' \in [Plans -> PlanState] /\ plan'[p].left = r.left /\ plan'[p].flush = r.flush
        /\ plan'[p].before = r.before /\ plan'[p].stage = r.stage /\ plan'[p].hook = "returned"
        /\ \A q \in Plans : q # p => plan'[q] = plan[q]
    <3>1. /\ plan' \in [Plans -> PlanState] /\ plan'[p] = [r EXCEPT !.hook = "returned"]
          /\ \A q \in Plans : q # p => plan'[q] = plan[q]
      BY Zenon, <1>1, <2>1, PlanChanges DEF HookReturns, PlanIs
    <3>. QED  BY Zenon, <2>1, <3>1 DEF PlanIs
  <2>. QED  BY Zenon, <2>2, NilAssumption
<1>2. CASE Release(p)
  <2>1. PlanIs([r EXCEPT !.stage = "closed"], "closed", r.left, r.hook, r.flush, r.before)
    BY Zenon, Fields, ShutMoves
  <2>2. /\ plan' \in [Plans -> PlanState] /\ plan'[p].left = r.left /\ plan'[p].flush = r.flush
        /\ plan'[p].before = r.before /\ plan'[p].stage = "closed" /\ plan'[p].hook = r.hook
        /\ \A q \in Plans : q # p => plan'[q] = plan[q]
    <3>1. /\ plan' \in [Plans -> PlanState] /\ plan'[p] = [r EXCEPT !.stage = "closed"]
          /\ \A q \in Plans : q # p => plan'[q] = plan[q]
      BY Zenon, <1>2, <2>1, PlanChanges DEF Release, PlanIs
    <3>. QED  BY Zenon, <2>1, <3>1 DEF PlanIs
  <2>3. r.hook \notin Mounts
    BY Zenon, <1>2 DEF Release
  <2>. QED  BY Zenon, <2>2, <2>3
<1>3. ASSUME NEW m \in Mounts, CallHook(p, m)
      PROVE  /\ plan' \in [Plans -> PlanState] /\ plan'[p].left = r.left /\ plan'[p].flush = r.flush
             /\ plan'[p].before = r.before /\ plan'[p].stage = r.stage /\ plan'[p].hook = m
             /\ r.stage = "open" /\ m \in r.left
             /\ \A q \in Plans : q # p => plan'[q] = plan[q]
  <2>1. PlanIs([r EXCEPT !.hook = m], r.stage, r.left, m, r.flush, r.before)
    BY Zenon, Fields, HookMoves
  <2>2. /\ plan' \in [Plans -> PlanState] /\ plan'[p] = [r EXCEPT !.hook = m]
        /\ \A q \in Plans : q # p => plan'[q] = plan[q]
    BY Zenon, <1>3, <2>1, PlanChanges DEF CallHook, PlanIs
  <2>. QED  BY Zenon, <1>3, <2>1, <2>2 DEF CallHook, PlanIs
<1>. QED  BY Zenon, <1>1, <1>2, <1>3

\* What the marker's return does to the plans.
LEMMA FlushedShape ==
    ASSUME RegistryTypeOK, NEW p \in Plans, planned(p, [plan[p] EXCEPT !.flush = "flushed"])
    PROVE  /\ plan' \in [Plans -> PlanState] /\ plan'[p].stage = plan[p].stage
           /\ plan'[p].left = plan[p].left /\ plan'[p].hook = plan[p].hook
           /\ plan'[p].flush = "flushed" /\ plan'[p].before = plan[p].before
           /\ \A q \in Plans : q # p => plan'[q] = plan[q]
<1>1. PlanIs([plan[p] EXCEPT !.flush = "flushed"], plan[p].stage, plan[p].left, plan[p].hook,
             "flushed", plan[p].before)
  BY Zenon, Fields, FlushedMoves
<1>2. /\ plan' \in [Plans -> PlanState] /\ plan'[p] = [plan[p] EXCEPT !.flush = "flushed"]
      /\ \A q \in Plans : q # p => plan'[q] = plan[q]
  BY Zenon, <1>1, PlanChanges DEF PlanIs
<1>. QED  BY Zenon, <1>1, <1>2 DEF PlanIs

\* What Flush does to the plans.
LEMMA FlushShape ==
    ASSUME RegistryTypeOK, NEW p \in Plans, Flush(p)
    PROVE  /\ plan' \in [Plans -> PlanState] /\ plan'[p].stage = plan[p].stage
           /\ plan'[p].left = plan[p].left /\ plan'[p].hook = plan[p].hook
           /\ plan'[p].flush \in {"waiting", "ending"} /\ plan'[p].before = acceptedOf(p)
           /\ \A q \in Plans : q # p => plan'[q] = plan[q]
<1>. DEFINE b == acceptedOf(p)
<1>1. PICK f \in {"waiting", "ending"} : planned(p, [plan[p] EXCEPT !.flush = f, !.before = b])
  BY Zenon DEF Flush
<1>2. b \in SUBSET (1 .. Notices)
  BY ZenonT(60), AcceptedIDs
<1>. HIDE DEF b
<1>3. PlanIs([plan[p] EXCEPT !.flush = f, !.before = b], plan[p].stage, plan[p].left,
             plan[p].hook, f, b)
  BY Zenon, <1>2, Fields, FlushMoves
<1>4. /\ plan' \in [Plans -> PlanState] /\ plan'[p] = [plan[p] EXCEPT !.flush = f, !.before = b]
      /\ \A q \in Plans : q # p => plan'[q] = plan[q]
  BY Zenon, <1>1, <1>3, PlanChanges DEF PlanIs
<1>. QED  BY Zenon, <1>3, <1>4 DEF b, PlanIs

\* What giving a lease back does to the plans.
LEMMA LeaveShape ==
    ASSUME RegistryTypeOK, NEW p \in Plans, NEW m \in Mounts,
           planned(p, [plan[p] EXCEPT !.left = @ \ {m}])
    PROVE  /\ plan' \in [Plans -> PlanState] /\ plan'[p].stage = plan[p].stage
           /\ plan'[p].left = plan[p].left \ {m} /\ plan'[p].hook = plan[p].hook
           /\ plan'[p].flush = plan[p].flush /\ plan'[p].before = plan[p].before
           /\ \A q \in Plans : q # p => plan'[q] = plan[q]
<1>1. PlanIs([plan[p] EXCEPT !.left = @ \ {m}], plan[p].stage, plan[p].left \ {m}, plan[p].hook,
             plan[p].flush, plan[p].before)
  BY Zenon, Fields, LeaveMoves
<1>2. /\ plan' \in [Plans -> PlanState] /\ plan'[p] = [plan[p] EXCEPT !.left = @ \ {m}]
      /\ \A q \in Plans : q # p => plan'[q] = plan[q]
  BY Zenon, <1>1, PlanChanges DEF PlanIs
<1>. QED  BY Zenon, <1>1, <1>2 DEF PlanIs

\* A Close call that moves on is a Close call.
LEMMA CallMoves ==
    ASSUME RegistryTypeOK, NEW c \in Closers
    PROVE  /\ \A a \in {"canceled", "cleaning", "returned"} :
                 [closer EXCEPT ![c].at = a] \in [Closers -> CloseCall]
           /\ closer[c].next > 0 =>
                 [closer EXCEPT ![c].next = @ - 1] \in [Closers -> CloseCall]
<1>1. closer \in [Closers -> CloseCall] /\ closer[c].next \in 0 .. Effects
  BY Zenon DEF RegistryTypeOK, CloseCall
<1>2. \A a \in {"canceled", "cleaning", "returned"} : [closer[c] EXCEPT !.at = a] \in CloseCall
  BY Zenon, <1>1 DEF CloseCall
<1>3. closer[c].next > 0 => [closer[c] EXCEPT !.next = @ - 1] \in CloseCall
  BY <1>1, RegistryOptions DEF CloseCall
<1>. QED  BY Zenon, <1>1, <1>2, <1>3

\* A cleanup has the fields of its record.
LEMMA EffectFields ==
    ASSUME RegistryTypeOK, NEW m \in Mounts, NEW e \in EffectIDs
    PROVE  effect[m][e].runs \in Nat /\ effect[m][e].done \in BOOLEAN
<1>1. effect[m][e] \in [runs : Nat, done : BOOLEAN]
  BY Zenon DEF RegistryTypeOK
<1>. QED  BY Zenon, <1>1

\* Every operation keeps the shape of the registry.
LEMMA TypeStep ==
    ASSUME RegistryTypeOK, Planned, Cleaned, [Next]_vars
    PROVE  RegistryTypeOK'
<1>. USE RegistryOptions DEF RegistryTypeOK
<1>1. ASSUME NEW m \in Mounts, PrepareMount(m) \/ Rollback(m) PROVE RegistryTypeOK'
  <2>1. mount' \in [Mounts -> MountState]
    BY Zenon, <1>1, DiscardShape
  <2>2. effect' \in [Mounts -> [EffectIDs -> [runs : Nat, done : BOOLEAN]]]
    <3>1. CASE UNCHANGED effect
      BY Zenon, <3>1
    <3>2. CASE allRan(m)
      BY <3>2 DEF allRan
    <3>. QED  BY Zenon, <1>1, <3>1, <3>2 DEF PrepareMount, Rollback
  <2>. QED  BY Zenon, <1>1, <2>1, <2>2 DEF PrepareMount, Rollback
<1>2. ASSUME NEW m \in Mounts, CommitMount(m) PROVE RegistryTypeOK'
  <2>1. mount' \in [Mounts -> MountState]
    BY Zenon, <1>2, CommitShape
  <2>2. mounts' \in [IDs -> Mounts \cup {None}]
    BY Zenon, <1>2 DEF CommitMount, IDs
  <2>. QED  BY Zenon, <1>2, <2>1, <2>2 DEF CommitMount
<1>3. ASSUME NEW m \in Mounts, deactivateLocked(m)
      PROVE  mount' \in [Mounts -> MountState] /\ mounts' \in [IDs -> Mounts \cup {None}]
  <2>1. CASE active(m)
    <3>2. mount' \in [Mounts -> MountState]
      BY Zenon, <1>3, <2>1, DrainShape
    <3>. QED  BY Zenon, <1>3, <2>1, <3>2 DEF deactivateLocked, IDs
  <2>. QED  BY Zenon, <1>3, <2>1 DEF deactivateLocked
<1>4. ASSUME NEW m \in Mounts, Deactivate(m) PROVE RegistryTypeOK'
  BY Zenon, <1>3, <1>4 DEF Deactivate
<1>5. ASSUME NEW p \in Plans, Snapshot(p) PROVE RegistryTypeOK'
  <2>1. mount' \in [Mounts -> MountState] /\ plan' \in [Plans -> PlanState]
    BY Zenon, <1>5, SnapshotShape
  <2>. QED  BY Zenon, <1>5, <2>1 DEF Snapshot
<1>6. ASSUME NEW p \in Plans, Flush(p) PROVE RegistryTypeOK'
  <2>2. plan' \in [Plans -> PlanState]
    BY Zenon, <1>6, FlushShape
  <2>3. [id |-> Marker, mount |-> None] \in Task
    BY NilAssumption DEF Task, Marker
  <2>4. queue' \in [Plans -> Seq(Task)] /\ \A q \in Plans : Len(queue'[q]) <= QueueSize
    <3>1. CASE plan[p].stage = "open"
      <4>. DEFINE t == [id |-> Marker, mount |-> None]
      <4>1. queue' = [queue EXCEPT ![p] = Append(queue[p], t)] /\ Len(queue[p]) < QueueSize
        BY Zenon, <1>6, <3>1 DEF Flush, hasRoom
      <4>. QED  BY Zenon, <2>3, <4>1, QueueGrows
        <3>2. CASE plan[p].stage # "open"
      BY Zenon, <1>6, <3>2 DEF Flush
    <3>. QED  BY Zenon, <3>1, <3>2
  <2>. QED  BY Zenon, <1>6, <2>2, <2>4 DEF Flush
<1>7. ASSUME NEW p \in Plans, HookReturns(p) \/ FlushEnds(p) \/ Release(p) PROVE RegistryTypeOK'
  <2>1. plan' \in [Plans -> PlanState]
    BY Zenon, <1>7, HookShape, FlushedShape DEF FlushEnds
  <2>. QED  BY Zenon, <1>7, <2>1 DEF HookReturns, FlushEnds, Release
<1>8. ASSUME NEW p \in Plans, WorkerTakes(p) PROVE RegistryTypeOK'
  <2>1. /\ Head(queue[p]) \in Task /\ Tail(queue[p]) \in Seq(Task)
        /\ Len(Tail(queue[p])) = Len(queue[p]) - 1 /\ Len(queue[p]) \in Nat
    BY Zenon, <1>8, TailFacts DEF WorkerTakes
  <2>2. queue' \in [Plans -> Seq(Task)] /\ \A q \in Plans : Len(queue'[q]) <= QueueSize
    BY <1>8, <2>1 DEF WorkerTakes
  <2>3. worker' \in [Plans -> Task \cup {None}]
    BY Zenon, <1>8, <2>1 DEF WorkerTakes
  <2>. QED  BY Zenon, <1>8, <2>2, <2>3 DEF WorkerTakes
<1>10. ASSUME NEW p \in Plans, WorkerReturns(p) PROVE RegistryTypeOK'
  <2>1. worker' \in [Plans -> Task \cup {None}]
    BY Zenon, <1>10 DEF WorkerReturns
  <2>2. CASE worker[p].id = Marker
    <3>1. plan' \in [Plans -> PlanState]
      BY Zenon, <1>10, <2>2, FlushedShape DEF WorkerReturns
    <3>. QED  BY Zenon, <1>10, <2>1, <2>2, <3>1 DEF WorkerReturns
  <2>3. CASE worker[p].id # Marker
    <3>1. worker[p].mount \in Mounts /\ worker[p].id \in 1 .. Notices
      BY Zenon, <1>10, <2>3, Fields DEF WorkerReturns
    <3>2. mount' \in [Mounts -> MountState]
      BY Zenon, <1>10, <2>3, <3>1, ReleaseShape DEF WorkerReturns
    <3>. QED  BY Zenon, <1>10, <2>1, <2>3, <3>1, <3>2 DEF WorkerReturns
  <2>. QED  BY Zenon, <2>2, <2>3
<1>11. ASSUME NEW p \in Plans, ReleaseLease(p) PROVE RegistryTypeOK'
  <2>1. PICK m \in plan[p].left :
           planned(p, [plan[p] EXCEPT !.left = @ \ {m}]) /\ becomes(m, release(mount[m]))
    BY Zenon, <1>11 DEF ReleaseLease
  <2>3. mount' \in [Mounts -> MountState]
    BY Zenon, <2>1, Fields, ReleaseShape
  <2>4. plan' \in [Plans -> PlanState]
    BY Zenon, <2>1, Fields, LeaveShape
  <2>. QED  BY ZenonT(60), <1>11, <2>3, <2>4 DEF ReleaseLease
<1>12. ASSUME NEW p \in Plans, NEW m \in Mounts, CallHook(p, m) PROVE RegistryTypeOK'
  <2>1. plan' \in [Plans -> PlanState]
    BY Zenon, <1>12, HookShape
  <2>. QED  BY Zenon, <1>12, <2>1 DEF CallHook
<1>13. ASSUME NEW p \in Plans, NEW m \in Mounts, enqueueNotification(p, m) PROVE RegistryTypeOK'
  <2>1. mount' \in [Mounts -> MountState]
    BY Zenon, <1>13, RetainShape DEF enqueueNotification
  <2>2. accepted' \in Seq(Plans) /\ Len(accepted') <= Notices
    BY <1>13 DEF enqueueNotification
  <2>3. [id |-> Len(accepted) + 1, mount |-> m] \in Task
    BY <1>13, NilAssumption DEF enqueueNotification, Task, Marker
  <2>4. queue' \in [Plans -> Seq(Task)] /\ \A q \in Plans : Len(queue'[q]) <= QueueSize
    BY <1>13, <2>3 DEF enqueueNotification, hasRoom
  <2>. QED  BY Zenon, <1>13, <2>1, <2>2, <2>4 DEF enqueueNotification
<1>14. ASSUME NEW c \in Closers, CloseCanceled(c) \/ CloseDrained(c) \/ CloseReturns(c)
       PROVE  RegistryTypeOK'
  <2>1. closer' \in [Closers -> CloseCall]
    <3>1. closer' \in {[closer EXCEPT ![c].at = a] : a \in {"canceled", "cleaning", "returned"}}
      BY Zenon, <1>14 DEF CloseCanceled, CloseDrained, CloseReturns
    <3>2. PICK a \in {"canceled", "cleaning", "returned"} : closer' = [closer EXCEPT ![c].at = a]
      BY Zenon, <3>1
    <3>. QED  BY Zenon, <3>2, CallMoves
  <2>. QED  BY Zenon, <1>14, <2>1 DEF CloseCanceled, CloseDrained, CloseReturns
<1>15. ASSUME NEW c \in Closers, Cleanup(c) PROVE RegistryTypeOK'
  <2>1. closer' \in [Closers -> CloseCall]
    BY Zenon, <1>15, CallMoves DEF Cleanup
  <2>2. effect' \in [Mounts -> [EffectIDs -> [runs : Nat, done : BOOLEAN]]]
    <3>. DEFINE m == closer[c].mount
                e == closer[c].next
    <3>1. m \in Mounts /\ e \in EffectIDs
      BY <1>15 DEF Cleaned, Cleanup, closerAt, CloseCall, EffectIDs
    <3>2. callCleanup(effect[m][e]) \in [runs : Nat, done : BOOLEAN]
      BY <3>1 DEF callCleanup
    <3>3. effect' = effect \/ effect' = [effect EXCEPT ![m][e] = callCleanup(effect[m][e])]
      BY Zenon, <1>15 DEF Cleanup
    <3>4. CASE effect' = [effect EXCEPT ![m][e] = callCleanup(effect[m][e])]
      <4>1. effect \in [Mounts -> [EffectIDs -> [runs : Nat, done : BOOLEAN]]]
        BY Zenon
      <4>2. effect[m] \in [EffectIDs -> [runs : Nat, done : BOOLEAN]]
        BY Zenon, <3>1, <4>1
      <4>3. [effect[m] EXCEPT ![e] = callCleanup(effect[m][e])]
               \in [EffectIDs -> [runs : Nat, done : BOOLEAN]]
        BY Zenon, <3>1, <3>2, <4>2
      <4>. QED  BY Zenon, <3>1, <3>4, <4>1, <4>3
    <3>. QED  BY Zenon, <3>3, <3>4
  <2>3. failures' \in 0 .. CleanupFailures
    BY <1>15 DEF Cleanup
  <2>. QED  BY Zenon, <1>15, <2>1, <2>2, <2>3 DEF Cleanup
<1>16. ASSUME NEW c \in Closers, NEW m \in Mounts, Close(c, m) PROVE RegistryTypeOK'
  <2>1. closer' \in [Closers -> CloseCall]
    BY <1>16 DEF Close, CloseCall
  <2>. QED  BY Zenon, <1>3, <1>16, <2>1 DEF Close
<1>17. CASE UNCHANGED vars
  BY Zenon, <1>17 DEF vars
<1>. QED
  BY ZenonT(60), <1>1, <1>2, <1>4, <1>5, <1>6, <1>7, <1>8, <1>10, <1>11, <1>12, <1>13, <1>14, <1>15,
     <1>16, <1>17 DEF Next, Served, Closing

-----------------------------------------------------------------------------
(* Counting leases.                                                        *)

\* One more lease is counted as one more.
LEMMA OneMore ==
    ASSUME NEW L, IsFiniteSet(L), NEW x, x \notin L
    PROVE  /\ IsFiniteSet(L \cup {x}) /\ Cardinality(L) \in Nat
           /\ Cardinality(L \cup {x}) = Cardinality(L) + 1
  BY Zenon, FS_AddElement, FS_CardinalityType

\* One lease less is counted as one less.
LEMMA OneLess ==
    ASSUME NEW L, IsFiniteSet(L), NEW x \in L
    PROVE  /\ IsFiniteSet(L \ {x}) /\ Cardinality(L) \in Nat \ {0}
           /\ Cardinality(L \ {x}) = Cardinality(L) - 1
<1>1. Cardinality(L) \in Nat /\ Cardinality(L) # 0
  BY Zenon, FS_CardinalityType, FS_EmptySet
<1>. QED  BY Zenon, <1>1, FS_RemoveElement

\* A mount whose count is zero has no lease, and the other way round.
LEMMA NoLease ==
    ASSUME Leased, NEW m \in Mounts
    PROVE  mount[m].refs = 0 <=> leasesOf(m) = {}
  BY Zenon, FS_EmptySet DEF Leased

\* A mount that a plan has left, or has a notification for, has a lease.
LEMMA HasLease ==
    ASSUME RegistryTypeOK, Leased, NEW m \in Mounts, NEW p \in Plans
    PROVE  /\ m \in plan[p].left => <<p, 0>> \in leasesOf(m) /\ mount[m].refs > 0
           /\ \A i \in 1 .. Notices :
                 carries(p, i, m) => <<p, i>> \in leasesOf(m) /\ mount[m].refs > 0
<1>1. m \in plan[p].left => <<p, 0>> \in leasesOf(m)
  BY RegistryOptions DEF leasesOf
<1>2. \A i \in 1 .. Notices : carries(p, i, m) => <<p, i>> \in leasesOf(m)
  BY RegistryOptions DEF leasesOf
<1>3. leasesOf(m) # {} => mount[m].refs > 0
  BY NoLease, Fields
<1>. QED  BY Zenon, <1>1, <1>2, <1>3

\* A lease is a plan with a number.
LEMMA LeasePairs ==
    ASSUME NEW m \in Mounts
    PROVE  /\ leasesOf(m) \subseteq Plans \X (0 .. Notices)
           /\ leasesOf(m)' \subseteq Plans \X (0 .. Notices)
  BY Zenon DEF leasesOf

\* What carries the same notifications and leaves the same mounts to release
\* leases the same.
LEMMA LeasesSame ==
    ASSUME NEW m \in Mounts, \A q \in Plans : plan'[q].left = plan[q].left,
           \A q \in Plans, i \in 1 .. Notices : carries(q, i, m)' <=> carries(q, i, m)
    PROVE  leasesOf(m)' = leasesOf(m)
<1>1. \A q \in Plans, i \in 0 .. Notices : <<q, i>> \in leasesOf(m)' <=> <<q, i>> \in leasesOf(m)
  BY RegistryOptions DEF leasesOf
<1>. QED  BY <1>1, LeasePairs

\* What leaves plans and queues alone leaves the leases alone.
LEMMA LeasesKept ==
    ASSUME UNCHANGED <<queue, worker>>, \A p \in Plans : plan'[p].left = plan[p].left,
           NEW m \in Mounts
    PROVE  leasesOf(m)' = leasesOf(m)
  BY Zenon DEF leasesOf, carries

-----------------------------------------------------------------------------
(* Mounting and closing change no plan, no queue and no count.             *)

\* What is left to show of a step of a mount.
LEMMA MountSide ==
    ASSUME RegistryInv, RegistryTypeOK', Mounted', Cleaned', ListedWhileActive',
           UNCHANGED <<plan, queue, worker, finished, accepted>>,
           \A m \in Mounts : mount'[m].refs = mount[m].refs
    PROVE  RegistryInv'
<1>1. Leased'
  BY Zenon, LeasesKept DEF RegistryInv, Leased
<1>2. Distinct'
  BY ZenonT(60) DEF RegistryInv, Distinct, holds
<1>3. Planned'
  BY Zenon DEF RegistryInv, Planned
<1>4. Ordered'
  BY DEF RegistryInv, Ordered, holds, Ahead, acceptedOf
<1>. QED  BY Zenon, <1>1, <1>2, <1>3, <1>4 DEF RegistryInv

\* Prepare and Rollback.
LEMMA PrepareKeeps ==
    ASSUME RegistryInv, RegistryTypeOK', NEW m \in Mounts, PrepareMount(m) \/ Rollback(m)
    PROVE  RegistryInv'
<1>. USE DEF RegistryInv
<1>1. /\ mount[m].stage \in {"new", "prepared"}
      /\ UNCHANGED <<mounts, plan, queue, worker, closer, finished, accepted>>
  BY Zenon DEF PrepareMount, Rollback
<1>2. effect' = effect \/ (mount'[m].stage = "discarded" /\ allRan(m))
  BY Zenon, DiscardShape
<1>3. /\ mount'[m].stage \in {"prepared", "discarded"} /\ mount'[m].refs = mount[m].refs
      /\ mount'[m].drained = mount[m].drained
      /\ \A n \in Mounts : n # m => mount'[n] = mount[n]
  BY Zenon, DiscardShape
<1>4. ~mount[m].drained /\ mount[m].refs = 0
  BY Zenon, <1>1 DEF Mounted
<1>5. Mounted'
  BY Zenon, <1>1, <1>3, <1>4 DEF Mounted
<1>6. ListedWhileActive'
  BY ZenonT(60), <1>1, <1>3 DEF ListedWhileActive, active
<1>7. \A e \in EffectIDs : effect[m][e].runs = 0
  <2>1. \A e \in EffectIDs : effect[m][e].runs \in Nat
    BY Zenon, EffectFields
  <2>2. \A e \in EffectIDs : ~(effect[m][e].runs > 0)
    BY Zenon, <1>1, <1>4 DEF Cleaned
  <2>. QED  BY <2>1, <2>2
<1>8. \A c \in Closers :
         /\ closer'[c].at \in {"draining", "cleaning"} => closer'[c].mount \in Mounts
         /\ closer'[c].at = "cleaning" => mount'[closer'[c].mount].drained
  BY Zenon, <1>1, <1>3 DEF Cleaned
<1>9. ASSUME NEW n \in Mounts, NEW e \in EffectIDs
      PROVE  /\ effect'[n][e].runs <= 1
             /\ ~effect'[n][e].done => effect'[n][e].runs = 0
             /\ effect'[n][e].runs > 0 => mount'[n].drained \/ mount'[n].stage = "discarded"
  <2>1. CASE n # m \/ effect' = effect
    <3>1. effect'[n][e] = effect[n][e]
      BY Zenon, <1>2, <2>1 DEF allRan, RegistryTypeOK
    <3>. QED  BY ZenonT(60), <1>1, <1>3, <1>7, <3>1 DEF Cleaned
  <2>2. CASE n = m /\ effect' # effect
    <3>1. effect'[m] = [f \in EffectIDs |-> [runs |-> effect[m][f].runs + 1, done |-> TRUE]]
      BY Zenon, <1>2, <2>2 DEF allRan, RegistryTypeOK
    <3>2. effect'[m][e].runs = effect[m][e].runs + 1 /\ effect'[m][e].done
      BY <3>1
    <3>3. effect'[m][e].runs = 1
      BY <1>7, <3>2
    <3>4. mount'[m].stage = "discarded"
      BY Zenon, <1>2, <2>2
    <3>. QED  BY <2>2, <3>2, <3>3, <3>4
  <2>. QED  BY Zenon, <2>1, <2>2
<1>10. Cleaned'
  BY Zenon, <1>8, <1>9 DEF Cleaned
<1>. QED  BY Zenon, <1>1, <1>3, <1>5, <1>6, <1>10, MountSide

\* Commit: the mount is listed from here on.
LEMMA CommitKeeps ==
    ASSUME RegistryInv, RegistryTypeOK', NEW m \in Mounts, CommitMount(m)
    PROVE  RegistryInv'
<1>. USE DEF RegistryInv
<1>1. /\ mount'[m].stage = "active" /\ mount'[m].refs = mount[m].refs
      /\ mount'[m].drained = mount[m].drained
      /\ \A n \in Mounts : n # m => mount'[n] = mount[n]
  BY Zenon, CommitShape
<1>2. mount[m].stage = "prepared" /\ ~mount[m].drained /\ mount[m].refs = 0
  BY Zenon DEF CommitMount, Mounted
<1>3. Mounted'
  BY Zenon, <1>1, <1>2 DEF Mounted
<1>4. Cleaned'
  BY ZenonT(60), <1>1, <1>2 DEF Cleaned, CommitMount, RegistryTypeOK
<1>5. ListedWhileActive'
  <2>1. /\ mounts[InstanceID[m]] = None /\ mounts'[InstanceID[m]] = m
        /\ \A n \in Mounts : InstanceID[n] # InstanceID[m] =>
              mounts'[InstanceID[n]] = mounts[InstanceID[n]]
    BY Zenon DEF CommitMount, commitable, RegistryTypeOK, IDs
  <2>. QED  BY <1>1, <1>2, <2>1, NilAssumption DEF ListedWhileActive, active
<1>. QED  BY Zenon, <1>1, <1>3, <1>4, <1>5, MountSide DEF CommitMount

\* What Deactivate does, also as the first part of Close.
LEMMA DeactivateShape ==
    ASSUME RegistryInv, NEW m \in Mounts, mount[m].stage \in {"active", "inactive"},
           deactivateLocked(m)
    PROVE  /\ mount'[m].stage = "inactive" /\ mount'[m].refs = mount[m].refs
           /\ mount'[m].drained => mount[m].refs = 0
           /\ mount[m].drained => mount'[m].drained
           /\ \A n \in Mounts : n # m => mount'[n] = mount[n]
           /\ ListedWhileActive' /\ Mounted'
<1>. USE DEF RegistryInv
<1>1. CASE active(m)
  <2>1. /\ mount'[m].stage = "inactive" /\ mount'[m].refs = mount[m].refs
        /\ mount'[m].drained = (mount[m].refs = 0)
        /\ \A n \in Mounts : n # m => mount'[n] = mount[n]
    BY Zenon, <1>1, DrainShape
  <2>2. ~mount[m].drained
    BY Zenon, <1>1 DEF active, Mounted
  <2>3. /\ mounts[InstanceID[m]] = m /\ mounts'[InstanceID[m]] = None
        /\ \A n \in Mounts : InstanceID[n] # InstanceID[m] =>
              mounts'[InstanceID[n]] = mounts[InstanceID[n]]
    BY <1>1 DEF deactivateLocked, ListedWhileActive, RegistryTypeOK, IDs
  <2>4. ListedWhileActive'
    BY <2>1, <2>3, NilAssumption DEF ListedWhileActive, active
  <2>5. Mounted'
    BY Zenon, <2>1 DEF Mounted
  <2>. QED  BY Zenon, <2>1, <2>2, <2>4, <2>5
<1>2. CASE ~active(m)
  <2>1. UNCHANGED <<mount, mounts>> /\ mount[m].stage = "inactive"
    BY Zenon, <1>2 DEF deactivateLocked, active
  <2>2. ListedWhileActive'
    BY Zenon, <2>1 DEF ListedWhileActive, active
  <2>3. Mounted' /\ (mount[m].drained => mount[m].refs = 0)
    BY Zenon, <2>1 DEF Mounted
  <2>. QED  BY Zenon, <2>1, <2>2, <2>3
<1>. QED  BY Zenon, <1>1, <1>2

\* Deactivate keeps the invariant.
LEMMA DeactivateKeeps ==
    ASSUME RegistryInv, RegistryTypeOK', NEW m \in Mounts, Deactivate(m)
    PROVE  RegistryInv'
<1>. USE DEF RegistryInv
<1>1. mount[m].stage \in {"active", "inactive"} /\ deactivateLocked(m)
  BY Zenon DEF Deactivate
<1>2. Cleaned'
  BY ZenonT(60), <1>1, DeactivateShape DEF Cleaned, Deactivate
<1>. QED  BY Zenon, <1>1, <1>2, DeactivateShape, MountSide DEF Deactivate

\* So does a call of Close.
LEMMA CloseKeeps ==
    ASSUME RegistryInv, RegistryTypeOK', NEW c \in Closers, NEW m \in Mounts, Close(c, m)
    PROVE  RegistryInv'
<1>. USE DEF RegistryInv
<1>1. mount[m].stage \in {"active", "inactive"} /\ deactivateLocked(m)
  BY Zenon DEF Close
<1>2. /\ closer'[c] = [mount |-> m, at |-> "draining", next |-> Effects]
      /\ \A d \in Closers : d # c => closer'[d] = closer[d]
  BY Zenon DEF Close, RegistryTypeOK
<1>3. Cleaned'
  BY <1>1, <1>2, DeactivateShape DEF Cleaned, Close
<1>. QED  BY Zenon, <1>1, <1>3, DeactivateShape, MountSide DEF Close

\* So does every later step of that call.
LEMMA ClosingKeeps ==
    ASSUME RegistryInv, RegistryTypeOK', NEW c \in Closers, CloseCanceled(c) \/ Closing(c)
    PROVE  RegistryInv'
<1>. USE DEF RegistryInv
<1>1. UNCHANGED <<mounts, mount, plan, queue, worker, finished, accepted>>
  BY Zenon DEF CloseCanceled, Closing, CloseDrained, Cleanup, CloseReturns
<1>2. Mounted' /\ ListedWhileActive'
  BY Zenon, <1>1 DEF Mounted, ListedWhileActive, active
<1>3. /\ closer'[c].mount = closer[c].mount
      /\ closer'[c].at \in {"draining", "cleaning"} => closer[c].at \in {"draining", "cleaning"}
      /\ closer'[c].at = "cleaning" => closer[c].at = "cleaning" \/ mount[closer[c].mount].drained
      /\ \A d \in Closers : d # c => closer'[d] = closer[d]
  BY DEF CloseCanceled, Closing, CloseDrained, Cleanup, CloseReturns, closerAt, RegistryTypeOK, CloseCall
<1>4. CASE UNCHANGED effect
  <2>1. Cleaned'
    BY ZenonT(60), <1>1, <1>3, <1>4 DEF Cleaned
  <2>. QED  BY Zenon, <1>1, <1>2, <2>1, MountSide
<1>5. CASE Cleanup(c) /\ effect' # effect
  <2>. DEFINE m == closer[c].mount
              e == closer[c].next
  <2>1. m \in Mounts /\ e \in EffectIDs /\ mount[m].drained
    BY <1>5 DEF Cleanup, Cleaned, closerAt, RegistryTypeOK, CloseCall, EffectIDs
  <2>2. effect' = [effect EXCEPT ![m][e] = callCleanup(effect[m][e])]
    BY Zenon, <1>5 DEF Cleanup
  <2>3. \A n \in Mounts, f \in EffectIDs :
           effect'[n][f] = IF n = m /\ f = e THEN callCleanup(effect[m][e]) ELSE effect[n][f]
    BY Zenon, <2>1, <2>2 DEF RegistryTypeOK
  <2>4. /\ callCleanup(effect[m][e]).runs <= 1
        /\ callCleanup(effect[m][e]).done
    <3>1. effect[m][e].runs <= 1 /\ (~effect[m][e].done => effect[m][e].runs = 0)
      BY Zenon, <2>1 DEF Cleaned
    <3>2. CASE effect[m][e].done
      BY Zenon, <3>1, <3>2 DEF callCleanup
    <3>3. CASE ~effect[m][e].done
      <4>1. /\ callCleanup(effect[m][e]).runs = effect[m][e].runs + 1
            /\ callCleanup(effect[m][e]).done
        BY Zenon, <3>3 DEF callCleanup
      <4>. QED  BY <3>1, <3>3, <4>1
    <3>. QED  BY Zenon, <3>2, <3>3
  <2>5. Cleaned'
    BY <1>1, <1>3, <2>1, <2>3, <2>4 DEF Cleaned
  <2>. QED  BY Zenon, <1>1, <1>2, <2>5, MountSide
<1>. QED  BY Zenon, <1>4, <1>5 DEF CloseCanceled, Closing, CloseDrained, Cleanup, CloseReturns

-----------------------------------------------------------------------------
(* Plans and their queues change no stage, no cleanup and no Close call.   *)

\* A plan that a step leaves alone keeps its order.
LEMMA OrderStands ==
    ASSUME Ordered, finished' = finished, NEW q \in Plans, UNCHANGED <<queue[q], worker[q]>>,
           UNCHANGED <<plan[q].before, plan[q].flush>>
    PROVE  /\ worker'[q] # None /\ worker'[q].id = Marker => plan'[q].before \subseteq finished'
           /\ \A j \in 1 .. Len(queue'[q]) :
                 queue'[q][j].id = Marker => \A i \in plan'[q].before : Ahead(q, i, j)'
           /\ plan'[q].flush = "flushed" => plan'[q].before \subseteq finished'
<1>1. \A i, j : Ahead(q, i, j) => Ahead(q, i, j)'
  BY Zenon DEF Ahead
<1>2. \A j \in 1 .. Len(queue[q]) :
         queue[q][j].id = Marker => \A i \in plan[q].before : Ahead(q, i, j)
  BY Zenon DEF Ordered
<1>3. \A j \in 1 .. Len(queue'[q]) :
         queue'[q][j].id = Marker => \A i \in plan'[q].before : Ahead(q, i, j)'
  BY Zenon, <1>1, <1>2
<1>. QED  BY Zenon, <1>3 DEF Ordered

\* So does every plan when a step moves no notification.
LEMMA OrderKept ==
    ASSUME Ordered, UNCHANGED <<queue, worker, finished, accepted>>,
           \A q \in Plans : plan'[q].before = plan[q].before /\ plan'[q].flush = plan[q].flush
    PROVE  Ordered'
<1>1. \A q \in Plans : acceptedOf(q)' = acceptedOf(q) /\ \A i : holds(q, i)' <=> holds(q, i)
  BY Zenon DEF holds, acceptedOf
<1>2. \A q \in Plans :
         /\ worker'[q] # None /\ worker'[q].id = Marker => plan'[q].before \subseteq finished'
         /\ \A j \in 1 .. Len(queue'[q]) :
               queue'[q][j].id = Marker => \A i \in plan'[q].before : Ahead(q, i, j)'
         /\ plan'[q].flush = "flushed" => plan'[q].before \subseteq finished'
  BY Zenon, OrderStands
<1>3. \A q \in Plans : /\ \A i \in acceptedOf(q)' : i \in finished' \/ holds(q, i)'
                       /\ plan'[q].before \subseteq acceptedOf(q)'
  BY Zenon, <1>1 DEF Ordered
<1>. QED  BY Zenon, <1>2, <1>3 DEF Ordered

\* What is left to show of a step of a plan.
LEMMA PlanSide ==
    ASSUME RegistryInv, RegistryTypeOK', Distinct', Planned', Leased', Ordered',
           UNCHANGED <<mounts, effect, closer>>,
           \A m \in Mounts : /\ mount'[m].stage = mount[m].stage
                             /\ mount[m].drained => mount'[m].drained
                             /\ mount'[m].drained => mount'[m].stage = "inactive" /\ mount'[m].refs = 0
                             /\ mount'[m].stage \in {"new", "prepared", "discarded"} => mount'[m].refs = 0
    PROVE  RegistryInv'
<1>. USE DEF RegistryInv
<1>1. Cleaned'
  BY Zenon DEF Cleaned
<1>2. ListedWhileActive'
  BY ZenonT(60) DEF ListedWhileActive, active
<1>3. Mounted'
  BY Zenon DEF Mounted
<1>. QED  BY Zenon, <1>1, <1>2, <1>3

\* A step that gives or takes no lease and moves no task.
LEMMA QuietStep ==
    ASSUME RegistryInv, RegistryTypeOK', Planned',
           UNCHANGED <<mounts, mount, effect, closer, queue, worker, finished, accepted>>,
           \A q \in Plans : /\ plan'[q].left = plan[q].left /\ plan'[q].before = plan[q].before
                            /\ plan'[q].flush = "idle" => plan[q].flush = "idle"
                            /\ plan'[q].flush = "flushed" => plan[q].before \subseteq finished
    PROVE  RegistryInv'
<1>. USE DEF RegistryInv
<1>1. Leased'
  BY Zenon, LeasesKept DEF Leased
<1>2. Distinct'
  BY ZenonT(60) DEF Distinct, holds
<1>3. Ordered'
  BY DEF Ordered, holds, Ahead, acceptedOf
<1>. QED  BY Zenon, <1>1, <1>2, <1>3, PlanSide DEF Mounted

\* CallHook, HookReturns and Release.
LEMMA HookKeeps ==
    ASSUME RegistryInv, RegistryTypeOK', NEW p \in Plans,
           HookReturns(p) \/ Release(p) \/ \E m \in Mounts : CallHook(p, m)
    PROVE  RegistryInv'
<1>. USE DEF RegistryInv
<1>1. /\ plan'[p].left = plan[p].left /\ plan'[p].flush = plan[p].flush
      /\ plan'[p].before = plan[p].before /\ (plan'[p].stage = "none" => plan[p].stage = "none")
      /\ plan'[p].hook \in Mounts => plan'[p].stage = "open" /\ plan'[p].hook \in plan'[p].left
      /\ \A q \in Plans : q # p => plan'[q] = plan[q]
  BY Zenon, HookShape
<1>2. Planned'
  BY Zenon, <1>1 DEF Planned
<1>3. UNCHANGED <<mounts, mount, effect, closer, queue, worker, finished, accepted>>
  BY Zenon DEF HookReturns, Release, CallHook
<1>4. \A q \in Plans : /\ plan'[q].left = plan[q].left /\ plan'[q].before = plan[q].before
                       /\ plan'[q].flush = plan[q].flush
  BY Zenon, <1>1
<1>. QED  BY Zenon, <1>2, <1>3, <1>4, QuietStep DEF Ordered

\* FlushEnds: the worker has ended, so nothing accepted is held.
LEMMA FlushEndsKeeps ==
    ASSUME RegistryInv, RegistryTypeOK', NEW p \in Plans, FlushEnds(p)
    PROVE  RegistryInv'
<1>. USE DEF RegistryInv
<1>3. /\ plan'[p].stage = plan[p].stage /\ plan'[p].left = plan[p].left
      /\ plan'[p].hook = plan[p].hook /\ plan'[p].flush = "flushed"
      /\ plan'[p].before = plan[p].before /\ \A q \in Plans : q # p => plan'[q] = plan[q]
  BY Zenon, FlushedShape DEF FlushEnds
<1>4. Planned'
  BY Zenon, <1>3 DEF Planned
<1>5. \A i \in Nat : ~holds(p, i)
  BY DEF FlushEnds, workerEnded, holds
<1>6. acceptedOf(p) \subseteq finished
  BY <1>5, Fields DEF Ordered, acceptedOf
<1>7. plan[p].before \subseteq finished
  BY Zenon, <1>6 DEF Ordered
<1>8. UNCHANGED <<mounts, mount, effect, closer, queue, worker, finished, accepted>>
  BY Zenon DEF FlushEnds
<1>. QED  BY Zenon, <1>3, <1>4, <1>7, <1>8, QuietStep DEF Ordered

\* Snapshot: every mount that is leased gains the plan's own lease.
LEMMA SnapshotKeeps ==
    ASSUME RegistryInv, RegistryTypeOK', NEW p \in Plans, Snapshot(p)
    PROVE  RegistryInv'
<1>. USE DEF RegistryInv
<1>. DEFINE ms == leased(Target[p])
<1>1. ms \in SUBSET Mounts /\ \A m \in ms : mount[m].stage = "active"
  BY Zenon DEF leased, active
<1>4. /\ plan'[p].stage = "open" /\ plan'[p].left = ms /\ plan'[p].hook = plan[p].hook
      /\ plan'[p].flush = plan[p].flush /\ plan'[p].before = plan[p].before
      /\ \A q \in Plans : q # p => plan'[q] = plan[q]
  BY Zenon, SnapshotShape
<1>5. plan[p].left = {} /\ plan[p].hook \notin Mounts
  BY Zenon DEF Snapshot, Planned
<1>6. UNCHANGED <<mounts, effect, queue, worker, closer, finished, accepted>>
  BY Zenon DEF Snapshot
<1>7. \A m \in Mounts : /\ mount'[m].stage = mount[m].stage
                        /\ mount'[m].drained = mount[m].drained
                        /\ mount'[m].refs = IF m \in ms THEN mount[m].refs + 1 ELSE mount[m].refs
  BY Zenon, SnapshotShape
<1>. HIDE DEF ms
<1>8. Planned'
  BY Zenon, <1>4, <1>5 DEF Planned
<1>9. Distinct'
  BY <1>4, <1>6 DEF Distinct, holds
<1>10. Ordered'
  BY Zenon, <1>4, <1>6, OrderKept
<1>11. ASSUME NEW m \in Mounts
       PROVE  IsFiniteSet(leasesOf(m)') /\ mount'[m].refs = Cardinality(leasesOf(m)')
  <2>1. \A q \in Plans, i \in 0 .. Notices : carries(q, i, m)' <=> carries(q, i, m)
    BY Zenon, <1>6 DEF carries
  <2>2. leasesOf(m)' = IF m \in ms THEN leasesOf(m) \cup {<<p, 0>>} ELSE leasesOf(m)
    BY <1>4, <1>5, <2>1, RegistryOptions DEF leasesOf
  <2>3. <<p, 0>> \notin leasesOf(m)
    BY Zenon, <1>5 DEF leasesOf
  <2>4. IsFiniteSet(leasesOf(m)) /\ mount[m].refs = Cardinality(leasesOf(m))
    BY Zenon DEF Leased
  <2>5. CASE m \in ms
    BY <1>7, <2>2, <2>3, <2>4, <2>5, OneMore
  <2>6. CASE m \notin ms
    BY Zenon, <1>7, <2>2, <2>4, <2>6
  <2>. QED  BY Zenon, <2>5, <2>6
<1>12. Leased'
  BY Zenon, <1>11 DEF Leased
<1>13. \A m \in Mounts : m \in ms => ~mount[m].drained
  BY Zenon, <1>1 DEF Mounted
<1>. QED  BY ZenonT(60), <1>1, <1>6, <1>7, <1>8, <1>9, <1>10, <1>12, <1>13, PlanSide DEF Mounted

\* ReleaseLease: the mount loses the plan's own lease, and drains with its last.
LEMMA ReleaseLeaseKeeps ==
    ASSUME RegistryInv, RegistryTypeOK', NEW p \in Plans, ReleaseLease(p)
    PROVE  RegistryInv'
<1>. USE DEF RegistryInv
<1>1. PICK n \in plan[p].left :
         planned(p, [plan[p] EXCEPT !.left = @ \ {n}]) /\ becomes(n, release(mount[n]))
  BY Zenon DEF ReleaseLease
<1>2. n \in Mounts
  BY Zenon, <1>1, Fields
<1>4. /\ plan'[p].stage = plan[p].stage /\ plan'[p].left = plan[p].left \ {n}
      /\ plan'[p].hook = plan[p].hook /\ plan'[p].flush = plan[p].flush
      /\ plan'[p].before = plan[p].before /\ \A q \in Plans : q # p => plan'[q] = plan[q]
  BY Zenon, <1>1, <1>2, LeaveShape
<1>5. UNCHANGED <<mounts, effect, queue, worker, closer, finished, accepted>>
  BY Zenon DEF ReleaseLease
<1>6. <<p, 0>> \in leasesOf(n) /\ mount[n].refs > 0
  BY Zenon, <1>1, <1>2, HasLease
<1>7. \A m \in Mounts : m # n => mount'[m] = mount[m]
  BY Zenon, <1>1, <1>2, ReleaseShape
<1>8. /\ mount'[n].stage = mount[n].stage /\ mount'[n].refs = mount[n].refs - 1
      /\ mount'[n].drained <=> mount[n].drained \/ (mount[n].refs = 1 /\ mount[n].stage # "active")
  BY Zenon, <1>1, <1>2, <1>6, ReleaseShape
<1>9. Planned'
  BY Zenon, <1>2, <1>4 DEF Planned, ReleaseLease
<1>10. Distinct'
  BY <1>4, <1>5 DEF Distinct, holds
<1>11. Ordered'
  BY Zenon, <1>4, <1>5, OrderKept
<1>12. ASSUME NEW m \in Mounts
       PROVE  IsFiniteSet(leasesOf(m)') /\ mount'[m].refs = Cardinality(leasesOf(m)')
  <2>1. \A q \in Plans, i \in 0 .. Notices : carries(q, i, m)' <=> carries(q, i, m)
    BY Zenon, <1>5 DEF carries
  <2>2. leasesOf(m)' = IF m = n THEN leasesOf(m) \ {<<p, 0>>} ELSE leasesOf(m)
    BY <1>2, <1>4, <2>1, RegistryOptions DEF leasesOf
  <2>3. IsFiniteSet(leasesOf(m)) /\ mount[m].refs = Cardinality(leasesOf(m))
    BY Zenon DEF Leased
  <2>4. CASE m = n
    BY <1>6, <1>8, <2>2, <2>3, <2>4, OneLess
  <2>5. CASE m # n
    BY Zenon, <1>7, <2>2, <2>3, <2>5
  <2>. QED  BY Zenon, <2>4, <2>5
<1>13. Leased'
  BY Zenon, <1>12 DEF Leased
<1>14. mount[n].stage \in {"active", "inactive"} /\ ~mount[n].drained
  BY <1>2, <1>6, Fields DEF Mounted, MountState
<1>. QED  BY <1>5, <1>6, <1>7, <1>8, <1>9, <1>10, <1>11, <1>13, <1>14, Fields, PlanSide DEF Mounted

\* nil is no task.
LEMMA NotNil ==
    ASSUME NEW t \in Task
    PROVE  t # None
  BY RegistryOptions, NilAssumption DEF Task

\* A plan whose queue grew by one task holds this task as well.
LEMMA Grown ==
    ASSUME NEW p \in Plans, NEW t \in Task, queue[p] \in Seq(Task),
           queue'[p] = Append(queue[p], t), worker' = worker
    PROVE  /\ \A i : holds(p, i)' <=> holds(p, i) \/ i = t.id
           /\ \A i, m : carries(p, i, m)' <=> carries(p, i, m) \/ (i = t.id /\ m = t.mount)
<1>. DEFINE L == Len(queue[p])
<1>1. /\ queue'[p][L + 1] = t /\ L + 1 \in 1 .. Len(queue'[p])
      /\ \A j \in 1 .. L : queue'[p][j] = queue[p][j] /\ j \in 1 .. Len(queue'[p])
      /\ \A j \in 1 .. Len(queue'[p]) : j \in 1 .. L \/ j = L + 1
  BY AppendFacts
<1>2. \A i : holds(p, i) \/ i = t.id => holds(p, i)'
  BY Zenon, <1>1 DEF holds
<1>3. \A i : holds(p, i)' => holds(p, i) \/ i = t.id
  BY Zenon, <1>1 DEF holds
<1>4. \A i, m : carries(p, i, m) \/ (i = t.id /\ m = t.mount) => carries(p, i, m)'
  BY Zenon, <1>1 DEF carries
<1>5. \A i, m : carries(p, i, m)' => carries(p, i, m) \/ (i = t.id /\ m = t.mount)
  BY Zenon, <1>1 DEF carries
<1>. QED  BY Zenon, <1>2, <1>3, <1>4, <1>5

\* A plan whose worker took the head of its queue holds the same tasks.
LEMMA Taken ==
    ASSUME NEW p \in Plans, queue[p] \in Seq(Task), queue[p] # <<>>, worker[p] = None,
           queue'[p] = Tail(queue[p]), worker'[p] = Head(queue[p])
    PROVE  /\ worker'[p] = queue[p][1] /\ worker'[p] \in Task /\ worker'[p] # None
           /\ \A i : holds(p, i)' <=> holds(p, i)
           /\ \A i, m : carries(p, i, m)' <=> carries(p, i, m)
<1>1. /\ worker'[p] = queue[p][1] /\ worker'[p] \in Task /\ 1 \in 1 .. Len(queue[p])
      /\ \A j \in 1 .. Len(queue'[p]) : j + 1 \in 1 .. Len(queue[p]) /\ queue'[p][j] = queue[p][j + 1]
      /\ \A j \in 1 .. Len(queue[p]) :
            j = 1 \/ (j - 1 \in 1 .. Len(queue'[p]) /\ queue'[p][j - 1] = queue[p][j])
  BY TailFacts
<1>2. worker'[p] # None
  BY Zenon, <1>1, NotNil
<1>3. \A i : holds(p, i) => holds(p, i)'
  BY ZenonT(60), <1>1, <1>2 DEF holds
<1>4. \A i : holds(p, i)' => holds(p, i)
  BY ZenonT(60), <1>1 DEF holds
<1>5. \A i, m : carries(p, i, m) => carries(p, i, m)'
  BY ZenonT(60), <1>1, <1>2 DEF carries
<1>6. \A i, m : carries(p, i, m)' => carries(p, i, m)
  BY ZenonT(60), <1>1 DEF carries
<1>. QED  BY Zenon, <1>1, <1>2, <1>3, <1>4, <1>5, <1>6

\* enqueueNotification: one mount gains a lease, under an id never used before.
LEMMA EnqueueKeeps ==
    ASSUME RegistryInv, RegistryTypeOK', NEW p \in Plans, NEW n \in Mounts,
           enqueueNotification(p, n)
    PROVE  RegistryInv'
<1>. USE DEF RegistryInv
<1>. DEFINE new == Len(accepted) + 1
            t == [id |-> new, mount |-> n]
            L == Len(queue[p])
<1>1. /\ L \in Nat /\ Len(accepted) \in Nat /\ new \in 1 .. Notices /\ n \in plan[p].left
      /\ UNCHANGED <<mounts, effect, plan, worker, closer, finished>>
  BY Fields, RegistryOptions DEF enqueueNotification, RegistryTypeOK
<1>2. t \in Task /\ t.id = new /\ t.mount = n
  BY <1>1, NilAssumption DEF Task, Marker
<1>0. /\ queue'[p] = Append(queue[p], t) /\ queue[p] \in Seq(Task)
      /\ \A q \in Plans : q # p => queue'[q] = queue[q]
  BY Zenon DEF enqueueNotification, RegistryTypeOK
<1>. HIDE DEF t
<1>3. /\ Len(queue'[p]) = L + 1 /\ queue'[p][L + 1] = t
      /\ \A j \in 1 .. L : queue'[p][j] = queue[p][j] /\ j # L + 1
      /\ \A j \in 1 .. L + 1 : j \in 1 .. L \/ j = L + 1
      /\ \A q \in Plans : q # p => queue'[q] = queue[q]
  BY <1>0, <1>1, <1>2, AppendFacts
<1>4. /\ Len(accepted') = new /\ accepted'[new] = p
      /\ \A i \in 1 .. Len(accepted) : accepted'[i] = accepted[i]
  BY DEF enqueueNotification, RegistryTypeOK
<1>5. /\ \A q \in Plans : q # p => acceptedOf(q)' = acceptedOf(q)
      /\ acceptedOf(p)' = acceptedOf(p) \cup {new}
  BY <1>1, <1>4 DEF acceptedOf
<1>. HIDE DEF L
<1>6. /\ \A i : holds(p, i)' <=> holds(p, i) \/ i = new
      /\ \A i, m : carries(p, i, m)' <=> carries(p, i, m) \/ (i = new /\ m = n)
  BY Zenon, <1>0, <1>1, <1>2, Grown
<1>7. \A q \in Plans : q # p => \A i : holds(q, i)' <=> holds(q, i)
  BY Zenon, <1>1, <1>3 DEF holds
<1>8. ~holds(p, new)
  BY <1>1 DEF Distinct
<1>9. Distinct'
  <2>1. ASSUME NEW j \in 1 .. L + 1, NEW k \in 1 .. L + 1, queue'[p][j].id = queue'[p][k].id
        PROVE  j = k
    <3>1. \A x \in 1 .. L : queue'[p][x].id # new
      BY Zenon, <1>3, <1>8 DEF holds, L
    <3>2. CASE j = L + 1 \/ k = L + 1
      BY ZenonT(60), <1>1, <1>2, <1>3, <2>1, <3>1, <3>2
    <3>3. CASE j # L + 1 /\ k # L + 1
      BY Zenon, <1>3, <2>1, <3>3 DEF Distinct, L
    <3>. QED  BY Zenon, <3>2, <3>3
  <2>2. ASSUME worker'[p] # None, NEW j \in 1 .. L + 1
        PROVE  queue'[p][j].id # worker'[p].id
    <3>1. worker[p].id # new
      BY Zenon, <1>1, <1>8, <2>2 DEF holds
    <3>. QED  BY ZenonT(60), <1>1, <1>2, <1>3, <2>2, <3>1 DEF Distinct, L
  <2>3. \A i \in 0 .. Notices : holds(p, i)' => i <= Len(accepted')
    BY <1>1, <1>4, <1>6 DEF Distinct
  <2>4. plan'[p].flush = "idle" => ~holds(p, Marker)'
    BY <1>1, <1>6, RegistryOptions DEF Distinct, Marker
  <2>5. \A q \in Plans : q # p => \A i \in 0 .. Notices : holds(q, i)' => i <= Len(accepted')
    BY <1>1, <1>4, <1>7 DEF Distinct
  <2>6. \A q \in Plans : q # p => (plan'[q].flush = "idle" => ~holds(q, Marker)')
    BY Zenon, <1>1, <1>7, RegistryOptions DEF Distinct, Marker
  <2>7. \A q \in Plans : q # p =>
           /\ \A j, k \in 1 .. Len(queue'[q]) : queue'[q][j].id = queue'[q][k].id => j = k
           /\ worker'[q] # None => \A j \in 1 .. Len(queue'[q]) : queue'[q][j].id # worker'[q].id
    BY ZenonT(60), <1>1, <1>3 DEF Distinct
  <2>. QED  BY ZenonT(60), <1>3, <2>1, <2>2, <2>3, <2>4, <2>5, <2>6, <2>7 DEF Distinct
<1>10. Planned'
  BY Zenon, <1>1 DEF Planned
<1>11. Ordered'
  <2>1. ASSUME NEW q \in Plans, NEW i \in acceptedOf(q)'
        PROVE  i \in finished' \/ holds(q, i)'
    <3>1. CASE q = p /\ i = new
      BY Zenon, <1>6, <3>1
    <3>2. CASE ~(q = p /\ i = new)
      <4>1. i \in acceptedOf(q)
        BY Zenon, <1>5, <2>1, <3>2
      <4>2. i \in finished \/ holds(q, i)
        BY Zenon, <4>1 DEF Ordered
      <4>. QED  BY Zenon, <1>1, <1>6, <1>7, <4>2
    <3>. QED  BY Zenon, <3>1, <3>2
  <2>2. ASSUME NEW q \in Plans PROVE plan'[q].before \subseteq acceptedOf(q)'
    BY Zenon, <1>1, <1>5 DEF Ordered
  <2>3. ASSUME NEW q \in Plans, NEW j \in 1 .. Len(queue'[q]), queue'[q][j].id = Marker,
               NEW i \in plan'[q].before
        PROVE  Ahead(q, i, j)'
    <3>1. j \in 1 .. Len(queue[q]) /\ queue[q][j].id = Marker
      <4>1. CASE q # p
        BY Zenon, <1>3, <2>3, <4>1
      <4>2. CASE q = p /\ j = L + 1
        <5>1. new # Marker
          BY <1>1 DEF Marker
        <5>. QED  BY Zenon, <1>2, <1>3, <2>3, <4>2, <5>1
      <4>3. CASE q = p /\ j # L + 1
        BY Zenon, <1>3, <2>3, <4>3 DEF L
      <4>. QED  BY Zenon, <4>1, <4>2, <4>3
    <3>2. Ahead(q, i, j)
      BY Zenon, <1>1, <2>3, <3>1 DEF Ordered
    <3>3. \A k \in 1 .. (j - 1) : queue'[q][k] = queue[q][k]
      <4>1. Len(queue[q]) \in Nat
        BY Fields DEF RegistryTypeOK
      <4>2. \A k \in 1 .. (j - 1) : k \in 1 .. Len(queue[q])
        BY <3>1, <4>1
      <4>. QED  BY Zenon, <1>3, <4>2 DEF L
    <3>. QED  BY Zenon, <1>1, <3>2, <3>3 DEF Ahead
  <2>. QED  BY Zenon, <1>1, <2>1, <2>2, <2>3 DEF Ordered
<1>12. /\ mount'[n].stage = mount[n].stage /\ mount'[n].refs = mount[n].refs + 1
       /\ mount'[n].drained = mount[n].drained
       /\ \A m \in Mounts : m # n => mount'[m] = mount[m]
  BY Zenon, RetainShape DEF enqueueNotification
<1>13. ASSUME NEW m \in Mounts
       PROVE  IsFiniteSet(leasesOf(m)') /\ mount'[m].refs = Cardinality(leasesOf(m)')
  <2>1. \A q \in Plans, i \in 1 .. Notices :
           carries(q, i, m)' <=> carries(q, i, m) \/ (q = p /\ i = new /\ m = n)
    <3>1. \A q \in Plans, i \in 1 .. Notices : q # p => (carries(q, i, m)' <=> carries(q, i, m))
      BY Zenon, <1>1, <1>3 DEF carries
    <3>2. \A i \in 1 .. Notices : carries(p, i, m)' <=> carries(p, i, m) \/ (i = new /\ m = n)
      BY Zenon, <1>6
    <3>3. ASSUME NEW q \in Plans, NEW i \in 1 .. Notices
          PROVE  carries(q, i, m)' <=> carries(q, i, m) \/ (q = p /\ i = new /\ m = n)
      <4>1. CASE q = p
        BY Zenon, <3>2, <4>1
      <4>2. CASE q # p
        BY Zenon, <3>1, <4>2
      <4>. QED  BY Zenon, <4>1, <4>2
    <3>. QED  BY Zenon, <3>3
  <2>2. ~carries(p, new, m)
    BY Zenon, <1>8 DEF carries, holds
  <2>3. leasesOf(m)' = IF m = n THEN leasesOf(m) \cup {<<p, new>>} ELSE leasesOf(m)
    BY <1>1, <2>1, RegistryOptions DEF leasesOf
  <2>4. <<p, new>> \notin leasesOf(m)
    BY <1>1, <2>2 DEF leasesOf
  <2>5. IsFiniteSet(leasesOf(m)) /\ mount[m].refs = Cardinality(leasesOf(m))
    BY Zenon DEF Leased
  <2>6. CASE m = n
    BY <1>12, <2>3, <2>4, <2>5, <2>6, OneMore
  <2>7. CASE m # n
    BY Zenon, <1>12, <2>3, <2>5, <2>7
  <2>. QED  BY Zenon, <2>6, <2>7
<1>14. Leased'
  BY Zenon, <1>13 DEF Leased
<1>15. mount[n].refs > 0
  BY Zenon, <1>1, HasLease
<1>16. mount[n].stage \in {"active", "inactive"} /\ ~mount[n].drained
  BY <1>15, Fields DEF Mounted, MountState
<1>. QED  BY Zenon, <1>1, <1>9, <1>10, <1>11, <1>12, <1>14, <1>16, PlanSide DEF Mounted

\* The worker reaches Flush's marker.
LEMMA MarkerReturns ==
    ASSUME RegistryTypeOK, NEW p \in Plans, WorkerReturns(p), worker[p].id = Marker
    PROVE  /\ UNCHANGED <<mount, finished>>
           /\ plan'[p].flush = "flushed" /\ plan'[p].before = plan[p].before
           /\ plan'[p].left = plan[p].left /\ plan'[p].stage = plan[p].stage
           /\ plan'[p].hook = plan[p].hook /\ \A q \in Plans : q # p => plan'[q] = plan[q]
<1>1. planned(p, [plan[p] EXCEPT !.flush = "flushed"]) /\ UNCHANGED <<mount, finished>>
  BY Zenon DEF WorkerReturns
<1>. QED  BY Zenon, <1>1, FlushedShape

\* Flush: its marker goes behind everything accepted so far, or Flush waits for
\* the worker of a closed queue.
LEMMA FlushKeeps ==
    ASSUME RegistryInv, RegistryTypeOK', NEW p \in Plans, Flush(p)
    PROVE  RegistryInv'
<1>. USE DEF RegistryInv
<1>4. /\ plan'[p].stage = plan[p].stage /\ plan'[p].left = plan[p].left
      /\ plan'[p].hook = plan[p].hook /\ plan'[p].flush \in {"waiting", "ending"}
      /\ plan'[p].before = acceptedOf(p) /\ \A q \in Plans : q # p => plan'[q] = plan[q]
  BY Zenon, FlushShape
<1>5. /\ UNCHANGED <<mounts, mount, effect, worker, closer, finished, accepted>>
      /\ \A q \in Plans : acceptedOf(q)' = acceptedOf(q)
  BY Zenon DEF Flush, acceptedOf
<1>6. \A q \in Plans : /\ plan'[q].left = plan[q].left /\ plan'[q].stage = plan[q].stage
                       /\ plan'[q].hook = plan[q].hook
                       /\ q # p => plan'[q].flush = plan[q].flush /\ plan'[q].before = plan[q].before
  BY Zenon, <1>4
<1>7. plan'[p].flush \in {"waiting", "ending"} /\ plan'[p].before = acceptedOf(p)
  BY Zenon, <1>4
<1>8. Planned'
  BY Zenon, <1>6 DEF Planned
<1>9. ~holds(p, Marker)
  BY Zenon DEF Distinct, Flush
<1>10. CASE plan[p].stage # "open"
  <2>1. UNCHANGED queue
    BY Zenon, <1>10 DEF Flush
  <2>2. Distinct'
    BY ZenonT(60), <1>5, <1>6, <1>7, <2>1 DEF Distinct, holds
  <2>3. Ordered'
    <3>1. ASSUME NEW q \in Plans PROVE plan'[q].before \subseteq acceptedOf(q)'
      BY <1>5, <1>6, <1>7 DEF Ordered
    <3>2. ASSUME NEW q \in Plans, NEW i \in acceptedOf(q)' PROVE i \in finished' \/ holds(q, i)'
      BY ZenonT(60), <1>5, <2>1, <3>2 DEF Ordered, holds
    <3>3. /\ ~(worker'[p] # None /\ worker'[p].id = Marker)
          /\ \A j \in 1 .. Len(queue'[p]) : queue'[p][j].id # Marker
          /\ plan'[p].flush # "flushed"
      BY Zenon, <1>5, <1>7, <1>9, <2>1 DEF holds
    <3>4. ASSUME NEW q \in Plans, q # p
          PROVE  /\ worker'[q] # None /\ worker'[q].id = Marker => plan'[q].before \subseteq finished'
                 /\ \A j \in 1 .. Len(queue'[q]) :
                       queue'[q][j].id = Marker => \A i \in plan'[q].before : Ahead(q, i, j)'
                 /\ plan'[q].flush = "flushed" => plan'[q].before \subseteq finished'
      BY Zenon, <1>5, <1>6, <2>1, <3>4, OrderStands
    <3>. QED  BY Zenon, <3>1, <3>2, <3>3, <3>4 DEF Ordered
  <2>4. Leased'
    BY Zenon, <1>5, <1>6, <2>1, LeasesKept DEF Leased
  <2>. QED  BY Zenon, <1>5, <1>8, <2>2, <2>3, <2>4, PlanSide DEF Mounted
<1>11. CASE plan[p].stage = "open"
  <2>. DEFINE t == [id |-> Marker, mount |-> None]
              L == Len(queue[p])
  <2>1. t \in Task /\ t.id = Marker /\ t.mount = None
    BY RegistryOptions, NilAssumption DEF Task, Marker
  <2>2. /\ queue'[p] = Append(queue[p], t) /\ queue[p] \in Seq(Task)
        /\ \A q \in Plans : q # p => queue'[q] = queue[q]
    BY Zenon, <1>11 DEF Flush, RegistryTypeOK
  <2>. HIDE DEF t
  <2>3. /\ L \in Nat /\ Len(queue'[p]) = L + 1 /\ queue'[p][L + 1] = t
        /\ \A j \in 1 .. L : queue'[p][j] = queue[p][j] /\ j # L + 1
        /\ \A j \in 1 .. L + 1 : j \in 1 .. L \/ j = L + 1
    BY <2>1, <2>2, AppendFacts, Fields
  <2>4. \A j \in 1 .. L : queue[p][j].id # Marker
    BY Zenon, <1>9 DEF holds
  <2>. HIDE DEF L
  <2>5. /\ \A i : holds(p, i)' <=> holds(p, i) \/ i = Marker
        /\ \A i, m : carries(p, i, m)' <=> carries(p, i, m) \/ (i = Marker /\ m = None)
    BY Zenon, <1>5, <2>1, <2>2, Grown
  <2>6. \A q \in Plans : q # p => \A i : holds(q, i)' <=> holds(q, i)
    BY Zenon, <1>5, <2>2 DEF holds
  <2>7. Distinct'
    <3>1. ASSUME NEW j \in 1 .. L + 1, NEW k \in 1 .. L + 1, queue'[p][j].id = queue'[p][k].id
          PROVE  j = k
      <4>1. CASE j = L + 1 \/ k = L + 1
        BY ZenonT(60), <2>1, <2>3, <2>4, <3>1, <4>1
      <4>2. CASE j \in 1 .. L /\ k \in 1 .. L
        BY Zenon, <2>3, <3>1, <4>2 DEF Distinct, L
      <4>. QED  BY Zenon, <2>3, <4>1, <4>2
    <3>2. ASSUME worker'[p] # None, NEW j \in 1 .. L + 1
          PROVE  queue'[p][j].id # worker'[p].id
      <4>1. worker[p].id # Marker
        BY Zenon, <1>5, <1>9, <3>2 DEF holds
      <4>. QED  BY ZenonT(60), <1>5, <2>1, <2>3, <3>2, <4>1 DEF Distinct, L
    <3>3. \A i \in 0 .. Notices : holds(p, i)' => i <= Len(accepted')
      BY <1>5, <2>5, Fields DEF Distinct, Marker
    <3>4. \A q \in Plans : q # p =>
             /\ \A i \in 0 .. Notices : holds(q, i)' => i <= Len(accepted')
             /\ plan'[q].flush = "idle" => ~holds(q, Marker)'
      BY Zenon, <1>5, <1>6, <2>6, RegistryOptions DEF Distinct, Marker
    <3>5. \A q \in Plans : q # p =>
             /\ \A j, k \in 1 .. Len(queue'[q]) : queue'[q][j].id = queue'[q][k].id => j = k
             /\ worker'[q] # None => \A j \in 1 .. Len(queue'[q]) : queue'[q][j].id # worker'[q].id
      BY Zenon, <1>5, <2>2 DEF Distinct
    <3>. QED  BY ZenonT(60), <1>7, <2>3, <3>1, <3>2, <3>3, <3>4, <3>5 DEF Distinct
  <2>8. Ordered'
    <3>1. ASSUME NEW q \in Plans PROVE plan'[q].before \subseteq acceptedOf(q)'
      <4>1. CASE q = p
        BY Zenon, <1>5, <1>7, <4>1
      <4>2. CASE q # p
        BY Zenon, <1>5, <1>6, <4>2 DEF Ordered
      <4>. QED  BY Zenon, <4>1, <4>2
    <3>2. ASSUME NEW q \in Plans, NEW i \in acceptedOf(q)' PROVE i \in finished' \/ holds(q, i)'
      <4>1. i \in finished \/ holds(q, i)
        BY Zenon, <1>5, <3>2 DEF Ordered
      <4>. QED  BY Zenon, <1>5, <2>5, <2>6, <4>1
    <3>3. ASSUME NEW i \in plan'[p].before, NEW j, j = L + 1
          PROVE  Ahead(p, i, j)'
      <4>1. i \in finished \/ holds(p, i)
        BY Zenon, <1>7, <3>3 DEF Ordered
      <4>2. \A k \in 1 .. L : k \in 1 .. j - 1 /\ queue'[p][k] = queue[p][k]
        BY <2>3, <3>3
      <4>. QED  BY Zenon, <1>5, <4>1, <4>2 DEF holds, Ahead, L
    <3>4. \A j \in 1 .. Len(queue'[p]) : queue'[p][j].id = Marker => j = L + 1
      BY Zenon, <2>3, <2>4
    <3>5. ~(worker'[p] # None /\ worker'[p].id = Marker) /\ plan'[p].flush # "flushed"
      BY Zenon, <1>5, <1>7, <1>9 DEF holds
    <3>6. ASSUME NEW q \in Plans, q # p
          PROVE  /\ worker'[q] # None /\ worker'[q].id = Marker => plan'[q].before \subseteq finished'
                 /\ \A j \in 1 .. Len(queue'[q]) :
                       queue'[q][j].id = Marker => \A i \in plan'[q].before : Ahead(q, i, j)'
                 /\ plan'[q].flush = "flushed" => plan'[q].before \subseteq finished'
      BY Zenon, <1>5, <1>6, <2>2, <3>6, OrderStands
    <3>7. \A j \in 1 .. Len(queue'[p]) :
             queue'[p][j].id = Marker => \A i \in plan'[p].before : Ahead(p, i, j)'
      <4>1. ASSUME NEW j \in 1 .. Len(queue'[p]), queue'[p][j].id = Marker, NEW i \in plan'[p].before
            PROVE  Ahead(p, i, j)'
        <5>1. j = L + 1
          BY Zenon, <3>4, <4>1
        <5>. QED  BY Zenon, <3>3, <4>1, <5>1
      <4>. QED  BY Zenon, <4>1
    <3>8. ASSUME NEW q \in Plans
          PROVE  /\ worker'[q] # None /\ worker'[q].id = Marker => plan'[q].before \subseteq finished'
                 /\ \A j \in 1 .. Len(queue'[q]) :
                       queue'[q][j].id = Marker => \A i \in plan'[q].before : Ahead(q, i, j)'
                 /\ plan'[q].flush = "flushed" => plan'[q].before \subseteq finished'
      BY Zenon, <3>5, <3>6, <3>7
    <3>. QED  BY Zenon, <3>1, <3>2, <3>8 DEF Ordered
  <2>9. ASSUME NEW m \in Mounts, NEW q \in Plans, NEW i \in 1 .. Notices
        PROVE  carries(q, i, m)' <=> carries(q, i, m)
    <3>1. CASE q # p
      BY Zenon, <1>5, <2>2, <3>1 DEF carries
    <3>2. m # None
      BY Zenon, NilAssumption
    <3>. QED  BY Zenon, <2>5, <3>1, <3>2
  <2>10. Leased'
    BY Zenon, <1>5, <1>6, <2>9, LeasesSame DEF Leased
  <2>. QED  BY Zenon, <1>5, <1>8, <2>7, <2>8, <2>10, PlanSide DEF Mounted
<1>. QED  BY Zenon, <1>10, <1>11

\* The worker takes the head of the queue: what a plan holds is the same.
LEMMA WorkerTakesKeeps ==
    ASSUME RegistryInv, RegistryTypeOK', NEW p \in Plans, WorkerTakes(p)
    PROVE  RegistryInv'
<1>. USE DEF RegistryInv
<1>. DEFINE L == Len(queue[p])
<1>1. /\ UNCHANGED <<mounts, mount, effect, plan, closer, finished, accepted>>
      /\ worker[p] = None /\ \A q \in Plans : acceptedOf(q)' = acceptedOf(q)
  BY Zenon DEF WorkerTakes, acceptedOf
<1>0. /\ queue'[p] = Tail(queue[p]) /\ worker'[p] = Head(queue[p]) /\ queue[p] # <<>>
      /\ queue[p] \in Seq(Task)
      /\ \A q \in Plans : q # p => queue'[q] = queue[q] /\ worker'[q] = worker[q]
  BY Zenon DEF WorkerTakes, RegistryTypeOK
<1>2. /\ L \in Nat \ {0} /\ Len(queue'[p]) = L - 1 /\ 1 \in 1 .. L
      /\ worker'[p] = queue[p][1] /\ worker'[p] \in Task
      /\ \A j \in 1 .. L - 1 :
            j + 1 \in 1 .. L /\ j + 1 # 1 /\ queue'[p][j] = queue[p][j + 1]
      /\ \A q \in Plans : q # p => queue'[q] = queue[q] /\ worker'[q] = worker[q]
  BY <1>0, TailFacts
<1>4. \A j \in 1 .. L : j = 1 \/ (j - 1 \in 1 .. L - 1 /\ queue'[p][j - 1] = queue[p][j])
  BY <1>0, <1>2, TailFacts
<1>. HIDE DEF L
<1>5. /\ worker'[p] # None /\ \A i : holds(p, i)' <=> holds(p, i)
      /\ \A i, m : carries(p, i, m)' <=> carries(p, i, m)
  BY Zenon, <1>0, <1>1, Taken
<1>3. worker'[p] # None
  BY Zenon, <1>5
<1>6. \A q \in Plans : q # p => \A i : holds(q, i)' <=> holds(q, i)
  BY Zenon, <1>2 DEF holds
<1>7. Distinct'
  <2>1. ASSUME NEW j \in 1 .. L - 1, NEW k \in 1 .. L - 1, queue'[p][j].id = queue'[p][k].id
        PROVE  j = k
    <3>1. j + 1 \in 1 .. L /\ k + 1 \in 1 .. L /\ queue[p][j + 1].id = queue[p][k + 1].id
      BY Zenon, <1>2, <2>1
    <3>2. j + 1 = k + 1
      BY Zenon, <3>1 DEF Distinct, L
    <3>. QED  BY <3>2
  <2>2. ASSUME NEW j \in 1 .. L - 1 PROVE queue'[p][j].id # worker'[p].id
    <3>1. j + 1 \in 1 .. L /\ 1 \in 1 .. L /\ j + 1 # 1
      BY Zenon, <1>2
    <3>2. queue[p][j + 1].id # queue[p][1].id
      BY Zenon, <3>1 DEF Distinct, L
    <3>. QED  BY Zenon, <1>2, <3>2
  <2>3. \A q \in Plans, i \in 0 .. Notices : holds(q, i)' => i <= Len(accepted')
    BY Zenon, <1>1, <1>5, <1>6 DEF Distinct
  <2>4. \A q \in Plans : plan'[q].flush = "idle" => ~holds(q, Marker)'
    BY Zenon, <1>1, <1>5, <1>6 DEF Distinct, Marker
  <2>5. \A q \in Plans : q # p =>
           /\ \A j, k \in 1 .. Len(queue'[q]) : queue'[q][j].id = queue'[q][k].id => j = k
           /\ worker'[q] # None => \A j \in 1 .. Len(queue'[q]) : queue'[q][j].id # worker'[q].id
    BY <1>2 DEF Distinct
  <2>. QED  BY ZenonT(60), <1>2, <2>1, <2>2, <2>3, <2>4, <2>5 DEF Distinct
<1>8. Planned'
  BY Zenon, <1>1 DEF Planned
<1>9. Ordered'
  <2>1. ASSUME NEW q \in Plans, NEW i \in acceptedOf(q)' PROVE i \in finished' \/ holds(q, i)'
    <3>1. i \in Nat
      BY <1>1, <2>1 DEF acceptedOf
    <3>. QED  BY Zenon, <1>1, <1>5, <1>6, <2>1, <3>1 DEF Ordered
  <2>2. worker'[p].id = Marker => plan'[p].before \subseteq finished'
    <3>1. ASSUME queue[p][1].id = Marker, NEW i \in plan[p].before PROVE i \in finished
      <4>1. 1 \in 1 .. L
        BY Zenon, <1>2
      <4>2. Ahead(p, i, 1)
        BY Zenon, <3>1, <4>1 DEF Ordered, L
      <4>. QED  BY <1>1, <4>2 DEF Ahead
    <3>. QED  BY Zenon, <1>1, <1>2, <3>1
  <2>3. ASSUME NEW j \in 1 .. L - 1, queue'[p][j].id = Marker, NEW i \in plan'[p].before
        PROVE  Ahead(p, i, j)'
    <3>1. j + 1 \in 1 .. L /\ queue[p][j + 1].id = Marker
      BY Zenon, <1>2, <2>3
    <3>2. Ahead(p, i, j + 1)
      BY Zenon, <1>1, <2>3, <3>1 DEF Ordered, L
    <3>3. CASE i \in finished
      BY Zenon, <1>1, <3>3 DEF Ahead
    <3>4. ASSUME NEW k \in 1 .. (j + 1) - 1, queue[p][k].id = i PROVE Ahead(p, i, j)'
      <4>1. CASE k = 1
        BY Zenon, <1>2, <1>3, <3>4, <4>1 DEF Ahead
      <4>2. CASE k # 1
        <5>1. k - 1 \in 1 .. (j - 1) /\ k \in 1 .. L
          BY <1>2, <3>4, <4>2
        <5>2. queue'[p][k - 1].id = i
          BY Zenon, <1>4, <3>4, <4>2, <5>1
        <5>. QED  BY Zenon, <5>1, <5>2 DEF Ahead
      <4>. QED  BY Zenon, <4>1, <4>2
    <3>. QED  BY Zenon, <1>1, <3>2, <3>3, <3>4 DEF Ahead
  <2>4. ASSUME NEW q \in Plans, q # p
        PROVE  /\ worker'[q] # None /\ worker'[q].id = Marker => plan'[q].before \subseteq finished'
               /\ \A j \in 1 .. Len(queue'[q]) :
                     queue'[q][j].id = Marker => \A i \in plan'[q].before : Ahead(q, i, j)'
    BY Zenon, <1>1, <1>2, <2>4, OrderStands
  <2>5. \A q \in Plans : /\ plan'[q].before \subseteq acceptedOf(q)'
                         /\ plan'[q].flush = "flushed" => plan'[q].before \subseteq finished'
    BY Zenon, <1>1 DEF Ordered
  <2>6. \A j \in 1 .. Len(queue'[p]) :
           queue'[p][j].id = Marker => \A i \in plan'[p].before : Ahead(p, i, j)'
    BY Zenon, <1>2, <2>3
  <2>7. \A q \in Plans :
           /\ worker'[q] # None /\ worker'[q].id = Marker => plan'[q].before \subseteq finished'
           /\ \A j \in 1 .. Len(queue'[q]) :
                 queue'[q][j].id = Marker => \A i \in plan'[q].before : Ahead(q, i, j)'
    BY Zenon, <2>2, <2>4, <2>6
  <2>. QED  BY Zenon, <2>1, <2>5, <2>7 DEF Ordered
<1>10. ASSUME NEW m \in Mounts, NEW q \in Plans, NEW i \in 1 .. Notices
       PROVE  carries(q, i, m)' <=> carries(q, i, m)
  <2>1. CASE q # p
    BY Zenon, <1>2, <2>1 DEF carries
  <2>. QED  BY Zenon, <1>5, <2>1
<1>11. Leased'
  BY Zenon, <1>1, <1>10, LeasesSame DEF Leased
<1>. QED  BY Zenon, <1>1, <1>7, <1>8, <1>9, <1>11, PlanSide DEF Mounted

\* The worker is done with a task: a marker ends Flush, a notification gives its
\* lease back.
LEMMA WorkerReturnsKeeps ==
    ASSUME RegistryInv, RegistryTypeOK', NEW p \in Plans, WorkerReturns(p)
    PROVE  RegistryInv'
<1>. USE DEF RegistryInv
<1>. DEFINE t == worker[p]
<1>1. /\ UNCHANGED <<mounts, effect, queue, closer, accepted>> /\ t # None
      /\ worker'[p] = None /\ \A q \in Plans : q # p => worker'[q] = worker[q]
      /\ \A q \in Plans : acceptedOf(q)' = acceptedOf(q)
  BY Zenon DEF WorkerReturns, acceptedOf, RegistryTypeOK
<1>2. t \in Task
  BY Zenon, <1>1 DEF RegistryTypeOK
<1>. HIDE DEF t
<1>3. \A q \in Plans, i \in Nat : holds(q, i)' => holds(q, i)
  BY Zenon, <1>1 DEF holds
<1>4. \A q \in Plans, i \in Nat : holds(q, i) /\ (q # p \/ i # t.id) => holds(q, i)'
  BY Zenon, <1>1 DEF holds, t
<1>5. \A q \in Plans : plan'[q].flush = "idle" => plan[q].flush = "idle"
  <2>1. CASE t.id = Marker
    <3>1. plan'[p].flush = "flushed" /\ \A q \in Plans : q # p => plan'[q] = plan[q]
      BY Zenon, <2>1, MarkerReturns DEF t
    <3>. QED  BY Zenon, <3>1
  <2>2. CASE t.id # Marker
    BY Zenon, <2>2 DEF WorkerReturns, t
  <2>. QED  BY Zenon, <2>1, <2>2
<1>6. Distinct'
  <2>1. \A q \in Plans :
           /\ \A j, k \in 1 .. Len(queue'[q]) : queue'[q][j].id = queue'[q][k].id => j = k
           /\ worker'[q] # None => \A j \in 1 .. Len(queue'[q]) : queue'[q][j].id # worker'[q].id
    BY ZenonT(60), <1>1 DEF Distinct
  <2>2. \A q \in Plans, i \in 0 .. Notices : holds(q, i)' => i <= Len(accepted')
    BY <1>1, <1>3 DEF Distinct
  <2>3. \A q \in Plans : plan'[q].flush = "idle" => ~holds(q, Marker)'
    BY Zenon, <1>3, <1>5 DEF Distinct, Marker
  <2>. QED  BY Zenon, <2>1, <2>2, <2>3 DEF Distinct
<1>7. CASE t.id = Marker
  <2>1. /\ UNCHANGED <<mount, finished>>
        /\ plan'[p].flush = "flushed" /\ plan'[p].before = plan[p].before
        /\ plan'[p].left = plan[p].left /\ plan'[p].stage = plan[p].stage
        /\ plan'[p].hook = plan[p].hook /\ \A q \in Plans : q # p => plan'[q] = plan[q]
    BY Zenon, <1>7, MarkerReturns DEF t
  <2>2. Planned'
    BY ZenonT(60), <2>1 DEF Planned
  <2>3. plan[p].before \subseteq finished
    BY Zenon, <1>1, <1>7 DEF Ordered, t
  <2>4. Ordered'
    <3>1. ASSUME NEW q \in Plans, NEW i \in acceptedOf(q)' PROVE i \in finished' \/ holds(q, i)'
      <4>1. i \in Nat /\ i # Marker
        BY <1>1, <3>1 DEF acceptedOf, Marker
      <4>2. i \in finished \/ holds(q, i)
        BY Zenon, <1>1, <3>1 DEF Ordered
      <4>. QED  BY Zenon, <1>4, <1>7, <2>1, <4>1, <4>2
    <3>3. ASSUME NEW q \in Plans, q # p
          PROVE  /\ worker'[q] # None /\ worker'[q].id = Marker => plan'[q].before \subseteq finished'
                 /\ \A j \in 1 .. Len(queue'[q]) :
                       queue'[q][j].id = Marker => \A i \in plan'[q].before : Ahead(q, i, j)'
                 /\ plan'[q].flush = "flushed" => plan'[q].before \subseteq finished'
      BY Zenon, <1>1, <2>1, <3>3, OrderStands
    <3>4. \A q \in Plans : plan'[q].before \subseteq acceptedOf(q)'
      BY Zenon, <1>1, <2>1 DEF Ordered
    <3>5. /\ plan'[p].before \subseteq finished'
          /\ \A j \in 1 .. Len(queue'[p]) : \A i \in plan'[p].before : Ahead(p, i, j)'
      BY Zenon, <2>1, <2>3 DEF Ahead
    <3>6. ASSUME NEW q \in Plans
          PROVE  /\ worker'[q] # None /\ worker'[q].id = Marker => plan'[q].before \subseteq finished'
                 /\ \A j \in 1 .. Len(queue'[q]) :
                       queue'[q][j].id = Marker => \A i \in plan'[q].before : Ahead(q, i, j)'
                 /\ plan'[q].flush = "flushed" => plan'[q].before \subseteq finished'
      <4>1. CASE q = p
        BY Zenon, <3>5, <4>1
      <4>2. CASE q # p
        BY Zenon, <3>3, <4>2
      <4>. QED  BY Zenon, <4>1, <4>2
    <3>. QED  BY Zenon, <3>1, <3>4, <3>6 DEF Ordered
  <2>5. ASSUME NEW m \in Mounts, NEW q \in Plans, NEW i \in 1 .. Notices
        PROVE  carries(q, i, m)' <=> carries(q, i, m)
    BY <1>1, <1>7 DEF carries, t, Marker
  <2>6. Leased'
    BY Zenon, <2>1, <2>5, LeasesSame DEF Leased
  <2>. QED  BY Zenon, <1>1, <1>6, <2>1, <2>2, <2>4, <2>6, PlanSide DEF Mounted
<1>8. CASE t.id # Marker
  <2>. DEFINE n == t.mount
  <2>1. n \in Mounts /\ t.id \in 1 .. Notices
    BY Zenon, <1>2, <1>8, Fields
  <2>2. /\ becomes(n, release(mount[n])) /\ finished' = finished \cup {t.id} /\ UNCHANGED plan
    BY Zenon, <1>8 DEF WorkerReturns, t
  <2>. HIDE DEF n
  <2>3. carries(p, t.id, n)
    BY Zenon, <1>1 DEF carries, t, n
  <2>4. <<p, t.id>> \in leasesOf(n) /\ mount[n].refs > 0
    BY Zenon, <2>1, <2>3, HasLease
  <2>5. \A m \in Mounts : m # n => mount'[m] = mount[m]
    BY Zenon, <2>1, <2>2, ReleaseShape
  <2>6. /\ mount'[n].stage = mount[n].stage /\ mount'[n].refs = mount[n].refs - 1
        /\ mount'[n].drained <=> mount[n].drained \/ (mount[n].refs = 1 /\ mount[n].stage # "active")
    BY Zenon, <2>1, <2>2, <2>4, ReleaseShape
  <2>7. Planned'
    BY Zenon, <2>2 DEF Planned
  <2>8. Ordered'
    <3>1. ASSUME NEW q \in Plans, NEW i \in acceptedOf(q)' PROVE i \in finished' \/ holds(q, i)'
      <4>1. i \in Nat
        BY <1>1, <3>1 DEF acceptedOf
      <4>2. i \in finished \/ holds(q, i)
        BY Zenon, <1>1, <3>1 DEF Ordered
      <4>. QED  BY Zenon, <1>4, <2>2, <4>1, <4>2
    <3>2. ASSUME NEW q \in Plans, NEW j, NEW i, Ahead(q, i, j) PROVE Ahead(q, i, j)'
      BY Zenon, <1>1, <2>2, <3>2 DEF Ahead, t
    <3>3. ASSUME NEW q \in Plans
          PROVE  /\ plan'[q].before \subseteq acceptedOf(q)'
                 /\ worker'[q] # None /\ worker'[q].id = Marker => plan'[q].before \subseteq finished'
                 /\ plan'[q].flush = "flushed" => plan'[q].before \subseteq finished'
      BY Zenon, <1>1, <2>2 DEF Ordered
    <3>4. ASSUME NEW q \in Plans, NEW j \in 1 .. Len(queue'[q]), queue'[q][j].id = Marker,
                 NEW i \in plan'[q].before
          PROVE  Ahead(q, i, j)'
      <4>1. Ahead(q, i, j)
        BY Zenon, <1>1, <2>2, <3>4 DEF Ordered
      <4>. QED  BY Zenon, <3>2, <4>1
    <3>. QED  BY Zenon, <3>1, <3>3, <3>4 DEF Ordered
  <2>9. ASSUME NEW m \in Mounts
        PROVE  IsFiniteSet(leasesOf(m)') /\ mount'[m].refs = Cardinality(leasesOf(m)')
    <3>1. ASSUME NEW q \in Plans, NEW i \in 1 .. Notices
          PROVE  carries(q, i, m)' <=> carries(q, i, m) /\ ~(q = p /\ i = t.id /\ m = n)
      <4>1. CASE q # p
        BY Zenon, <1>1, <4>1 DEF carries
      <4>2. CASE q = p
        <5>1. \A j \in 1 .. Len(queue[p]) : queue[p][j].id # t.id
          BY Zenon, <1>1 DEF Distinct, t
        <5>2. carries(p, i, m)' => carries(p, i, m) /\ i # t.id
          BY Zenon, <1>1, <5>1 DEF carries
        <5>3. carries(p, i, m) /\ ~(i = t.id /\ m = n) => carries(p, i, m)'
          BY Zenon, <1>1 DEF carries, t, n
        <5>. QED  BY Zenon, <4>2, <5>2, <5>3
      <4>. QED  BY Zenon, <4>1, <4>2
    <3>2. leasesOf(m)' = IF m = n THEN leasesOf(m) \ {<<p, t.id>>} ELSE leasesOf(m)
      <4>1. CASE m # n
        BY Zenon, <2>2, <3>1, <4>1, LeasesSame
      <4>2. CASE m = n
        <5>1. \A q \in Plans, i \in 0 .. Notices :
                 <<q, i>> \in leasesOf(m)' <=> <<q, i>> \in leasesOf(m) /\ ~(q = p /\ i = t.id)
          BY <2>1, <2>2, <3>1, <4>2, RegistryOptions DEF leasesOf
        <5>. QED  BY <4>2, <5>1, LeasePairs
      <4>. QED  BY Zenon, <4>1, <4>2
    <3>3. IsFiniteSet(leasesOf(m)) /\ mount[m].refs = Cardinality(leasesOf(m))
      BY Zenon DEF Leased
    <3>4. CASE m = n
      BY <2>4, <2>6, <3>2, <3>3, <3>4, OneLess
    <3>5. CASE m # n
      BY Zenon, <2>5, <3>2, <3>3, <3>5
    <3>. QED  BY Zenon, <3>4, <3>5
  <2>10. Leased'
    BY Zenon, <2>9 DEF Leased
  <2>11. mount[n].stage \in {"active", "inactive"} /\ ~mount[n].drained
    BY <2>1, <2>4, Fields DEF Mounted, MountState
  <2>12. /\ mount'[n].drained => mount'[n].stage = "inactive" /\ mount'[n].refs = 0
         /\ mount'[n].stage \notin {"new", "prepared", "discarded"} /\ ~mount[n].drained
    BY <2>1, <2>4, <2>6, <2>11, Fields
  <2>13. \A m \in Mounts : /\ mount'[m].stage = mount[m].stage
                           /\ mount[m].drained => mount'[m].drained
                           /\ mount'[m].drained => mount'[m].stage = "inactive" /\ mount'[m].refs = 0
                           /\ mount'[m].stage \in {"new", "prepared", "discarded"} => mount'[m].refs = 0
    BY Zenon, <2>5, <2>6, <2>12 DEF Mounted
  <2>. QED  BY Zenon, <1>1, <1>6, <2>7, <2>8, <2>10, <2>13, PlanSide
<1>. QED  BY Zenon, <1>7, <1>8

-----------------------------------------------------------------------------
(* The invariant and what follows from it.                                 *)

\* A registry without mounts, plans and Close calls.
LEMMA RegistryInit ==
    Init => RegistryInv
<1>. SUFFICES ASSUME Init PROVE RegistryInv
  BY Zenon
<1>. USE RegistryOptions DEF Init
<1>1. RegistryTypeOK
  <2>1. /\ \A m \in Mounts : mount[m] \in MountState
        /\ mount = [m \in Mounts |-> mount[m]]
    BY Zenon DEF MountState
  <2>2. plan \in [Plans -> PlanState]
    BY Zenon DEF PlanState
  <2>3. closer \in [Closers -> CloseCall]
    BY DEF CloseCall
  <2>4. mount \in [Mounts -> MountState] /\ mounts \in [IDs -> Mounts \cup {None}]
    BY Zenon, <2>1
  <2>5. effect \in [Mounts -> [EffectIDs -> [runs : Nat, done : BOOLEAN]]]
    BY Zenon
  <2>6. queue \in [Plans -> Seq(Task)] /\ \A p \in Plans : Len(queue[p]) <= QueueSize
    OBVIOUS
  <2>7. /\ worker \in [Plans -> Task \cup {None}] /\ finished \subseteq 1 .. Notices
        /\ accepted \in Seq(Plans) /\ Len(accepted) <= Notices /\ failures \in 0 .. CleanupFailures
    OBVIOUS
  <2>. QED  BY Zenon, <2>2, <2>3, <2>4, <2>5, <2>6, <2>7 DEF RegistryTypeOK
<1>2. \A p \in Plans : /\ worker[p] = None /\ Len(queue[p]) = 0
                       /\ plan[p].stage = "none" /\ plan[p].left = {} /\ plan[p].hook = None
                       /\ plan[p].flush = "idle" /\ plan[p].before = {}
                       /\ acceptedOf(p) = {}
  BY DEF acceptedOf
<1>3. \A p \in Plans : \A j \in 1 .. Len(queue[p]) : FALSE
  BY <1>2
<1>4. Distinct
  BY Zenon, <1>2, <1>3 DEF Distinct, holds
<1>5. Planned
  BY Zenon, <1>2, NilAssumption DEF Planned
<1>6. \A m \in Mounts : leasesOf(m) = {}
  BY Zenon, <1>2, <1>3 DEF leasesOf, carries
<1>7. Leased
  BY Zenon, <1>6, FS_EmptySet DEF Leased
<1>8. Mounted /\ Cleaned
  BY DEF Mounted, Cleaned
<1>9. Ordered
  BY Zenon, <1>2, <1>3 DEF Ordered
<1>10. ListedWhileActive
  BY Zenon, NilAssumption DEF ListedWhileActive, active, IDs
<1>. QED  BY Zenon, <1>1, <1>4, <1>5, <1>7, <1>8, <1>9, <1>10 DEF RegistryInv

\* Every operation keeps the invariant.
LEMMA RegistryStep ==
    RegistryInv /\ [Next]_vars => RegistryInv'
<1>. SUFFICES ASSUME RegistryInv, [Next]_vars PROVE RegistryInv'
  BY Zenon
<1>1. RegistryTypeOK'
  BY Zenon, TypeStep DEF RegistryInv
<1>2. ASSUME NEW m \in Mounts, PrepareMount(m) \/ CommitMount(m) \/ Rollback(m) \/ Deactivate(m)
      PROVE  RegistryInv'
  BY Zenon, <1>1, <1>2, PrepareKeeps, CommitKeeps, DeactivateKeeps
<1>3. ASSUME NEW p \in Plans, Snapshot(p) \/ Flush(p) \/ Served(p)
      PROVE  RegistryInv'
  BY Zenon, <1>1, <1>3, SnapshotKeeps, FlushKeeps, HookKeeps, WorkerTakesKeeps, WorkerReturnsKeeps,
     FlushEndsKeeps, ReleaseLeaseKeeps DEF Served
<1>4. ASSUME NEW p \in Plans, NEW m \in Mounts, CallHook(p, m) \/ enqueueNotification(p, m)
      PROVE  RegistryInv'
  BY Zenon, <1>1, <1>4, HookKeeps, EnqueueKeeps
<1>5. ASSUME NEW c \in Closers, CloseCanceled(c) \/ Closing(c) PROVE RegistryInv'
  BY Zenon, <1>1, <1>5, ClosingKeeps
<1>6. ASSUME NEW c \in Closers, NEW m \in Mounts, Close(c, m) PROVE RegistryInv'
  BY Zenon, <1>1, <1>6, CloseKeeps
<1>7. CASE UNCHANGED vars
  <2>1. /\ UNCHANGED <<mounts, mount, effect, plan, queue, worker, closer, finished, accepted>>
    BY Zenon, <1>7 DEF vars
  <2>2. Planned'
    BY Zenon, <2>1 DEF RegistryInv, Planned
  <2>. QED  BY Zenon, <1>1, <2>1, <2>2, QuietStep DEF RegistryInv, Ordered
<1>. QED  BY Zenon, <1>2, <1>3, <1>4, <1>5, <1>6, <1>7 DEF Next

\* The registry keeps its shape: whatever happens to mounts, plans and Close
\* calls, a lease count never falls below zero and a plan's queue never holds
\* more than notificationQueueSize tasks.
THEOREM RegistryTypeCorrect ==
    Spec => []RegistryTypeOK
<1>1. RegistryInv => RegistryTypeOK
  BY Zenon DEF RegistryInv
<1>. QED  BY <1>1, RegistryInit, RegistryStep, PTL DEF Spec

\* The lease count of a mount is the number of plans that have not given their
\* lease back plus the number of its notifications that wait or run: no path
\* through Snapshot, enqueueNotification, the worker and Release leaks a lease
\* or gives one back twice.
THEOREM LeasesExact ==
    Spec => []RefsExact
<1>1. RegistryInv => RefsExact
  BY Zenon DEF RegistryInv, Leased, RefsExact
<1>. QED  BY <1>1, RegistryInit, RegistryStep, PTL DEF Spec

\* Registry.mounts lists a mount exactly while it is active: an instance id has
\* one active mount at most, and the handle of an earlier mount (Deactivate,
\* Close) never unregisters its successor.
THEOREM ListedExactlyWhileActive ==
    Spec => []ListedWhileActive
<1>1. RegistryInv => ListedWhileActive
  BY Zenon DEF RegistryInv
<1>. QED  BY <1>1, RegistryInit, RegistryStep, PTL DEF Spec

\* Cleanups run once each, over all Close calls, their retries and a Rollback,
\* and once the first of them runs no plan has the mount, no callback of it runs
\* and none waits in a queue.
THEOREM CleanupsOnceAndLast ==
    Spec => []CleanupOnceAndLast
<1>1. ASSUME RegistryInv PROVE CleanupOnceAndLast
  <2>. USE <1>1 DEF RegistryInv
  <2>1. \A m \in Mounts, e \in EffectIDs : effect[m][e].runs <= 1
    BY Zenon DEF Cleaned
  <2>2. ASSUME NEW m \in Mounts, NEW e \in EffectIDs, effect[m][e].runs > 0
        PROVE  mount[m].refs = 0 /\ ~active(m)
    BY Zenon, <2>2 DEF Cleaned, Mounted, active
  <2>3. ASSUME NEW m \in Mounts, mount[m].refs = 0, NEW p \in Plans
        PROVE  /\ plan[p].hook # m /\ m \notin plan[p].left
               /\ (worker[p] = None \/ worker[p].mount # m)
               /\ \A i \in 1 .. Len(queue[p]) : queue[p][i].mount # m
    <3>0. ~(mount[m].refs > 0)
      BY <2>3
    <3>1. m \notin plan[p].left /\ \A i \in 1 .. Notices : ~carries(p, i, m)
      BY Zenon, <3>0, HasLease
    <3>2. plan[p].hook # m
      BY Zenon, <3>1 DEF Planned
    <3>3. ASSUME NEW u \in Task, u.mount = m PROVE u.id \in 1 .. Notices
      BY Zenon, <3>3, Fields, NilAssumption
    <3>4. worker[p] = None \/ worker[p].mount # m
      BY ZenonT(60), <3>1, <3>3 DEF carries, RegistryTypeOK
    <3>5. \A i \in 1 .. Len(queue[p]) : queue[p][i].mount # m
      BY ZenonT(60), <3>1, <3>3, Fields DEF carries
    <3>. QED  BY Zenon, <3>1, <3>2, <3>4, <3>5
  <2>. QED  BY Zenon, <2>1, <2>2, <2>3 DEF CleanupOnceAndLast
<1>. QED  BY <1>1, RegistryInit, RegistryStep, PTL DEF Spec

\* When Flush returns, everything accepted before it was called was delivered,
\* whether its marker came back or the worker of a released plan ended.
THEOREM FlushesAreBarriers ==
    Spec => []FlushIsABarrier
<1>1. RegistryInv => FlushIsABarrier
  BY Zenon DEF RegistryInv, Ordered, FlushIsABarrier
<1>. QED  BY <1>1, RegistryInit, RegistryStep, PTL DEF Spec
=============================================================================
