-------------------------- MODULE ExtensionRegistry --------------------------
(***************************************************************************)
(* extension.Registry: components are prepared, mounted, deactivated and   *)
(* closed while runs hold plans (snapshots) over the mounts that were      *)
(* active when they began.  A plan leases its mounts; a notification that  *)
(* waits in the plan's queue leases its mount once more.  Close waits for  *)
(* the last lease and then runs the mount's cleanups, last one first.      *)
(*                                                                         *)
(* A mount here is one mountState: two of them may carry the same instance *)
(* id, one after the other.  Everything under one hold of the registry's   *)
(* or the plan's mutex is one step.                                        *)
(***************************************************************************)
EXTENDS Naturals, Sequences, FiniteSets

CONSTANTS
    Mounts, InstanceID,   \* mountStates and their component instance
    Scope, Target,        \* registration scope, and the scope of a plan
    Plans, Closers,       \* runs that take a plan, callers of Close
    Effects,              \* cleanups a mount defers
    QueueSize,            \* notificationQueueSize
    Notices,              \* bound: notifications accepted
    CleanupFailures,      \* bound: cleanups that return an error
    None

ASSUME RegistryOptions ==
    /\ Effects \in Nat /\ QueueSize \in Nat \ {0}
    /\ Notices \in Nat /\ CleanupFailures \in Nat

\* nil is no mount and no task, and neither is a call that has returned.
ASSUME NilAssumption ==
    /\ None \notin Mounts /\ "returned" \notin Mounts
    /\ None \notin [id : Nat, mount : Mounts \cup {None}]

VARIABLES
    mounts,     \* Registry.mounts: instance id to mount
    mount,      \* per mount: its stage, refs and drained channel
    effect,     \* per mount and effect: how often it ran, and done
    plan,       \* per plan: stage, the leases left to release, hook, Flush
    queue,      \* per plan: notifications, with Flush's marker
    worker,     \* per plan: the task the worker runs
    closer,     \* per Close call: its mount and where it is
    finished,   \* notifications whose callback returned
    accepted,   \* history: notifications accepted, in order
    failures    \* cleanups that failed so far

vars == <<mounts, mount, effect, plan, queue, worker, closer, finished,
          accepted, failures>>


Marker == 0
EffectIDs == 1 .. Effects
IDs == {InstanceID[m] : m \in Mounts}

Init ==
    /\ mounts = [i \in IDs |-> None]
    /\ mount = [m \in Mounts |-> [stage |-> "new", refs |-> 0, drained |-> FALSE]]
    /\ effect = [m \in Mounts |-> [e \in EffectIDs |-> [runs |-> 0, done |-> FALSE]]]
    /\ plan = [p \in Plans |-> [stage |-> "none", left |-> {}, hook |-> None,
                                flush |-> "idle", before |-> {}]]
    /\ queue = [p \in Plans |-> <<>>]
    /\ worker = [p \in Plans |-> None]
    /\ closer = [c \in Closers |-> [mount |-> None, at |-> "idle", next |-> 0]]
    /\ finished = {} /\ accepted = <<>> /\ failures = 0

active(m) == mount[m].stage = "active"
becomes(m, r) == mount' = [mount EXCEPT ![m] = r]
planned(p, r) == plan' = [plan EXCEPT ![p] = r]

-----------------------------------------------------------------------------
(* Mounting.                                                               *)

(* The installer ran: its effects are kept for Rollback or Close.  When it *)
(* fails, what it deferred is cleaned up at once.                          *)
allRan(m) ==
    effect' = [effect EXCEPT ![m] =
                  [e \in EffectIDs |-> [runs |-> effect[m][e].runs + 1, done |-> TRUE]]]

PrepareMount(m) ==
    /\ mount[m].stage = "new"
    /\ \/ becomes(m, [mount[m] EXCEPT !.stage = "prepared"]) /\ UNCHANGED effect
       \/ becomes(m, [mount[m] EXCEPT !.stage = "discarded"]) /\ allRan(m)
    /\ UNCHANGED <<mounts, plan, queue, worker, closer, finished, accepted, failures>>

(* A second mount of a live instance id is refused, and stays available    *)
(* for Rollback.                                                           *)
commitable(m) == mounts[InstanceID[m]] = None

CommitMount(m) ==
    /\ mount[m].stage = "prepared" /\ commitable(m)
    /\ becomes(m, [mount[m] EXCEPT !.stage = "active"])
    /\ mounts' = [mounts EXCEPT ![InstanceID[m]] = m]
    /\ UNCHANGED <<effect, plan, queue, worker, closer, finished, accepted, failures>>

Rollback(m) ==
    /\ mount[m].stage = "prepared"
    /\ becomes(m, [mount[m] EXCEPT !.stage = "discarded"]) /\ allRan(m)
    /\ UNCHANGED <<mounts, plan, queue, worker, closer, finished, accepted, failures>>

(* deactivateLocked does nothing for a mount that is not active any more,  *)
(* even if another mount now has its instance id.                          *)
deactivateLocked(m) ==
    IF active(m)
    THEN /\ becomes(m, [mount[m] EXCEPT !.stage = "inactive", !.drained = mount[m].refs = 0])
         /\ mounts' = [mounts EXCEPT ![InstanceID[m]] = None]
    ELSE UNCHANGED <<mount, mounts>>

Deactivate(m) ==
    /\ mount[m].stage \in {"active", "inactive"}
    /\ deactivateLocked(m)
    /\ UNCHANGED <<effect, plan, queue, worker, closer, finished, accepted, failures>>

-----------------------------------------------------------------------------
(* Plans: leases, notifications and synchronous callbacks.                 *)

ScopeApplies(registration, target) ==
    registration = "global" \/ registration = target

leased(target) == {m \in Mounts : active(m) /\ mounts[InstanceID[m]] = m /\ ScopeApplies(Scope[m], target)}

Snapshot(p) ==
    /\ plan[p].stage = "none"
    /\ LET ms == leased(Target[p]) IN
       /\ planned(p, [plan[p] EXCEPT !.stage = "open", !.left = ms])
       /\ mount' = [m \in Mounts |-> IF m \in ms THEN [mount[m] EXCEPT !.refs = @ + 1] ELSE mount[m]]
    /\ UNCHANGED <<mounts, effect, queue, worker, closer, finished, accepted, failures>>

(* A hook, transform, gate or around callback of a planned mount; one in   *)
(* the life of a plan stands for all of them.                              *)
CallHook(p, m) ==
    /\ plan[p].stage = "open" /\ plan[p].hook = None /\ m \in plan[p].left
    /\ planned(p, [plan[p] EXCEPT !.hook = m])
    /\ UNCHANGED <<mounts, mount, effect, queue, worker, closer, finished, accepted, failures>>

HookReturns(p) ==
    /\ plan[p].hook \in Mounts
    /\ planned(p, [plan[p] EXCEPT !.hook = "returned"])
    /\ UNCHANGED <<mounts, mount, effect, queue, worker, closer, finished, accepted, failures>>

releaseSilently(r) == [r EXCEPT !.refs = IF @ > 0 THEN @ - 1 ELSE 0]
release(r) ==
    LET left == IF r.refs > 0 THEN r.refs - 1 ELSE 0
    IN [r EXCEPT !.refs = left, !.drained = r.drained \/ (left = 0 /\ r.stage # "active")]

retain(m)        == becomes(m, [mount[m] EXCEPT !.refs = @ + 1])

hasRoom(p)        == Len(queue[p]) < QueueSize

(* Only while the plan's queue is open, and only if it has room: otherwise *)
(* the lease just taken is given back and the notification is dropped.     *)
enqueueNotification(p, m) ==
    /\ plan[p].stage = "open" /\ m \in plan[p].left
    /\ Len(accepted) < Notices /\ hasRoom(p)
    /\ retain(m)
    /\ accepted' = Append(accepted, p)
    /\ queue' = [queue EXCEPT ![p] = Append(@, [id |-> Len(accepted) + 1, mount |-> m])]
    /\ UNCHANGED <<mounts, effect, plan, worker, closer, finished, failures>>

WorkerTakes(p) ==
    /\ worker[p] = None /\ queue[p] # <<>>
    /\ worker' = [worker EXCEPT ![p] = Head(queue[p])]
    /\ queue' = [queue EXCEPT ![p] = Tail(@)]
    /\ UNCHANGED <<mounts, mount, effect, plan, closer, finished, accepted, failures>>

(* The callback returns or panics; either way its lease is given back.     *)
WorkerReturns(p) ==
    /\ worker[p] # None
    /\ worker' = [worker EXCEPT ![p] = None]
    /\ IF worker[p].id = Marker
       THEN planned(p, [plan[p] EXCEPT !.flush = "flushed"]) /\ UNCHANGED <<mount, finished>>
       ELSE /\ becomes(worker[p].mount, release(mount[worker[p].mount]))
            /\ finished' = finished \cup {worker[p].id} /\ UNCHANGED plan
    /\ UNCHANGED <<mounts, effect, queue, closer, accepted, failures>>

acceptedOf(p) == {i \in 1 .. Len(accepted) : accepted[i] = p}

(* Flush: behind everything accepted so far; once the queue is closed it   *)
(* waits for the worker to end instead.                                    *)
Flush(p) ==
    /\ plan[p].flush = "idle" /\ plan[p].stage # "none"
    /\ IF plan[p].stage = "open"
       THEN /\ hasRoom(p)
            /\ queue' = [queue EXCEPT ![p] = Append(@, [id |-> Marker, mount |-> None])]
            /\ planned(p, [plan[p] EXCEPT !.flush = "waiting", !.before = acceptedOf(p)])
       ELSE /\ planned(p, [plan[p] EXCEPT !.flush = "ending", !.before = acceptedOf(p)])
            /\ UNCHANGED queue
    /\ UNCHANGED <<mounts, mount, effect, worker, closer, finished, accepted, failures>>

workerEndedEarly(p) == queue[p] = <<>>
workerEnded(p)      == queue[p] = <<>> /\ worker[p] = None

FlushEnds(p) ==
    /\ plan[p].flush = "ending" /\ plan[p].stage # "open" /\ workerEnded(p)
    /\ planned(p, [plan[p] EXCEPT !.flush = "flushed"])
    /\ UNCHANGED <<mounts, mount, effect, queue, worker, closer, finished, accepted, failures>>

(* Release closes the queue first, then gives back one lease at a time.    *)
Release(p) ==
    /\ plan[p].stage = "open" /\ plan[p].hook \notin Mounts
    /\ planned(p, [plan[p] EXCEPT !.stage = "closed"])
    /\ UNCHANGED <<mounts, mount, effect, queue, worker, closer, finished, accepted, failures>>

ReleaseLease(p) ==
    /\ plan[p].stage = "closed"
    /\ \E m \in plan[p].left :
          /\ planned(p, [plan[p] EXCEPT !.left = @ \ {m}])
          /\ becomes(m, release(mount[m]))
    /\ UNCHANGED <<mounts, effect, queue, worker, closer, finished, accepted, failures>>

-----------------------------------------------------------------------------
(* Close: deactivate, wait for the last lease, run the cleanups.           *)

closerAt(c, at) == closer[c].at = at

(* A callback of the mount is refused (ErrSelfClose): its Close would wait *)
(* for its own lease.                                                      *)
Close(c, m) ==
    /\ closerAt(c, "idle") /\ mount[m].stage \in {"active", "inactive"}
    /\ deactivateLocked(m)
    /\ closer' = [closer EXCEPT ![c] = [mount |-> m, at |-> "draining", next |-> Effects]]
    /\ UNCHANGED <<effect, plan, queue, worker, finished, accepted, failures>>

CloseCanceled(c) ==
    /\ closerAt(c, "draining")
    /\ closer' = [closer EXCEPT ![c].at = "canceled"]
    /\ UNCHANGED <<mounts, mount, effect, plan, queue, worker, finished, accepted, failures>>

cleanLocked(m) == \E c \in Closers : closer[c].mount = m /\ closer[c].at = "cleaning"

CloseDrained(c) ==
    /\ closerAt(c, "draining") /\ mount[closer[c].mount].drained
    /\ ~cleanLocked(closer[c].mount)
    /\ closer' = [closer EXCEPT ![c].at = "cleaning"]
    /\ UNCHANGED <<mounts, mount, effect, plan, queue, worker, finished, accepted, failures>>

(* One cleanup after the other, from the last; one that failed is left for *)
(* the next Close, one that is done is skipped.                            *)
callAgain(r)   == [runs |-> r.runs + 1, done |-> TRUE]
callCleanup(r) == IF r.done THEN r ELSE [runs |-> r.runs + 1, done |-> TRUE]

Cleanup(c) ==
    LET m == closer[c].mount
        e == closer[c].next
    IN /\ closerAt(c, "cleaning") /\ e > 0
       /\ closer' = [closer EXCEPT ![c].next = @ - 1]
       /\ \/ /\ effect' = [effect EXCEPT ![m][e] = callCleanup(@)]
             /\ UNCHANGED failures
          \/ /\ ~effect[m][e].done /\ failures < CleanupFailures
             /\ failures' = failures + 1 /\ UNCHANGED effect
       /\ UNCHANGED <<mounts, mount, plan, queue, worker, finished, accepted>>

CloseReturns(c) ==
    /\ closerAt(c, "cleaning") /\ closer[c].next = 0
    /\ closer' = [closer EXCEPT ![c].at = "returned"]
    /\ UNCHANGED <<mounts, mount, effect, plan, queue, worker, finished, accepted, failures>>

-----------------------------------------------------------------------------
Served(p) ==
    \/ HookReturns(p) \/ WorkerTakes(p) \/ WorkerReturns(p) \/ FlushEnds(p)
    \/ Release(p) \/ ReleaseLease(p)

Closing(c) == CloseDrained(c) \/ Cleanup(c) \/ CloseReturns(c)

Next ==
    \/ \E m \in Mounts : PrepareMount(m) \/ CommitMount(m) \/ Rollback(m) \/ Deactivate(m)
    \/ \E p \in Plans : Snapshot(p) \/ Flush(p) \/ Served(p)
    \/ \E p \in Plans, m \in Mounts : CallHook(p, m) \/ enqueueNotification(p, m)
    \/ \E c \in Closers : CloseCanceled(c) \/ Closing(c)
    \/ \E c \in Closers, m \in Mounts : Close(c, m)

Spec == Init /\ [][Next]_vars

-----------------------------------------------------------------------------
(* Properties                                                              *)

Task == {t \in [id : 0 .. Notices, mount : Mounts \cup {None}] :
            t.id = Marker <=> t.mount = None}
MountState == [stage : {"new", "prepared", "discarded", "active", "inactive"},
               refs : Nat, drained : BOOLEAN]
PlanState == [stage : {"none", "open", "closed"}, left : SUBSET Mounts,
              hook : Mounts \cup {None, "returned"},
              flush : {"idle", "waiting", "ending", "flushed"}, before : SUBSET (1 .. Notices)]
CloseCall == [mount : Mounts \cup {None}, next : 0 .. Effects,
              at : {"idle", "draining", "canceled", "cleaning", "returned"}]

(* The shape of the registry: no lease is counted below zero, no queue     *)
(* holds more than its size.                                               *)
RegistryTypeOK ==
    /\ mounts \in [IDs -> Mounts \cup {None}]
    /\ mount \in [Mounts -> MountState]
    /\ effect \in [Mounts -> [EffectIDs -> [runs : Nat, done : BOOLEAN]]]
    /\ plan \in [Plans -> PlanState]
    /\ queue \in [Plans -> Seq(Task)] /\ \A p \in Plans : Len(queue[p]) <= QueueSize
    /\ worker \in [Plans -> Task \cup {None}]
    /\ closer \in [Closers -> CloseCall]
    /\ finished \subseteq 1 .. Notices
    /\ accepted \in Seq(Plans) /\ Len(accepted) <= Notices
    /\ failures \in 0 .. CleanupFailures

(* The registry lists a mount exactly while it is active, so an instance   *)
(* id never has two active mounts and the handle of an old mount cannot    *)
(* unregister its successor (deactivateLocked returns early).              *)
ListedWhileActive ==
    \A m \in Mounts : active(m) <=> mounts[InstanceID[m]] = m

\* Plan p has notification i for mount m, waiting or running.
carries(p, i, m) ==
    \/ worker[p] # None /\ worker[p].id = i /\ worker[p].mount = m
    \/ \E j \in 1 .. Len(queue[p]) : queue[p][j].id = i /\ queue[p][j].mount = m

\* The leases of a mount: 0 is the plan's own, the others its notifications'.
leasesOf(m) == {l \in Plans \X (0 .. Notices) :
                  IF l[2] = 0 THEN m \in plan[l[1]].left ELSE carries(l[1], l[2], m)}

(* A mount's lease count is exactly its plans plus its queued and running  *)
(* notifications, across Snapshot, retain, dropped and closed queues.      *)
RefsExact ==
    \A m \in Mounts : mount[m].refs = Cardinality(leasesOf(m))

(* The cleanups of a mount run once each, over all Close calls, their      *)
(* retries and a Rollback, and no callback of it, queued, running or       *)
(* synchronous, is left when the first of them runs, whatever was released *)
(* or closed in between (cleanMu and done; the drained channel is closed   *)
(* for good).                                                              *)
CleanupOnceAndLast ==
    \A m \in Mounts :
       /\ \A e \in EffectIDs : effect[m][e].runs <= 1
       /\ (\E e \in EffectIDs : effect[m][e].runs > 0) =>
             /\ ~active(m)
             /\ \A p \in Plans : /\ plan[p].hook # m /\ m \notin plan[p].left
                                 /\ (worker[p] = None \/ worker[p].mount # m)
                                 /\ \A i \in 1 .. Len(queue[p]) : queue[p][i].mount # m

(* When Flush returns, every notification accepted before it was called    *)
(* has been delivered, also when the plan was released meanwhile.          *)
FlushIsABarrier ==
    \A p \in Plans : plan[p].flush = "flushed" => plan[p].before \subseteq finished

(* A Close that is not canceled comes back: runs release what they leased  *)
(* and nothing that waits in a queue keeps a lease for ever.               *)
CloseEnds ==
    \A c \in Closers : closerAt(c, "draining") ~> closer[c].at \in {"returned", "canceled"}
=============================================================================
