----------------------------- MODULE MCObservers -----------------------------
(***************************************************************************)
(* The two ways to observe a session: the events of a run over a           *)
(* connection (EventDelivery), and two subscriptions of the watch service  *)
(* that share, leave and re-open the pollers of a session (WatchService).  *)
(* They share no state; a behaviour moves one of them.                     *)
(***************************************************************************)
EXTENDS MCEventDelivery, TLC

CONSTANTS s1, Subs, Groups, StoreIDs, Failed

VARIABLES storeID, rows, group, sub, live, liveBytes, version, closed, begun, view,
          scene   \* "events" or "watches"

deliveryVars == <<todo, log, final, queue, tail, shut, conn, bridge, client, lossy>>
watchVars == <<storeID, rows, group, sub, live, liveBytes, version, closed, begun, view>>

noRows == {[s \in {s1} |-> [rev |-> 0, run |-> <<>>, msg |-> <<>>]]}

Watches == INSTANCE WatchService WITH
    Sessions <- {s1}, Runs <- {}, Messages <- {}, Attempts <- {},
    sessionOf <- <<>>, runOf <- <<>>, InitialRows <- noRows,
    Replacements <- {}, Resnapshotters <- {}, MaxRevision <- 1, MaxVersion <- 0,
    MaxSubscriptions <- 2, MaxWatchedSessions <- 1, MaxLiveRuns <- 1,
    MaxLiveTextBytes <- 1, PendingUpdates <- 1, Outcomes <- {Failed}

ASSUME WatchBounds ==
    Watches!WatchIdentities /\ Watches!WatchOptions /\ Watches!WatchData

ObserversInit ==
    /\ Init /\ Watches!Init
    /\ scene \in {"events", "watches"}
    /\ scene = "watches" => todo = CHOOSE s \in Scripts : TRUE

ObserversNext ==
    /\ \/ scene = "events" /\ Next /\ UNCHANGED watchVars
       \/ scene = "watches" /\ Watches!Next /\ UNCHANGED deliveryVars
    /\ UNCHANGED scene

ObserversSpec ==
    ObserversInit /\ [][ObserversNext]_<<deliveryVars, watchVars, scene>>

Identities == Permutations(Subs) \cup Permutations(Groups)

\* Every registered subscription has a poller that still runs, and a session
\* has one poller that is not cancelled, also while old pollers wind down; an
\* observer with something to read is woken (Watch, poll, signal).
SubscriberServed == Watches!SubscriberServed
=============================================================================
