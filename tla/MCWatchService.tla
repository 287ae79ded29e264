--------------------------- MODULE MCWatchService ---------------------------
(***************************************************************************)
(* Instances of WatchService: all runs belong to the first session, and    *)
(* each message to a run of its own.                                       *)
(***************************************************************************)
EXTENDS WatchService, TLC

CONSTANTS s1, s2, r1, r2, m1, m2

MCSessionOf == [r \in Runs |-> s1]
MCRunOf == [m \in Messages |-> IF m = m1 \/ r2 \notin Runs THEN r1 ELSE r2]

MCEmpty == {[s \in Sessions |-> noRow]}

\* A session whose first run is streaming into its first message.
MCStreaming == {[s \in Sessions |->
    [rev |-> 1, run |-> [r \in Runs |-> IF r = r1 THEN "active" ELSE "none"],
     msg |-> [m \in Messages |-> IF m = m1 THEN "open" ELSE "none"]]]}

Identities == Permutations(Subs) \cup Permutations(Groups)
                \cup Permutations(Attempts)
====
