--------------------------- MODULE SessionContract ---------------------------
(***************************************************************************)
(* What the store promises to those who submit to a session, without       *)
(* claims, leases, turns, checkpoints or retries: a session runs one run   *)
(* at a time; a submission is taken from the queue once, by the open run;  *)
(* only the run that took it answers it, and only while it is open; and a  *)
(* run is completed only when nothing is left in the queue.                *)
(***************************************************************************)

CONSTANTS Sessions, Runs, Items, RunSession, ItemSession, None

VARIABLES
    run,      \* "new", "open", "completed" or "ended" (failed, interrupted)
    item,     \* "new", "queued", "taken" or "answered"
    holder    \* the run that took the item; None also when a pause put a
              \* queued item aside

contractVars == <<run, item, holder>>

ContractInit ==
    /\ run = [r \in Runs |-> "new"]
    /\ item = [i \in Items |-> "new"]
    /\ holder = [i \in Items |-> None]

Open(r) ==
    /\ run[r] = "new"
    /\ \A q \in Runs : RunSession[q] = RunSession[r] => run[q] # "open"
    /\ run' = [run EXCEPT ![r] = "open"]
    /\ UNCHANGED <<item, holder>>

Submit(i) ==
    /\ item[i] = "new"
    /\ item' = [item EXCEPT ![i] = "queued"]
    /\ UNCHANGED <<run, holder>>

\* The open run takes queued items of its session, to answer them or, by is
\* None, to put them aside.
Take(r, by, ids) ==
    /\ run[r] = "open"
    /\ by \in {r, None}
    /\ \A i \in ids : item[i] = "queued" /\ ItemSession[i] = RunSession[r]
    /\ item' = [i \in Items |-> IF i \in ids THEN "taken" ELSE item[i]]
    /\ holder' = [i \in Items |-> IF i \in ids THEN by ELSE holder[i]]
    /\ UNCHANGED run

Answer(r, ids) ==
    /\ run[r] = "open"
    /\ \A i \in ids : item[i] = "taken" /\ holder[i] = r
    /\ item' = [i \in Items |-> IF i \in ids THEN "answered" ELSE item[i]]
    /\ UNCHANGED <<run, holder>>

Close(r, outcome) ==
    /\ run[r] = "open"
    /\ outcome = "completed" =>
          \A i \in Items : ItemSession[i] = RunSession[r] => item[i] # "queued"
    /\ run' = [run EXCEPT ![r] = outcome]
    /\ UNCHANGED <<item, holder>>

ContractNext ==
    \/ \E r \in Runs : Open(r)
    \/ \E i \in Items : Submit(i)
    \/ \E r \in Runs, ids \in SUBSET Items :
          Take(r, r, ids) \/ Take(r, None, ids) \/ Answer(r, ids)
    \/ \E r \in Runs, outcome \in {"completed", "ended"} : Close(r, outcome)

ContractSpec == ContractInit /\ [][ContractNext]_contractVars
=============================================================================
