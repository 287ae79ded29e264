--------------------------- MODULE MCSessionStore ---------------------------
(***************************************************************************)
(* One session, for TLC: every run and every item belongs to it.  A        *)
(* behaviour is about submissions and turns, or about the tool calls and   *)
(* checkpoints of one turn; the rows of the other kind stay absent.        *)
(***************************************************************************)
EXTENDS SessionRefinement, TLC

CONSTANT S1
MCRunSession == [r \in Runs |-> S1]
MCItemSession == [i \in Items |-> S1]

VARIABLE about   \* "inbox" or "tools"

MCInit == Init /\ about \in {"inbox", "tools"}

InboxNext == /\ about = "inbox"
             /\ UNCHANGED <<about, callState, callRun, callClaim>>
             /\ Next
             /\ Cardinality({rv \in Runs \X Revisions :
                               ckptState'[rv[1]][rv[2]] # "none"}) <= 1
             /\ \A r \in Runs : ckptState'[r][2] = "none"
             /\ \A t \in Turns : finishedAt'[t] <= 1
ToolsNext == /\ about = "tools"
             /\ UNCHANGED <<about, inboxState, inboxTurn, acked>>
             /\ Next
             /\ Cardinality({t \in Turns : turnState'[t] # "none"}) <= 1
             /\ Cardinality(minted') <= 2

MCSpec == MCInit /\ [][InboxNext \/ ToolsNext]_<<storeVars, about>>

MCSymmetry == Permutations(Runs) \cup Permutations(Turns) \cup Permutations(Items)
                \cup Permutations(Tokens)
=============================================================================
