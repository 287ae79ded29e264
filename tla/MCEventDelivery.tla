--------------------------- MODULE MCEventDelivery ---------------------------
(* One run: an assistant message with a tool call, its result, a pause.     *)
EXTENDS EventDelivery

CONSTANTS m1, m2, t1, p1

MCCallsOf == [m \in Messages |-> IF m = m1 THEN {t1} ELSE {}]
MCResultsOf == [m \in Messages |-> IF m = m2 THEN {t1} ELSE {}]

toolTurn == persistAssistantTurn(m1) \o persistToolClaim(t1)
              \o persistToolSettlement(t1, m2)

MCScripts == {
    RunStarted \o EventMessageDelta(m1) \o EventMessageDelta(m1) \o toolTurn \o RunFinished,
    TurnStarted \o RunPaused(p1) \o RunResumed(p1) \o EventMessageDelta(m1)
      \o persistAssistantTurn(m1) \o RunFinished}
=============================================================================
