---------------------------- MODULE EventDelivery ----------------------------
(***************************************************************************)
(* How the events of a session reach an AG-UI client.  The runtime commits *)
(* an event and publishes a copy of it: into the bounded queue of the run, *)
(* from there by a worker into the tail, and from the tail into the        *)
(* bounded buffer of the connection.  A connection subscribes to the tail  *)
(* first, then replays the store from the client's cursor, then forwards   *)
(* what its buffer holds.  The client reconnects with the cursor that the  *)
(* last connection reported.                                               *)
(*                                                                         *)
(* Publication is best effort and lags behind the commit; it may also be   *)
(* ordered differently.  What the client has to end up with comes from     *)
(* the store, so the model keeps the log in the order of ListEvents        *)
(* (creation time), and a cursor is a position in it.                      *)
(***************************************************************************)
EXTENDS Naturals, Sequences, FiniteSets, SequencesExt, FiniteSetsExt

CONSTANTS
    Messages, Calls, Pauses,  \* identities
    callsOf,                  \* the tool calls an assistant message asks for
    resultsOf,                \* the tool calls whose result a message carries
    Scripts,                  \* what the runtime may do, see below
    QueueSize, TailSize, Limit,
    MaxConnects,              \* bound: connections the client opens
    None

ASSUME DeliveryOptions ==
    /\ \A n \in {QueueSize, TailSize, Limit} : n \in Nat \ {0}
    /\ MaxConnects \in Nat
    /\ callsOf \in [Messages -> SUBSET Calls]
    /\ resultsOf \in [Messages -> SUBSET Calls]
    /\ None \notin Messages \cup Calls \cup Pauses

VARIABLES
    todo,     \* what the runtime still does
    log,      \* the durable events, in the order of ListEvents
    final,    \* messages whose content is committed
    queue,    \* eventQueue: published and not yet handed to the tail
    tail,     \* Tail: the connection's buffer and what Emit is doing to it
    shut,     \* Tail.closed
    conn,     \* the connection: locals of Reconnect and replay
    bridge,   \* what the connection's Bridge remembers and wrote
    client,   \* the client: its cursor, and what it was ever shown
    lossy     \* history: an event was dropped on its way to the client

vars == <<todo, log, final, queue, tail, shut, conn, bridge, client, lossy>>

-----------------------------------------------------------------------------
(* Events, and what the runtime does in a turn.                            *)

Kinds == {"started", "delta", "committed", "pending", "running", "terminal",
          "paused", "resumed", "finished", "other"}

Event == [kind : Kinds, of : Messages \cup Calls \cup Pauses \cup {None}]

event(k, x) == [kind |-> k, of |-> x]

\* One transaction with its events and the messages it completes; a
\* publication of an event committed before; a live-only event.
commit(events, msgs) == [op |-> "commit", events |-> events, msgs |-> msgs]
publish(e) == [op |-> "publish", event |-> e]

persisted(e) == <<commit(<<e>>, {}), publish(e)>>

EventMessageDelta(m) == <<publish(event("delta", m))>>

publishMessageCommitted(m) == persisted(event("committed", m))

\* The transaction of an assistant turn creates its tool calls; their
\* pending events carry its time, and are published after the notification.
persistAssistantTurn(m) ==
    LET pending == SetToSeq({event("pending", t) : t \in callsOf[m]})
    IN  <<commit(pending, {m})>>
        \o publishMessageCommitted(m)
        \o [i \in DOMAIN pending |-> publish(pending[i])]

persistToolClaim(t) == persisted(event("running", t))

persistToolSettlement(t, m) ==
    <<commit(<<event("terminal", t)>>, {m}), publish(event("terminal", t))>>
    \o publishMessageCommitted(m)

RunStarted == persisted(event("started", None))
TurnStarted == persisted(event("other", None))

\* PromotePause commits its event; nothing publishes it.
RunPaused(p) == <<commit(<<event("paused", p)>>, {})>>
RunResumed(p) == persisted(event("resumed", p))
RunFinished == persisted(event("finished", None))

-----------------------------------------------------------------------------
(* State.                                                                  *)

\* The position of an event in the log; 0 when it is live-only.
at(e) == IF \E i \in DOMAIN log : log[i] = e
         THEN CHOOSE i \in DOMAIN log : log[i] = e ELSE 0

Overflow == [kind |-> "overflow", of |-> None]

\* A closed buffer can still be read; a tail that is shut has no subscribers.
noTail == [state |-> "none", buf |-> <<>>, full |-> FALSE]

idle == [pc |-> "idle", start |-> 0, next |-> 0, seen |-> {}, page |-> <<>>,
         more |-> FALSE]

\* Frames are native AG-UI events.  "start" stands for TOOL_CALL_START and
\* TOOL_CALL_ARGS, which are always written together; "delta" for the text
\* of a message streamed live, "text" for its text written as a whole.
Frame == [frame : {"text", "delta"}, of : Messages]
         \cup [frame : {"start", "end", "result"}, of : Calls]
         \cup [frame : {"paused", "resumed"}, of : Pauses]
         \cup [frame : {"started", "terminal"}, of : {None}]

frame(f, x) == [frame |-> f, of |-> x]

newBridge == [projected |-> {}, streamed |-> {}, written |-> [f \in Frame |-> 0],
              rejected |-> None]

Init ==
    /\ todo \in Scripts
    /\ log = <<>> /\ final = {} /\ queue = <<>>
    /\ tail = noTail /\ shut = FALSE /\ conn = idle /\ bridge = newBridge
    /\ client = [cursor |-> 0, shown |-> {}, connects |-> 0]
    /\ lossy = FALSE

-----------------------------------------------------------------------------
(* The runtime.                                                            *)

Commit ==
    /\ todo # <<>> /\ Head(todo).op = "commit"
    /\ todo' = Tail(todo)
    /\ log' = log \o Head(todo).events
    /\ final' = final \cup Head(todo).msgs
    /\ UNCHANGED <<queue, tail, conn, bridge, client, lossy, shut>>

\* eventQueue.emit: a copy for the worker, or none when the queue is full.
Publish ==
    /\ todo # <<>> /\ Head(todo).op = "publish"
    /\ todo' = Tail(todo)
    /\ IF Len(queue) < QueueSize
       THEN queue' = Append(queue, Head(todo).event) /\ UNCHANGED lossy
       ELSE lossy' = TRUE /\ UNCHANGED queue
    /\ UNCHANGED <<log, final, tail, conn, bridge, client, shut>>

\* The worker calls Tail.Emit: without a subscriber the event is dropped, a
\* subscriber with room gets it.
TailEmit ==
    /\ queue # <<>> /\ ~tail.full
    /\ CASE tail.state # "open" -> queue' = Tail(queue) /\ UNCHANGED tail
         [] tail.state = "open" /\ Len(tail.buf) < TailSize ->
              /\ queue' = Tail(queue)
              /\ tail' = [tail EXCEPT !.buf = Append(@, Head(queue))]
         [] OTHER -> tail' = [tail EXCEPT !.full = TRUE] /\ UNCHANGED queue
    /\ UNCHANGED <<todo, log, final, conn, bridge, client, lossy, shut>>

\* The buffer was full: its oldest event makes room for the marker.  The
\* reader takes no lock and may have emptied the buffer meanwhile.
TailOverflow ==
    /\ tail.full
    /\ tail' = [state |-> "closed", full |-> FALSE,
                buf |-> Append(IF tail.buf = <<>> THEN <<>> ELSE Tail(tail.buf),
                               Overflow)]
    /\ queue' = Tail(queue)
    /\ lossy' = TRUE
    /\ UNCHANGED <<todo, log, final, conn, bridge, client, shut>>

\* Tail.Close.
TailClose ==
    /\ ~shut /\ ~tail.full
    /\ shut' = TRUE
    /\ tail' = [tail EXCEPT !.state = IF @ = "open" THEN "closed" ELSE @]
    /\ UNCHANGED <<todo, log, final, queue, conn, bridge, client, lossy>>

-----------------------------------------------------------------------------
(* The bridge.  Each operator returns the bridge after it was told.        *)

wrote(b, fs) == [b EXCEPT !.written =
    [f \in Frame |-> IF f \in fs /\ @[f] < 2 THEN @[f] + 1 ELSE @[f]]]

\* deliverNative: a frame that was written is not written again.
deliverNative(b, fs) == wrote(b, {f \in fs : b.written[f] = 0})

\* projectedNativeFrameKeys: the native frames of a message's blocks.
nativeFrames(m) ==
    {frame("text", x) : x \in {m} \cap {x \in Messages : resultsOf[x] = {}}}
    \cup {frame(f, t) : f \in {"start", "end"}, t \in callsOf[m]}
    \cup {frame("result", t) : t \in resultsOf[m]}

\* Mutant: a projection always has its native frames.
projectionWithNative(b, m, native) ==
    [wrote(b, nativeFrames(m)) EXCEPT !.projected = @ \cup {m}]

\* EmitCommittedProjection: with its native frames, unless it continues a
\* live stream or all of them were written.
EmitCommittedProjection(b, m, native) ==
    LET known == \A f \in nativeFrames(m) : b.written[f] > 0
    IN  [(IF native /\ ~known THEN wrote(b, nativeFrames(m)) ELSE b)
           EXCEPT !.projected = @ \cup {m}]

emitMessageDelta(b, m) ==
    IF m \in b.projected THEN b
    ELSE [wrote(b, {frame("delta", m)}) EXCEPT !.streamed = @ \cup {m}]

emitLiveMessageCommitted(b, m) ==
    IF m \in b.projected \/ m \notin final THEN b
    ELSE EmitCommittedProjection(b, m, m \notin b.streamed)

emitToolCallUpdated(b, k, t) ==
    deliverNative(b, {frame("start", t)}
        \cup IF k = "terminal" THEN {frame("end", t), frame("result", t)} ELSE {})

emitPaused(b, p) == wrote(b, {frame("paused", p)})

\* The protocol emitter refuses a resume without its pause.
emitResumed(b, p) ==
    IF b.written[frame("paused", p)] = 0
    THEN [b EXCEPT !.rejected = event("resumed", p)]
    ELSE wrote(b, {frame("resumed", p)})

Emit(b, e) ==
    CASE e.kind = "delta" -> emitMessageDelta(b, e.of)
      [] e.kind = "committed" -> emitLiveMessageCommitted(b, e.of)
      [] e.kind \in {"pending", "running", "terminal"} ->
           emitToolCallUpdated(b, e.kind, e.of)
      [] e.kind = "paused" -> emitPaused(b, e.of)
      [] e.kind = "resumed" -> emitResumed(b, e.of)
      [] e.kind = "finished" -> deliverNative(b, {frame("terminal", None)})
      [] e.kind = "started" -> wrote(b, {frame("started", None)})
      [] OTHER -> b

-----------------------------------------------------------------------------
(* The connection.                                                         *)

\* SSEHandler and Reconnect: subscribe before anything is read.
Connect ==
    /\ conn.pc = "idle" /\ client.connects < MaxConnects /\ ~tail.full
    /\ conn' = [idle EXCEPT !.pc = "hydrate", !.start = client.cursor,
                            !.next = client.cursor]
    /\ tail' = [noTail EXCEPT !.state = IF shut THEN "closed" ELSE "open"]
    /\ bridge' = newBridge
    /\ client' = [client EXCEPT !.connects = @ + 1]
    /\ UNCHANGED <<todo, log, final, queue, lossy, shut>>

\* hydratePausesBeforeCursor: pauses that were not resumed at the cursor.
unresolved(c) ==
    {p \in Pauses : /\ \E i \in 1..c : log[i] = event("paused", p)
                    /\ \A i \in 1..c : log[i] # event("resumed", p)}

Hydrate ==
    /\ conn.pc = "hydrate"
    /\ bridge' = FoldSet(LAMBDA p, b : emitPaused(b, p), bridge,
                         unresolved(conn.start))
    /\ conn' = [conn EXCEPT !.pc = "snapshot"]
    /\ UNCHANGED <<todo, log, final, queue, tail, client, lossy, shut>>

\* emitMessageSnapshot: every message complete now.
Snapshot ==
    /\ conn.pc = "snapshot"
    /\ bridge' = FoldSet(LAMBDA m, b : EmitCommittedProjection(b, m, TRUE),
                         bridge, final)
    /\ conn' = [conn EXCEPT !.pc = "list"]
    /\ UNCHANGED <<todo, log, final, queue, tail, client, lossy, shut>>

\* Store.ListEvents: a page after the cursor, and whether there is more.
ListEvents ==
    /\ conn.pc = "list"
    /\ LET last == Min({Len(log), conn.next + Limit})
       IN  conn' = [conn EXCEPT !.pc = "sweep", !.more = last < Len(log),
                                !.page = SubSeq(log, conn.next + 1, last)]
    /\ UNCHANGED <<todo, log, final, queue, tail, bridge, client, lossy, shut>>

\* What the bridge made of the event, and the cursor behind it.
forward(e) ==
    /\ bridge' = Emit(bridge, e)
    /\ client' = IF bridge'.rejected # None THEN client
                 ELSE [client EXCEPT !.shown = @ \cup {e}]

\* Mutant: the cursor moves to the end of the page at once.
SweepAhead ==
    /\ conn.pc = "sweep" /\ conn.page # <<>>
    /\ forward(Head(conn.page))
    /\ conn' = IF bridge'.rejected # None THEN [conn EXCEPT !.pc = "failed"]
               ELSE [conn EXCEPT !.page = Tail(@), !.next = at(Last(conn.page)),
                                 !.seen = @ \cup {Head(conn.page)}]
    /\ UNCHANGED <<todo, log, final, queue, tail, lossy, shut>>

Sweep ==
    /\ conn.pc = "sweep" /\ conn.page # <<>>
    /\ LET e == Head(conn.page)
       IN  /\ forward(e)
           /\ conn' = IF bridge'.rejected # None
                      THEN [conn EXCEPT !.pc = "failed"]
                      ELSE [conn EXCEPT !.page = Tail(@), !.next = at(e),
                                        !.seen = @ \cup {e}]
    /\ UNCHANGED <<todo, log, final, queue, tail, lossy, shut>>

SweepEnd ==
    /\ conn.pc = "sweep" /\ conn.page = <<>>
    /\ conn' = [conn EXCEPT !.pc = IF conn.more THEN "list" ELSE "live"]
    /\ UNCHANGED <<todo, log, final, queue, tail, bridge, client, lossy, shut>>

\* The live loop of Reconnect, one event.
Live ==
    /\ conn.pc = "live" /\ tail.buf # <<>>
    /\ tail' = [tail EXCEPT !.buf = Tail(@)]
    /\ LET e == Head(tail.buf)
       IN  IF e = Overflow
           THEN conn' = [conn EXCEPT !.pc = "failed"] /\ UNCHANGED <<bridge, client>>
           ELSE IF e \in conn.seen
           THEN UNCHANGED <<conn, bridge, client>>
           ELSE /\ forward(e)
                /\ conn' = IF bridge'.rejected # None
                           THEN [conn EXCEPT !.pc = "failed"]
                           ELSE IF at(e) = 0 THEN conn
                           ELSE [conn EXCEPT !.seen = @ \cup {e}, !.next = at(e)]
    /\ UNCHANGED <<todo, log, final, queue, lossy, shut>>

\* SSEHandler after Reconnect returned: the cursor is reported, and the
\* subscription goes with its context, once no Emit is working on it.
completed ==
    /\ ~tail.full
    /\ tail' = noTail
    /\ client' = [client EXCEPT !.cursor = conn.next]
    /\ conn' = idle
    /\ UNCHANGED <<todo, log, final, queue, shut, lossy>>

\* Bridge.Terminate after a failure: one terminal frame, unless there was one.
\* (A response without a byte gets an HTTP status instead.)
ReconnectFails ==
    /\ conn.pc = "failed"
    /\ bridge' = IF \A f \in Frame : bridge.written[f] = 0 THEN bridge
                 ELSE deliverNative(bridge, {frame("terminal", None)})
    /\ completed

\* The live loop finds its buffer closed and empty.
TailEnds ==
    /\ conn.pc = "live" /\ tail.state = "closed" /\ tail.buf = <<>>
    /\ completed
    /\ bridge' = newBridge

\* The client leaves, the server shuts down: context.Canceled.
Disconnect ==
    /\ conn.pc \notin {"idle", "failed"}
    /\ completed
    /\ bridge' = newBridge

Reconnect ==
    \/ Connect \/ Hydrate \/ Snapshot \/ ListEvents \/ Sweep \/ SweepEnd \/ Live
    \/ ReconnectFails \/ TailEnds \/ Disconnect

Next == Commit \/ Publish \/ TailEmit \/ TailOverflow \/ TailClose \/ Reconnect

Spec == Init /\ [][Next]_vars

-----------------------------------------------------------------------------
(* Properties.                                                             *)

\* The buffers stay within their sizes (and the marker), and cursors within
\* the log.
deliveryTypes ==
    /\ log \in Seq(Event) /\ final \subseteq Messages
    /\ queue \in Seq(Event) /\ Len(queue) <= QueueSize
    /\ tail.buf \in Seq(Event \cup {Overflow}) /\ Len(tail.buf) <= TailSize
    /\ conn.next \in 0..Len(log) /\ client.cursor \in 0..Len(log)
    /\ bridge.written \in [Frame -> 0..2]

written(f, x) == bridge.written[frame(f, x)]

\* On one connection the text of a message is streamed or written as a
\* whole, never both; a tool call ends once, has one result and, when no
\* copy was dropped, none before its start; and there is one terminal frame.
\* The buffers stay within their sizes
\* (Bridge.EmitCommittedProjection and ensureNative).
FramesOnce ==
    /\ deliveryTypes
    /\ \A m \in Messages : written("text", m) <= 1
                           /\ ~(written("text", m) > 0 /\ written("delta", m) > 0)
    /\ \A t \in Calls : /\ written("end", t) <= 1 /\ written("result", t) <= 1
                        /\ (written("result", t) > 0 /\ ~lossy => written("start", t) > 0)
    /\ written("terminal", None) <= 1

\* A tool call has one TOOL_CALL_START on a connection, as the documentation
\* of the bridge says (agui-events.md, Tool calls).
ToolStartOnce == \A t \in Calls : written("start", t) <= 1

\* What the next connection shows whatever its cursor: its snapshot carries
\* what these events say, and it hydrates the pauses that are open.
shownAgain(e) ==
    \/ e.kind = "committed" /\ e.of \in final
    \/ e.kind = "pending" /\ \E m \in final : e.of \in callsOf[m]
    \/ e.kind = "terminal" /\ \E m \in final : e.of \in resultsOf[m]
    \/ e.kind = "paused" /\ e.of \in unresolved(client.cursor)

\* Every event up to the cursor the client holds was shown to it or is shown
\* by its next connection, which is what resyncing from the cursor relies on
\* (SSEConfig.OnComplete).
cursorComplete ==
    \A i \in 1..client.cursor : log[i] \in client.shown \/ shownAgain(log[i])

\* As long as no copy was dropped by a queue or a tail, no cursor that a
\* connection reports skips an event.
skipsOnlyAfterLoss == ~lossy => cursorComplete

\* A connection that has drained its buffer while nothing is on its way, and
\* nothing was dropped, shows every message and the whole of every tool call
\* and every run event behind its start.
caughtUp == conn.pc = "live" /\ tail.state = "open" /\ tail.buf = <<>>
              /\ queue = <<>> /\ todo = <<>>

caughtUpComplete ==
    caughtUp /\ ~lossy =>
        /\ final \subseteq bridge.projected
        /\ \A t \in Calls : (\E i \in DOMAIN log : log[i] = event("terminal", t))
             => \A f \in {"start", "end", "result"} : written(f, t) > 0
        /\ \A i \in DOMAIN log : i > conn.start /\ log[i].kind # "paused"
                                 => log[i] \in conn.seen

\* A resume that is replayed from the store is never refused: its pause was
\* hydrated or replayed before it, whatever cursor the client came with.
replayedResumeAccepted ==
    conn.pc = "failed" /\ conn.page # <<>> => bridge.rejected = None

\* No event is skipped by a cursor or missing from a connection that has caught
\* up unless a copy of it was dropped, and none that is replayed is refused
\* (Reconnect, Bridge.Emit).
NothingSkipped == skipsOnlyAfterLoss /\ caughtUpComplete /\ replayedResumeAccepted
=============================================================================
