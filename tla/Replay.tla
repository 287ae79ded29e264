------------------------------- MODULE Replay -------------------------------
(***************************************************************************)
(* What the model sees of a session's history.  Every cycle of a turn       *)
(* reloads the durable messages under the context epoch the turn was        *)
(* admitted with, splices them behind the turn's prepared prefix, and runs   *)
(* the registered handlers over the result: injected context, the           *)
(* summarization recipe (which commits a compaction boundary and a new       *)
(* epoch), patching of calls without a result, clearing of old results.      *)
(* The seal compares tool results with the durable ones before dispatch.     *)
(* (runtime/adk_model.go, adk_middleware.go, adk_middleware_recipes.go,      *)
(* epochs.go, adk_context_epoch_capability.go, session/history,              *)
(* session/compaction.)                                                      *)
(*                                                                         *)
(* A message's id is its place in the durable order: messages are only       *)
(* appended, and a placeholder is filled where it stands.  Ids up to 0 are    *)
(* context an extension added to the prefix and that is never stored.        *)
(***************************************************************************)
EXTENDS Integers, Sequences, SequencesExt, FiniteSets, FiniteSetsExt

CONSTANTS
  Nil,
  Scenarios,   \* [retain, epochs, resumes, rounds, context, state, handlers, abandons]
  ResultKinds, \* the kinds of result a call may settle with
  MaxCalls,    \* calls of one answer
  MaxMsgs      \* durable messages of the session

VARIABLES
  sc,      \* the scenario of this behaviour
  msgs,    \* the durable messages, in created_at order
  epochs,  \* the finished summarization epochs, oldest first
  turn,    \* the open turn, or Nil
  resumed  \* pauses resumed so far

vars == <<sc, msgs, epochs, turn, resumed>>

\* covers is the set of messages a boundary's summary stands for.
Row(kind) == [kind |-> kind, calls |-> {}, call |-> Nil, state |-> FALSE, covers |-> {}]

systemRole == {"system", "boundary"}

------------------------------------------------------------------------------
(* The projection of the durable history.                                    *)

\* How many of the first messages of ids have the system role.
systemPrefix(m, ids) ==
  Max({0} \cup {k \in DOMAIN ids : \A j \in 1..k : ids[j] > 0 /\ m[ids[j]].kind \in systemRole})

applyEpochWithoutTail(m, n) ==
  LET ids == [i \in DOMAIN m |-> i]
  IN  IF n = 0 THEN ids ELSE <<epochs[n].summary>> \o SelectSeq(ids, LAMBDA i : i > epochs[n].summary)

\* The leading system messages, the epoch's summary, and the messages from
\* the tail on; without a tail, the messages after the boundary.
applyEpoch(m, n) ==
  LET ids == [i \in DOMAIN m |-> i]
  IN  IF n = 0 THEN ids
      ELSE LET e    == epochs[n]
               lead == SubSeq(ids, 1, systemPrefix(m, ids))
               head == lead \o (IF Contains(lead, e.summary) THEN <<>> ELSE <<e.summary>>)
               from == IF e.tail = 0 THEN e.summary + 1 ELSE e.tail
           IN  head \o SelectSeq(ids, LAMBDA i : i >= from /\ ~Contains(head, i))

dropUnfinalizedAssistantPlaceholders(m, ids) == SelectSeq(ids, LAMBDA i : m[i].kind # "empty")

project(m, n) == dropUnfinalizedAssistantPlaceholders(m, applyEpoch(m, n))

inOrder(places, n) == SelectSeq([k \in 1..n |-> k], LAMBDA k : k \in places)

\* The captured private state, in message order: [at, of].
loadedStates(m, ids) ==
  LET at == inOrder({k \in DOMAIN ids : m[ids[k]].state}, Len(ids))
  IN  [k \in DOMAIN at |-> [at |-> at[k], of |-> ids[at[k]]]]

shift(states, by) == [k \in DOMAIN states |-> [states[k] EXCEPT !.at = @ + by]]

\* The newest finished summarization epoch, 0 when there is none.
latestFinishedSummarizationEpoch == Len(epochs)

\* The snapshot a turn starts from: the projection, with the context of
\* extensions before and after it.
openTurn(m, row, phase, rounds) ==
  LET n   == latestFinishedSummarizationEpoch
      ids == project(m, n)
  IN  [phase |-> phase, epoch |-> n, base |-> Len(ids), row |-> row,
       used |-> m[row].kind # "empty", cur |-> row, rounds |-> rounds, sum |-> Nil,
       prefix |-> IF sc.context THEN <<0>> \o ids \o <<-1>> ELSE ids,
       states |-> shift(loadedStates(m, ids), IF sc.context THEN 1 ELSE 0),
       baseline |-> <<>>, items |-> <<>>]

Init ==
  /\ sc \in Scenarios
  /\ msgs \in {<<>>, <<Row("system")>>}
  /\ epochs = <<>>
  /\ turn = Nil
  /\ resumed = 0

AdmitTurn ==
  /\ turn = Nil /\ Len(msgs) + 2 <= MaxMsgs
  /\ msgs' = msgs \o <<Row("user"), Row("empty")>>
  /\ turn' = openTurn(msgs', Len(msgs'), "cycle", 0)
  /\ UNCHANGED <<sc, epochs, resumed>>

\* A pause and its resume: the engine is rebuilt from the store, under the
\* epoch that is newest now; what the engine remembered is gone.
resumeEngine ==
  /\ turn # Nil /\ turn.phase \in {"cycle", "tools"} /\ resumed < sc.resumes
  /\ turn' = openTurn(msgs, turn.row, turn.phase, turn.rounds)
  /\ resumed' = resumed + 1
  /\ UNCHANGED <<sc, msgs, epochs>>

------------------------------------------------------------------------------
(* The durable baseline of a cycle.                                          *)

indexOf(ids, i) == CHOOSE k \in DOMAIN ids : ids[k] = i

\* Calls made before place k, in ids, whose result is at k or later.
splitAt(ids, k) ==
  {c \in UNION {msgs[ids[j]].calls : j \in 1..(k - 1)} :
     /\ \A j \in 1..(k - 1) : msgs[ids[j]].call # c
     /\ \E j \in k..Len(ids) : msgs[ids[j]].call = c}

\* The boundary of this very turn moves before the first call it would part
\* from its result, never into the leading system messages.
repositionMidTurnCompactionBoundary(ids, boundary) ==
  IF ~Contains(ids, boundary) THEN ids
  ELSE LET k      == indexOf(ids, boundary)
           split  == splitAt(ids, k)
           first  == IF split = {} THEN k
                     ELSE Min({j \in 1..k : msgs[ids[j]].calls \cap split # {}})
           target == Max({first, systemPrefix(msgs, ids) + 1})
       IN  IF target >= k THEN ids ELSE InsertAt(RemoveAt(ids, k), target, boundary)

\* Every cycle of a turn reloads under the epoch it was admitted with.
reloaded ==
  LET ids == project(msgs, turn.epoch)
  IN  IF turn.sum = Nil THEN ids ELSE repositionMidTurnCompactionBoundary(ids, turn.sum.boundary)

spliceOffByOne == turn.prefix \o SubSeq(reloaded, turn.base, Len(reloaded))

\* The prefix the turn was prepared with and what was committed since.
buildDurableBaseline == turn.prefix \o SubSeq(reloaded, turn.base + 1, Len(reloaded))

\* The state of the newly reloaded tail is put after what the turn holds.
baselineStates ==
  turn.states \o shift(SelectSeq(loadedStates(msgs, reloaded), LAMBDA s : s.at > turn.base),
                       Len(turn.prefix) - turn.base)

------------------------------------------------------------------------------
(* The handler chain.  An item is a message as the chain sees it: src is the  *)
(* durable id, what tells how it was changed, ptr whether it is still the      *)
(* object the baseline handler made.                                          *)

item(i) == [src |-> i, what |-> IF i > 0 THEN "own" ELSE "context",
            call |-> IF i > 0 THEN msgs[i].call ELSE Nil, ptr |-> TRUE, covers |-> {}]
added(what, call, covers) == [src |-> 0, what |-> what, call |-> call, ptr |-> FALSE, covers |-> covers]

callsOf(it) == IF it.src > 0 THEN msgs[it.src].calls ELSE {}
functionResult(it) == it.call # Nil /\ (it.src > 0 => msgs[it.src].kind = "result")
anyResult(it) == it.call # Nil

occurrences(its, c) == SelectSeq(its, LAMBDA it : functionResult(it) /\ it.call = c)

\* Reduction changes settled results, patching adds results for calls that
\* have none; nothing else is ever authorized.
authorityBindsToBaseline(kind, based) == IF kind = "cleared" THEN based > 0 ELSE based = 0

\* acc is [items, auth, epoch, m, sum, err]; auth holds the authorized pairs
\* <<call, what>> of this cycle.
authorize(acc, its, what, calls) ==
  [acc EXCEPT !.items = its,
     !.auth = @ \cup {<<c, what>> : c \in
        {c \in calls : /\ authorityBindsToBaseline(what, Len(occurrences(acc.base, c)))
                       /\ what = "cleared" => \E it \in Range(acc.items) :
                                                it.what = "own" /\ it.call = c}}]

\* Upstream's patching: a call whose result does not follow it directly gets
\* a placeholder result behind the results that do.
answeredRun(its, k) ==
  Max({k} \cup {e \in k..Len(its) : \A j \in (k + 1)..e : anyResult(its[j])})
danglingAt(its, k) ==
  callsOf(its[k]) \ {its[j].call : j \in (k + 1)..answeredRun(its, k)}

patchtoolcalls(acc) ==
  LET its == acc.items
      ends(e) == {k \in DOMAIN its : callsOf(its[k]) # {} /\ answeredRun(its, k) = e}
      patches(e) == LET missing == UNION {danglingAt(its, k) : k \in ends(e)}
                    IN  [n \in 1..Cardinality(missing) |->
                           added("patched", SetToSeq(missing)[n], {})]
  IN  authorize(acc, FlattenSeq([e \in DOMAIN its |-> <<its[e]>> \o patches(e)]), "patched",
                UNION {danglingAt(its, k) : k \in DOMAIN its})

reduction(acc, cleared) ==
  authorize(acc, [k \in DOMAIN acc.items |->
                    IF functionResult(acc.items[k]) /\ acc.items[k].call \in cleared
                    THEN [acc.items[k] EXCEPT !.what = "cleared"] ELSE acc.items[k]],
            "cleared", cleared)

------------------------------------------------------------------------------
(* Summarization.                                                            *)

sameContent(it, i) == it.src = i /\ it.what \in {"own", "context"}

\* First by pointer; then, for what is left, by content against the next
\* baseline message nobody claimed.
fallback(its, base, acc, k) ==
  LET free == {j \in DOMAIN base : j >= acc.cursor /\ j \notin acc.claimed}
      c    == IF free = {} THEN Len(base) + 1 ELSE Min(free)
  IN  IF c <= Len(base) /\ sameContent(its[k], base[c])
      THEN [cursor |-> c + 1, claimed |-> acc.claimed \cup {c}, found |-> acc.found \cup {k}]
      ELSE [acc EXCEPT !.cursor = c]

correlateDurableSubsequence(its, base) ==
  LET byPointer == {k \in DOMAIN its : its[k].ptr /\ its[k].src > 0}
      rest      == inOrder(DOMAIN its \ byPointer, Len(its))
      done      == FoldLeft(LAMBDA acc, k : fallback(its, base, acc, k),
                            [cursor |-> 1, found |-> byPointer,
                             claimed |-> {j \in DOMAIN base : base[j] > 0 /\
                                            \E k \in byPointer : its[k].src = base[j]}],
                            rest)
  IN  [ok |-> done.claimed = DOMAIN base,
       at |-> inOrder(done.found, Len(its))]

keepTailStart(ids, start) == start

\* The tail never starts with a result and never follows a call directly.
moveTailStartToGroupBoundary(ids, start) ==
  Max({t \in 1..start :
         t = 1 \/ ~(\/ t <= Len(ids) /\ msgs[ids[t]].kind = "result"
                    \/ msgs[ids[t - 1]].calls # {})})

\* The messages at the given places become one summary.
collapse(its, places, summary) ==
  FlattenSeq([k \in DOMAIN its |->
    IF k \notin places THEN <<its[k]>> ELSE IF k = Min(places) THEN <<summary>> ELSE <<>>])

\* What a summary of these items stands for: the messages it replaces and
\* what the summaries among the items stand for (the summarizing call is
\* given the whole context).
stoodFor(its, ids) ==
  Range(ids) \cup UNION {IF it.src > 0 THEN msgs[it.src].covers ELSE {} : it \in Range(its)}

\* The boundary message and its epoch are written in one transaction; an
\* epoch is finished by its summary.
NewBoundary(covers) == [Row("boundary") EXCEPT !.covers = covers]
commitSummaryEpoch(acc, from, to, tail, covers) ==
  [acc EXCEPT !.m = Append(@, NewBoundary(covers)),
              !.epoch = [from |-> from, to |-> to, tail |-> tail, summary |-> Len(acc.m) + 1],
              !.sum = [from |-> from, to |-> to, boundary |-> Len(acc.m) + 1, covers |-> covers]]

summarizeFound(acc, its, found) ==
  LET ids    == [k \in DOMAIN found.at |-> its[found.at[k]].src]
      start  == moveTailStartToGroupBoundary(ids, Len(ids) - sc.retain + 1)
      lead   == systemPrefix(msgs, SubSeq(ids, 1, start - 1))
      covers == stoodFor(its, SubSeq(ids, lead + 1, start - 1))
      tail   == IF start <= Len(ids) THEN ids[start] ELSE 0
  IN  IF ~found.ok THEN [acc EXCEPT !.err = "uncorrelated"]
      ELSE IF \E k \in DOMAIN ids : ids[k] <= 0 THEN [acc EXCEPT !.err = "unknown message"]
      ELSE IF ids = <<>> \/ sc.retain >= Len(ids) THEN acc
      ELSE IF start <= 1 THEN [acc EXCEPT !.err = "unsplittable"]
      ELSE IF lead + 1 >= start THEN acc
      ELSE [commitSummaryEpoch(acc, ids[lead + 1], ids[start - 1], tail, covers) EXCEPT
              !.items = collapse(its, {found.at[k] : k \in (lead + 1)..(start - 1)},
                                 added("summary", Nil, covers))]

summarizationFinalize(acc) ==
  summarizeFound(acc, acc.items, correlateDurableSubsequence(acc.items, turn.baseline))

\* Later cycles of the turn put the same summary in the same place again and
\* leave the boundary message out.
reapplyFound(acc, its, found) ==
  LET src(k) == its[found.at[k]].src
      ends(i) == {k \in DOMAIN found.at : src(k) = i}
      from  == ends(turn.sum.from)
      to    == ends(turn.sum.to)
      drop  == {found.at[k] : k \in ends(turn.sum.boundary)}
      range == IF from = {} THEN {}
               ELSE {found.at[k] : k \in Min(from)..(IF to = {} THEN Len(found.at) ELSE Max(to))} \ drop
      kept  == [k \in DOMAIN its |-> IF k \in drop THEN Nil ELSE its[k]]
  IN  IF ~found.ok THEN [acc EXCEPT !.err = "uncorrelated"]
      ELSE IF range \cup drop = {} THEN [acc EXCEPT !.err = "range lost"]
      ELSE [acc EXCEPT !.items =
              SelectSeq(collapse(kept, range, added("summary", Nil, turn.sum.covers)),
                        LAMBDA it : it # Nil)]

reapplyDurableSummary(acc) ==
  reapplyFound(acc, acc.items, correlateDurableSubsequence(acc.items, turn.baseline))

summarizeAtMostOnce(acc, trigger) ==
  IF turn.sum # Nil THEN reapplyDurableSummary(acc)
  ELSE IF trigger THEN summarizationFinalize(acc) ELSE acc

\* Upstream's injection of instructions: ahead of the first user message.
agentsmd(its) ==
  LET users == {k \in DOMAIN its : its[k].src > 0 /\ msgs[its[k].src].kind = "user"}
  IN  InsertAt(its, IF users = {} THEN 1 ELSE Min(users), added("injected", Nil, {}))

\* A host's own handler may do anything to the last result it is shown.
hostOps == {"keep", "drop", "repeat", "rewrite"}
hostHandler(its, op) ==
  LET places == {k \in DOMAIN its : functionResult(its[k])}
      last   == Max(places)
  IN  CASE places = {} \/ op = "keep" -> its
        [] OTHER -> CASE op = "drop"    -> RemoveAt(its, last)
                      [] op = "repeat"  -> InsertAt(its, last, its[last])
                      [] op = "rewrite" -> [its EXCEPT ![last].what = "rewritten"]

handle(acc, h, trigger, cleared, op) ==
  IF acc.err # "" THEN acc
  ELSE CASE h = "inject"    -> [acc EXCEPT !.items = agentsmd(@)]
         [] h = "host"      -> [acc EXCEPT !.items = hostHandler(@, op)]
         [] h = "clone"     -> [acc EXCEPT !.items = [k \in DOMAIN @ |-> [@[k] EXCEPT !.ptr = FALSE]]]
         [] h = "patch"     -> patchtoolcalls(acc)
         [] h = "reduce"    -> reduction(acc, cleared)
         [] h = "summarize" -> summarizeAtMostOnce(acc, trigger)

\* Every result is the durable one, as often as it is durable, or the one
\* rewrite that was authorized, and never both.
verifySettledToolResults(base, its, auth) ==
  \A c \in {it.call : it \in {x \in Range(its) : functionResult(x)}} :
    LET now     == occurrences(its, c)
        based   == Len(occurrences(base, c))
        granted == {a[2] : a \in {x \in auth : x[1] = c /\ authorityBindsToBaseline(x[2], based)}}
        owns    == Cardinality({k \in DOMAIN now : now[k].what = "own"})
        changed == Len(now) - owns
    IN  /\ \A k \in DOMAIN now : now[k].what \in granted \/ (now[k].what = "own" /\ based > 0)
        /\ changed <= 1 /\ owns <= based
        /\ changed = 0 \/ owns = 0

------------------------------------------------------------------------------
(* A cycle: baseline, handlers, dispatch, commit, tools.                     *)

\* The baseline is taken in one step and the handlers run over it in the next.
BeforeModelRewriteState ==
  /\ turn # Nil /\ turn.phase = "cycle"
  /\ turn' = IF Len(reloaded) < turn.base
             THEN [turn EXCEPT !.phase = "refused"]
             ELSE [turn EXCEPT !.phase = "handlers", !.baseline = buildDurableBaseline,
                               !.states = baselineStates]
  /\ UNCHANGED <<sc, msgs, epochs, resumed>>

runHandlers ==
  /\ turn # Nil /\ turn.phase = "handlers"
  /\ \E trigger \in BOOLEAN, all \in BOOLEAN, op \in hostOps :
       LET base    == [k \in DOMAIN turn.baseline |-> item(turn.baseline[k])]
           cleared == IF all THEN {it.call : it \in Range(base)} \ {Nil} ELSE {}
       IN  /\ Contains(sc.handlers, "host") \/ op = "keep"
           /\ trigger => Len(epochs) < sc.epochs /\ Len(msgs) < MaxMsgs
           /\ \E out \in {FoldLeft(LAMBDA acc, h : handle(acc, h, trigger, cleared, op),
                                  [items |-> base, base |-> base, auth |-> {}, epoch |-> Nil,
                                   m |-> msgs, sum |-> turn.sum, err |-> ""],
                                  sc.handlers)} :
                /\ msgs' = out.m
                /\ epochs' = IF out.epoch = Nil THEN epochs ELSE Append(epochs, out.epoch)
                /\ turn' = IF out.err # "" \/ ~verifySettledToolResults(base, out.items, out.auth)
                           THEN [turn EXCEPT !.phase = "refused", !.sum = out.sum]
                           ELSE [turn EXCEPT !.phase = "ready", !.items = out.items, !.sum = out.sum]
  /\ UNCHANGED <<sc, resumed>>

\* Private state is dropped when the handlers left fewer messages than the
\* baseline had; the first dispatch answers into the turn's placeholder.
prepareDispatchInput ==
  IF Len(turn.items) < Len(turn.baseline) THEN <<>> ELSE turn.states

Dispatch ==
  /\ turn # Nil /\ turn.phase = "ready"
  /\ ~turn.used \/ Len(msgs) < MaxMsgs
  /\ msgs' = IF turn.used THEN Append(msgs, Row("empty")) ELSE msgs
  /\ turn' = [turn EXCEPT !.phase = "answer", !.states = prepareDispatchInput, !.used = TRUE,
                          !.cur = IF turn.used THEN Len(msgs) + 1 ELSE turn.row]
  /\ UNCHANGED <<sc, epochs, resumed>>

\* The answer fills the claimed row, with the state the provider returned.
commitCalls ==
  /\ turn # Nil /\ turn.phase = "answer" /\ turn.rounds < sc.rounds
  /\ \E n \in 1..MaxCalls :
       /\ Len(msgs) + n <= MaxMsgs
       /\ msgs' = [msgs EXCEPT ![turn.cur] = [Row("calls") EXCEPT !.state = sc.state,
                     !.calls = {<<turn.cur, k>> : k \in 1..n}]]
  /\ turn' = [turn EXCEPT !.phase = "tools", !.rounds = @ + 1]
  /\ UNCHANGED <<sc, epochs, resumed>>

open(i) == {c \in msgs[i].calls : \A j \in DOMAIN msgs : msgs[j].call # c}
lastCalls == Max({i \in DOMAIN msgs : msgs[i].calls # {}})

settleCall ==
  /\ turn # Nil /\ turn.phase = "tools" /\ Len(msgs) < MaxMsgs
  /\ LET left == open(lastCalls)
     IN  /\ left # {}
         /\ \E kind \in ResultKinds : \E c \in left :
              /\ \A d \in left : c[2] <= d[2]
              /\ msgs' = Append(msgs, [Row(kind) EXCEPT !.call = c])
         /\ turn' = [turn EXCEPT !.phase = IF Cardinality(left) = 1 THEN "cycle" ELSE "tools"]
  /\ UNCHANGED <<sc, epochs, resumed>>

commitAnswer ==
  /\ turn # Nil /\ turn.phase = "answer"
  /\ msgs' = [msgs EXCEPT ![turn.cur] = [Row("answer") EXCEPT !.state = sc.state]]
  /\ turn' = Nil
  /\ UNCHANGED <<sc, epochs, resumed>>

\* A turn fails wherever it is: a placeholder stays empty, calls stay open.
failTurn ==
  /\ turn # Nil /\ (turn.phase = "tools" => sc.abandons)
  /\ turn' = Nil
  /\ UNCHANGED <<sc, msgs, epochs, resumed>>

Next ==
  \/ AdmitTurn \/ resumeEngine \/ BeforeModelRewriteState \/ runHandlers
  \/ Dispatch \/ commitCalls \/ settleCall \/ commitAnswer \/ failTurn

Spec == Init /\ [][Next]_vars

------------------------------------------------------------------------------
(* Properties.                                                               *)

dispatched == turn # Nil /\ turn.phase = "answer"

\* Only the runtime's own recipes are registered.
ownHandlers == ~Contains(sc.handlers, "host")

\* Type correctness, and the splice of the turn: the baseline starts with the
\* prepared prefix and names every durable message at most once
\* (buildDurableBaseline).
ReplayTypeOK ==
  /\ \A i \in DOMAIN msgs : msgs[i].kind \in {"system", "user", "empty", "calls", "answer", "boundary"} \cup ResultKinds
  /\ \A n \in DOMAIN epochs :
       /\ epochs[n].from <= epochs[n].to /\ epochs[n].to < epochs[n].summary
       /\ msgs[epochs[n].summary].kind = "boundary"
  /\ turn # Nil =>
       /\ turn.phase \in {"cycle", "handlers", "ready", "answer", "tools", "refused"}
       /\ turn.phase \in {"handlers", "ready", "answer"} =>
            /\ IsPrefix(turn.prefix, turn.baseline)
            /\ IsInjective(turn.baseline)

\* Every tool result the model is shown follows its own call, with nothing
\* but other results in between (moveTailStartToGroupBoundary,
\* repositionMidTurnCompactionBoundary).
groupsIntact ==
  dispatched =>
    \A k \in DOMAIN turn.items :
      anyResult(turn.items[k]) =>
        \E j \in 1..(k - 1) :
          /\ turn.items[k].call \in callsOf(turn.items[j])
          /\ \A x \in (j + 1)..(k - 1) : anyResult(turn.items[x])

\* No compaction loses a message: each one that was committed is shown to the
\* model, or stands behind a summary that is shown (applyEpoch,
\* summarizationFinalize, reapplyDurableSummary).
NothingForgotten ==
  dispatched /\ ownHandlers =>
    \A i \in DOMAIN msgs :
      msgs[i].kind \notin {"empty", "boundary"} =>
        \E it \in Range(turn.items) :
          it.src = i \/ i \in it.covers \/ (it.src > 0 /\ i \in msgs[it.src].covers)

\* Private state sent with a request names messages of that request in rising
\* order, and each piece sits on the message it was captured from
\* (buildDurableBaseline, prepareDispatchInput).
statesOnTheirMessages ==
  dispatched =>
    \A k \in DOMAIN turn.states :
      /\ turn.states[k].at \in DOMAIN turn.items
      /\ turn.items[turn.states[k].at].src = turn.states[k].of
      /\ k > 1 => turn.states[k - 1].at < turn.states[k].at

\* Whatever a handler does, the model sees one result per call: a call that
\* settled shows its durable result or the cleared one, and only a call that
\* never settled shows a placeholder (verifySettledToolResults).
oneResultPerCall ==
  dispatched =>
    \A c \in UNION {callsOf(it) : it \in Range(turn.items)} :
      LET shown   == SelectSeq(turn.items, LAMBDA it : it.call = c)
          settled == \E j \in DOMAIN msgs : msgs[j].call = c
      IN  /\ Len(shown) <= 1
          /\ \A k \in DOMAIN shown : shown[k].what \in IF settled THEN {"own", "cleared"} ELSE {"patched"}

\* The request is one the provider can read as the conversation that took
\* place, whatever was compacted, cleared, patched or rewritten before it
\* (Dispatch: verifySettledToolResults and prepareDispatchInput).
ShownTruly == groupsIntact /\ statesOnTheirMessages /\ oneResultPerCall

\* The runtime's own handlers never make it refuse its own history: the
\* reload never shrinks below the admitted base, a committed compaction can
\* always be applied again, and the seal accepts the recipes' rewrites.
HistoryAccepted == turn # Nil /\ ownHandlers => turn.phase # "refused"
=============================================================================
