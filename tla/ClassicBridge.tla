---------------------------- MODULE ClassicBridge ----------------------------
(***************************************************************************)
(* Classic chat models behind the agentic boundary                         *)
(* (model/classic_streamer.go, eino_provider_state.go).  Every dispatch     *)
(* translates the agentic history to classic messages, puts the private     *)
(* state of assistant messages back into their Extra map, and turns the     *)
(* classic chunks that come back into agentic blocks by stream slot.  When  *)
(* the stream ends the codec takes the Extra map out again.                 *)
(*                                                                         *)
(* Text is a sequence of fragments.  An agentic block is [type, v]; v is    *)
(* the fragments of a text, reasoning or media block, and [id, args] for a   *)
(* call or a result.  Extra is the list of state items under the codec's    *)
(* key, <<Foreign>> when another key is there, <<>> when it is empty.       *)
(***************************************************************************)
EXTENDS Integers, Sequences, SequencesExt, FiniteSets, FiniteSetsExt, TLC

CONSTANTS
  Nil,         \* no message, or a call chunk without an index
  Foreign,     \* an Extra value no codec owns
  UserInputs,  \* block sequences a user message may have
  Chunks,      \* [text, reasoning, calls, extra]; a call is [index, id, args]
  System,      \* fragments of the system prompt
  MaxItems,    \* items the codec's contract allows
  MaxChunks,   \* chunks of one stream
  MaxMessages  \* messages of the history

VARIABLES
  hasCodec,  \* the streamer was built with a provider-state codec
  phase,     \* "idle", "streaming" or why the last dispatch was refused
  history,   \* the stored messages: [role, blocks, items]
  said,      \* per message what the provider emitted: [text, reasoning, calls, extra] or Nil
  request,   \* the classic messages last sent, or Nil
  stream,    \* the chunks received so far
  slots,     \* stream slot -> agentic block
  nextFree   \* the next slot for a call without an index

vars == <<hasCodec, phase, history, said, request, stream, slots, nextFree>>

classicToolCallIndexBase == 2

Init ==
  /\ hasCodec \in BOOLEAN
  /\ phase = "idle"
  /\ history = <<>> /\ said = <<>>
  /\ request = Nil
  /\ stream = <<>> /\ slots = <<>>
  /\ nextFree = classicToolCallIndexBase

Submit ==
  /\ phase = "idle" /\ Len(history) < MaxMessages
  /\ \E blocks \in UserInputs :
       history' = Append(history, [role |-> "user", blocks |-> blocks, items |-> <<>>])
  /\ said' = Append(said, Nil)
  /\ UNCHANGED <<hasCodec, phase, request, stream, slots, nextFree>>

------------------------------------------------------------------------------
(* The request: agentic messages become classic ones.                        *)

mediaTypes == {"image", "audio", "video", "file"}

classic(role, text) ==
  [role |-> role, text |-> text, reasoning |-> <<>>, calls |-> <<>>, media |-> FALSE,
   call |-> "", extra |-> <<>>]

\* Consecutive text and media parts make one message; media anywhere among
\* them keeps the parts apart instead of joining the text.
flush(parts) ==
  IF parts = <<>> THEN <<>>
  ELSE << [classic("user", FlattenSeq([i \in DOMAIN parts |-> parts[i].v]))
             EXCEPT !.media = \E i \in DOMAIN parts : parts[i].type \in mediaTypes] >>

\* Each function result is a message of its own, after what came before it.
userStepLate(acc, b) ==
  IF b.type = "result"
  THEN [acc EXCEPT !.out = @ \o << [classic("tool", b.v.args) EXCEPT !.call = b.v.id] >>]
  ELSE [acc EXCEPT !.parts = Append(@, b)]

userStep(acc, b) ==
  IF b.type = "result"
  THEN [out |-> acc.out \o flush(acc.parts) \o << [classic("tool", b.v.args) EXCEPT !.call = b.v.id] >>,
        parts |-> <<>>]
  ELSE [acc EXCEPT !.parts = Append(@, b)]

userAgenticMessageToClassic(blocks) ==
  LET done == FoldLeft(userStep, [out |-> <<>>, parts |-> <<>>], blocks)
  IN  done.out \o flush(done.parts)

userConvertible(blocks) ==
  \A i \in DOMAIN blocks : blocks[i].type \in {"text", "result"} \cup mediaTypes

pick(blocks, type) ==
  LET kept == SelectSeq(blocks, LAMBDA b : b.type = type) IN [i \in DOMAIN kept |-> kept[i].v]

assistantAgenticMessageToClassic(blocks) ==
  [classic("assistant", FlattenSeq(pick(blocks, "gen_text")))
     EXCEPT !.reasoning = FlattenSeq(pick(blocks, "reasoning")), !.calls = pick(blocks, "call")]

assistantConvertible(blocks) ==
  \A i \in DOMAIN blocks : blocks[i].type \in {"gen_text", "reasoning", "call"}

agenticMessageToClassic(m) ==
  IF m.role = "user" THEN userAgenticMessageToClassic(m.blocks)
  ELSE << assistantAgenticMessageToClassic(m.blocks) >>

convertible(m) ==
  IF m.role = "user" THEN userConvertible(m.blocks) ELSE assistantConvertible(m.blocks)

converted == [i \in DOMAIN history |-> agenticMessageToClassic(history[i])]

\* origin names, for every classic message, the history message it came from.
agenticRequestToClassic == FlattenSeq(converted)
origin == FlattenSeq([i \in DOMAIN history |-> [j \in DOMAIN converted[i] |-> i]])

------------------------------------------------------------------------------
(* Private state.                                                            *)

itemsValid(items) == items # <<>> /\ Len(items) <= MaxItems

\* The first classic message that came from history message i.
classicIndex(i) == Min({j \in DOMAIN origin : origin[j] = i})

stateful == {i \in DOMAIN history : history[i].items # <<>>}

restoreOK ==
  /\ hasCodec \/ stateful = {}
  /\ \A i \in stateful :
       /\ itemsValid(history[i].items)
       /\ classicIndex(i) \in DOMAIN agenticRequestToClassic
       /\ agenticRequestToClassic[classicIndex(i)].role = "assistant"

RestoreAssistant ==
  [j \in DOMAIN agenticRequestToClassic |->
     [agenticRequestToClassic[j] EXCEPT !.extra =
        FlattenSeq([k \in DOMAIN history |->
          IF k \in stateful /\ classicIndex(k) = j THEN history[k].items ELSE <<>>])]]

\* The codec owns one key; the capture must account for the whole Extra map.
captureOK(extra) ==
  IF hasCodec THEN extra = <<>> \/ (extra # <<Foreign>> /\ itemsValid(extra))
  ELSE extra = <<>>

------------------------------------------------------------------------------
(* Dispatch and stream.                                                      *)

\* Deferred tools, a tool-search tool and MCP or server tool choices are
\* refused before anything is translated.
validateClassicCompatible(controls) == controls = "functions"

dispatchClassic(messages) ==
  (IF System = <<>> THEN <<>> ELSE << classic("system", System) >>) \o messages

StreamProvider(controls) ==
  /\ phase = "idle"
  /\ history # <<>> /\ Last(history).role = "user" /\ Len(history) < MaxMessages
  /\ LET representable == \A i \in DOMAIN history : convertible(history[i])
     IN  \/ /\ ~validateClassicCompatible(controls) \/ ~representable
            /\ phase' = "unsupported" /\ UNCHANGED request
         \/ /\ validateClassicCompatible(controls) /\ representable /\ ~restoreOK
            /\ phase' = "state_refused" /\ UNCHANGED request
         \/ /\ validateClassicCompatible(controls) /\ representable /\ restoreOK
            /\ phase' = "streaming" /\ request' = dispatchClassic(RestoreAssistant)
  /\ stream' = <<>> /\ slots' = <<>> /\ nextFree' = classicToolCallIndexBase
  /\ UNCHANGED <<hasCodec, history, said>>

\* A slot that is already filled is extended: fragments are appended, a call
\* keeps the id it has (the concatenation of Eino).
fill(old, b, slot) ==
  IF slot \notin DOMAIN old THEN old @@ (slot :> b)
  ELSE [old EXCEPT ![slot] =
          IF @.type = "call"
          THEN [@ EXCEPT !.v = [id |-> IF @.id = "" THEN b.v.id ELSE @.id, args |-> @.args \o b.v.args]]
          ELSE [@ EXCEPT !.v = @ \o b.v]]

\* A call with an index goes to that slot and pushes the free slot past it; a
\* call without one takes the free slot.
placeCall(acc, call) ==
  LET slot == IF call.index = Nil THEN acc.free ELSE classicToolCallIndexBase + call.index
  IN  [slots |-> fill(acc.slots, [type |-> "call", v |-> [id |-> call.id, args |-> call.args]], slot),
       free  |-> IF slot >= acc.free THEN slot + 1 ELSE acc.free]

classicMessageToAgenticDelta(c) ==
  LET text == IF c.text = <<>> THEN slots ELSE fill(slots, [type |-> "gen_text", v |-> c.text], 0)
      both == IF c.reasoning = <<>> THEN text
              ELSE fill(text, [type |-> "reasoning", v |-> c.reasoning], 1)
  IN  FoldLeft(placeCall, [slots |-> both, free |-> nextFree], c.calls)

\* What the provider is assumed to send: no numbered call after an unnumbered
\* one, and the Extra map once.
wellFormed(chunks) ==
  LET calls == FlattenSeq([i \in DOMAIN chunks |-> chunks[i].calls])
  IN  /\ \A i, j \in DOMAIN calls : (i < j /\ calls[i].index = Nil) => calls[j].index = Nil
      /\ Cardinality({i \in DOMAIN chunks : chunks[i].extra # <<>>}) <= 1

ReceiveChunk ==
  /\ phase = "streaming" /\ Len(stream) < MaxChunks
  /\ \E c \in Chunks :
       /\ wellFormed(Append(stream, c))
       /\ stream' = Append(stream, c)
       /\ LET delta == classicMessageToAgenticDelta(c)
          IN  slots' = delta.slots /\ nextFree' = delta.free
  /\ UNCHANGED <<hasCodec, phase, history, said, request>>

\* What Eino's own accumulator makes of classic chunks: calls with an index
\* are merged by index, the others stand for themselves.
joined(field) == FlattenSeq([i \in DOMAIN stream |-> stream[i][field]])
accumulated ==
  LET calls  == joined("calls")
      parts(k) == SelectSeq(calls, LAMBDA c : c.index = k)
      merged(k) == [id   |-> (CHOOSE i \in {parts(k)[n].id : n \in DOMAIN parts(k)} :
                                i # "" \/ \A n \in DOMAIN parts(k) : parts(k)[n].id = ""),
                    args |-> FlattenSeq([n \in DOMAIN parts(k) |-> parts(k)[n].args])]
      bare == SelectSeq(calls, LAMBDA c : c.index = Nil)
  IN  [text |-> joined("text"), reasoning |-> joined("reasoning"),
       calls |-> {merged(k) : k \in {calls[i].index : i \in DOMAIN calls} \ {Nil}}
                 \cup {[id |-> bare[i].id, args |-> bare[i].args] : i \in DOMAIN bare},
       extra |-> joined("extra")]

\* At the end of the stream the blocks are put in slot order, the Extra map is
\* captured and the message stored; a refused capture stores nothing.
EndStream ==
  /\ phase = "streaming" /\ stream # <<>>
  /\ LET order  == SetToSortSeq(DOMAIN slots, LAMBDA a, b : a < b)
         blocks == [i \in DOMAIN order |-> slots[order[i]]]
         extra  == accumulated.extra
     IN  IF captureOK(extra)
         THEN /\ phase' = "idle"
              /\ history' = Append(history, [role |-> "assistant", blocks |-> blocks, items |-> extra])
              /\ said' = Append(said, accumulated)
         ELSE phase' = "capture_refused" /\ UNCHANGED <<history, said>>
  /\ stream' = <<>> /\ slots' = <<>> /\ nextFree' = classicToolCallIndexBase
  /\ UNCHANGED <<hasCodec, request>>

Next == Submit \/ (\E c \in {"functions", "deferred"} : StreamProvider(c)) \/ ReceiveChunk \/ EndStream

Spec == Init /\ [][Next]_vars

------------------------------------------------------------------------------
(* Properties.                                                               *)

\* Type correctness and the slot discipline: text is in slot 0, reasoning in
\* slot 1, calls above, and the free slot is above every slot in use, so a
\* call without an index never joins a slot already claimed
\* (classicMessageToAgenticDelta).
BridgeTypeOK ==
  /\ phase \in {"idle", "streaming", "unsupported", "state_refused", "capture_refused"}
  /\ Len(history) = Len(said) /\ Len(history) <= MaxMessages
  /\ nextFree >= classicToolCallIndexBase
  /\ \A s \in DOMAIN slots :
       /\ s < nextFree
       /\ slots[s].type = (IF s = 0 THEN "gen_text" ELSE IF s = 1 THEN "reasoning" ELSE "call")

callSet(blocks) == {pick(blocks, "call")[i] : i \in DOMAIN pick(blocks, "call")}

\* Streaming through the bridge assembles the message Eino's own accumulator
\* would have made of the classic chunks: the same text, the same reasoning,
\* no call merged with another and none split.
AssembledAsClassic ==
  \A i \in DOMAIN history :
    history[i].role = "assistant" =>
      /\ FlattenSeq(pick(history[i].blocks, "gen_text")) = said[i].text
      /\ FlattenSeq(pick(history[i].blocks, "reasoning")) = said[i].reasoning
      /\ callSet(history[i].blocks) = said[i].calls

\* What a message contributes to a conversation, fragment by fragment.
atomsOf(m) ==
  FlattenSeq([i \in DOMAIN m.blocks |->
    CASE m.blocks[i].type = "result" -> << <<"tool", m.blocks[i].v.id, m.blocks[i].v.args>> >>
      [] OTHER -> [k \in DOMAIN m.blocks[i].v |-> <<"user", "", m.blocks[i].v[k]>>]])

sentAtoms(c) ==
  IF c.role = "tool" THEN << <<"tool", c.call, c.text>> >>
  ELSE [k \in DOMAIN c.text |-> <<c.role, "", c.text[k]>>]

\* The classic request is the history: users' fragments and tool results in
\* their order, and between them each assistant message with the text,
\* reasoning, calls and Extra the provider emitted for that very message.
RequestIsHistory ==
  phase = "streaming" =>
    LET assistants == SelectSeq([i \in DOMAIN history |-> i], LAMBDA i : history[i].role = "assistant")
        resent     == SelectSeq(request, LAMBDA c : c.role = "assistant")
        spoken     == SelectSeq(request, LAMBDA c : c.role \in {"user", "tool"})
    IN  /\ Len(resent) = Len(assistants)
        /\ \A k \in DOMAIN resent :
             /\ resent[k].text = said[assistants[k]].text
             /\ resent[k].reasoning = said[assistants[k]].reasoning
             /\ {resent[k].calls[i] : i \in DOMAIN resent[k].calls} = said[assistants[k]].calls
             /\ resent[k].extra = said[assistants[k]].extra
        /\ FlattenSeq([k \in DOMAIN spoken |-> sentAtoms(spoken[k])])
             = FlattenSeq([i \in DOMAIN history |->
                 IF history[i].role = "user" THEN atomsOf(history[i]) ELSE <<>>])
        /\ \A k \in DOMAIN request :
             /\ request[k].extra # <<>> => request[k].role = "assistant"
             /\ request[k].role = "system" => k = 1

\* State the bridge captured is never refused when it is restored.
CapturedStateAccepted == phase # "state_refused"
==============================================================================
