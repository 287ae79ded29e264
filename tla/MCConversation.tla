-------------------------- MODULE MCConversation --------------------------
(***************************************************************************)
(* What a model is shown of a conversation, in three models that share no   *)
(* state: the content of one message from the provider to the store and     *)
(* back (ContentJourney), a history sent through the classic message format *)
(* (ClassicBridge), and the messages of a session across turns, compactions *)
(* and resumes (Replay).  A behaviour moves one of them.                    *)
(***************************************************************************)
EXTENDS Integers, Sequences

CONSTANTS
  Nil,
  Envelope, StateLimits, StateEnvelope, CanonicalIdentity, Answers, Submissions, HostLimits,
  HistoryLimits, ApprovalBound,
  Foreign, UserInputs, Chunks, System, MaxItems, MaxChunks, MaxMessages,
  Scenarios, ResultKinds, MaxCalls, MaxMsgs,
  Moving   \* the models that move

VARIABLES stage, subject, codec, row, view, sent,
          hasCodec, phase, history, said, request, stream, slots, nextFree,
          sc, msgs, epochs, turn, resumed,
          moves   \* the model that this behaviour is about

------------------------------------------------------------------------------
(* ContentJourney: every block kind, nil entries in every list, both          *)
(* families of citations mixed in one text, metadata of each provider,        *)
(* payloads around the size limits.                                          *)

block(type, p) == [type |-> type, streaming |-> FALSE, extra |-> FALSE, p |-> p]

genText(openai, claude) ==
  block("assistant_gen_text",
        [text |-> "t", wf |-> TRUE, bytes |-> 1, extension |-> FALSE, openai |-> openai, claude |-> claude])

cite(type, enc) == [type |-> type, enc |-> enc]
Web == cite("web_search_result_location", "e1")
Notes(r, n) == [refusal |-> r, notes |-> n]

Texts ==
  {genText(o, c) :
     o \in {Nil, Notes(Nil, <<"url_citation", Nil>>), Notes("no", <<>>)},
     c \in {Nil, <<Web>>, <<Nil, cite("page_location", ""), Web, cite("web_search_result_location", "e2")>>}}
  \cup {[genText(Nil, Nil) EXCEPT !.p.extension = TRUE], genText(Notes(Nil, <<"odd">>), Nil)}

Reasonings ==
  {block("reasoning", [text |-> "r", wf |-> TRUE, bytes |-> 1, summary |-> s, sig |-> g]) :
     s \in {Nil, <<>>, <<"x">>, <<Nil>>}, g \in {"", "s1"}}

ToolCall == block("function_tool_call", [call |-> "c1", wf |-> TRUE, bytes |-> 1])
media(data, bytes, detail) ==
  [url |-> ~data, data |-> data, name |-> FALSE, detail |-> detail, wf |-> TRUE, bytes |-> bytes]
Image(bytes) == block("assistant_gen_image", media(TRUE, bytes, FALSE))
Result(call, error) == [call |-> call, wf |-> TRUE, bytes |-> 1, error |-> error]

Others ==
  {ToolCall, Image(1), [ToolCall EXCEPT !.extra = TRUE], [ToolCall EXCEPT !.p = Nil],
   block("mcp_tool_approval_request", [call |-> "c2", wf |-> TRUE, bytes |-> 1]),
   block("mcp_tool_result", Result("c3", Nil)),
   block("mcp_tool_result", Result("c3", [code |-> Nil, message |-> "failed"])),
   block("server_tool_call", [call |-> "c4", wf |-> TRUE, bytes |-> 1, finite |-> TRUE]),
   block("server_tool_result", [call |-> "c4", wf |-> TRUE, bytes |-> 1, finite |-> FALSE]),
   block("mcp_list_tools_result", [wf |-> TRUE, bytes |-> 1, tools |-> <<"a", Nil>>]),
   block("mcp_list_tools_result", [wf |-> TRUE, bytes |-> 1, tools |-> <<"a">>])}

NoExt == [usage |-> 3, bytes |-> 1, extension |-> "", openai |-> Nil, claude |-> Nil, gemini |-> Nil]
Entry(rendered) == [chunks |-> <<"k", Nil>>, supports |-> <<Nil, "s">>,
                    entry |-> [rendered |-> rendered, blob |-> "blob"]]
Gemini(id, g) == [id |-> id, finish |-> "stop", grounding |-> g]

Metas ==
  {Nil, NoExt,
   [NoExt EXCEPT !.openai = [id |-> "r1", prev |-> "r0", created |-> 7, status |-> "ok"]],
   [NoExt EXCEPT !.openai = [id |-> "", prev |-> "", created |-> 0, status |-> "ok"]],
   [NoExt EXCEPT !.claude = [id |-> "m1", stop |-> "end"]],
   [NoExt EXCEPT !.gemini = Gemini("g1", Nil)],
   [NoExt EXCEPT !.gemini = Gemini("", Entry("<div>"))]}

Extensions == {<<"">>, <<"id", "">>, <<"id", "id">>, <<"id", "id2">>, <<"foreign">>}

answer(blocks, meta, exts) ==
  [m |-> [role |-> "assistant", extra |-> FALSE, blocks |-> blocks, meta |-> meta], exts |-> exts]

MCAnswers ==
  {answer(<<b>>, meta, <<"">>) : b \in Texts \cup Reasonings \cup Others, meta \in Metas}
  \cup {answer(<<r, t>>, meta, exts) :
          r \in {x \in Reasonings : x.p.summary = Nil} \cup {ToolCall}, t \in Texts,
          meta \in Metas \ {Nil}, exts \in Extensions}
  \cup {answer(<<Image(n), r, Image(2)>>, NoExt, <<"">>) : n \in 1 .. 9, r \in Reasonings}

userBlock(kind, p) ==
  [id |-> "", kind |-> kind, variants |-> {IF kind = "user_input_text" THEN "text" ELSE IF kind = "user_input_image" THEN "media" ELSE kind}, p |-> p]
utterance(t, bytes) ==
  userBlock("user_input_text", [text |-> t, wf |-> TRUE, bytes |-> bytes, refusal |-> "", notes |-> <<>>])
picture(bytes) == userBlock("user_input_image", media(TRUE, bytes, TRUE))
Misplaced ==
  {userBlock("function_tool_result",
             [call |-> "c1", wf |-> TRUE, bytes |-> 1,
              items |-> <<[type |-> "text", media |-> Nil, wf |-> TRUE]>>]),
   [utterance("hi", 1) EXCEPT !.id = "mine"], [utterance("hi", 1) EXCEPT !.variants = {"text", "media"}]}

submission(blocks) == [role |-> "user", blocks |-> blocks, meta |-> Nil]
Sized(sizes) ==
  {submission(<<utterance(t, n)>>) : t \in {"", "hi"}, n \in sizes}
  \cup {submission(<<utterance("hi", n), picture(k)>>) : n \in sizes, k \in sizes}
  \cup {submission(<<b, utterance("hi", 1)>>) : b \in Misplaced} \cup {submission(<<>>)}

\* Payloads that are too large, or leave room for their envelope.
MCSubmissions == Sized({1, 2, 9})

MCHostLimits == [message |-> 12, blocks |-> 3, block |-> 6]
MCStateLimits == [items |-> 3, item |-> 3, message |-> 6, envelope |-> 4, stored |-> 6]
MCCanonicalIdentity == [i \in {"id", "id2"} |-> i]

------------------------------------------------------------------------------
(* ClassicBridge: texts, media and results of a user, and chunks with calls   *)
(* that carry an index, share one or carry none.                             *)

MCSystem == <<"p">>

classic(type, v) == [type |-> type, v |-> v]
SaidText == classic("text", <<"u">>)
SaidImage == classic("image", <<"i">>)
Res(id) == classic("result", [id |-> id, args |-> <<"r">>])

MCUserInputs == {<<SaidText>>, <<SaidText, SaidImage>>, <<Res("c1"), Res("c2"), SaidText>>,
                 <<SaidText, Res("c1"), SaidText>>, <<>>, <<classic("search_result", <<"s">>)>>}

callChunk(index, id, arg) == [index |-> index, id |-> id, args |-> <<arg>>]
chunk(text, reasoning, calls, extra) ==
  [text |-> text, reasoning |-> reasoning, calls |-> calls, extra |-> extra]

MCChunks ==
  {chunk(<<"t">>, <<>>, <<>>, <<>>), chunk(<<>>, <<"r">>, <<>>, <<"s1", "s2">>),
   chunk(<<>>, <<>>, <<callChunk(1, "c2", "a")>>, <<>>), chunk(<<>>, <<>>, <<callChunk(1, "", "b")>>, <<>>),
   chunk(<<>>, <<>>, <<callChunk(0, "c1", "a"), callChunk(Nil, "c3", "a")>>, <<>>),
   chunk(<<"t">>, <<>>, <<callChunk(Nil, "c4", "a"), callChunk(Nil, "c5", "b")>>, <<"s3">>),
   chunk(<<>>, <<>>, <<>>, <<Foreign>>), chunk(<<>>, <<>>, <<>>, <<"s1", "s2", "s3">>)}

------------------------------------------------------------------------------
(* Replay: which recipes are registered, and how often they may act.          *)

NoInsertion == <<"summarize", "reduce">>
AllRecipes == <<"inject", "summarize", "patch", "reduce">>
HostFirst  == <<"host", "patch", "reduce">>
HostLast   == <<"reduce", "patch", "host">>
PatchFirst == <<"clone", "inject", "patch", "summarize", "reduce">>

scenario(retain, eps, resumes, rounds, context, state, handlers) ==
  [retain |-> retain, epochs |-> eps, resumes |-> resumes, rounds |-> rounds,
   context |-> context, state |-> state, handlers |-> handlers,
   abandons |-> handlers # PatchFirst]

\* Two compactions; one compaction and a resume; an extension's context with
\* private state; a host handler before and after the recipes; private state
\* and a compaction.
MCScenarios ==
  {scenario(1, 2, 0, 2, FALSE, FALSE, AllRecipes),
   scenario(1, 1, 1, 2, FALSE, FALSE, PatchFirst),
   scenario(2, 1, 1, 2, FALSE, FALSE, AllRecipes),
   scenario(1, 0, 0, 1, TRUE, TRUE, NoInsertion),
   scenario(1, 0, 0, 2, FALSE, FALSE, HostFirst),
   scenario(1, 0, 0, 2, FALSE, FALSE, HostLast),
   scenario(2, 1, 0, 1, FALSE, TRUE, NoInsertion)}

------------------------------------------------------------------------------
Journey == INSTANCE ContentJourney
Bridge  == INSTANCE ClassicBridge
Replayed == INSTANCE Replay

journeyVars == <<stage, subject, codec, row, view, sent>>
bridgeVars == <<hasCodec, phase, history, said, request, stream, slots, nextFree>>
replayVars == <<sc, msgs, epochs, turn, resumed>>
vars == <<journeyVars, bridgeVars, replayVars, moves>>

\* A model that does not move has one initial state.
Init ==
  /\ moves \in Moving
  /\ Journey!Init /\ (moves # "journey" => codec /\ subject = CHOOSE a \in Answers : TRUE)
  /\ Bridge!Init /\ (moves # "bridge" => hasCodec)
  /\ Replayed!Init /\ (moves # "replay" => msgs = <<>> /\ sc = CHOOSE s \in Scenarios : TRUE)

Next ==
  /\ \/ moves = "journey" /\ Journey!Next /\ UNCHANGED <<bridgeVars, replayVars>>
     \/ moves = "bridge" /\ Bridge!Next /\ UNCHANGED <<journeyVars, replayVars>>
     \/ moves = "replay" /\ Replayed!Next /\ UNCHANGED <<journeyVars, bridgeVars>>
  /\ UNCHANGED moves

Spec == Init /\ [][Next]_vars

------------------------------------------------------------------------------
(* Properties.                                                               *)

\* Type correctness of the three models, with what each stage of a message has
\* behind it, the slots of a stream (classicMessageToAgenticDelta) and the
\* splice of a turn (buildDurableBaseline).
ConversationTypeOK == Journey!JourneyTypeOK /\ Bridge!BridgeTypeOK /\ Replayed!ReplayTypeOK

\* A committed answer is sent to the provider again exactly as it was emitted
\* (captureAssistantProviderState to StreamProvider), and storing what was
\* loaded stores the same (projectRichAgenticMessage).
ContentSurvives == Journey!SentAsEmitted /\ Journey!DurableFixpoint

\* The classic request is the history, fragment by fragment, and streaming
\* through the bridge assembles the message that the classic accumulator would
\* have made of the chunks (agenticRequestToClassic, classicMessageToAgenticDelta).
RequestIsHistory == Bridge!RequestIsHistory /\ Bridge!AssembledAsClassic

\* Every tool result the model is shown follows its own call, each call has
\* one true result, and private state sits on the message it was captured from
\* (moveTailStartToGroupBoundary, repositionMidTurnCompactionBoundary,
\* verifySettledToolResults, prepareDispatchInput).
ShownTruly == Replayed!ShownTruly

\* No compaction loses a message (applyEpoch, summarizationFinalize).
NothingForgotten == Replayed!NothingForgotten

\* What the runtime wrote, it reads: stored content can be decoded, captured
\* state is restored, a queued message is admitted, and the runtime's own
\* handlers never make it refuse its own history (DecodeContentParts,
\* restoreClassicProviderState, admitTurn, verifySettledToolResults).
OwnWorkAccepted ==
  /\ Journey!StoredIsReadable /\ Journey!StateNeverRefused /\ Journey!QueuedIsAdmitted
  /\ Bridge!CapturedStateAccepted
  /\ Replayed!HistoryAccepted
=============================================================================
