--------------------------- MODULE ContentJourney ---------------------------
(***************************************************************************)
(* The life of one message's content.  A model's answer is streamed,        *)
(* stripped of provider-private state, converted, stored as parts, loaded   *)
(* for a later dispatch, given its private state back and sent again        *)
(* (runtime/adk_model.go commit, tool_preparation.go, provider_state.go,    *)
(* session/history/agentic_projection.go, model/agentic_state.go).  A       *)
(* caller's message is enqueued, kept in the inbox and stored when a turn   *)
(* admits it (runtime/turn_loop.go).                                        *)
(*                                                                         *)
(* Content is read under the host's limits by a run that was started and    *)
(* under the limits of the history options by a run that was resumed.       *)
(***************************************************************************)
EXTENDS AgenticState

CONSTANTS
  Answers,       \* [m: an Eino assistant message, exts: the chunks' extensions]
  Submissions,   \* contents callers hand to Enqueue
  HostLimits,    \* WithContentLimits, or the defaults
  HistoryLimits, \* the limits in the history options as configured
  ApprovalBound  \* the adapter that settles MCP approval requests is there

VARIABLES
  stage,    \* how far the message has come
  subject,  \* what the model emitted, or the caller offered
  codec,    \* does the model have a provider-state codec?
  row,      \* the stored message: [role, parts, items]
  view,     \* what the last load produced: [m, ids, items, shown]
  sent      \* what the provider was last given

vars == <<stage, subject, codec, row, view, sent>>

BlockIDs == <<"b1", "b2", "b3">>
idsFor(blocks) == SubSeq(BlockIDs, 1, Len(blocks))

Init ==
  /\ codec \in BOOLEAN
  /\ \/ stage = "streaming" /\ subject \in Answers
     \/ stage = "offered" /\ subject \in Submissions
  /\ row = Nil /\ view = Nil /\ sent = Nil

------------------------------------------------------------------------------
(* The answer is received and committed.                                     *)

ReceiveStream ==
  /\ stage = "streaming"
  /\ IF streamAccepted(subject.exts, codec)
     THEN /\ stage' = "answered"
          /\ subject' = [subject EXCEPT !.m.meta =
               IF @ = Nil THEN Nil
               ELSE [@ EXCEPT !.extension = streamAgenticReader(subject.exts, codec)]]
     ELSE stage' = "refused" /\ UNCHANGED subject
  /\ UNCHANGED <<codec, row, view, sent>>

recordableKinds ==
  {"assistant_gen_text", "reasoning", "function_tool_call"} \cup GenMediaKinds
  \cup (IF ApprovalBound THEN {"mcp_tool_approval_request"} ELSE {})

\* Every item becomes one stored payload; the limits bound each and their sum.
storedWithinLimits(items) ==
  /\ \A i \in DOMAIN items : itemBytes(items[i]) + StateEnvelope <= StateLimits.envelope
  /\ totalBytes(items) + Len(items) * StateEnvelope <= StateLimits.stored

buildCapturedUnmeasured(items) == items # <<>> => ValidateProviderStateItems(items)

buildCapturedOK(items) ==
  items # <<>> => ValidateProviderStateItems(items) /\ storedWithinLimits(items)

captureAssistantOK(m) ==
  IF codec THEN captureOK(m, idsFor(m.blocks)) /\ buildCapturedOK(captureItems(m, idsFor(m.blocks)))
  ELSE ~m.extra

publicOf(m) == IF codec THEN Capture(m) ELSE m
itemsOf(m) == IF codec THEN captureItems(m, idsFor(m.blocks)) ELSE <<>>

\* prepareToolCalls gives every call a durable id of its own.
mintCallIDs(m) ==
  [m EXCEPT !.blocks = [i \in DOMAIN @ |->
     IF @[i] # Nil /\ @[i].type = "function_tool_call" /\ @[i].p # Nil 
     THEN [@[i] EXCEPT !.p.call = "minted"] ELSE @[i]]]

persistAssistantUnchecked(m) ==
  fromEinoOK(m) /\ encodable(ContentFromAgenticMessage(m, idsFor(m.blocks)), HostLimits)

\* What is left of the private material would be stored as public content.
persistAssistantOK(m) ==
  /\ fromEinoOK(m)
  /\ privateFromEino(m, idsFor(m.blocks)) = <<>>
  /\ encodable(ContentFromAgenticMessage(m, idsFor(m.blocks)), HostLimits)

persistAssistantTurn(m, items) ==
  row' = [role |-> "assistant", items |-> items,
          parts |-> EncodeContentParts(ContentFromAgenticMessage(m, idsFor(m.blocks)))]

commit ==
  /\ stage = "answered"
  /\ LET m == subject.m
         public == mintCallIDs(publicOf(m))
         accepted == /\ \A i \in DOMAIN m.blocks : m.blocks[i] # Nil => m.blocks[i].type \in recordableKinds
                     /\ captureAssistantOK(m)
                     /\ persistAssistantOK(public)
     IN  \/ accepted /\ stage' = "stored" /\ persistAssistantTurn(public, itemsOf(m))
         \/ ~accepted /\ stage' = "refused" /\ UNCHANGED row
  /\ UNCHANGED <<subject, codec, view, sent>>

------------------------------------------------------------------------------
(* The caller's message is queued and admitted.                              *)

assignContentBlockIDs(c) ==
  [c EXCEPT !.blocks = [i \in DOMAIN @ |-> [@[i] EXCEPT !.id = BlockIDs[i]]]]

rejectCallerContentBlockIDs(c) == \E i \in DOMAIN c.blocks : c.blocks[i].id # ""

rejectNonCallerBlocks(c) ==
  \E i \in DOMAIN c.blocks :
    c.blocks[i].kind \notin UserInputKinds \cup {"mcp_tool_approval_response"}

hasNonEmptyTextOrMediaBlock(c) ==
  \E i \in DOMAIN c.blocks :
    \/ c.blocks[i].kind = "user_input_text" /\ c.blocks[i].p.text # ""
    \/ c.blocks[i].kind \in UserInputKinds \ {"user_input_text"}

Enqueue ==
  /\ stage = "offered"
  /\ LET c == assignContentBlockIDs(subject)
         accepted == /\ ~rejectCallerContentBlockIDs(subject)
                     /\ ~rejectNonCallerBlocks(c)
                     /\ hasNonEmptyTextOrMediaBlock(c)
                     /\ Validate(c, HostLimits)
     IN  \/ accepted /\ stage' = "queued" /\ subject' = c
         \/ ~accepted /\ stage' = "refused" /\ UNCHANGED subject
  /\ UNCHANGED <<codec, row, view, sent>>

\* The turn that drains the item fails as a whole when it does not encode,
\* and the item stays in the inbox.
AdmitTurn ==
  /\ stage = "queued"
  /\ \/ /\ encodable(subject, HostLimits)
        /\ stage' = "stored"
        /\ row' = [role |-> "user", parts |-> EncodeContentParts(subject), items |-> <<>>]
     \/ /\ ~encodable(subject, HostLimits)
        /\ stage' = "stuck"
        /\ UNCHANGED row
  /\ UNCHANGED <<subject, codec, view, sent>>

------------------------------------------------------------------------------
(* A later dispatch loads the history and sends it.                          *)

withoutReasoningBlocks(c) ==
  [c EXCEPT !.blocks = SelectSeq(@, LAMBDA b : b.kind # "reasoning")]

projectRichAgenticMessage(r, includeReasoning) ==
  LET c == DecodeContentParts(r.role, r.parts)
  IN  IF includeReasoning THEN c ELSE withoutReasoningBlocks(c)

blockIDsOf(c) == [i \in DOMAIN c.blocks |-> c.blocks[i].id]

\* An item whose block is not sent is passed over.
dispatchedItems(items, ids) ==
  SelectSeq(items, LAMBDA x : x.block = "" \/ x.block \in Range(ids))

loadProviderHistoryOK(items, storedIDs, ids) ==
  items # <<>> =>
    /\ codec
    /\ storedWithinLimits(items)
    /\ \A i \in DOMAIN items : items[i].block # "" => items[i].block \in Range(storedIDs)
    /\ dispatchedItems(items, ids) # <<>> => ValidateProviderStateItems(dispatchedItems(items, ids))

loadProviderHistory(resumed, includeReasoning) ==
  /\ stage \in {"stored", "sent"}
  /\ LET limits == IF resumed THEN HistoryLimits ELSE HostLimits
         stored == DecodeContentParts(row.role, row.parts)
         c      == projectRichAgenticMessage(row, includeReasoning)
         items  == dispatchedItems(row.items, blockIDsOf(c))
     IN  \/ /\ ~decodable(row.role, row.parts, limits)
            /\ stage' = "unreadable" /\ UNCHANGED view
         \/ /\ decodable(row.role, row.parts, limits)
            /\ ~loadProviderHistoryOK(row.items, blockIDsOf(stored), blockIDsOf(c))
            /\ stage' = "state_refused" /\ UNCHANGED view
         \/ /\ decodable(row.role, row.parts, limits)
            /\ loadProviderHistoryOK(row.items, blockIDsOf(stored), blockIDsOf(c))
            /\ stage' = "loaded"
            /\ view' = [m |-> ContentToAgenticMessage(c), ids |-> blockIDsOf(c),
                        items |-> items, shown |-> includeReasoning]
  /\ UNCHANGED <<subject, codec, row, sent>>

\* A message without state is sent as it was loaded.
Dispatch ==
  /\ stage = "loaded"
  /\ LET state == [items |-> view.items, ids |-> view.ids]
     IN  \/ view.items = <<>> /\ stage' = "sent" /\ sent' = view.m
         \/ /\ view.items # <<>> /\ streamProviderOK(view.m, state)
            /\ stage' = "sent" /\ sent' = StreamProvider(view.m, state)
         \/ /\ view.items # <<>> /\ ~streamProviderOK(view.m, state)
            /\ stage' = "state_refused" /\ UNCHANGED sent
  /\ UNCHANGED <<subject, codec, row, view>>

Next ==
  \/ ReceiveStream
  \/ commit
  \/ Enqueue
  \/ AdmitTurn
  \/ \E resumed, includeReasoning \in BOOLEAN : loadProviderHistory(resumed, includeReasoning)
  \/ Dispatch

Spec == Init /\ [][Next]_vars

------------------------------------------------------------------------------
(* What a message says and what it keeps private, read off the message       *)
(* itself and not with the operators above.                                  *)

notesOf(t) ==
  (IF t.openai = Nil THEN <<>> ELSE SelectSeq(t.openai.notes, LAMBDA x : x # Nil))
  \o (IF t.claude = Nil THEN <<>>
      ELSE LET kept == SelectSeq(t.claude, LAMBDA x : x # Nil)
           IN  [i \in DOMAIN kept |-> kept[i].type])

saysBlock(b) ==
  CASE b.type = "assistant_gen_text" ->
         <<b.type, b.p.text, notesOf(b.p),
           IF b.p.openai = Nil \/ b.p.openai.refusal = Nil THEN "" ELSE b.p.openai.refusal>>
    [] b.type = "reasoning" -> <<b.type, b.p.text, IF b.p.summary = Nil THEN <<>> ELSE b.p.summary>>
    [] b.type = "function_tool_call" -> <<b.type, b.p.bytes>>
    [] OTHER -> <<b.type, b.p>>

saysMeta(rm) ==
  IF rm = Nil THEN <<>>
  ELSE <<rm.usage,
         IF rm.openai = Nil THEN "-" ELSE rm.openai.status,
         IF rm.claude = Nil THEN "-" ELSE rm.claude.stop,
         IF rm.gemini = Nil THEN "-" ELSE rm.gemini.finish>>

says(m, reasoning) ==
  LET kept == IF reasoning THEN m.blocks ELSE SelectSeq(m.blocks, LAMBDA b : b.type # "reasoning")
  IN  [blocks |-> [i \in DOMAIN kept |-> saysBlock(kept[i])], meta |-> saysMeta(m.meta)]

secretsOfBlock(b) ==
  CASE b.type = "reasoning" -> IF b.p.sig = "" THEN {} ELSE {<<"signature", 0, b.p.sig>>}
    [] b.type = "assistant_gen_text" /\ b.p.claude # Nil ->
         LET kept == SelectSeq(b.p.claude, LAMBDA x : x # Nil)
         IN  {<<"citation", i, kept[i].enc>> : i \in {i \in DOMAIN kept : kept[i].enc # ""}}
    [] OTHER -> {}

secretsOfMeta(rm) ==
  IF rm = Nil THEN {}
  ELSE {<<"extension", rm.extension>>,
        <<"openai", IF rm.openai = Nil THEN NoIDs ELSE [id |-> rm.openai.id, prev |-> rm.openai.prev,
                                                       created |-> rm.openai.created]>>,
        <<"claude", IF rm.claude = Nil THEN "" ELSE rm.claude.id>>,
        <<"gemini", IF rm.gemini = Nil THEN "" ELSE rm.gemini.id>>,
        <<"blob", IF rm.gemini = Nil \/ rm.gemini.grounding = Nil \/ rm.gemini.grounding.entry = Nil
                  THEN "" ELSE rm.gemini.grounding.entry.blob>>}

secrets(m, reasoning) ==
  LET kept == IF reasoning THEN m.blocks ELSE SelectSeq(m.blocks, LAMBDA b : b.type # "reasoning")
  IN  [blocks |-> [i \in DOMAIN kept |-> secretsOfBlock(kept[i])], meta |-> secretsOfMeta(m.meta)]

------------------------------------------------------------------------------
(* Properties.                                                               *)

\* Type correctness, and what each stage has behind it: a stored message has
\* at least one part, is numbered from 0 without gaps by EncodeContentParts,
\* and nothing private is in it; state is stored only by a model with a codec.
JourneyTypeOK ==
  /\ stage \in {"streaming", "answered", "refused", "offered", "queued", "stuck", "stored",
                "loaded", "sent", "unreadable", "state_refused"}
  /\ codec \in BOOLEAN
  /\ row # Nil => /\ \A i \in DOMAIN row.parts : row.parts[i].ordinal = i - 1
                  /\ row.items # <<>> => codec /\ row.role = "assistant"
  /\ (stage \in {"streaming", "answered", "refused", "offered", "queued", "stuck"}) = (row = Nil)
  /\ stage = "sent" => sent # Nil /\ view # Nil

\* An answer that was committed is sent to the provider again exactly as the
\* provider emitted it: every public block says the same, and every private
\* token is back at the place it was taken from (captureAssistantProviderState
\* to StreamProvider, across conversion, storage and projection).  With
\* reasoning left out, the reasoning blocks and their signatures are absent
\* and everything else is unchanged.
SentAsEmitted ==
  (stage = "sent" /\ row.role = "assistant") =>
    /\ says(sent, TRUE) = says(subject.m, view.shown)
    /\ secrets(sent, TRUE) = secrets(subject.m, view.shown)

\* What the store accepted, every later load can decode: the limits and rules
\* DecodeContentParts applies are never stricter than those
\* EncodeContentParts applied.
StoredIsReadable == stage # "unreadable"

\* State the codec captured is always accepted when it comes back: no load
\* and no dispatch fails because of it, with or without reasoning.
StateNeverRefused == stage # "state_refused"

\* A message Enqueue acknowledged can be admitted by the turn that drains it:
\* it does not sit in the inbox failing every turn that picks it up.
QueuedIsAdmitted == stage # "stuck"

\* Content with an empty reasoning summary is the same as content without.
sameBlock(b) ==
  IF b.kind = "reasoning" /\ b.p.summary = Nil THEN [b EXCEPT !.p.summary = <<>>] ELSE b
sameContent(c) == [c EXCEPT !.blocks = [i \in DOMAIN @ |-> sameBlock(@[i])]]

\* Nothing durable is lost on the way out: content read back as an Eino
\* message (ContentToAgenticMessage) and converted again
\* (ContentFromAgenticMessage) is the same content, with nothing private left
\* to split off, for every block kind and every provider's metadata.
DurableFixpoint ==
  (stage = "streaming" /\ fromEinoOK(subject.m)) =>
    LET ids == idsFor(subject.m.blocks)
        c   == ContentFromAgenticMessage(subject.m, ids)
        m   == ContentToAgenticMessage(c)
    IN  /\ fromEinoOK(m)
        /\ privateFromEino(m, ids) = <<>>
        /\ sameContent(ContentFromAgenticMessage(m, ids)) = sameContent(c)
==============================================================================
