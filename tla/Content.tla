------------------------------- MODULE Content -------------------------------
(***************************************************************************)
(* Durable message content (session/content.go): the typed blocks of a     *)
(* message, what Validate accepts, how content becomes parts of a message   *)
(* row and is read back, and the two conversions between the messages the   *)
(* model client speaks (Eino's AgenticMessage) and durable content.  The    *)
(* conversion from Eino splits provider-private material off.               *)
(*                                                                         *)
(* Strings, numbers and JSON values are abstract.  A payload keeps only     *)
(* what the code tells apart: whether a pointer is nil, which list entries  *)
(* are nil, the private tokens, the call id it answers, its size in bytes,  *)
(* and wf, which stands for the per-kind rules on single fields (UTF-8,     *)
(* required names, JSON arguments).  A nil pointer is Nil; "" is the empty  *)
(* string, as in the code.                                                  *)
(*                                                                         *)
(* An Eino block:    [type, streaming, extra, p], p = Nil or its payload.   *)
(* A content block:  [id, kind, variants, p]; variants names the payload    *)
(*                   pointers that are set.                                 *)
(* lim is a ContentLimits: [message, blocks, block].                        *)
(***************************************************************************)
EXTENDS Integers, Sequences, SequencesExt, FiniteSets, FiniteSetsExt, TLC

CONSTANTS
  Nil,       \* a nil pointer
  Envelope   \* bytes the stored envelope adds to a payload

UserInputKinds == {"user_input_text", "user_input_image", "user_input_audio",
                   "user_input_video", "user_input_file"}
GenMediaKinds == {"assistant_gen_image", "assistant_gen_audio",
                  "assistant_gen_video"}
MediaKinds == (UserInputKinds \ {"user_input_text"}) \cup GenMediaKinds

\* The payload each kind carries; its domain is the set of known kinds.
envelopeKeyForKind ==
  [k \in MediaKinds |-> "media"]
  @@ [k \in {"user_input_text", "assistant_gen_text"} |-> "text"]
  @@ [k \in {"reasoning", "function_tool_call", "function_tool_result",
             "tool_search_result", "server_tool_call", "server_tool_result",
             "mcp_tool_call", "mcp_tool_result", "mcp_list_tools_result",
             "mcp_tool_approval_request", "mcp_tool_approval_response"} |-> k]

BlockKinds == DOMAIN envelopeKeyForKind

\* Part kinds reuse the block kinds' names one to one; a response_meta,
\* provider_state or approval_decision part stores no block.
BlockKindForPart(kind) == kind \in BlockKinds

roleAllowedKinds ==
  [user |-> UserInputKinds \cup {"function_tool_result", "tool_search_result",
                                 "mcp_tool_approval_response"},
   assistant |-> BlockKinds \ (UserInputKinds \cup
                   {"function_tool_result", "tool_search_result",
                    "mcp_tool_approval_response"}),
   system |-> {"user_input_text"}]

OpenAITypes == {"file_citation", "url_citation", "container_file_citation",
                "file_path"}
ClaudeTypes == {"char_location", "page_location", "content_block_location",
                "web_search_result_location"}

isOpenAIAnnotationType(t) == t \in OpenAITypes
isClaudeAnnotationType(t) == t \in ClaudeTypes

------------------------------------------------------------------------------
(* Validation.                                                              *)

limitsValidate(lim) == lim.message > 0 /\ lim.blocks > 0 /\ lim.block > 0

\* Exactly one payload pointer is set and it is the kind's.
blockVariant(b) == b.variants = {envelopeKeyForKind[b.kind]}

\* A media payload has either a URL or inline data; only a file may have a
\* name and only an image a detail.
validateMediaFields(m, lim, allowName, allowDetail) ==
  /\ m.url # m.data
  /\ m.data => m.bytes <= lim.block
  /\ m.wf
  /\ m.name => allowName
  /\ m.detail => allowDetail

validateResultContent(item, lim) ==
  IF item.type = "text" THEN item.media = Nil /\ item.wf
  ELSE /\ item.media # Nil
       /\ validateMediaFields(item.media, lim, item.type = "file", item.type = "image")

validateAnnotation(type) ==
  isOpenAIAnnotationType(type) \/ isClaudeAnnotationType(type)

validateVariant(b, lim) ==
  CASE b.kind \in MediaKinds ->
         validateMediaFields(b.p, lim, b.kind = "user_input_file",
                             b.kind \in {"user_input_image", "assistant_gen_image"})
    [] b.kind \in {"user_input_text", "assistant_gen_text"} ->
         /\ b.p.wf
         /\ b.kind = "user_input_text" => b.p.refusal = "" /\ b.p.notes = <<>>
         /\ \A i \in DOMAIN b.p.notes : validateAnnotation(b.p.notes[i])
    [] b.kind = "function_tool_result" ->
         b.p.wf /\ \A i \in DOMAIN b.p.items : validateResultContent(b.p.items[i], lim)
    [] OTHER -> b.p.wf

metaBytes(c) == IF c.meta = Nil THEN 0 ELSE c.meta.bytes

Validate(c, lim) ==
  /\ limitsValidate(lim)
  /\ c.role \in DOMAIN roleAllowedKinds
  /\ c.meta # Nil => c.role = "assistant"
  /\ Len(c.blocks) <= lim.blocks
  /\ \A i \in DOMAIN c.blocks :
       LET b == c.blocks[i] IN
       /\ b.kind \in roleAllowedKinds[c.role]
       /\ b.id # ""
       /\ \A j \in 1 .. (i - 1) : c.blocks[j].id # b.id
       /\ blockVariant(b)
       /\ validateVariant(b, lim)
       /\ b.kind = "function_tool_result" =>
            \A j \in 1 .. (i - 1) :
              c.blocks[j].kind = b.kind => c.blocks[j].p.call # b.p.call
       /\ b.p.bytes <= lim.block
  /\ metaBytes(c) <= lim.block
  /\ MapThenSumSet(LAMBDA i : c.blocks[i].p.bytes, DOMAIN c.blocks)
       + metaBytes(c) <= lim.message

------------------------------------------------------------------------------
(* Parts: one per block, then the response metadata, numbered from 0.       *)

encodeBlockEnvelope(b, ordinal) ==
  [kind |-> b.kind, ordinal |-> ordinal, payload |-> b, bytes |-> b.p.bytes + Envelope]

encodeMeta(c) ==
  IF c.meta = Nil THEN <<>>
  ELSE << [kind |-> "response_meta", ordinal |-> Len(c.blocks),
           payload |-> c.meta, bytes |-> c.meta.bytes + Envelope] >>

partsOf(c) ==
  [i \in DOMAIN c.blocks |-> encodeBlockEnvelope(c.blocks[i], i - 1)] \o encodeMeta(c)

partBytes(parts) == MapThenSumSet(LAMBDA i : parts[i].bytes, DOMAIN parts)

\* Encoding measures the envelopes, which are larger than the payloads
\* Validate measured, against the same limits.
encodable(c, lim) ==
  /\ Validate(c, lim)
  /\ \A i \in DOMAIN partsOf(c) : partsOf(c)[i].bytes <= lim.block
  /\ partBytes(partsOf(c)) <= lim.message

EncodeContentParts(c) == partsOf(c)

\* Only block and response_meta parts are content; every other kind in the
\* same message is passed over.
isContentPart(part) == BlockKindForPart(part.kind) \/ part.kind = "response_meta"

blocksOf(parts) ==
  LET kept == SelectSeq(parts, LAMBDA p : BlockKindForPart(p.kind))
  IN  [i \in DOMAIN kept |-> kept[i].payload]

metaOf(parts) ==
  LET kept == SelectSeq(parts, LAMBDA p : p.kind = "response_meta")
  IN  IF kept = <<>> THEN Nil ELSE kept[1].payload

DecodeContentParts(role, parts) ==
  [role |-> role, blocks |-> blocksOf(parts), meta |-> metaOf(parts)]

decodeBlockEnvelope(part, lim) ==
  /\ part.bytes <= lim.block
  /\ BlockKindForPart(part.kind) =>
       part.payload.kind = part.kind /\ blockVariant(part.payload)

decodable(role, parts, lim) ==
  LET content == SelectSeq(parts, isContentPart) IN
  /\ limitsValidate(lim)
  /\ Len(blocksOf(parts)) <= lim.blocks
  /\ partBytes(content) <= lim.message
  /\ \A i \in DOMAIN content : decodeBlockEnvelope(content[i], lim)
  /\ \A i \in 1 .. (Len(content) - 1) :
       /\ content[i].kind # "response_meta"
       /\ content[i].ordinal < content[i + 1].ordinal
  /\ Validate(DecodeContentParts(role, parts), lim)

------------------------------------------------------------------------------
(* Private material.  One item holds one thing; the rest of it is empty.    *)

NoIDs == [id |-> "", prev |-> "", created |-> 0]

PrivateBlockState ==
  [block |-> "", sig |-> "", marks |-> <<>>, blob |-> "", ids |-> NoIDs, identity |-> ""]

privateSignature(id, sig) == [PrivateBlockState EXCEPT !.block = id, !.sig = sig]
privateEncryptedIndexes(id, marks) == [PrivateBlockState EXCEPT !.block = id, !.marks = marks]
privateSDKBlob(blob) == [PrivateBlockState EXCEPT !.blob = blob]
privateResponseIDs(ids) == [PrivateBlockState EXCEPT !.ids = ids]

optional(cond, item) == IF cond THEN <<item>> ELSE <<>>

present(list) == SelectSeq(list, LAMBDA x : x # Nil)

------------------------------------------------------------------------------
(* From Eino.                                                               *)

\* nil entries of either list of annotations are dropped; OpenAI's come first.
openAIAnnotations(t) == IF t.openai = Nil THEN <<>> ELSE present(t.openai.notes)
claudeCitations(t) == IF t.claude = Nil THEN <<>> ELSE present(t.claude)

\* An encrypted index is filed under the position its citation takes in the
\* combined list, which counts from 0.
encryptedIndexes(t) ==
  LET cites == claudeCitations(t)
      base  == Len(openAIAnnotations(t))
      enc   == SelectSeq([j \in DOMAIN cites |-> j], LAMBDA j : cites[j].enc # "")
  IN  [k \in DOMAIN enc |-> [note |-> base + enc[k] - 1, enc |-> cites[enc[k]].enc]]

assistantGenTextFromEino(t) ==
  LET cites == claudeCitations(t)
  IN  [text |-> t.text, wf |-> t.wf, bytes |-> t.bytes,
       refusal |-> IF t.openai = Nil \/ t.openai.refusal = Nil THEN "" ELSE t.openai.refusal,
       notes |-> openAIAnnotations(t) \o [j \in DOMAIN cites |-> cites[j].type]]

reasoningFromEino(r) ==
  [text |-> r.text, wf |-> r.wf, bytes |-> r.bytes, summary |-> r.summary]

\* An MCP error object becomes a code and a message.
mcpResultFromEino(r) ==
  [call |-> r.call, wf |-> r.wf, bytes |-> r.bytes,
   code |-> IF r.error = Nil THEN Nil ELSE r.error.code,
   message |-> IF r.error = Nil THEN "" ELSE r.error.message]

payloadFromEino(b) ==
  CASE b.type = "reasoning"          -> reasoningFromEino(b.p)
    [] b.type = "assistant_gen_text" -> assistantGenTextFromEino(b.p)
    [] b.type = "user_input_text"    -> [text |-> b.p.text, wf |-> b.p.wf, bytes |-> b.p.bytes,
                                         refusal |-> "", notes |-> <<>>]
    [] b.type = "mcp_tool_result"    -> mcpResultFromEino(b.p)
    [] OTHER                         -> b.p

contentBlockFromEino(id, b) ==
  [id |-> id, kind |-> b.type, variants |-> {envelopeKeyForKind[b.type]},
   p |-> payloadFromEino(b)]

blockPrivate(id, b) ==
  CASE b.type = "reasoning" -> optional(b.p.sig # "", privateSignature(id, b.p.sig))
    [] b.type = "assistant_gen_text" ->
         optional(encryptedIndexes(b.p) # <<>>, privateEncryptedIndexes(id, encryptedIndexes(b.p)))
    [] OTHER -> <<>>

\* Items a list of the payload may not contain: nil entries, JSON values
\* that do not marshal within the bounds, an unregistered extension.
convertible(b) ==
  /\ b # Nil /\ ~b.streaming /\ ~b.extra /\ b.type \in BlockKinds /\ b.p # Nil
  /\ b.type = "reasoning" /\ b.p.summary # Nil => present(b.p.summary) = b.p.summary
  /\ b.type = "assistant_gen_text" =>
       /\ ~b.p.extension
       /\ \A t \in Range(openAIAnnotations(b.p)) : isOpenAIAnnotationType(t)
       /\ \A c \in Range(claudeCitations(b.p)) : isClaudeAnnotationType(c.type)
  /\ b.type = "function_tool_result" => present(b.p.items) = b.p.items
  /\ b.type \in {"tool_search_result", "mcp_list_tools_result"} /\ b.p.tools # Nil =>
       present(b.p.tools) = b.p.tools
  /\ b.type \in {"server_tool_call", "server_tool_result"} => b.p.finite

groundingFromEino(g) ==
  [chunks |-> [i \in DOMAIN g.chunks |-> IF g.chunks[i] = Nil THEN "" ELSE g.chunks[i]],
   supports |-> present(g.supports),
   rendered |-> IF g.entry = Nil THEN "" ELSE g.entry.rendered]

sdkBlob(rm) ==
  IF rm.gemini = Nil \/ rm.gemini.grounding = Nil \/ rm.gemini.grounding.entry = Nil THEN ""
  ELSE rm.gemini.grounding.entry.blob

\* The first provider extension that has a response id gives it.
responseIDs(rm) ==
  LET id(x) == IF x = Nil THEN "" ELSE x.id
      found == SelectSeq(<<id(rm.openai), id(rm.claude), id(rm.gemini)>>, LAMBDA x : x # "")
  IN  [id |-> IF found = <<>> THEN "" ELSE found[1],
       prev |-> IF rm.openai = Nil THEN "" ELSE rm.openai.prev,
       created |-> IF rm.openai = Nil THEN 0 ELSE rm.openai.created]

responseMetaFromEino(rm) ==
  IF rm = Nil THEN Nil
  ELSE [usage |-> rm.usage, bytes |-> rm.bytes,
        openai |-> IF rm.openai = Nil THEN Nil ELSE [status |-> rm.openai.status],
        claude |-> IF rm.claude = Nil THEN Nil ELSE [stop |-> rm.claude.stop],
        gemini |-> IF rm.gemini = Nil THEN Nil
                   ELSE [finish |-> rm.gemini.finish,
                         grounding |-> IF rm.gemini.grounding = Nil THEN Nil
                                       ELSE groundingFromEino(rm.gemini.grounding)]]

metaPrivate(rm) ==
  IF rm = Nil THEN <<>>
  ELSE optional(sdkBlob(rm) # "", privateSDKBlob(sdkBlob(rm)))
       \o optional(responseIDs(rm) # NoIDs, privateResponseIDs(responseIDs(rm)))

fromEinoOK(m) ==
  /\ ~m.extra
  /\ \A i \in DOMAIN m.blocks : convertible(m.blocks[i])
  /\ m.meta # Nil => m.meta.extension = ""

ContentFromAgenticMessage(m, ids) ==
  [role |-> m.role,
   blocks |-> [i \in DOMAIN m.blocks |-> contentBlockFromEino(ids[i], m.blocks[i])],
   meta |-> responseMetaFromEino(m.meta)]

privateFromEino(m, ids) ==
  FlattenSeq([i \in DOMAIN m.blocks |-> blockPrivate(ids[i], m.blocks[i])]) \o metaPrivate(m.meta)

------------------------------------------------------------------------------
(* Back to Eino.  The result carries no private field, no Extra and no       *)
(* extension; pointers are rebuilt only when something would be in them.     *)

assistantGenTextToEino(t) ==
  LET notes == SelectSeq(t.notes, isOpenAIAnnotationType)
      cites == SelectSeq(t.notes, isClaudeAnnotationType)
  IN  [text |-> t.text, wf |-> t.wf, bytes |-> t.bytes, extension |-> FALSE,
       openai |-> IF t.refusal = "" /\ notes = <<>> THEN Nil
                  ELSE [refusal |-> IF t.refusal = "" THEN Nil ELSE t.refusal, notes |-> notes],
       claude |-> IF cites = <<>> THEN Nil
                  ELSE [j \in DOMAIN cites |-> [type |-> cites[j], enc |-> ""]]]

reasoningToEino(r) ==
  [text |-> r.text, wf |-> r.wf, bytes |-> r.bytes, sig |-> "",
   summary |-> IF r.summary = <<>> THEN Nil ELSE r.summary]

mcpResultToEino(r) ==
  [call |-> r.call, wf |-> r.wf, bytes |-> r.bytes,
   error |-> IF r.code = Nil /\ r.message = "" THEN Nil
             ELSE [code |-> r.code, message |-> r.message]]

payloadToEino(b) ==
  CASE b.kind = "reasoning"          -> reasoningToEino(b.p)
    [] b.kind = "assistant_gen_text" -> assistantGenTextToEino(b.p)
    [] b.kind = "user_input_text"    -> [text |-> b.p.text, wf |-> b.p.wf, bytes |-> b.p.bytes]
    [] b.kind = "mcp_tool_result"    -> mcpResultToEino(b.p)
    [] b.kind \in GenMediaKinds      -> [b.p EXCEPT !.name = FALSE, !.detail = FALSE]
    [] OTHER                         -> b.p

contentBlockToEino(b) ==
  [type |-> b.kind, streaming |-> FALSE, extra |-> FALSE, p |-> payloadToEino(b)]

groundingToEino(g) ==
  [chunks |-> g.chunks, supports |-> g.supports,
   entry |-> IF g.rendered = "" THEN Nil ELSE [rendered |-> g.rendered, blob |-> ""]]

responseMetaToEino(meta) ==
  IF meta = Nil THEN Nil
  ELSE [usage |-> meta.usage, bytes |-> meta.bytes, extension |-> "",
        openai |-> IF meta.openai = Nil THEN Nil
                   ELSE [status |-> meta.openai.status, id |-> "", prev |-> "", created |-> 0],
        claude |-> IF meta.claude = Nil THEN Nil ELSE [stop |-> meta.claude.stop, id |-> ""],
        gemini |-> IF meta.gemini = Nil THEN Nil
                   ELSE [finish |-> meta.gemini.finish, id |-> "",
                         grounding |-> IF meta.gemini.grounding = Nil THEN Nil
                                       ELSE groundingToEino(meta.gemini.grounding)]]

ContentToAgenticMessage(c) ==
  [role |-> c.role, extra |-> FALSE,
   blocks |-> [i \in DOMAIN c.blocks |-> contentBlockToEino(c.blocks[i])],
   meta |-> responseMetaToEino(c.meta)]
==============================================================================
