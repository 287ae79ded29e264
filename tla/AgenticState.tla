---------------------------- MODULE AgenticState ----------------------------
(***************************************************************************)
(* Provider-private state of native agentic models                         *)
(* (model/agentic_state.go, agentic_streamer.go, provider_state.go): the    *)
(* codec that takes signatures, encrypted citation indexes, SDK blobs,      *)
(* response ids and the response identity out of a message, the inverse     *)
(* that puts them back, and the boundary that refuses a request whose       *)
(* restored message would not be captured to exactly the same state.        *)
(*                                                                         *)
(* A state item is one PrivateBlockState of Content: exactly one of its     *)
(* fields is set.  An extension of the response metadata is "" (none) or a  *)
(* raw value; CanonicalIdentity maps the values the contract accepts to the *)
(* bytes the codec itself would write for them.                             *)
(***************************************************************************)
EXTENDS Content

CONSTANTS
  StateLimits,       \* [items, item, message, envelope, stored]
  StateEnvelope,     \* bytes the stored envelope adds to an item
  CanonicalIdentity  \* raw identity -> the codec's own spelling of it

itemBytes(item) == 1 + Len(item.marks)
totalBytes(items) == MapThenSumSet(LAMBDA i : itemBytes(items[i]), DOMAIN items)

ValidateProviderStateItems(items) ==
  /\ items # <<>>
  /\ Len(items) <= StateLimits.items
  /\ \A i \in DOMAIN items : itemBytes(items[i]) <= StateLimits.item
  /\ totalBytes(items) <= StateLimits.message

responseMetaStateRawFromExtension(raw) == raw \in DOMAIN CanonicalIdentity
privateIdentity(raw) == [PrivateBlockState EXCEPT !.identity = raw]

------------------------------------------------------------------------------
(* The stream: every chunk may carry an extension.  A stateful boundary      *)
(* keeps the first and refuses a second that differs; a plain one drops it.  *)

normalizeResponseMetaExtension(raw, retain) == IF retain THEN raw ELSE ""

streamAccepted(exts, retain) ==
  LET given == SelectSeq(exts, LAMBDA e : e # "")
  IN  /\ \A i \in DOMAIN given : responseMetaStateRawFromExtension(given[i])
      /\ retain => \A i \in DOMAIN given : given[i] = given[1]

streamAgenticReader(exts, retain) ==
  LET given == SelectSeq(exts, LAMBDA e : e # "")
  IN  IF given = <<>> THEN "" ELSE normalizeResponseMetaExtension(given[1], retain)

------------------------------------------------------------------------------
(* Capture.                                                                  *)

openAICount(t) == IF t.openai = Nil THEN 0 ELSE Len(present(t.openai.notes))

\* The citations that are not nil, in order; the k-th has annotation number
\* openAICount(t) + k - 1.
citationsOf(t) ==
  IF t.claude = Nil THEN <<>>
  ELSE SelectSeq([j \in DOMAIN t.claude |-> j], LAMBDA j : t.claude[j] # Nil)

encryptedCitation(c) == c.type = "web_search_result_location" /\ c.enc # ""

captureClaudeEncryptedIndexes(t) ==
  LET at  == citationsOf(t)
      enc == SelectSeq([k \in DOMAIN at |-> k], LAMBDA k : encryptedCitation(t.claude[at[k]]))
  IN  [i \in DOMAIN enc |-> [note |-> openAICount(t) + enc[i] - 1,
                             enc  |-> t.claude[at[enc[i]]].enc]]

captureBlock(id, b) ==
  CASE b = Nil \/ b.p = Nil -> <<>>
    [] b.type = "reasoning" -> optional(b.p.sig # "", privateSignature(id, b.p.sig))
    [] b.type = "assistant_gen_text" ->
         LET marks == captureClaudeEncryptedIndexes(b.p)
         IN  optional(marks # <<>>, privateEncryptedIndexes(id, marks))
    [] OTHER -> <<>>

blockWithoutPrivate(b) ==
  CASE b = Nil \/ b.p = Nil -> b
    [] b.type = "reasoning" -> [b EXCEPT !.p.sig = ""]
    [] b.type = "assistant_gen_text" /\ b.p.claude # Nil ->
         [b EXCEPT !.p.claude = [j \in DOMAIN @ |->
            IF @[j] = Nil \/ ~encryptedCitation(@[j]) THEN @[j] ELSE [@[j] EXCEPT !.enc = ""]]]
    [] OTHER -> b

idOf(x) == IF x = Nil THEN "" ELSE x.id
blobOf(g) == IF g = Nil \/ g.grounding = Nil \/ g.grounding.entry = Nil THEN ""
             ELSE g.grounding.entry.blob

\* The response id is the first one set, OpenAI before Claude before Gemini.
captureResponseMetaPrivate(rm) ==
  LET ids == SelectSeq(<<idOf(rm.openai), idOf(rm.claude), idOf(rm.gemini)>>, LAMBDA x : x # "")
      all == [id      |-> IF ids = <<>> THEN "" ELSE ids[1],
              prev    |-> IF rm.openai = Nil THEN "" ELSE rm.openai.prev,
              created |-> IF rm.openai = Nil THEN 0 ELSE rm.openai.created]
  IN  optional(blobOf(rm.gemini) # "", privateSDKBlob(blobOf(rm.gemini)))
      \o optional(all # NoIDs, privateResponseIDs(all))

\* Only the id that became the response id is cleared.
metaWithoutPrivate(rm) ==
  [rm EXCEPT
     !.extension = "",
     !.openai = IF @ = Nil THEN Nil ELSE [@ EXCEPT !.id = "", !.prev = "", !.created = 0],
     !.claude = IF @ = Nil THEN Nil ELSE [@ EXCEPT !.id = IF idOf(rm.openai) = "" THEN "" ELSE @],
     !.gemini =
       IF @ = Nil THEN Nil
       ELSE [@ EXCEPT
               !.id = IF idOf(rm.openai) = "" /\ idOf(rm.claude) = "" THEN "" ELSE @,
               !.grounding = IF blobOf(rm.gemini) = "" THEN @ ELSE [@ EXCEPT !.entry.blob = ""]]]

captureItems(m, ids) ==
  (IF m.meta = Nil THEN <<>>
   ELSE optional(m.meta.extension # "", privateIdentity(m.meta.extension)))
  \o FlattenSeq([i \in DOMAIN m.blocks |-> captureBlock(ids[i], m.blocks[i])])
  \o (IF m.meta = Nil THEN <<>> ELSE captureResponseMetaPrivate(m.meta))

captureOK(m, ids) ==
  /\ m.meta # Nil /\ m.meta.extension # "" => responseMetaStateRawFromExtension(m.meta.extension)
  /\ ~m.extra
  /\ \A i \in DOMAIN m.blocks :
       LET b == m.blocks[i] IN
       b # Nil => /\ ~b.extra
                  /\ b.type = "assistant_gen_text" /\ b.p # Nil => ~b.p.extension
  /\ captureItems(m, ids) # <<>> => ValidateProviderStateItems(captureItems(m, ids))

\* The public message Capture returns beside the items.
Capture(m) ==
  [m EXCEPT !.blocks = [i \in DOMAIN @ |-> blockWithoutPrivate(@[i])],
            !.meta = IF @ = Nil THEN Nil ELSE metaWithoutPrivate(@)]

------------------------------------------------------------------------------
(* Restore.                                                                  *)

pendingFor(items, id) == SelectSeq(items, LAMBDA x : x.block = id)
messageItems(items) == pendingFor(items, "")

restoreClaudeOK(t, marks) ==
  LET at == citationsOf(t) IN
  \A i \in DOMAIN marks :
    LET k == marks[i].note - openAICount(t) + 1
    IN  k \in DOMAIN at /\ t.claude[at[k]].type = "web_search_result_location"

restoreClaudeEncryptedIndexes(t, marks) ==
  LET at == citationsOf(t)
      enc(j) == {marks[i].enc : i \in {i \in DOMAIN marks :
                   \E k \in DOMAIN at : at[k] = j /\ marks[i].note = openAICount(t) + k - 1}}
  IN  IF t.claude = Nil THEN t
      ELSE [t EXCEPT !.claude = [j \in DOMAIN @ |->
              IF enc(j) = {} THEN @[j] ELSE [@[j] EXCEPT !.enc = CHOOSE e \in enc(j) : TRUE]]]

restoreBlockOK(b, pending) ==
  \/ pending = <<>>
  \/ /\ b.p # Nil
     /\ Len(pending) = 1
     /\ \/ b.type = "reasoning" /\ pending[1].sig # ""
        \/ b.type = "assistant_gen_text" /\ pending[1].marks # <<>>
             /\ restoreClaudeOK(b.p, pending[1].marks)

restoreBlock(b, pending) ==
  CASE pending = <<>> -> b
    [] pending # <<>> /\ b.type = "reasoning" -> [b EXCEPT !.p.sig = pending[1].sig]
    [] OTHER -> [b EXCEPT !.p = restoreClaudeEncryptedIndexes(@, pending[1].marks)]

restoreGeminiOK(rm) ==
  rm.gemini # Nil /\ rm.gemini.grounding # Nil /\ rm.gemini.grounding.entry # Nil

restoreIDsOK(rm, ids) ==
  /\ ids.prev # "" \/ ids.created # 0 => rm.openai # Nil
  /\ ids.id # "" => ~(rm.openai = Nil /\ rm.claude = Nil /\ rm.gemini = Nil)

\* The metadata must be there; there is at most one identity; each other item
\* finds the place it was taken from.
restoreMetaOK(rm, items) ==
  items # <<>> =>
    /\ rm # Nil
    /\ Len(SelectSeq(items, LAMBDA x : x.identity # "")) <= 1
    /\ \A i \in DOMAIN items :
         /\ items[i].identity # "" => responseMetaStateRawFromExtension(items[i].identity)
         /\ items[i].blob # "" => restoreGeminiOK(rm)
         /\ items[i].ids # NoIDs => restoreIDsOK(rm, items[i].ids)
         /\ items[i].identity # "" \/ items[i].blob # "" \/ items[i].ids # NoIDs

\* OpenAI's extension takes the response id when there is one, else Claude's,
\* else Gemini's.
restoreResponseIDs(rm, ids) ==
  LET named == [rm EXCEPT !.openai = IF @ = Nil \/ (ids.prev = "" /\ ids.created = 0) THEN @
                                     ELSE [@ EXCEPT !.prev = ids.prev, !.created = ids.created]]
  IN  CASE ids.id = "" -> named
        [] ids.id # "" /\ rm.openai # Nil -> [named EXCEPT !.openai.id = ids.id]
        [] ids.id # "" /\ rm.openai = Nil /\ rm.claude # Nil -> [named EXCEPT !.claude.id = ids.id]
        [] OTHER -> [named EXCEPT !.gemini.id = ids.id]

restoreMetaItem(rm, item) ==
  CASE item.identity # "" -> [rm EXCEPT !.extension = CanonicalIdentity[item.identity]]
    [] item.identity = "" /\ item.blob # "" -> [rm EXCEPT !.gemini.grounding.entry.blob = item.blob]
    [] OTHER -> restoreResponseIDs(rm, item.ids)

restoreOK(m, items, ids) ==
  /\ items # <<>> => ValidateProviderStateItems(items)
  /\ ~m.extra
  /\ \A i \in DOMAIN m.blocks : restoreBlockOK(m.blocks[i], pendingFor(items, ids[i]))
  /\ \A i \in DOMAIN items : items[i].block # "" => items[i].block \in Range(ids)
  /\ restoreMetaOK(m.meta, messageItems(items))

Restore(m, items, ids) ==
  [m EXCEPT !.blocks = [i \in DOMAIN @ |-> restoreBlock(@[i], pendingFor(items, ids[i]))],
            !.meta = FoldLeft(restoreMetaItem, @, messageItems(items))]

------------------------------------------------------------------------------
(* The provider boundary: a request with state is dispatched only if the     *)
(* restored message captures to the message and the items it came from.      *)

streamProviderOK(m, state) ==
  /\ m.role = "assistant"
  /\ ~m.extra
  /\ Len(state.ids) = Len(m.blocks)
  /\ ValidateProviderStateItems(state.items)
  /\ restoreOK(m, state.items, state.ids)
  /\ LET restored == Restore(m, state.items, state.ids) IN
     /\ captureOK(restored, state.ids)
     /\ Capture(restored) = m
     /\ captureItems(restored, state.ids) = state.items

StreamProvider(m, state) == Restore(m, state.items, state.ids)
==============================================================================
