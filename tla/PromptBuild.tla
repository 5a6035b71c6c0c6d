------------------------------ MODULE PromptBuild ------------------------------
(***************************************************************************)
(* From the messages of a client to what DeepSeek is given: one prompt and *)
(* one file.  A request of the Chat or the Responses API is normalised     *)
(* (internal/promptcompat), its older turns are cut off as a transcript    *)
(* and the rest is uploaded as CONTEXT.txt                                 *)
(* (internal/httpapi/openai/history).                                      *)
(*                                                                         *)
(* Text is a sequence of pieces: what the text, the reasoning and the      *)
(* calls of a message say, the markers of the roles, the schemas of tools  *)
(* and the program's instructions about them.  The fixed sentences and     *)
(* wrappers are left out, and so are messages that are no JSON objects.    *)
(***************************************************************************)
EXTENDS Integers, Sequences, FiniteSets, SequencesExt

CONSTANTS Chats,        \* the messages of requests of the Chat API
          Inputs,       \* the input items of requests of the Responses API
          ToolSets,     \* the named tools of a request
          ToolChoices,      \* tool_choice: [mode, name, allowed]
          Triggers      \* history_split.trigger_after_turns

VARIABLES surface, said, tools, choice, trigger,   \* the request
          stage,
          messages, historyText, finalPrompt,      \* the StandardRequest
          file                                     \* CONTEXT.txt

request == <<surface, said, tools, choice, trigger>>
vars == <<request, stage, messages, historyText, finalPrompt, file>>

(* A piece is [kind, of]: the text, thought or call number n, a marker, ... *)
Piece(kind, n) == [kind |-> kind, of |-> n]
Format == Piece("format", 0)
Must   == Piece("must", 0)
Null   == Piece("null", 0)
Marker == [system |-> Piece("System", 0), user |-> Piece("User", 0),
           assistant |-> Piece("Assistant", 0), tool |-> Piece("Tool", 0)]
Markers == {Marker[r] : r \in DOMAIN Marker}
Schemas(names) == SetToSeq({Piece("schema", t) : t \in names})

OfKind(pieces, kind) == SelectSeq(pieces, LAMBDA p : p.kind = kind)

(* Content is [form, pieces]: nil, a string, an array of parts or another value *)
Nil == [form |-> "nil", pieces |-> <<>>]
Str(pieces) == [form |-> "string", pieces |-> pieces]

Said(role, content) == [role |-> role, content |-> content, reasoning |-> <<>>, calls |-> <<>>]

--------------------------------------------------------------------------------
(* Of an array its text parts count; another value is written as JSON *)
NormalizeContent(c) == IF c.form = "parts" THEN OfKind(c.pieces, "text") ELSE c.pieces

(* extractMessageContent: a value that is neither string nor array counts nothing *)
extractMessageContent(m) == IF m.content.form = "object" THEN <<>> ELSE NormalizeContent(m.content)

(* reasoning_content, or else the thinking parts of the content *)
Reasoning(m) == IF m.reasoning # <<>> THEN m.reasoning
                ELSE IF m.content.form = "parts" THEN OfKind(m.content.pieces, "thought") ELSE <<>>

(* Calls without a name are dropped *)
FormatToolCallsForPrompt(calls) == OfKind(calls, "call")

buildAssistantContentForPrompt(m) ==
  Reasoning(m) \o NormalizeContent(m.content) \o FormatToolCallsForPrompt(m.calls)

buildToolContentForPrompt(m) ==
  IF NormalizeContent(m.content) = <<>> THEN <<Null>> ELSE NormalizeContent(m.content)

normalizeOpenAIRoleForPrompt(role) == IF role = "developer" THEN "system" ELSE role

NormalizeOpenAIMessagesForPrompt(ms) ==
  LET block(m) ==
        CASE m.role = "assistant" ->
               IF buildAssistantContentForPrompt(m) = <<>> THEN <<>>
               ELSE <<[role |-> "assistant", text |-> buildAssistantContentForPrompt(m)]>>
          [] m.role \in {"tool", "function"} ->
               <<[role |-> "tool", text |-> buildToolContentForPrompt(m)]>>
          [] OTHER ->
               <<[role |-> normalizeOpenAIRoleForPrompt(m.role), text |-> NormalizeContent(m.content)]>>
  IN FlattenSeq([i \in DOMAIN ms |-> block(ms[i])])

(* Neighbours of one role become one block; each is written behind its marker *)
MessagesPrepare(blocks) ==
  LET merge(out, b) ==
        IF out # <<>> /\ Last(out).role = b.role
        THEN [out EXCEPT ![Len(out)].text = @ \o b.text]
        ELSE Append(out, b)
      merged == FoldLeft(merge, <<>>, blocks)
      written(b) == IF b.role \in {"tool", "system"} /\ b.text = <<>> THEN <<>>
                    ELSE <<Marker[b.role]>> \o b.text
  IN IF blocks = <<>> THEN <<>>
     ELSE FlattenSeq([i \in DOMAIN merged |-> written(merged[i])])
          \o (IF Last(merged).role = "assistant" THEN <<>> ELSE <<Marker.assistant>>)

--------------------------------------------------------------------------------
(* parseToolChoicePolicy: what is refused, and what the others stand for *)
Refused(c, names) ==
  \/ ~(c.allowed \subseteq names)
  \/ c.mode \in {"required", "forced"} /\ names = {}
  \/ c.mode = "forced" /\ c.name \notin names

Policy(c, names) ==
  [mode    |-> c.mode,
   allowed |-> CASE c.mode = "none"   -> {}
                 [] c.mode = "forced" -> {c.name}
                 [] OTHER             -> IF c.allowed = {} THEN names ELSE c.allowed]

DefaultPolicy == [mode |-> "auto", allowed |-> {}]

(* The schemas and what the policy demands, behind the first system message *)
injectToolPrompt(blocks, names, policy) ==
  LET listed == IF policy.allowed = {} THEN names ELSE names \cap policy.allowed
      toolPrompt == Schemas(listed) \o <<Format>>
                    \o (IF policy.mode \in {"required", "forced"} THEN <<Must>> ELSE <<>>)
      first == SelectInSeq(blocks, LAMBDA b : b.role = "system")
  IN IF policy.mode = "none" \/ listed = {} THEN blocks
     ELSE IF first = 0 THEN <<[role |-> "system", text |-> toolPrompt]>> \o blocks
     ELSE [blocks EXCEPT ![first].text = @ \o toolPrompt]

BuildOpenAIPrompt(ms, names, policy) ==
  MessagesPrepare(injectToolPrompt(NormalizeOpenAIMessagesForPrompt(ms), names, policy))

(* InjectFormatInstructions: only a string is found in the system message it writes to *)
InjectFormatInstructions(ms, names) ==
  LET first == SelectInSeq(ms, LAMBDA m : m.role = "system")
      old == IF first # 0 /\ ms[first].content.form = "string" THEN ms[first].content.pieces ELSE <<>>
  IN IF names = {} THEN ms
     ELSE IF first = 0 THEN <<Said("system", Str(<<Format>>))>> \o ms
     ELSE [ms EXCEPT ![first].content = Str(old \o <<Format>>)]

--------------------------------------------------------------------------------
(* A message of the Responses API: an assistant's needs something to say, another one content *)
Speaking(m) ==
  IF m.role = "assistant"
  THEN m.calls # <<>> \/ m.content # Nil \/ m.reasoning # <<>>
  ELSE m.content # Nil

(* normalizeResponsesInputItem: the message an item stands for, or none *)
normalizeResponsesInputItem(x) ==
  LET as(role) == [Said(role, x.content) EXCEPT !.reasoning = x.reasoning, !.calls = x.calls]
  IN CASE x.role # "" ->
            IF Speaking(x) THEN <<as(normalizeOpenAIRoleForPrompt(x.role))>> ELSE <<>>
       [] x.role = "" /\ x.type = "message" ->
            IF x.content = Nil THEN <<>> ELSE <<Said("user", x.content)>>
       [] x.role = "" /\ x.type = "function_call_output" ->
            <<Said("tool", IF x.content = Nil THEN Str(<<>>) ELSE x.content)>>
       [] x.role = "" /\ x.type = "function_call" /\ FormatToolCallsForPrompt(x.calls) # <<>> ->
            <<[Said("assistant", Nil) EXCEPT !.calls = x.calls]>>
       [] OTHER ->
            IF x.type = "string" \/ NormalizeContent(x.content) = <<>> THEN <<>>
            ELSE <<Said("user", x.content)>>

(* Strings, and items that stand for no message, are gathered as the text of a user *)
Dump(x) == x.content.pieces \o x.reasoning \o x.calls

normalizeResponsesInputArray_Late(items) ==
  LET step(acc, x) ==
        LET msg == normalizeResponsesInputItem(x)
        IN IF msg = <<>> THEN [acc EXCEPT !.parts = @ \o Dump(x)]
           ELSE [acc EXCEPT !.out = @ \o msg]
      all == FoldLeft(step, [out |-> <<>>, parts |-> <<>>], items)
  IN all.out \o (IF all.parts = <<>> THEN <<>> ELSE <<Said("user", Str(all.parts))>>)
normalizeResponsesInputArray(items) ==
  LET flushed(acc) == acc.out \o (IF acc.parts = <<>> THEN <<>> ELSE <<Said("user", Str(acc.parts))>>)
      step(acc, x) ==
        LET msg == normalizeResponsesInputItem(x)
        IN IF msg = <<>> THEN [acc EXCEPT !.parts = @ \o Dump(x)]
           ELSE [out |-> flushed(acc) \o msg, parts |-> <<>>]
  IN flushed(FoldLeft(step, [out |-> <<>>, parts |-> <<>>], items))

--------------------------------------------------------------------------------
Init ==
  /\ \/ surface = "chat" /\ said \in Chats /\ choice = [mode |-> "auto", name |-> 0, allowed |-> {}]
     \/ surface = "responses" /\ said \in Inputs /\ choice \in ToolChoices
  /\ tools \in ToolSets /\ trigger \in Triggers
  /\ stage = "received"
  /\ messages = <<>> /\ historyText = <<>> /\ finalPrompt = <<>> /\ file = <<>>

(* NormalizeOpenAIChatRequest and NormalizeOpenAIResponsesRequest *)
Normalize ==
  /\ stage = "received"
  /\ LET ms == IF surface = "chat" THEN said ELSE normalizeResponsesInputArray(said)
         policy == IF surface = "chat" THEN DefaultPolicy ELSE Policy(choice, tools)
     IN IF ms = <<>> \/ Refused(choice, tools)
        THEN stage' = "refused" /\ UNCHANGED <<messages, finalPrompt>>
        ELSE /\ stage' = "normalized"
             /\ messages' = ms
             /\ finalPrompt' = BuildOpenAIPrompt(ms, tools, policy)
  /\ UNCHANGED <<request, historyText, file>>

(* SplitOpenAIHistoryMessages: the system's messages stay with the last user's turn *)
Users(ms) == {i \in DOMAIN ms : ms[i].role = "user"}
LastUser(ms) == CHOOSE i \in Users(ms) : \A j \in Users(ms) : j <= i

Live(ms, i) == ms[i].role \in {"system", "developer"} \/ i >= LastUser(ms)

Part(ms, live) ==
  FlattenSeq([i \in DOMAIN ms |-> IF Live(ms, i) = live THEN <<ms[i]>> ELSE <<>>])

(* history.Service.Apply *)
SplitHistory ==
  /\ stage = "normalized"
  /\ IF Cardinality(Users(messages)) <= trigger
     THEN UNCHANGED <<messages, historyText, finalPrompt>>
     ELSE LET ms == InjectFormatInstructions(Part(messages, TRUE), tools)
          IN /\ messages' = ms
             /\ historyText' = MessagesPrepare(NormalizeOpenAIMessagesForPrompt(Part(messages, FALSE)))
             /\ finalPrompt' = BuildOpenAIPrompt(ms, {}, DefaultPolicy)
  /\ stage' = "split"
  /\ UNCHANGED <<request, file>>

(* CurrentInputSplitService.Apply: the transcript, the tools and the text of all messages *)
UploadContext ==
  /\ stage = "split"
  /\ LET current == FlattenSeq([i \in DOMAIN messages |-> extractMessageContent(messages[i])])
         body == historyText
                 \o (IF tools = {} THEN <<>> ELSE Schemas(tools) \o <<Format>>)
                 \o current
         ms == InjectFormatInstructions(<<Said("user", Str(<<Piece("reference", 0)>>))>>, tools)
     IN IF body = <<>>
        THEN UNCHANGED <<messages, historyText, finalPrompt, file>>
        ELSE /\ file' = body
             /\ messages' = ms
             /\ historyText' = <<>>
             /\ finalPrompt' = BuildOpenAIPrompt(ms, {}, DefaultPolicy)
  /\ stage' = "sent"
  /\ UNCHANGED request

Next == Normalize \/ SplitHistory \/ UploadContext

Spec == Init /\ [][Next]_vars

--------------------------------------------------------------------------------
(* Who says what the request holds *)
Speaker(x) ==
  CASE x.role # "" -> IF x.role = "function" THEN "tool" ELSE normalizeOpenAIRoleForPrompt(x.role)
    [] x.role = "" /\ x.type = "function_call_output" -> "tool"
    [] x.role = "" /\ x.type \in {"function_call", "reasoning"} -> "assistant"
    [] OTHER -> "user"

(* What the model is given, as it reads it *)
Sent == file \o finalPrompt

(* The contents the code loses: see SystemPromptKept and ObjectsKept *)
Spared == {i \in DOMAIN said : \/ said[i].content.form = "object"
                               \/ Speaker(said[i]) = "system" /\ said[i].content.form = "parts"}

Texts(speakers) ==
  FlattenSeq([i \in DOMAIN said |->
    IF i \notin Spared /\ Speaker(said[i]) \in speakers
    THEN OfKind(said[i].content.pieces, "text") ELSE <<>>])

InOrder(texts) == SelectSeq(Sent, LAMBDA p : p \in ToSet(texts)) = texts

(* What a transcript tells: each piece with the role whose marker it is behind *)
Told(s) ==
  LET hear(acc, p) == IF p \in Markers THEN [acc EXCEPT !.as = p]
                      ELSE [acc EXCEPT !.out = Append(@, [as |-> acc.as, piece |-> p])]
  IN FoldLeft(hear, [as |-> Null, out |-> <<>>], s).out

(* Strings of an input that follow each other are one turn *)
Joined(i) == surface = "responses" /\ i > 1 /\ said[i].type = "string" /\ said[i - 1].type = "string"

Turns == {i \in DOMAIN said : Speaker(said[i]) = "user" /\ ~Joined(i)}
Older == {i \in DOMAIN said : Speaker(said[i]) # "system" /\ \E j \in Turns : i < j}

(* The turns before the last user's, told by those who took them *)
History ==
  FlattenSeq([i \in DOMAIN said |->
    IF i \notin Older THEN <<>>
    ELSE LET x == said[i]
             content == IF Speaker(x) = "tool" THEN buildToolContentForPrompt(x)
                        ELSE NormalizeContent(x.content)
             all == Reasoning(x) \o content \o FormatToolCallsForPrompt(x.calls)
         IN [k \in DOMAIN all |-> [as |-> Marker[Speaker(x)], piece |-> all[k]]]])

(* An item the program cannot read is written into a user's message *)
Readable == \A i \in DOMAIN said :
              surface = "chat" \/ said[i].type = "string" \/ normalizeResponsesInputItem(said[i]) # <<>>

(***************************************************************************)
(* Normalising, merging, splitting and uploading lose and repeat nothing:  *)
(* every text of the conversation is given to the model once, in the order *)
(* it was said; and the older turns, with their reasoning, their calls and *)
(* their results, stand in the file behind the markers of those who spoke. *)
(***************************************************************************)
SaidReachesModel ==
  stage = "sent" =>
    /\ InOrder(Texts({"system"})) /\ InOrder(Texts({"user", "assistant", "tool"}))
    /\ (Readable /\ Cardinality(Turns) > trigger) =>
         IsPrefix(History, Told(file))

(* docs/prompt-compatibility.md:185: the calls of an assistant are turned     *)
(* into text the prompt shows; :210 of an empty result a "null" keeps the     *)
(* turn.  Fails: behind the last user's message neither is uploaded.          *)
CallsReachModel ==
  stage = "sent" =>
    \A i \in DOMAIN said : \A k \in DOMAIN said[i].calls :
      said[i].calls[k].kind = "call" => said[i].calls[k] \in ToSet(Sent)

(* docs/prompt-compatibility.md:218: the text of the system's messages gets   *)
(* into the prompt.  Fails: InjectFormatInstructions replaces a content of parts.        *)
SystemPromptKept ==
  stage = "sent" =>
    \A i \in DOMAIN said :
      Speaker(said[i]) = "system" => ToSet(OfKind(said[i].content.pieces, "text")) \subseteq ToSet(Sent)

(* current_input_split.go:63: the file has the content of all messages.       *)
(* Fails: of a content that is a JSON object nothing is uploaded.             *)
ObjectsKept ==
  stage = "sent" =>
    \A i \in DOMAIN said : ToSet(OfKind(said[i].content.pieces, "text")) \subseteq ToSet(Sent)
===============================================================================
