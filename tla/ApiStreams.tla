---------------------------- MODULE ApiStreams ----------------------------
(***************************************************************************)
(* One answer as the clients of the other APIs get it: the Responses API   *)
(* streamed and whole, the native Claude and Gemini streams, and the       *)
(* writer that translates the chat stream for Claude and Gemini clients.   *)
(*                                                                         *)
(* An answer is a list of pieces, as the parser (AnswerParser) and the     *)
(* sieve (ToolSieve) deliver them; a piece is known by its position.       *)
(*   "think"  thinking, which may contain complete tool calls              *)
(*   "text"   text                                                         *)
(*   "block"  a complete block of tool calls                               *)
(*   "cut"    a block without its end, which the repair completes          *)
(* A call is the path it reads, or None if it is not a call of Read.       *)
(***************************************************************************)
EXTENDS Integers, FiniteSets, Sequences, SequencesExt, Subsequences

CONSTANTS
  MaxPieces,
  MaxCalls,    \* calls of a block
  Paths,       \* paths that calls of Read have
  MaxPings,    \* keep-alives
  None

VARIABLES
  ask,     \* the request: thinking, tools and tool_choice "required"
  said,    \* the answer so far
  ended,   \* how it ended: "no", "end", "error", "broken", "gone" or "refused"
  res,     \* responsesStreamRuntime and what it has sent
  cla,     \* claudeStreamRuntime
  gem,     \* geminiStreamRuntime
  proxy,   \* OpenAIStreamTranslatorWriter
  pings

vars == <<ask, said, ended, res, cla, gem, proxy, pings>>

----------------------------------------------------------------------------
(* The answer as text, and the calls in it: a call has a number, one of the *)
(* MaxCalls that each piece has                                             *)

Pieces(kinds) == {j \in DOMAIN said : said[j].k \in kinds}

Written == Pieces({"text", "block", "cut"})

PieceOf(n) == 1 + ((n - 1) \div MaxCalls)

PlaceOf(n) == 1 + ((n - 1) % MaxCalls)

PathOf(n) == said[PieceOf(n)].calls[PlaceOf(n)]

Calls(js) ==
  {n \in 1 .. Len(said) * MaxCalls :
     PieceOf(n) \in js /\ PlaceOf(n) \in DOMAIN said[PieceOf(n)].calls}

(* filterToolCallsDetailed: a path is read once *)
Deduped(cs) ==
  {n \in cs : PathOf(n) # None => \A m \in cs : PathOf(m) = PathOf(n) => n <= m}

(* parseToolCallsDetailedXMLOnly of the text, repaired if nothing is found *)
Detected ==
  LET blocks == Calls(Pieces({"block"}))
  IN  Deduped(IF blocks # {} THEN blocks ELSE Calls(Pieces({"cut"})))

Thought == IF ask.think THEN Deduped(Calls(Pieces({"think"}))) ELSE {}

----------------------------------------------------------------------------
(* The Responses API; an item is known by its output_index *)

Event(t, out) == [t |-> t, out |-> out, of |-> <<>>]
Say(s, e)     == [s EXCEPT !.sent = Append(@, e)]

AddMessage(s) ==
  IF s.message >= 0 THEN s
  ELSE Say(Say([s EXCEPT !.message = s.next, !.next = @ + 1],
               Event("item added", s.next)), Event("part added", s.next))

TextDelta_Unseen(s, j) ==
  LET a == AddMessage(s)
  IN  Say(a, [Event("text", a.message) EXCEPT !.of = <<j>>])

(* emitTextDelta *)
TextDelta(s, j) ==
  LET a == AddMessage(s)
  IN  Say([a EXCEPT !.shown = Append(@, j)], [Event("text", a.message) EXCEPT !.of = <<j>>])

CloseMessage(s) ==
  IF s.message < 0 THEN s
  ELSE Say(Say(Say(s, [Event("text done", s.message) EXCEPT !.of = s.shown]),
               Event("part done", s.message)), Event("item done", s.message))

(* ensureFunctionOutputIndex, for the calls that have none yet of a block of n *)
Allocated(s, n) ==
  IF n <= Len(s.calls) THEN s
  ELSE [s EXCEPT !.calls = @ \o [i \in 1 .. n - Len(@) |-> s.next + i - 1],
                 !.next = @ + n - Len(s.calls)]

(* A call's item is added, has its arguments and is done *)
CallEvents(out, n) ==
  <<Event("item added", out), [Event("call", out) EXCEPT !.of = <<n>>], Event("item done", out)>>

(* emitFunctionCallDoneEvents; a call that has an index is done *)
CallsDone(s, cs) ==
  LET a == Allocated(s, Cardinality(cs))
      had == Len(s.calls)
  IN  IF a = s THEN s
      ELSE [a EXCEPT !.called = TRUE,
                     !.sent = @ \o Joined([i \in 1 .. Len(a.calls) - had |->
                                             CallEvents(a.calls[had + i], InOrder(cs)[had + i])])]

ResetCalls_All(s) == [s EXCEPT !.calls = <<>>, !.next = 0]

(* resetStreamToolCallState *)
ResetCalls(s) == [s EXCEPT !.calls = <<>>]

(* The sieve gives the calls of a block before the text that follows it *)
Release(s) ==
  IF s.pending = {} THEN s
  ELSE [ResetCalls(CallsDone(s, Deduped(Calls(s.pending)))) EXCEPT !.pending = {}]

(* onParsed *)
ResponsesPiece(s, p, j) ==
  CASE p.k = "think" -> IF ask.think THEN Say(s, [Event("thinking", -1) EXCEPT !.of = <<j>>]) ELSE s
    [] p.k = "text" \/ (p.k # "think" /\ ~ask.tools) -> TextDelta(Release(s), j)
    [] p.k = "block" /\ ask.tools -> [Release(s) EXCEPT !.pending = {j}]
    [] p.k = "cut" /\ ask.tools -> Release(s)

Fail(s) == Say(Say(s, Event("failed", -1)), Event("DONE", -1))

(* buildCompletedResponseObject: the items and where they stand *)
Completed(s, cs) ==
  LET a == Allocated(s, Cardinality(cs))
      message == IF s.message >= 0 THEN {s.message} ELSE {}
  IN  InOrder(message \cup {a.calls[i] : i \in 1 .. Cardinality(cs)})

FinalCalls_Again(s, cs) == CallsDone(s, cs)

(* The calls that only the whole text shows *)
FinalCalls(s, cs) == IF s.called THEN s ELSE CallsDone(s, cs)

(* finalize; the error of a broken body is ignored *)
ResponsesEnd(s) ==
  LET cut == ask.tools /\ Pieces({"cut"}) # {}
      flushed == IF cut THEN TextDelta(Release(s), Len(said)) ELSE Release(s)
      closed == CloseMessage(FinalCalls(flushed, Detected))
  IN  IF Detected = {} /\ (ask.required \/ Written = {}) THEN Fail(closed)
      ELSE Say(Say(closed, [Event("completed", -1) EXCEPT !.of = Completed(closed, Detected)]),
               Event("DONE", -1))

(* BuildResponseObject, of the answer that is not streamed *)
Whole ==
  IF Detected = {} /\ (ask.required \/ Written = {}) THEN [failed |-> TRUE, text |-> {}, calls |-> {}]
  ELSE [failed |-> FALSE, text |-> IF Detected = {} THEN Written ELSE {}, calls |-> Detected]

----------------------------------------------------------------------------
(* The native Claude stream: content blocks with consecutive indices *)

Block(t, i) == [t |-> t, at |-> i, of |-> <<>>]

CloseBlock(s, kind) ==
  IF s[kind] < 0 THEN s
  ELSE Say([s EXCEPT ![kind] = -1], Block("stop", s[kind]))

OpenBlock(s, kind) ==
  IF s[kind] >= 0 THEN s
  ELSE Say([s EXCEPT ![kind] = s.next, !.next = @ + 1], Block("start", s.next))

BlockDelta(s, kind, x) == Say(s, [Block(kind, s[kind]) EXCEPT !.of = x])

ClaudePiece_StaysOpen(s, p, j) ==
  LET kind == IF p.k = "think" THEN "thinking" ELSE "text"
  IN  IF IF p.k = "think" THEN ask.think ELSE ~ask.tools
      THEN BlockDelta(OpenBlock(s, kind), kind, <<j>>) ELSE s

(* onParsed: with tools the text waits for the end *)
ClaudePiece(s, p, j) ==
  CASE p.k = "think" ->
         IF ask.think
         THEN BlockDelta(OpenBlock(CloseBlock(s, "text"), "thinking"), "thinking", <<j>>) ELSE s
    [] p.k # "think" /\ ~ask.tools ->
         BlockDelta(OpenBlock(CloseBlock(s, "thinking"), "text"), "text", <<j>>)
    [] OTHER -> s

(* A block that starts and stops at once *)
WholeBlock(kind, i, x) ==
  <<Block("start", i), [Block(kind, i) EXCEPT !.of = x], Block("stop", i)>>

(* The calls of the text, or of the thinking if there is no text *)
ClaudeCalls == IF Detected = {} /\ Written = {} THEN Thought ELSE Detected

(* finalize *)
ClaudeEnd(s) ==
  LET closed == CloseBlock(CloseBlock(s, "thinking"), "text")
      calls == InOrder(ClaudeCalls)
      rest == IF ~ask.tools THEN <<>>
              ELSE IF ClaudeCalls # {}
              THEN [i \in DOMAIN calls |-> WholeBlock("call", closed.next + i - 1, <<calls[i]>>)]
              ELSE IF Written # {} THEN <<WholeBlock("text", closed.next, InOrder(Written))>>
              ELSE <<>>
  IN  Say(Say([closed EXCEPT !.sent = @ \o Joined(rest), !.next = @ + Len(rest)],
              Block("message_delta", -1)), Block("message_stop", -1))

----------------------------------------------------------------------------
(* The native Gemini stream *)

GeminiPiece(s, p, j) ==
  IF p.k # "think" /\ ~ask.tools THEN Append(s, [Block("text", 0) EXCEPT !.of = <<j>>]) ELSE s

(* buildGeminiPartsFromFinal *)
GeminiParts ==
  LET calls == IF Detected # {} THEN Detected ELSE Thought
      text == IF Written # {} THEN Written ELSE IF ask.think THEN Pieces({"think"}) ELSE {}
      parts(kind, ns) == [i \in 1 .. Cardinality(ns) |-> [Block(kind, 0) EXCEPT !.of = <<InOrder(ns)[i]>>]]
  IN  IF calls # {} THEN parts("call", calls) ELSE parts("text", text)

GeminiEnd(s) == Append(IF ask.tools THEN s \o GeminiParts ELSE s, Block("STOP", -1))

----------------------------------------------------------------------------
(* The writer that translates the lines of the chat stream                 *)

(* The texts of the chat stream; a piece of the answer is its position *)
Newline == 0
Data    == -1
Comment == -2
Stop    == -3
Failed  == -4

(* A line of the chat stream is written in three pieces *)
ChatLine(x) == <<<<Data>>, <<x>>, <<Newline, Newline>>>>

(* readOneLine, until there is none; a blank line is left out *)
Drained(w) ==
  LET ends  == InOrder({k \in DOMAIN w.buf : w.buf[k] = Newline})
      start(i) == IF i = 1 THEN 1 ELSE ends[i - 1] + 1
      lines == [i \in DOMAIN ends |-> SubSeq(w.buf, start(i), ends[i] - 1)]
  IN  IF ends = <<>> THEN w
      ELSE [w EXCEPT !.buf = SubSeq(@, ends[Len(ends)] + 1, Len(@)),
                     !.out = @ \o Where(lines, LAMBDA l : l # <<>>)]

Write_Unbuffered(w, p) ==
  [Drained([w EXCEPT !.buf = p, !.status = IF @ = 0 THEN 200 ELSE @]) EXCEPT !.buf = <<>>]

(* Write: an error goes to the client as it is *)
Write(w, p) ==
  LET sent == [w EXCEPT !.status = IF @ = 0 THEN 200 ELSE @]
  IN  IF sent.status # 200 THEN [sent EXCEPT !.out = Append(@, p)]
      ELSE Drained([sent EXCEPT !.buf = @ \o p])

WriteLine(w, x) ==
  LET line == ChatLine(x)
  IN  Write(Write(Write(w, line[1]), line[2]), line[3])

WriteHeader(w, status) == IF w.status # 0 THEN w ELSE [w EXCEPT !.status = status]

----------------------------------------------------------------------------

Init ==
  /\ ask \in {a \in [think : BOOLEAN, tools : BOOLEAN, required : BOOLEAN] : a.required => a.tools}
  /\ said = <<>> /\ ended = "no"
  /\ res = [sent |-> <<Event("created", -1)>>, message |-> -1, calls |-> <<>>,
            next |-> 0, called |-> FALSE, shown |-> <<>>, pending |-> {}]
  /\ cla = [sent |-> <<Block("message_start", -1)>>, next |-> 0, thinking |-> -1, text |-> -1]
  /\ gem = <<>>
  /\ proxy = [status |-> 0, buf |-> <<>>, out |-> <<>>]
  /\ pings = 0

Open == ended = "no" /\ (said # <<>> => said[Len(said)].k # "cut")

Texts == [k : {"think", "block", "cut"}, calls : BoundedSeq(Paths \cup {None}, MaxCalls)]

Kinds == {p \in Texts : p.k # "think" => p.calls # <<>>} \cup {[k |-> "text", calls |-> <<>>]}

(* The next piece of the answer *)
Piece ==
  /\ Open /\ Len(said) < MaxPieces
  /\ \E p \in Kinds :
       LET j == Len(said) + 1
       IN  /\ said' = Append(said, p)
           /\ res' = ResponsesPiece(res, p, j)
           /\ cla' = ClaudePiece(cla, p, j)
           /\ gem' = GeminiPiece(gem, p, j)
           /\ proxy' = WriteLine(proxy, j)
  /\ UNCHANGED <<ask, ended, pings>>

(* A keep-alive: a comment of the chat stream, a ping for Claude *)
KeepAlive ==
  /\ Open /\ pings < MaxPings
  /\ pings' = pings + 1
  /\ cla' = Say(cla, Block("ping", -1))
  /\ proxy' = Write(proxy, <<Comment, Newline, Newline>>)
  /\ UNCHANGED <<ask, said, ended, res, gem>>

(* The end of the answer, an error of DeepSeek's, or a body that broke off *)
Finish ==
  /\ ended = "no"
  /\ \E how \in {"end", "error", "broken"} :
       /\ ended' = how
       /\ cla' = IF how = "end" THEN ClaudeEnd(cla) ELSE Say(cla, Block("error", -1))
  /\ res' = ResponsesEnd(res)
  /\ gem' = GeminiEnd(gem)
  /\ proxy' = WriteLine(proxy, Stop)
  /\ UNCHANGED <<ask, said, pings>>

(* The client is gone: nothing is finalized *)
Gone ==
  /\ ended = "no" /\ ended' = "gone"
  /\ UNCHANGED <<ask, said, res, cla, gem, proxy, pings>>

(* The request fails before the stream *)
Refused ==
  /\ ended = "no" /\ said = <<>> /\ pings = 0
  /\ ended' = "refused"
  /\ proxy' = Write(WriteHeader(proxy, 429), <<Failed, Newline>>)
  /\ res' = [res EXCEPT !.sent = <<>>] /\ cla' = [cla EXCEPT !.sent = <<>>]
  /\ UNCHANGED <<ask, said, gem, pings>>

Next == Piece \/ KeepAlive \/ Finish \/ Gone \/ Refused

Spec == Init /\ [][Next]_vars

----------------------------------------------------------------------------
(* Properties *)

Finalized == ended \in {"end", "error", "broken"}

(***************************************************************************)
(* The events of a response: an output_index belongs to one item, which is *)
(* added, then used, then done, once; when the response is completed or    *)
(* has failed, every item is done, and [DONE] is the last thing sent.      *)
(***************************************************************************)
ItemsWellFormed ==
  LET s == res.sent
      Of(k) == {j \in DOMAIN s : s[j].out = s[k].out}
  IN  /\ \A k \in DOMAIN s : s[k].out # -1 =>
           /\ \E a \in Of(k) : s[a].t = "item added"
           /\ Finalized => \E d \in Of(k) : s[d].t = "item done"
           /\ \A j \in Of(k) : /\ s[j].t = "item added" => j <= k
                               /\ s[j].t = "item done" => k <= j
      /\ \A k \in DOMAIN s : s[k].t \in {"completed", "failed"} => Finalized /\ k = Len(s) - 1
      /\ Finalized => /\ Len(s) > 1 /\ s[Len(s) - 1].t \in {"completed", "failed"}
                      /\ s[Len(s)].t = "DONE"

(***************************************************************************)
(* The content blocks of the Claude stream: numbered from zero without     *)
(* gaps, one at a time, deltas only in the open one, and none open when    *)
(* the message stops.                                                      *)
(***************************************************************************)
BlocksWellFormed ==
  LET s == cla.sent
      NoBlock(ks) == \A k \in ks : s[k].at < 0
  IN  /\ \A k \in DOMAIN s : s[k].at >= 0 =>
           /\ NoBlock(1 .. k - 1) => s[k].t = "start" /\ s[k].at = 0
           /\ \A j \in 1 .. k - 1 : s[j].at >= 0 /\ NoBlock(j + 1 .. k - 1) =>
                IF s[k].t = "start" THEN s[j].t = "stop" /\ s[k].at = s[j].at + 1
                ELSE s[j].t # "stop" /\ s[k].at = s[j].at
      /\ ended = "end" =>
           \A k \in DOMAIN s : s[k].at >= 0 /\ NoBlock(k + 1 .. Len(s)) => s[k].t = "stop"

(* The pieces, or calls, in the events of a type *)
Told(s, t) == UNION {Range(s[k].of) : k \in {k \in DOMAIN s : s[k].t = t}}

Ascends(s, t) ==
  \A k, l \in DOMAIN s : s[k].t = t /\ s[l].t = t =>
    \A a \in DOMAIN s[k].of, b \in DOMAIN s[l].of :
      k < l \/ (k = l /\ a < b) => s[k].of[a] < s[l].of[b]

(* The events of a type have each of them once, in the order of the answer *)
Tells(s, t, them) == Told(s, t) = them /\ Ascends(s, t)

(***************************************************************************)
(* Every tool call of the answer is delivered once by each API, in order;  *)
(* the streamed response may read a path again in another block, the       *)
(* others never.  Native Claude and Gemini deliver calls only if tools     *)
(* were asked for.                                                         *)
(***************************************************************************)
CallsOnce ==
  /\ Ascends(res.sent, "call") /\ (Finalized => Detected \subseteq Told(res.sent, "call"))
  /\ ended = "end" /\ ask.tools /\ Detected # {} => Tells(cla.sent, "call", Detected)
  /\ Finalized /\ ask.tools /\ Detected # {} => Tells(gem, "call", Detected)

(***************************************************************************)
(* The text is delivered once, in order and to the end, whether it comes   *)
(* while it is written or is held back for the tools; native Claude and    *)
(* Gemini leave it out if there are calls, Gemini even if they are in the  *)
(* thinking; it gives the thinking if there is nothing else.               *)
(***************************************************************************)
TextOnce ==
  LET shown == IF ask.tools THEN Pieces({"text", "cut"}) ELSE Written
      kept  == IF ask.tools /\ Detected # {} THEN {} ELSE Written
      given == IF ask.tools /\ (Detected # {} \/ Thought # {}) THEN {}
               ELSE IF ask.tools /\ ask.think /\ Written = {} THEN Pieces({"think"}) ELSE Written
  IN  Finalized =>
        /\ Tells(res.sent, "text", shown) /\ Tells(res.sent, "text done", shown)
        /\ Detected = {} /\ ~Whole.failed => Whole.text = shown
        /\ ended = "end" => Tells(cla.sent, "text", kept)
        /\ Tells(gem, "text", given)

(* The chat stream's lines reach the translator whole, once and in order *)
LinesTranslated ==
  LET data == Where(proxy.out, LAMBDA l : l[1] = Data)
      lines == [j \in DOMAIN said |-> <<Data, j>>]
  IN  IF ended = "refused" THEN proxy.out = <<<<Failed, Newline>>>>
      ELSE data = IF Finalized THEN Append(lines, <<Data, Stop>>) ELSE lines

(***************************************************************************)
(* The completed response, which is also what GET /v1/responses returns,   *)
(* lists the items that were streamed.                                     *)
(***************************************************************************)
CompletedListsStreamed ==
  \A k \in DOMAIN res.sent : res.sent[k].t = "completed" =>
    Range(res.sent[k].of) = {res.sent[j].out : j \in {j \in DOMAIN res.sent : res.sent[j].t = "item added"}}
============================================================================
