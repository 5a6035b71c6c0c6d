--------------------------- MODULE StreamPipeline ---------------------------
(***************************************************************************)
(* One streamed chat response, from DeepSeek's answer to the client: three *)
(* goroutines and the handler that owns them.                              *)
(*                                                                         *)
(*   pump      pumpAutoContinue: copies the lines of the answer into an    *)
(*             io.Pipe and asks for a continuation when the answer ends    *)
(*             unfinished                                                  *)
(*   parser    StartParsedLinePump: reads the pipe, parses a line, sends   *)
(*             it down a buffered channel                                  *)
(*   consumer  ConsumeSSE with the hooks of handleStream: turns lines into *)
(*             chunks, ends the response, records it in the history        *)
(*                                                                         *)
(* Then the handler closes the body and returns, which cancels the request *)
(* context; the client may have cancelled it long before.  DeepSeek may    *)
(* say anything, stop in the middle, or stay silent for ever.              *)
(*                                                                         *)
(* A line is its kind.  Of the text only what the end of the response      *)
(* depends on is kept: whether there is any, and what the tool sieve       *)
(* (internal/toolstream) still holds back.                                 *)
(***************************************************************************)
EXTENDS Naturals, Sequences

CONSTANTS
  MaxLines,   \* bound: lines of one answer or continuation
  MaxRounds,  \* continuations of one answer (code: 8)
  Buffer,     \* capacity of the channel of parsed lines (code: 128)
  MaxSilent,  \* keep-alives without any content before giving up (code: 10)
  MaxIdle,    \* ticks after the last content before giving up (code: 6)
  Tools       \* whether the request has tools, so that the sieve is in use

ASSUME BoundsAssumption ==
  /\ {MaxLines, MaxRounds} \subseteq Nat
  /\ {Buffer, MaxSilent, MaxIdle} \subseteq Nat \ {0}
  /\ Tools \in BOOLEAN

VARIABLES
  ctx,       \* whether the request context is cancelled
  pump,      \* the auto-continue goroutine
  body,      \* the read end of the pipe: "open", or "closed" by the handler
  parser,    \* the line-pump goroutine
  lines,     \* the channel of parsed lines
  consumer,  \* the loop of ConsumeSSE
  rt,        \* chatStreamRuntime
  out,       \* what the client has been sent
  history    \* the outcomes recorded in the chat history

vars == <<ctx, pump, body, parser, lines, consumer, rt, out, history>>

(***************************************************************************)
(* "unfinished": a WIP, INCOMPLETE or auto_continue status; "finished": a  *)
(* FINISHED status; "quasi": the FINISHED of a BATCH, which the parser     *)
(* sees and the pump does not; "done": the [DONE] sentinel.                *)
(***************************************************************************)
Lines == {"text", "thinking", "meta", "unfinished", "finished", "quasi",
          "filter", "error", "done"}

NoLine == "none"

Ends == {"stop", "content_filter", "tool_calls", "error"}

Init ==
  /\ ctx = "live"
  /\ pump = [pc |-> "read", line |-> NoLine, left |-> MaxLines, rounds |-> 0,
             unfinished |-> FALSE, finished |-> FALSE, hadDone |-> FALSE]
  /\ body = "open"
  /\ parser = [pc |-> "scan", line |-> NoLine]
  /\ lines = <<>>
  /\ consumer = [pc |-> "run", hasContent |-> FALSE, quiet |-> 0]
  /\ rt = [text |-> FALSE, heldText |-> FALSE, heldCalls |-> FALSE, calls |-> FALSE]
  /\ out = [content |-> FALSE, calls |-> FALSE, end |-> "none", done |-> 0]
  /\ history = <<>>

Cancelled == ctx = "cancelled"

ClientLeaves ==
  /\ ~Cancelled
  /\ ctx' = "cancelled"
  /\ UNCHANGED <<pump, body, parser, lines, consumer, rt, out, history>>

----------------------------------------------------------------------------
(* The pump *)

Observed(p, line) ==
  CASE line = "unfinished" -> [p EXCEPT !.unfinished = TRUE]
    [] line = "finished"   -> [p EXCEPT !.unfinished = FALSE, !.finished = TRUE]
    [] OTHER               -> p

ShouldContinue(p) == p.unfinished /\ ~p.finished

(* A [DONE] is kept back; every other line is written to the pipe *)
PumpReads ==
  /\ pump.pc = "read"
  /\ ~Cancelled
  /\ pump.left > 0
  /\ \E line \in Lines :
       pump' = IF line = "done"
               THEN [pump EXCEPT !.left = @ - 1, !.hadDone = TRUE]
               ELSE [Observed(pump, line) EXCEPT !.left = @ - 1, !.pc = "write",
                                                 !.line = line]
  /\ UNCHANGED <<ctx, body, parser, lines, consumer, rt, out, history>>

(* The end of one body: continue, forward the [DONE], or just end *)
PumpAtEOF ==
  /\ pump.pc = "read"
  /\ ~Cancelled
  /\ pump' = IF ShouldContinue(pump) /\ pump.rounds < MaxRounds
             THEN [pump EXCEPT !.pc = "open", !.rounds = @ + 1]
             ELSE IF pump.hadDone
             THEN [pump EXCEPT !.pc = "writeLast", !.line = "done"]
             ELSE [pump EXCEPT !.pc = "ended"]
  /\ UNCHANGED <<ctx, body, parser, lines, consumer, rt, out, history>>

(* Reading fails, for itself or because the context is cancelled *)
PumpReadFails ==
  /\ pump.pc = "read"
  /\ pump' = [pump EXCEPT !.pc = "ended"]
  /\ UNCHANGED <<ctx, body, parser, lines, consumer, rt, out, history>>

ContinueOpened ==
  /\ pump.pc = "open"
  /\ ~Cancelled
  /\ pump' = [pump EXCEPT !.pc = "read", !.left = MaxLines, !.hadDone = FALSE,
                          !.unfinished = FALSE, !.finished = FALSE]
  /\ UNCHANGED <<ctx, body, parser, lines, consumer, rt, out, history>>

ContinueFails ==
  /\ pump.pc = "open"
  /\ pump' = [pump EXCEPT !.pc = "ended"]
  /\ UNCHANGED <<ctx, body, parser, lines, consumer, rt, out, history>>

(* A write to a pipe whose read end is closed fails *)
PumpWriteFails ==
  /\ pump.pc \in {"write", "writeLast"}
  /\ body = "closed"
  /\ pump' = [pump EXCEPT !.pc = "ended"]
  /\ UNCHANGED <<ctx, body, parser, lines, consumer, rt, out, history>>

----------------------------------------------------------------------------
(* The parser *)

(* The pipe has no buffer: the pump's write ends when the scanner has the line *)
ParserScans ==
  /\ parser.pc = "scan"
  /\ body = "open"
  /\ pump.pc \in {"write", "writeLast"}
  /\ parser' = [pc |-> "send", line |-> pump.line]
  /\ pump' = [pump EXCEPT !.pc = IF @ = "write" THEN "read" ELSE "ended",
                          !.line = NoLine]
  /\ UNCHANGED <<ctx, body, lines, consumer, rt, out, history>>

(* End of file or an error: the channel is closed behind what it holds *)
ParserAtEOF ==
  /\ parser.pc = "scan"
  /\ pump.pc = "ended" \/ body = "closed"
  /\ parser' = [parser EXCEPT !.pc = "ended"]
  /\ UNCHANGED <<ctx, pump, body, lines, consumer, rt, out, history>>

ParserSends ==
  /\ parser.pc = "send"
  /\ Len(lines) < Buffer
  /\ lines' = Append(lines, parser.line)
  /\ parser' = [pc |-> "scan", line |-> NoLine]
  /\ UNCHANGED <<ctx, pump, body, consumer, rt, out, history>>

ParserGivesUp_Deaf ==
  /\ parser.pc = "send"
  /\ Cancelled
  /\ Len(lines) < Buffer
  /\ parser' = [pc |-> "ended", line |-> NoLine]
  /\ UNCHANGED <<ctx, pump, body, lines, consumer, rt, out, history>>

ParserGivesUp ==
  /\ parser.pc = "send"
  /\ Cancelled
  /\ parser' = [pc |-> "ended", line |-> NoLine]
  /\ UNCHANGED <<ctx, pump, body, lines, consumer, rt, out, history>>

----------------------------------------------------------------------------
(* finalize of chatStreamRuntime                                           *)

(***************************************************************************)
(* What the runtime and the client have before the last chunk:             *)
(*   blank     the text accumulated before the flush is blank              *)
(*   calls     tool calls have been sent                                   *)
(*   content   text has been sent                                          *)
(* Tool calls may be detected in the accumulated text; otherwise the sieve *)
(* releases what it holds, as text, as calls, or as both.                  *)
(***************************************************************************)
Settled ==
  LET before   == [blank |-> ~rt.text, calls |-> out.calls, content |-> out.content]
      detected == IF rt.text /\ ~rt.calls THEN {[before EXCEPT !.calls = TRUE]} ELSE {}
      flushed  == {[before EXCEPT !.calls = @ \/ rt.heldCalls \/ f.calls,
                                  !.content = @ \/ f.content] :
                     f \in {g \in [calls : BOOLEAN, content : BOOLEAN] :
                              rt.heldText <=> g.calls \/ g.content}}
  IN  detected \cup (IF Tools THEN flushed ELSE {before})

Closed(s, end, dones) ==
  [content |-> s.content, calls |-> s.calls, end |-> end, done |-> dones]

LastChunk_FallsThrough(s, reason) ==
  IF s.calls THEN Closed(s, "tool_calls", 1)
  ELSE IF s.blank THEN Closed(s, "error", 2)
  ELSE Closed(s, reason, 1)

LastChunk_IgnoresCalls(s, reason) ==
  IF s.blank /\ ~s.calls THEN Closed(s, "error", 1) ELSE Closed(s, reason, 1)

LastChunk(s, reason) ==
  IF s.calls THEN Closed(s, "tool_calls", 1)
  ELSE IF s.blank THEN Closed(s, "error", 1)
  ELSE Closed(s, reason, 1)

OutcomeOf_AlwaysSuccess(end) == "success"

OutcomeOf(end) == IF end = "error" THEN "error" ELSE "success"

(* OnFinalize of handleStream, and the loop returns *)
Finalize(reason) ==
  \E s \in Settled :
    /\ out' = LastChunk(s, reason)
    /\ history' = Append(history, OutcomeOf(LastChunk(s, reason).end))
    /\ consumer' = [consumer EXCEPT !.pc = "ended"]
    /\ UNCHANGED rt

----------------------------------------------------------------------------
(* The consumer: every branch of the select looks at the context first     *)

Running == consumer.pc = "run" /\ ~Cancelled

ConsumerCancelled ==
  /\ consumer.pc = "run"
  /\ Cancelled
  /\ consumer' = [consumer EXCEPT !.pc = "ended"]
  /\ history' = Append(history, "stopped")
  /\ UNCHANGED <<ctx, pump, body, parser, lines, rt, out>>

TimedOut ==
  IF consumer.hasContent THEN consumer.quiet >= MaxIdle
                         ELSE consumer.quiet + 1 >= MaxSilent

Tick ==
  /\ Running
  /\ IF TimedOut THEN Finalize("stop")
     ELSE /\ consumer' = [consumer EXCEPT !.quiet = @ + 1]
          /\ UNCHANGED <<rt, out, history>>
  /\ UNCHANGED <<ctx, pump, body, parser, lines>>

UpstreamCompleted ==
  /\ Running
  /\ parser.pc = "ended"
  /\ lines = <<>>
  /\ Finalize("stop")
  /\ UNCHANGED <<ctx, pump, body, parser, lines>>

Content == consumer' = [consumer EXCEPT !.hasContent = TRUE, !.quiet = 0]

(***************************************************************************)
(* onParsed for a text part.  With tools it goes through the sieve: calls  *)
(* held from before come out, and the part itself comes out as text, is    *)
(* held back, completes calls that the next part or the flush will         *)
(* release, or several of these.  A part that is blank, or only repeats    *)
(* the end of what came before, adds nothing but counts as content.        *)
(***************************************************************************)
ParsedText ==
  /\ Content
  /\ UNCHANGED history
  /\ \/ /\ ~Tools
        /\ rt' = [rt EXCEPT !.text = TRUE]
        /\ out' = [out EXCEPT !.content = TRUE]
     \/ /\ Tools
        /\ \E shown, heldText, heldCalls \in BOOLEAN :
             /\ shown \/ heldText \/ heldCalls
             /\ rt' = [text |-> rt.text \/ shown, heldText |-> heldText,
                       heldCalls |-> heldCalls, calls |-> rt.calls \/ rt.heldCalls]
             /\ out' = [out EXCEPT !.content = @ \/ shown, !.calls = @ \/ rt.heldCalls]
     \/ UNCHANGED <<rt, out>>

ParsedThinking ==
  /\ Content
  /\ UNCHANGED <<rt, out, history>>

ParsedNothing == UNCHANGED <<consumer, rt, out, history>>

OnParsed(line) ==
  CASE line = "text"     -> ParsedText
    [] line = "thinking" -> ParsedThinking
    [] line = "error"    -> Finalize("content_filter")
    [] line = "filter"   -> Finalize(IF rt.text THEN "stop" ELSE "content_filter")
    [] line \in {"finished", "quasi", "done"} -> Finalize("stop")
    [] OTHER             -> ParsedNothing

Receive ==
  /\ Running
  /\ lines # <<>>
  /\ lines' = Tail(lines)
  /\ OnParsed(Head(lines))
  /\ UNCHANGED <<ctx, pump, body, parser>>

----------------------------------------------------------------------------
(* The handler after ConsumeSSE: the deferred Close, then the return       *)

CloseBody ==
  /\ consumer.pc = "ended"
  /\ body = "open"
  /\ body' = "closed"
  /\ UNCHANGED <<ctx, pump, parser, lines, consumer, rt, out, history>>

HandlerReturns ==
  /\ body = "closed"
  /\ ~Cancelled
  /\ ctx' = "cancelled"
  /\ UNCHANGED <<pump, body, parser, lines, consumer, rt, out, history>>

----------------------------------------------------------------------------

PumpStep == PumpReads \/ PumpAtEOF \/ PumpReadFails \/ ContinueOpened
            \/ ContinueFails \/ PumpWriteFails

ParserStep == ParserScans \/ ParserAtEOF \/ ParserSends \/ ParserGivesUp

ConsumerStep == ConsumerCancelled \/ Tick \/ UpstreamCompleted \/ Receive

HandlerStep == CloseBody \/ HandlerReturns

Next == ClientLeaves \/ PumpStep \/ ParserStep \/ ConsumerStep \/ HandlerStep

Spec == Init /\ [][Next]_vars

(***************************************************************************)
(* The goroutines run and the ticker ticks; of DeepSeek nothing is         *)
(* expected, except that a request with a cancelled context comes back.    *)
(***************************************************************************)
Fairness ==
  /\ WF_vars(ParserStep)
  /\ WF_vars(Tick)
  /\ WF_vars(ConsumerCancelled)
  /\ WF_vars(HandlerStep)
  /\ WF_vars(PumpWriteFails)
  /\ WF_vars(Cancelled /\ (PumpReadFails \/ ContinueFails))

FairSpec == Spec /\ Fairness

----------------------------------------------------------------------------
(* Properties *)

PumpType ==
  [pc : {"read", "write", "writeLast", "open", "ended"}, line : Lines \cup {NoLine},
   left : 0 .. MaxLines, rounds : 0 .. MaxRounds,
   unfinished : BOOLEAN, finished : BOOLEAN, hadDone : BOOLEAN]

ParserType == [pc : {"scan", "send", "ended"}, line : Lines \cup {NoLine}]

ConsumerType == [pc : {"run", "ended"}, hasContent : BOOLEAN, quiet : Nat]

RuntimeType == [text : BOOLEAN, heldText : BOOLEAN, heldCalls : BOOLEAN, calls : BOOLEAN]

OutputType == [content : BOOLEAN, calls : BOOLEAN, end : Ends \cup {"none"}, done : Nat]

(* The variables have their types; the counters keep their bounds *)
TypeOK ==
  /\ ctx \in {"live", "cancelled"}
  /\ pump \in PumpType
  /\ body \in {"open", "closed"}
  /\ parser \in ParserType
  /\ lines \in Seq(Lines) /\ Len(lines) <= Buffer
  /\ consumer \in ConsumerType
  /\ consumer.quiet <= (IF consumer.hasContent THEN MaxIdle ELSE MaxSilent)
  /\ rt \in RuntimeType
  /\ out \in OutputType
  /\ history \in Seq({"success", "error", "stopped"})

(***************************************************************************)
(* A response is ended by exactly one [DONE], whichever of a status line,  *)
(* a filter, an error, the end of the answer or a timeout ends it; only a  *)
(* cancelled one goes without.                                             *)
(***************************************************************************)
OneDone ==
  /\ out.done = IF out.end = "none" THEN 0 ELSE 1
  /\ consumer.pc = "ended" /\ out.end = "none" => Cancelled

(***************************************************************************)
(* The history gets exactly one outcome for a stream, and it is what the   *)
(* client saw: an error chunk, a regular last chunk, or a broken-off       *)
(* response.                                                               *)
(***************************************************************************)
HistoryTellsOutcome ==
  history = IF consumer.pc = "run" THEN <<>>
            ELSE CASE out.end = "none"  -> <<"stopped">>
                   [] out.end = "error" -> <<"error">>
                   [] OTHER             -> <<"success">>

(***************************************************************************)
(* The finish reason is tool_calls exactly when the client was sent tool   *)
(* calls, during the stream or by the flush at its end.                    *)
(***************************************************************************)
FinishReasonTellsCalls ==
  out.end # "none" => (out.end = "tool_calls" <=> out.calls)

(***************************************************************************)
(* Nothing is left behind: the consumer returns, by itself or through its  *)
(* timeouts, and then both goroutines end, however full the channel is and *)
(* wherever DeepSeek stopped.                                              *)
(***************************************************************************)
EverythingEnds ==
  <>[](consumer.pc = "ended" /\ parser.pc = "ended" /\ pump.pc = "ended")

(***************************************************************************)
(* The last chunk carries finish_reason (API.en.md); an error chunk takes  *)
(* its place only when the answer was empty.  Fails: finalize decides by   *)
(* the text from before the flush of the tool sieve.                       *)
(***************************************************************************)
ErrorMeansEmpty == out.end = "error" => ~out.content
=============================================================================
