----------------------- MODULE StreamPipelineProofs -----------------------
(***************************************************************************)
(* Theorems about StreamPipeline, for every length of the answer, number   *)
(* of continuations, channel capacity and timeout: the types, and that the *)
(* three ways to tell how a response ended agree.                          *)
(***************************************************************************)
EXTENDS StreamPipeline, TLAPS

(* Whoever passes a line on has one *)
LinesInFlight ==
  /\ pump.pc \in {"write", "writeLast"} => pump.line \in Lines
  /\ parser.pc = "send" => parser.line \in Lines

TypeInv == TypeOK /\ LinesInFlight

(***************************************************************************)
(* The end of a response is written when, and only when, the loop returns; *)
(* before that nothing is recorded.                                        *)
(***************************************************************************)
EndIsLast ==
  /\ consumer.pc = "run" => out.end = "none" /\ out.done = 0
  /\ out.end \in Ends \cup {"none"}

OutcomeInv ==
  /\ TypeOK
  /\ EndIsLast
  /\ OneDone
  /\ HistoryTellsOutcome
  /\ FinishReasonTellsCalls

----------------------------------------------------------------------------

(* The bounds are numbers *)
LEMMA BoundsFacts ==
  /\ MaxLines \in Nat /\ MaxRounds \in Nat
  /\ Buffer \in Nat /\ MaxSilent \in Nat /\ MaxIdle \in Nat
BY BoundsAssumption

(* finalize *)

(* What finalize decides on is known *)
LEMMA SettledType ==
  ASSUME TypeOK
  PROVE  \A s \in Settled : s \in [blank : BOOLEAN, calls : BOOLEAN, content : BOOLEAN]
<1>1. /\ rt.heldCalls \in BOOLEAN /\ rt.text \in BOOLEAN
      /\ out.calls \in BOOLEAN /\ out.content \in BOOLEAN
  BY DEF TypeOK, RuntimeType, OutputType
<1> DEFINE before == [blank |-> ~rt.text, calls |-> out.calls, content |-> out.content]
           S == [blank : BOOLEAN, calls : BOOLEAN, content : BOOLEAN]
           Flushed(f) == [before EXCEPT !.calls = @ \/ rt.heldCalls \/ f.calls,
                                        !.content = @ \/ f.content]
<1>2. before \in S
  BY <1>1
<1>3. \A f \in [calls : BOOLEAN, content : BOOLEAN] : Flushed(f) \in S
  BY <1>1
<1>4. [before EXCEPT !.calls = TRUE] \in S
  BY <1>1
<1> DEFINE detected == IF rt.text /\ ~rt.calls THEN {[before EXCEPT !.calls = TRUE]} ELSE {}
           flushed  == {Flushed(f) : f \in {g \in [calls : BOOLEAN, content : BOOLEAN] :
                                              rt.heldText <=> g.calls \/ g.content}}
<1>5. Settled = detected \cup (IF Tools THEN flushed ELSE {before})
  BY DEF Settled
<1>6. detected \subseteq S
  BY <1>4
<1> HIDE DEF Flushed, S, before
<1>7. flushed \subseteq S
  BY <1>3
<1> HIDE DEF detected, flushed
<1>8. Settled \subseteq S
  BY <1>2, <1>5, <1>6, <1>7
<1> QED
  BY <1>8 DEF S

(* finalize ends the stream once, with the reason of what was sent *)
LEMMA FinalizeProperties ==
  ASSUME TypeOK, NEW reason \in {"stop", "content_filter"}, Finalize(reason)
  PROVE  /\ out' \in OutputType
         /\ out'.end \in Ends
         /\ out'.done = 1
         /\ out'.end = "tool_calls" <=> out'.calls
         /\ history' = Append(history, IF out'.end = "error" THEN "error" ELSE "success")
         /\ consumer' = [consumer EXCEPT !.pc = "ended"]
         /\ rt' = rt
<1>1. PICK s \in Settled :
        /\ out' = LastChunk(s, reason)
        /\ history' = Append(history, OutcomeOf(LastChunk(s, reason).end))
        /\ consumer' = [consumer EXCEPT !.pc = "ended"]
        /\ UNCHANGED rt
  BY DEF Finalize
<1>2. s \in [blank : BOOLEAN, calls : BOOLEAN, content : BOOLEAN]
  BY SettledType
<1>3. /\ out' \in OutputType
      /\ out'.end \in Ends
      /\ out'.done = 1
      /\ out'.end = "tool_calls" <=> out'.calls
  BY <1>1, <1>2 DEF LastChunk, Closed, OutputType, Ends
<1> QED
  BY <1>1, <1>3 DEF OutcomeOf

----------------------------------------------------------------------------
(* What a step of the consumer does: it sends on, ends the response, or    *)
(* leaves a cancelled one as it is.                                        *)

SendStep ==
  /\ consumer.pc = "run"
  /\ consumer'.pc = "run"
  /\ consumer' \in ConsumerType
  /\ consumer'.quiet <= (IF consumer'.hasContent THEN MaxIdle ELSE MaxSilent)
  /\ rt' \in RuntimeType
  /\ out' \in OutputType
  /\ out'.end = out.end
  /\ out'.done = out.done
  /\ history' = history

EndStep ==
  /\ consumer.pc = "run"
  /\ consumer' = [consumer EXCEPT !.pc = "ended"]
  /\ rt' = rt
  /\ out' \in OutputType
  /\ out'.end \in Ends
  /\ out'.done = 1
  /\ out'.end = "tool_calls" <=> out'.calls
  /\ history' = Append(history, IF out'.end = "error" THEN "error" ELSE "success")

(* ... which is the step that ends it *)
LEMMA FinalizeIsEnd ==
  ASSUME TypeOK, consumer.pc = "run",
         NEW reason \in {"stop", "content_filter"}, Finalize(reason)
  PROVE  EndStep
BY FinalizeProperties DEF EndStep

(* Content resets the idle time *)
LEMMA ContentProperties ==
  ASSUME TypeOK, consumer.pc = "run", Content
  PROVE  /\ consumer'.pc = "run"
         /\ consumer' \in ConsumerType
         /\ consumer'.quiet <= (IF consumer'.hasContent THEN MaxIdle ELSE MaxSilent)
<1>1. consumer \in ConsumerType /\ consumer' = [consumer EXCEPT !.hasContent = TRUE, !.quiet = 0]
  BY DEF TypeOK, Content
<1>2. /\ consumer'.pc = "run"
      /\ consumer'.quiet = 0
      /\ consumer'.hasContent = TRUE
      /\ consumer' \in ConsumerType
  BY <1>1 DEF ConsumerType
<1> QED
  BY <1>2, BoundsFacts

(* A line of text is sent *)
LEMMA ParsedTextSends ==
  ASSUME TypeOK, consumer.pc = "run", ParsedText
  PROVE  SendStep
<1>1. rt \in RuntimeType /\ out \in OutputType
  BY DEF TypeOK
<1>2. Content /\ history' = history
  BY DEF ParsedText
<1> SUFFICES /\ rt' \in RuntimeType /\ out' \in OutputType
             /\ out'.end = out.end /\ out'.done = out.done
  BY <1>2, ContentProperties DEF SendStep
<1>3. CASE rt' = [rt EXCEPT !.text = TRUE] /\ out' = [out EXCEPT !.content = TRUE]
  BY <1>1, <1>3 DEF RuntimeType, OutputType
<1>4. ASSUME NEW shown \in BOOLEAN, NEW heldText \in BOOLEAN, NEW heldCalls \in BOOLEAN,
             rt' = [text |-> rt.text \/ shown, heldText |-> heldText,
                    heldCalls |-> heldCalls, calls |-> rt.calls \/ rt.heldCalls],
             out' = [out EXCEPT !.content = @ \/ shown, !.calls = @ \/ rt.heldCalls]
      PROVE  /\ rt' \in RuntimeType /\ out' \in OutputType
             /\ out'.end = out.end /\ out'.done = out.done
  BY <1>1, <1>4 DEF RuntimeType, OutputType
<1>5. CASE UNCHANGED <<rt, out>>
  BY <1>1, <1>5
<1> QED
  BY <1>3, <1>4, <1>5 DEF ParsedText

(* A parsed line is sent or ends the stream *)
LEMMA OnParsedKind ==
  ASSUME TypeOK, consumer.pc = "run", NEW line \in Lines, OnParsed(line)
  PROVE  SendStep \/ EndStep
<1>1. CASE line = "text"
  BY <1>1, ParsedTextSends DEF OnParsed
<1>2. CASE line = "thinking"
  <2>1. ParsedThinking
    BY <1>2 DEF OnParsed
  <2> QED
    BY <2>1, ContentProperties DEF ParsedThinking, SendStep, TypeOK
<1>3. CASE line = "error"
  BY <1>3, FinalizeIsEnd DEF OnParsed
<1>4. CASE line = "filter"
  BY <1>4, FinalizeIsEnd DEF OnParsed
<1>5. CASE line \in {"finished", "quasi", "done"}
  BY <1>5, FinalizeIsEnd DEF OnParsed
<1>6. CASE line \in {"meta", "unfinished"}
  <2>1. ParsedNothing
    BY <1>6 DEF OnParsed
  <2> QED
    BY <2>1 DEF ParsedNothing, SendStep, TypeOK
<1> QED
  BY <1>1, <1>2, <1>3, <1>4, <1>5, <1>6 DEF Lines

(* A tick sends a keep-alive or ends the stream *)
LEMMA TickKind ==
  ASSUME TypeOK, Tick
  PROVE  SendStep \/ EndStep
<1>1. consumer.pc = "run"
  BY DEF Tick, Running
<1>2. CASE TimedOut
  BY <1>1, <1>2, FinalizeIsEnd DEF Tick
<1>3. CASE ~TimedOut
  <2>1. consumer' = [consumer EXCEPT !.quiet = @ + 1] /\ UNCHANGED <<rt, out, history>>
    BY <1>3 DEF Tick
  <2>2. /\ consumer' \in ConsumerType
        /\ consumer'.pc = "run"
        /\ consumer'.hasContent = consumer.hasContent
        /\ consumer'.quiet = consumer.quiet + 1
    BY <1>1, <2>1 DEF ConsumerType, TypeOK
  <2>3. consumer'.quiet <= (IF consumer'.hasContent THEN MaxIdle ELSE MaxSilent)
    BY <1>3, <2>2, BoundsFacts DEF TimedOut, TypeOK, ConsumerType
  <2> QED
    BY <1>1, <2>1, <2>2, <2>3 DEF SendStep, TypeOK
<1> QED
  BY <1>2, <1>3

(* The consumer sends or ends the stream *)
LEMMA ConsumerStepKind ==
  ASSUME TypeOK, Tick \/ UpstreamCompleted \/ Receive
  PROVE  SendStep \/ EndStep
<1>1. CASE Tick
  BY <1>1, TickKind
<1>2. CASE UpstreamCompleted
  BY <1>2, FinalizeIsEnd DEF UpstreamCompleted, Running
<1>3. CASE Receive
  BY <1>3, OnParsedKind DEF Receive, Running, TypeOK
<1> QED
  BY <1>1, <1>2, <1>3

----------------------------------------------------------------------------
(* Types *)

ConsumerVars == <<consumer, rt, out, history>>

PumpOK == pump \in PumpType /\ (pump.pc \in {"write", "writeLast"} => pump.line \in Lines)

ParserOK == parser \in ParserType /\ (parser.pc = "send" => parser.line \in Lines)

(* The types, after the pump has read *)
LEMMA PumpReadsType ==
  ASSUME TypeInv, PumpReads
  PROVE  PumpOK'
<1> USE BoundsFacts DEF PumpType, PumpOK
<1>1. pump \in PumpType /\ pump.left - 1 \in 0 .. MaxLines
  BY DEF TypeInv, TypeOK, PumpReads
<1>2. PICK line \in Lines :
        pump' = IF line = "done"
                THEN [pump EXCEPT !.left = @ - 1, !.hadDone = TRUE]
                ELSE [Observed(pump, line) EXCEPT !.left = @ - 1, !.pc = "write",
                                                  !.line = line]
  BY DEF PumpReads
<1>3. CASE line = "done"
  <2>1. pump.pc = "read"
    BY DEF PumpReads
  <2> QED
    BY <1>1, <1>2, <1>3, <2>1
<1>4. CASE line # "done"
  <2>1. Observed(pump, line) \in PumpType /\ Observed(pump, line).left = pump.left
    BY <1>1 DEF Observed
  <2>2. pump' = [Observed(pump, line) EXCEPT !.left = @ - 1, !.pc = "write", !.line = line]
    BY <1>2, <1>4
  <2> HIDE DEF PumpType
  <2> DEFINE o == Observed(pump, line)
  <2>3. pump' = [o EXCEPT !.left = o.left - 1, !.pc = "write", !.line = line]
    BY <2>2
  <2>4. o \in PumpType /\ o.left - 1 \in 0 .. MaxLines
    BY <1>1, <2>1
  <2> HIDE DEF o
  <2> QED
    BY <2>3, <2>4 DEF PumpType
<1> QED
  BY <1>3, <1>4

(* The types, after the pump *)
LEMMA PumpStepType ==
  ASSUME TypeInv, PumpStep
  PROVE  TypeInv'
<1> SUFFICES PumpOK'
  BY DEF PumpStep, PumpReads, PumpAtEOF, PumpReadFails, ContinueOpened, ContinueFails,
         PumpWriteFails, PumpOK, TypeInv, TypeOK, LinesInFlight
<1>1. PumpOK
  BY DEF PumpOK, TypeInv, TypeOK, LinesInFlight
<1> USE BoundsFacts DEF PumpOK, PumpType
<1>2. CASE PumpAtEOF
  <2>1. "done" \in Lines
    BY DEF Lines
  <2>2. pump.rounds < MaxRounds => pump.rounds + 1 \in 0 .. MaxRounds
    BY <1>1
  <2> QED
    BY <1>1, <1>2, <2>1, <2>2 DEF PumpAtEOF
<1>3. CASE PumpReadFails
  BY <1>1, <1>3 DEF PumpReadFails
<1>4. CASE ContinueOpened
  <2>1. MaxLines \in 0 .. MaxLines
    OBVIOUS
  <2>2. /\ pump.pc = "open"
        /\ pump' = [pump EXCEPT !.pc = "read", !.left = MaxLines, !.hadDone = FALSE,
                                !.unfinished = FALSE, !.finished = FALSE]
    BY <1>4 DEF ContinueOpened
  <2> QED
    BY <1>1, <2>1, <2>2
<1>5. CASE ContinueFails
  BY <1>1, <1>5 DEF ContinueFails
<1>6. CASE PumpWriteFails
  BY <1>1, <1>6 DEF PumpWriteFails
<1> QED
  BY <1>2, <1>3, <1>4, <1>5, <1>6, PumpReadsType DEF PumpStep

(* The types, after the parser *)
LEMMA ParserStepType ==
  ASSUME TypeInv, ParserStep
  PROVE  TypeInv'
<1>1. PumpOK /\ ParserOK /\ lines \in Seq(Lines)
  BY DEF PumpOK, ParserOK, TypeInv, TypeOK, LinesInFlight
<1> SUFFICES PumpOK' /\ ParserOK' /\ lines' \in Seq(Lines) /\ Len(lines') <= Buffer
  BY DEF ParserStep, ParserScans, ParserAtEOF, ParserSends, ParserGivesUp, PumpOK, ParserOK,
         TypeInv, TypeOK, LinesInFlight
<1> USE DEF PumpOK, ParserOK, PumpType, ParserType
<1>2. CASE ParserScans
  <2>1. lines' = lines /\ Len(lines) <= Buffer
    BY <1>2 DEF ParserScans, TypeInv, TypeOK
  <2>2. /\ pump.pc \in {"write", "writeLast"}
        /\ parser' = [pc |-> "send", line |-> pump.line]
        /\ pump' = [pump EXCEPT !.pc = IF pump.pc = "write" THEN "read" ELSE "ended",
                                !.line = NoLine]
    BY <1>2 DEF ParserScans
  <2>3. ParserOK'
    BY <1>1, <2>2
  <2>4. PumpOK'
    BY <1>1, <2>2
  <2> QED
    BY <1>1, <2>1, <2>3, <2>4
<1>3. CASE ParserAtEOF
  BY <1>1, <1>3 DEF ParserAtEOF, TypeInv, TypeOK
<1>4. CASE ParserSends
  <2>1. parser.line \in Lines
    BY <1>1, <1>4 DEF ParserSends
  <2>2. lines' \in Seq(Lines) /\ Len(lines') = Len(lines) + 1
    BY <1>1, <1>4, <2>1 DEF ParserSends
  <2>3. Len(lines') <= Buffer
    BY <1>1, <1>4, <2>2, BoundsFacts DEF ParserSends
  <2> QED
    BY <1>1, <1>4, <2>2, <2>3 DEF ParserSends
<1>5. CASE ParserGivesUp
  BY <1>1, <1>5 DEF ParserGivesUp, TypeInv, TypeOK
<1> QED
  BY <1>2, <1>3, <1>4, <1>5 DEF ParserStep

(* The types, after the consumer *)
LEMMA ConsumerStepType ==
  ASSUME TypeInv, ConsumerStep
  PROVE  TypeInv'
<1>1. UNCHANGED <<ctx, pump, body, parser>>
  BY DEF ConsumerStep, ConsumerCancelled, Tick, UpstreamCompleted, Receive
<1>2. lines' \in Seq(Lines) /\ Len(lines') <= Buffer
  <2>1. lines \in Seq(Lines) /\ Len(lines) <= Buffer
    BY DEF TypeInv, TypeOK
  <2>2. CASE Receive
    <3>1. lines # <<>> /\ lines' = Tail(lines)
      BY <2>2 DEF Receive
    <3>2. lines' \in Seq(Lines) /\ Len(lines') = Len(lines) - 1
      BY <2>1, <3>1
    <3> QED
      BY <2>1, <3>2, BoundsFacts
  <2>3. CASE lines' = lines
    BY <2>1, <2>3
  <2> QED
    BY <2>2, <2>3 DEF ConsumerStep, ConsumerCancelled, Tick, UpstreamCompleted
<1> SUFFICES /\ consumer' \in ConsumerType
             /\ consumer'.quiet <= (IF consumer'.hasContent THEN MaxIdle ELSE MaxSilent)
             /\ rt' \in RuntimeType
             /\ out' \in OutputType
             /\ history' \in Seq({"success", "error", "stopped"})
  BY <1>1, <1>2 DEF TypeInv, TypeOK, LinesInFlight
<1>3. /\ consumer \in ConsumerType
      /\ consumer.quiet <= (IF consumer.hasContent THEN MaxIdle ELSE MaxSilent)
      /\ rt \in RuntimeType /\ out \in OutputType
      /\ history \in Seq({"success", "error", "stopped"})
  BY DEF TypeInv, TypeOK
<1>4. ASSUME consumer' = [consumer EXCEPT !.pc = "ended"]
      PROVE  /\ consumer' \in ConsumerType
             /\ consumer'.quiet <= (IF consumer'.hasContent THEN MaxIdle ELSE MaxSilent)
  BY <1>3, <1>4 DEF ConsumerType
<1>5. CASE ConsumerCancelled
  BY <1>3, <1>4, <1>5 DEF ConsumerCancelled
<1>6. CASE SendStep
  BY <1>3, <1>6 DEF SendStep
<1>7. CASE EndStep
  BY <1>3, <1>4, <1>7 DEF EndStep
<1> QED
  BY <1>5, <1>6, <1>7, ConsumerStepKind DEF ConsumerStep, TypeInv

(* The types, at first *)
LEMMA TypeInit == Init => TypeInv
BY BoundsFacts DEF Init, TypeInv, TypeOK, LinesInFlight, Lines, Ends, PumpType, ParserType,
                   ConsumerType, RuntimeType, OutputType

(* The variables keep their types and the counters their bounds. *)
THEOREM TypeCorrect == Spec => []TypeOK
<1>2. TypeInv /\ [Next]_vars => TypeInv'
  <2> SUFFICES ASSUME TypeInv, [Next]_vars
               PROVE  TypeInv'
    OBVIOUS
  <2>1. CASE ClientLeaves
    BY <2>1 DEF ClientLeaves, TypeInv, TypeOK, LinesInFlight
  <2>2. CASE HandlerStep
    BY <2>2 DEF HandlerStep, CloseBody, HandlerReturns, TypeInv, TypeOK, LinesInFlight
  <2>3. CASE UNCHANGED vars
    BY <2>3 DEF vars, TypeInv, TypeOK, LinesInFlight
  <2> QED
    BY <2>1, <2>2, <2>3, PumpStepType, ParserStepType, ConsumerStepType DEF Next
<1>3. TypeInv => TypeOK
  BY DEF TypeInv
<1> QED
  BY TypeInit, <1>2, <1>3, PTL DEF Spec

----------------------------------------------------------------------------
(* The end of the response *)

(* The outcome, at first *)
LEMMA OutcomeInit == Init => OutcomeInv
BY TypeInit DEF TypeInv, Init, OutcomeInv, EndIsLast, OneDone, HistoryTellsOutcome,
                FinishReasonTellsCalls

(* Every step keeps the outcome *)
LEMMA OutcomeStep ==
  ASSUME OutcomeInv, TypeOK', [Next]_vars
  PROVE  OutcomeInv'
<1> USE DEF OutcomeInv, EndIsLast, OneDone, HistoryTellsOutcome, FinishReasonTellsCalls
<1>1. CASE UNCHANGED ConsumerVars /\ (Cancelled => Cancelled')
  BY <1>1 DEF ConsumerVars
<1>2. CASE ConsumerCancelled
  <2>1. /\ out' = out /\ ctx' = ctx /\ out.end = "none" /\ history = <<>>
        /\ history' = Append(history, "stopped") /\ consumer.pc = "run" /\ Cancelled
    BY <1>2 DEF ConsumerCancelled
  <2>2. consumer'.pc = "ended"
    BY <1>2 DEF ConsumerCancelled, TypeOK, ConsumerType
  <2>3. history' = <<"stopped">>
    BY <2>1
  <2> QED
    BY <2>1, <2>2, <2>3 DEF Cancelled
<1>3. CASE Tick \/ UpstreamCompleted \/ Receive
  <2>1. SendStep \/ EndStep
    BY <1>3, ConsumerStepKind
  <2>2. CASE SendStep
    BY <2>2 DEF SendStep
  <2>3. CASE EndStep
    <3>1. /\ out'.end \in Ends /\ out'.done = 1
          /\ out'.end = "tool_calls" <=> out'.calls
          /\ history' = <<IF out'.end = "error" THEN "error" ELSE "success">>
      BY <2>3 DEF EndStep
    <3>2. consumer'.pc = "ended"
      BY <2>3 DEF EndStep, TypeOK, ConsumerType
    <3> QED
      BY <3>1, <3>2 DEF Ends
  <2> QED
    BY <2>1, <2>2, <2>3
<1>4. CASE PumpStep
  BY <1>1, <1>4 DEF ConsumerVars, Cancelled, PumpStep, PumpReads, PumpAtEOF, PumpReadFails,
                    ContinueOpened, ContinueFails, PumpWriteFails
<1>5. CASE ParserStep
  BY <1>1, <1>5 DEF ConsumerVars, Cancelled, ParserStep, ParserScans, ParserAtEOF, ParserSends,
                    ParserGivesUp
<1>6. CASE ClientLeaves \/ HandlerStep \/ UNCHANGED vars
  BY <1>1, <1>6 DEF ConsumerVars, Cancelled, ClientLeaves, HandlerStep, CloseBody,
                    HandlerReturns, vars
<1> QED
  BY <1>2, <1>3, <1>4, <1>5, <1>6 DEF Next, ConsumerStep

(* The outcome always holds *)
LEMMA OutcomeAlways == Spec => []OutcomeInv
<1>1. OutcomeInv /\ TypeOK' /\ [Next]_vars => OutcomeInv'
  BY OutcomeStep
<1> QED
  BY <1>1, OutcomeInit, TypeCorrect, PTL DEF Spec

(***************************************************************************)
(* However the answer, the timeouts and the client interleave, a response  *)
(* ends with exactly one [DONE] unless it was cancelled.                   *)
(***************************************************************************)
THEOREM ExactlyOneDone == Spec => []OneDone
<1>1. OutcomeInv => OneDone
  BY DEF OutcomeInv
<1> QED
  BY <1>1, OutcomeAlways, PTL

(***************************************************************************)
(* The history holds one outcome for a finished response, and it is the    *)
(* one the client saw.                                                     *)
(***************************************************************************)
THEOREM RecordedAsSeen == Spec => []HistoryTellsOutcome
<1>1. OutcomeInv => HistoryTellsOutcome
  BY DEF OutcomeInv
<1> QED
  BY <1>1, OutcomeAlways, PTL

(* The finish reason is tool_calls exactly when calls were sent. *)
THEOREM FinishReasonExact == Spec => []FinishReasonTellsCalls
<1>1. OutcomeInv => FinishReasonTellsCalls
  BY DEF OutcomeInv
<1> QED
  BY <1>1, OutcomeAlways, PTL
=============================================================================
