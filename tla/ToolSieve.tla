----------------------------- MODULE ToolSieve -----------------------------
(***************************************************************************)
(* The sieve that separates tool calls from the text of an answer while    *)
(* the answer streams in (toolstream/), with the parser of a complete      *)
(* block (toolcall/).  A text is a sequence of tokens:                     *)
(*   "<" "tool" "calls>"   the pieces of <tool_calls>                      *)
(*   "<" "inv"             <invoke name="t"><parameter name="p">           *)
(*   "i"                   </parameter></invoke>                           *)
(*   "E"                   </tool_calls>                                   *)
(*   "C" "D"               <![CDATA[ and ]]>                               *)
(*   "f"                   three backticks, "nl" a line break              *)
(*   "mk"                  the DSML marker, which may stand inside a tag   *)
(*   "w"                   any other word                                  *)
(* A chunk may end after any token, so also inside a tag.                  *)
(***************************************************************************)
EXTENDS Integers, FiniteSets, Sequences, SequencesExt

CONSTANTS Texts   \* the answers considered

VARIABLES
  answer,     \* the text of the answer
  fed,        \* how much of it the sieve has seen
  st,         \* its State
  shown,      \* the text released so far
  emitted,    \* the number of calls released so far
  lost,       \* the number of pending calls that were overwritten
  blank,      \* whether a text of blanks alone was released
  done

vars == <<answer, fed, st, shown, emitted, lost, blank, done>>

Least(S) == CHOOSE k \in S : \A j \in S : k <= j
From(s, k) == SubSeq(s, k, Len(s))

----------------------------------------------------------------------------
(* Code fences *)

NoFence == [stack |-> <<>>, ticks |-> 0, line |-> TRUE]

(* applyFenceMarker, when the run of backticks is over *)
Marked(f) ==
  IF ~f.line \/ f.ticks < 3 THEN f.stack
  ELSE IF f.stack # <<>> /\ f.ticks >= Last(f.stack) THEN Front(f.stack)
  ELSE Append(f.stack, f.ticks)

After(f, x) ==
  IF x = "f" THEN [f EXCEPT !.ticks = @ + 3]
  ELSE IF f.ticks = 0 THEN [f EXCEPT !.line = (x = "nl")]
  ELSE [stack |-> Marked(f), ticks |-> 0, line |-> (x = "nl")]

Simulated(f, s) == FoldLeft(After, f, s)

InsideFence(f, s) == Simulated(f, s).stack # <<>>

Blank(s) == \A k \in DOMAIN s : s[k] = "nl"

(* noteText: a text of blanks alone leaves the state as it was *)
Noted(f, s) == IF Blank(s) THEN f ELSE Simulated(f, s)

----------------------------------------------------------------------------
(* Tags *)

Stripped(s) == SelectSeq(s, LAMBDA x : x # "mk")

Opening == <<"<", "tool", "calls>">>

OpenAt(s, k)   == k + 2 <= Len(s) /\ SubSeq(s, k, k + 2) = Opening
InvokeAt(s, k) == k + 1 <= Len(s) /\ SubSeq(s, k, k + 1) = <<"<", "inv">>

FirstOf(S) == IF S = {} THEN 0 ELSE Least(S)

(***************************************************************************)
(* The first tag outside a fence.  It is looked for in the text without    *)
(* markers, and its position is then used in the text with them.           *)
(***************************************************************************)
SegmentStart(f, s) ==
  LET t == Stripped(s)
  IN  FirstOf({k \in 1 .. Len(t) : /\ OpenAt(t, k) \/ InvokeAt(t, k)
                                  /\ ~InsideFence(f, SubSeq(t, 1, k - 1))})

(* A tag that has begun at the end of the text *)
PartialStart(s) ==
  FirstOf({k \in 1 .. Len(s) : From(s, k) \in {<<"<">>, <<"<", "tool">>}})

Cdata(open, x) == IF open THEN x # "D" ELSE x = "C"

InCdata(s) == FoldLeft(Cdata, FALSE, s)

Close(s, k) ==
  FirstOf({p \in k .. Len(s) : s[p] = "E" /\ ~InCdata(SubSeq(s, k, p - 1))})

----------------------------------------------------------------------------
(* The parser of a block *)

(* stripFencedCodeBlocks: nothing is left if the last fence stays open *)
FenceStep(u, x) ==
  LET fence == x = "f" /\ u.line /\ ~u.cdata
  IN  [in    |-> IF fence THEN ~u.in ELSE u.in,
       line  |-> x = "nl",
       cdata |-> Cdata(u.cdata, x),
       out   |-> IF fence \/ u.in THEN u.out ELSE Append(u.out, x)]

Unfenced(s) ==
  LET u == FoldLeft(FenceStep, [in |-> FALSE, line |-> TRUE, cdata |-> FALSE, out |-> <<>>], s)
  IN  IF u.in THEN <<>> ELSE u.out

(* findXMLElementBlocks(_, "invoke"): outermost elements that are closed *)
ElementStep(e, x) ==
  IF e.cdata \/ x \notin {"inv", "i"}
  THEN [e EXCEPT !.cdata = Cdata(@, x)]
  ELSE IF x = "inv" THEN [e EXCEPT !.depth = @ + 1, !.seen = TRUE]
  ELSE [e EXCEPT !.depth = IF @ = 0 THEN 0 ELSE @ - 1,
                 !.n = IF e.depth = 1 THEN @ + 1 ELSE @]

Elements(s) ==
  FoldLeft(ElementStep, [depth |-> 0, n |-> 0, seen |-> FALSE, cdata |-> FALSE], s)

(* TryRepairAndParse: the decoder closes what is open, inner elements with it *)
Repaired(s) ==
  IF Elements(s).seen /\ ~\E k \in 4 .. Len(s) : OpenAt(s, k) THEN 1 ELSE 0

(* ParseToolCalls: the number of calls in a block, wrapper included *)
ParsedCalls(block) ==
  LET s == Unfenced(block)
      n == Elements(s).n
  IN  IF n > 0 THEN n ELSE Repaired(s)

(* trimWrappingJSONFence *)
RECURSIVE TrimRight(_), TrimLeft(_)
TrimRight(s) == IF s # <<>> /\ Last(s) = "nl" THEN TrimRight(Front(s)) ELSE s
TrimLeft(s) == IF s # <<>> /\ Head(s) = "nl" THEN TrimLeft(Tail(s)) ELSE s

Unwrapped(prefix, suffix) ==
  LET p == TrimRight(prefix)
      s == TrimLeft(suffix)
      odd == Cardinality({k \in DOMAIN p : p[k] = "f"}) % 2 = 1
  IN  IF p # <<>> /\ s # <<>> /\ Last(p) = "f" /\ Head(s) = "f" /\ odd
      THEN <<Front(p), Tail(s)>>
      ELSE <<prefix, suffix>>

----------------------------------------------------------------------------
(* consumeToolCapture *)

NotReady == [ready |-> FALSE]

(***************************************************************************)
(* The block from start to stop.  It is released as text if it has no call.*)
(***************************************************************************)
Taken(t, start, stop, block) ==
  LET n == ParsedCalls(block)
      parts == Unwrapped(SubSeq(t, 1, start - 1), From(t, stop + 1))
  IN  IF n > 0
      THEN [ready |-> TRUE, calls |-> n, prefix |-> parts[1], suffix |-> parts[2]]
      ELSE [ready |-> TRUE, calls |-> 0, prefix |-> SubSeq(t, 1, stop),
            suffix |-> From(t, stop + 1)]

(* An invoke without its wrapper is taken up to the closing tag *)
Consumed(captured) ==
  LET t  == Stripped(captured)
      o  == FirstOf({k \in 1 .. Len(t) : OpenAt(t, k)})
      v  == FirstOf({k \in 1 .. Len(t) : InvokeAt(t, k)})
      co == Close(t, o + 3)
      cv == Close(t, v + 1)
  IN  IF o > 0
      THEN IF co = 0 THEN NotReady ELSE Taken(t, o, co, SubSeq(t, o, co))
      ELSE IF v = 0 \/ cv = 0 THEN NotReady
      ELSE Taken(t, v, cv, Opening \o SubSeq(t, v, cv))

----------------------------------------------------------------------------
(* ProcessChunk and Flush.  A step of theirs works on a record with the    *)
(* state and what it has released.                                         *)

Fresh == [pending |-> <<>>, capture |-> <<>>, capturing |-> FALSE,
          fence |-> NoFence, calls |-> 0,
          shown |-> <<>>, emitted |-> 0, lost |-> 0, blank |-> FALSE]

Show(s, text) ==
  [s EXCEPT !.shown = @ \o text, !.fence = Noted(@, text),
            !.blank = @ \/ (text # <<>> /\ Blank(text))]

Emit_Again(s) == [s EXCEPT !.emitted = @ + s.calls]

Emit(s) == [s EXCEPT !.emitted = @ + s.calls, !.calls = 0]

(* A new block's calls replace those still pending *)
Pend(s, n) ==
  IF n = 0 THEN s ELSE [s EXCEPT !.lost = @ + s.calls, !.calls = n]

Resolve(s, r) ==
  [Pend(Show(s, r.prefix), r.calls) EXCEPT
      !.capture = <<>>, !.capturing = FALSE, !.pending = r.suffix]

Capture(s, k) ==
  [Show(s, SubSeq(s.pending, 1, k - 1)) EXCEPT
      !.pending = <<>>, !.capture = From(s.pending, k), !.capturing = TRUE]

SafeLength_All(s) == Len(s.pending)

(* splitSafeContentForToolDetection *)
SafeLength(s) ==
  LET k == PartialStart(s.pending)
  IN  IF k = 0 \/ InsideFence(s.fence, SubSeq(s.pending, 1, k - 1))
      THEN Len(s.pending) ELSE k - 1

Release(s) ==
  [Show(s, SubSeq(s.pending, 1, SafeLength(s))) EXCEPT
      !.pending = From(s.pending, SafeLength(s) + 1)]

RECURSIVE Loop(_)
Loop(s) ==
  IF s.capturing
  THEN LET captured == s.capture \o s.pending
           r == Consumed(captured)
       IN  IF r.ready THEN Loop(Resolve(s, r))
           ELSE [s EXCEPT !.capture = captured, !.pending = <<>>]
  ELSE LET k == SegmentStart(s.fence, s.pending)
       IN  IF s.pending = <<>> THEN s
           ELSE IF k > 0 THEN Loop(Capture(s, k))
           ELSE IF SafeLength(s) = 0 THEN s
           ELSE Loop(Release(s))

ProcessChunk(s, chunk) == Loop([Emit(s) EXCEPT !.pending = @ \o chunk])

(* What never became a call is text after all *)
Flushed(s) ==
  LET e == Emit(ProcessChunk(s, <<>>))
  IN  [Show(Show(e, e.capture), e.pending) EXCEPT
          !.capture = <<>>, !.pending = <<>>, !.capturing = FALSE]

----------------------------------------------------------------------------

Init ==
  /\ answer \in Texts
  /\ fed = 0 /\ shown = <<>> /\ emitted = 0 /\ lost = 0
  /\ blank = FALSE /\ done = FALSE
  /\ st = Fresh

(* What has been released is kept in variables of its own *)
Becomes(s) ==
  /\ st' = [s EXCEPT !.shown = <<>>, !.emitted = 0, !.lost = 0, !.blank = FALSE]
  /\ shown' = shown \o s.shown
  /\ emitted' = emitted + s.emitted
  /\ lost' = lost + s.lost
  /\ blank' = (blank \/ s.blank)

Feed ==
  /\ fed < Len(answer)
  /\ \E n \in (fed + 1) .. Len(answer) :
       /\ Becomes(ProcessChunk(st, SubSeq(answer, fed + 1, n)))
       /\ fed' = n
  /\ UNCHANGED <<answer, done>>

Finish ==
  /\ fed = Len(answer) /\ ~done
  /\ Becomes(Flushed(st))
  /\ done' = TRUE
  /\ UNCHANGED <<answer, fed>>

Next == Feed \/ Finish

Spec == Init /\ [][Next]_vars

----------------------------------------------------------------------------
(* The reference: the whole answer read from left to right at once *)

RECURSIVE Whole(_, _)
Whole(f, s) ==
  LET k == SegmentStart(f, s)
      r == Consumed(From(s, k))
  IN  IF k = 0 \/ ~r.ready THEN [text |-> s, calls |-> 0]
      ELSE LET front == SubSeq(s, 1, k - 1) \o r.prefix
               rest  == Whole(Noted(f, front), r.suffix)
           IN  [text |-> front \o rest.text, calls |-> r.calls + rest.calls]

Wrapped(k) ==
  \E o \in 1 .. k : OpenAt(answer, o) /\ Close(answer, o + 3) \notin 1 .. k

(***************************************************************************)
(* Answers without markers, in which no wrapper follows an invoke that has *)
(* none: if both come in one chunk, the wrapper decides and the invoke is  *)
(* text, and if they come in two, the invoke is a call.                    *)
(***************************************************************************)
Regular ==
  /\ \A k \in DOMAIN answer : answer[k] # "mk"
  /\ \A k, o \in DOMAIN answer :
       InvokeAt(answer, k) /\ OpenAt(answer, o) /\ k < o => Wrapped(k)

(***************************************************************************)
(* However a regular answer is cut into chunks, the text released          *)
(* is at any time a beginning of what the whole answer shows, and all of   *)
(* it in the end: no tag leaks, nothing is swallowed or reordered.  (Not   *)
(* so if a chunk of blanks alone was released: see FencedStaysText.)       *)
(***************************************************************************)
TextAsWhole ==
  ~blank /\ Regular =>
    LET visible == Whole(NoFence, answer).text
    IN  IF done THEN shown = visible ELSE IsPrefix(shown, visible)

(***************************************************************************)
(* Each call of the whole answer is released exactly once, except those    *)
(* overwritten by the calls of a second block in the same chunk.           *)
(***************************************************************************)
CallsAsWhole ==
  done /\ ~blank /\ Regular => emitted + lost = Whole(NoFence, answer).calls

(* No call is overwritten before it is released (no run: it does not hold) *)
NoneOverwritten == ~blank /\ Regular => lost = 0

(***************************************************************************)
(* docs/toolcall-semantics.md: XML in a fenced code block is always text.  *)
(***************************************************************************)
FencedStaysText ==
  done /\ Regular /\ Whole(NoFence, answer).calls = 0 => emitted = 0
============================================================================
