--------------------------- MODULE AnswerParser ---------------------------
(***************************************************************************)
(* How the lines of DeepSeek's answer become text and thinking (sse/):     *)
(* the parser of one line, and its two consumers, the streaming runtime    *)
(* and CollectStream.  The answer of DeepSeek is a list of fragments, sent *)
(* as patches; what it sends follows the observed streams (docs/DeepSeek   *)
(* SSE).                                                                   *)
(*                                                                         *)
(* A token of the answer is a number, 0 stands for </think> and -1 for the *)
(* leaked marker CONTENT_FILTER.  The value of a patch is a record:        *)
(*   [k |-> "text", s]    a string of the answer                           *)
(*   [k |-> "word", w]    a string that is a status                        *)
(*   [k |-> "array", a]   patches [p, v], or fragments [p |-> "-", ...]    *)
(*   [k |-> "object", fs] a response with its fragments                    *)
(*   [k |-> "error"]      an error instead of a patch                      *)
(***************************************************************************)
EXTENDS Integers, FiniteSets, Sequences, SequencesExt

CONSTANTS
  MaxTokens,     \* tokens of an answer
  MaxFragments,  \* fragments of an answer
  MaxRounds,     \* continuations
  MinSnapshot,   \* minContinuationSnapshotLen, 32 bytes
  Urls           \* the search results, in their order

ASSUME ParserAssumption ==
  /\ {MaxTokens, MaxFragments, MaxRounds, MinSnapshot} \subseteq Nat

VARIABLES
  enabled,   \* whether thinking was asked for
  tree,      \* the fragments of DeepSeek's answer, [type, s, form]
  n,         \* the tokens it has produced
  round,     \* continuations so far
  open,      \* whether the body goes on
  type,      \* currentType, the same in both consumers
  stream,    \* what the streaming runtime has
  collect,   \* what CollectStream has
  cites,     \* the citationLinkCollector
  unclear    \* whether a snapshot was replayed that TrimContinuationOverlap does not recognise

vars == <<enabled, tree, n, round, open, type, stream, collect, cites, unclear>>

CloseTag == 0
Leak == -1

Content(s) == [k |-> "text", s |-> s]
Word(w)    == [k |-> "word", w |-> w]
Array(a)   == [k |-> "array", a |-> a]
Frag(t, s) == [p |-> "-", type |-> t, s |-> s]

----------------------------------------------------------------------------
(* The parser of a line *)

IsStatusPath(p) == p \in {"response/status", "status"}

SkipPath(p) == p \in {"quasi_status", "response/fragments/-1/status", "token_usage"}

KindOf(t, default) ==
  CASE t = "THINK" -> "thinking" [] t = "RESPONSE" -> "text" [] OTHER -> default

Part(s, t) == IF s = <<>> THEN <<>> ELSE <<[s |-> s, type |-> t]>>

Fragments(fs, default) ==
  FlattenSeq([j \in DOMAIN fs |-> Part(fs[j].s, KindOf(fs[j].type, default))])

(* The type after a list of fragments *)
TypeAfter(t, fs) == FoldLeft(LAMBDA u, f : KindOf(f.type, u), t, fs)

(* collectDirectFragments: fragments appended to the list *)
Direct(c) ==
  IF c.p = "response/fragments" /\ c.v.k = "array" THEN c.v.a ELSE <<>>

(* updateTypeFromNestedResponse: fragments appended by a batch *)
Nested(c) ==
  IF c.p # "response" \/ c.v.k # "array" THEN <<>>
  ELSE FlattenSeq([j \in DOMAIN c.v.a |->
         IF c.v.a[j].p = "fragments" THEN c.v.a[j].v.a ELSE <<>>])

(* resolvePartType *)
PartType(p, t) ==
  CASE p = "response/thinking_content" -> IF enabled /\ t = "text" THEN "text" ELSE "thinking"
    [] p = "response/content" -> "text"
    [] p = "response/fragments/-1/content" -> t
    [] p = "" /\ enabled -> t
    [] OTHER -> "text"

(* extractContentRecursive, for an item that has a value *)
Item(i, default) ==
  CASE i.p = "-" \/ IsStatusPath(i.p) \/ SkipPath(i.p) -> <<>>
    [] i.p = "fragments" -> Fragments(i.v.a, "text")
    [] OTHER -> IF i.v.k = "text" THEN Part(i.v.s, default) ELSE <<>>

(* appendChunkValueContent, the parts of the value itself *)
Parts(c, default) ==
  CASE c.v.k = "text"   -> Part(c.v.s, default)
    [] c.v.k = "array"  -> FlattenSeq([j \in DOMAIN c.v.a |-> Item(c.v.a[j], default)])
    [] c.v.k = "object" -> Fragments(c.v.fs, default)
    [] OTHER            -> <<>>

Finished(c) ==
  \/ c.v.k = "word" /\ c.v.w = "FINISHED" /\ (IsStatusPath(c.p) \/ c.p = "")
  \/ c.v.k = "array" /\ \E j \in DOMAIN c.v.a :
       IsStatusPath(c.v.a[j].p) /\ c.v.a[j].v = Word("FINISHED")

(* hasContentFilterStatus *)
Filtered(c) ==
  \/ IsStatusPath(c.p) /\ c.v = Word("CONTENT_FILTER")
  \/ c.v.k = "array" /\ \E j \in DOMAIN c.v.a :
       c.v.a[j].p \in {"status", "response/status", "quasi_status"} /\ c.v.a[j].v = Word("CONTENT_FILTER")

Without(s, tok) == SelectSeq(s, LAMBDA x : x # tok)

Before(s, tok) ==
  IF tok \in Range(s) THEN SubSeq(s, 1, (CHOOSE k \in DOMAIN s : s[k] = tok /\ tok \notin Range(SubSeq(s, 1, k - 1))) - 1)
  ELSE s

(***************************************************************************)
(* splitThinkingParts: what follows </think> is text, in the rest of the   *)
(* part and in the parts after it.                                         *)
(***************************************************************************)
SplitStep(u, part) ==
  LET cut == part.type = "thinking" /\ ~u.done /\ CloseTag \in Range(part.s)
      thought == Before(part.s, CloseTag)
      after == SubSeq(part.s, Len(thought) + 1, Len(part.s))
  IN  IF cut
      THEN [done |-> TRUE,
            out |-> u.out \o Part(thought, "thinking") \o Part(Without(after, CloseTag), "text")]
      ELSE IF part.type = "thinking" /\ ~u.done
      THEN [u EXCEPT !.out = Append(@, part)]
      ELSE [u EXCEPT !.out = @ \o Part(Without(part.s, CloseTag), "text")]

Split(parts) == FoldLeft(SplitStep, [done |-> FALSE, out |-> <<>>], parts)

(* filterLeakedContentFilterParts *)
Unleaked(parts) ==
  FlattenSeq([j \in DOMAIN parts |-> Part(Before(parts[j].s, Leak), parts[j].type)])

Silent(t) == [stop |-> FALSE, filter |-> FALSE, error |-> FALSE, parts |-> <<>>, next |-> t]

(* ParseDeepSeekContentLine of a patch, ParseSSEChunkForContent *)
Parsed(c, t) ==
  LET objects == IF c.v.k = "object" THEN c.v.fs ELSE <<>>
      t1 == TypeAfter(TypeAfter(t, Direct(c)), Nested(c))
      t2 == TypeAfter(t1, objects)
      all == Split(Fragments(Direct(c), "text") \o Parts(c, PartType(c.p, t1)))
      shown == IF enabled THEN all.out ELSE SelectSeq(all.out, LAMBDA x : x.type = "text")
  IN  CASE c.v.k = "error" -> [Silent(t) EXCEPT !.stop = TRUE, !.error = TRUE]
        [] Filtered(c) -> [Silent(t) EXCEPT !.stop = TRUE, !.filter = TRUE]
        [] ~Filtered(c) /\ (SkipPath(c.p) \/ (IsStatusPath(c.p) /\ ~Finished(c))) -> Silent(t)
        [] ~Filtered(c) /\ Finished(c) -> [Silent(t2) EXCEPT !.stop = TRUE]
        [] OTHER -> [Silent(IF all.done \/ ~enabled THEN "text" ELSE t2)
                       EXCEPT !.parts = Unleaked(shown)]

----------------------------------------------------------------------------
(* The consumers *)

Trimmed_Never(existing, incoming) == incoming

(* TrimContinuationOverlap *)
Trimmed(existing, incoming) ==
  IF existing = <<>> \/ Len(incoming) < MinSnapshot THEN incoming
  ELSE IF IsPrefix(existing, incoming) THEN SubSeq(incoming, Len(existing) + 1, Len(incoming))
  ELSE IF IsPrefix(incoming, existing) THEN <<>>
  ELSE incoming

AddPart(r, part) ==
  IF part.type = "thinking"
  THEN [r EXCEPT !.thinking = @ \o Trimmed(@, part.s)]
  ELSE [r EXCEPT !.text = @ \o Trimmed(@, part.s)]

(***************************************************************************)
(* onParsed: the engine stops at once.  An error is taken for a filter, a  *)
(* filter after some text for a normal end.                                *)
(***************************************************************************)
Streamed(r, line) ==
  IF r.stopped THEN r
  ELSE IF line.stop
  THEN [r EXCEPT !.stopped = TRUE, !.filter = line.error \/ (line.filter /\ r.text = <<>>)]
  ELSE FoldLeft(AddPart, r, line.parts)

Collected_ReadsOn(r, line) ==
  IF line.stop THEN [r EXCEPT !.filter = @ \/ line.filter, !.stopped = TRUE]
  ELSE FoldLeft(AddPart, r, line.parts)

(* CollectStream reads on after a stop, but for citations only; no error *)
Collected(r, line) ==
  IF r.stopped THEN r
  ELSE IF line.stop THEN [r EXCEPT !.stopped = TRUE, !.filter = @ \/ line.filter]
  ELSE FoldLeft(AddPart, r, line.parts)

Receive(c) ==
  LET line == Parsed(c, type)
  IN  /\ type' = line.next
      /\ stream' = Streamed(stream, line)
      /\ collect' = Collected(collect, line)

Unread == UNCHANGED <<type, stream, collect>>

----------------------------------------------------------------------------
(* The citation links: URLs in order of appearance, and by explicit index  *)

Cite(r, x) ==
  [ordered |-> Append(r.ordered, x.url),
   explicit |-> IF x.idx < 0 \/ (\E e \in r.explicit : e[1] = x.idx) THEN r.explicit
                ELSE r.explicit \cup {<<x.idx, x.url>>}]

At(r, i) == {e[2] : e \in {e \in r.explicit : e[1] = i}}

Expected(r, i, u) == i \in DOMAIN r.ordered /\ r.ordered[i] = u

(* build: if some index is zero, they may all be one too small *)
Links(r) ==
  [i \in DOMAIN r.ordered |->
     LET here    == At(r, i)
         shifted == IF At(r, 0) = {} THEN {} ELSE At(r, i - 1)
     IN  IF here = {} /\ shifted = {} THEN r.ordered[i]
         ELSE IF here = {} THEN CHOOSE u \in shifted : TRUE
         ELSE IF \E u \in shifted : Expected(r, i, u) THEN r.ordered[i]
         ELSE CHOOSE u \in here : TRUE]

----------------------------------------------------------------------------
(* DeepSeek's answer (external) *)

Empty == [text |-> <<>>, thinking |-> <<>>, stopped |-> FALSE, filter |-> FALSE]

Init ==
  /\ enabled \in BOOLEAN
  /\ tree = <<>> /\ n = 0 /\ round = 0 /\ open = TRUE
  /\ type = IF enabled THEN "thinking" ELSE "text"
  /\ stream = Empty /\ collect = Empty
  /\ cites = [ordered |-> <<>>, explicit |-> {}]
  /\ unclear = FALSE

Tokens(k) == {[j \in 1 .. k |-> n + j]} \cup (IF k = 1 THEN {<<CloseTag>>, <<Leak>>} ELSE {})

(* A new fragment, with or without its first tokens, in one of three shapes *)
OpenFragment ==
  /\ open /\ Len(tree) < MaxFragments
  /\ \E t \in {"THINK", "RESPONSE"}, k \in 0 .. 2, shape \in {"envelope", "append", "batch"} :
       /\ n + k <= MaxTokens
       /\ shape = "envelope" => tree = <<>>
       /\ \E s \in Tokens(k) :
            /\ tree' = Append(tree, [type |-> t, s |-> s, form |-> "fragment"])
            /\ Receive(CASE shape = "envelope" -> [p |-> "", v |-> [k |-> "object", fs |-> <<Frag(t, s)>>]]
                         [] shape = "append" -> [p |-> "response/fragments", v |-> Array(<<Frag(t, s)>>)]
                         [] shape = "batch" -> [p |-> "response",
                              v |-> Array(<<[p |-> "fragments", v |-> Array(<<Frag(t, s)>>)],
                                            [p |-> "quasi_status", v |-> Word("FINISHED")]>>)])
       /\ n' = n + k
  /\ UNCHANGED <<enabled, round, open, cites, unclear>>

(* The next tokens of the last fragment, with its path or without *)
NextTokens ==
  /\ open /\ tree # <<>> /\ n < MaxTokens
  /\ Last(tree).form = "fragment"
  /\ \E s \in Tokens(1), p \in {"", "response/fragments/-1/content"} :
       /\ tree' = [tree EXCEPT ![Len(tree)].s = @ \o s]
       /\ Receive([p |-> p, v |-> Content(s)])
  /\ n' = n + 1
  /\ UNCHANGED <<enabled, round, open, cites, unclear>>

(***************************************************************************)
(* The older form: thinking_content before content, each with its path; a  *)
(* token after the first may leave out thinking_content.                   *)
(***************************************************************************)
OldForm ==
  /\ open /\ n < MaxTokens
  /\ \A j \in DOMAIN tree : tree[j].form = "path"
  /\ \E p \in {"", "response/thinking_content", "response/content"} :
       LET t == IF p = "response/content" THEN "RESPONSE" ELSE "THINK"
       IN  /\ IF tree # <<>> /\ Last(tree).type = t
              THEN tree' = [tree EXCEPT ![Len(tree)].s = Append(@, n + 1)]
              ELSE /\ p # "" /\ (t = "THINK" => tree = <<>>)
                   /\ tree' = Append(tree, [type |-> t, s |-> <<n + 1>>, form |-> "path"])
           /\ Receive([p |-> p, v |-> Content(<<n + 1>>)])
  /\ n' = n + 1
  /\ UNCHANGED <<enabled, round, open, cites, unclear>>

(***************************************************************************)
(* Search results, in the order of their indices, before the answer; the   *)
(* first index is 1 or 0, or they have none.                               *)
(***************************************************************************)
Results ==
  /\ open /\ tree = <<>> /\ cites.ordered = <<>>
  /\ \E base \in {-1, 0, 1} :
       cites' = FoldLeftDomain(
         LAMBDA r, j : Cite(r, [url |-> Urls[j], idx |-> IF base < 0 THEN -1 ELSE base + j - 1]),
         cites, Urls)
  /\ Unread
  /\ UNCHANGED <<enabled, tree, n, round, open, unclear>>

(* The end, or a filter or an error that replaces the end *)
End ==
  /\ open
  /\ \E c \in {[p |-> "response/status", v |-> Word("FINISHED")],
               [p |-> "", v |-> [k |-> "error"]],
               [p |-> "", v |-> Array(<<[p |-> "status", v |-> Word("CONTENT_FILTER")],
                                        [p |-> "fragments", v |-> Array(<<Frag("OTHER", <<n + 1>>)>>)]>>)]} :
       Receive(c)
  /\ UNCHANGED <<enabled, tree, n, round, open, cites, unclear>>

Snapshot == [j \in DOMAIN tree |-> Frag(tree[j].type, tree[j].s)]

(* Each kind has one fragment, long enough, and no tag in it *)
Recognised ==
  /\ Len(tree) <= 2 /\ (Len(tree) = 2 => tree[1].type # tree[2].type)
  /\ \A j \in DOMAIN tree : /\ Len(tree[j].s) >= MinSnapshot
                            /\ {CloseTag, Leak} \cap Range(tree[j].s) = {}

(* An answer that is not complete is continued: it comes again from the start *)
Continue ==
  /\ open /\ round < MaxRounds /\ tree # <<>>
  /\ \A j \in DOMAIN tree : tree[j].form = "fragment"
  /\ Receive([p |-> "", v |-> [k |-> "object", fs |-> Snapshot]])
  /\ unclear' = (unclear \/ (~Recognised /\ ~stream.stopped))
  /\ round' = round + 1
  /\ UNCHANGED <<enabled, tree, n, open, cites>>

Done ==
  /\ open /\ open' = FALSE
  /\ Unread
  /\ UNCHANGED <<enabled, tree, n, round, cites, unclear>>

Next == OpenFragment \/ NextTokens \/ OldForm \/ Results \/ End \/ Continue \/ Done

Spec == Init /\ [][Next]_vars

----------------------------------------------------------------------------
(* Properties *)

(* What a fragment says: text, or thinking up to </think> *)
Spoken(f) == IF f.type = "RESPONSE" THEN f.s
             ELSE SubSeq(f.s, Len(Before(f.s, CloseTag)) + 1, Len(f.s))
Thought(f) == IF f.type = "RESPONSE" THEN <<>> ELSE Before(f.s, CloseTag)

Proper(s) == SelectSeq(s, LAMBDA x : x > 0)
Says(Of(_)) == Proper(FlattenSeq([j \in DOMAIN tree |-> Of(tree[j])]))

(***************************************************************************)
(* With thinking on, each token of the answer is where it belongs, once    *)
(* and in order, whatever shapes the patches had and although snapshots    *)
(* were replayed (if they are long and of one fragment per kind).          *)
(***************************************************************************)
TokensInPlace ==
  enabled /\ ~unclear /\ ~stream.stopped =>
    stream.text = Says(Spoken) /\ stream.thinking = Says(Thought)

(***************************************************************************)
(* The streamed and the collected answer are the same, also when lines     *)
(* follow the end, and the i-th link of the collected one is the i-th      *)
(* search result, whether DeepSeek counts them from zero or from one.      *)
(***************************************************************************)
CollectAgrees ==
  /\ collect.text = stream.text /\ collect.thinking = stream.thinking
  /\ collect.filter /\ collect.text = <<>> => stream.filter
  /\ \A i \in DOMAIN cites.ordered : Links(cites)[i] = Urls[i]

(***************************************************************************)
(* docs/prompt-compatibility.md: with thinking off, thinking that DeepSeek *)
(* sends nevertheless in thinking_content is not shown as text.            *)
(***************************************************************************)
ThinkingStaysHidden ==
  ~enabled => \A j \in DOMAIN tree :
    tree[j].form = "path" => Range(Thought(tree[j])) \cap Range(stream.text) = {}
============================================================================
