-------------------------------- MODULE MCTexts --------------------------------
(***************************************************************************)
(* The parser of DeepSeek's answers and the tool sieve share nothing: one  *)
(* run explores each of them by itself, chosen in the initial state.       *)
(***************************************************************************)
EXTENDS AnswerParser

VARIABLES focus, answer, fed, st, shown, emitted, lost, blank, done

ThreeUrls == <<"u1", "u2", "u3">>

Block   == <<"<", "tool", "calls>", "<", "inv", "w", "i", "E">>
Bare    == <<"<", "inv", "w", "i", "E">>
Bad     == <<"<", "tool", "calls>", "w", "E">>
Quoting == <<"<", "tool", "calls>", "<", "inv", "C", "E", "D", "i", "E">>
Begun   == <<"<", "tool", "calls>", "<", "inv", "w">>
Fence   == <<"nl", "f", "nl">>
Half    == <<"<", "tool">>
Dsml    == <<"<", "mk", "tool", "calls>", "<", "mk", "inv", "w", "i", "E">>
Plain   == <<"w">>

Segments == {Block, Bare, Bad, Quoting, Fence, Half, Plain, Begun, Dsml}

Sentences == UNION {[1 .. k -> Segments] : k \in 1 .. 3}

(* A fence that is opened in one of them is closed by another *)
Fenced == {<<Plain, Fence, b, Fence, c>> : b \in Segments, c \in Segments}

Sieve == INSTANCE ToolSieve WITH Texts <- {FlattenSeq(s) : s \in Sentences \cup Fenced}

parser == <<enabled, tree, n, round, open, type, stream, collect, cites, unclear>>
sieve  == <<answer, fed, st, shown, emitted, lost, blank, done>>

(* The sieve is left at its start with one text while the parser is explored *)
BothInit ==
  /\ focus \in {"parser", "sieve"}
  /\ Init /\ Sieve!Init
  /\ focus = "parser" => answer = Plain
  /\ focus = "sieve" => enabled

BothNext ==
  /\ UNCHANGED focus
  /\ \/ focus = "parser" /\ Next /\ UNCHANGED sieve
     \/ focus = "sieve" /\ Sieve!Next /\ UNCHANGED parser

BothSpec == BothInit /\ [][BothNext]_<<focus, parser, sieve>>

TextAsWhole  == Sieve!TextAsWhole
CallsAsWhole == Sieve!CallsAsWhole
===============================================================================
