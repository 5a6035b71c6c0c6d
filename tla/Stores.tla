--------------------------------- MODULE Stores ---------------------------------
(***************************************************************************)
(* The stores beside the configuration and the chat history, which are the *)
(* reasoning of answers, finished responses, token records, captured       *)
(* rounds and raw samples, and an answer on its way to the clients of the  *)
(* other APIs.  They share nothing, neither state nor locks, so a          *)
(* behaviour of one of them is explored by itself; focus says which.       *)
(***************************************************************************)
EXTENDS Integers, Sequences, FiniteSets

CONSTANTS Conversations, Entries, ThinkingTtl, LastStore, MaxStores, Torn,
          Owners, TTLs, Default, LastGet, MaxResponses,
          Ranges, Retention, LastRecord, MaxRecords,
          Requests, Sampled, Captures, MaxRounds, LastRound,
          MaxPersists,
          MaxPieces, MaxCalls, Paths, MaxPings,
          None

VARIABLES focus,
          data, index, mem, pc, tnow, saved, troubled,
          ttl, setting, items, rnow, log,
          file, writing, snow, done, lost,
          caps, state, round, created, handler, cnow, before, sample, pushed, since, cleared,
          dirs, temps, at, name, dir, answered,
          ask, said, ended, res, cla, gem, proxy, pings

T == INSTANCE ThinkingCache WITH Limit <- Entries, Ttl <- ThinkingTtl, MaxTime <- LastStore,
                                 now <- tnow
R == INSTANCE ResponseStore WITH MaxTime <- LastGet, now <- rnow
S == INSTANCE TokenStats WITH MaxTime <- LastRecord, now <- snow, log <- done
C == INSTANCE DevCapture WITH Limit <- Captures, MaxTime <- LastRound, now <- cnow, items <- caps
D == INSTANCE RawSamples WITH Pages <- Requests, pc <- at
Api == INSTANCE ApiStreams

(* maxEntries (cache.go:421) and newResponseStore (response_store.go:22) put  *)
(* their defaults for what is not positive.  A file that is cut off is not an *)
(* index.                                                                     *)
ASSUME StoresAssumption ==
  /\ Entries \in Nat \ {0} /\ ThinkingTtl \in Nat \ {0}
  /\ TTLs \subseteq Nat /\ Default \in Nat \ {0}
  /\ \A keys \in SUBSET T!Keys : Torn \notin [keys -> [created : Nat, expires : Nat]]

(* No range of the page goes back further than the records are kept: 30 days  *)
(* are the longest range and the retention (store.go:38).  A file that is cut *)
(* off is not a list of records.                                              *)
ASSUME RangesAssumption ==
  /\ Retention \in Nat /\ Torn \notin Seq(Nat)
  /\ \A range \in Ranges : /\ range.points \in Nat \ {0} /\ range.interval \in Nat \ {0}
                           /\ range.points * range.interval <= Retention

(* NewFromEnv (devcapture/store.go:79) does the same for its limit.            *)
ASSUME CapturesAssumption == Captures \in Nat \ {0} /\ Sampled \in Requests

(* Every piece of an answer has room for the same number of calls. *)
ASSUME StreamsAssumption == {MaxPieces, MaxCalls, MaxPings} \subseteq Nat /\ None \notin Paths

thinking  == <<data, index, mem, pc, tnow, saved, troubled>>
responses == <<ttl, setting, items, rnow, log>>
tokens    == <<file, writing, snow, done, lost>>
captures  == <<caps, state, round, created, handler, cnow, before, sample, pushed, since, cleared>>
samples   == <<dirs, temps, at, name, dir, answered>>
streams   == <<ask, said, ended, res, cla, gem, proxy, pings>>

vars == <<focus, thinking, responses, tokens, captures, samples, streams>>

(* What is not explored is left at one of its initial states *)
Init == /\ focus \in {"thinking", "responses", "tokens", "captures", "samples", "streams"}
        /\ T!Init /\ R!Init /\ S!Init /\ C!Init /\ D!Init /\ Api!Init
        /\ focus # "responses" => setting = CHOOSE n \in TTLs : TRUE
        /\ focus # "streams" => ask = [think |-> FALSE, tools |-> FALSE, required |-> FALSE]

Next ==
  /\ UNCHANGED focus
  /\ \/ focus = "thinking"  /\ T!Next /\ UNCHANGED <<responses, tokens, captures, samples, streams>>
     \/ focus = "responses" /\ R!Next /\ UNCHANGED <<thinking, tokens, captures, samples, streams>>
     \/ focus = "tokens"    /\ S!Next /\ UNCHANGED <<thinking, responses, captures, samples, streams>>
     \/ focus = "captures"  /\ C!Next /\ UNCHANGED <<thinking, responses, tokens, samples, streams>>
     \/ focus = "samples"   /\ D!Next /\ UNCHANGED <<thinking, responses, tokens, captures, streams>>
     \/ focus = "streams"   /\ Api!Next /\ UNCHANGED <<thinking, responses, tokens, captures, samples>>

Spec == Init /\ [][Next]_vars

---------------------------------------------------------------------------------
(* What Apply restores is what was stored last for the conversation, whatever   *)
(* was stored before or stopped on the way: ThinkingCache says when.            *)
RestoredAsStored  == T!RestoredAsStored

(* A finished response is found by its owner until its time is over, and by     *)
(* nobody else: ResponseStore.                                                  *)
FoundByItsOwner   == R!FoundByItsOwner

(* The page counts each request of its range once: TokenStats.                  *)
EachCountedOnce   == S!EachCountedOnce

(* The chain of a session is its latest rounds, in order and with no hole:      *)
(* DevCapture.                                                                  *)
ChainsAreSuffixes == C!ChainsAreSuffixes

(* A sample has the latest rounds of the request it was taken for, in order:    *)
(* DevCapture.                                                                  *)
SampleHasOwn      == C!SampleHasOwn

(* A page finds the sample it was told is saved, its own and whole: RawSamples. *)
AnsweredOnDisk    == D!AnsweredOnDisk

(* The items of a streamed response are added, used and done once, in that      *)
(* order: ApiStreams.                                                           *)
ItemsWellFormed   == Api!ItemsWellFormed

(* The content blocks of the Claude stream are numbered without gaps and follow *)
(* each other: ApiStreams.                                                      *)
BlocksWellFormed  == Api!BlocksWellFormed

(* Each API delivers every tool call of an answer once, in order: ApiStreams.   *)
CallsOnce         == Api!CallsOnce

(* Each API delivers the text once, in order and to the end: ApiStreams.        *)
TextOnce          == Api!TextOnce

(* The translator gets the lines of the chat stream whole, once and in order:   *)
(* ApiStreams.                                                                  *)
LinesTranslated   == Api!LinesTranslated
=================================================================================
