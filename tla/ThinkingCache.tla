----------------------------- MODULE ThinkingCache -----------------------------
(***************************************************************************)
(* internal/thinkingcache: the reasoning of an answer is kept on disk,     *)
(* under the fingerprint of the messages it answered, and given back to    *)
(* the assistant's message when the conversation comes in again.           *)
(*                                                                         *)
(* The package holds one mutex, so its steps interleave with nothing but   *)
(* a stop of the process or a write that fails: a file is one data file    *)
(* per fingerprint and the index, each rewritten in place.  A reasoning    *)
(* is the number of the Store that saved it.                               *)
(***************************************************************************)
EXTENDS Integers, Sequences, FiniteSets

CONSTANTS Conversations,    \* the messages of requests
          Limit,            \* maxEntries()
          Ttl,              \* 120 minutes
          MaxTime, MaxStores,
          Torn              \* a file that was cut off

VARIABLES data,      \* data files: fingerprint -> reasoning
          index,     \* index.json: fingerprint -> [created, expires], or Torn
          mem,       \* the index in the memory of a running Store
          pc,        \* the file operation a running Store is at
          now,       \* each Store has a time of its own: the clock has nanoseconds
          saved,     \* of each Store: its fingerprint and its time
          troubled   \* a Store was stopped, or a write failed

vars == <<data, index, mem, pc, now, saved, troubled>>

(* A block that is not text, tool_use or tool_result is left with its type alone *)
normalizeContentForFingerprint(content) ==
  [i \in DOMAIN content |->
     IF content[i].type \in {"text", "tool_use", "tool_result"} THEN content[i]
     ELSE [content[i] EXCEPT !.value = 0]]

(* Messages of the system are left out, and the reasoning of the others *)
normalizeForFingerprint(messages) ==
  [i \in DOMAIN SelectSeq(messages, LAMBDA m : m.role # "system") |->
     LET m == SelectSeq(messages, LAMBDA x : x.role # "system")[i]
     IN [role |-> m.role,
         content |-> normalizeContentForFingerprint(
                       SelectSeq(m.content, LAMBDA b : b.type \notin {"reasoning", "thinking"}))]]

keyFor(messages) == normalizeForFingerprint(messages)

(* The upload of inline files writes into the messages the handler keeps for Store *)
PreprocessInlineFileInputs(messages) ==
  [i \in DOMAIN messages |->
     [messages[i] EXCEPT !.content =
        [k \in DOMAIN @ |-> IF @[k].type = "image_url" THEN [@[k] EXCEPT !.type = "input_image"]
                            ELSE @[k]]]]

Keys == {keyFor(c) : c \in UNION {{SubSeq(d, 1, n) : n \in 0 .. Len(d)} : d \in Conversations}}
        \cup {keyFor(PreprocessInlineFileInputs(c)) : c \in Conversations}

Drop(f, gone) == [k \in DOMAIN f \ gone |-> f[k]]

loadIndex == IF index = Torn THEN <<>> ELSE index

Expired(idx) == {k \in DOMAIN idx : now >= idx[k].expires}

(* The oldest entries above the limit *)
Overflow_Newest(idx) ==
  {k \in DOMAIN idx :
     Cardinality({l \in DOMAIN idx : idx[l].created < idx[k].created}) >= Limit}
Newer(idx, k) == {l \in DOMAIN idx : idx[l].created > idx[k].created}
Overflow(idx) == {k \in DOMAIN idx : Cardinality(Newer(idx, k)) >= Limit}

Init == /\ data = <<>> /\ index = <<>> /\ mem = <<>>
        /\ pc = "idle" /\ now = 0 /\ saved = <<>> /\ troubled = FALSE

(* Apply takes the files of expired entries away, and leaves the index as it is *)
Apply == /\ pc = "idle"
         /\ data' = Drop(data, Expired(loadIndex))
         /\ UNCHANGED <<index, mem, pc, now, saved, troubled>>

(* Store, up to the write of its data *)
StoreBegins(c) ==
  /\ pc = "idle" /\ c # <<>> /\ Len(saved) < MaxStores /\ now < MaxTime
  /\ now' = now + 1
  /\ LET gone == Expired(loadIndex)
     IN data' = Drop(data, gone) /\ mem' = Drop(loadIndex, gone)
  /\ saved' = Append(saved, [key |-> keyFor(PreprocessInlineFileInputs(c)), time |-> now])
  /\ pc' = "data"
  /\ UNCHANGED <<index, troubled>>

Current == saved[Len(saved)]

(* WriteFile cuts the file off before it writes *)
OpenData == /\ pc = "data"
            /\ data' = [k \in DOMAIN data \cup {Current.key} |->
                          IF k = Current.key THEN Torn ELSE data[k]]
            /\ pc' = "write"
            /\ UNCHANGED <<index, mem, now, saved, troubled>>

WriteData ==
  /\ pc = "write"
  /\ LET entry == [created |-> Current.time, expires |-> Current.time + Ttl]
         all == [k \in DOMAIN mem \cup {Current.key} |->
                   IF k = Current.key THEN entry ELSE mem[k]]
         gone == Overflow(all)
     IN /\ mem' = Drop(all, gone)
        /\ data' = Drop([data EXCEPT ![Current.key] = Len(saved)], gone)
  /\ pc' = "index"
  /\ UNCHANGED <<index, now, saved, troubled>>

OpenIndex == /\ pc = "index" /\ index' = Torn /\ pc' = "save"
             /\ UNCHANGED <<data, mem, now, saved, troubled>>

SaveIndex == /\ pc = "save" /\ index' = mem /\ pc' = "idle" /\ mem' = <<>>
             /\ UNCHANGED <<data, now, saved, troubled>>

(* The process stops or the write fails: the files stay as they are *)
Stop == /\ pc # "idle" /\ pc' = "idle" /\ mem' = <<>> /\ troubled' = TRUE
        /\ UNCHANGED <<data, index, now, saved>>

Tick == /\ pc = "idle" /\ now < MaxTime /\ now' = now + 1
        /\ UNCHANGED <<data, index, mem, pc, saved, troubled>>

Next == \/ Apply \/ \E c \in Conversations : StoreBegins(c)
        \/ OpenData \/ WriteData \/ OpenIndex \/ SaveIndex \/ Stop \/ Tick

Spec == Init /\ [][Next]_vars

(* What Apply puts into the assistant's message that follows the fingerprint; 0 is nothing *)
readThinking(key) ==
  IF key \in DOMAIN loadIndex \ Expired(loadIndex) /\ key \in DOMAIN data THEN data[key] ELSE 0

Times(key) == {n \in DOMAIN saved : saved[n].key = key}
Latest(key) == CHOOSE n \in Times(key) : \A m \in Times(key) : m <= n

-------------------------------------------------------------------------------
(* While no write was cut off, a conversation that comes in again is given   *)
(* the reasoning of its last answer for two hours, as long as fewer than     *)
(* Limit other conversations were stored since: the pruning by age, the      *)
(* pruning by number and the files agree.                                    *)
LatestRestored ==
  ~troubled =>
    \A key \in Keys :
      readThinking(key) =
        IF /\ Times(key) # {}
           /\ now < saved[Latest(key)].time + Ttl
           /\ Cardinality({k \in Keys \ {key} : Times(k) # {} /\ Latest(k) > Latest(key)}) < Limit
        THEN Latest(key) ELSE 0

(* Whatever was stopped and whatever failed: the reasoning that is restored  *)
(* was stored less than two hours ago for a conversation of this fingerprint, *)
(* or is the part of it that reached the disk.                                *)
OwnAndFresh ==
  \A key \in Keys :
    LET n == readThinking(key)
    IN n \notin {0, Torn} => saved[n].key = key /\ now < saved[n].time + Ttl

(* What Apply restores, before and after a stop between any two writes of    *)
(* Store.                                                                    *)
RestoredAsStored == pc = "idle" => LatestRestored /\ OwnAndFresh

(* cache.go:106 calls the key the fingerprint of the prompt-visible messages: *)
(* two conversations that differ only in their system message, or in the file *)
(* of a block, have the same key (no run: it does not hold).                  *)
PromptVisible == \A c, d \in Conversations : keyFor(c) = keyFor(d) => c = d

(* handler_chat.go:61: the messages for the cache are those before any        *)
(* modification, so a conversation is looked up under the key its answer was  *)
(* stored under (no run: an inline picture changes the type of its block).    *)
StoredWhereSought ==
  \A c \in Conversations : keyFor(PreprocessInlineFileInputs(c)) = keyFor(c)

(* A reasoning is restored whole (no run: a write that is cut off leaves the  *)
(* file of an entry that is still listed).                                    *)
RestoredWhole == pc = "idle" => \A key \in Keys : readThinking(key) # Torn
===============================================================================
