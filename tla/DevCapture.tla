------------------------------- MODULE DevCapture -------------------------------
(***************************************************************************)
(* internal/devcapture and the raw-samples pages of the admin interface:   *)
(* the rounds of upstream answers are kept in memory, newest first, for a  *)
(* page that fires one request and takes what is new, and for one that     *)
(* takes the chain of a session.  RawSamples has what they do on the disk. *)
(*                                                                         *)
(* Sampled is the request the first page fires; the others come from       *)
(* clients at the same time.  An answer is read by a goroutine of its own, *)
(* which may still run when the request's handler has left.                *)
(***************************************************************************)
EXTENDS Integers, Sequences, FiniteSets, SequencesExt, Subsequences

CONSTANTS Requests, Sampled,
          Limit,              \* DS2API_DEV_PACKET_CAPTURE_LIMIT
          MaxRounds, MaxTime,
          None

VARIABLES items,      \* captures, newest first: [req, round, created]
          state,      \* of each request's upstream: "new", "open", "between", "done"
          round,      \* rounds opened; a failed attempt is captured as round 0
          created,    \* when the round was opened, in seconds
          handler,    \* of the sampled request: "off", "running", "left"
          now,
          before,     \* the page's first snapshot: the captures known then
          sample,     \* what the page saves, with remarks: all, whole
          pushed,     \* all captures of each request, in order
          since,      \* captures since the first snapshot
          cleared     \* the captures were cleared since then

vars == <<items, state, round, created, handler, now, before, sample, pushed, since, cleared>>

upstream == <<state, round, created, now>>
page == <<before, sample>>

Init == /\ items = <<>> /\ now = 0 /\ before = None /\ sample = None
        /\ state = [r \in Requests |-> "new"] /\ round = [r \in Requests |-> 0]
        /\ created = [r \in Requests |-> 0] /\ handler = "off"
        /\ pushed = [r \in Requests |-> <<>>] /\ since = 0 /\ cleared = FALSE

(* A capture session is one per round: failed attempts have the id of the first round *)
Id(e) == <<e.req, IF e.round = 0 THEN 1 ELSE e.round>>

Entry(r, n) == [req |-> r, round |-> n, created |-> created[r]]

Of(r, entries) == Where(entries, LAMBDA e : e.req = r /\ e.round # 0)

push(entry) ==
  /\ items' = SubSeq(<<entry>> \o items, 1, IF Len(items) < Limit THEN Len(items) + 1 ELSE Limit)
  /\ pushed' = [pushed EXCEPT ![entry.req] = Append(@, entry)]
  /\ since' = since + 1

Open(r, n) == /\ state' = [state EXCEPT ![r] = "open"]
              /\ round' = [round EXCEPT ![r] = n]
              /\ created' = [created EXCEPT ![r] = now]

(* The request reaches CallCompletion; the page has taken its first snapshot *)
Begin(r) ==
  /\ state[r] = "new"
  /\ Open(r, 1)
  /\ IF r = Sampled
     THEN /\ before' = {Id(e) : e \in Range(items)}
          /\ handler' = "running" /\ since' = 0 /\ cleared' = FALSE
     ELSE UNCHANGED <<handler, before, since, cleared>>
  /\ UNCHANGED <<items, now, sample, pushed>>

(* An attempt that is not answered with 200 is captured with an empty body and tried again *)
Attempt(r) == /\ state[r] = "open" /\ round[r] = 1 /\ \A q \in Requests : Of(q, pushed[q]) = pushed[q]
              /\ push(Entry(r, 0))
              /\ UNCHANGED <<upstream, handler, page, cleared>>

(* The body of a round comes to its end or is closed: finalize *)
RoundEnds(r) == /\ state[r] = "open"
                /\ push(Entry(r, round[r]))
                /\ state' = [state EXCEPT ![r] = "between"]
                /\ UNCHANGED <<round, created, now, handler, page, cleared>>

Continues(r) == /\ state[r] = "between" /\ round[r] < MaxRounds
                /\ Open(r, round[r] + 1)
                /\ UNCHANGED <<items, now, handler, page, pushed, since, cleared>>

Ends(r) == /\ state[r] = "between" /\ state' = [state EXCEPT ![r] = "done"]
           /\ UNCHANGED <<items, round, created, now, handler, page, pushed, since, cleared>>

(* The handler leaves, at the end of the answer or before it *)
Leaves == /\ handler = "running" /\ handler' = "left"
          /\ UNCHANGED <<items, upstream, page, pushed, since, cleared>>

(* What is new since the first snapshot, in the order it was captured *)
collectNewCaptureEntries_ByCount(known, after) ==
  Reverse(Where(SubSeq(after, 1, Len(after) - Cardinality(known)), LAMBDA e : e.round # 0))
collectNewCaptureEntries(known, after) ==
  Reverse(Where(after, LAMBDA e : Id(e) \notin known /\ e.round # 0))

(* The rounds of a session: the snapshot turned round, then sorted by second *)
buildCaptureChain_AsKept(r) ==
  SortedBy(Where(items, LAMBDA e : e.req = r), LAMBDA e : e.created)
buildCaptureChain(r) ==
  SortedBy(Reverse(Where(items, LAMBDA e : e.req = r)), LAMBDA e : e.created)

captureRawSample ==
  /\ handler = "left" /\ handler' = "off"
  /\ LET entries == collectNewCaptureEntries(before, items)
     IN sample' = IF entries = <<>> THEN None    \* "no upstream capture was recorded"
                  ELSE [entries |-> entries, all |-> Of(Sampled, pushed[Sampled]),
                        whole |-> state[Sampled] = "done" /\ ~cleared /\ since <= Limit]
  /\ UNCHANGED <<items, upstream, before, pushed, since, cleared>>

(* saveRawSampleFromCaptures, by a capture or a chain key: the chain of a request *)
resolveCaptureChainSelection(r) ==
  IF \E i \in DOMAIN items : items[i].req = r THEN buildCaptureChain(r) ELSE <<>>

Clear == /\ items # <<>> /\ ~cleared /\ items' = <<>> /\ cleared' = TRUE
         /\ UNCHANGED <<upstream, handler, page, pushed, since>>

Tick == /\ now < MaxTime /\ now' = now + 1
        /\ UNCHANGED <<items, state, round, created, handler, page, pushed, since, cleared>>

Next ==
  \/ \E r \in Requests : \/ Begin(r) \/ Attempt(r) \/ RoundEnds(r) \/ Continues(r)
                         \/ Ends(r)
  \/ Leaves \/ captureRawSample \/ Clear \/ Tick

Spec == Init /\ [][Next]_vars

-------------------------------------------------------------------------------
(* The chain of a session is its latest rounds in the order they were read,    *)
(* with no hole: the order of the store, the seconds and the sort agree, and   *)
(* what the limit drops are the oldest rounds.                                  *)
ChainsAreSuffixes == \A r \in Requests : IsSuffix(resolveCaptureChainSelection(r), pushed[r])

(* The sample the page takes of its request has the latest rounds of it in     *)
(* order; all of them when the answer was read to its end and neither the      *)
(* limit nor a clearing took something away.                                   *)
SampleHasOwn ==
  sample # None =>
    LET own == Of(Sampled, sample.entries)
    IN IsSuffix(own, sample.all) /\ (sample.whole => own = sample.all)

(* API.en.md:1003: the page issues one request and persists its raw upstream   *)
(* stream (no run: a client's answer that ends meanwhile is taken as well).    *)
SampleHasOnlyOwn ==
  sample # None => \A i \in DOMAIN sample.entries : sample.entries[i].req = Sampled
===============================================================================
