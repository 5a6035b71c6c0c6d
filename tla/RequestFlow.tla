---------------------------- MODULE RequestFlow ----------------------------
(***************************************************************************)
(* What a request does between taking an account and giving it back: the   *)
(* handlers of chat completions, responses, file uploads and embeddings,   *)
(* and the two halves of a Vercel stream (prepare and release).  They run  *)
(* the same calls to DeepSeek - upload inline files, upload the context    *)
(* file, create a session, solve a challenge, post the completion - and    *)
(* each of the calls may move the request to another account.              *)
(*                                                                         *)
(* The pool is reduced to its counters (AccountPool and RequestLease have  *)
(* its queues and its logins).  DeepSeek answers every call as it likes.   *)
(* A request with a token of its own (UseConfigToken = false) has no       *)
(* account: its token is denoted by the caller itself.                     *)
(***************************************************************************)
EXTENDS Naturals, FiniteSets, Sequences, Functions

CONSTANTS
  Accounts, Callers, None,
  Apis,         \* Apis[c]: the operations caller c may ask for
  Bodies,       \* Bodies[c]: the parts c's request may carry, sequences of blocks
  MaxPers,      \* the account_max_inflight settings considered
  Modes,        \* the auto_delete modes considered
  MaxAttempts,  \* attempts of a retry loop, the handlers pass 3
  MaxInline     \* maxInlineFilesPerRequest, 50

ASSUME FlowAssumption ==
  /\ None \notin Accounts \cup Callers
  /\ Accounts \cap Callers = {}
  /\ MaxPers \subseteq Nat \ {0}
  /\ Modes \subseteq {"none", "single", "all"}
  /\ MaxAttempts \in Nat \ {0} /\ MaxInline \in Nat

ASSUME FiniteAssumption == IsFiniteSet(Callers)

Parts == UNION {Range(body) : body \in UNION Range(Bodies)}

ASSUME BodiesAssumption == UNION Range(Bodies) \subseteq Seq(Parts)

VARIABLES
  used,     \* the pool's counters
  q,        \* the handler of each caller
  leases,   \* the prepared streams in streamLeases
  late,     \* those of them whose ExpiresAt has passed
  live,     \* the requests whose session exists at DeepSeek
  holds,    \* the slot each caller has been granted and not returned
  orphans,  \* the callers whose SwitchAccount has come back empty-handed
  maxPer    \* account_max_inflight

vars == <<used, q, leases, late, live, holds, orphans, maxPer>>

Calls == {"upload_pow", "upload_post", "session", "pow"}

PCs == Calls \cup {"sweep", "start", "inline", "split", "complete",
                   "stream", "hold", "return", "cleanup", "release", "done"}

Owners == Accounts \cup Callers   \* whose token a call may carry

Idle(api, body) ==
  [pc |-> IF api \in {"prepare", "giveback"} THEN "sweep" ELSE "start",
   api |-> api, body |-> body,
   acct |-> None, token |-> None, tried |-> {}, moving |-> FALSE,
   attempts |-> 0, tries |-> 0, count |-> 0,
   upload |-> None, refs |-> {}, pow |-> None, sess |-> None,
   moved |-> {}, hist |-> "none", splitFailed |-> FALSE, found |-> FALSE, popped |-> {}, own |-> None]

Init ==
  /\ used = [a \in Accounts |-> 0]
  /\ \E api \in [Callers -> UNION Range(Apis)], body \in [Callers -> UNION Range(Bodies)] :
       /\ \A c \in Callers : api[c] \in Apis[c] /\ body[c] \in Bodies[c]
       /\ q = [c \in Callers |-> Idle(api[c], body[c])]
  /\ leases = {} /\ late = {} /\ live = {} /\ orphans = {}
  /\ holds = [c \in Callers |-> None]
  /\ maxPer \in MaxPers

(* Past its calls a handler keeps what its deferred calls need *)
Leave(r, pc) ==
  [Idle(r.api, <<>>) EXCEPT !.pc = pc, !.acct = r.acct, !.token = r.token,
       !.sess = r.sess, !.hist = r.hist, !.splitFailed = r.splitFailed, !.own = r.own]

Set(c, new) == q' = [q EXCEPT ![c] = new]

Goto(c, pc) == Set(c, [q[c] EXCEPT !.pc = pc])

OnlyHandler == UNCHANGED <<used, leases, late, live, holds, orphans, maxPer>>

Decremented(a) == IF used[a] = 0 THEN used ELSE [used EXCEPT ![a] = @ - 1]

Managed(c) == q[c].acct # None

----------------------------------------------------------------------------
(* Resolver.Determine and Resolver.Release                                 *)

Determined(c, acct, token) ==
  Set(c, [q[c] EXCEPT !.acct = acct, !.token = token,
            !.pc = IF q[c].api = "embed" THEN "release" ELSE "inline"])

Take(c) ==
  /\ q[c].pc = "start"
  /\ \E a \in Accounts :
       /\ used[a] < maxPer
       /\ used' = [used EXCEPT ![a] = @ + 1]
       /\ holds' = [holds EXCEPT ![c] = a]
       /\ Determined(c, a, a)
  /\ UNCHANGED <<leases, late, live, orphans, maxPer>>

OwnToken(c) ==
  /\ q[c].pc = "start"
  /\ Determined(c, None, c)
  /\ OnlyHandler

(* No credential, no account in time, or no login that works *)
TurnedAway(c) ==
  /\ q[c].pc = "start"
  /\ Goto(c, "done")
  /\ OnlyHandler

Release(c) ==
  /\ q[c].pc = "release"
  /\ Set(c, [q[c] EXCEPT !.pc = "done", !.acct = None, !.token = None])
  /\ IF Managed(c)
     THEN /\ used' = Decremented(q[c].acct)
          /\ holds' = [holds EXCEPT ![c] = None]
     ELSE UNCHANGED <<used, holds>>
  /\ UNCHANGED <<leases, late, live, orphans, maxPer>>

----------------------------------------------------------------------------
(* Errors.  An early return runs the deferred calls: the chat handler      *)
(* cleans up its session first, the others only release the account.  The  *)
(* chat history entry learns of the errors after the splits.               *)

Ended(r) == Leave(r, IF r.api = "chat" THEN "cleanup" ELSE "release")

Failed_Silent(r, what) == [Ended(r) EXCEPT !.splitFailed = (what = "split")]

Failed(r, what) ==
  [Ended(r) EXCEPT !.splitFailed = (what = "split"),
                   !.hist = IF @ = "streaming" /\ what \in {"session", "pow", "complete"}
                                   THEN "error" ELSE @]

(* An undecodable or rejected body; requests that must stream and do not *)
BadRequest(c) ==
  /\ q[c].pc = "inline"
  /\ Set(c, Failed(q[c], "request"))
  /\ OnlyHandler

----------------------------------------------------------------------------
(* Inline files: each block of the body that carries data is uploaded and  *)
(* replaced by a reference; equal contents are uploaded once.              *)

Flat(b) ==
  CASE b.id             -> None
    [] b.image # None   -> b.image
    [] b.file /\ b.payload # None -> b.payload
    [] OTHER            -> None

(***************************************************************************)
(* The content a block carries: None, "bad" for one that does not decode,  *)
(* or its data.  A block with a nested file is what the nested file is.    *)
(***************************************************************************)
Decode(b) == IF b.id THEN None ELSE IF b.nested # None THEN Flat(b.nested) ELSE Flat(b)

NextPart(r) == [r EXCEPT !.body = Tail(@)]

Uploading(r, what) ==
  [r EXCEPT !.pc = "upload_pow", !.upload = what, !.pow = None,
            !.attempts = 0, !.tries = 0]

SkipPart(c) ==
  /\ q[c].pc = "inline"
  /\ q[c].body # <<>>
  /\ LET d == Decode(Head(q[c].body))
         limit == q[c].count >= MaxInline
     IN  CASE d = None   -> Set(c, NextPart(q[c]))
           [] d = "bad"  -> Set(c, Failed(q[c], "request"))
           [] d \notin {None, "bad"} /\ limit -> Set(c, Failed(q[c], "inline"))
           [] d \notin {None, "bad"} /\ ~limit ->
                IF \E f \in q[c].refs : f.what = d
                THEN Set(c, [NextPart(q[c]) EXCEPT !.count = @ + 1])
                ELSE Set(c, Uploading(q[c], d))
  /\ OnlyHandler

(***************************************************************************)
(* The body is walked and normalized.  Only chat requests have an entry in *)
(* the (enabled) chat history.                                             *)
(***************************************************************************)
Preprocessed(c) ==
  /\ q[c].pc = "inline"
  /\ q[c].body = <<>>
  /\ Set(c, CASE q[c].api = "files" -> Ended(q[c])
               [] q[c].api = "chat"  -> [q[c] EXCEPT !.pc = "split", !.hist = "streaming"]
               [] OTHER              -> [q[c] EXCEPT !.pc = "split"])
  /\ OnlyHandler

(***************************************************************************)
(* applyHistorySplit uploads nothing and fails on an empty transcript;     *)
(* applyCurrentInputSplit puts history, tools and messages into one file,  *)
(* unless all of them are empty.                                           *)
(***************************************************************************)
Split(c) ==
  /\ q[c].pc = "split"
  /\ \/ Set(c, Failed(q[c], "split"))
     \/ Goto(c, "session")
     \/ Set(c, Uploading(q[c], "context"))
  /\ OnlyHandler

----------------------------------------------------------------------------
(* The retry loops around a call to DeepSeek                               *)

Exhausted(r) == r.attempts >= MaxAttempts \/ (r.pc = "upload_pow" /\ r.tries >= MaxAttempts)

Calling(c) == q[c].pc \in Calls /\ ~q[c].moving /\ ~Exhausted(q[c])

(***************************************************************************)
(* The next attempt.  A post that failed drops its challenge: the next one *)
(* starts with another.                                                    *)
(***************************************************************************)
Again_KeepPow(r) ==
  IF r.pc = "upload_post" THEN [r EXCEPT !.tries = @ + 1, !.moving = FALSE]
  ELSE [r EXCEPT !.attempts = @ + 1, !.moving = FALSE]

Again(r) ==
  IF r.pc = "upload_post"
  THEN [r EXCEPT !.pc = "upload_pow", !.pow = None, !.attempts = 0,
                 !.tries = @ + 1, !.moving = FALSE]
  ELSE [r EXCEPT !.attempts = @ + 1, !.moving = FALSE]

(* What fails when an upload does *)
Job(r) == IF r.upload = "context" THEN "split" ELSE "inline"

(***************************************************************************)
(* What a call that succeeds leaves.  The reference to the context file    *)
(* replaces the others.                                                    *)
(***************************************************************************)
Answered(r) ==
  CASE r.pc = "upload_pow" ->
         [r EXCEPT !.pc = "upload_post", !.pow = [by |-> r.token, for |-> "upload"]]
    [] r.pc = "upload_post" /\ r.upload # "context" ->
         [NextPart(r) EXCEPT !.pc = "inline", !.count = @ + 1,
             !.refs = @ \cup {[what |-> r.upload, owner |-> r.token]}]
    [] r.pc = "upload_post" /\ r.upload = "context" ->
         [r EXCEPT !.pc = "session", !.attempts = 0,
             !.refs = {[what |-> "context", owner |-> r.token]}]
    [] r.pc = "session" ->
         [r EXCEPT !.pc = "pow", !.attempts = 0, !.sess = r.token]
    [] r.pc = "pow" ->
         [r EXCEPT !.pc = IF r.api = "prepare" THEN "hold" ELSE "complete",
             !.pow = [by |-> r.token, for |-> "completion"]]

CallOk(c) ==
  /\ Calling(c)
  /\ Set(c, Answered(q[c]))
  /\ live' = IF q[c].pc = "session" THEN live \cup {c} ELSE live
  /\ UNCHANGED <<used, leases, late, holds, orphans, maxPer>>

(* A transport error, or a token that was refreshed in place *)
CallError(c) ==
  /\ Calling(c)
  /\ Set(c, Again(q[c]))
  /\ OnlyHandler

(* A file that never becomes ready, an answer that cannot be used *)
CallUnusable(c) ==
  /\ Calling(c)
  /\ q[c].pc \in {"upload_post", "pow"}
  /\ Set(c, Failed(q[c], IF q[c].pc = "pow" THEN "pow" ELSE Job(q[c])))
  /\ OnlyHandler

GiveUp(c) ==
  /\ q[c].pc \in Calls
  /\ ~q[c].moving
  /\ Exhausted(q[c])
  /\ Set(c, Failed(q[c], IF q[c].pc \in {"session", "pow"} THEN q[c].pc ELSE Job(q[c])))
  /\ OnlyHandler

(***************************************************************************)
(* SwitchAccount: first the slot of AccountID goes back ...                *)
(***************************************************************************)
Rejected(c) ==
  /\ Calling(c)
  /\ Managed(c)
  /\ Set(c, [q[c] EXCEPT !.moving = TRUE, !.tried = @ \cup {q[c].acct}])
  /\ used' = Decremented(q[c].acct)
  /\ holds' = [holds EXCEPT ![c] = None]
  /\ UNCHANGED <<leases, late, live, orphans, maxPer>>

Candidates(c) == {a \in Accounts \ q[c].tried : used[a] < maxPer}

Moved_OldToken(c, a) ==
  Set(c, [Again(q[c]) EXCEPT !.acct = a, !.moved = @ \cup ({q[c].pc} \cap {"session", "pow"})])

Moved(c, a) ==
  Set(c, [Again(q[c]) EXCEPT !.acct = a, !.token = a, !.moved = @ \cup ({q[c].pc} \cap {"session", "pow"})])

(* ... then another account is taken and its token used, ... *)
SwitchTo(c) ==
  /\ q[c].moving
  /\ \E a \in Candidates(c) :
       /\ used' = [used EXCEPT ![a] = @ + 1]
       /\ holds' = [holds EXCEPT ![c] = a]
       /\ Moved(c, a)
  /\ UNCHANGED <<leases, late, live, orphans, maxPer>>

(* ... or its login fails, which changes AccountID and not the token, ... *)
SwitchLoginFails(c) ==
  /\ q[c].moving
  /\ \E a \in Candidates(c) :
       Set(c, [q[c] EXCEPT !.acct = a, !.tried = @ \cup {a}])
  /\ OnlyHandler

(* ... or none is left, and the loop goes on with what it had *)
SwitchEmpty(c) ==
  /\ q[c].moving
  /\ Candidates(c) = {}
  /\ Set(c, Again(q[c]))
  /\ orphans' = orphans \cup {c}
  /\ UNCHANGED <<used, leases, late, live, holds, maxPer>>

----------------------------------------------------------------------------
(* CallCompletion and the answer                                           *)

(* Each attempt posts the same session, files, token and challenge *)
Complete(c) ==
  /\ q[c].pc = "complete"
  /\ \/ Goto(c, "stream")
     \/ Set(c, Failed(q[c], "complete"))
  /\ OnlyHandler

(* The outcomes of the stream or of CollectStream *)
Stream(c) ==
  /\ q[c].pc = "stream"
  /\ \E h \in {"success", "error", "stopped"} :
       Set(c, [Ended(q[c]) EXCEPT !.hist = IF @ = "streaming" THEN h ELSE @])
  /\ OnlyHandler

----------------------------------------------------------------------------
(* autoDeleteRemoteSession, deferred before the release                    *)

(***************************************************************************)
(* Mode "none", no session yet, a deletion that DeepSeek refuses or does   *)
(* not answer.  The mode is read when the cleanup runs.                    *)
(***************************************************************************)
CleanupNothing(c) ==
  /\ q[c].pc = "cleanup"
  /\ Goto(c, "release")
  /\ OnlyHandler

(* A token deletes the sessions of its own account only *)
CleanupOwn(c) ==
  /\ q[c].pc = "cleanup"
  /\ "single" \in Modes
  /\ c \in live
  /\ q[c].sess = q[c].token
  /\ live' = live \ {c}
  /\ Goto(c, "release")
  /\ UNCHANGED <<used, leases, late, holds, orphans, maxPer>>

SessionsOf(owner) == {d \in live : q[d].sess = owner}

CleanupAll(c) ==
  /\ q[c].pc = "cleanup"
  /\ "all" \in Modes
  /\ live' = live \ SessionsOf(q[c].token)
  /\ Goto(c, "release")
  /\ UNCHANGED <<used, leases, late, holds, orphans, maxPer>>

----------------------------------------------------------------------------
(* The leases of prepared streams.  Expired ones leave the table under the *)
(* lock and are released after it, one by one.                             *)

Expire(c) ==
  /\ c \in leases \ late
  /\ late' = late \cup {c}
  /\ UNCHANGED <<used, q, leases, live, holds, orphans, maxPer>>

(* sweepExpiredStreamLeases, the first thing both handlers do *)
Sweep(c) ==
  /\ q[c].pc = "sweep"
  /\ q[c].popped = {}
  /\ Set(c, [q[c] EXCEPT !.pc = "return", !.popped = late])
  /\ leases' = leases \ late
  /\ late' = {}
  /\ UNCHANGED <<used, live, holds, orphans, maxPer>>

(* holdStreamLease *)
Hold(c) ==
  /\ q[c].pc = "hold"
  /\ Set(c, [Leave(q[c], "return") EXCEPT !.popped = late, !.own = c])
  /\ leases' = (leases \ late) \cup {c}
  /\ late' = {}
  /\ UNCHANGED <<used, live, holds, orphans, maxPer>>

ReturnSlot(c, d) ==
  /\ used' = IF q[d].acct = None THEN used ELSE Decremented(q[d].acct)
  /\ holds' = [holds EXCEPT ![d] = None]

ReturnExpired(c) ==
  /\ q[c].pc = "return"
  /\ \E d \in q[c].popped :
       /\ ReturnSlot(c, d)
       /\ Set(c, [q[c] EXCEPT !.popped = @ \ {d}])
  /\ UNCHANGED <<leases, late, live, orphans, maxPer>>

(* The lease whose id a release call carries: the Node side got it from a prepare *)
Issued(d) == q[d].own = d

(***************************************************************************)
(* The sweep is over.  A prepare goes on to Determine, or has answered; a  *)
(* release goes on to releaseStreamLease, and after that returns the slot  *)
(* of the lease it found.                                                  *)
(***************************************************************************)
Swept(c) ==
  /\ q[c].pc = "return"
  /\ q[c].popped = {}
  /\ q[c].api = "prepare"
  /\ Goto(c, IF q[c].own = None THEN "start" ELSE "done")
  /\ OnlyHandler

GiveBack_Peek(c) ==
  /\ q[c].pc = "return" /\ q[c].popped = {}
  /\ q[c].api = "giveback" /\ q[c].own = None
  /\ \E d \in Callers :
       /\ Issued(d)
       /\ Set(c, [q[c] EXCEPT !.own = d, !.popped = late, !.found = TRUE])
       /\ leases' = leases \ (late \cup {d})
       /\ late' = {}
  /\ UNCHANGED <<used, live, holds, orphans, maxPer>>

GiveBack(c) ==
  /\ q[c].pc = "return" /\ q[c].popped = {}
  /\ q[c].api = "giveback" /\ q[c].own = None
  /\ \E d \in Callers :
       /\ Issued(d)
       /\ Set(c, [q[c] EXCEPT !.own = d, !.popped = late,
                    !.found = (d \in leases \ late)])
       /\ leases' = leases \ (late \cup {d})
       /\ late' = {}
  /\ UNCHANGED <<used, live, holds, orphans, maxPer>>

GivenBack(c) ==
  /\ q[c].pc = "return" /\ q[c].popped = {}
  /\ q[c].api = "giveback" /\ q[c].own # None
  /\ IF q[c].found THEN ReturnSlot(c, q[c].own) ELSE UNCHANGED <<used, holds>>
  /\ Goto(c, "done")
  /\ UNCHANGED <<leases, late, live, orphans, maxPer>>

(* A release call without a usable lease id *)
NotGivenBack(c) ==
  /\ q[c].pc = "return" /\ q[c].popped = {}
  /\ q[c].api = "giveback" /\ q[c].own = None
  /\ Goto(c, "done")
  /\ OnlyHandler

----------------------------------------------------------------------------

Step(c) ==
  \/ Take(c) \/ OwnToken(c) \/ TurnedAway(c) \/ Release(c) \/ BadRequest(c)
  \/ SkipPart(c) \/ Preprocessed(c) \/ Split(c)
  \/ CallOk(c) \/ CallError(c) \/ CallUnusable(c) \/ GiveUp(c)
  \/ Rejected(c) \/ SwitchTo(c) \/ SwitchLoginFails(c) \/ SwitchEmpty(c)
  \/ Complete(c) \/ Stream(c)
  \/ CleanupNothing(c) \/ CleanupOwn(c) \/ CleanupAll(c)
  \/ Sweep(c) \/ Hold(c) \/ ReturnExpired(c) \/ Swept(c)
  \/ GiveBack(c) \/ GivenBack(c) \/ NotGivenBack(c)

Next == \E c \in Callers : Step(c) \/ Expire(c)

Spec == Init /\ [][Next]_vars

----------------------------------------------------------------------------
(* Properties *)

(* The counters and the handlers' states have their types *)
TypeOK ==
  /\ used \in [Accounts -> Nat]
  /\ \A c \in Callers :
       /\ q[c].pc \in PCs
       /\ q[c].acct \in Accounts \cup {None} /\ q[c].token \in Owners \cup {None}
       /\ q[c].sess \in Owners \cup {None}
       /\ q[c].tried \subseteq Accounts
       /\ q[c].attempts \in 0 .. MaxAttempts /\ q[c].tries \in 0 .. MaxAttempts
       /\ q[c].hist \in {"none", "streaming", "success", "error", "stopped"}
  /\ leases \subseteq Callers /\ late \subseteq leases /\ live \subseteq Callers
  /\ holds \in [Callers -> Accounts \cup {None}]

(***************************************************************************)
(* The counters are exact over every path: errors, switches, held, expired *)
(* and returned leases give each slot back once.  (A SwitchAccount that    *)
(* found nothing breaks the counts: see RequestLease.)                     *)
(***************************************************************************)
SlotsAccounted ==
  orphans = {} => \A a \in Accounts :
                    used[a] = Cardinality({c \in Callers : holds[c] = a})

(***************************************************************************)
(* What a call to DeepSeek carries fits together, however often the        *)
(* request was moved: its token is of the account whose slot it holds, its *)
(* challenge was solved for this purpose and this token, and a session or  *)
(* a context file is of another account only if a call that comes after    *)
(* its making moved the request.                                           *)
(***************************************************************************)
CallsFit ==
  \A c \in Callers :
    /\ c \notin orphans /\ q[c].pc \in Calls \cup {"complete", "stream", "cleanup"}
           /\ ~q[c].moving /\ q[c].acct # None
         => q[c].token = q[c].acct /\ holds[c] = q[c].acct
    /\ q[c].pc = "upload_post" /\ ~q[c].moving
         => q[c].pow = [by |-> q[c].token, for |-> "upload"]
    /\ q[c].pc \in {"complete", "hold"} =>
         /\ q[c].pow = [by |-> q[c].token, for |-> "completion"]
         /\ q[c].sess # q[c].token => "pow" \in q[c].moved
         /\ (\E f \in q[c].refs : f.what = "context" /\ f.owner # q[c].token)
               => q[c].moved \cap {"session", "pow"} # {}

(***************************************************************************)
(* With one slot per account, a cleanup takes nobody's session but its own *)
(* and those of requests that have left the account - unless the deleting  *)
(* request is one whose switch failed.                                     *)
(***************************************************************************)
SparesOthers ==
  [][\A c \in live \ live' :
       \/ maxPer > 1
       \/ orphans # {}
       \/ q[c].pc = "cleanup"
       \/ holds[c] # q[c].sess]_vars

(***************************************************************************)
(* A chat that was recorded ends with a final status, whichever call       *)
(* failed, except when one of the splits did.                              *)
(***************************************************************************)
HistorySettled ==
  \A c \in Callers :
    q[c].pc \in {"release", "done", "cleanup"} /\ q[c].hist = "streaming"
      => q[c].splitFailed

(***************************************************************************)
(* docs/prompt-compatibility.md: inline files end up in ref_file_ids.      *)
(***************************************************************************)
InlineFilesReferenced ==
  \A c \in Callers :
    q[c].pc = "complete" /\ q[c].count > 0
      => \E f \in q[c].refs : f.what # "context"
============================================================================
