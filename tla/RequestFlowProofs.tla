------------------------- MODULE RequestFlowProofs -------------------------
(***************************************************************************)
(* What holds of RequestFlow for every set of accounts, callers, bodies    *)
(* and settings, whatever DeepSeek answers: the types, the account each    *)
(* call runs on, the leases of prepared streams, the counters and the      *)
(* chat history.                                                           *)
(***************************************************************************)
EXTENDS RequestFlow, FiniteSetTheorems, SequenceTheorems, TLAPS

(* What the parts of the bodies carry *)
Contents == {Decode(b) : b \in Parts}

HandlerType ==
  [pc          : PCs,
   api         : UNION Range(Apis),
   body        : Seq(Parts),
   acct        : Accounts \cup {None},
   token       : Owners \cup {None},
   tried       : SUBSET Accounts,
   moving      : BOOLEAN,
   attempts    : 0 .. MaxAttempts,
   tries       : 0 .. MaxAttempts,
   count       : Nat,
   upload      : Contents \cup {"context", None},
   refs        : SUBSET [what : Contents \cup {"context", None}, owner : Owners \cup {None}],
   pow         : [by : Owners \cup {None}, for : {"upload", "completion"}] \cup {None},
   sess        : Owners \cup {None},
   moved       : SUBSET {"session", "pow"},
   hist        : {"none", "streaming", "success", "error", "stopped"},
   splitFailed : BOOLEAN,
   found       : BOOLEAN,
   popped      : SUBSET Callers,
   own         : Callers \cup {None}]

Uploads == {"upload_pow", "upload_post"}

(* Where a handler works with the account it took *)
Active == Calls \cup {"inline", "split", "complete", "stream", "hold", "cleanup", "release"}

ContextRefs(r) == {f \in r.refs : f.what = "context"}

----------------------------------------------------------------------------
(* One handler: r is the state of caller c's *)

(* A handler that is being moved is between two attempts of a call. *)
MovesInCalls(r) ==
  /\ r.moving => r.pc \in Calls /\ ~Exhausted(r) /\ r.acct # None
  /\ r.pc = "upload_post" => r.tries < MaxAttempts
  /\ r.pc \in Uploads /\ r.upload # "context" => r.body # <<>>

(* The entry in the history streams from the split on, until an outcome. *)
HistoryFollows(r) ==
  /\ r.api # "chat" => r.hist = "none"
  /\ r.pc \in {"start", "inline"} => r.hist = "none"
  /\ r.pc \in Uploads /\ r.upload # "context" => r.hist = "none"
  /\ r.pc \in {"release", "done", "cleanup"} /\ r.hist = "streaming" => r.splitFailed

(* What the next call carries, as far as it has been made. *)
CarriesWhatFits(r) ==
  /\ r.pc = "upload_post" /\ ~r.moving => r.pow = [by |-> r.token, for |-> "upload"]
  /\ r.pc \in {"complete", "hold"} => r.pow = [by |-> r.token, for |-> "completion"]
  /\ r.pc \in {"pow", "complete", "hold"} /\ r.sess # r.token => "pow" \in r.moved
  /\ r.pc \in {"session", "pow", "complete", "hold"} =>
       \/ \A f \in ContextRefs(r) : f.owner = r.token
       \/ r.moved \cap {"session", "pow"} # {}
  /\ r.pc \in Uploads \cup {"sweep", "return", "start", "inline", "split"} =>
       ContextRefs(r) = {}

(* The streams a handler has taken off the table, and the one it is about. *)
LeaseFields(c, r) ==
  /\ r.pc \in {"sweep", "return"} => r.api \in {"prepare", "giveback"}
  /\ r.pc = "hold" => r.api = "prepare"
  /\ r.popped # {} => r.pc = "return"
  /\ r.own # None => /\ r.pc \in {"return", "done"}
                     /\ r.own = c <=> r.api = "prepare"
  /\ r.found => r.api = "giveback" /\ r.own # None

HandlerInv(c, r) ==
  /\ r \in HandlerType
  /\ r.pc \in Active /\ r.acct = None => r.token = c
  /\ MovesInCalls(r)
  /\ HistoryFollows(r)
  /\ CarriesWhatFits(r)
  /\ LeaseFields(c, r)

----------------------------------------------------------------------------
(* The slots: who is responsible for giving the slot of d back *)

Finding(c) == q[c].found /\ q[c].pc = "return"

(* The lease of d is in the table, swept, or found by a release call *)
InCustody(d) ==
  \/ d \in leases
  \/ \E c \in Callers : d \in q[c].popped
  \/ \E c \in Callers : Finding(c) /\ q[c].own = d

(* A lease is in one place only, and it is that of a prepared stream. *)
LeasesOnce ==
  /\ late \subseteq leases /\ leases \subseteq Callers
  /\ \A d \in Callers : InCustody(d) => q[d].own = d
  /\ \A c \in Callers : q[c].popped \cap leases = {}
  /\ \A c, e \in Callers : c # e => q[c].popped \cap q[e].popped = {}
  /\ \A c \in Callers : Finding(c) =>
       q[c].own \notin leases /\ \A e \in Callers : q[c].own \notin q[e].popped
  /\ \A c, e \in Callers : Finding(c) /\ Finding(e) /\ q[c].own = q[e].own => c = e

(* The account a handler works with: it has the account's slot *)
Claim(r) == IF r.pc \in Active /\ ~r.moving THEN r.acct ELSE None

(***************************************************************************)
(* A caller none of whose switches has failed holds the slot of its        *)
(* account exactly while it works with it or its lease is kept, and calls  *)
(* with the token of that account.                                         *)
(***************************************************************************)
SlotsFollow ==
  \A c \in Callers \ orphans :
    /\ holds[c] = IF InCustody(c) THEN q[c].acct ELSE Claim(q[c])
    /\ Claim(q[c]) # None => q[c].token = Claim(q[c])

UsedBounded == \A a \in Accounts : used[a] <= maxPer

(* The counters: their types, their bound and their count *)
SlotsRight ==
  /\ used \in [Accounts -> Nat] /\ holds \in [Callers -> Accounts \cup {None}]
  /\ UsedBounded
  /\ SlotsAccounted

Shared == maxPer \in Nat \ {0} /\ live \subseteq Callers /\ orphans \subseteq Callers

HandlersRight ==
  /\ q \in [Callers -> HandlerType]
  /\ \A c \in Callers : HandlerInv(c, q[c])

FlowInv ==
  /\ Shared
  /\ HandlersRight
  /\ LeasesOnce
  /\ SlotsFollow
  /\ SlotsRight

----------------------------------------------------------------------------
(* The operations on a handler's state *)

(* A handler that may still fail: it has an account and makes calls. *)
AtWork(r) == r.pc \in Active \ {"hold", "cleanup", "release"} /\ ~r.moving

(* From r to n a handler keeps its account and goes on working with it. *)
Stays(r, n) ==
  /\ n.pc \in Active /\ ~n.moving
  /\ n.acct = r.acct /\ n.token = r.token
  /\ n.own = r.own /\ n.popped = r.popped /\ ~n.found /\ ~r.found

(* A field of a handler may take any value of its type. *)
LEMMA Updated ==
  ASSUME NEW r \in HandlerType
  PROVE  /\ \A x \in PCs : [r EXCEPT !.pc = x] \in HandlerType
         /\ \A x \in Seq(Parts) : [r EXCEPT !.body = x] \in HandlerType
         /\ \A x \in Accounts \cup {None} : [r EXCEPT !.acct = x] \in HandlerType
         /\ \A x \in Owners \cup {None} : [r EXCEPT !.token = x] \in HandlerType
         /\ \A x \in SUBSET Accounts : [r EXCEPT !.tried = x] \in HandlerType
         /\ \A x \in BOOLEAN : [r EXCEPT !.moving = x] \in HandlerType
         /\ \A x \in 0 .. MaxAttempts : [r EXCEPT !.attempts = x] \in HandlerType
         /\ \A x \in 0 .. MaxAttempts : [r EXCEPT !.tries = x] \in HandlerType
         /\ \A x \in Nat : [r EXCEPT !.count = x] \in HandlerType
         /\ \A x \in Contents \cup {"context", None} : [r EXCEPT !.upload = x] \in HandlerType
         /\ \A x \in SUBSET [what : Contents \cup {"context", None}, owner : Owners \cup {None}] :
              [r EXCEPT !.refs = x] \in HandlerType
         /\ \A x \in [by : Owners \cup {None}, for : {"upload", "completion"}] \cup {None} :
              [r EXCEPT !.pow = x] \in HandlerType
         /\ \A x \in Owners \cup {None} : [r EXCEPT !.sess = x] \in HandlerType
         /\ \A x \in SUBSET {"session", "pow"} : [r EXCEPT !.moved = x] \in HandlerType
         /\ \A x \in {"none", "streaming", "success", "error", "stopped"} :
              [r EXCEPT !.hist = x] \in HandlerType
         /\ \A x \in BOOLEAN : [r EXCEPT !.splitFailed = x] \in HandlerType
         /\ \A x \in BOOLEAN : [r EXCEPT !.found = x] \in HandlerType
         /\ \A x \in SUBSET Callers : [r EXCEPT !.popped = x] \in HandlerType
         /\ \A x \in Callers \cup {None} : [r EXCEPT !.own = x] \in HandlerType
<1> DEFINE Api     == UNION Range(Apis)
           Body    == Seq(Parts)
           Account == Accounts \cup {None}
           Token   == Owners \cup {None}
           Tried   == SUBSET Accounts
           Tries   == 0 .. MaxAttempts
           What    == Contents \cup {"context", None}
           Refs    == SUBSET [what : What, owner : Token]
           Pow     == [by : Token, for : {"upload", "completion"}] \cup {None}
           Moves   == SUBSET {"session", "pow"}
           Status  == {"none", "streaming", "success", "error", "stopped"}
           Streams == SUBSET Callers
           Own     == Callers \cup {None}
           Type    == [pc : PCs, api : Api, body : Body, acct : Account, token : Token,
                       tried : Tried, moving : BOOLEAN, attempts : Tries, tries : Tries,
                       count : Nat, upload : What, refs : Refs, pow : Pow, sess : Token,
                       moved : Moves, hist : Status, splitFailed : BOOLEAN,
                       found : BOOLEAN, popped : Streams, own : Own]
<1>1. HandlerType = Type
  BY DEF HandlerType
<1> HIDE DEF Api, Body, Account, Token, Tried, Tries, What, Refs, Pow, Moves, Status,
             Streams, Own, Type
<1>2. r \in Type
  BY <1>1
<1>3. \A x \in PCs : [r EXCEPT !.pc = x] \in Type
  BY <1>2 DEF Type
<1>4. \A x \in Body : [r EXCEPT !.body = x] \in Type
  BY <1>2 DEF Type
<1>5. \A x \in Account : [r EXCEPT !.acct = x] \in Type
  BY <1>2 DEF Type
<1>6. \A x \in Token : [r EXCEPT !.token = x] \in Type
  BY <1>2 DEF Type
<1>7. \A x \in Tried : [r EXCEPT !.tried = x] \in Type
  BY <1>2 DEF Type
<1>8. \A x \in BOOLEAN : [r EXCEPT !.moving = x] \in Type
  BY <1>2 DEF Type
<1>9. \A x \in Tries : [r EXCEPT !.attempts = x] \in Type
  BY <1>2 DEF Type
<1>10. \A x \in Tries : [r EXCEPT !.tries = x] \in Type
  BY <1>2 DEF Type
<1>11. \A x \in Nat : [r EXCEPT !.count = x] \in Type
  BY <1>2 DEF Type
<1>12. \A x \in What : [r EXCEPT !.upload = x] \in Type
  BY <1>2 DEF Type
<1>13. \A x \in Refs : [r EXCEPT !.refs = x] \in Type
  BY <1>2 DEF Type
<1>14. \A x \in Pow : [r EXCEPT !.pow = x] \in Type
  BY <1>2 DEF Type
<1>15. \A x \in Token : [r EXCEPT !.sess = x] \in Type
  BY <1>2 DEF Type
<1>16. \A x \in Moves : [r EXCEPT !.moved = x] \in Type
  BY <1>2 DEF Type
<1>17. \A x \in Status : [r EXCEPT !.hist = x] \in Type
  BY <1>2 DEF Type
<1>18. \A x \in BOOLEAN : [r EXCEPT !.splitFailed = x] \in Type
  BY <1>2 DEF Type
<1>19. \A x \in BOOLEAN : [r EXCEPT !.found = x] \in Type
  BY <1>2 DEF Type
<1>20. \A x \in Streams : [r EXCEPT !.popped = x] \in Type
  BY <1>2 DEF Type
<1>21. \A x \in Own : [r EXCEPT !.own = x] \in Type
  BY <1>2 DEF Type
<1> USE DEF Api, Body, Account, Token, Tried, Tries, What, Refs, Pow, Moves, Status,
            Streams, Own
<1> QED
  BY <1>1, <1>3, <1>4, <1>5, <1>6, <1>7, <1>8, <1>9, <1>10, <1>11, <1>12, <1>13, <1>14, <1>15, <1>16, <1>17, <1>18, <1>19, <1>20, <1>21

(* A new handler, for an operation that callers ask for, has its type. *)
LEMMA IdleType ==
  ASSUME NEW r \in HandlerType
  PROVE  Idle(r.api, <<>>) \in HandlerType
BY FlowAssumption DEF HandlerType, Idle, PCs, Calls

(* A handler that leaves its calls keeps its account, session and status. *)
LEMMA LeaveFields ==
  ASSUME NEW r \in HandlerType, NEW pc \in PCs
  PROVE  /\ Leave(r, pc) \in HandlerType
         /\ Leave(r, pc).pc = pc
         /\ Leave(r, pc).api = r.api /\ Leave(r, pc).acct = r.acct
         /\ Leave(r, pc).token = r.token
         /\ Leave(r, pc).hist = r.hist /\ Leave(r, pc).splitFailed = r.splitFailed
         /\ Leave(r, pc).own = r.own /\ Leave(r, pc).popped = {} /\ Leave(r, pc).refs = {}
         /\ ~Leave(r, pc).moving /\ ~Leave(r, pc).found
<1>1. PICK s \in HandlerType : s = Idle(r.api, <<>>)
  BY IdleType
<1>2. Leave(r, pc) \in HandlerType
  <2>1. /\ r.acct \in Accounts \cup {None} /\ r.token \in Owners \cup {None}
        /\ r.sess \in Owners \cup {None} /\ r.splitFailed \in BOOLEAN
        /\ r.own \in Callers \cup {None}
        /\ r.hist \in {"none", "streaming", "success", "error", "stopped"}
    BY DEF HandlerType
  <2>2. [s EXCEPT !.pc = pc, !.acct = r.acct, !.token = r.token] \in HandlerType
    BY <2>1, Updated
  <2>3. PICK t \in HandlerType : t = [s EXCEPT !.pc = pc, !.acct = r.acct, !.token = r.token]
    BY <2>2
  <2>4. [t EXCEPT !.sess = r.sess, !.hist = r.hist] \in HandlerType
    BY <2>1, Updated
  <2>5. PICK u \in HandlerType : u = [t EXCEPT !.sess = r.sess, !.hist = r.hist]
    BY <2>4
  <2>6. [u EXCEPT !.splitFailed = r.splitFailed, !.own = r.own] \in HandlerType
    BY <2>1, Updated
  <2>7. Leave(r, pc) = [u EXCEPT !.splitFailed = r.splitFailed, !.own = r.own]
    BY <1>1, <2>3, <2>5 DEF Leave
  <2> QED
    BY <2>6, <2>7
<1>3. /\ Leave(r, pc).pc = pc
      /\ Leave(r, pc).api = r.api /\ Leave(r, pc).acct = r.acct
      /\ Leave(r, pc).token = r.token
  BY DEF Leave, Idle
<1>4. /\ Leave(r, pc).hist = r.hist
      /\ Leave(r, pc).own = r.own /\ Leave(r, pc).popped = {}
      /\ Leave(r, pc).refs = {}
  BY DEF Leave, Idle
<1>5. Leave(r, pc).splitFailed = r.splitFailed
  BY DEF Leave, Idle
<1>6. Leave(r, pc).moving = FALSE /\ Leave(r, pc).found = FALSE
  BY DEF Leave, Idle
<1> QED
  BY <1>2, <1>3, <1>4, <1>5, <1>6

(* What a handler that ends its calls is like, but for the history entry. *)
AsEnded(r, n) ==
  /\ n.pc = IF r.api = "chat" THEN "cleanup" ELSE "release"
  /\ n.api = r.api /\ n.acct = r.acct /\ n.token = r.token
  /\ n.own = r.own /\ n.popped = {} /\ ~n.moving /\ ~n.found

(* An early return goes to the cleanup or to the release, with what they need. *)
LEMMA EndedFields ==
  ASSUME NEW r \in HandlerType
  PROVE  /\ Ended(r) \in HandlerType /\ AsEnded(r, Ended(r))
         /\ Ended(r).hist = r.hist /\ Ended(r).splitFailed = r.splitFailed
<1>1. PICK pc \in PCs : pc = IF r.api = "chat" THEN "cleanup" ELSE "release"
  BY DEF PCs
<1>2. /\ Leave(r, pc) \in HandlerType
      /\ Leave(r, pc).pc = pc
      /\ Leave(r, pc).api = r.api /\ Leave(r, pc).acct = r.acct
      /\ Leave(r, pc).token = r.token
      /\ Leave(r, pc).hist = r.hist /\ Leave(r, pc).splitFailed = r.splitFailed
      /\ Leave(r, pc).own = r.own /\ Leave(r, pc).popped = {}
      /\ ~Leave(r, pc).moving /\ ~Leave(r, pc).found
  BY LeaveFields
<1>3. Ended(r) = Leave(r, pc)
  BY <1>1 DEF Ended
<1> QED
  BY <1>1, <1>2, <1>3 DEF AsEnded

(***************************************************************************)
(* An outcome of a handler that works with its account: the deferred calls *)
(* are next, and the entry in the history has a final status unless one of *)
(* the splits failed.                                                      *)
(***************************************************************************)
LEMMA OutcomeKeeps ==
  ASSUME NEW c \in Callers, NEW r, HandlerInv(c, r), AtWork(r),
         NEW n \in HandlerType, AsEnded(r, n),
         r.api # "chat" => n.hist = "none",
         n.hist = "streaming" => n.splitFailed
  PROVE  HandlerInv(c, n) /\ Stays(r, n)
<1>1. /\ r.own = None /\ r.popped = {} /\ ~r.found
      /\ r.acct = None => r.token = c
  BY DEF HandlerInv, LeaseFields, Active, Calls, AtWork
<1>2. n.pc \in {"cleanup", "release"}
  BY DEF AsEnded
<1>3. MovesInCalls(n) /\ CarriesWhatFits(n)
  BY <1>2 DEF AsEnded, MovesInCalls, CarriesWhatFits, Uploads
<1>4. HistoryFollows(n)
  BY <1>2 DEF AsEnded, HistoryFollows, Uploads
<1>5. LeaseFields(c, n)
  BY <1>1, <1>2 DEF AsEnded, LeaseFields
<1> QED
  BY <1>1, <1>2, <1>3, <1>4, <1>5 DEF AsEnded, HandlerInv, Stays, Active

(* Each failure is such an outcome. *)
LEMMA FailedKeeps ==
  ASSUME NEW c \in Callers, NEW r, HandlerInv(c, r), AtWork(r),
         NEW what, r.hist = "streaming" => what \in {"split", "session", "pow", "complete"},
         NEW n, n = Failed(r, what)
  PROVE  HandlerInv(c, n) /\ Stays(r, n)
<1>1. r \in HandlerType
  BY DEF HandlerInv
<1>2. PICK s \in HandlerType :
        s = Ended(r) /\ AsEnded(r, s) /\ s.hist = r.hist
  BY <1>1, EndedFields
<1>3. PICK h \in {"none", "streaming", "success", "error", "stopped"}, sf \in BOOLEAN :
        /\ h = IF r.hist = "streaming" /\ what \in {"session", "pow", "complete"}
               THEN "error" ELSE r.hist
        /\ sf = (what = "split")
  BY <1>1 DEF HandlerType
<1>4. n = [s EXCEPT !.splitFailed = sf, !.hist = h]
  BY <1>2, <1>3 DEF Failed, HandlerType
<1>5. n \in HandlerType
  <2>1. [s EXCEPT !.splitFailed = sf, !.hist = h] \in HandlerType
    BY Updated
  <2> QED
    BY <1>4, <2>1
<1>6. AsEnded(r, n) /\ n.hist = h
  BY <1>2, <1>4 DEF AsEnded, HandlerType
<1>7. n.splitFailed = sf
  BY <1>4 DEF HandlerType
<1>8. r.api # "chat" => n.hist = "none"
  BY <1>3, <1>6 DEF HandlerInv, HistoryFollows
<1>9. n.hist = "streaming" => n.splitFailed
  BY <1>3, <1>6, <1>7
<1> QED
  BY <1>5, <1>6, <1>8, <1>9, OutcomeKeeps

(* The next attempt of a call, whether the handler was being moved or not. *)
LEMMA AgainFields ==
  ASSUME NEW c \in Callers, NEW r, HandlerInv(c, r), r.pc \in Calls, ~Exhausted(r),
         NEW n, n = Again(r)
  PROVE  /\ n \in HandlerType
         /\ n.pc = IF r.pc = "upload_post" THEN "upload_pow" ELSE r.pc
         /\ n.api = r.api /\ n.body = r.body /\ n.acct = r.acct /\ n.token = r.token
         /\ n.upload = r.upload /\ n.refs = r.refs /\ n.sess = r.sess
         /\ n.moved = r.moved /\ n.hist = r.hist
         /\ n.popped = {} /\ n.own = None /\ r.popped = {} /\ r.own = None
         /\ ~n.moving /\ ~n.found /\ ~r.found
<1>1. r \in HandlerType
  BY DEF HandlerInv
<1>2. r.popped = {} /\ r.own = None /\ ~r.found
  BY DEF HandlerInv, LeaseFields, Calls
<1>3. CASE r.pc = "upload_post"
  <2>1. n = [r EXCEPT !.pc = "upload_pow", !.pow = None, !.attempts = 0,
                      !.tries = @ + 1, !.moving = FALSE]
    BY <1>3 DEF Again
  <2>2. r.tries + 1 \in 0 .. MaxAttempts /\ 0 \in 0 .. MaxAttempts
    BY <1>1, <1>3, FlowAssumption DEF HandlerInv, MovesInCalls, HandlerType
  <2>3. PICK t \in 0 .. MaxAttempts, zero \in 0 .. MaxAttempts, pc \in PCs :
          t = r.tries + 1 /\ zero = 0 /\ pc = "upload_pow"
    BY <2>2 DEF PCs, Calls
  <2>4. n = [r EXCEPT !.pc = pc, !.pow = None, !.attempts = zero,
                      !.tries = t, !.moving = FALSE]
    BY <2>1, <2>3
  <2>5. [r EXCEPT !.pc = pc, !.pow = None, !.attempts = zero,
                  !.tries = t, !.moving = FALSE] \in HandlerType
    BY <1>1, Updated
  <2> QED
    BY <1>1, <1>2, <1>3, <2>1, <2>4, <2>5 DEF HandlerType
<1>4. CASE r.pc # "upload_post"
  <2>1. n = [r EXCEPT !.attempts = @ + 1, !.moving = FALSE]
    BY <1>4 DEF Again
  <2>2. r.attempts + 1 \in 0 .. MaxAttempts
    BY <1>1, FlowAssumption DEF Exhausted, HandlerType
  <2>3. n \in HandlerType
    <3>1. \A k \in 0 .. MaxAttempts : [r EXCEPT !.attempts = k, !.moving = FALSE] \in HandlerType
      BY <1>1, Updated
    <3> QED
      BY <2>1, <2>2, <3>1
  <2> QED
    BY <1>1, <1>2, <1>4, <2>1, <2>3 DEF HandlerType
<1> QED
  BY <1>3, <1>4

(* The next attempt on the account the handler has. *)
LEMMA AgainKeeps ==
  ASSUME NEW c \in Callers, NEW r, HandlerInv(c, r), r.pc \in Calls, ~Exhausted(r),
         NEW n, n = Again(r)
  PROVE  HandlerInv(c, n) /\ Stays(r, n)
<1>1. /\ n \in HandlerType
      /\ n.pc = IF r.pc = "upload_post" THEN "upload_pow" ELSE r.pc
      /\ n.api = r.api /\ n.body = r.body /\ n.acct = r.acct /\ n.token = r.token
      /\ n.upload = r.upload /\ n.refs = r.refs /\ n.sess = r.sess
      /\ n.moved = r.moved /\ n.hist = r.hist
      /\ n.popped = {} /\ n.own = None /\ r.popped = {} /\ r.own = None
      /\ ~n.moving /\ ~n.found /\ ~r.found
  BY AgainFields
<1>2. r.acct = None => r.token = c
  BY DEF HandlerInv, Active
<1>3. MovesInCalls(n)
  BY <1>1 DEF HandlerInv, MovesInCalls, Uploads, Calls
<1>4. HistoryFollows(n)
  BY <1>1 DEF HandlerInv, HistoryFollows, Uploads, Calls
<1>5. CarriesWhatFits(n)
  BY <1>1 DEF HandlerInv, CarriesWhatFits, ContextRefs, Uploads, Calls
<1>6. LeaseFields(c, n)
  BY <1>1 DEF LeaseFields, Calls
<1> QED
  BY <1>1, <1>2, <1>3, <1>4, <1>5, <1>6 DEF HandlerInv, Stays, Active, Calls

MovedTo(r, a) ==
  [Again(r) EXCEPT !.acct = a, !.token = a,
                   !.moved = @ \cup ({r.pc} \cap {"session", "pow"})]

(* The next attempt on another account, a. *)
LEMMA MovedKeeps ==
  ASSUME NEW c \in Callers, NEW r, HandlerInv(c, r), r.pc \in Calls, ~Exhausted(r),
         NEW a \in Accounts,
         NEW n, n = MovedTo(r, a)
  PROVE  /\ HandlerInv(c, n)
         /\ n.pc \in Active /\ ~n.moving /\ n.acct = a /\ n.token = a
         /\ n.own = r.own /\ n.popped = r.popped /\ ~n.found /\ ~r.found
<1>1. PICK s \in HandlerType :
        /\ s = Again(r)
        /\ s.pc = IF r.pc = "upload_post" THEN "upload_pow" ELSE r.pc
        /\ s.api = r.api /\ s.body = r.body
        /\ s.upload = r.upload /\ s.refs = r.refs /\ s.sess = r.sess
        /\ s.moved = r.moved /\ s.hist = r.hist
        /\ s.popped = {} /\ s.own = None /\ r.popped = {} /\ r.own = None
        /\ ~s.moving /\ ~s.found /\ ~r.found
  BY AgainFields
<1>2. n = [s EXCEPT !.acct = a, !.token = a,
                    !.moved = @ \cup ({r.pc} \cap {"session", "pow"})]
  BY <1>1 DEF MovedTo
<1>3. n \in HandlerType
  <2>1. PICK m \in SUBSET {"session", "pow"} : m = s.moved \cup ({r.pc} \cap {"session", "pow"})
    BY DEF HandlerType
  <2>2. PICK t \in Owners \cup {None} : t = a
    BY DEF Owners
  <2>3. [s EXCEPT !.acct = a, !.token = t, !.moved = m] \in HandlerType
    BY Updated
  <2> QED
    BY <1>2, <2>1, <2>2, <2>3
<1>4. /\ n.pc = s.pc /\ n.api = r.api /\ n.body = r.body /\ n.acct = a /\ n.token = a
      /\ n.upload = r.upload /\ n.refs = r.refs /\ n.sess = r.sess /\ n.hist = r.hist
      /\ n.popped = {} /\ n.own = None /\ ~n.moving /\ ~n.found
  BY <1>1, <1>2 DEF HandlerType
<1>5. n.moved = r.moved \cup ({r.pc} \cap {"session", "pow"})
  BY <1>1, <1>2 DEF HandlerType
<1>6. a # None
  BY FlowAssumption
<1>7. MovesInCalls(n)
  BY <1>1, <1>4 DEF HandlerInv, MovesInCalls, Uploads, Calls
<1>8. HistoryFollows(n)
  BY <1>1, <1>4 DEF HandlerInv, HistoryFollows, Uploads, Calls
<1>9. CarriesWhatFits(n)
  BY <1>1, <1>4, <1>5 DEF HandlerInv, CarriesWhatFits, ContextRefs, Uploads, Calls
<1>10. LeaseFields(c, n)
  BY <1>1, <1>4 DEF LeaseFields, Calls
<1> QED
  BY <1>1, <1>3, <1>4, <1>6, <1>7, <1>8, <1>9, <1>10 DEF HandlerInv, Active, Calls

(***************************************************************************)
(* Moving on to another place without touching account, lease or calls:    *)
(* what is new is the pc, the entry's status and the parts of the body.    *)
(***************************************************************************)
LEMMA GotoFields ==
  ASSUME NEW r \in HandlerType, NEW pc \in PCs,
         NEW n, n = [r EXCEPT !.pc = pc]
  PROVE  /\ n \in HandlerType /\ n.pc = pc
         /\ n.api = r.api /\ n.body = r.body /\ n.acct = r.acct /\ n.token = r.token
         /\ n.moving = r.moving /\ n.tries = r.tries /\ n.upload = r.upload
         /\ n.refs = r.refs /\ n.pow = r.pow /\ n.sess = r.sess /\ n.moved = r.moved
         /\ n.hist = r.hist /\ n.splitFailed = r.splitFailed
         /\ n.popped = r.popped /\ n.own = r.own /\ n.found = r.found
<1>1. [r EXCEPT !.pc = pc] \in HandlerType
  BY Updated
<1>2. n \in HandlerType
  BY <1>1
<1>3. /\ n.pc = pc
      /\ n.api = r.api /\ n.body = r.body /\ n.acct = r.acct /\ n.token = r.token
      /\ n.tries = r.tries /\ n.upload = r.upload
      /\ n.refs = r.refs /\ n.pow = r.pow /\ n.sess = r.sess /\ n.moved = r.moved
      /\ n.hist = r.hist /\ n.popped = r.popped /\ n.own = r.own
  BY DEF HandlerType
<1>4. n.moving = r.moving /\ n.splitFailed = r.splitFailed /\ n.found = r.found
  BY DEF HandlerType
<1> QED
  BY <1>2, <1>3, <1>4

(* The steps that only move on: a split without a file, an answer that     *)
(* starts, and a cleanup that is over.                                     *)
LEMMA GotoKeeps ==
  ASSUME NEW c \in Callers, NEW r, HandlerInv(c, r), ~r.moving,
         NEW pc, <<r.pc, pc>> \in {<<"split", "session">>, <<"complete", "stream">>,
                                   <<"cleanup", "release">>},
         NEW n, n = [r EXCEPT !.pc = pc]
  PROVE  HandlerInv(c, n) /\ Stays(r, n)
<1>1. r \in HandlerType /\ pc \in PCs
  BY DEF HandlerInv, PCs, Calls
<1>2. /\ n \in HandlerType /\ n.pc = pc
      /\ n.api = r.api /\ n.body = r.body /\ n.acct = r.acct /\ n.token = r.token
      /\ n.moving = r.moving /\ n.tries = r.tries /\ n.upload = r.upload
      /\ n.refs = r.refs /\ n.pow = r.pow /\ n.sess = r.sess /\ n.moved = r.moved
      /\ n.hist = r.hist /\ n.splitFailed = r.splitFailed
      /\ n.popped = r.popped /\ n.own = r.own /\ n.found = r.found
  BY <1>1, GotoFields
<1>3. /\ r.popped = {} /\ r.own = None /\ ~r.found
      /\ r.acct = None => r.token = c
  BY DEF HandlerInv, LeaseFields, Active, Calls
<1>4. MovesInCalls(n)
  BY <1>2 DEF MovesInCalls, Uploads
<1>5. HistoryFollows(n)
  BY <1>2 DEF HandlerInv, HistoryFollows, Uploads
<1>6. CarriesWhatFits(n)
  BY <1>2 DEF HandlerInv, CarriesWhatFits, ContextRefs, Uploads
<1>7. LeaseFields(c, n)
  BY <1>2, <1>3 DEF LeaseFields
<1> QED
  BY <1>2, <1>3, <1>4, <1>5, <1>6, <1>7 DEF HandlerInv, Stays, Active, Calls

(* An upload begins: an inline file's, or that of the context file. *)
LEMMA UploadingKeeps ==
  ASSUME NEW c \in Callers, NEW r, HandlerInv(c, r), ~r.moving,
         NEW what \in Contents \cup {"context"},
         \/ r.pc = "inline" /\ r.body # <<>>
         \/ r.pc = "split" /\ what = "context",
         NEW n, n = Uploading(r, what)
  PROVE  HandlerInv(c, n) /\ Stays(r, n)
<1>1. r \in HandlerType
  BY DEF HandlerInv
<1>2. PICK pc \in PCs, zero \in 0 .. MaxAttempts : pc = "upload_pow" /\ zero = 0
  BY FlowAssumption DEF PCs, Calls
<1>3. n = [r EXCEPT !.pc = pc, !.upload = what, !.pow = None,
                    !.attempts = zero, !.tries = zero]
  BY <1>2 DEF Uploading
<1>4. n \in HandlerType
  <2>1. [r EXCEPT !.pc = pc, !.upload = what, !.pow = None,
                  !.attempts = zero, !.tries = zero] \in HandlerType
    BY <1>1, Updated
  <2> QED
    BY <1>3, <2>1
<1>5. /\ n.pc = "upload_pow" /\ n.upload = what
      /\ n.api = r.api /\ n.body = r.body /\ n.acct = r.acct /\ n.token = r.token
      /\ n.refs = r.refs /\ n.hist = r.hist
      /\ n.popped = r.popped /\ n.own = r.own
  BY <1>1, <1>2, <1>3 DEF HandlerType
<1>6. n.moving = r.moving /\ n.found = r.found
  BY <1>1, <1>3 DEF HandlerType
<1>7. /\ r.popped = {} /\ r.own = None /\ ~r.found
      /\ r.acct = None => r.token = c
  BY DEF HandlerInv, LeaseFields, Active, Calls
<1>8. MovesInCalls(n)
  BY <1>5, <1>6 DEF MovesInCalls
<1>9. HistoryFollows(n)
  BY <1>5 DEF HandlerInv, HistoryFollows
<1>10. CarriesWhatFits(n)
  BY <1>5 DEF HandlerInv, CarriesWhatFits, ContextRefs, Uploads
<1>11. LeaseFields(c, n)
  BY <1>5, <1>6, <1>7 DEF LeaseFields
<1> QED
  BY <1>4, <1>5, <1>6, <1>7, <1>8, <1>9, <1>10, <1>11 DEF HandlerInv, Stays, Active, Calls

(* A part of the body that is done with. *)
LEMMA NextPartKeeps ==
  ASSUME NEW c \in Callers, NEW r, HandlerInv(c, r), ~r.moving,
         r.pc = "inline", r.body # <<>>, NEW k \in Nat,
         NEW n, n \in {NextPart(r), [NextPart(r) EXCEPT !.count = k]}
  PROVE  HandlerInv(c, n) /\ Stays(r, n)
<1>1. r \in HandlerType
  BY DEF HandlerInv
<1>2. PICK body \in Seq(Parts) : body = Tail(r.body)
  <2>1. r.body \in Seq(Parts)
    BY <1>1 DEF HandlerType
  <2>2. Tail(r.body) \in Seq(Parts)
    BY <2>1, HeadTailProperties
  <2> QED
    BY <2>2
<1>3. PICK s \in HandlerType : s = [r EXCEPT !.body = body]
  <2>1. [r EXCEPT !.body = body] \in HandlerType
    BY <1>1, Updated
  <2> QED
    BY <2>1
<1>4. n \in HandlerType /\ n \in {s, [s EXCEPT !.count = k]}
  <2>1. n \in {s, [s EXCEPT !.count = k]}
    BY <1>2, <1>3 DEF NextPart
  <2>2. [s EXCEPT !.count = k] \in HandlerType
    BY Updated
  <2> QED
    BY <2>1, <2>2
<1>5. /\ n.pc = "inline"
      /\ n.api = r.api /\ n.acct = r.acct /\ n.token = r.token
      /\ n.refs = r.refs /\ n.hist = r.hist
      /\ n.popped = r.popped /\ n.own = r.own
  <2>1. /\ s.pc = "inline"
        /\ s.api = r.api /\ s.acct = r.acct /\ s.token = r.token
        /\ s.refs = r.refs /\ s.hist = r.hist
        /\ s.popped = r.popped /\ s.own = r.own
    BY <1>1, <1>3 DEF HandlerType
  <2>2. CASE n = s
    BY <2>1, <2>2
  <2>3. CASE n = [s EXCEPT !.count = k]
    BY <2>1, <2>3 DEF HandlerType
  <2> QED
    BY <1>4, <2>2, <2>3
<1>6. n.moving = r.moving /\ n.found = r.found
  <2>1. s.moving = r.moving /\ s.found = r.found
    BY <1>1, <1>3 DEF HandlerType
  <2> QED
    BY <1>4, <2>1 DEF HandlerType
<1>7. /\ r.popped = {} /\ r.own = None /\ ~r.found
      /\ r.acct = None => r.token = c
  BY DEF HandlerInv, LeaseFields, Active, Calls
<1>8. MovesInCalls(n)
  BY <1>5, <1>6 DEF MovesInCalls, Uploads
<1>9. HistoryFollows(n)
  BY <1>5 DEF HandlerInv, HistoryFollows, Uploads
<1>10. CarriesWhatFits(n)
  BY <1>5 DEF HandlerInv, CarriesWhatFits, ContextRefs, Uploads
<1>11. LeaseFields(c, n)
  BY <1>5, <1>6, <1>7 DEF LeaseFields
<1> QED
  BY <1>4, <1>5, <1>6, <1>7, <1>8, <1>9, <1>10, <1>11 DEF HandlerInv, Stays, Active, Calls

(* What a call that succeeds leaves, step by step as the calls are made. *)
LEMMA AnsweredKeeps ==
  ASSUME NEW c \in Callers, NEW r, HandlerInv(c, r), ~r.moving,
         r.pc \in Calls, ~Exhausted(r),
         NEW n, n = Answered(r)
  PROVE  /\ HandlerInv(c, n) /\ Stays(r, n)
         /\ r.pc = "session" => n.sess = r.token
         /\ r.pc # "session" => n.sess = r.sess
<1>1. r \in HandlerType
  BY DEF HandlerInv
<1>2. /\ r.popped = {} /\ r.own = None /\ ~r.found
      /\ r.acct = None => r.token = c
  BY DEF HandlerInv, LeaseFields, Active, Calls
<1>3. 0 \in 0 .. MaxAttempts
  BY FlowAssumption
<1>4. CASE r.pc = "upload_pow"
  <2> DEFINE pw == [by |-> r.token, for |-> "upload"]
  <2>1. /\ pw \in [by : Owners \cup {None}, for : {"upload", "completion"}]
        /\ "upload_post" \in PCs
    BY <1>1 DEF HandlerType, PCs, Calls
  <2> HIDE DEF pw
  <2>2. n = [r EXCEPT !.pc = "upload_post", !.pow = pw]
    BY <1>4 DEF Answered, pw
  <2>3. [r EXCEPT !.pc = "upload_post", !.pow = pw] \in HandlerType
    BY <1>1, <2>1, Updated
  <2>4. /\ n \in HandlerType /\ n.pc = "upload_post" /\ n.pow = pw
        /\ n.api = r.api /\ n.body = r.body /\ n.acct = r.acct /\ n.token = r.token
        /\ n.tries = r.tries /\ n.upload = r.upload /\ n.refs = r.refs
        /\ n.hist = r.hist /\ n.sess = r.sess
        /\ n.popped = r.popped /\ n.own = r.own
    BY <1>1, <2>2, <2>3 DEF HandlerType
  <2>5. n.moving = r.moving /\ n.found = r.found
    BY <1>1, <2>2 DEF HandlerType
  <2>6. MovesInCalls(n)
    BY <1>1, <1>4, <2>4, <2>5, FlowAssumption
    DEF HandlerInv, MovesInCalls, Exhausted, Uploads, HandlerType
  <2>7. HistoryFollows(n)
    BY <1>4, <2>4 DEF HandlerInv, HistoryFollows, Uploads
  <2>8. CarriesWhatFits(n)
    BY <1>4, <2>4 DEF HandlerInv, CarriesWhatFits, ContextRefs, Uploads, pw
  <2>9. LeaseFields(c, n)
    BY <1>2, <2>4, <2>5 DEF LeaseFields
  <2> QED
    BY <1>2, <1>4, <2>4, <2>5, <2>6, <2>7, <2>8, <2>9 DEF HandlerInv, Stays, Active, Calls
<1>5. CASE r.pc = "upload_post" /\ r.upload # "context"
  <2>1. PICK body \in Seq(Parts) : body = Tail(r.body)
    <3>1. r.body \in Seq(Parts)
      BY <1>1 DEF HandlerType
    <3>2. r.body # <<>>
      BY <1>5 DEF HandlerInv, MovesInCalls, Uploads
    <3>3. Tail(r.body) \in Seq(Parts)
      BY <3>1, <3>2, HeadTailProperties
    <3> QED
      BY <3>3
  <2>2. PICK s \in HandlerType : s = [r EXCEPT !.body = body]
    <3>1. [r EXCEPT !.body = body] \in HandlerType
      BY <1>1, Updated
    <3> QED
      BY <3>1
  <2> DEFINE refs == r.refs \cup {[what |-> r.upload, owner |-> r.token]}
             k == r.count + 1
  <2>3. /\ refs \in SUBSET [what : Contents \cup {"context", None}, owner : Owners \cup {None}]
        /\ k \in Nat
    BY <1>1 DEF HandlerType
  <2>4. s.refs = r.refs /\ s.count = r.count /\ s.pc = r.pc
    BY <1>1, <2>2 DEF HandlerType
  <2>5. n = [s EXCEPT !.pc = "inline", !.count = k, !.refs = refs]
    BY <1>5, <2>1, <2>2, <2>4 DEF Answered, NextPart
  <2>6. \A f \in refs : f.what = "context" => f \in r.refs
    BY <1>5
  <2> HIDE DEF refs, k
  <2>7. [s EXCEPT !.pc = "inline", !.count = k, !.refs = refs] \in HandlerType
    BY <2>3, Updated DEF PCs
  <2>8. /\ n \in HandlerType /\ n.pc = "inline" /\ n.refs = refs
        /\ n.api = r.api /\ n.acct = r.acct /\ n.token = r.token
        /\ n.hist = r.hist /\ n.sess = r.sess
        /\ n.popped = r.popped /\ n.own = r.own
    BY <1>1, <2>2, <2>5, <2>7 DEF HandlerType
  <2>9. n.moving = r.moving /\ n.found = r.found
    BY <1>1, <2>2, <2>5 DEF HandlerType
  <2>10. MovesInCalls(n)
    BY <2>8, <2>9 DEF MovesInCalls, Uploads
  <2>11. HistoryFollows(n)
    BY <1>5, <2>8 DEF HandlerInv, HistoryFollows, Uploads
  <2>12. ContextRefs(n) = {}
    BY <1>5, <2>6, <2>8 DEF HandlerInv, CarriesWhatFits, ContextRefs, Uploads
  <2>13. CarriesWhatFits(n)
    BY <2>8, <2>12 DEF CarriesWhatFits, Uploads
  <2>14. LeaseFields(c, n)
    BY <1>2, <2>8, <2>9 DEF LeaseFields
  <2> QED
    BY <1>2, <1>5, <2>8, <2>9, <2>10, <2>11, <2>13, <2>14 DEF HandlerInv, Stays, Active, Calls
<1>6. CASE r.pc = "upload_post" /\ r.upload = "context"
  <2> DEFINE ref == [what |-> "context", owner |-> r.token]
  <2>1. {ref} \in SUBSET [what : Contents \cup {"context", None}, owner : Owners \cup {None}]
    BY <1>1 DEF HandlerType
  <2>2. ref.owner = r.token
    OBVIOUS
  <2>3. n = [r EXCEPT !.pc = "session", !.attempts = 0, !.refs = {ref}]
    BY <1>6 DEF Answered
  <2> HIDE DEF ref
  <2>4. [r EXCEPT !.pc = "session", !.attempts = 0, !.refs = {ref}] \in HandlerType
    BY <1>1, <1>3, <2>1, Updated DEF PCs, Calls
  <2>5. /\ n \in HandlerType /\ n.pc = "session" /\ n.refs = {ref}
        /\ n.api = r.api /\ n.acct = r.acct /\ n.token = r.token
        /\ n.hist = r.hist /\ n.sess = r.sess
        /\ n.popped = r.popped /\ n.own = r.own
    BY <1>1, <2>3, <2>4 DEF HandlerType
  <2>6. n.moving = r.moving /\ n.found = r.found
    BY <1>1, <2>3 DEF HandlerType
  <2>7. MovesInCalls(n)
    BY <2>5, <2>6 DEF MovesInCalls, Uploads
  <2>8. HistoryFollows(n)
    BY <2>5 DEF HandlerInv, HistoryFollows, Uploads
  <2>9. CarriesWhatFits(n)
    BY <2>2, <2>5 DEF CarriesWhatFits, ContextRefs, Uploads
  <2>10. LeaseFields(c, n)
    BY <1>2, <2>5, <2>6 DEF LeaseFields
  <2> QED
    BY <1>2, <1>6, <2>5, <2>6, <2>7, <2>8, <2>9, <2>10 DEF HandlerInv, Stays, Active, Calls
<1>7. CASE r.pc = "session"
  <2>1. n = [r EXCEPT !.pc = "pow", !.attempts = 0, !.sess = r.token]
    BY <1>7 DEF Answered
  <2>2. [r EXCEPT !.pc = "pow", !.attempts = 0, !.sess = r.token] \in HandlerType
    <3>1. r.token \in Owners \cup {None}
      BY <1>1 DEF HandlerType
    <3> QED
      BY <1>1, <1>3, <3>1, Updated DEF PCs, Calls
  <2>3. /\ n \in HandlerType /\ n.pc = "pow" /\ n.sess = r.token
        /\ n.api = r.api /\ n.acct = r.acct /\ n.token = r.token
        /\ n.hist = r.hist /\ n.refs = r.refs /\ n.moved = r.moved
        /\ n.popped = r.popped /\ n.own = r.own
    BY <1>1, <2>1, <2>2 DEF HandlerType
  <2>4. n.moving = r.moving /\ n.found = r.found
    BY <1>1, <2>1 DEF HandlerType
  <2>5. MovesInCalls(n)
    BY <2>3, <2>4 DEF MovesInCalls, Uploads
  <2>6. HistoryFollows(n)
    BY <2>3 DEF HandlerInv, HistoryFollows, Uploads
  <2>7. CarriesWhatFits(n)
    BY <1>7, <2>3 DEF HandlerInv, CarriesWhatFits, ContextRefs, Uploads
  <2>8. LeaseFields(c, n)
    BY <1>2, <2>3, <2>4 DEF LeaseFields
  <2> QED
    BY <1>2, <1>7, <2>3, <2>4, <2>5, <2>6, <2>7, <2>8 DEF HandlerInv, Stays, Active, Calls
<1>8. CASE r.pc = "pow"
  <2> DEFINE pw == [by |-> r.token, for |-> "completion"]
             pc == IF r.api = "prepare" THEN "hold" ELSE "complete"
  <2>1. /\ pw \in [by : Owners \cup {None}, for : {"upload", "completion"}]
        /\ pc \in PCs
    BY <1>1 DEF HandlerType, PCs
  <2>2. n = [r EXCEPT !.pc = pc, !.pow = pw]
    BY <1>8 DEF Answered
  <2>3. /\ pc \in {"hold", "complete"}
        /\ pc = "hold" => r.api = "prepare"
    OBVIOUS
  <2> HIDE DEF pw, pc
  <2>4. [r EXCEPT !.pc = pc, !.pow = pw] \in HandlerType
    BY <1>1, <2>1, Updated
  <2>5. /\ n \in HandlerType /\ n.pc = pc /\ n.pow = pw
        /\ n.api = r.api /\ n.acct = r.acct /\ n.token = r.token
        /\ n.hist = r.hist /\ n.refs = r.refs /\ n.moved = r.moved /\ n.sess = r.sess
        /\ n.popped = r.popped /\ n.own = r.own
    BY <1>1, <2>2, <2>4 DEF HandlerType
  <2>6. n.moving = r.moving /\ n.found = r.found
    BY <1>1, <2>2 DEF HandlerType
  <2>7. MovesInCalls(n)
    BY <2>3, <2>5, <2>6 DEF MovesInCalls, Uploads
  <2>8. HistoryFollows(n)
    BY <2>3, <2>5 DEF HandlerInv, HistoryFollows, Uploads
  <2>9. CarriesWhatFits(n)
    BY <1>8, <2>3, <2>5 DEF HandlerInv, CarriesWhatFits, ContextRefs, Uploads, pw
  <2>10. LeaseFields(c, n)
    BY <1>2, <2>3, <2>5, <2>6 DEF LeaseFields
  <2> QED
    BY <1>2, <1>8, <2>3, <2>5, <2>6, <2>7, <2>8, <2>9, <2>10 DEF HandlerInv, Stays, Active, Calls
<1> QED
  BY <1>4, <1>5, <1>6, <1>7, <1>8 DEF Calls

----------------------------------------------------------------------------
(* The counters *)

Holders(h, a) == {c \in Callers : h[c] = a}

(* Each account has finitely many holders. *)
LEMMA HoldersFinite ==
  \A h, a : IsFiniteSet(Holders(h, a)) /\ Cardinality(Holders(h, a)) \in Nat
BY FiniteAssumption, FS_Subset, FS_CardinalityType DEF Holders

(* A grant adds one holder to its account and leaves the others alone. *)
LEMMA HoldersGrow ==
  ASSUME NEW h \in [Callers -> Accounts \cup {None}], NEW g,
         NEW d \in Callers, NEW a \in Accounts,
         h[d] = None, g[d] = a, \A e \in Callers : e # d => g[e] = h[e]
  PROVE  /\ Cardinality(Holders(g, a)) = Cardinality(Holders(h, a)) + 1
         /\ \A b \in Accounts : b # a =>
              Cardinality(Holders(g, b)) = Cardinality(Holders(h, b))
<1>1. Holders(g, a) = Holders(h, a) \cup {d} /\ d \notin Holders(h, a)
  BY FlowAssumption DEF Holders
<1>2. \A b \in Accounts : b # a => Holders(g, b) = Holders(h, b)
  BY FlowAssumption DEF Holders
<1>3. Cardinality(Holders(g, a)) = Cardinality(Holders(h, a)) + 1
  BY <1>1, HoldersFinite, FS_AddElement
<1> QED
  BY <1>2, <1>3

(* A return takes one holder from its account, which had one. *)
LEMMA HoldersShrink ==
  ASSUME NEW h \in [Callers -> Accounts \cup {None}], NEW g,
         NEW d \in Callers, NEW a \in Accounts,
         h[d] = a, g[d] = None, \A e \in Callers : e # d => g[e] = h[e]
  PROVE  /\ Cardinality(Holders(h, a)) = Cardinality(Holders(g, a)) + 1
         /\ \A b \in Accounts : b # a =>
              Cardinality(Holders(h, b)) = Cardinality(Holders(g, b))
<1>1. Holders(h, a) = Holders(g, a) \cup {d} /\ d \notin Holders(g, a)
  BY FlowAssumption DEF Holders
<1>2. \A b \in Accounts : b # a => Holders(h, b) = Holders(g, b)
  BY FlowAssumption DEF Holders
<1>3. Cardinality(Holders(h, a)) = Cardinality(Holders(g, a)) + 1
  BY <1>1, HoldersFinite, FS_AddElement
<1> QED
  BY <1>2, <1>3

(* Taking a slot of a, which has one left, for a caller that holds none. *)
LEMMA SlotTaken ==
  ASSUME SlotsRight, maxPer \in Nat, maxPer' = maxPer, orphans' = orphans,
         NEW d \in Callers, d \notin orphans => holds[d] = None,
         NEW a \in Accounts, used[a] < maxPer,
         used' = [used EXCEPT ![a] = @ + 1], holds' = [holds EXCEPT ![d] = a]
  PROVE  SlotsRight'
<1>1. used' \in [Accounts -> Nat] /\ holds' \in [Callers -> Accounts \cup {None}]
  BY DEF SlotsRight
<1>2. UsedBounded'
  BY DEF SlotsRight, UsedBounded
<1>3. PICK g : g = holds'
  OBVIOUS
<1>4. ASSUME orphans = {}, NEW b \in Accounts
      PROVE  used'[b] = Cardinality(Holders(g, b))
  <2>1. used[b] = Cardinality(Holders(holds, b)) /\ used[b] \in Nat
    BY <1>4 DEF SlotsRight, SlotsAccounted, Holders
  <2>2. /\ holds \in [Callers -> Accounts \cup {None}] /\ holds[d] = None
        /\ g[d] = a /\ \A e \in Callers : e # d => g[e] = holds[e]
    BY <1>3, <1>4 DEF SlotsRight
  <2>3. /\ Cardinality(Holders(g, a)) = Cardinality(Holders(holds, a)) + 1
        /\ \A e \in Accounts : e # a =>
             Cardinality(Holders(g, e)) = Cardinality(Holders(holds, e))
    BY <2>2, HoldersGrow
  <2>4. used'[b] = IF b = a THEN used[b] + 1 ELSE used[b]
    BY DEF SlotsRight
  <2> QED
    BY <2>1, <2>3, <2>4
<1>5. SlotsAccounted'
  BY <1>3, <1>4 DEF SlotsAccounted, Holders
<1> QED
  BY <1>1, <1>2, <1>5 DEF SlotsRight

(***************************************************************************)
(* Giving the slot of d back: the counter of the account d is on goes down *)
(* unless it is at zero, which it is not as long as no switch has failed.  *)
(***************************************************************************)
LEMMA SlotReturned ==
  ASSUME SlotsRight, maxPer \in Nat, maxPer' = maxPer, orphans' = orphans,
         NEW d \in Callers,
         NEW a \in Accounts \cup {None}, d \notin orphans => holds[d] = a,
         used' = IF a = None THEN used ELSE Decremented(a),
         holds' = [holds EXCEPT ![d] = None]
  PROVE  SlotsRight'
<1>1. holds' \in [Callers -> Accounts \cup {None}]
  BY DEF SlotsRight
<1>2. /\ used' \in [Accounts -> Nat]
      /\ \A b \in Accounts : used'[b] = IF b = a /\ used[a] > 0 THEN used[b] - 1 ELSE used[b]
  <2>1. CASE a = None
    BY <2>1, FlowAssumption DEF SlotsRight
  <2>2. CASE a # None /\ used[a] = 0
    BY <2>2 DEF SlotsRight, Decremented
  <2>3. CASE a # None /\ used[a] # 0
    <3>1. used' = [used EXCEPT ![a] = @ - 1] /\ a \in Accounts
      BY <2>3 DEF Decremented
    <3>2. used[a] - 1 \in Nat
      BY <2>3, <3>1 DEF SlotsRight
    <3> QED
      BY <2>3, <3>1, <3>2 DEF SlotsRight
  <2> QED
    BY <2>1, <2>2, <2>3
<1>3. UsedBounded'
  BY <1>2 DEF SlotsRight, UsedBounded
<1>4. PICK g : g = holds'
  OBVIOUS
<1>5. ASSUME orphans = {}, NEW b \in Accounts
      PROVE  used'[b] = Cardinality(Holders(g, b))
  <2>1. /\ \A e \in Accounts : used[e] = Cardinality(Holders(holds, e)) /\ used[e] \in Nat
        /\ holds \in [Callers -> Accounts \cup {None}] /\ holds[d] = a
        /\ g[d] = None /\ \A e \in Callers : e # d => g[e] = holds[e]
    BY <1>4, <1>5 DEF SlotsRight, SlotsAccounted, Holders
  <2>2. CASE a = None
    <3>1. g = holds
      BY <1>4, <2>1, <2>2
    <3> QED
      BY <1>2, <2>1, <2>2, <3>1, FlowAssumption
  <2>3. CASE a # None
    <3>1. a \in Accounts
      BY <2>3
    <3>2. /\ Cardinality(Holders(holds, a)) = Cardinality(Holders(g, a)) + 1
          /\ \A e \in Accounts : e # a =>
               Cardinality(Holders(holds, e)) = Cardinality(Holders(g, e))
      BY <2>1, <3>1, HoldersShrink
    <3>3. Cardinality(Holders(g, a)) \in Nat
      BY HoldersFinite
    <3> QED
      BY <1>2, <2>1, <3>1, <3>2, <3>3
  <2> QED
    BY <2>2, <2>3
<1>6. SlotsAccounted'
  BY <1>4, <1>5 DEF SlotsAccounted, Holders
<1> QED
  BY <1>1, <1>2, <1>3, <1>6 DEF SlotsRight

----------------------------------------------------------------------------
(* The kinds of steps *)

(* Every step of a handler changes this handler only. *)
LEMMA HandlersKept ==
  ASSUME HandlersRight, NEW c \in Callers, NEW n, HandlerInv(c, n), Set(c, n)
  PROVE  /\ HandlersRight'
         /\ q'[c] = n /\ \A d \in Callers : d # c => q'[d] = q[d]
BY DEF HandlersRight, HandlerInv, Set

(* c's handler has taken no lease off the table, and takes none. *)
Undisturbed(c, n) ==
  /\ n.own = q[c].own /\ n.popped = q[c].popped
  /\ ~Finding(c) /\ ~(n.found /\ n.pc = "return")

(* Then each lease stays where it is. *)
LEMMA LeasesKept ==
  ASSUME HandlersRight, LeasesOnce,
         NEW c \in Callers, NEW n, HandlerInv(c, n), Set(c, n), Undisturbed(c, n),
         leases' = leases, late' = late
  PROVE  /\ LeasesOnce'
         /\ \A d \in Callers : InCustody(d)' <=> InCustody(d)
<1>1. q'[c] = n /\ \A d \in Callers : d # c => q'[d] = q[d]
  BY HandlersKept
<1>2. \A d \in Callers : q'[d].own = q[d].own /\ q'[d].popped = q[d].popped
  BY <1>1 DEF Undisturbed
<1>3. \A d \in Callers : Finding(d)' <=> Finding(d)
  BY <1>1 DEF Undisturbed, Finding
<1>4. \A d \in Callers : InCustody(d)' <=> InCustody(d)
  BY <1>2, <1>3 DEF InCustody
<1>5. LeasesOnce'
  BY <1>2, <1>3, <1>4 DEF LeasesOnce
<1> QED
  BY <1>4, <1>5

(* A step that takes no slot and returns none. *)
Quiet(c, n) ==
  /\ HandlerInv(c, n)
  /\ Set(c, n)
  /\ Undisturbed(c, n)
  /\ Claim(n) = Claim(q[c])
  /\ q[c].own = c => n.acct = q[c].acct
  /\ Claim(n) # None => n.token = q[c].token
  /\ UNCHANGED <<used, leases, late, holds, orphans, maxPer>>
  /\ live' \subseteq Callers

(* What it keeps: nothing that FlowInv says of the slots has changed. *)
LEMMA QuietStep ==
  ASSUME FlowInv, NEW c \in Callers, NEW n, Quiet(c, n)
  PROVE  FlowInv'
<1>1. /\ HandlersRight'
      /\ q'[c] = n /\ \A d \in Callers : d # c => q'[d] = q[d]
  BY HandlersKept DEF FlowInv, Quiet
<1>2. /\ LeasesOnce'
      /\ \A d \in Callers : InCustody(d)' <=> InCustody(d)
  BY LeasesKept DEF FlowInv, Quiet
<1>3. \A d \in Callers : Claim(q'[d]) = Claim(q[d])
  BY <1>1 DEF Quiet
<1>4. ASSUME NEW d \in Callers \ orphans
      PROVE  /\ holds[d] = IF InCustody(d)' THEN q'[d].acct ELSE Claim(q'[d])
             /\ Claim(q'[d]) # None => q'[d].token = Claim(q'[d])
  <2>1. InCustody(d) => q'[d].acct = q[d].acct
    BY <1>1 DEF FlowInv, LeasesOnce, Quiet
  <2>2. Claim(q[d]) # None => q'[d].token = q[d].token
    BY <1>1 DEF Quiet
  <2> QED
    BY <1>2, <1>3, <2>1, <2>2 DEF FlowInv, SlotsFollow
<1>5. SlotsFollow'
  BY <1>4 DEF SlotsFollow, Quiet
<1>6. SlotsRight'
  BY DEF FlowInv, SlotsRight, UsedBounded, SlotsAccounted, Quiet
<1>7. Shared'
  BY DEF FlowInv, Shared, Quiet
<1> QED
  BY <1>1, <1>2, <1>5, <1>6, <1>7 DEF FlowInv

(* A step that takes a slot of account a, which has one left. *)
Grants(c, a, n) ==
  /\ HandlerInv(c, n)
  /\ Set(c, n)
  /\ Undisturbed(c, n)
  /\ Claim(q[c]) = None /\ q[c].own # c
  /\ Claim(n) = a /\ n.token = a
  /\ used[a] < maxPer
  /\ used' = [used EXCEPT ![a] = @ + 1] /\ holds' = [holds EXCEPT ![c] = a]
  /\ UNCHANGED <<leases, late, live, orphans, maxPer>>

(* The account has one holder more, the caller that now works with it. *)
LEMMA GrantStep ==
  ASSUME FlowInv, NEW c \in Callers, NEW a \in Accounts, NEW n, Grants(c, a, n)
  PROVE  FlowInv'
<1>1. /\ HandlersRight'
      /\ q'[c] = n /\ \A d \in Callers : d # c => q'[d] = q[d]
  BY HandlersKept DEF FlowInv, Grants
<1>2. /\ LeasesOnce'
      /\ \A d \in Callers : InCustody(d)' <=> InCustody(d)
  BY LeasesKept DEF FlowInv, Grants
<1>3. ~InCustody(c)
  BY DEF FlowInv, LeasesOnce, Grants
<1>4. c \notin orphans => holds[c] = None
  BY <1>3 DEF FlowInv, SlotsFollow, Grants
<1>5. /\ holds'[c] = a
      /\ \A d \in Callers : d # c => holds'[d] = holds[d]
  BY DEF FlowInv, SlotsRight, Grants
<1>6. SlotsFollow'
  BY <1>1, <1>2, <1>3, <1>5, FlowAssumption DEF FlowInv, SlotsFollow, Grants
<1>7. SlotsRight'
  BY <1>4, SlotTaken DEF FlowInv, Shared, Grants
<1>8. Shared'
  BY DEF FlowInv, Shared, Grants
<1> QED
  BY <1>1, <1>2, <1>6, <1>7, <1>8 DEF FlowInv

(* A step of a handler that gives the slot of its account back. *)
Returns(c, n) ==
  /\ HandlerInv(c, n)
  /\ Set(c, n)
  /\ Undisturbed(c, n)
  /\ q[c].acct \in Accounts /\ Claim(q[c]) = q[c].acct /\ q[c].own # c
  /\ Claim(n) = None
  /\ used' = Decremented(q[c].acct) /\ holds' = [holds EXCEPT ![c] = None]
  /\ UNCHANGED <<leases, late, live, orphans, maxPer>>

(* The account has one holder less, and the caller holds nothing. *)
LEMMA ReturnStep ==
  ASSUME FlowInv, NEW c \in Callers, NEW n, Returns(c, n)
  PROVE  FlowInv'
<1>1. /\ HandlersRight'
      /\ q'[c] = n /\ \A d \in Callers : d # c => q'[d] = q[d]
  BY HandlersKept DEF FlowInv, Returns
<1>2. /\ LeasesOnce'
      /\ \A d \in Callers : InCustody(d)' <=> InCustody(d)
  BY LeasesKept DEF FlowInv, Returns
<1>3. ~InCustody(c)
  BY DEF FlowInv, LeasesOnce, Returns
<1>4. c \notin orphans => holds[c] = q[c].acct
  BY <1>3 DEF FlowInv, SlotsFollow, Returns
<1>5. /\ holds'[c] = None
      /\ \A d \in Callers : d # c => holds'[d] = holds[d]
  BY DEF FlowInv, SlotsRight, Returns
<1>6. SlotsFollow'
  BY <1>1, <1>2, <1>3, <1>5 DEF FlowInv, SlotsFollow, Returns
<1>7. SlotsRight'
  BY <1>4, SlotReturned, FlowAssumption DEF FlowInv, Shared, Returns
<1>8. Shared'
  BY DEF FlowInv, Shared, Returns
<1> QED
  BY <1>1, <1>2, <1>6, <1>7, <1>8 DEF FlowInv

(* A switch that finds no account: from now on nothing is said of c. *)
Orphans(c, n) ==
  /\ HandlerInv(c, n)
  /\ Set(c, n)
  /\ Undisturbed(c, n)
  /\ orphans' = orphans \cup {c}
  /\ UNCHANGED <<used, leases, late, live, holds, maxPer>>

(* The other callers' slots are as they were. *)
LEMMA OrphanStep ==
  ASSUME FlowInv, NEW c \in Callers, NEW n, Orphans(c, n)
  PROVE  FlowInv'
<1>1. /\ HandlersRight'
      /\ q'[c] = n /\ \A d \in Callers : d # c => q'[d] = q[d]
  BY HandlersKept DEF FlowInv, Orphans
<1>2. /\ LeasesOnce'
      /\ \A d \in Callers : InCustody(d)' <=> InCustody(d)
  BY LeasesKept DEF FlowInv, Orphans
<1>3. SlotsFollow'
  BY <1>1, <1>2 DEF FlowInv, SlotsFollow, Orphans
<1>4. SlotsRight'
  BY DEF FlowInv, SlotsRight, UsedBounded, SlotsAccounted, Orphans
<1>5. Shared'
  BY DEF FlowInv, Shared, Orphans
<1> QED
  BY <1>1, <1>2, <1>3, <1>4, <1>5 DEF FlowInv

(* A step that moves leases between the table and the handlers. *)
MovesLeases(c, n) ==
  /\ HandlerInv(c, n)
  /\ Set(c, n)
  /\ Claim(n) = None
  /\ LeasesOnce'
  /\ \A d \in Callers : d # c => (InCustody(d)' <=> InCustody(d))
  /\ IF InCustody(c)' THEN n.acct = IF InCustody(c) THEN q[c].acct ELSE Claim(q[c])
     ELSE ~InCustody(c) /\ Claim(q[c]) = None
  /\ UNCHANGED <<used, live, holds, orphans, maxPer>>

(* Whoever's lease is kept holds the slot as long as the lease is somewhere. *)
LEMMA MoveStep ==
  ASSUME FlowInv, NEW c \in Callers, NEW n, MovesLeases(c, n)
  PROVE  FlowInv'
<1>1. /\ HandlersRight'
      /\ q'[c] = n /\ \A d \in Callers : d # c => q'[d] = q[d]
  BY HandlersKept DEF FlowInv, MovesLeases
<1>2. SlotsFollow'
  BY <1>1 DEF FlowInv, SlotsFollow, MovesLeases
<1>3. SlotsRight'
  BY DEF FlowInv, SlotsRight, UsedBounded, SlotsAccounted, MovesLeases
<1>4. Shared'
  BY DEF FlowInv, Shared, MovesLeases
<1> QED
  BY <1>1, <1>2, <1>3, <1>4 DEF FlowInv, MovesLeases

(* A sweep moves the expired leases from the table to the handler. *)
LEMMA SweepStep ==
  ASSUME FlowInv, NEW c \in Callers, Sweep(c)
  PROVE  FlowInv'
<1> DEFINE r == q[c]
           n == [q[c] EXCEPT !.pc = "return", !.popped = late]
<1>1. /\ r \in HandlerType /\ HandlerInv(c, r) /\ r.pc = "sweep" /\ r.popped = {}
      /\ late \subseteq leases /\ leases \subseteq Callers
  BY DEF FlowInv, HandlersRight, LeasesOnce, Sweep
<1>2. n \in HandlerType
  BY <1>1, Updated DEF PCs
<1>3. /\ n.pc = "return" /\ n.popped = late
      /\ n.api = r.api /\ n.acct = r.acct /\ n.token = r.token
      /\ n.hist = r.hist /\ n.own = r.own /\ n.refs = r.refs
  BY <1>1 DEF HandlerType
<1>4. n.moving = r.moving /\ n.found = r.found
  BY <1>1 DEF HandlerType
<1> HIDE DEF n
<1>5. r.own = None /\ ~r.found /\ r.api \in {"prepare", "giveback"} /\ ~r.moving
  BY <1>1 DEF HandlerInv, LeaseFields, MovesInCalls, Calls
<1>6. HandlerInv(c, n)
  <2>1. n.pc \notin Active
    BY <1>3 DEF Active, Calls
  <2>2. MovesInCalls(n)
    BY <1>3, <1>4, <1>5 DEF MovesInCalls, Uploads
  <2>3. HistoryFollows(n)
    BY <1>1, <1>3 DEF HandlerInv, HistoryFollows, Uploads
  <2>4. CarriesWhatFits(n)
    BY <1>1, <1>3 DEF HandlerInv, CarriesWhatFits, ContextRefs, Uploads
  <2>5. LeaseFields(c, n)
    BY <1>3, <1>4, <1>5 DEF LeaseFields
  <2> QED
    BY <1>2, <2>1, <2>2, <2>3, <2>4, <2>5 DEF HandlerInv
<1>7. Set(c, n) /\ leases' = leases \ late /\ late' = {}
  BY DEF Sweep, n
<1>8. q'[c] = n /\ \A d \in Callers : d # c => q'[d] = q[d]
  BY <1>6, <1>7, HandlersKept DEF FlowInv
<1>9. \A d \in Callers : q'[d].own = q[d].own /\ q'[d].found = q[d].found
  BY <1>3, <1>4, <1>8
<1>10. \A d \in Callers : q'[d].popped = IF d = c THEN late ELSE q[d].popped
  BY <1>3, <1>8
<1>11. \A d \in Callers : Finding(d)' <=> Finding(d)
  BY <1>4, <1>5, <1>8 DEF Finding
<1>12. \A d \in Callers : InCustody(d)' <=> InCustody(d)
  BY <1>1, <1>7, <1>9, <1>10, <1>11 DEF InCustody
<1>13. LeasesOnce'
  BY <1>1, <1>7, <1>9, <1>10, <1>11, <1>12 DEF FlowInv, LeasesOnce
<1>14. Claim(n) = None /\ Claim(r) = None
  BY <1>1, <1>3 DEF Claim, Active, Calls
<1>15. MovesLeases(c, n)
  BY <1>3, <1>6, <1>7, <1>12, <1>13, <1>14 DEF MovesLeases, Sweep
<1> QED
  BY <1>15, MoveStep

(* A prepared stream keeps its slot: its handler answers, its lease is kept. *)
LEMMA HoldStep ==
  ASSUME FlowInv, NEW c \in Callers, Hold(c)
  PROVE  FlowInv'
<1> DEFINE r == q[c]
           n == [Leave(r, "return") EXCEPT !.popped = late, !.own = c]
<1>1. /\ r \in HandlerType /\ HandlerInv(c, r) /\ r.pc = "hold"
      /\ late \subseteq leases /\ leases \subseteq Callers
  BY DEF FlowInv, HandlersRight, LeasesOnce, Hold
<1>2. PICK s \in HandlerType :
        /\ s = Leave(r, "return")
        /\ s.pc = "return"
        /\ s.api = r.api /\ s.acct = r.acct /\ s.token = r.token
        /\ s.hist = r.hist /\ s.refs = {} /\ ~s.moving /\ ~s.found
  BY <1>1, LeaveFields DEF PCs
<1>3. n = [s EXCEPT !.popped = late, !.own = c]
  BY <1>2
<1> HIDE DEF n
<1>4. n \in HandlerType
  <2>1. [s EXCEPT !.popped = late, !.own = c] \in HandlerType
    BY <1>1, Updated
  <2> QED
    BY <1>3, <2>1
<1>5. /\ n.pc = "return" /\ n.popped = late /\ n.own = c
      /\ n.api = r.api /\ n.acct = r.acct /\ n.hist = r.hist /\ n.refs = {}
  BY <1>2, <1>3 DEF HandlerType
<1>6. ~n.moving /\ ~n.found
  BY <1>2, <1>3 DEF HandlerType
<1>7. r.own = None /\ ~r.found /\ r.popped = {} /\ r.api = "prepare" /\ ~r.moving
  BY <1>1 DEF HandlerInv, LeaseFields, MovesInCalls, Calls
<1>8. HandlerInv(c, n)
  <2>1. n.pc \notin Active
    BY <1>5 DEF Active, Calls
  <2>2. MovesInCalls(n)
    BY <1>5, <1>6 DEF MovesInCalls, Uploads
  <2>3. HistoryFollows(n)
    BY <1>1, <1>5 DEF HandlerInv, HistoryFollows, Uploads
  <2>4. CarriesWhatFits(n)
    BY <1>5 DEF CarriesWhatFits, ContextRefs, Uploads
  <2>5. LeaseFields(c, n)
    BY <1>5, <1>6, <1>7 DEF LeaseFields
  <2> QED
    BY <1>4, <2>1, <2>2, <2>3, <2>4, <2>5 DEF HandlerInv
<1>9. Set(c, n) /\ leases' = (leases \ late) \cup {c} /\ late' = {}
  BY DEF Hold, n
<1>10. q'[c] = n /\ \A d \in Callers : d # c => q'[d] = q[d]
  BY <1>8, <1>9, HandlersKept DEF FlowInv
<1>11. ~InCustody(c)
  BY <1>7, FlowAssumption DEF FlowInv, LeasesOnce
<1>12. /\ \A d \in Callers : q'[d].own = IF d = c THEN c ELSE q[d].own
       /\ \A d \in Callers : q'[d].popped = IF d = c THEN late ELSE q[d].popped
  BY <1>5, <1>10
<1>13. \A d \in Callers : Finding(d)' <=> Finding(d)
  BY <1>6, <1>7, <1>10 DEF Finding
<1>14. ~Finding(c)
  BY <1>7 DEF Finding
<1>15. \A d \in Callers : d # c => (InCustody(d)' <=> InCustody(d))
  BY <1>1, <1>7, <1>9, <1>12, <1>13, <1>14 DEF InCustody
<1>16. InCustody(c)'
  BY <1>9 DEF InCustody
<1>17. c \notin leases /\ \A d \in Callers : c \notin q[d].popped /\ (Finding(d) => q[d].own # c)
  BY <1>11 DEF InCustody
<1>18. LeasesOnce'
  <2>1. late' \subseteq leases' /\ leases' \subseteq Callers
    BY <1>1, <1>9
  <2>2. \A d \in Callers : InCustody(d)' => q'[d].own = d
    BY <1>12, <1>15 DEF FlowInv, LeasesOnce
  <2>3. \A d \in Callers : q'[d].popped \cap leases' = {}
    BY <1>1, <1>9, <1>12, <1>17 DEF FlowInv, LeasesOnce
  <2>4. \A d, e \in Callers : d # e => q'[d].popped \cap q'[e].popped = {}
    BY <1>1, <1>12 DEF FlowInv, LeasesOnce
  <2>5. \A d \in Callers : Finding(d)' =>
          q'[d].own \notin leases' /\ \A e \in Callers : q'[d].own \notin q'[e].popped
    BY <1>1, <1>9, <1>12, <1>13, <1>14, <1>17 DEF FlowInv, LeasesOnce
  <2>6. \A d, e \in Callers : Finding(d)' /\ Finding(e)' /\ q'[d].own = q'[e].own => d = e
    BY <1>12, <1>13, <1>14 DEF FlowInv, LeasesOnce
  <2> QED
    BY <2>1, <2>2, <2>3, <2>4, <2>5, <2>6 DEF LeasesOnce
<1>19. Claim(n) = None /\ Claim(r) = r.acct
  BY <1>1, <1>5, <1>7 DEF Claim, Active, Calls
<1>20. MovesLeases(c, n)
  BY <1>5, <1>8, <1>9, <1>11, <1>15, <1>16, <1>18, <1>19 DEF MovesLeases, Hold
<1> QED
  BY <1>20, MoveStep

(***************************************************************************)
(* A release call sweeps, and takes the lease it names off the table if it *)
(* is there and has not expired.                                           *)
(***************************************************************************)
LEMMA GiveBackStep ==
  ASSUME FlowInv, NEW c \in Callers, GiveBack(c)
  PROVE  FlowInv'
<1>1. PICK d \in Callers :
        /\ Issued(d)
        /\ Set(c, [q[c] EXCEPT !.own = d, !.popped = late,
                     !.found = (d \in leases \ late)])
        /\ leases' = leases \ (late \cup {d})
        /\ late' = {}
  BY DEF GiveBack
<1> DEFINE r == q[c]
           f == d \in leases \ late
           n == [q[c] EXCEPT !.own = d, !.popped = late, !.found = f]
<1>2. f \in BOOLEAN
  OBVIOUS
<1>3. /\ r \in HandlerType /\ HandlerInv(c, r)
      /\ r.pc = "return" /\ r.popped = {} /\ r.api = "giveback" /\ r.own = None
      /\ late \subseteq leases /\ leases \subseteq Callers
  BY DEF FlowInv, HandlersRight, LeasesOnce, GiveBack
<1>4. Set(c, n)
  BY <1>1 DEF Set
<1> HIDE DEF f
<1>5. n \in HandlerType
  <2>1. PICK g \in BOOLEAN : g = f
    BY <1>2
  <2>2. r \in HandlerType /\ late \in SUBSET Callers /\ d \in Callers \cup {None}
    BY <1>3
  <2> HIDE DEF r
  <2>3. [r EXCEPT !.own = d, !.popped = late, !.found = g] \in HandlerType
    BY <2>2, Updated
  <2> QED
    BY <2>1, <2>3 DEF r
<1>6. /\ n.pc = "return" /\ n.popped = late /\ n.own = d
      /\ n.api = r.api /\ n.acct = r.acct /\ n.hist = r.hist /\ n.refs = r.refs
  BY <1>3 DEF HandlerType
<1>7. n.moving = r.moving /\ n.found = f
  BY <1>3 DEF HandlerType
<1> HIDE DEF n
<1>8. ~r.found /\ ~r.moving
  BY <1>3 DEF HandlerInv, LeaseFields, MovesInCalls, Calls
<1>9. q[d].own = d /\ q[d].api = "prepare" /\ d # c
  BY <1>1, <1>3, FlowAssumption DEF Issued, FlowInv, HandlersRight, HandlerInv, LeaseFields
<1>10. HandlerInv(c, n)
  <2>1. n.pc \notin Active
    BY <1>6 DEF Active, Calls
  <2>2. MovesInCalls(n)
    BY <1>6, <1>7, <1>8 DEF MovesInCalls, Uploads
  <2>3. HistoryFollows(n)
    BY <1>3, <1>6 DEF HandlerInv, HistoryFollows, Uploads
  <2>4. CarriesWhatFits(n)
    BY <1>3, <1>6 DEF HandlerInv, CarriesWhatFits, ContextRefs, Uploads
  <2>5. LeaseFields(c, n)
    BY <1>3, <1>6, <1>9, FlowAssumption DEF LeaseFields
  <2> QED
    BY <1>5, <2>1, <2>2, <2>3, <2>4, <2>5 DEF HandlerInv
<1>11. q'[c] = n /\ \A e \in Callers : e # c => q'[e] = q[e]
  BY <1>4, <1>10, HandlersKept DEF FlowInv
<1>12. /\ \A e \in Callers : q'[e].own = IF e = c THEN d ELSE q[e].own
       /\ \A e \in Callers : q'[e].popped = IF e = c THEN late ELSE q[e].popped
  BY <1>6, <1>11
<1>13. /\ Finding(c)' <=> d \in leases \ late
       /\ ~Finding(c)
       /\ \A e \in Callers : e # c => (Finding(e)' <=> Finding(e))
  BY <1>6, <1>7, <1>8, <1>11 DEF Finding, f
<1>14. \A e \in Callers : InCustody(e)' <=> InCustody(e)
  <2> TAKE e \in Callers
  <2>1. CASE e \in leases
    BY <1>1, <1>12, <1>13, <2>1 DEF InCustody
  <2>2. CASE e \notin leases
    BY <1>1, <1>3, <1>12, <1>13, <2>2 DEF InCustody
  <2> QED
    BY <2>1, <2>2
<1>15. LeasesOnce'
  <2>1. late' \subseteq leases' /\ leases' \subseteq Callers
    BY <1>1, <1>3
  <2>2. \A e \in Callers : InCustody(e)' => q'[e].own = e
    <3>1. ~InCustody(c)
      BY <1>3, FlowAssumption DEF FlowInv, LeasesOnce
    <3> QED
      BY <1>12, <1>14, <3>1 DEF FlowInv, LeasesOnce
  <2>3. \A e \in Callers : q'[e].popped \cap leases' = {}
    BY <1>1, <1>12 DEF FlowInv, LeasesOnce
  <2>4. \A e, g \in Callers : e # g => q'[e].popped \cap q'[g].popped = {}
    BY <1>3, <1>12 DEF FlowInv, LeasesOnce
  <2>5. \A e \in Callers : Finding(e)' =>
          q'[e].own \notin leases' /\ \A g \in Callers : q'[e].own \notin q'[g].popped
    BY <1>1, <1>3, <1>12, <1>13 DEF FlowInv, LeasesOnce
  <2>6. \A e, g \in Callers : Finding(e)' /\ Finding(g)' /\ q'[e].own = q'[g].own => e = g
    BY <1>3, <1>12, <1>13 DEF FlowInv, LeasesOnce
  <2> QED
    BY <2>1, <2>2, <2>3, <2>4, <2>5, <2>6 DEF LeasesOnce
<1>16. Claim(n) = None /\ Claim(r) = None
  BY <1>3, <1>6 DEF Claim, Active, Calls
<1>17. MovesLeases(c, n)
  BY <1>4, <1>6, <1>10, <1>14, <1>15, <1>16 DEF MovesLeases, GiveBack
<1> QED
  BY <1>17, MoveStep

(* A step that ends the custody of d's lease and returns its slot. *)
EndsCustody(c, d, n) ==
  /\ HandlerInv(c, n)
  /\ Set(c, n)
  /\ Claim(n) = None /\ Claim(q[c]) = None
  /\ n.acct = q[c].acct
  /\ LeasesOnce'
  /\ InCustody(d) /\ ~InCustody(d)'
  /\ \A e \in Callers : e # d => (InCustody(e)' <=> InCustody(e))
  /\ ReturnSlot(c, d)
  /\ UNCHANGED <<live, orphans, maxPer>>

(* The one slot that the lease kept is returned, once. *)
LEMMA EndStep ==
  ASSUME FlowInv, NEW c \in Callers, NEW d \in Callers, NEW n, EndsCustody(c, d, n)
  PROVE  FlowInv'
<1>1. /\ HandlersRight'
      /\ q'[c] = n /\ \A e \in Callers : e # c => q'[e] = q[e]
  BY HandlersKept DEF FlowInv, EndsCustody
<1>2. q[d].own = d /\ q[d].acct \in Accounts \cup {None}
  BY DEF FlowInv, LeasesOnce, EndsCustody, HandlersRight, HandlerType
<1>3. Claim(q[d]) = None
  BY <1>2, FlowAssumption
  DEF FlowInv, HandlersRight, HandlerInv, LeaseFields, Claim, Active, Calls
<1>4. \A e \in Callers : q'[e].acct = q[e].acct /\ Claim(q'[e]) = Claim(q[e])
  BY <1>1 DEF EndsCustody
<1>5. d \notin orphans => holds[d] = q[d].acct
  BY DEF FlowInv, SlotsFollow, EndsCustody
<1>6. /\ holds'[d] = None
      /\ \A e \in Callers : e # d => holds'[e] = holds[e]
  BY DEF FlowInv, SlotsRight, EndsCustody, ReturnSlot
<1>7. ASSUME NEW e \in Callers \ orphans
      PROVE  /\ holds'[e] = IF InCustody(e)' THEN q'[e].acct ELSE Claim(q'[e])
             /\ Claim(q'[e]) # None => q'[e].token = Claim(q'[e])
  <2>1. CASE e = d
    BY <1>3, <1>4, <1>6, <2>1 DEF EndsCustody
  <2>2. CASE e # d
    <3>1. holds'[e] = IF InCustody(e)' THEN q'[e].acct ELSE Claim(q'[e])
      BY <1>4, <1>6, <2>2 DEF FlowInv, SlotsFollow, EndsCustody
    <3>2. Claim(q'[e]) # None => q'[e].token = Claim(q'[e])
      BY <1>1, <1>4, <2>2 DEF FlowInv, SlotsFollow, EndsCustody
    <3> QED
      BY <3>1, <3>2
  <2> QED
    BY <2>1, <2>2
<1>8. SlotsFollow'
  BY <1>7 DEF SlotsFollow, EndsCustody
<1>9. SlotsRight'
  BY <1>2, <1>5, SlotReturned DEF FlowInv, Shared, EndsCustody, ReturnSlot
<1>10. Shared'
  BY DEF FlowInv, Shared, EndsCustody
<1> QED
  BY <1>1, <1>8, <1>9, <1>10 DEF FlowInv, EndsCustody

(* The slot of a swept lease goes back. *)
LEMMA ReturnExpiredStep ==
  ASSUME FlowInv, NEW c \in Callers, ReturnExpired(c)
  PROVE  FlowInv'
<1>1. PICK d \in q[c].popped :
        /\ ReturnSlot(c, d)
        /\ Set(c, [q[c] EXCEPT !.popped = @ \ {d}])
  BY DEF ReturnExpired
<1> DEFINE r == q[c]
           n == [q[c] EXCEPT !.popped = q[c].popped \ {d}]
<1>2. /\ r \in HandlerType /\ HandlerInv(c, r) /\ r.pc = "return"
      /\ r.popped \in SUBSET Callers
  BY DEF FlowInv, HandlersRight, HandlerType, ReturnExpired
<1>3. d \in Callers
  BY <1>1, <1>2
<1>4. Set(c, n)
  BY <1>1
<1>5. n \in HandlerType
  <2>1. PICK P \in SUBSET Callers : P = r.popped \ {d}
    BY <1>2
  <2>2. [r EXCEPT !.popped = P] \in HandlerType
    BY <1>2 DEF HandlerType
  <2> QED
    BY <2>1, <2>2
<1>6. /\ n.pc = "return" /\ n.popped = r.popped \ {d} /\ n.own = r.own
      /\ n.api = r.api /\ n.acct = r.acct /\ n.token = r.token /\ n.hist = r.hist /\ n.refs = r.refs
  BY <1>2 DEF HandlerType
<1>7. n.moving = r.moving /\ n.found = r.found
  BY <1>2 DEF HandlerType
<1> HIDE DEF n
<1>8. HandlerInv(c, n)
  <2>1. n.pc \notin Active
    BY <1>6 DEF Active, Calls
  <2>2. MovesInCalls(n)
    BY <1>2, <1>6, <1>7 DEF HandlerInv, MovesInCalls, Uploads, Calls
  <2>3. HistoryFollows(n)
    BY <1>2, <1>6 DEF HandlerInv, HistoryFollows, Uploads
  <2>4. CarriesWhatFits(n)
    BY <1>2, <1>6 DEF HandlerInv, CarriesWhatFits, ContextRefs, Uploads
  <2>5. LeaseFields(c, n)
    BY <1>2, <1>6, <1>7 DEF HandlerInv, LeaseFields
  <2> QED
    BY <1>5, <2>1, <2>2, <2>3, <2>4, <2>5 DEF HandlerInv
<1>9. q'[c] = n /\ \A e \in Callers : e # c => q'[e] = q[e]
  BY <1>4, <1>8, HandlersKept DEF FlowInv
<1>10. /\ \A e \in Callers : q'[e].own = q[e].own
       /\ \A e \in Callers : q'[e].popped = IF e = c THEN q[c].popped \ {d} ELSE q[e].popped
       /\ \A e \in Callers : Finding(e)' <=> Finding(e)
  BY <1>2, <1>6, <1>7, <1>9 DEF Finding
<1>11. leases' = leases /\ late' = late
  BY DEF ReturnExpired
<1>12. InCustody(d) /\ d \notin leases
  BY <1>1, <1>3 DEF FlowInv, LeasesOnce, InCustody
<1>13. ~InCustody(d)'
  <2>1. \A e \in Callers : d \notin q'[e].popped
    BY <1>1, <1>3, <1>10 DEF FlowInv, LeasesOnce
  <2>2. \A e \in Callers : ~(Finding(e) /\ q[e].own = d)
    BY <1>1, <1>3 DEF FlowInv, LeasesOnce
  <2> QED
    BY <1>10, <1>11, <1>12, <2>1, <2>2 DEF InCustody
<1>14. \A e \in Callers : e # d => (InCustody(e)' <=> InCustody(e))
  BY <1>10, <1>11 DEF InCustody
<1>15. LeasesOnce'
  BY <1>10, <1>11, <1>12, <1>13, <1>14 DEF FlowInv, LeasesOnce
<1>16. Claim(n) = None /\ Claim(r) = None
  BY <1>2, <1>6 DEF Claim, Active, Calls
<1>17. EndsCustody(c, d, n)
  BY <1>1, <1>4, <1>6, <1>8, <1>12, <1>13, <1>14, <1>15, <1>16
  DEF EndsCustody, ReturnExpired
<1> QED
  BY <1>3, <1>17, EndStep

(* The answer to a release call. *)
LEMMA BackKeeps ==
  ASSUME NEW c \in Callers, NEW r, HandlerInv(c, r), r.pc = "return", r.popped = {},
         NEW pc \in {"start", "done"},
         NEW n, n = [r EXCEPT !.pc = pc],
         pc = "start" => r.own = None
  PROVE  /\ HandlerInv(c, n)
         /\ n.acct = r.acct /\ n.own = r.own /\ n.popped = {} /\ n.found = r.found
         /\ n.pc = pc /\ Claim(n) = None /\ Claim(r) = None
<1>1. r \in HandlerType /\ pc \in PCs
  BY DEF HandlerInv, PCs
<1>2. /\ n \in HandlerType /\ n.pc = pc
      /\ n.api = r.api /\ n.acct = r.acct /\ n.refs = r.refs
      /\ n.moving = r.moving /\ n.hist = r.hist /\ n.splitFailed = r.splitFailed
      /\ n.popped = r.popped /\ n.own = r.own /\ n.found = r.found
  BY <1>1, GotoFields
<1>3. ~r.moving /\ r.hist = "none"
  BY <1>1 DEF HandlerInv, MovesInCalls, HistoryFollows, LeaseFields, Calls
<1>4. n.pc \notin Active /\ r.pc \notin Active
  BY <1>2 DEF Active, Calls
<1>5. MovesInCalls(n) /\ HistoryFollows(n) /\ CarriesWhatFits(n)
  BY <1>2, <1>3
  DEF HandlerInv, MovesInCalls, HistoryFollows, CarriesWhatFits, ContextRefs, Uploads
<1>6. LeaseFields(c, n)
  BY <1>2 DEF HandlerInv, LeaseFields
<1> QED
  BY <1>2, <1>4, <1>5, <1>6 DEF HandlerInv, Claim

(* A release call that found its lease returns the slot; one that did not ends. *)
LEMMA GivenBackStep ==
  ASSUME FlowInv, NEW c \in Callers, GivenBack(c)
  PROVE  FlowInv'
<1> DEFINE r == q[c]
           n == [q[c] EXCEPT !.pc = "done"]
<1>1. /\ HandlerInv(c, r) /\ r.pc = "return" /\ r.popped = {}
      /\ r.api = "giveback" /\ r.own # None
      /\ r \in HandlerType
  BY DEF FlowInv, HandlersRight, GivenBack
<1>2. Set(c, n)
  BY DEF GivenBack, Goto
<1>3. /\ HandlerInv(c, n)
      /\ n.acct = r.acct /\ n.own = r.own /\ n.popped = {} /\ n.found = r.found
      /\ n.pc = "done" /\ Claim(n) = None /\ Claim(r) = None
  BY <1>1, BackKeeps
<1> HIDE DEF n
<1>4. r.own \in Callers /\ r.own # c
  BY <1>1 DEF HandlerType, HandlerInv, LeaseFields
<1>5. CASE ~q[c].found
  <2>1. Undisturbed(c, n)
    BY <1>1, <1>3, <1>5 DEF Undisturbed, Finding
  <2>2. UNCHANGED <<used, leases, late, holds, orphans, maxPer>> /\ live' \subseteq Callers
    BY <1>5 DEF GivenBack, FlowInv, Shared
  <2>3. Quiet(c, n)
    BY <1>2, <1>3, <2>1, <2>2 DEF Quiet
  <2> QED
    BY <2>3, QuietStep
<1>6. CASE q[c].found
  <2> DEFINE d == q[c].own
  <2>1. Finding(c)
    BY <1>1, <1>6 DEF Finding
  <2>2. q'[c] = n /\ \A e \in Callers : e # c => q'[e] = q[e]
    BY <1>2, <1>3, HandlersKept DEF FlowInv
  <2>3. /\ \A e \in Callers : q'[e].own = q[e].own
        /\ \A e \in Callers : q'[e].popped = q[e].popped
        /\ ~Finding(c)'
        /\ \A e \in Callers : e # c => (Finding(e)' <=> Finding(e))
    BY <1>1, <1>3, <2>2 DEF Finding
  <2>4. leases' = leases /\ late' = late /\ ReturnSlot(c, d)
    BY <1>6 DEF GivenBack
  <2>5. /\ InCustody(d)
        /\ d \notin leases /\ \A e \in Callers : d \notin q[e].popped
        /\ \A e \in Callers : Finding(e) /\ q[e].own = d => e = c
    BY <1>4, <2>1 DEF FlowInv, LeasesOnce, InCustody
  <2>6. ~InCustody(d)'
    BY <2>3, <2>4, <2>5 DEF InCustody
  <2>7. \A e \in Callers : e # d => (InCustody(e)' <=> InCustody(e))
    BY <2>3, <2>4 DEF InCustody
  <2>8. LeasesOnce'
    BY <2>3, <2>4, <2>6, <2>7 DEF FlowInv, LeasesOnce
  <2>9. EndsCustody(c, d, n)
    BY <1>2, <1>3, <2>4, <2>5, <2>6, <2>7, <2>8 DEF EndsCustody, GivenBack
  <2> QED
    BY <1>4, <2>9, EndStep
<1> QED
  BY <1>5, <1>6

(* The prepare goes on, or has answered; a release call that names no lease ends. *)
LEMMA SweptStep ==
  ASSUME FlowInv, NEW c \in Callers, Swept(c) \/ NotGivenBack(c)
  PROVE  FlowInv'
<1>1. PICK pc \in {"start", "done"} : Goto(c, pc) /\ (pc = "start" => q[c].own = None)
  BY DEF Swept, NotGivenBack
<1> DEFINE r == q[c]
           n == [q[c] EXCEPT !.pc = pc]
<1>2. HandlerInv(c, r) /\ r.pc = "return" /\ r.popped = {}
  BY DEF FlowInv, HandlersRight, Swept, NotGivenBack
<1>3. Set(c, n)
  BY <1>1 DEF Goto
<1>4. /\ HandlerInv(c, n)
      /\ n.acct = r.acct /\ n.own = r.own /\ n.popped = {} /\ n.found = r.found
      /\ n.pc = pc /\ Claim(n) = None /\ Claim(r) = None
  BY <1>1, <1>2, BackKeeps
<1> HIDE DEF n
<1>5. ~r.found
  BY <1>2 DEF HandlerInv, LeaseFields, Swept, NotGivenBack
<1>6. Undisturbed(c, n)
  BY <1>2, <1>4, <1>5 DEF Undisturbed, Finding
<1>7. UNCHANGED <<used, leases, late, holds, orphans, maxPer>> /\ live' \subseteq Callers
  BY DEF Swept, NotGivenBack, OnlyHandler, FlowInv, Shared
<1>8. Quiet(c, n)
  BY <1>3, <1>4, <1>6, <1>7 DEF Quiet
<1> QED
  BY <1>8, QuietStep

(* A lease expires where it is. *)
LEMMA ExpireStep ==
  ASSUME FlowInv, NEW c \in Callers, Expire(c)
  PROVE  FlowInv'
<1>1. /\ UNCHANGED <<used, q, leases, live, holds, orphans, maxPer>>
      /\ late' \subseteq leases
  BY DEF Expire, FlowInv, LeasesOnce
<1>2. HandlersRight' /\ Shared' /\ SlotsRight'
  BY <1>1 DEF FlowInv, HandlersRight, Shared, SlotsRight, UsedBounded, SlotsAccounted
<1>3. \A d \in Callers : (InCustody(d)' <=> InCustody(d)) /\ (Finding(d)' <=> Finding(d))
  BY <1>1 DEF InCustody, Finding
<1>4. LeasesOnce' /\ SlotsFollow'
  BY <1>1, <1>3 DEF FlowInv, LeasesOnce, SlotsFollow
<1> QED
  BY <1>2, <1>4 DEF FlowInv

----------------------------------------------------------------------------
(* The actions *)

(* A handler that goes on with the account it has takes a quiet step. *)
LEMMA StayStep ==
  ASSUME FlowInv, NEW c \in Callers, NEW n, HandlerInv(c, n), Set(c, n),
         q[c].pc \in Active, ~q[c].moving, Stays(q[c], n),
         UNCHANGED <<used, leases, late, holds, orphans, maxPer>>, live' \subseteq Callers
  PROVE  FlowInv'
<1>1. Undisturbed(c, n)
  BY DEF Undisturbed, Finding, Stays
<1>2. Claim(n) = Claim(q[c])
  BY DEF Claim, Stays
<1>3. Quiet(c, n)
  BY <1>1, <1>2 DEF Quiet, Stays
<1> QED
  BY <1>3, QuietStep

Assigned(r, a, t) ==
  [r EXCEPT !.acct = a, !.token = t,
            !.pc = IF r.api = "embed" THEN "release" ELSE "inline"]

(* What Determine leaves: a managed account with its token, or the caller's own. *)
LEMMA DeterminedKeeps ==
  ASSUME NEW c \in Callers, NEW r, HandlerInv(c, r), r.pc = "start",
         NEW a \in Accounts \cup {None}, NEW t \in Owners, a = None => t = c,
         NEW n, n = Assigned(r, a, t)
  PROVE  /\ HandlerInv(c, n)
         /\ n.acct = a /\ n.token = t /\ n.own = r.own /\ n.popped = r.popped
         /\ Claim(n) = a /\ Claim(r) = None
         /\ r.own = None /\ ~r.found /\ ~n.found
<1> DEFINE pc == IF r.api = "embed" THEN "release" ELSE "inline"
<1>1. r \in HandlerType /\ pc \in PCs /\ pc \in {"release", "inline"} /\ t \in Owners \cup {None}
  BY DEF HandlerInv, PCs
<1> HIDE DEF pc
<1>2. n = [r EXCEPT !.acct = a, !.token = t, !.pc = pc]
  BY DEF pc, Assigned
<1>3. n \in HandlerType
  <2>1. [r EXCEPT !.acct = a, !.token = t, !.pc = pc] \in HandlerType
    BY <1>1, Updated
  <2> QED
    BY <1>2, <2>1
<1>4. /\ n.pc = pc /\ n.acct = a /\ n.token = t
      /\ n.api = r.api /\ n.hist = r.hist /\ n.refs = r.refs
      /\ n.popped = r.popped /\ n.own = r.own
  BY <1>1, <1>2 DEF HandlerType
<1>5. n.moving = r.moving /\ n.found = r.found
  BY <1>1, <1>2 DEF HandlerType
<1>6. /\ ~r.moving /\ ~r.found /\ r.popped = {} /\ r.own = None
      /\ r.hist = "none"
  BY DEF HandlerInv, MovesInCalls, LeaseFields, HistoryFollows, Calls
<1>7. MovesInCalls(n) /\ HistoryFollows(n)
  BY <1>1, <1>4, <1>5, <1>6 DEF MovesInCalls, HistoryFollows, Uploads
<1>8. LeaseFields(c, n)
  BY <1>1, <1>4, <1>5, <1>6 DEF LeaseFields
<1>9. CarriesWhatFits(n)
  BY <1>1, <1>4 DEF HandlerInv, CarriesWhatFits, ContextRefs, Uploads
<1>10. Claim(n) = a /\ Claim(r) = None
  BY <1>1, <1>4, <1>5, <1>6 DEF Claim, Active, Calls
<1> QED
  BY <1>3, <1>4, <1>5, <1>6, <1>7, <1>8, <1>9, <1>10 DEF HandlerInv

(* What the invariant says of one handler. *)
LEMMA OfHandler ==
  ASSUME FlowInv, NEW c \in Callers
  PROVE  HandlerInv(c, q[c]) /\ q[c] \in HandlerType
BY DEF FlowInv, HandlersRight

(* Determine: a managed account, the caller's own token, or a refusal. *)
LEMMA DetermineStep ==
  ASSUME FlowInv, NEW c \in Callers, Take(c) \/ OwnToken(c) \/ TurnedAway(c)
  PROVE  FlowInv'
<1> DEFINE r == q[c]
<1>1. HandlerInv(c, r) /\ r \in HandlerType /\ r.pc = "start"
  BY OfHandler DEF Take, OwnToken, TurnedAway
<1>2. CASE Take(c)
  <2>1. PICK a \in Accounts :
          /\ used[a] < maxPer
          /\ used' = [used EXCEPT ![a] = @ + 1]
          /\ holds' = [holds EXCEPT ![c] = a]
          /\ Set(c, Assigned(r, a, a))
    BY <1>2 DEF Take, Determined, Assigned
  <2>2. PICK n : n = Assigned(r, a, a)
    OBVIOUS
  <2>3. a # None /\ a \in Owners /\ c # None
    BY FlowAssumption DEF Owners
  <2>4. /\ HandlerInv(c, n)
        /\ n.acct = a /\ n.token = a /\ n.own = r.own /\ n.popped = r.popped
        /\ Claim(n) = a /\ Claim(r) = None
        /\ r.own = None /\ ~r.found /\ ~n.found
    BY <1>1, <2>2, <2>3, DeterminedKeeps
  <2>5. Grants(c, a, n)
    BY <1>2, <2>1, <2>2, <2>3, <2>4 DEF Grants, Undisturbed, Finding, Take
  <2> QED
    BY <2>5, GrantStep
<1>3. CASE OwnToken(c)
  <2>1. PICK n : n = Assigned(r, None, c)
    OBVIOUS
  <2>2. /\ HandlerInv(c, n)
        /\ n.own = r.own /\ n.popped = r.popped
        /\ Claim(n) = None /\ Claim(r) = None
        /\ r.own = None /\ ~r.found /\ ~n.found
    <3>1. c \in Owners
      BY DEF Owners
    <3> QED
      BY <1>1, <2>1, <3>1, DeterminedKeeps
  <2>3. Set(c, n)
    BY <1>3, <2>1 DEF OwnToken, Determined, Assigned
  <2>4. UNCHANGED <<used, leases, late, holds, orphans, maxPer>> /\ live' \subseteq Callers
    BY <1>3 DEF OwnToken, OnlyHandler, FlowInv, Shared
  <2>5. Quiet(c, n)
    BY <2>2, <2>3, <2>4, FlowAssumption DEF Quiet, Undisturbed, Finding
  <2> QED
    BY <2>5, QuietStep
<1>4. CASE TurnedAway(c)
  <2>1. PICK n : n = [r EXCEPT !.pc = "done"]
    OBVIOUS
  <2>2. /\ n \in HandlerType /\ n.pc = "done"
        /\ n.api = r.api /\ n.acct = r.acct
        /\ n.moving = r.moving /\ n.hist = r.hist /\ n.splitFailed = r.splitFailed
        /\ n.popped = r.popped /\ n.own = r.own /\ n.found = r.found
    BY <1>1, <2>1, GotoFields DEF PCs
  <2>3. ~r.moving /\ r.hist = "none" /\ r.own = None /\ ~r.found /\ r.popped = {}
    BY <1>1 DEF HandlerInv, MovesInCalls, HistoryFollows, LeaseFields, Calls
  <2>4. n.pc \notin Active /\ r.pc \notin Active
    BY <1>1, <2>2 DEF Active, Calls
  <2>5. HandlerInv(c, n)
    BY <2>2, <2>3, <2>4
    DEF HandlerInv, MovesInCalls, HistoryFollows, CarriesWhatFits, LeaseFields, Uploads
  <2>6. Set(c, n)
    BY <1>4, <2>1 DEF TurnedAway, Goto
  <2>7. UNCHANGED <<used, leases, late, holds, orphans, maxPer>> /\ live' \subseteq Callers
    BY <1>4 DEF TurnedAway, OnlyHandler, FlowInv, Shared
  <2>8. Quiet(c, n)
    BY <2>2, <2>3, <2>4, <2>5, <2>6, <2>7 DEF Quiet, Undisturbed, Finding, Claim
  <2> QED
    BY <2>8, QuietStep
<1> QED
  BY <1>2, <1>3, <1>4

(* Release gives the slot back if there is one. *)
LEMMA ReleaseStep ==
  ASSUME FlowInv, NEW c \in Callers, Release(c)
  PROVE  FlowInv'
<1> DEFINE r == q[c]
<1>1. HandlerInv(c, r) /\ r \in HandlerType /\ r.pc = "release"
  BY OfHandler DEF Release
<1>2. PICK n : n = [r EXCEPT !.pc = "done", !.acct = None, !.token = None]
  OBVIOUS
<1>3. n \in HandlerType
  <2>1. [r EXCEPT !.pc = "done", !.acct = None, !.token = None] \in HandlerType
    BY <1>1, Updated DEF PCs
  <2> QED
    BY <1>2, <2>1
<1>4. /\ n.pc = "done" /\ n.acct = None
      /\ n.api = r.api /\ n.hist = r.hist
      /\ n.popped = r.popped /\ n.own = r.own
  BY <1>1, <1>2 DEF HandlerType
<1>5. n.moving = r.moving /\ n.found = r.found /\ n.splitFailed = r.splitFailed
  BY <1>1, <1>2 DEF HandlerType
<1>6. ~r.moving /\ r.own = None /\ ~r.found /\ r.popped = {}
  BY <1>1 DEF HandlerInv, MovesInCalls, LeaseFields, Calls
<1>7. n.pc \notin Active /\ r.pc \in Active
  BY <1>1, <1>4 DEF Active, Calls
<1>8. HandlerInv(c, n)
  <2>1. MovesInCalls(n) /\ CarriesWhatFits(n) /\ LeaseFields(c, n)
    BY <1>4, <1>5, <1>6 DEF MovesInCalls, CarriesWhatFits, LeaseFields, Uploads
  <2>2. HistoryFollows(n)
    BY <1>1, <1>4, <1>5 DEF HandlerInv, HistoryFollows, Uploads
  <2> QED
    BY <1>3, <1>7, <2>1, <2>2 DEF HandlerInv
<1>9. Set(c, n) /\ Undisturbed(c, n) /\ Claim(n) = None /\ Claim(r) = r.acct /\ r.own # c
  BY <1>2, <1>4, <1>5, <1>6, <1>7, FlowAssumption
  DEF Release, Undisturbed, Finding, Claim
<1>10. CASE r.acct # None
  <2>1. Returns(c, n)
    BY <1>1, <1>8, <1>9, <1>10 DEF Returns, Release, Managed, HandlerType
  <2> QED
    BY <2>1, ReturnStep
<1>11. CASE r.acct = None
  <2>1. UNCHANGED <<used, leases, late, holds, orphans, maxPer>> /\ live' \subseteq Callers
    BY <1>11 DEF Release, Managed, FlowInv, Shared
  <2>2. Quiet(c, n)
    BY <1>8, <1>9, <1>11, <2>1 DEF Quiet
  <2> QED
    BY <2>2, QuietStep
<1> QED
  BY <1>10, <1>11

(* An error on any way out of the calls. *)
LEMMA FailStep ==
  ASSUME FlowInv, NEW c \in Callers, AtWork(q[c]), OnlyHandler,
         NEW what, q[c].hist = "streaming" => what \in {"split", "session", "pow", "complete"},
         Set(c, Failed(q[c], what))
  PROVE  FlowInv'
<1>1. PICK n : n = Failed(q[c], what)
  OBVIOUS
<1>2. HandlerInv(c, n) /\ Stays(q[c], n)
  BY <1>1, OfHandler, FailedKeeps
<1>3. UNCHANGED <<used, leases, late, holds, orphans, maxPer>> /\ live' \subseteq Callers
  BY DEF OnlyHandler, FlowInv, Shared
<1> QED
  BY <1>1, <1>2, <1>3, StayStep DEF AtWork

(* The body: a rejected request, its parts, and the end of them. *)
LEMMA BodyStep ==
  ASSUME FlowInv, NEW c \in Callers, BadRequest(c) \/ SkipPart(c) \/ Preprocessed(c)
  PROVE  FlowInv'
<1> DEFINE r == q[c]
<1>1. /\ HandlerInv(c, r) /\ r \in HandlerType /\ r.pc = "inline" /\ OnlyHandler
      /\ ~r.moving /\ r.hist = "none" /\ r.pc \in Active
  BY OfHandler
  DEF BadRequest, SkipPart, Preprocessed, HandlerInv, MovesInCalls, HistoryFollows, Calls, Active
<1>2. AtWork(r)
  BY <1>1 DEF AtWork
<1>3. UNCHANGED <<used, leases, late, holds, orphans, maxPer>> /\ live' \subseteq Callers
  BY <1>1 DEF OnlyHandler, FlowInv, Shared
<1>4. CASE BadRequest(c)
  BY <1>1, <1>2, <1>4, FailStep DEF BadRequest
<1>5. CASE SkipPart(c)
  <2> DEFINE d == Decode(Head(q[c].body))
  <2>1. q[c].body # <<>>
    BY <1>5 DEF SkipPart
  <2>2. d \in Contents
    <3>1. q[c].body \in Seq(Parts)
      BY <1>1 DEF HandlerType
    <3>2. Head(q[c].body) \in Parts
      BY <2>1, <3>1, HeadTailProperties
    <3> QED
      BY <3>2 DEF Contents
  <2>3. \/ Set(c, NextPart(q[c]))
        \/ Set(c, Failed(q[c], "request")) \/ Set(c, Failed(q[c], "inline"))
        \/ Set(c, [NextPart(q[c]) EXCEPT !.count = @ + 1])
        \/ Set(c, Uploading(q[c], d))
    <3>1. CASE d \notin {None, "bad"}
      BY <1>5, <3>1 DEF SkipPart
    <3>2. CASE d = None
      BY <1>5, <3>2 DEF SkipPart
    <3>3. CASE d = "bad"
      BY <1>5, <3>3 DEF SkipPart
    <3> QED
      BY <3>1, <3>2, <3>3
  <2>4. CASE Set(c, Failed(q[c], "request")) \/ Set(c, Failed(q[c], "inline"))
    BY <1>1, <1>2, <2>4, FailStep
  <2>5. CASE \/ Set(c, NextPart(q[c]))
             \/ Set(c, [NextPart(q[c]) EXCEPT !.count = @ + 1])
    <3>1. PICK k \in Nat : k = NextPart(r).count + 1
      <4>1. r.count \in Nat
        BY <1>1 DEF HandlerType
      <4>2. NextPart(r).count = r.count
        BY <1>1 DEF NextPart, HandlerType
      <4> QED
        BY <4>1, <4>2
    <3>2. PICK n \in {NextPart(r), [NextPart(r) EXCEPT !.count = k]} : Set(c, n)
      BY <2>5, <3>1
    <3>3. HandlerInv(c, n) /\ Stays(r, n)
      BY <1>1, <2>1, <3>2, NextPartKeeps
    <3> QED
      BY <1>1, <1>3, <3>2, <3>3, StayStep
  <2>6. CASE Set(c, Uploading(q[c], d))
    <3> HIDE DEF d
    <3>1. PICK n : n = Uploading(r, d)
      OBVIOUS
    <3>2. HandlerInv(c, n) /\ Stays(r, n)
      BY <1>1, <2>1, <2>2, <3>1, UploadingKeeps
    <3> QED
      BY <1>1, <1>3, <2>6, <3>1, <3>2, StayStep
  <2> QED
    BY <2>3, <2>4, <2>5, <2>6
<1>6. CASE Preprocessed(c)
  <2>1. CASE r.api = "files"
    <3>1. /\ Ended(r) \in HandlerType /\ AsEnded(r, Ended(r))
          /\ Ended(r).hist = "none"
      BY <1>1, EndedFields
    <3>2. HandlerInv(c, Ended(r)) /\ Stays(r, Ended(r))
      BY <1>1, <1>2, <3>1, OutcomeKeeps
    <3>3. Set(c, Ended(r))
      BY <1>6, <2>1 DEF Preprocessed
    <3> QED
      BY <1>1, <1>3, <3>2, <3>3, StayStep
  <2>2. CASE r.api # "files"
    <3>1. PICK h \in {"none", "streaming"} : h = IF r.api = "chat" THEN "streaming" ELSE "none"
      OBVIOUS
    <3>2. PICK n : /\ Set(c, n)
                   /\ n = IF r.api = "chat" THEN [r EXCEPT !.pc = "split", !.hist = "streaming"]
                          ELSE [r EXCEPT !.pc = "split"]
      BY <1>6, <2>2 DEF Preprocessed
    <3>3. n \in HandlerType
      <4>1. "split" \in PCs
        BY DEF PCs
      <4>2. [r EXCEPT !.pc = "split", !.hist = "streaming"] \in HandlerType
        BY <1>1, <4>1, Updated
      <4>3. [r EXCEPT !.pc = "split"] \in HandlerType
        BY <1>1, <4>1, Updated
      <4> QED
        BY <3>2, <4>2, <4>3
    <3>4. /\ n.pc = "split" /\ n.hist = h
          /\ n.api = r.api /\ n.acct = r.acct /\ n.token = r.token /\ n.refs = r.refs
          /\ n.popped = r.popped /\ n.own = r.own
      BY <1>1, <3>1, <3>2 DEF HandlerType
    <3>5. n.moving = r.moving /\ n.found = r.found
      BY <1>1, <3>2 DEF HandlerType
    <3>6. /\ r.popped = {} /\ r.own = None /\ ~r.found
          /\ r.acct = None => r.token = c
      BY <1>1 DEF HandlerInv, LeaseFields
    <3>7. MovesInCalls(n) /\ LeaseFields(c, n)
      BY <1>1, <3>4, <3>5, <3>6 DEF MovesInCalls, LeaseFields, Uploads
    <3>8. HistoryFollows(n)
      BY <3>1, <3>4 DEF HistoryFollows, Uploads
    <3>9. CarriesWhatFits(n)
      BY <1>1, <3>4 DEF HandlerInv, CarriesWhatFits, ContextRefs, Uploads
    <3>10. HandlerInv(c, n) /\ Stays(r, n)
      BY <1>1, <3>3, <3>4, <3>5, <3>6, <3>7, <3>8, <3>9 DEF HandlerInv, Stays, Active
    <3> QED
      BY <1>1, <1>3, <3>2, <3>10, StayStep
  <2> QED
    BY <2>1, <2>2
<1> QED
  BY <1>4, <1>5, <1>6

(* The splits: they fail, upload nothing, or start to upload the context file. *)
LEMMA SplitStep ==
  ASSUME FlowInv, NEW c \in Callers, Split(c)
  PROVE  FlowInv'
<1> DEFINE r == q[c]
<1>1. /\ HandlerInv(c, r) /\ r \in HandlerType /\ r.pc = "split" /\ OnlyHandler
      /\ ~r.moving /\ r.pc \in Active
  BY OfHandler DEF Split, HandlerInv, MovesInCalls, Calls, Active
<1>2. AtWork(r)
  BY <1>1 DEF AtWork
<1>3. UNCHANGED <<used, leases, late, holds, orphans, maxPer>> /\ live' \subseteq Callers
  BY <1>1 DEF OnlyHandler, FlowInv, Shared
<1>4. CASE Set(c, Failed(r, "split"))
  BY <1>1, <1>2, <1>4, FailStep
<1>5. CASE Goto(c, "session")
  <2>1. PICK n : n = [r EXCEPT !.pc = "session"]
    OBVIOUS
  <2>2. HandlerInv(c, n) /\ Stays(r, n)
    BY <1>1, <2>1, GotoKeeps
  <2> QED
    BY <1>1, <1>3, <1>5, <2>1, <2>2, StayStep DEF Goto
<1>6. CASE Set(c, Uploading(r, "context"))
  <2>1. PICK n : n = Uploading(r, "context")
    OBVIOUS
  <2>2. HandlerInv(c, n) /\ Stays(r, n)
    BY <1>1, <2>1, UploadingKeeps
  <2> QED
    BY <1>1, <1>3, <1>6, <2>1, <2>2, StayStep
<1> QED
  BY <1>4, <1>5, <1>6 DEF Split

(* A call that is answered, fails, is answered with something unusable, or has *)
(* been tried too often.                                                       *)
LEMMA CallStep ==
  ASSUME FlowInv, NEW c \in Callers,
         CallOk(c) \/ CallError(c) \/ CallUnusable(c) \/ GiveUp(c)
  PROVE  FlowInv'
<1> DEFINE r == q[c]
<1>1. /\ HandlerInv(c, r) /\ r \in HandlerType /\ r.pc \in Calls
      /\ ~r.moving /\ r.pc \in Active
  BY OfHandler DEF CallOk, CallError, CallUnusable, GiveUp, Calling, Active
<1>2. AtWork(r)
  BY <1>1 DEF AtWork, Calls
<1>3. CASE CallOk(c)
  <2>1. PICK n : n = Answered(r)
    OBVIOUS
  <2>2. HandlerInv(c, n) /\ Stays(r, n)
    BY <1>1, <1>3, <2>1, AnsweredKeeps DEF CallOk, Calling
  <2>3. UNCHANGED <<used, leases, late, holds, orphans, maxPer>> /\ live' \subseteq Callers
    BY <1>3 DEF CallOk, FlowInv, Shared
  <2> QED
    BY <1>1, <1>3, <2>1, <2>2, <2>3, StayStep DEF CallOk
<1>4. CASE CallError(c)
  <2>1. PICK n : n = Again(r)
    OBVIOUS
  <2>2. HandlerInv(c, n) /\ Stays(r, n)
    BY <1>1, <1>4, <2>1, AgainKeeps DEF CallError, Calling
  <2>3. UNCHANGED <<used, leases, late, holds, orphans, maxPer>> /\ live' \subseteq Callers
    BY <1>4 DEF CallError, OnlyHandler, FlowInv, Shared
  <2> QED
    BY <1>1, <1>4, <2>1, <2>2, <2>3, StayStep DEF CallError
<1>5. CASE CallUnusable(c) \/ GiveUp(c)
  <2>1. PICK what \in {"session", "pow", Job(r)} :
          /\ Set(c, Failed(r, what))
          /\ r.pc \in {"session", "pow"} => what = r.pc
          /\ r.pc \notin {"session", "pow"} => what = Job(r)
    <3>1. CASE CallUnusable(c)
      <4>1. CASE r.pc = "pow"
        BY <3>1, <4>1 DEF CallUnusable
      <4>2. CASE r.pc = "upload_post"
        BY <3>1, <4>2 DEF CallUnusable
      <4> QED
        BY <3>1, <4>1, <4>2 DEF CallUnusable
    <3>2. CASE GiveUp(c)
      <4>1. CASE r.pc \in {"session", "pow"}
        BY <3>2, <4>1 DEF GiveUp
      <4>2. CASE r.pc \notin {"session", "pow"}
        BY <3>2, <4>2 DEF GiveUp
      <4> QED
        BY <4>1, <4>2
    <3> QED
      BY <1>5, <3>1, <3>2
  <2>2. r.hist = "streaming" => what \in {"split", "session", "pow", "complete"}
    <3>1. CASE r.pc \in {"session", "pow"}
      BY <2>1, <3>1
    <3>2. CASE r.pc \notin {"session", "pow"}
      <4>1. r.pc \in Uploads
        BY <1>1, <3>2 DEF Calls, Uploads
      <4>2. r.hist = "streaming" => r.upload = "context"
        BY <1>1, <4>1 DEF HandlerInv, HistoryFollows
      <4> QED
        BY <2>1, <3>2, <4>2 DEF Job
    <3> QED
      BY <3>1, <3>2
  <2>3. OnlyHandler
    BY <1>5 DEF CallUnusable, GiveUp
  <2> QED
    BY <1>2, <2>1, <2>2, <2>3, FailStep
<1> QED
  BY <1>3, <1>4, <1>5

Between(r, a, T) == [r EXCEPT !.moving = TRUE, !.acct = a, !.tried = T]

(* The handler of a rejected call, between two accounts or on its way to one. *)
LEMMA MovingKeeps ==
  ASSUME NEW c \in Callers, NEW r, HandlerInv(c, r), r.pc \in Calls, ~Exhausted(r),
         NEW a \in Accounts, NEW T \in SUBSET Accounts,
         NEW n, n = Between(r, a, T)
  PROVE  /\ HandlerInv(c, n)
         /\ n.own = None /\ r.own = None /\ n.popped = r.popped /\ ~n.found /\ ~r.found
         /\ Claim(n) = None
<1>1. r \in HandlerType
  BY DEF HandlerInv
<1>2. n \in HandlerType
  <2>1. [r EXCEPT !.moving = TRUE, !.acct = a, !.tried = T] \in HandlerType
    BY <1>1, Updated
  <2> QED
    BY <2>1 DEF Between
<1>3. /\ n.pc = r.pc /\ n.api = r.api /\ n.body = r.body /\ n.acct = a
      /\ n.attempts = r.attempts /\ n.tries = r.tries /\ n.upload = r.upload
      /\ n.refs = r.refs /\ n.token = r.token /\ n.sess = r.sess /\ n.moved = r.moved
      /\ n.hist = r.hist /\ n.popped = r.popped /\ n.own = r.own
  BY <1>1 DEF HandlerType, Between
<1>4. n.moving /\ n.found = r.found
  BY <1>1 DEF HandlerType, Between
<1>5. ~r.found /\ r.own = None /\ r.popped = {}
  BY DEF HandlerInv, LeaseFields, Calls
<1>6. a # None
  BY FlowAssumption
<1>7. MovesInCalls(n)
  BY <1>3, <1>6 DEF HandlerInv, MovesInCalls, Exhausted
<1>8. HistoryFollows(n)
  BY <1>3 DEF HandlerInv, HistoryFollows, Uploads, Calls
<1>9. CarriesWhatFits(n)
  BY <1>3, <1>4 DEF HandlerInv, CarriesWhatFits, ContextRefs, Uploads, Calls
<1>10. LeaseFields(c, n)
  BY <1>3, <1>4, <1>5 DEF LeaseFields, Calls
<1> QED
  BY <1>2, <1>3, <1>4, <1>5, <1>6, <1>7, <1>8, <1>9, <1>10 DEF HandlerInv, Claim

(* SwitchAccount: the slot goes back, another is taken, or none is left. *)
LEMMA SwitchStep ==
  ASSUME FlowInv, NEW c \in Callers,
         Rejected(c) \/ SwitchTo(c) \/ SwitchLoginFails(c) \/ SwitchEmpty(c)
  PROVE  FlowInv'
<1> DEFINE r == q[c]
<1>1. /\ HandlerInv(c, r) /\ r \in HandlerType /\ r.pc \in Calls /\ ~Exhausted(r)
      /\ r.acct \in Accounts /\ r.tried \in SUBSET Accounts
  BY OfHandler
  DEF Rejected, SwitchTo, SwitchLoginFails, SwitchEmpty, Calling, Managed,
      HandlerInv, MovesInCalls, HandlerType
<1>2. r.own = None /\ r.own # c /\ ~r.found
  BY <1>1, FlowAssumption DEF HandlerInv, LeaseFields, Calls
<1>3. CASE Rejected(c)
  <2>1. PICK T \in SUBSET Accounts : T = r.tried \cup {r.acct}
    BY <1>1
  <2>2. PICK n : n = Between(r, r.acct, T)
    OBVIOUS
  <2>3. n = [r EXCEPT !.moving = TRUE, !.tried = @ \cup {r.acct}]
    BY <1>1, <2>1, <2>2 DEF HandlerType, Between
  <2>4. /\ HandlerInv(c, n)
        /\ n.own = None /\ n.popped = r.popped /\ ~n.found /\ Claim(n) = None
    BY <1>1, <2>2, MovingKeeps
  <2>5. Claim(r) = r.acct
    BY <1>1, <1>3 DEF Claim, Active, Rejected, Calling
  <2>6. Returns(c, n)
    BY <1>1, <1>2, <1>3, <2>3, <2>4, <2>5 DEF Returns, Undisturbed, Finding, Rejected
  <2> QED
    BY <2>6, ReturnStep
<1>4. CASE SwitchTo(c)
  <2>1. PICK a \in Candidates(c) :
          /\ used' = [used EXCEPT ![a] = @ + 1]
          /\ holds' = [holds EXCEPT ![c] = a]
          /\ Moved(c, a)
    BY <1>4 DEF SwitchTo
  <2>2. a \in Accounts /\ used[a] < maxPer
    BY <2>1 DEF Candidates
  <2>3. PICK n : n = MovedTo(r, a)
    OBVIOUS
  <2>4. /\ HandlerInv(c, n)
        /\ n.pc \in Active /\ ~n.moving /\ n.acct = a /\ n.token = a
        /\ n.own = r.own /\ n.popped = r.popped /\ ~n.found
    BY <1>1, <2>2, <2>3, MovedKeeps
  <2>5. Claim(n) = a /\ Claim(r) = None
    BY <1>4, <2>4 DEF Claim, SwitchTo
  <2>6. Set(c, n)
    BY <2>1, <2>3 DEF Moved, MovedTo
  <2>7. Grants(c, a, n)
    BY <1>2, <1>4, <2>1, <2>2, <2>4, <2>5, <2>6 DEF Grants, Undisturbed, Finding, SwitchTo
  <2> QED
    BY <2>2, <2>7, GrantStep
<1>5. CASE SwitchLoginFails(c)
  <2>1. PICK a \in Accounts : Set(c, [r EXCEPT !.acct = a, !.tried = @ \cup {a}])
    BY <1>5 DEF SwitchLoginFails, Candidates
  <2>2. PICK T \in SUBSET Accounts : T = r.tried \cup {a}
    BY <1>1
  <2>3. PICK n : n = Between(r, a, T)
    OBVIOUS
  <2>4. r.moving = TRUE
    BY <1>1, <1>5 DEF SwitchLoginFails, HandlerType
  <2>5. n = [r EXCEPT !.acct = a, !.tried = @ \cup {a}]
    BY <1>1, <2>2, <2>3, <2>4 DEF HandlerType, Between
  <2>6. /\ HandlerInv(c, n)
        /\ n.own = None /\ n.popped = r.popped /\ ~n.found /\ Claim(n) = None
    BY <1>1, <2>3, MovingKeeps
  <2>7. Claim(r) = None
    BY <2>4 DEF Claim
  <2>8. UNCHANGED <<used, leases, late, holds, orphans, maxPer>> /\ live' \subseteq Callers
    BY <1>5 DEF SwitchLoginFails, OnlyHandler, FlowInv, Shared
  <2>9. Quiet(c, n)
    BY <1>2, <2>1, <2>5, <2>6, <2>7, <2>8 DEF Quiet, Undisturbed, Finding
  <2> QED
    BY <2>9, QuietStep
<1>6. CASE SwitchEmpty(c)
  <2>1. PICK n : n = Again(r)
    OBVIOUS
  <2>2. HandlerInv(c, n) /\ Stays(r, n)
    BY <1>1, <2>1, AgainKeeps
  <2>3. Orphans(c, n)
    BY <1>2, <1>6, <2>1, <2>2 DEF Orphans, Undisturbed, Finding, Stays, SwitchEmpty
  <2> QED
    BY <2>3, OrphanStep
<1> QED
  BY <1>3, <1>4, <1>5, <1>6

(* The completion, the answer and the cleanup. *)
LEMMA AnswerStep ==
  ASSUME FlowInv, NEW c \in Callers,
         Complete(c) \/ Stream(c) \/ CleanupNothing(c) \/ CleanupOwn(c) \/ CleanupAll(c)
  PROVE  FlowInv'
<1> DEFINE r == q[c]
<1>1. /\ HandlerInv(c, r) /\ r \in HandlerType
      /\ r.pc \in {"complete", "stream", "cleanup"} /\ r.pc \in Active
      /\ UNCHANGED <<used, leases, late, holds, orphans, maxPer>>
  BY OfHandler
  DEF Complete, Stream, CleanupNothing, CleanupOwn, CleanupAll, OnlyHandler, Active
<1>2. ~r.moving
  BY <1>1 DEF HandlerInv, MovesInCalls, Calls
<1>3. live' \subseteq Callers
  BY DEF Complete, Stream, CleanupNothing, CleanupOwn, CleanupAll, OnlyHandler, FlowInv, Shared
<1>4. CASE Complete(c) /\ Set(c, Failed(r, "complete"))
  <2>1. AtWork(r) /\ OnlyHandler
    BY <1>2, <1>4 DEF AtWork, Active, Complete
  <2> QED
    BY <1>4, <2>1, FailStep
<1>5. CASE Stream(c)
  <2>1. PICK h \in {"success", "error", "stopped"} :
          Set(c, [Ended(r) EXCEPT !.hist = IF @ = "streaming" THEN h ELSE @])
    BY <1>5 DEF Stream
  <2>2. PICK s \in HandlerType : s = Ended(r) /\ AsEnded(r, s) /\ s.hist = r.hist
    BY <1>1, EndedFields
  <2>3. PICK k \in {"none", "streaming", "success", "error", "stopped"} :
          k = IF s.hist = "streaming" THEN h ELSE s.hist
    BY DEF HandlerType
  <2>4. PICK n : n = [s EXCEPT !.hist = k]
    OBVIOUS
  <2>5. Set(c, n)
    BY <2>1, <2>2, <2>3, <2>4
  <2>6. n \in HandlerType
    <3>1. [s EXCEPT !.hist = k] \in HandlerType
      BY Updated
    <3> QED
      BY <2>4, <3>1
  <2>7. AsEnded(r, n) /\ n.hist = k
    BY <2>2, <2>4 DEF AsEnded, HandlerType
  <2>8. n.hist # "streaming" /\ (r.api # "chat" => n.hist = "none")
    BY <1>1, <2>2, <2>3, <2>7 DEF HandlerInv, HistoryFollows
  <2>9. AtWork(r)
    BY <1>2, <1>5 DEF AtWork, Active, Stream
  <2>10. HandlerInv(c, n) /\ Stays(r, n)
    BY <1>1, <2>6, <2>7, <2>8, <2>9, OutcomeKeeps
  <2> QED
    BY <1>1, <1>2, <1>3, <2>5, <2>10, StayStep
<1>6. CASE \/ Complete(c) /\ Goto(c, "stream")
           \/ CleanupNothing(c) \/ CleanupOwn(c) \/ CleanupAll(c)
  <2>1. PICK pc \in {"stream", "release"} :
          /\ Set(c, [r EXCEPT !.pc = pc])
          /\ <<r.pc, pc>> \in {<<"complete", "stream">>, <<"cleanup", "release">>}
    BY <1>6 DEF Complete, CleanupNothing, CleanupOwn, CleanupAll, Goto
  <2>2. PICK n : n = [r EXCEPT !.pc = pc]
    OBVIOUS
  <2>3. HandlerInv(c, n) /\ Stays(r, n)
    BY <1>1, <1>2, <2>1, <2>2, GotoKeeps
  <2> QED
    BY <1>1, <1>2, <1>3, <2>1, <2>2, <2>3, StayStep
<1> QED
  BY <1>4, <1>5, <1>6 DEF Complete

----------------------------------------------------------------------------
(* The invariant *)

(* Nothing has been taken, and every handler is at its beginning. *)
LEMMA InitFlow == Init => FlowInv
<1> SUFFICES ASSUME Init PROVE FlowInv
  OBVIOUS
<1>1. PICK api \in [Callers -> UNION Range(Apis)], body \in [Callers -> UNION Range(Bodies)] :
        q = [c \in Callers |-> Idle(api[c], body[c])]
  BY DEF Init
<1>2. ASSUME NEW c \in Callers
      PROVE  /\ q[c] \in HandlerType
             /\ q[c].pc \in {"sweep", "start"}
             /\ q[c].pc = "sweep" => q[c].api \in {"prepare", "giveback"}
             /\ ~q[c].moving /\ ~q[c].found /\ q[c].hist = "none"
             /\ q[c].refs = {} /\ q[c].popped = {} /\ q[c].own = None /\ q[c].acct = None
  <2>1. q[c] = Idle(api[c], body[c]) /\ body[c] \in Seq(Parts) /\ api[c] \in UNION Range(Apis)
    BY <1>1, BodiesAssumption
  <2>2. q[c] \in HandlerType
    BY <2>1, FlowAssumption DEF HandlerType, Idle, PCs, Calls
  <2>3. /\ q[c].pc \in {"sweep", "start"} /\ q[c].hist = "none"
        /\ q[c].pc = "sweep" => q[c].api \in {"prepare", "giveback"}
    BY <2>1 DEF Idle
  <2>4. q[c].refs = {} /\ q[c].popped = {} /\ q[c].own = None /\ q[c].acct = None
    BY <2>1 DEF Idle
  <2>5. q[c].moving = FALSE /\ q[c].found = FALSE
    BY <2>1 DEF Idle
  <2> QED
    BY <2>2, <2>3, <2>4, <2>5
<1>3. HandlersRight
  <2>1. q \in [Callers -> HandlerType]
    BY <1>1, <1>2
  <2>2. ASSUME NEW c \in Callers
        PROVE  HandlerInv(c, q[c])
    BY <1>2 DEF HandlerInv, MovesInCalls, HistoryFollows, CarriesWhatFits, ContextRefs,
                LeaseFields, Active, Calls, Uploads
  <2> QED
    BY <2>1, <2>2 DEF HandlersRight
<1>4. \A c \in Callers : ~InCustody(c) /\ ~Finding(c) /\ Claim(q[c]) = None
  BY <1>2 DEF Init, InCustody, Finding, Claim, Active, Calls
<1>5. LeasesOnce
  BY <1>2, <1>4 DEF Init, LeasesOnce
<1>6. SlotsFollow
  BY <1>4 DEF Init, SlotsFollow
<1>7. SlotsRight
  <2>1. ASSUME NEW a \in Accounts
        PROVE  used[a] = 0 /\ Cardinality({c \in Callers : holds[c] = a}) = 0
    <3>1. {c \in Callers : holds[c] = a} = {}
      BY FlowAssumption DEF Init
    <3> QED
      BY <3>1, FS_EmptySet DEF Init
  <2>2. maxPer \in Nat
    BY FlowAssumption DEF Init
  <2>3. used \in [Accounts -> Nat] /\ holds \in [Callers -> Accounts \cup {None}]
    BY DEF Init
  <2>4. UsedBounded
    <3>1. \A a \in Accounts : used[a] = 0
      BY DEF Init
    <3> QED
      BY <2>2, <3>1 DEF UsedBounded
  <2>5. SlotsAccounted
    BY <2>1 DEF SlotsAccounted
  <2> QED
    BY <2>3, <2>4, <2>5 DEF SlotsRight
<1>8. Shared
  BY FlowAssumption DEF Init, Shared
<1> QED
  BY <1>3, <1>5, <1>6, <1>7, <1>8 DEF FlowInv

(* Each action keeps the invariant. *)
LEMMA NextFlow == FlowInv /\ [Next]_vars => FlowInv'
<1> SUFFICES ASSUME FlowInv, [Next]_vars PROVE FlowInv'
  OBVIOUS
<1>1. ASSUME NEW c \in Callers, Step(c) \/ Expire(c)
      PROVE  FlowInv'
  BY <1>1, DetermineStep, ReleaseStep, BodyStep, SplitStep, CallStep, SwitchStep, AnswerStep,
     SweepStep, HoldStep, ReturnExpiredStep, SweptStep, GiveBackStep, GivenBackStep, ExpireStep
  DEF Step
<1>2. CASE UNCHANGED vars
  <2>1. \A d \in Callers : (InCustody(d)' <=> InCustody(d)) /\ (Finding(d)' <=> Finding(d))
    BY <1>2 DEF InCustody, Finding, vars
  <2> QED
    BY <1>2, <2>1
    DEF vars, FlowInv, Shared, HandlersRight, LeasesOnce, SlotsFollow, SlotsRight,
        UsedBounded, SlotsAccounted
<1> QED
  BY <1>1, <1>2 DEF Next

(* The inductive invariant that the properties below follow from. *)
THEOREM FlowInvariant == Spec => []FlowInv
BY InitFlow, NextFlow, PTL DEF Spec

(***************************************************************************)
(* TypeOK, for every set of accounts and callers: the pool's counters, the *)
(* handlers' fields and the lease table have their types throughout.       *)
(***************************************************************************)
THEOREM TypeCorrect == Spec => []TypeOK
<1>1. FlowInv => TypeOK
  <2> SUFFICES ASSUME FlowInv PROVE TypeOK
    OBVIOUS
  <2>1. ASSUME NEW c \in Callers
        PROVE  /\ q[c].pc \in PCs
               /\ q[c].acct \in Accounts \cup {None} /\ q[c].token \in Owners \cup {None}
               /\ q[c].sess \in Owners \cup {None}
               /\ q[c].tried \subseteq Accounts
               /\ q[c].attempts \in 0 .. MaxAttempts /\ q[c].tries \in 0 .. MaxAttempts
               /\ q[c].hist \in {"none", "streaming", "success", "error", "stopped"}
    <3>1. q[c] \in HandlerType
      BY OfHandler
    <3> QED
      BY <3>1 DEF HandlerType
  <2> QED
    BY <2>1 DEF FlowInv, Shared, SlotsRight, LeasesOnce, TypeOK
<1> QED
  BY <1>1, FlowInvariant, PTL

(***************************************************************************)
(* SlotsAccounted: whatever fails, is moved, held, swept or given back, an *)
(* account's counter is the number of requests that hold one of its slots, *)
(* until a SwitchAccount finds no account.                                 *)
(***************************************************************************)
THEOREM EverySlotAccounted == Spec => []SlotsAccounted
<1>1. FlowInv => SlotsAccounted
  BY DEF FlowInv, SlotsRight
<1> QED
  BY <1>1, FlowInvariant, PTL

(***************************************************************************)
(* CallsFit: a call to DeepSeek carries the token of the account whose     *)
(* slot the request holds, a challenge solved for this use and this token, *)
(* and a session and a context file that only a later move can have        *)
(* separated from the token.                                               *)
(***************************************************************************)
THEOREM EveryCallFits == Spec => []CallsFit
<1>1. FlowInv => CallsFit
  <2> SUFFICES ASSUME FlowInv, NEW c \in Callers
      PROVE  /\ c \notin orphans /\ q[c].pc \in Calls \cup {"complete", "stream", "cleanup"}
                     /\ ~q[c].moving /\ q[c].acct # None
                   => q[c].token = q[c].acct /\ holds[c] = q[c].acct
             /\ q[c].pc = "upload_post" /\ ~q[c].moving
                   => q[c].pow = [by |-> q[c].token, for |-> "upload"]
             /\ q[c].pc \in {"complete", "hold"} =>
                   /\ q[c].pow = [by |-> q[c].token, for |-> "completion"]
                   /\ q[c].sess # q[c].token => "pow" \in q[c].moved
                   /\ (\E f \in q[c].refs : f.what = "context" /\ f.owner # q[c].token)
                         => q[c].moved \cap {"session", "pow"} # {}
    BY DEF CallsFit
  <2>1. HandlerInv(c, q[c])
    BY OfHandler
  <2>2. ASSUME c \notin orphans, q[c].pc \in Calls \cup {"complete", "stream", "cleanup"},
               ~q[c].moving, q[c].acct # None
        PROVE  q[c].token = q[c].acct /\ holds[c] = q[c].acct
    <3>1. Claim(q[c]) = q[c].acct
      BY <2>2 DEF Claim, Active
    <3> QED
      BY <2>2, <3>1 DEF FlowInv, SlotsFollow
  <2>3. CarriesWhatFits(q[c])
    BY <2>1 DEF HandlerInv
  <2> QED
    BY <2>2, <2>3 DEF CarriesWhatFits, ContextRefs
<1> QED
  BY <1>1, FlowInvariant, PTL

(***************************************************************************)
(* HistorySettled: when a recorded chat is over its entry has a final      *)
(* status, unless one of the splits failed.                                *)
(***************************************************************************)
THEOREM EveryHistorySettled == Spec => []HistorySettled
<1>1. FlowInv => HistorySettled
  <2> SUFFICES ASSUME FlowInv, NEW c \in Callers
      PROVE  q[c].pc \in {"release", "done", "cleanup"} /\ q[c].hist = "streaming"
               => q[c].splitFailed
    BY DEF HistorySettled
  <2> QED
    BY OfHandler DEF HandlerInv, HistoryFollows
<1> QED
  BY <1>1, FlowInvariant, PTL

(***************************************************************************)
(* Two callers that hold slots of the same account take two of its slots.  *)
(***************************************************************************)
LEMMA HoldersShare ==
  ASSUME FlowInv, orphans = {}, NEW a \in Accounts,
         NEW c \in Callers, NEW d \in Callers, c # d, holds[c] = a, holds[d] = a
  PROVE  maxPer > 1
<1>1. {c, d} \in SUBSET Holders(holds, a)
  BY DEF Holders
<1>2. Cardinality({c, d}) = 2
  <2>1. IsFiniteSet({c}) /\ Cardinality({c}) = 1
    BY FS_Singleton
  <2>2. {c, d} = {c} \cup {d} /\ d \notin {c}
    OBVIOUS
  <2>3. Cardinality({c} \cup {d}) = Cardinality({c}) + 1
    BY <2>1, <2>2, FS_AddElement
  <2> QED
    BY <2>1, <2>2, <2>3
<1>3. Cardinality(Holders(holds, a)) \in Nat /\ Cardinality(Holders(holds, a)) >= 2
  BY <1>1, <1>2, HoldersFinite, FS_Subset
<1>4. used[a] = Cardinality(Holders(holds, a))
  BY DEF FlowInv, SlotsRight, SlotsAccounted, Holders
<1>5. used[a] <= maxPer /\ maxPer \in Nat
  BY DEF FlowInv, SlotsRight, UsedBounded, Shared
<1> QED
  BY <1>3, <1>4, <1>5

(***************************************************************************)
(* SparesOthers: with one slot per account, the cleanup that deletes       *)
(* "single" or "all" sessions takes nobody's session but its own and those *)
(* of requests that have left the account, as long as no switch has failed.*)
(***************************************************************************)
THEOREM CleanupSparesOthers == Spec => SparesOthers
<1>1. ASSUME FlowInv, Next, NEW c \in live \ live'
      PROVE  \/ maxPer > 1
             \/ orphans # {}
             \/ q[c].pc = "cleanup"
             \/ holds[c] # q[c].sess
  <2>1. PICK d \in Callers : CleanupOwn(d) \/ CleanupAll(d)
    <3>1. PICK d \in Callers : Step(d) \/ Expire(d)
      BY <1>1 DEF Next
    <3>2. CASE \/ Take(d) \/ OwnToken(d) \/ TurnedAway(d) \/ Release(d) \/ BadRequest(d)
               \/ SkipPart(d) \/ Preprocessed(d) \/ Split(d)
               \/ CallOk(d) \/ CallError(d) \/ CallUnusable(d) \/ GiveUp(d)
      BY <3>2 DEF Take, OwnToken, TurnedAway, Release, BadRequest, SkipPart, Preprocessed, Split,
           CallOk, CallError, CallUnusable, GiveUp, OnlyHandler
    <3>3. CASE \/ Rejected(d) \/ SwitchTo(d) \/ SwitchLoginFails(d) \/ SwitchEmpty(d)
               \/ Complete(d) \/ Stream(d) \/ CleanupNothing(d)
      BY <3>3 DEF Rejected, SwitchTo, SwitchLoginFails, SwitchEmpty, Complete, Stream,
           CleanupNothing, OnlyHandler
    <3>4. CASE \/ Sweep(d) \/ Hold(d) \/ ReturnExpired(d) \/ Swept(d)
               \/ GiveBack(d) \/ GivenBack(d) \/ NotGivenBack(d) \/ Expire(d)
      BY <3>4 DEF Sweep, Hold, ReturnExpired, Swept, GiveBack, GivenBack, NotGivenBack, Expire,
           OnlyHandler
    <3> QED
      BY <3>1, <3>2, <3>3, <3>4 DEF Step
  <2>2. CASE CleanupOwn(d)
    BY <1>1, <2>2 DEF CleanupOwn
  <2>3. CASE CleanupAll(d)
    <3>1. c \in Callers /\ q[c].sess = q[d].token /\ q[d].pc = "cleanup"
      BY <1>1, <2>3 DEF CleanupAll, SessionsOf, FlowInv, Shared
    <3>2. SUFFICES ASSUME orphans = {}, q[c].pc # "cleanup", holds[c] = q[c].sess
                   PROVE  maxPer > 1
      OBVIOUS
    <3>3. c # d
      BY <3>1, <3>2
    <3>4. HandlerInv(d, q[d]) /\ q[d] \in HandlerType
      BY <1>1, OfHandler
    <3>5. Claim(q[d]) = q[d].acct /\ ~InCustody(d)
      <4>1. ~q[d].moving /\ q[d].own = None
        BY <3>1, <3>4 DEF HandlerInv, MovesInCalls, LeaseFields, Calls
      <4> QED
        BY <1>1, <3>1, <4>1, FlowAssumption DEF Claim, Active, FlowInv, LeasesOnce
    <3>6. CASE q[d].acct = None
      <4>1. q[d].token = d
        BY <3>1, <3>4, <3>6 DEF HandlerInv, Active
      <4>2. holds[c] \in Accounts \cup {None}
        BY <1>1, <3>1 DEF FlowInv, SlotsRight
      <4> QED
        BY <3>1, <3>2, <4>1, <4>2, FlowAssumption
    <3>7. CASE q[d].acct # None
      <4>1. /\ q[d].acct \in Accounts /\ holds[d] = q[d].acct
            /\ q[d].token = q[d].acct
        BY <1>1, <3>2, <3>4, <3>5, <3>7 DEF HandlerType, FlowInv, SlotsFollow
      <4> QED
        BY <1>1, <3>1, <3>2, <3>3, <4>1, HoldersShare
    <3> QED
      BY <3>6, <3>7
  <2> QED
    BY <2>1, <2>2, <2>3
<1>2. FlowInv /\ [Next]_vars =>
        [\A c \in live \ live' :
           \/ maxPer > 1
           \/ orphans # {}
           \/ q[c].pc = "cleanup"
           \/ holds[c] # q[c].sess]_vars
  BY <1>1 DEF vars
<1> QED
  BY <1>2, FlowInvariant, PTL DEF Spec, SparesOthers
=============================================================================
