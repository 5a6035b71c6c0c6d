---------------------------- MODULE RequestLease ----------------------------
(***************************************************************************)
(* One managed request from Resolver.Determine to the deferred Release of  *)
(* ChatCompletions: it takes an account from the pool, makes sure it has a *)
(* token, and calls DeepSeek in two retry loops (CreateSession, then       *)
(* GetPow) that refresh the token or move to another account when a call   *)
(* is rejected.                                                            *)
(*                                                                         *)
(* The request's RequestAuth is the record r[c]; lease[c] and orphaned     *)
(* are history variables: what the pool has really granted.                *)
(*                                                                         *)
(* DeepSeek answers as it likes: whether a login or a call succeeds is a   *)
(* free choice, and so is whether an account's stored token is present and *)
(* fresh.  The store's accounts do not change; AcquireWait's cancellation  *)
(* is in AccountPool.                                                      *)
(***************************************************************************)
EXTENDS PoolOps

CONSTANTS
  Targets,      \* the X-Ds2-Target-Account headers requests may carry
  MaxPer,       \* account_max_inflight
  MaxQueues,    \* the account_max_queue settings considered
  Global,       \* global_max_inflight, 0 for none
  MaxAttempts   \* attempts of a retry loop, the handlers pass 3

ASSUME TargetsAssumption == Targets \subseteq Accounts \cup {None}

ASSUME LimitsAssumption ==
  /\ MaxPer \in Nat \ {0}
  /\ MaxQueues \subseteq Nat
  /\ Global \in Nat
  /\ MaxAttempts \in Nat \ {0}

VARIABLES
  pool,      \* the Pool struct, a pool value of PoolOps
  r,         \* the state of each request
  lease,     \* the account whose slot the request has been granted and not returned
  orphaned   \* whether some SwitchAccount has ever come back empty-handed

vars == <<pool, r, lease, orphaned>>

PCs == {"acquire", "parked", "login", "call", "switch", "complete", "release", "done"}

RequestType ==
  [pc        : PCs,
   target    : Accounts \cup {None},
   tried     : SUBSET Accounts,
   acct      : Accounts \cup {None},          \* RequestAuth.AccountID
   why       : {"acquire", "switch", "refresh"}, \* what a login is for
   phase     : {"session", "pow"},
   attempts  : Nat,
   refreshed : BOOLEAN]

Arriving(target) ==
  [pc |-> "acquire", target |-> target, tried |-> {}, acct |-> None,
   why |-> "acquire", phase |-> "session",
   attempts |-> 0, refreshed |-> FALSE]

Gone(q) == [Arriving(q.target) EXCEPT !.pc = "done"]

Init ==
  /\ pool \in {[queue |-> q, inUse |-> [a \in Accounts |-> 0], waiters |-> <<>>,
                closed |-> {}, maxPer |-> MaxPer, maxQueue |-> n,
                global |-> Global] : q \in SetToSeqs(Accounts), n \in MaxQueues}
  /\ r \in [Callers -> {Arriving(t) : t \in Targets}]
  /\ lease = [c \in Callers |-> None]
  /\ orphaned = FALSE

Set(c, q) == r' = [r EXCEPT ![c] = q]

Leased(c, a) == lease' = [lease EXCEPT ![c] = a]

Unleased(c) == lease' = [lease EXCEPT ![c] = None]

----------------------------------------------------------------------------
(* ensureManagedToken: use the token at hand, or log in first              *)

(* What a loop goes on with once the account has a token *)
Ready(q) ==
  LET next == [q EXCEPT !.pc = "call", !.why = "acquire"]
  IN  CASE q.why = "acquire" -> next
        [] q.why = "switch"  -> [next EXCEPT !.refreshed = FALSE, !.attempts = @ + 1]
        [] q.why = "refresh" -> [next EXCEPT !.refreshed = TRUE]

Ensure(c, a, why) ==
  LET q == [r[c] EXCEPT !.acct = a, !.why = why]
  IN  \/ Set(c, Ready(q))
      \/ Set(c, [q EXCEPT !.pc = "login"])

----------------------------------------------------------------------------
(* acquireManagedRequestAuth *)

Exhausted(q) == q.target = None /\ Cardinality(q.tried) >= Cardinality(Accounts)

May(q) == Grantable(pool, Accounts, q.target, q.tried)

GiveUp(c) ==
  /\ r[c].pc = "acquire"
  /\ Exhausted(r[c])
  /\ Set(c, Gone(r[c]))
  /\ UNCHANGED <<pool, lease, orphaned>>

Acquire(c) ==
  /\ r[c].pc = "acquire"
  /\ ~Exhausted(r[c])
  /\ \E a \in May(r[c]) :
       /\ pool' = Granted(pool, a)
       /\ Leased(c, a)
       /\ Ensure(c, a, "acquire")
  /\ UNCHANGED orphaned

Refuse(c) ==
  /\ r[c].pc = "acquire"
  /\ ~Exhausted(r[c])
  /\ May(r[c]) = {}
  /\ ~CanQueue(pool, Accounts, r[c].target, r[c].tried)
  /\ Set(c, Gone(r[c]))
  /\ UNCHANGED <<pool, lease, orphaned>>

Park(c) ==
  /\ r[c].pc = "acquire"
  /\ ~Exhausted(r[c])
  /\ May(r[c]) = {}
  /\ CanQueue(pool, Accounts, r[c].target, r[c].tried)
  /\ pool' = Enqueued(pool, c)
  /\ Set(c, [r[c] EXCEPT !.pc = "parked"])
  /\ UNCHANGED <<lease, orphaned>>

Wake(c) ==
  /\ r[c].pc = "parked"
  /\ c \in pool.closed
  /\ pool' = [pool EXCEPT !.closed = @ \ {c}]
  /\ Set(c, [r[c] EXCEPT !.pc = "acquire"])
  /\ UNCHANGED <<lease, orphaned>>

----------------------------------------------------------------------------
(* loginAndPersist, on behalf of an acquisition, a switch or RefreshToken  *)

LoginOk_Unmarked(c) ==
  /\ r[c].pc = "login"
  /\ Set(c, [Ready(r[c]) EXCEPT !.refreshed = FALSE])
  /\ UNCHANGED <<pool, lease, orphaned>>

LoginOk(c) ==
  /\ r[c].pc = "login"
  /\ Set(c, Ready(r[c]))
  /\ UNCHANGED <<pool, lease, orphaned>>

(***************************************************************************)
(* A fresh RequestAuth is dropped; a targeted request does not try again.  *)
(***************************************************************************)
Drop(q) ==
  IF q.target = None
  THEN [Arriving(None) EXCEPT !.tried = q.tried \cup {q.acct}]
  ELSE Gone(q)

AcquireLoginFailed_Kept(c) ==
  /\ r[c].pc = "login"
  /\ r[c].why = "acquire"
  /\ Set(c, Drop(r[c]))
  /\ Unleased(c)
  /\ UNCHANGED <<pool, orphaned>>

AcquireLoginFailed(c) ==
  /\ r[c].pc = "login"
  /\ r[c].why = "acquire"
  /\ Set(c, Drop(r[c]))
  /\ pool' = Released(pool, r[c].acct)
  /\ Unleased(c)
  /\ UNCHANGED orphaned

(***************************************************************************)
(* The head of SwitchAccount, and its reaction to a failed login: the      *)
(* account counts as tried and AccountID's slot is given back, whether the *)
(* request still has it or not.                                            *)
(***************************************************************************)
GiveBack(c) ==
  /\ Set(c, [r[c] EXCEPT !.pc = "switch", !.why = "acquire", !.tried = @ \cup {r[c].acct}])
  /\ pool' = Released(pool, r[c].acct)
  /\ Unleased(c)
  /\ UNCHANGED orphaned

(* The login of a switch or of a refresh failed *)
CallLoginFailed(c) ==
  /\ r[c].pc = "login"
  /\ r[c].why \in {"switch", "refresh"}
  /\ GiveBack(c)

----------------------------------------------------------------------------
(* SwitchAccount: take any other account that is free at once              *)

SwitchTo(c) ==
  /\ r[c].pc = "switch"
  /\ \E a \in Grantable(pool, Accounts, None, r[c].tried) :
       /\ pool' = Granted(pool, a)
       /\ Leased(c, a)
       /\ Ensure(c, a, "switch")
  /\ UNCHANGED orphaned

(***************************************************************************)
(* No account is free: AccountID and DeepSeekToken stay what they were and *)
(* the retry loop goes on with them.                                       *)
(***************************************************************************)
SwitchFailed(c) ==
  /\ r[c].pc = "switch"
  /\ Grantable(pool, Accounts, None, r[c].tried) = {}
  /\ Set(c, [r[c] EXCEPT !.pc = "call", !.attempts = @ + 1])
  /\ orphaned' = TRUE
  /\ UNCHANGED <<pool, lease>>

----------------------------------------------------------------------------
(* The retry loops of CreateSession and GetPowForTarget                    *)

Calling(c) == r[c].pc = "call" /\ r[c].attempts < MaxAttempts

CallOk(c) ==
  /\ Calling(c)
  /\ Set(c, IF r[c].phase = "session"
            THEN [r[c] EXCEPT !.phase = "pow", !.attempts = 0, !.refreshed = FALSE]
            ELSE [r[c] EXCEPT !.pc = "complete"])
  /\ UNCHANGED <<pool, lease, orphaned>>

(* A transport error, or a challenge that cannot be solved *)
CallError(c) ==
  /\ Calling(c)
  /\ Set(c, [r[c] EXCEPT !.attempts = @ + 1])
  /\ UNCHANGED <<pool, lease, orphaned>>

(* RefreshToken clears the stored token and logs in again *)
CallUnauthorized(c) ==
  /\ Calling(c)
  /\ ~r[c].refreshed
  /\ Set(c, [r[c] EXCEPT !.pc = "login", !.why = "refresh"])
  /\ UNCHANGED <<pool, lease, orphaned>>

(* Rejected for another reason, or again after a refresh *)
CallRejected(c) ==
  /\ Calling(c)
  /\ GiveBack(c)

(* The answer cannot be turned into a header: GetPow returns at once *)
PowUnusable(c) ==
  /\ Calling(c)
  /\ r[c].phase = "pow"
  /\ Set(c, [r[c] EXCEPT !.pc = "release"])
  /\ UNCHANGED <<pool, lease, orphaned>>

OutOfAttempts(c) ==
  /\ r[c].pc = "call"
  /\ r[c].attempts >= MaxAttempts
  /\ Set(c, [r[c] EXCEPT !.pc = "release"])
  /\ UNCHANGED <<pool, lease, orphaned>>

----------------------------------------------------------------------------
(* CallCompletion with the whole response, then the deferred release       *)

Complete(c) ==
  /\ r[c].pc = "complete"
  /\ Set(c, [r[c] EXCEPT !.pc = "release"])
  /\ UNCHANGED <<pool, lease, orphaned>>

ReleaseAtEnd(c) ==
  /\ r[c].pc = "release"
  /\ pool' = Released(pool, r[c].acct)
  /\ Unleased(c)
  /\ Set(c, Gone(r[c]))
  /\ UNCHANGED orphaned

----------------------------------------------------------------------------

Step(c) ==
  \/ GiveUp(c) \/ Acquire(c) \/ Refuse(c) \/ Park(c) \/ Wake(c)
  \/ LoginOk(c) \/ AcquireLoginFailed(c) \/ CallLoginFailed(c)
  \/ SwitchTo(c) \/ SwitchFailed(c)
  \/ CallOk(c) \/ CallError(c) \/ CallUnauthorized(c) \/ CallRejected(c)
  \/ PowUnusable(c) \/ OutOfAttempts(c)
  \/ Complete(c) \/ ReleaseAtEnd(c)

Next == \E c \in Callers : Step(c)

(***************************************************************************)
(* Every request is a goroutine of its own and every call it makes returns *)
(* (the HTTP clients have timeouts), so each keeps taking steps.           *)
(***************************************************************************)
Fairness == \A c \in Callers : WF_vars(Step(c))

Spec == Init /\ [][Next]_vars

FairSpec == Spec /\ Fairness

----------------------------------------------------------------------------
(* Properties *)

Leases(a) == {c \in Callers : lease[c] = a}

(* The request states and the pool have their types *)
TypeOK ==
  /\ pool \in PoolType
  /\ r \in [Callers -> RequestType]
  /\ lease \in [Callers -> Accounts \cup {None}]
  /\ orphaned \in BOOLEAN

(***************************************************************************)
(* No path through login failures, refreshes, switches and early returns   *)
(* loses a slot: an occupied slot has a request that will give it back.    *)
(* As long as every SwitchAccount has found another account, the counters  *)
(* are exact: nobody's slot is given away and nobody gives back twice.     *)
(***************************************************************************)
NoSlotLost ==
  \A a \in Accounts :
    /\ pool.inUse[a] <= Cardinality(Leases(a))
    /\ ~orphaned => pool.inUse[a] = Cardinality(Leases(a))

(***************************************************************************)
(* Whatever DeepSeek answers, a request ends: refreshing and switching do  *)
(* not go round for ever and a parked request is woken.                    *)
(***************************************************************************)
RequestsFinish == \A c \in Callers : <>(r[c].pc = "done")

(***************************************************************************)
(* in_use counts the occupied slots (API.en.md, the queue status): every   *)
(* slot a request holds is counted.  Fails: a request whose switch found   *)
(* nothing releases its old account again, and takes the count of a slot   *)
(* another request holds.                                                  *)
(***************************************************************************)
InUseCountsLeases ==
  \A a \in Accounts : Cardinality(Leases(a)) <= pool.inUse[a]

(***************************************************************************)
(* X-Ds2-Target-Account pins an account (README.en.md): such a request     *)
(* never uses another one.  Fails: SwitchAccount acquires with no target.  *)
(***************************************************************************)
PinnedStaysPinned ==
  \A c \in Callers :
    r[c].target # None => lease[c] \in {None, r[c].target}
=============================================================================
