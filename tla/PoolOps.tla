------------------------------ MODULE PoolOps ------------------------------
(***************************************************************************)
(* The operations of the managed-account pool (internal/account), as       *)
(* operators on a pool value.  Each stands for one function that the Go    *)
(* code runs while it holds Pool.mu, so each is applied in a single step   *)
(* by the state machines that use this module.                             *)
(*                                                                         *)
(* A pool value p is a record:                                             *)
(*   queue     account ids in the order an untargeted request tries them   *)
(*   inUse     in-flight slots of each account (an absent key counts 0)    *)
(*   waiters   the callers parked in AcquireWait, oldest first             *)
(*   closed    the callers whose wait channel has been closed and who      *)
(*             have not noticed yet                                        *)
(*   maxPer, maxQueue, global   the limits in force (global = 0: none)     *)
(*                                                                         *)
(* A definition Name_Fault is a faulty variant of Name that no             *)
(* specification uses: it shows that a property would notice that fault.   *)
(***************************************************************************)
EXTENDS Naturals, Integers, Sequences, FiniteSets, SequencesExt

CONSTANTS
  Accounts,   \* every account identifier that can be configured
  Callers,    \* the goroutines that ask the pool for an account
  None        \* the empty identifier: no target, no account

ASSUME NoneAssumption == None \notin Accounts

ASSUME FiniteAssumption == IsFiniteSet(Accounts) /\ IsFiniteSet(Callers)

Unset == -1   \* a runtime setting that is left to its default

(***************************************************************************)
(* What the configuration resolves to: maxPer is always positive, the      *)
(* other two may be left to the recommended concurrency.                   *)
(***************************************************************************)
SettingsType == [maxPer   : Nat \ {0},
                 maxQueue : Nat \cup {Unset},
                 global   : (Nat \ {0}) \cup {Unset}]

PoolType == [queue    : Seq(Accounts),
             inUse    : [Accounts -> Nat],
             waiters  : Seq(Callers),
             closed   : SUBSET Callers,
             maxPer   : Nat,
             maxQueue : Nat,
             global   : Nat]

MaxQueueOf(cfg, recommended) ==
  IF cfg.maxQueue = Unset THEN recommended ELSE cfg.maxQueue

GlobalOf(cfg, recommended) ==
  IF cfg.global = Unset THEN recommended ELSE cfg.global

----------------------------------------------------------------------------
(* Limits *)

(***************************************************************************)
(* The occupied slots as a set of pairs, so that the sum the code loops    *)
(* over is a cardinality.                                                  *)
(***************************************************************************)
Slots(inUse) == UNION {{a} \X (1 .. inUse[a]) : a \in Accounts}

CurrentInUse(p) == Cardinality(Slots(p.inUse))

CanAcquireID_OffByOne(p, a) ==
  /\ p.inUse[a] <= p.maxPer
  /\ p.global > 0 => CurrentInUse(p) < p.global

CanAcquireID(p, a) ==
  /\ p.inUse[a] < p.maxPer
  /\ p.global > 0 => CurrentInUse(p) < p.global

----------------------------------------------------------------------------
(* Granting and returning a slot *)

(***************************************************************************)
(* s without e: the loops of bumpQueue and removeWaiterLocked.  No id and  *)
(* no waiter occurs twice, so the place of e is unique.                    *)
(***************************************************************************)
Without(s, e) ==
  IF \E i \in DOMAIN s : s[i] = e
  THEN RemoveAt(s, CHOOSE i \in DOMAIN s : s[i] = e)
  ELSE s

BumpQueue(q, a) ==
  IF Contains(q, a) THEN Append(Without(q, a), a) ELSE q

(***************************************************************************)
(* The accounts acquireLocked may hand out: the target if it passes, or    *)
(* the first account of the queue that does.  known is the set of          *)
(* identifiers Store.FindAccount resolves.                                 *)
(***************************************************************************)
Grantable(p, known, target, exclude) ==
  LET Passes(a) == a \notin exclude /\ CanAcquireID(p, a) /\ a \in known
  IN  IF target # None
      THEN {a \in {target} : Passes(a)}
      ELSE {p.queue[i] : i \in {j \in DOMAIN p.queue :
                /\ Passes(p.queue[j])
                /\ \A k \in 1 .. j - 1 : ~Passes(p.queue[k])}}

Granted(p, a) ==
  [p EXCEPT !.inUse[a] = @ + 1,
            !.queue = BumpQueue(@, a)]

NotifyWaiter(p) ==
  IF p.waiters = <<>> THEN p
  ELSE [p EXCEPT !.closed  = @ \cup {Head(p.waiters)},
                 !.waiters = Tail(@)]

Released_Silent(p, a) ==
  IF a = None \/ p.inUse[a] = 0 THEN p ELSE [p EXCEPT !.inUse[a] = @ - 1]

Released_NoFloor(p, a) ==
  IF a = None THEN p ELSE NotifyWaiter([p EXCEPT !.inUse[a] = @ - 1])

Released_NotifyOnly(p, a) ==
  IF a = None \/ p.inUse[a] = 0 THEN p ELSE NotifyWaiter(p)

Released(p, a) ==
  IF a = None \/ p.inUse[a] = 0 THEN p
  ELSE NotifyWaiter([p EXCEPT !.inUse[a] = @ - 1])

----------------------------------------------------------------------------
(* Waiting *)

CanQueue(p, known, target, exclude) ==
  /\ target # None => target \notin exclude /\ target \in known
  /\ Len(p.waiters) < p.maxQueue

Enqueued(p, c) == [p EXCEPT !.waiters = Append(@, c)]

Unlinked(p, c) == [p EXCEPT !.waiters = Without(@, c)]

DrainWaiters(p) ==
  [p EXCEPT !.closed  = @ \cup ToSet(p.waiters),
            !.waiters = <<>>]

----------------------------------------------------------------------------
(* Installing accounts and limits *)

Before(s, a, b) == \E i, j \in DOMAIN s : i < j /\ s[i] = a /\ s[j] = b

(***************************************************************************)
(* The orders a stable sort of the account list s can leave when the       *)
(* accounts in T come first (there is exactly one when s has no repeats).  *)
(***************************************************************************)
TokenHoldersFirst(s, T) ==
  {r \in [1 .. Len(s) -> ToSet(s)] :
     /\ ToSet(r) = ToSet(s)
     /\ \A a, b \in ToSet(s) :
          Before(r, a, b) <=> \/ a \in T /\ b \notin T
                              \/ (a \in T <=> b \in T) /\ Before(s, a, b)}

(***************************************************************************)
(* The locked tail of Reset: every counter is forgotten, whoever still     *)
(* holds a slot.                                                           *)
(***************************************************************************)
ResetTo(p, ids, maxQueue, global) ==
  [DrainWaiters(p) EXCEPT !.queue    = ids,
                          !.inUse    = [a \in Accounts |-> 0],
                          !.maxQueue = maxQueue,
                          !.global   = global]

WithLimits(p, maxPer, maxQueue, global) ==
  NotifyWaiter([p EXCEPT !.maxPer   = maxPer,
                         !.maxQueue = maxQueue,
                         !.global   = global])

----------------------------------------------------------------------------
(* The callers that hold account a when h[c] is what c holds, and all holders *)

HoldersIn(h, a) == {c \in Callers : h[c] = a}

LeasesIn(h) == {c \in Callers : h[c] # None}
============================================================================
