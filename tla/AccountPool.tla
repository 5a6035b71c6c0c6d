---------------------------- MODULE AccountPool ----------------------------
(***************************************************************************)
(* The account pool of internal/account under concurrent requests and      *)
(* admin changes.                                                          *)
(*                                                                         *)
(* A caller is one goroutine inside Pool.AcquireWait, or one that holds    *)
(* the account it was given.  Everything between Lock and Unlock is one    *)
(* step; what happens between two critical sections is not: a caller may   *)
(* be overtaken between its wake-up and its retry, its context may end     *)
(* while its channel is being closed, and Reset reads the configuration    *)
(* before it takes the lock.                                               *)
(*                                                                         *)
(* The check of ctx.Err at the top of the loop and the critical section    *)
(* after it are one step: a cancellation between the two commutes with the *)
(* critical section, which does not look at the context.                   *)
(***************************************************************************)
EXTENDS PoolOps

CONSTANTS
  Requests,     \* the [target, exclude] pairs callers come with
  Cancellable,  \* the callers whose request context may end while waiting
  Admins,       \* admin handlers that may run concurrently
  StoreChoices, \* account lists the admin API may install in the config
  Settings      \* runtime settings the admin API may install

ASSUME RequestsAssumption ==
  Requests \subseteq [target : Accounts \cup {None}, exclude : SUBSET Accounts]

ASSUME SettingsAssumption == Settings \subseteq SettingsType /\ Settings # {}

ASSUME StoreAssumption ==
  /\ StoreChoices \subseteq {s \in Seq(Accounts) : IsInjective(s)}
  /\ StoreChoices # {}

ASSUME CancellableAssumption == Cancellable \subseteq Callers

VARIABLES
  pool,     \* the Pool struct, a pool value of PoolOps
  store,    \* config.Store: the configured account ids, in order
  settings, \* config.Store: the runtime settings
  pc,       \* where each caller is
  req,      \* the arguments of the caller's AcquireWait
  ctxDone,  \* whether the caller's context has ended
  held,     \* the account the caller holds, None when it holds none
  admin     \* what each admin handler is doing

callerVars == <<pc, req, ctxDone, held>>
vars == <<pool, store, settings, pc, req, ctxDone, held, admin>>

PCs == {"idle", "loop", "parked", "held"}

AdminPCs == {"idle", "reset", "resetLocked", "limits", "limitsLocked"}

AdminType == [pc : AdminPCs, ids : Seq(Accounts),
              maxPer : Nat, maxQueue : Nat, global : Nat]

Idle == [pc |-> "idle", ids |-> <<>>, maxPer |-> 0, maxQueue |-> 0, global |-> 0]

Known == ToSet(store)

----------------------------------------------------------------------------
(* Initial state: NewPool on the configuration the process was started with *)

Recommended(n, maxPer) == n * maxPer

Init ==
  /\ store \in StoreChoices
  /\ settings \in Settings
  /\ pool = [queue    |-> store,
             inUse    |-> [a \in Accounts |-> 0],
             waiters  |-> <<>>,
             closed   |-> {},
             maxPer   |-> settings.maxPer,
             maxQueue |-> MaxQueueOf(settings, Recommended(Len(store), settings.maxPer)),
             global   |-> GlobalOf(settings, Recommended(Len(store), settings.maxPer))]
  /\ pc = [c \in Callers |-> "idle"]
  /\ req \in [Callers -> {[target |-> None, exclude |-> {}]}]
  /\ ctxDone = [c \in Callers |-> FALSE]
  /\ held = [c \in Callers |-> None]
  /\ admin = [m \in Admins |-> Idle]

----------------------------------------------------------------------------
(* Callers *)

May(c) == Grantable(pool, Known, req[c].target, req[c].exclude)

Arrive(c) ==
  /\ pc[c] = "idle"
  /\ \E r \in Requests : req' = [req EXCEPT ![c] = r]
  /\ pc' = [pc EXCEPT ![c] = "loop"]
  /\ UNCHANGED <<pool, store, settings, ctxDone, held, admin>>

Cancel(c) ==
  /\ c \in Cancellable
  /\ pc[c] \in {"loop", "parked"}
  /\ ~ctxDone[c]
  /\ ctxDone' = [ctxDone EXCEPT ![c] = TRUE]
  /\ UNCHANGED <<pool, store, settings, pc, req, held, admin>>

(* AcquireWait returns false: back to idle with a context of its own next time *)
Leave(c) ==
  /\ pc' = [pc EXCEPT ![c] = "idle"]
  /\ ctxDone' = [ctxDone EXCEPT ![c] = FALSE]
  /\ UNCHANGED <<req, held, store, settings, admin>>

GiveUpAtTop(c) ==
  /\ pc[c] = "loop"
  /\ ctxDone[c]
  /\ Leave(c)
  /\ UNCHANGED pool

Take(c, a) ==
  /\ pool' = Granted(pool, a)
  /\ held' = [held EXCEPT ![c] = a]
  /\ pc' = [pc EXCEPT ![c] = "held"]
  /\ UNCHANGED <<req, ctxDone, store, settings, admin>>

Acquire(c) ==
  /\ pc[c] = "loop"
  /\ ~ctxDone[c]
  /\ \E a \in May(c) : Take(c, a)

(* Pool.Acquire: one attempt that never waits; when it fails nothing changes *)
AcquireNow(c) ==
  /\ pc[c] = "idle"
  /\ \E r \in Requests :
       \E a \in Grantable(pool, Known, r.target, r.exclude) : Take(c, a)

Refuse(c) ==
  /\ pc[c] = "loop"
  /\ ~ctxDone[c]
  /\ May(c) = {}
  /\ ~CanQueue(pool, Known, req[c].target, req[c].exclude)
  /\ Leave(c)
  /\ UNCHANGED pool

Park(c) ==
  /\ pc[c] = "loop"
  /\ ~ctxDone[c]
  /\ May(c) = {}
  /\ CanQueue(pool, Known, req[c].target, req[c].exclude)
  /\ pool' = Enqueued(pool, c)
  /\ pc' = [pc EXCEPT ![c] = "parked"]
  /\ UNCHANGED <<store, settings, req, ctxDone, held, admin>>

Wake(c) ==
  /\ pc[c] = "parked"
  /\ c \in pool.closed
  /\ pool' = [pool EXCEPT !.closed = @ \ {c}]
  /\ pc' = [pc EXCEPT ![c] = "loop"]
  /\ UNCHANGED <<store, settings, req, ctxDone, held, admin>>

(* The context wins the select.  When the channel is closed as well the    *)
(* waiter is no longer in the list and the wake-up ends here.              *)
AbandonWait_KeepWaiter(c) ==
  /\ pc[c] = "parked"
  /\ ctxDone[c]
  /\ pool' = [pool EXCEPT !.closed = @ \ {c}]
  /\ Leave(c)

AbandonWait(c) ==
  /\ pc[c] = "parked"
  /\ ctxDone[c]
  /\ pool' = [Unlinked(pool, c) EXCEPT !.closed = @ \ {c}]
  /\ Leave(c)

Release(c) ==
  /\ pc[c] = "held"
  /\ pool' = Released(pool, held[c])
  /\ held' = [held EXCEPT ![c] = None]
  /\ pc' = [pc EXCEPT ![c] = "idle"]
  /\ ctxDone' = [ctxDone EXCEPT ![c] = FALSE]
  /\ UNCHANGED <<store, settings, req, admin>>

----------------------------------------------------------------------------
(* Admin handlers *)

(* Store.Update or Store.Replace with another account list; Pool.Reset follows *)
EditAccounts(m) ==
  /\ admin[m].pc = "idle"
  /\ \E s \in StoreChoices : store' = s
  /\ admin' = [admin EXCEPT ![m].pc = "reset"]
  /\ UNCHANGED <<pool, settings, callerVars>>

(* Reset before the lock: accounts with a token first, each part in the    *)
(* configured order, whichever accounts T hold one at that moment; the     *)
(* per-account limit is written to the pool here, outside the lock.        *)
ResetRead(m) ==
  /\ admin[m].pc = "reset"
  /\ \E T \in SUBSET Known :
     \E ids \in TokenHoldersFirst(store, T) :
       LET rec == Recommended(Len(store), settings.maxPer)
       IN  admin' = [admin EXCEPT ![m] =
             [pc       |-> "resetLocked",
              ids      |-> ids,
              maxPer   |-> settings.maxPer,
              maxQueue |-> MaxQueueOf(settings, rec),
              global   |-> GlobalOf(settings, rec)]]
  /\ pool' = [pool EXCEPT !.maxPer = settings.maxPer]
  /\ UNCHANGED <<store, settings, callerVars>>

ResetLocked_KeepQueue(m) ==
  /\ admin[m].pc = "resetLocked"
  /\ pool' = ResetTo(pool, pool.queue, admin[m].maxQueue, admin[m].global)
  /\ admin' = [admin EXCEPT ![m] = Idle]
  /\ UNCHANGED <<store, settings, callerVars>>

ResetLocked(m) ==
  /\ admin[m].pc = "resetLocked"
  /\ pool' = ResetTo(pool, admin[m].ids, admin[m].maxQueue, admin[m].global)
  /\ admin' = [admin EXCEPT ![m] = Idle]
  /\ UNCHANGED <<store, settings, callerVars>>

(* Store.Update with other runtime settings; applyRuntimeSettings follows *)
EditSettings(m) ==
  /\ admin[m].pc = "idle"
  /\ \E s \in Settings : settings' = s
  /\ admin' = [admin EXCEPT ![m].pc = "limits"]
  /\ UNCHANGED <<pool, store, callerVars>>

LimitsRead(m) ==
  /\ admin[m].pc = "limits"
  /\ LET rec == IF store = <<>> THEN settings.maxPer
                ELSE Recommended(Len(store), settings.maxPer)
     IN  admin' = [admin EXCEPT ![m] =
           [pc       |-> "limitsLocked",
            ids      |-> <<>>,
            maxPer   |-> settings.maxPer,
            maxQueue |-> MaxQueueOf(settings, rec),
            global   |-> GlobalOf(settings, rec)]]
  /\ UNCHANGED <<pool, store, settings, callerVars>>

LimitsLocked(m) ==
  /\ admin[m].pc = "limitsLocked"
  /\ pool' = WithLimits(pool, admin[m].maxPer, admin[m].maxQueue, admin[m].global)
  /\ admin' = [admin EXCEPT ![m] = Idle]
  /\ UNCHANGED <<store, settings, callerVars>>

----------------------------------------------------------------------------
(* Specifications *)

CallerStep(c) ==
  \/ Arrive(c)
  \/ Cancel(c)
  \/ GiveUpAtTop(c)
  \/ Acquire(c)
  \/ AcquireNow(c)
  \/ Refuse(c)
  \/ Park(c)
  \/ Wake(c)
  \/ AbandonWait(c)
  \/ Release(c)

SettingsStep(m) == EditSettings(m) \/ LimitsRead(m) \/ LimitsLocked(m)

AccountsStep(m) == EditAccounts(m) \/ ResetRead(m) \/ ResetLocked(m)

(* No account is added, removed or imported while requests are served *)
StableNext ==
  \/ \E c \in Callers : CallerStep(c)
  \/ \E m \in Admins : SettingsStep(m)

Next == StableNext \/ \E m \in Admins : AccountsStep(m)

StableSpec == Init /\ [][StableNext]_vars

Spec == Init /\ [][Next]_vars

(***************************************************************************)
(* A goroutine that can run does, and whoever was given an account returns *)
(* it: every handler defers Auth.Release and every upstream call it makes  *)
(* is bounded by a timeout.  Nothing obliges a client to come or to leave. *)
(***************************************************************************)
CallerFairness(c) ==
  /\ WF_vars(GiveUpAtTop(c) \/ Acquire(c) \/ Refuse(c) \/ Park(c))
  /\ WF_vars(Wake(c) \/ AbandonWait(c))
  /\ WF_vars(Release(c))

StableFairSpec == StableSpec /\ \A c \in Callers : CallerFairness(c)
----------------------------------------------------------------------------
(* Properties *)

Holders(a) == HoldersIn(held, a)
Leases == LeasesIn(held)
Waiting(c) == pc[c] = "parked" /\ c \notin pool.closed

(* The pool, the requests and the admin handlers have their types *)
TypeOK ==
  /\ pool \in PoolType
  /\ store \in Seq(Accounts)
  /\ settings \in SettingsType
  /\ pc \in [Callers -> PCs]
  /\ req \in [Callers -> [target : Accounts \cup {None}, exclude : SUBSET Accounts]]
  /\ ctxDone \in [Callers -> BOOLEAN]
  /\ held \in [Callers -> Accounts \cup {None}]
  /\ admin \in [Admins -> AdminType]

(***************************************************************************)
(* The waiter list is exactly the parked callers whose channel is still    *)
(* open, each once.  A channel left behind by a caller that went away      *)
(* would swallow a later wake-up (removeWaiterLocked, drainWaitersLocked). *)
(***************************************************************************)
WaitersExact ==
  /\ IsInjective(pool.waiters)
  /\ ToSet(pool.waiters) = {c \in Callers : Waiting(c)}
  /\ \A c \in pool.closed : pc[c] = "parked"

(***************************************************************************)
(* No slot is lost: every slot the pool counts as used is backed by a      *)
(* request that will release it, whatever Resets and releases by holders   *)
(* of an earlier generation happened in between.                           *)
(***************************************************************************)
CountsBackedByLeases ==
  \A a \in Accounts : pool.inUse[a] <= Cardinality(Holders(a))

(***************************************************************************)
(* Once an account edit has been carried through, the rotation queue       *)
(* offers exactly the configured accounts, each once (EditAccounts, then   *)
(* Reset; one admin handler at a time).                                    *)
(***************************************************************************)
QueueMatchesStore ==
  /\ IsInjective(pool.queue)
  /\ (\A m \in Admins : admin[m].pc \notin {"reset", "resetLocked"})
       => ToSet(pool.queue) = Known

(***************************************************************************)
(* While no account is edited, the counters equal the leases that are      *)
(* alive, per account and in total.                                        *)
(***************************************************************************)
InUseExact ==
  /\ \A a \in Accounts : pool.inUse[a] = Cardinality(Holders(a))
  /\ CurrentInUse(pool) = Cardinality(Leases)

(***************************************************************************)
(* The pool is an implementation of the lease discipline of SlotAllocator. *)
(***************************************************************************)
Abstract == INSTANCE SlotAllocator
              WITH NoAccount <- None, perLimit <- pool.maxPer, total <- pool.global

ImplementsSlotAllocator == Abstract!Spec

(***************************************************************************)
(* When every slot has been returned and no caller is on its way to retry, *)
(* nobody is left waiting: a free account and a parked request never meet  *)
(* in silence.                                                             *)
(***************************************************************************)
NobodyStranded ==
  (/\ Leases = {}
   /\ \A c \in Callers : pc[c] # "loop"
   /\ pool.closed = {})
  => \A c \in Callers : pc[c] # "parked"

(***************************************************************************)
(* A queued request is eventually woken or gives up.                       *)
(***************************************************************************)
WaiterIsWoken == \A c \in Callers : Waiting(c) ~> ~Waiting(c)

(***************************************************************************)
(* The per-account limit bounds the requests that use an account at once   *)
(* (README.en.md, Concurrency Model).                                      *)
(***************************************************************************)
LeaseLimit == \A a \in Accounts : Cardinality(Holders(a)) <= pool.maxPer
============================================================================
