------------------------- MODULE AccountPoolProofs -------------------------
(***************************************************************************)
(* What holds of AccountPool for every set of accounts, callers, admin     *)
(* handlers and settings: type correctness, the absence of lost slots,     *)
(* the exactness of the counters while the account list is stable, and     *)
(* from it that the pool implements SlotAllocator.                         *)
(***************************************************************************)
EXTENDS AccountPool, PoolOpsLemmas

----------------------------------------------------------------------------
(* Type correctness *)

(* The limits the configuration resolves to are natural numbers. *)
LEMMA LimitsType ==
  ASSUME NEW cfg \in SettingsType, NEW n \in Nat
  PROVE  /\ cfg.maxPer \in Nat
         /\ Recommended(n, cfg.maxPer) \in Nat
         /\ \A rec \in Nat : MaxQueueOf(cfg, rec) \in Nat /\ GlobalOf(cfg, rec) \in Nat
<1>1. /\ cfg.maxPer \in Nat
      /\ cfg.maxQueue \in Nat \cup {Unset}
      /\ cfg.global \in Nat \cup {Unset}
  BY DEF SettingsType
<1>2. Recommended(n, cfg.maxPer) \in Nat
  BY <1>1 DEF Recommended
<1>3. QED BY <1>1, <1>2 DEF MaxQueueOf, GlobalOf

(* A sorted account list ranges over the accounts. *)
LEMMA TokenHoldersFirstType ==
  ASSUME NEW s \in Seq(Accounts), NEW T, NEW ids \in TokenHoldersFirst(s, T)
  PROVE  ids \in Seq(Accounts)
<1>1. ids \in [1 .. Len(s) -> Accounts]
  BY ToSetType DEF TokenHoldersFirst
<1>2. Len(s) \in Nat
  OBVIOUS
<1>3. QED BY <1>1, <1>2

(* NewPool builds a well-typed state. *)
LEMMA InitType == Init => TypeOK
<1> SUFFICES ASSUME Init PROVE TypeOK
  OBVIOUS
<1>1. store \in Seq(Accounts) /\ settings \in SettingsType
  BY StoreAssumption, SettingsAssumption DEF Init
<1>2. pool \in PoolType
  <2>1. Len(store) \in Nat
    BY <1>1
  <2>2. pool.maxPer \in Nat /\ pool.maxQueue \in Nat /\ pool.global \in Nat
    BY <1>1, <2>1, LimitsType DEF Init
  <2>3. [a \in Accounts |-> 0] \in [Accounts -> Nat] /\ <<>> \in Seq(Callers)
    OBVIOUS
  <2>4. QED BY <1>1, <2>2, <2>3 DEF Init, PoolType
<1>3. admin \in [Admins -> AdminType]
  <2>1. Idle \in AdminType
    BY DEF Idle, AdminType, AdminPCs
  <2>2. QED BY <2>1 DEF Init
<1>4. QED BY <1>1, <1>2, <1>3 DEF Init, TypeOK, PCs

(* The admin handler's local state stays well typed. *)
LEMMA AdminStepType ==
  ASSUME TypeOK, NEW m \in Admins, SettingsStep(m) \/ AccountsStep(m)
  PROVE  TypeOK'
<1> USE DEF TypeOK
<1>1. Idle \in AdminType /\ admin[m] \in AdminType
  BY DEF Idle, AdminType, AdminPCs
<1>2. /\ admin[m].ids \in Seq(Accounts)
      /\ admin[m].maxPer \in Nat
      /\ admin[m].maxQueue \in Nat
      /\ admin[m].global \in Nat
  BY <1>1 DEF AdminType
<1>3. CASE EditSettings(m)
  <2>1. [admin[m] EXCEPT !.pc = "limits"] \in AdminType
    BY <1>1 DEF AdminType, AdminPCs
  <2>2. admin' \in [Admins -> AdminType]
    BY <1>3, <2>1 DEF EditSettings
  <2>3. settings' \in SettingsType
    BY <1>3, SettingsAssumption DEF EditSettings
  <2>4. QED BY <1>3, <2>2, <2>3 DEF EditSettings, callerVars
<1>4. CASE LimitsRead(m)
  <2> DEFINE rec == IF store = <<>> THEN settings.maxPer
                    ELSE Recommended(Len(store), settings.maxPer)
             plan == [pc       |-> "limitsLocked",
                      ids      |-> <<>>,
                      maxPer   |-> settings.maxPer,
                      maxQueue |-> MaxQueueOf(settings, rec),
                      global   |-> GlobalOf(settings, rec)]
  <2>1. rec \in Nat /\ settings.maxPer \in Nat
    BY LimitsType
  <2>2. MaxQueueOf(settings, rec) \in Nat /\ GlobalOf(settings, rec) \in Nat
    <3> HIDE DEF rec
    <3>1. QED BY <2>1, LimitsType
  <2>3. plan \in AdminType
    <3> HIDE DEF rec
    <3>1. QED BY <2>1, <2>2 DEF AdminType, AdminPCs
  <2>4. admin' = [admin EXCEPT ![m] = plan]
    BY <1>4 DEF LimitsRead
  <2> HIDE DEF plan
  <2>5. QED BY <1>4, <2>3, <2>4 DEF LimitsRead, callerVars
<1>5. CASE LimitsLocked(m)
  <2>1. pool' \in PoolType
    BY <1>2, <1>5, WithLimitsProperties DEF LimitsLocked
  <2>2. QED BY <1>1, <1>5, <2>1 DEF LimitsLocked, callerVars
<1>6. CASE EditAccounts(m)
  <2>1. [admin[m] EXCEPT !.pc = "reset"] \in AdminType
    BY <1>1 DEF AdminType, AdminPCs
  <2>2. admin' \in [Admins -> AdminType]
    BY <1>6, <2>1 DEF EditAccounts
  <2>3. store' \in Seq(Accounts)
    BY <1>6, StoreAssumption DEF EditAccounts
  <2>4. QED BY <1>6, <2>2, <2>3 DEF EditAccounts, callerVars
<1>7. CASE ResetRead(m)
  <2> DEFINE rec == Recommended(Len(store), settings.maxPer)
  <2>1. rec \in Nat /\ settings.maxPer \in Nat
    BY LimitsType
  <2>2. MaxQueueOf(settings, rec) \in Nat /\ GlobalOf(settings, rec) \in Nat
    <3> HIDE DEF rec
    <3>1. QED BY <2>1, LimitsType
  <2> DEFINE plan(ids) == [pc       |-> "resetLocked",
                           ids      |-> ids,
                           maxPer   |-> settings.maxPer,
                           maxQueue |-> MaxQueueOf(settings, rec),
                           global   |-> GlobalOf(settings, rec)]
  <2>3. PICK T \in SUBSET Known :
          \E ids \in TokenHoldersFirst(store, T) : admin' = [admin EXCEPT ![m] = plan(ids)]
    BY <1>7 DEF ResetRead
  <2>4. PICK ids \in TokenHoldersFirst(store, T) : admin' = [admin EXCEPT ![m] = plan(ids)]
    BY <2>3
  <2>5. ids \in Seq(Accounts)
    BY TokenHoldersFirstType
  <2>6. plan(ids) \in AdminType
    <3> HIDE DEF rec
    <3>1. QED BY <2>1, <2>2, <2>5 DEF AdminType, AdminPCs
  <2> HIDE DEF plan
  <2>7. pool' \in PoolType
    BY <1>7, <2>1 DEF ResetRead, PoolType
  <2>8. QED BY <1>7, <2>4, <2>6, <2>7 DEF ResetRead, callerVars
<1>8. CASE ResetLocked(m)
  <2>1. pool' \in PoolType
    BY <1>2, <1>8, ResetToProperties DEF ResetLocked
  <2>2. QED BY <1>1, <1>8, <2>1 DEF ResetLocked, callerVars
<1>9. QED BY <1>3, <1>4, <1>5, <1>6, <1>7, <1>8 DEF SettingsStep, AccountsStep

(* Taking an account keeps the state well typed and counts one more slot. *)
LEMMA TakeProperties ==
  ASSUME TypeOK, NEW c \in Callers, NEW a \in Accounts, Take(c, a)
  PROVE  /\ TypeOK'
         /\ pool'.inUse = [pool.inUse EXCEPT ![a] = @ + 1]
         /\ pool'.maxPer = pool.maxPer
         /\ pool'.global = pool.global
<1>1. pool \in PoolType
  BY DEF TypeOK
<1>2. QED BY <1>1, GrantedProperties DEF Take, TypeOK, PCs

(* What the pool may hand to a caller is an account below its limits. *)
LEMMA MayProperties ==
  ASSUME TypeOK, NEW c \in Callers, NEW a \in May(c)
  PROVE  a \in Accounts /\ CanAcquireID(pool, a)
<1>1. pool \in PoolType /\ req[c].target \in Accounts \cup {None}
  BY DEF TypeOK
<1>2. QED BY <1>1, GrantableProperties DEF May

(* The same for an attempt that does not wait. *)
LEMMA AcquireNowProperties ==
  ASSUME TypeOK, NEW c \in Callers, AcquireNow(c)
  PROVE  \E a \in Accounts : CanAcquireID(pool, a) /\ Take(c, a)
<1>1. PICK r \in Requests :
        \E a \in Grantable(pool, Known, r.target, r.exclude) : Take(c, a)
  BY DEF AcquireNow
<1>2. PICK a \in Grantable(pool, Known, r.target, r.exclude) : Take(c, a)
  BY <1>1
<1>3. pool \in PoolType /\ r.target \in Accounts \cup {None}
  BY RequestsAssumption DEF TypeOK
<1>4. a \in Accounts /\ CanAcquireID(pool, a)
  BY <1>3, GrantableProperties
<1>5. QED BY <1>2, <1>4

(* Every step of a caller keeps the state well typed. *)
LEMMA CallerStepType ==
  ASSUME TypeOK, NEW c \in Callers, CallerStep(c)
  PROVE  TypeOK'
<1> USE DEF TypeOK, PCs
<1>1. pool \in PoolType
  OBVIOUS
<1>2. CASE Arrive(c)
  BY <1>2, RequestsAssumption DEF Arrive
<1>3. CASE Cancel(c)
  BY <1>3 DEF Cancel
<1>4. CASE GiveUpAtTop(c)
  BY <1>4 DEF GiveUpAtTop, Leave
<1>5. CASE Acquire(c)
  <2>1. PICK a \in May(c) : Take(c, a)
    BY <1>5 DEF Acquire
  <2>2. QED BY <2>1, MayProperties, TakeProperties
<1>6. CASE AcquireNow(c)
  BY <1>6, AcquireNowProperties, TakeProperties
<1>7. CASE Refuse(c)
  BY <1>7 DEF Refuse, Leave
<1>8. CASE Park(c)
  BY <1>1, <1>8, WaitingProperties DEF Park
<1>9. CASE Wake(c)
  BY <1>1, <1>9, WaitingProperties DEF Wake
<1>10. CASE AbandonWait(c)
  BY <1>1, <1>10, WaitingProperties DEF AbandonWait, Leave
<1>11. CASE Release(c)
  <2>1. pool' \in PoolType
    <3>1. CASE held[c] \in Accounts
      BY <1>1, <1>11, <3>1, ReleasedProperties DEF Release
    <3>2. CASE held[c] = None
      BY <1>1, <1>11, <3>2 DEF Release, Released
    <3>3. QED BY <3>1, <3>2
  <2>2. QED BY <1>11, <2>1 DEF Release
<1>12. QED
  BY <1>2, <1>3, <1>4, <1>5, <1>6, <1>7, <1>8, <1>9, <1>10, <1>11 DEF CallerStep

(* Every reachable state is well typed, whatever callers and admins do. *)
THEOREM TypeCorrect == Spec => []TypeOK
<1>1. TypeOK /\ [Next]_vars => TypeOK'
  <2> SUFFICES ASSUME TypeOK, [Next]_vars PROVE TypeOK'
    OBVIOUS
  <2>1. CASE UNCHANGED vars
    BY <2>1 DEF vars, TypeOK
  <2>2. CASE Next
    BY <2>2, CallerStepType, AdminStepType DEF Next, StableNext
  <2>3. QED BY <2>1, <2>2
<1>2. QED BY InitType, <1>1, PTL DEF Spec

----------------------------------------------------------------------------
(* Leases *)

(* A caller is at "held" exactly while it has an account. *)
HeldWhileHeld == \A c \in Callers : pc[c] = "held" <=> held[c] # None

(* The kinds of steps, by what they do to the counters and the leases. *)
GrantStep(c, a) ==
  /\ held[c] = None
  /\ CanAcquireID(pool, a)
  /\ held' = [held EXCEPT ![c] = a]
  /\ pool'.inUse = [pool.inUse EXCEPT ![a] = @ + 1]
  /\ pool'.maxPer = pool.maxPer
  /\ pool'.global = pool.global

ReturnStep(c) ==
  /\ held[c] \in Accounts
  /\ held' = [held EXCEPT ![c] = None]
  /\ pool'.inUse = IF pool.inUse[held[c]] = 0 THEN pool.inUse
                   ELSE [pool.inUse EXCEPT ![held[c]] = @ - 1]
  /\ pool'.maxPer = pool.maxPer
  /\ pool'.global = pool.global

QuietStep == held' = held /\ pool'.inUse = pool.inUse

ForgetStep == held' = held /\ pool'.inUse = [a \in Accounts |-> 0]

(* Taking an account is a grant, if the account is below its limits. *)
LEMMA TakeIsGrant ==
  ASSUME TypeOK, HeldWhileHeld, NEW c \in Callers, NEW a \in Accounts,
         pc[c] # "held", CanAcquireID(pool, a), Take(c, a)
  PROVE  HeldWhileHeld' /\ GrantStep(c, a)
<1>1. HeldWhileHeld'
  BY NoneAssumption DEF HeldWhileHeld, Take, TypeOK
<1>2. GrantStep(c, a)
  BY TakeProperties DEF GrantStep, Take, HeldWhileHeld
<1>3. QED BY <1>1, <1>2

(* Every step of a caller grants, returns, or leaves the leases alone. *)
LEMMA CallerStepKind ==
  ASSUME TypeOK, HeldWhileHeld, NEW c \in Callers, CallerStep(c)
  PROVE  /\ HeldWhileHeld'
         /\ \/ \E a \in Accounts : GrantStep(c, a)
            \/ ReturnStep(c)
            \/ QuietStep
<1>1. pool \in PoolType /\ pc \in [Callers -> PCs] /\ held \in [Callers -> Accounts \cup {None}]
  BY DEF TypeOK
<1>2. CASE Acquire(c)
  <2>1. PICK a \in May(c) : Take(c, a)
    BY <1>2 DEF Acquire
  <2>2. pc[c] # "held"
    BY <1>2 DEF Acquire
  <2>3. QED BY <2>1, <2>2, MayProperties, TakeIsGrant
<1>3. CASE AcquireNow(c)
  <2>1. PICK a \in Accounts : CanAcquireID(pool, a) /\ Take(c, a)
    BY <1>3, AcquireNowProperties
  <2>2. pc[c] # "held"
    BY <1>3 DEF AcquireNow
  <2>3. QED BY <2>1, <2>2, TakeIsGrant
<1>4. CASE Release(c)
  <2>1. held[c] \in Accounts
    BY <1>1, <1>4 DEF Release, HeldWhileHeld
  <2>2. ReturnStep(c)
    BY <1>1, <1>4, <2>1, NoneAssumption, ReleasedProperties DEF Release, ReturnStep
  <2>3. HeldWhileHeld'
    BY <1>1, <1>4 DEF Release, HeldWhileHeld
  <2>4. QED BY <2>2, <2>3
<1>5. CASE Arrive(c) \/ Cancel(c) \/ GiveUpAtTop(c) \/ Refuse(c)
  BY <1>1, <1>5 DEF Arrive, Cancel, GiveUpAtTop, Refuse, Leave, QuietStep, HeldWhileHeld
<1>6. CASE Park(c)
  BY <1>1, <1>6, WaitingProperties DEF Park, QuietStep, HeldWhileHeld
<1>7. CASE Wake(c)
  <2>1. pool'.inUse = pool.inUse
    BY <1>1, <1>7 DEF Wake, PoolType
  <2>2. QED BY <1>1, <1>7, <2>1 DEF Wake, QuietStep, HeldWhileHeld
<1>8. CASE AbandonWait(c)
  <2>1. Unlinked(pool, c) \in PoolType /\ Unlinked(pool, c).inUse = pool.inUse
    BY <1>1, WaitingProperties
  <2>2. pool'.inUse = pool.inUse
    BY <1>8, <2>1 DEF AbandonWait, PoolType
  <2>3. QED BY <1>1, <1>8, <2>2 DEF AbandonWait, Leave, QuietStep, HeldWhileHeld
<1>9. QED BY <1>2, <1>3, <1>4, <1>5, <1>6, <1>7, <1>8 DEF CallerStep

(* An admin step leaves the leases alone; only Reset touches the counters. *)
LEMMA AdminStepKind ==
  ASSUME TypeOK, HeldWhileHeld, NEW m \in Admins, SettingsStep(m) \/ AccountsStep(m)
  PROVE  /\ HeldWhileHeld'
         /\ SettingsStep(m) => QuietStep
         /\ QuietStep \/ ForgetStep
<1>1. pool \in PoolType /\ admin[m] \in AdminType
  BY DEF TypeOK
<1>2. /\ admin[m].ids \in Seq(Accounts)
      /\ admin[m].maxPer \in Nat
      /\ admin[m].maxQueue \in Nat
      /\ admin[m].global \in Nat
  BY <1>1 DEF AdminType
<1>3. UNCHANGED callerVars
  BY DEF SettingsStep, AccountsStep, EditSettings, LimitsRead, LimitsLocked,
         EditAccounts, ResetRead, ResetLocked
<1>4. HeldWhileHeld' /\ held' = held
  BY <1>3 DEF callerVars, HeldWhileHeld
<1>5. CASE EditSettings(m) \/ LimitsRead(m) \/ EditAccounts(m)
  BY <1>4, <1>5 DEF EditSettings, LimitsRead, EditAccounts, QuietStep
<1>6. CASE LimitsLocked(m)
  <2>1. pool' = WithLimits(pool, admin[m].maxPer, admin[m].maxQueue, admin[m].global)
    BY <1>6 DEF LimitsLocked
  <2>2. pool'.inUse = pool.inUse
    <3>1. \A x, y, z \in Nat : WithLimits(pool, x, y, z).inUse = pool.inUse
      BY <1>1, WithLimitsProperties
    <3>2. QED BY <1>2, <2>1, <3>1
  <2>3. QED BY <1>4, <2>2 DEF QuietStep
<1>7. CASE ResetRead(m)
  <2>1. pool'.inUse = pool.inUse
    <3>1. pool' = [pool EXCEPT !.maxPer = settings.maxPer]
      BY <1>7 DEF ResetRead
    <3>2. \A p \in PoolType : [p EXCEPT !.maxPer = settings.maxPer].inUse = p.inUse
      BY DEF PoolType
    <3>3. QED BY <1>1, <3>1, <3>2
  <2>2. ~SettingsStep(m) \/ QuietStep
    BY <1>4, <2>1 DEF QuietStep
  <2>3. QED BY <1>4, <2>1, <2>2 DEF QuietStep
<1>8. CASE ResetLocked(m)
  <2>1. pool'.inUse = [a \in Accounts |-> 0]
    BY <1>1, <1>2, <1>8, ResetToProperties DEF ResetLocked
  <2>2. ~SettingsStep(m)
    BY <1>8 DEF ResetLocked, SettingsStep, EditSettings, LimitsRead, LimitsLocked
  <2>3. QED BY <1>4, <2>1, <2>2 DEF ForgetStep
<1>9. QED BY <1>4, <1>5, <1>6, <1>7, <1>8 DEF SettingsStep, AccountsStep

----------------------------------------------------------------------------
(* No slot is lost *)

LeaseInv == TypeOK /\ HeldWhileHeld /\ CountsBackedByLeases

(***************************************************************************)
(* Whatever Resets run while requests are in flight, the pool never counts *)
(* a slot that no request will give back.                                  *)
(***************************************************************************)
THEOREM NoSlotLost == Spec => []CountsBackedByLeases
<1>1. Init => LeaseInv
  <2> SUFFICES ASSUME Init PROVE LeaseInv
    OBVIOUS
  <2>1. HeldWhileHeld
    BY DEF Init, HeldWhileHeld
  <2>2. \A a \in Accounts : pool.inUse[a] = 0
    BY DEF Init
  <2>3. \A a \in Accounts : Cardinality(Holders(a)) \in Nat
    BY HoldersFinite DEF Holders
  <2>4. QED BY <2>1, <2>2, <2>3, InitType DEF LeaseInv, CountsBackedByLeases
<1>2. LeaseInv /\ [Next]_vars => LeaseInv'
  <2> SUFFICES ASSUME LeaseInv, [Next]_vars PROVE LeaseInv'
    OBVIOUS
  <2>1. /\ TypeOK /\ HeldWhileHeld
        /\ \A a \in Accounts : pool.inUse[a] <= Cardinality(HoldersIn(held, a))
        /\ pool.inUse \in [Accounts -> Nat]
        /\ held \in [Callers -> Accounts \cup {None}]
    BY PoolFields DEF LeaseInv, CountsBackedByLeases, Holders, TypeOK
  <2>2. \A h : \A a \in Accounts : Cardinality(HoldersIn(h, a)) \in Nat
    BY HoldersFinite
  <2>3. SUFFICES ASSUME Next
                 PROVE  /\ TypeOK' /\ HeldWhileHeld'
                        /\ \A a \in Accounts :
                             pool'.inUse[a] <= Cardinality(HoldersIn(held', a))
    <3>1. CASE UNCHANGED vars
      BY <2>1, <3>1 DEF vars, LeaseInv, TypeOK, HeldWhileHeld, CountsBackedByLeases, Holders
    <3>2. CASE Next
      BY <2>3, <3>2 DEF LeaseInv, CountsBackedByLeases, Holders
    <3>3. QED BY <3>1, <3>2
  <2>4. TypeOK'
    BY <2>1, <2>3, CallerStepType, AdminStepType DEF Next, StableNext
  <2>5. /\ HeldWhileHeld'
        /\ \/ \E c \in Callers, a \in Accounts : GrantStep(c, a)
           \/ \E c \in Callers : ReturnStep(c)
           \/ QuietStep
           \/ ForgetStep
    BY <2>1, <2>3, CallerStepKind, AdminStepKind DEF Next, StableNext
  <2>6. ASSUME NEW c \in Callers, NEW a \in Accounts, GrantStep(c, a), NEW b \in Accounts
        PROVE  pool'.inUse[b] <= Cardinality(HoldersIn(held', b))
    <3>1. /\ held[c] = None
          /\ held'[c] = a /\ \A d \in Callers : d # c => held'[d] = held[d]
          /\ pool'.inUse = [pool.inUse EXCEPT ![a] = @ + 1]
      BY <2>1, <2>6 DEF GrantStep
    <3>2. Cardinality(HoldersIn(held', b)) =
            IF b = a THEN Cardinality(HoldersIn(held, b)) + 1
                     ELSE Cardinality(HoldersIn(held, b))
      BY <2>1, <3>1, HoldersGrow
    <3>3. pool'.inUse[b] = IF b = a THEN pool.inUse[b] + 1 ELSE pool.inUse[b]
      BY <2>1, <3>1
    <3>4. pool.inUse[b] \in Nat /\ pool.inUse[b] <= Cardinality(HoldersIn(held, b))
      BY <2>1
    <3>5. Cardinality(HoldersIn(held, b)) \in Nat
      BY <2>2
    <3>6. QED BY <3>2, <3>3, <3>4, <3>5
  <2>7. ASSUME NEW c \in Callers, ReturnStep(c), NEW b \in Accounts
        PROVE  pool'.inUse[b] <= Cardinality(HoldersIn(held', b))
    <3> DEFINE a == held[c]
    <3>1. /\ a \in Accounts
          /\ held[c] = a
          /\ held'[c] = None /\ \A d \in Callers : d # c => held'[d] = held[d]
          /\ pool'.inUse = IF pool.inUse[a] = 0 THEN pool.inUse
                           ELSE [pool.inUse EXCEPT ![a] = @ - 1]
      BY <2>1, <2>7 DEF ReturnStep
    <3>2. Cardinality(HoldersIn(held, b)) =
            IF b = a THEN Cardinality(HoldersIn(held', b)) + 1
                     ELSE Cardinality(HoldersIn(held', b))
      <4> HIDE DEF a
      <4>1. /\ Cardinality(HoldersIn(held, a)) = Cardinality(HoldersIn(held', a)) + 1
            /\ \A d \in Accounts : d # a =>
                 Cardinality(HoldersIn(held, d)) = Cardinality(HoldersIn(held', d))
        BY <2>1, <3>1, HoldersShrink
      <4>2. QED BY <4>1
    <3>3. Cardinality(HoldersIn(held, b)) \in Nat /\ Cardinality(HoldersIn(held', b)) \in Nat
      BY <2>2
    <3>4. pool'.inUse[b] = IF b = a /\ pool.inUse[a] # 0 THEN pool.inUse[b] - 1
                                                        ELSE pool.inUse[b]
      BY <2>1, <3>1
    <3>5. pool.inUse[b] \in Nat /\ pool.inUse[b] <= Cardinality(HoldersIn(held, b))
      BY <2>1
    <3> HIDE DEF a
    <3>6. QED BY <3>2, <3>3, <3>4, <3>5
  <2>8. ASSUME QuietStep, NEW b \in Accounts
        PROVE  pool'.inUse[b] <= Cardinality(HoldersIn(held', b))
    BY <2>1, <2>8 DEF QuietStep
  <2>9. ASSUME ForgetStep, NEW b \in Accounts
        PROVE  pool'.inUse[b] <= Cardinality(HoldersIn(held', b))
    BY <2>2, <2>9 DEF ForgetStep
  <2>10. QED BY <2>4, <2>5, <2>6, <2>7, <2>8, <2>9
<1>3. LeaseInv => CountsBackedByLeases
  BY DEF LeaseInv
<1>4. QED BY <1>1, <1>2, <1>3, PTL DEF Spec

----------------------------------------------------------------------------
(* Exact counters while the account list is stable *)

(***************************************************************************)
(* The counters equal the leases.  The total is a sum over a map in the    *)
(* code; here it is the cardinality of the occupied slots, which every     *)
(* grant and return moves together with the set of leases.                 *)
(***************************************************************************)
ExactInv ==
  /\ TypeOK
  /\ HeldWhileHeld
  /\ IsFiniteSet(Slots(pool.inUse))
  /\ InUseExact

(* The facts about a state satisfying ExactInv that its steps need. *)
LEMMA ExactInvFacts ==
  ASSUME ExactInv
  PROVE  /\ pool.inUse \in [Accounts -> Nat]
         /\ held \in [Callers -> Accounts \cup {None}]
         /\ \A a \in Accounts : pool.inUse[a] = Cardinality(HoldersIn(held, a))
         /\ Cardinality(Slots(pool.inUse)) = Cardinality(LeasesIn(held))
  BY PoolFields DEF ExactInv, TypeOK, InUseExact, Holders, Leases, CurrentInUse

(* The pool starts with nobody holding or waiting *)
LEMMA ExactInit == Init => ExactInv
<1> SUFFICES ASSUME Init PROVE ExactInv
  OBVIOUS
<1>1. TypeOK /\ HeldWhileHeld
  BY InitType DEF Init, HeldWhileHeld
<1>2. pool.inUse \in [Accounts -> Nat] /\ \A a \in Accounts : pool.inUse[a] = 0
  BY DEF Init
<1>3. IsFiniteSet(Slots(pool.inUse)) /\ Cardinality(Slots(pool.inUse)) = 0
  BY <1>2, SlotsEmpty
<1>4. LeasesIn(held) = {} /\ \A a \in Accounts : HoldersIn(held, a) = {}
  BY NoneAssumption DEF Init, LeasesIn, HoldersIn
<1>5. Cardinality(LeasesIn(held)) = 0 /\ \A a \in Accounts : Cardinality(HoldersIn(held, a)) = 0
  BY <1>4, FS_EmptySet
<1>6. QED BY <1>1, <1>2, <1>3, <1>5 DEF ExactInv, InUseExact, Holders, Leases, CurrentInUse

(* A stable step keeps the counters exact and is one of three kinds. *)
LEMMA ExactStep ==
  ASSUME ExactInv, StableNext
  PROVE  /\ ExactInv'
         /\ \/ \E c \in Callers, a \in Accounts : GrantStep(c, a)
            \/ \E c \in Callers : ReturnStep(c)
            \/ QuietStep
<1>1. /\ TypeOK /\ HeldWhileHeld /\ IsFiniteSet(Slots(pool.inUse))
      /\ pool.inUse \in [Accounts -> Nat]
      /\ held \in [Callers -> Accounts \cup {None}]
      /\ \A a \in Accounts : pool.inUse[a] = Cardinality(HoldersIn(held, a))
      /\ Cardinality(Slots(pool.inUse)) = Cardinality(LeasesIn(held))
  BY ExactInvFacts DEF ExactInv
<1>2. TypeOK'
  BY <1>1, CallerStepType, AdminStepType DEF StableNext
<1>3. /\ HeldWhileHeld'
      /\ \/ \E c \in Callers, a \in Accounts : GrantStep(c, a)
         \/ \E c \in Callers : ReturnStep(c)
         \/ QuietStep
  BY <1>1, CallerStepKind, AdminStepKind DEF StableNext
<1>4. SUFFICES /\ IsFiniteSet(Slots(pool'.inUse))
               /\ \A a \in Accounts : pool'.inUse[a] = Cardinality(HoldersIn(held', a))
               /\ Cardinality(Slots(pool'.inUse)) = Cardinality(LeasesIn(held'))
  BY <1>2, <1>3 DEF ExactInv, InUseExact, Holders, Leases, CurrentInUse
<1>5. CASE \E c \in Callers, a \in Accounts : GrantStep(c, a)
  <2>1. PICK c \in Callers, a \in Accounts : GrantStep(c, a)
    BY <1>5
  <2>2. /\ IsFiniteSet(Slots(pool'.inUse))
        /\ Cardinality(Slots(pool'.inUse)) = Cardinality(Slots(pool.inUse)) + 1
    BY <1>1, <2>1, SlotsGrow DEF GrantStep
  <2>3. /\ \A b \in Accounts : Cardinality(HoldersIn(held', b)) =
               IF b = a THEN Cardinality(HoldersIn(held, b)) + 1
                        ELSE Cardinality(HoldersIn(held, b))
        /\ Cardinality(LeasesIn(held')) = Cardinality(LeasesIn(held)) + 1
    <3>1. /\ held[c] = None /\ held'[c] = a
          /\ \A d \in Callers : d # c => held'[d] = held[d]
      BY <1>1, <2>1 DEF GrantStep
    <3>2. /\ Cardinality(HoldersIn(held', a)) = Cardinality(HoldersIn(held, a)) + 1
          /\ \A d \in Accounts : d # a =>
               Cardinality(HoldersIn(held', d)) = Cardinality(HoldersIn(held, d))
          /\ Cardinality(LeasesIn(held')) = Cardinality(LeasesIn(held)) + 1
      BY <1>1, <3>1, HoldersGrow
    <3>3. QED BY <3>2
  <2>4. \A b \in Accounts : pool'.inUse[b] =
          IF b = a THEN pool.inUse[b] + 1 ELSE pool.inUse[b]
    BY <1>1, <2>1 DEF GrantStep
  <2>5. QED BY <1>1, <2>2, <2>3, <2>4
<1>6. CASE \E c \in Callers : ReturnStep(c)
  <2>1. PICK c \in Callers : ReturnStep(c)
    BY <1>6
  <2>2. PICK a \in Accounts : a = held[c]
    BY <2>1 DEF ReturnStep
  <2>3. /\ \A b \in Accounts : Cardinality(HoldersIn(held, b)) =
               IF b = a THEN Cardinality(HoldersIn(held', b)) + 1
                        ELSE Cardinality(HoldersIn(held', b))
        /\ Cardinality(LeasesIn(held)) = Cardinality(LeasesIn(held')) + 1
    <3>1. /\ held[c] = a /\ held'[c] = None
          /\ \A d \in Callers : d # c => held'[d] = held[d]
      BY <1>1, <2>1, <2>2 DEF ReturnStep
    <3>2. /\ Cardinality(HoldersIn(held, a)) = Cardinality(HoldersIn(held', a)) + 1
          /\ \A d \in Accounts : d # a =>
               Cardinality(HoldersIn(held, d)) = Cardinality(HoldersIn(held', d))
          /\ Cardinality(LeasesIn(held)) = Cardinality(LeasesIn(held')) + 1
      BY <1>1, <3>1, HoldersShrink
    <3>3. QED BY <3>2
  <2>4. /\ \A b \in Accounts : Cardinality(HoldersIn(held', b)) \in Nat
        /\ Cardinality(LeasesIn(held')) \in Nat
    BY HoldersFinite
  <2>5. pool.inUse[a] # 0
    BY <1>1, <2>3, <2>4
  <2>6. pool'.inUse = [pool.inUse EXCEPT ![a] = @ - 1]
    BY <2>1, <2>2, <2>5 DEF ReturnStep
  <2>7. /\ IsFiniteSet(Slots(pool'.inUse))
        /\ Cardinality(Slots(pool'.inUse)) = Cardinality(Slots(pool.inUse)) - 1
    BY <1>1, <2>5, <2>6, SlotsShrink
  <2>8. \A b \in Accounts : pool'.inUse[b] =
          IF b = a THEN pool.inUse[b] - 1 ELSE pool.inUse[b]
    BY <1>1, <2>6
  <2>9. QED BY <1>1, <2>3, <2>4, <2>7, <2>8
<1>7. CASE QuietStep
  BY <1>1, <1>7 DEF QuietStep
<1>8. QED BY <1>3, <1>5, <1>6, <1>7

(* No step keeps the counts *)
LEMMA ExactStutter ==
  ASSUME ExactInv, UNCHANGED vars
  PROVE  ExactInv'
  BY DEF vars, ExactInv, TypeOK, HeldWhileHeld, InUseExact, Holders, Leases, CurrentInUse

(* Without account edits the in_use figures are exactly the leases alive. *)
THEOREM CountersExact == StableSpec => []InUseExact
<1>1. ExactInv /\ [StableNext]_vars => ExactInv'
  BY ExactStep, ExactStutter
<1>2. ExactInv => InUseExact
  BY DEF ExactInv
<1>3. QED BY ExactInit, <1>1, <1>2, PTL DEF StableSpec

----------------------------------------------------------------------------
(* The pool implements SlotAllocator *)

(***************************************************************************)
(* As long as no account list is installed while requests are served, no   *)
(* request gets an account beyond the per-account or the global limit and  *)
(* no lease ends but by its holder.                                        *)
(***************************************************************************)
THEOREM PoolImplementsSlots == StableSpec => ImplementsSlotAllocator
<1>1. Init => Abstract!Init
  <2> SUFFICES ASSUME Init PROVE Abstract!Init
    OBVIOUS
  <2>1. pool.maxPer \in Nat /\ pool.global \in Nat
    BY InitType, PoolFields DEF TypeOK
  <2>2. QED BY <2>1 DEF Init, Abstract!Init
<1>2. ExactInv /\ [StableNext]_vars => [Abstract!Next]_Abstract!vars
  <2> SUFFICES ASSUME ExactInv, [StableNext]_vars PROVE [Abstract!Next]_Abstract!vars
    OBVIOUS
  <2>1. CASE UNCHANGED vars
    BY <2>1 DEF vars, Abstract!vars
  <2>2. ASSUME NEW c \in Callers, NEW a \in Accounts, GrantStep(c, a)
        PROVE  Abstract!Grant(c, a)
    <3>1. /\ pool.inUse[a] = Cardinality(HoldersIn(held, a))
          /\ Cardinality(Slots(pool.inUse)) = Cardinality(LeasesIn(held))
      BY ExactInvFacts
    <3>2. CanAcquireID(pool, a)
      BY <2>2 DEF GrantStep
    <3>3. /\ Cardinality(HoldersIn(held, a)) < pool.maxPer
          /\ pool.global > 0 => Cardinality(LeasesIn(held)) < pool.global
      BY <3>1, <3>2 DEF CanAcquireID, CurrentInUse
    <3>4. HoldersIn(held, a) = Abstract!Holders(a) /\ LeasesIn(held) = Abstract!Leases
      BY DEF Abstract!Holders, Abstract!Leases, HoldersIn, LeasesIn
    <3>5. QED BY <2>2, <3>3, <3>4 DEF GrantStep, Abstract!Grant, Cardinality, Abstract!Cardinality
  <2>3. ASSUME NEW c \in Callers, ReturnStep(c)
        PROVE  Abstract!Return(c)
    BY <2>3, NoneAssumption DEF ReturnStep, Abstract!Return
  <2>4. CASE StableNext /\ QuietStep
    <3>1. TypeOK'
      BY <2>4, ExactStep DEF ExactInv
    <3>2. pool'.maxPer \in Nat /\ pool'.global \in Nat
      BY <3>1, PoolFields DEF TypeOK
    <3>3. QED BY <2>4, <3>2 DEF QuietStep, Abstract!SetLimits, Abstract!Next
  <2>5. CASE StableNext
    BY <2>2, <2>3, <2>4, <2>5, ExactStep DEF Abstract!Next
  <2>6. QED BY <2>1, <2>5
<1>3. ExactInv /\ [StableNext]_vars => ExactInv'
  BY ExactStep, ExactStutter
<1>4. QED
  BY ExactInit, <1>1, <1>2, <1>3, PTL DEF StableSpec, ImplementsSlotAllocator, Abstract!Spec

----------------------------------------------------------------------------
(* The wait list *)

(* Waking some of the waiters keeps the list exact. *)
LEMMA WakesKeepWaiters ==
  ASSUME WaitersExact, Wakes(pool, pool'),
         \A c \in Callers : pc'[c] = "parked" <=> pc[c] = "parked",
         pool'.closed \subseteq Callers
  PROVE  WaitersExact'
<1>1. /\ IsInjective(pool.waiters)
      /\ ToSet(pool.waiters) = {c \in Callers : pc[c] = "parked" /\ c \notin pool.closed}
      /\ \A c \in pool.closed : pc[c] = "parked"
  BY DEF WaitersExact, Waiting
<1>2. PICK E \in SUBSET ToSet(pool.waiters) :
        /\ ToSet(pool'.waiters) = ToSet(pool.waiters) \ E
        /\ pool'.closed = pool.closed \cup E
  BY <1>1 DEF Wakes
<1>3. IsInjective(pool'.waiters)
  BY <1>1 DEF Wakes
<1>4. ToSet(pool'.waiters) = {c \in Callers : pc'[c] = "parked" /\ c \notin pool'.closed}
  BY <1>1, <1>2
<1>5. \A c \in pool'.closed : pc'[c] = "parked"
  BY <1>1, <1>2
<1>6. QED BY <1>3, <1>4, <1>5 DEF WaitersExact, Waiting

(* Every step of a caller keeps the list exact. *)
LEMMA CallerStepWaiters ==
  ASSUME TypeOK, WaitersExact, NEW c \in Callers, CallerStep(c)
  PROVE  WaitersExact'
<1>1. /\ pool \in PoolType /\ pc \in [Callers -> PCs] /\ held \in [Callers -> Accounts \cup {None}]
      /\ pool.closed \subseteq Callers
  BY PoolFields DEF TypeOK
<1>2. /\ IsInjective(pool.waiters)
      /\ ToSet(pool.waiters) = {d \in Callers : pc[d] = "parked" /\ d \notin pool.closed}
      /\ \A d \in pool.closed : pc[d] = "parked"
  BY DEF WaitersExact, Waiting
<1>3. pool'.closed \subseteq Callers
  BY CallerStepType, PoolFields DEF TypeOK
<1>4. CASE Arrive(c) \/ Cancel(c) \/ GiveUpAtTop(c) \/ Refuse(c)
  <2>1. pool' = pool /\ \A d \in Callers : pc'[d] = "parked" <=> pc[d] = "parked"
    BY <1>1, <1>4 DEF Arrive, Cancel, GiveUpAtTop, Refuse, Leave
  <2>2. QED BY <1>3, <2>1, WakesNobody, WakesKeepWaiters
<1>5. CASE Acquire(c) \/ AcquireNow(c)
  <2>1. \E a \in Accounts : Take(c, a)
    <3>1. CASE Acquire(c)
      BY <3>1, MayProperties DEF Acquire
    <3>2. CASE AcquireNow(c)
      BY <3>2, AcquireNowProperties
    <3>3. QED BY <1>5, <3>1, <3>2
  <2>2. PICK a \in Accounts : Take(c, a)
    BY <2>1
  <2>3. pc[c] # "parked"
    BY <1>5 DEF Acquire, AcquireNow
  <2>4. Wakes(pool, pool') /\ \A d \in Callers : pc'[d] = "parked" <=> pc[d] = "parked"
    BY <1>1, <2>2, <2>3, GrantedWakes DEF Take
  <2>5. QED BY <1>3, <2>4, WakesKeepWaiters
<1>6. CASE Release(c)
  <2>1. \A d \in Callers : pc'[d] = "parked" <=> pc[d] = "parked"
    BY <1>1, <1>6 DEF Release
  <2>2. Wakes(pool, pool')
    <3>1. CASE held[c] = None
      BY <1>6, <3>1, WakesNobody DEF Release, Released
    <3>2. CASE held[c] # None
      BY <1>1, <1>6, <3>2, ReleasedWakes DEF Release
    <3>3. QED BY <3>1, <3>2
  <2>3. QED BY <1>3, <2>1, <2>2, WakesKeepWaiters
<1>7. CASE Park(c)
  <2>1. c \notin ToSet(pool.waiters) /\ c \notin pool.closed
    BY <1>2, <1>7 DEF Park
  <2>2. /\ IsInjective(pool'.waiters)
        /\ ToSet(pool'.waiters) = ToSet(pool.waiters) \cup {c}
        /\ pool'.closed = pool.closed
    BY <1>1, <1>2, <1>7, <2>1, EnqueuedElements DEF Park
  <2>3. pc' = [pc EXCEPT ![c] = "parked"]
    BY <1>7 DEF Park
  <2>4. ToSet(pool'.waiters) = {d \in Callers : pc'[d] = "parked" /\ d \notin pool'.closed}
    BY <1>1, <1>2, <2>1, <2>2, <2>3
  <2>5. \A d \in pool'.closed : pc'[d] = "parked"
    BY <1>1, <1>2, <2>2, <2>3
  <2>6. QED BY <2>2, <2>4, <2>5 DEF WaitersExact, Waiting
<1>8. CASE Wake(c)
  <2>1. /\ c \in pool.closed
        /\ pool' = [pool EXCEPT !.closed = @ \ {c}]
        /\ pc' = [pc EXCEPT ![c] = "loop"]
    BY <1>8 DEF Wake
  <2>2. pool'.waiters = pool.waiters /\ pool'.closed = pool.closed \ {c}
    BY <1>1, <2>1 DEF PoolType
  <2>3. ToSet(pool'.waiters) = {d \in Callers : pc'[d] = "parked" /\ d \notin pool'.closed}
    BY <1>1, <1>2, <2>1, <2>2
  <2>4. \A d \in pool'.closed : pc'[d] = "parked"
    BY <1>1, <1>2, <2>1, <2>2
  <2>5. QED BY <1>2, <2>2, <2>3, <2>4 DEF WaitersExact, Waiting
<1>9. CASE AbandonWait(c)
  <2>1. /\ pool' = [Unlinked(pool, c) EXCEPT !.closed = @ \ {c}]
        /\ pc' = [pc EXCEPT ![c] = "idle"]
    BY <1>9 DEF AbandonWait, Leave
  <2>2. /\ IsInjective(pool'.waiters)
        /\ ToSet(pool'.waiters) = ToSet(pool.waiters) \ {c}
        /\ pool'.closed = pool.closed \ {c}
    BY <1>1, <1>2, <2>1, UnlinkedElements
  <2>3. ToSet(pool'.waiters) = {d \in Callers : pc'[d] = "parked" /\ d \notin pool'.closed}
    BY <1>1, <1>2, <2>1, <2>2
  <2>4. \A d \in pool'.closed : pc'[d] = "parked"
    BY <1>1, <1>2, <2>1, <2>2
  <2>5. QED BY <2>2, <2>3, <2>4 DEF WaitersExact, Waiting
<1>10. QED BY <1>4, <1>5, <1>6, <1>7, <1>8, <1>9 DEF CallerStep

(* Every step of an admin handler wakes some waiters or none. *)
LEMMA AdminStepWaiters ==
  ASSUME TypeOK, WaitersExact, NEW m \in Admins, SettingsStep(m) \/ AccountsStep(m)
  PROVE  WaitersExact'
<1>1. pool \in PoolType /\ admin[m] \in AdminType
  BY DEF TypeOK
<1>2. /\ admin[m].ids \in Seq(Accounts)
      /\ admin[m].maxPer \in Nat
      /\ admin[m].maxQueue \in Nat
      /\ admin[m].global \in Nat
  BY <1>1 DEF AdminType
<1>3. pc' = pc
  BY DEF SettingsStep, AccountsStep, EditSettings, LimitsRead, LimitsLocked,
         EditAccounts, ResetRead, ResetLocked, callerVars
<1>4. Wakes(pool, pool')
  <2>1. CASE EditSettings(m) \/ LimitsRead(m) \/ EditAccounts(m)
    BY <2>1, WakesNobody DEF EditSettings, LimitsRead, EditAccounts
  <2>2. CASE LimitsLocked(m)
    BY <1>1, <1>2, <2>2, WithLimitsWakes DEF LimitsLocked
  <2>3. CASE ResetRead(m)
    <3>1. pool'.waiters = pool.waiters /\ pool'.closed = pool.closed
      BY <1>1, <2>3 DEF ResetRead, PoolType
    <3>2. QED BY <3>1, WakesNobody
  <2>4. CASE ResetLocked(m)
    BY <1>1, <1>2, <2>4, ResetToWakes DEF ResetLocked
  <2>5. QED BY <2>1, <2>2, <2>3, <2>4 DEF SettingsStep, AccountsStep
<1>5. pool'.closed \subseteq Callers
  BY AdminStepType, PoolFields DEF TypeOK
<1>6. QED BY <1>3, <1>4, <1>5, WakesKeepWaiters

(***************************************************************************)
(* Whatever is released, reset, abandoned or reconfigured in whatever      *)
(* order, the wait list holds exactly the callers that still wait, once    *)
(* each: no wake-up goes to a caller that has left.                        *)
(***************************************************************************)
THEOREM NoWakeUpLost == Spec => []WaitersExact
<1>1. Init => WaitersExact
  <2> SUFFICES ASSUME Init PROVE WaitersExact
    OBVIOUS
  <2>1. pool.waiters = <<>> /\ pool.closed = {} /\ \A c \in Callers : pc[c] = "idle"
    BY DEF Init
  <2>2. IsInjective(<<>>) /\ ToSet(<<>>) = {}
    BY DEF IsInjective, ToSet
  <2>3. QED BY <2>1, <2>2 DEF WaitersExact, Waiting
<1>2. TypeOK /\ WaitersExact /\ [Next]_vars => WaitersExact'
  <2> SUFFICES ASSUME TypeOK, WaitersExact, [Next]_vars PROVE WaitersExact'
    OBVIOUS
  <2>1. CASE UNCHANGED vars
    BY <2>1 DEF vars, WaitersExact, Waiting
  <2>2. CASE Next
    BY <2>2, CallerStepWaiters, AdminStepWaiters DEF Next, StableNext
  <2>3. QED BY <2>1, <2>2
<1>3. QED BY <1>1, <1>2, TypeCorrect, PTL DEF Spec

----------------------------------------------------------------------------
(* The rotation queue *)

(* Sorting the accounts by who holds a token neither loses nor doubles one. *)
LEMMA TokenHoldersFirstElements ==
  ASSUME NEW s \in Seq(Accounts), IsInjective(s), NEW T, NEW ids \in TokenHoldersFirst(s, T)
  PROVE  IsInjective(ids) /\ ToSet(ids) = ToSet(s)
<1>1. /\ ids \in [1 .. Len(s) -> ToSet(s)] /\ ToSet(ids) = ToSet(s)
      /\ \A a \in ToSet(s) :
           Before(ids, a, a) <=> \/ a \in T /\ a \notin T
                                 \/ (a \in T <=> a \in T) /\ Before(s, a, a)
  BY DEF TokenHoldersFirst
<1>2. \A a : ~Before(s, a, a)
  <2>1. \A i, j \in DOMAIN s : s[i] = s[j] => i = j
    BY DEF IsInjective
  <2>2. DOMAIN s \subseteq Nat
    OBVIOUS
  <2>3. QED BY <2>1, <2>2 DEF Before
<1>3. \A a \in ToSet(s) : ~Before(ids, a, a)
  BY <1>1, <1>2
<1>4. ASSUME NEW i \in DOMAIN ids, NEW j \in DOMAIN ids, ids[i] = ids[j]
      PROVE  i = j
  <2>1. i \in Nat /\ j \in Nat /\ ids[i] \in ToSet(s)
    BY <1>1
  <2>2. ~(i < j) /\ ~(j < i)
    BY <1>3, <1>4, <2>1 DEF Before
  <2>3. QED BY <2>1, <2>2
<1>5. QED BY <1>1, <1>4 DEF IsInjective

(***************************************************************************)
(* What the queue and the admin handlers carry: nothing occurs twice; with *)
(* one handler at a time, what it is about to install is what is           *)
(* configured.                                                             *)
(***************************************************************************)
QueueInv ==
  /\ IsInjective(store)
  /\ QueueMatchesStore
  /\ \A m \in Admins :
       admin[m].pc = "resetLocked" => IsInjective(admin[m].ids) /\ ToSet(admin[m].ids) = Known

(* Callers only rotate the queue. *)
LEMMA CallerStepQueue ==
  ASSUME TypeOK, QueueInv, NEW c \in Callers, CallerStep(c)
  PROVE  QueueInv'
<1>1. pool \in PoolType /\ held \in [Callers -> Accounts \cup {None}]
  BY DEF TypeOK
<1>2. store' = store /\ admin' = admin
  BY DEF CallerStep, Arrive, Cancel, GiveUpAtTop, Acquire, AcquireNow, Refuse, Park, Wake,
         AbandonWait, Release, Take, Leave
<1>3. IsInjective(pool.queue)
  BY DEF QueueInv, QueueMatchesStore
<1>4. IsInjective(pool'.queue) /\ ToSet(pool'.queue) = ToSet(pool.queue)
  <2>1. CASE Arrive(c) \/ Cancel(c) \/ GiveUpAtTop(c) \/ Refuse(c)
    BY <1>3, <2>1 DEF Arrive, Cancel, GiveUpAtTop, Refuse
  <2>2. CASE Acquire(c) \/ AcquireNow(c)
    <3>1. \E a \in Accounts : Take(c, a)
      <4>1. CASE Acquire(c)
        BY <4>1, MayProperties DEF Acquire
      <4>2. CASE AcquireNow(c)
        BY <4>2, AcquireNowProperties
      <4>3. QED BY <2>2, <4>1, <4>2
    <3>2. QED BY <1>1, <1>3, <3>1, GrantedWakes DEF Take
  <2>3. CASE Release(c)
    <3>1. CASE held[c] = None
      BY <1>3, <2>3, <3>1 DEF Release, Released
    <3>2. CASE held[c] # None
      BY <1>1, <1>3, <2>3, <3>2, ReleasedWakes DEF Release
    <3>3. QED BY <3>1, <3>2
  <2>4. CASE Park(c) \/ Wake(c) \/ AbandonWait(c)
    <3>1. pool'.queue = pool.queue
      BY <1>1, <2>4 DEF Park, Wake, AbandonWait, Enqueued, Unlinked, PoolType
    <3>2. QED BY <1>3, <3>1
  <2>5. QED BY <2>1, <2>2, <2>3, <2>4 DEF CallerStep
<1>5. QED BY <1>2, <1>4 DEF QueueInv, QueueMatchesStore, Known

(* One admin handler at a time keeps the queue in step with the store. *)
LEMMA AdminStepQueue ==
  ASSUME \A m, n \in Admins : m = n,
         TypeOK, QueueInv, NEW m \in Admins, SettingsStep(m) \/ AccountsStep(m)
  PROVE  QueueInv'
<1>1. /\ pool \in PoolType /\ admin[m] \in AdminType /\ admin \in [Admins -> AdminType]
      /\ store \in Seq(Accounts)
  BY DEF TypeOK
<1>2. /\ admin[m].ids \in Seq(Accounts)
      /\ admin[m].maxPer \in Nat
      /\ admin[m].maxQueue \in Nat
      /\ admin[m].global \in Nat
      /\ Idle.pc = "idle"
  BY <1>1 DEF AdminType, Idle
<1>3. /\ IsInjective(store) /\ IsInjective(pool.queue)
      /\ (\A n \in Admins : admin[n].pc \notin {"reset", "resetLocked"})
           => ToSet(pool.queue) = Known
      /\ \A n \in Admins : n = m
      /\ admin[m].pc = "resetLocked" => IsInjective(admin[m].ids) /\ ToSet(admin[m].ids) = Known
  BY DEF QueueInv, QueueMatchesStore
<1>4. SUFFICES /\ IsInjective(store') /\ IsInjective(pool'.queue)
               /\ admin'[m].pc \notin {"reset", "resetLocked"} => ToSet(pool'.queue) = ToSet(store')
               /\ admin'[m].pc = "resetLocked" =>
                    IsInjective(admin'[m].ids) /\ ToSet(admin'[m].ids) = ToSet(store')
  BY <1>3 DEF QueueInv, QueueMatchesStore, Known
<1>5. CASE EditSettings(m)
  <2>1. admin'[m].pc = "limits" /\ admin[m].pc = "idle"
    BY <1>1, <1>5 DEF EditSettings, AdminType
  <2>2. QED BY <1>3, <1>5, <2>1 DEF EditSettings, Known
<1>6. CASE LimitsRead(m)
  <2>1. admin'[m].pc = "limitsLocked" /\ admin[m].pc = "limits"
    BY <1>1, <1>6 DEF LimitsRead
  <2>2. QED BY <1>3, <1>6, <2>1 DEF LimitsRead, Known
<1>7. CASE LimitsLocked(m)
  <2>1. admin'[m].pc = "idle" /\ admin[m].pc = "limitsLocked" /\ store' = store
    BY <1>1, <1>2, <1>7 DEF LimitsLocked
  <2>2. pool'.queue = pool.queue
    <3>1. pool' = WithLimits(pool, admin[m].maxPer, admin[m].maxQueue, admin[m].global)
      BY <1>7 DEF LimitsLocked
    <3>2. QED BY <1>1, <1>2, <3>1, WithLimitsWakes
  <2>3. QED BY <1>3, <2>1, <2>2 DEF Known
<1>8. CASE EditAccounts(m)
  <2>1. admin'[m].pc = "reset" /\ pool' = pool
    BY <1>1, <1>8 DEF EditAccounts, AdminType
  <2>2. IsInjective(store')
    BY <1>8, StoreAssumption DEF EditAccounts
  <2>3. QED BY <1>3, <2>1, <2>2
<1>9. CASE ResetRead(m)
  <2>1. PICK T \in SUBSET Known : \E ids \in TokenHoldersFirst(store, T) :
          admin'[m].pc = "resetLocked" /\ admin'[m].ids = ids
    BY <1>1, <1>9 DEF ResetRead
  <2>2. IsInjective(admin'[m].ids) /\ ToSet(admin'[m].ids) = ToSet(store)
    BY <1>1, <1>3, <2>1, TokenHoldersFirstElements
  <2>3. pool'.queue = pool.queue /\ store' = store
    BY <1>1, <1>9 DEF ResetRead, PoolType
  <2>4. QED BY <1>3, <2>1, <2>2, <2>3
<1>10. CASE ResetLocked(m)
  <2>1. admin'[m].pc = "idle" /\ admin[m].pc = "resetLocked" /\ store' = store
    BY <1>1, <1>2, <1>10 DEF ResetLocked
  <2>2. pool'.queue = admin[m].ids
    BY <1>1, <1>2, <1>10, ResetToWakes DEF ResetLocked
  <2>3. QED BY <1>3, <2>1, <2>2 DEF Known
<1>11. QED BY <1>5, <1>6, <1>7, <1>8, <1>9, <1>10 DEF SettingsStep, AccountsStep

(***************************************************************************)
(* While admin edits come one at a time, the queue offers every configured *)
(* account exactly once as soon as the edit's Reset is through, however    *)
(* requests rotate it meanwhile.  Two edits at once may install the older  *)
(* list last.                                                              *)
(***************************************************************************)
THEOREM QueueFollowsStore ==
  ASSUME \A m, n \in Admins : m = n
  PROVE  Spec => []QueueMatchesStore
<1>1. Init => QueueInv
  BY StoreAssumption DEF Init, QueueInv, QueueMatchesStore, Known, Idle
<1>2. TypeOK /\ QueueInv /\ [Next]_vars => QueueInv'
  <2> SUFFICES ASSUME TypeOK, QueueInv, [Next]_vars PROVE QueueInv'
    OBVIOUS
  <2>1. CASE UNCHANGED vars
    BY <2>1 DEF vars, QueueInv, QueueMatchesStore, Known
  <2>2. CASE Next
    BY <2>2, CallerStepQueue, AdminStepQueue DEF Next, StableNext
  <2>3. QED BY <2>1, <2>2
<1>3. QueueInv => QueueMatchesStore
  BY DEF QueueInv
<1>4. QED BY <1>1, <1>2, <1>3, TypeCorrect, PTL DEF Spec
============================================================================
