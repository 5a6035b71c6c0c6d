------------------------- MODULE RequestLeaseProofs -------------------------
(***************************************************************************)
(* What holds of RequestLease for every set of accounts and requests and   *)
(* every limit, whatever DeepSeek answers: the types, and that no path     *)
(* through the retry loops loses a slot.                                   *)
(***************************************************************************)
EXTENDS RequestLease, PoolOpsLemmas

(* Where a request works with the account it has been given *)
Using == {"login", "call", "complete", "release"}

(***************************************************************************)
(* The account a request believes to have, against the slot it has: it has *)
(* none while it looks for one, and a slot is always that of its account.  *)
(* Only after a switch that found nothing may the slot be missing.         *)
(***************************************************************************)
LeaseFollowsRequest ==
  \A c \in Callers :
    /\ r[c].pc \in {"acquire", "parked", "switch", "done"} => lease[c] = None
    /\ r[c].pc \in Using => /\ r[c].acct \in Accounts
                            /\ lease[c] \in {None, r[c].acct}
                            /\ ~orphaned => lease[c] = r[c].acct
    /\ r[c].pc = "switch" => r[c].acct \in Accounts

LeaseInv == TypeOK /\ LeaseFollowsRequest /\ NoSlotLost

----------------------------------------------------------------------------
(* The kinds of steps, by what they do to the counters and the leases *)

GrantStep(c, a) ==
  /\ lease[c] = None
  /\ lease' = [lease EXCEPT ![c] = a]
  /\ pool'.inUse = [pool.inUse EXCEPT ![a] = @ + 1]
  /\ orphaned' = orphaned

(* The slot of a is given back by a request that has it or, once a switch  *)
(* has come back empty-handed, has lost it.                                *)
ReturnStep(c, a) ==
  /\ lease[c] \in {None, a} /\ (~orphaned => lease[c] = a)
  /\ lease' = [lease EXCEPT ![c] = None]
  /\ pool'.inUse = IF pool.inUse[a] = 0 THEN pool.inUse
                   ELSE [pool.inUse EXCEPT ![a] = @ - 1]
  /\ orphaned' = orphaned

QuietStep ==
  /\ lease' = lease
  /\ pool'.inUse = pool.inUse
  /\ orphaned => orphaned'

StepKind(c) ==
  \/ \E a \in Accounts : GrantStep(c, a) \/ ReturnStep(c, a)
  \/ QuietStep

(* What a step of request c leaves: types, and the other requests alone. *)
Moved(c, q) == q \in RequestType /\ r' = [r EXCEPT ![c] = q]

----------------------------------------------------------------------------

(* The fields of a request. *)
LEMMA RequestFields ==
  ASSUME NEW q \in RequestType
  PROVE  /\ q.pc \in PCs
         /\ q.target \in Accounts \cup {None}
         /\ q.tried \in SUBSET Accounts
         /\ q.acct \in Accounts \cup {None}
         /\ q.attempts \in Nat
  BY DEF RequestType

(* Where a request starts and ends. *)
LEMMA ArrivingType ==
  ASSUME NEW t \in Accounts \cup {None}
  PROVE  /\ Arriving(t) \in RequestType /\ Arriving(t).pc = "acquire"
         /\ \A q : q.target = t => Gone(q) \in RequestType /\ Gone(q).pc = "done"
<1>1. Arriving(t) \in RequestType /\ Arriving(t).pc = "acquire"
  BY DEF Arriving, RequestType, PCs
<1>2. [Arriving(t) EXCEPT !.pc = "done"] \in RequestType
  BY <1>1 DEF RequestType, PCs
<1>3. [Arriving(t) EXCEPT !.pc = "done"].pc = "done"
  BY <1>1 DEF RequestType
<1>4. QED BY <1>1, <1>2, <1>3 DEF Gone

(* A loop goes on with the account the request has. *)
LEMMA ReadyProperties ==
  ASSUME NEW q \in RequestType
  PROVE  /\ Ready(q) \in RequestType
         /\ Ready(q).pc = "call"
         /\ Ready(q).acct = q.acct
<1> DEFINE next == [q EXCEPT !.pc = "call", !.why = "acquire"]
<1>1. next \in RequestType /\ next.pc = "call" /\ next.acct = q.acct
  BY DEF RequestType, PCs
<1>2. q.why \in {"acquire", "switch", "refresh"}
  BY DEF RequestType
<1>3. Ready(q) = CASE q.why = "acquire" -> next
                   [] q.why = "switch"  -> [next EXCEPT !.refreshed = FALSE,
                                                        !.attempts = @ + 1]
                   [] q.why = "refresh" -> [next EXCEPT !.refreshed = TRUE]
  BY DEF Ready
<1> HIDE DEF next
<1>4. CASE q.why = "acquire"
  BY <1>1, <1>3, <1>4
<1>5. CASE q.why = "switch"
  <2>1. Ready(q) = [next EXCEPT !.refreshed = FALSE, !.attempts = @ + 1]
    BY <1>3, <1>5
  <2> DEFINE n == next.attempts + 1
  <2>2. n \in Nat
    BY <1>1, RequestFields
  <2>3. Ready(q) = [next EXCEPT !.refreshed = FALSE, !.attempts = n]
    BY <2>1
  <2> HIDE DEF n
  <2>4. QED BY <1>1, <2>2, <2>3 DEF RequestType
<1>6. CASE q.why = "refresh"
  <2>1. Ready(q) = [next EXCEPT !.refreshed = TRUE]
    BY <1>3, <1>6
  <2>2. QED BY <1>1, <2>1 DEF RequestType
<1>7. QED BY <1>2, <1>4, <1>5, <1>6

(* An account that was granted is used at once or after a login. *)
LEMMA EnsureProperties ==
  ASSUME TypeOK, NEW c \in Callers, NEW a \in Accounts, NEW why \in {"acquire", "switch"},
         Ensure(c, a, why)
  PROVE  \E q : Moved(c, q) /\ q.pc \in Using /\ q.acct = a
<1> DEFINE q == [r[c] EXCEPT !.acct = a, !.why = why]
<1>1. r[c] \in RequestType
  BY DEF TypeOK
<1>2. q \in RequestType /\ q.acct = a
  BY <1>1 DEF RequestType
<1>3. [q EXCEPT !.pc = "login"] \in RequestType /\ [q EXCEPT !.pc = "login"].acct = a
      /\ [q EXCEPT !.pc = "login"].pc = "login"
  BY <1>1 DEF RequestType, PCs
<1>4. Set(c, Ready(q)) \/ Set(c, [q EXCEPT !.pc = "login"])
  BY DEF Ensure
<1> HIDE DEF q
<1>5. QED BY <1>2, <1>3, <1>4, ReadyProperties DEF Set, Moved, Using

(***************************************************************************)
(* A step that moves request c to q and grants it a, returns a, or leaves  *)
(* the slots alone.                                                        *)
(***************************************************************************)
Grants(c, q, a) ==
  GrantStep(c, a) /\ q.pc \in Using /\ q.acct = a

Returns(c, q, a) ==
  /\ ReturnStep(c, a)
  /\ q.pc \in {"acquire", "switch", "done"}
  /\ q.pc = "switch" => q.acct \in Accounts

Passes(c, q) ==
  /\ QuietStep
  /\ orphaned' \in BOOLEAN
  /\ \/ r[c].pc \in {"acquire", "parked"} /\ q.pc \in {"acquire", "parked", "done"}
     \/ r[c].pc \in Using /\ q.pc \in Using /\ q.acct = r[c].acct
     \/ r[c].pc = "switch" /\ q.pc = "call" /\ q.acct = r[c].acct /\ orphaned'

Stepped(c, q) ==
  /\ Moved(c, q)
  /\ pool' \in PoolType
  /\ \/ \E a \in Accounts : Grants(c, q, a) \/ Returns(c, q, a)
     \/ Passes(c, q)

(* Looking for an account: acquireManagedRequestAuth up to the grant. *)
LEMMA AcquireStep ==
  ASSUME LeaseInv, NEW c \in Callers,
         GiveUp(c) \/ Acquire(c) \/ Refuse(c) \/ Park(c) \/ Wake(c)
  PROVE  \E q : Stepped(c, q)
<1>1. /\ r[c] \in RequestType /\ pool \in PoolType /\ orphaned \in BOOLEAN
      /\ r[c].target \in Accounts \cup {None}
  BY RequestFields DEF LeaseInv, TypeOK
<1>2. r[c].pc = "acquire" => lease[c] = None
  BY DEF LeaseInv, LeaseFollowsRequest
<1>3. CASE GiveUp(c) \/ Refuse(c)
  <2>1. Moved(c, Gone(r[c])) /\ Gone(r[c]).pc = "done" /\ r[c].pc = "acquire"
    BY <1>1, <1>3, ArrivingType DEF GiveUp, Refuse, Set, Moved
  <2>2. QuietStep /\ orphaned' \in BOOLEAN /\ pool' \in PoolType
    BY <1>1, <1>3 DEF GiveUp, Refuse, QuietStep
  <2>3. QED BY <2>1, <2>2 DEF Stepped, Grants, Returns, Passes
<1>4. CASE Acquire(c)
  <2>1. PICK a \in May(r[c]) :
          pool' = Granted(pool, a) /\ Leased(c, a) /\ Ensure(c, a, "acquire")
    BY <1>4 DEF Acquire
  <2>2. a \in Accounts
    BY <1>1, GrantableProperties DEF May
  <2>3. pool' \in PoolType /\ GrantStep(c, a)
    BY <1>1, <1>2, <1>4, <2>1, <2>2, GrantedProperties DEF GrantStep, Acquire, Leased
  <2>4. PICK q : Moved(c, q) /\ q.pc \in Using /\ q.acct = a
    BY <2>1, <2>2, EnsureProperties DEF LeaseInv
  <2>5. QED BY <2>2, <2>3, <2>4 DEF Stepped, Grants, Returns, Passes
<1>5. CASE Park(c)
  <2>1. [r[c] EXCEPT !.pc = "parked"] \in RequestType /\ [r[c] EXCEPT !.pc = "parked"].pc = "parked"
    BY <1>1 DEF RequestType, PCs
  <2>2. QuietStep /\ pool' \in PoolType /\ orphaned' \in BOOLEAN
    BY <1>1, <1>5, WaitingProperties DEF Park, QuietStep
  <2>3. QED BY <1>5, <2>1, <2>2 DEF Stepped, Passes, Moved, Park, Set
<1>6. CASE Wake(c)
  <2>1. [r[c] EXCEPT !.pc = "acquire"] \in RequestType /\ [r[c] EXCEPT !.pc = "acquire"].pc = "acquire"
    BY <1>1 DEF RequestType, PCs
  <2>2. pool' \in PoolType
    BY <1>1, <1>6, WaitingProperties DEF Wake
  <2>3. QuietStep /\ orphaned' \in BOOLEAN
    BY <1>1, <1>6 DEF Wake, QuietStep, PoolType
  <2>4. QED BY <1>6, <2>1, <2>2, <2>3 DEF Stepped, Passes, Moved, Wake, Set
<1>7. QED BY <1>3, <1>4, <1>5, <1>6

(* Giving an account back, at the end or before another is looked for. *)
LEMMA ReturnSteps ==
  ASSUME LeaseInv, NEW c \in Callers,
         AcquireLoginFailed(c) \/ CallLoginFailed(c) \/ CallRejected(c) \/ ReleaseAtEnd(c)
  PROVE  \E q : Stepped(c, q)
<1> DEFINE a == r[c].acct
<1>1. /\ r[c] \in RequestType /\ pool \in PoolType
      /\ r[c].target \in Accounts \cup {None} /\ r[c].tried \in SUBSET Accounts
  BY RequestFields DEF LeaseInv, TypeOK
<1>2. r[c].pc \in {"login", "call", "release"}
  BY DEF AcquireLoginFailed, CallLoginFailed, CallRejected, Calling, ReleaseAtEnd
<1>3. a \in Accounts /\ lease[c] \in {None, a} /\ (~orphaned => lease[c] = a)
  BY <1>2 DEF LeaseInv, LeaseFollowsRequest, Using
<1>4. pool' = Released(pool, a) /\ Unleased(c) /\ orphaned' = orphaned
  BY DEF AcquireLoginFailed, CallLoginFailed, CallRejected, ReleaseAtEnd, GiveBack
<1>5. pool' \in PoolType /\ ReturnStep(c, a)
  BY <1>1, <1>3, <1>4, ReleasedProperties DEF ReturnStep, Unleased
<1>6. \E q : Moved(c, q) /\ q.pc \in {"acquire", "switch", "done"}
                       /\ (q.pc = "switch" => q.acct \in Accounts)
  <2>1. CASE AcquireLoginFailed(c)
    <3>1. Set(c, Drop(r[c]))
      BY <2>1 DEF AcquireLoginFailed
    <3>2. CASE r[c].target = None
      <4> DEFINE tried == r[c].tried \cup {a}
      <4>1. tried \in SUBSET Accounts
        BY <1>1, <1>3
      <4>2. Drop(r[c]) = [Arriving(None) EXCEPT !.tried = tried]
        BY <3>2 DEF Drop
      <4> HIDE DEF tried
      <4>3. Arriving(None) \in RequestType /\ Arriving(None).pc = "acquire"
        BY ArrivingType
      <4>4. Drop(r[c]) \in RequestType /\ Drop(r[c]).pc = "acquire"
        BY <4>1, <4>2, <4>3 DEF RequestType
      <4>5. QED BY <3>1, <4>4 DEF Moved, Set
    <3>3. CASE r[c].target # None
      <4>1. Drop(r[c]) = Gone(r[c])
        BY <3>3 DEF Drop
      <4>2. QED BY <1>1, <3>1, <4>1, ArrivingType DEF Moved, Set
    <3>4. QED BY <3>2, <3>3
  <2>2. CASE CallLoginFailed(c) \/ CallRejected(c)
    <3> DEFINE tried == r[c].tried \cup {a}
               q == [r[c] EXCEPT !.pc = "switch", !.why = "acquire", !.tried = tried]
    <3>1. r' = [r EXCEPT ![c] = q]
      BY <2>2 DEF CallLoginFailed, CallRejected, GiveBack, Set
    <3>2. tried \in SUBSET Accounts
      BY <1>1, <1>3
    <3> HIDE DEF tried
    <3>3. q \in RequestType /\ q.pc = "switch" /\ q.acct = a
      BY <1>1, <3>2 DEF RequestType, PCs
    <3> HIDE DEF q, a
    <3>4. QED BY <1>3, <3>1, <3>3 DEF Moved
  <2>3. CASE ReleaseAtEnd(c)
    <3>1. Set(c, Gone(r[c]))
      BY <2>3 DEF ReleaseAtEnd
    <3>2. QED BY <1>1, <3>1, ArrivingType DEF Moved, Set
  <2>4. QED BY <2>1, <2>2, <2>3
<1> HIDE DEF a
<1>7. QED BY <1>3, <1>5, <1>6 DEF Stepped, Grants, Returns, Passes

(* SwitchAccount finds another account, or goes on with the one given back. *)
LEMMA SwitchStep ==
  ASSUME LeaseInv, NEW c \in Callers, SwitchTo(c) \/ SwitchFailed(c)
  PROVE  \E q : Stepped(c, q)
<1>1. /\ r[c] \in RequestType /\ pool \in PoolType
      /\ r[c].pc = "switch" /\ lease[c] = None
  BY DEF LeaseInv, TypeOK, LeaseFollowsRequest, SwitchTo, SwitchFailed
<1>2. CASE SwitchTo(c)
  <2>1. PICK a \in Grantable(pool, Accounts, None, r[c].tried) :
          pool' = Granted(pool, a) /\ Leased(c, a) /\ Ensure(c, a, "switch")
    BY <1>2 DEF SwitchTo
  <2>2. a \in Accounts
    BY <1>1, GrantableProperties
  <2>3. pool' \in PoolType /\ GrantStep(c, a)
    BY <1>1, <1>2, <2>1, <2>2, GrantedProperties DEF GrantStep, SwitchTo, Leased
  <2>4. PICK q : Moved(c, q) /\ q.pc \in Using /\ q.acct = a
    BY <2>1, <2>2, EnsureProperties DEF LeaseInv
  <2>5. QED BY <2>2, <2>3, <2>4 DEF Stepped, Grants, Returns, Passes
<1>3. CASE SwitchFailed(c)
  <2> DEFINE n == r[c].attempts + 1
             q == [r[c] EXCEPT !.pc = "call", !.attempts = n]
  <2>1. n \in Nat /\ r' = [r EXCEPT ![c] = q]
    BY <1>1, <1>3, RequestFields DEF SwitchFailed, Set
  <2> HIDE DEF n
  <2>2. q \in RequestType /\ q.pc = "call" /\ q.acct = r[c].acct
    BY <1>1, <2>1 DEF RequestType, PCs
  <2> HIDE DEF q
  <2>3. QuietStep /\ orphaned' = TRUE /\ pool' \in PoolType
    BY <1>1, <1>3 DEF SwitchFailed, QuietStep
  <2>4. QED BY <1>1, <2>1, <2>2, <2>3 DEF Stepped, Passes, Moved
<1>4. QED BY <1>2, <1>3

(* Working with the account: logins that succeed, calls and their answers. *)
LEMMA UseStep ==
  ASSUME LeaseInv, NEW c \in Callers,
         \/ LoginOk(c) \/ CallOk(c) \/ CallError(c) \/ CallUnauthorized(c)
         \/ PowUnusable(c) \/ OutOfAttempts(c) \/ Complete(c)
  PROVE  \E q : Stepped(c, q)
<1>1. /\ r[c] \in RequestType /\ pool \in PoolType /\ orphaned \in BOOLEAN
      /\ r[c].pc \in Using
  BY DEF LeaseInv, TypeOK, Using, LoginOk, CallOk, CallError, CallUnauthorized, PowUnusable,
         OutOfAttempts, Complete, Calling
<1>2. QuietStep /\ orphaned' \in BOOLEAN /\ pool' \in PoolType
  BY <1>1 DEF QuietStep, LoginOk, CallOk, CallError, CallUnauthorized, PowUnusable,
              OutOfAttempts, Complete
<1>3. ASSUME NEW q \in RequestType, q.pc \in Using, q.acct = r[c].acct, Set(c, q)
      PROVE  Stepped(c, q)
  BY <1>1, <1>2, <1>3 DEF Stepped, Passes, Moved, Set
<1>4. CASE LoginOk(c)
  BY <1>1, <1>3, <1>4, ReadyProperties DEF LoginOk, Using
<1>5. CASE CallOk(c)
  <2>1. CASE r[c].phase = "session"
    <3> DEFINE q == [r[c] EXCEPT !.phase = "pow", !.attempts = 0, !.refreshed = FALSE]
    <3>1. Set(c, q)
      BY <1>5, <2>1 DEF CallOk
    <3>2. q \in RequestType /\ q.pc = r[c].pc /\ q.acct = r[c].acct
      BY <1>1 DEF RequestType
    <3> HIDE DEF q
    <3>3. QED BY <1>1, <1>3, <3>1, <3>2
  <2>2. CASE r[c].phase # "session"
    <3> DEFINE q == [r[c] EXCEPT !.pc = "complete"]
    <3>1. Set(c, q)
      BY <1>5, <2>2 DEF CallOk
    <3>2. q \in RequestType /\ q.pc = "complete" /\ q.acct = r[c].acct
      BY <1>1 DEF RequestType, PCs
    <3> HIDE DEF q
    <3>3. QED BY <1>3, <3>1, <3>2 DEF Using
  <2>3. QED BY <2>1, <2>2
<1>6. CASE CallError(c)
  <2> DEFINE n == r[c].attempts + 1
             q == [r[c] EXCEPT !.attempts = n]
  <2>1. n \in Nat /\ Set(c, q)
    BY <1>1, <1>6, RequestFields DEF CallError
  <2> HIDE DEF n
  <2>2. q \in RequestType /\ q.pc = r[c].pc /\ q.acct = r[c].acct
    BY <1>1, <2>1 DEF RequestType
  <2> HIDE DEF q
  <2>3. QED BY <1>1, <1>3, <2>1, <2>2
<1>7. CASE CallUnauthorized(c)
  <2> DEFINE q == [r[c] EXCEPT !.pc = "login", !.why = "refresh"]
  <2>1. q \in RequestType /\ q.pc = "login" /\ q.acct = r[c].acct
    BY <1>1 DEF RequestType, PCs
  <2>2. Set(c, q)
    BY <1>7 DEF CallUnauthorized
  <2> HIDE DEF q
  <2>3. QED BY <1>3, <2>1, <2>2 DEF Using
<1>8. CASE PowUnusable(c) \/ OutOfAttempts(c) \/ Complete(c)
  <2> DEFINE q == [r[c] EXCEPT !.pc = "release"]
  <2>1. q \in RequestType /\ q.pc = "release" /\ q.acct = r[c].acct
    BY <1>1 DEF RequestType, PCs
  <2>2. Set(c, q)
    BY <1>8 DEF PowUnusable, OutOfAttempts, Complete
  <2> HIDE DEF q
  <2>3. QED BY <1>3, <2>1, <2>2 DEF Using
<1>9. QED BY <1>4, <1>5, <1>6, <1>7, <1>8

----------------------------------------------------------------------------
(* The invariant *)

(* A grant, a return and a quiet step keep the counters backed and exact. *)
LEMMA CountersStep ==
  ASSUME LeaseInv, NEW c \in Callers, NEW q, Stepped(c, q)
  PROVE  NoSlotLost'
<1>1. /\ pool.inUse \in [Accounts -> Nat]
      /\ lease \in [Callers -> Accounts \cup {None}]
      /\ \A a \in Accounts :
           /\ pool.inUse[a] <= Cardinality(HoldersIn(lease, a))
           /\ ~orphaned => pool.inUse[a] = Cardinality(HoldersIn(lease, a))
  BY PoolFields DEF LeaseInv, TypeOK, NoSlotLost, Leases, HoldersIn
<1>2. \A h : \A a \in Accounts : Cardinality(HoldersIn(h, a)) \in Nat
  BY HoldersFinite
<1>3. SUFFICES ASSUME NEW b \in Accounts
               PROVE  /\ pool'.inUse[b] <= Cardinality(HoldersIn(lease', b))
                      /\ ~orphaned' => pool'.inUse[b] = Cardinality(HoldersIn(lease', b))
  BY DEF NoSlotLost, Leases, HoldersIn
<1>4. ASSUME NEW a \in Accounts, GrantStep(c, a)
      PROVE  /\ pool'.inUse[b] <= Cardinality(HoldersIn(lease', b))
             /\ ~orphaned' => pool'.inUse[b] = Cardinality(HoldersIn(lease', b))
  <2>1. /\ lease[c] = None /\ lease'[c] = a
        /\ \A d \in Callers : d # c => lease'[d] = lease[d]
        /\ orphaned' = orphaned
        /\ pool'.inUse[b] = IF b = a THEN pool.inUse[b] + 1 ELSE pool.inUse[b]
    BY <1>1, <1>4 DEF GrantStep
  <2>2. /\ Cardinality(HoldersIn(lease', a)) = Cardinality(HoldersIn(lease, a)) + 1
        /\ \A d \in Accounts : d # a =>
             Cardinality(HoldersIn(lease', d)) = Cardinality(HoldersIn(lease, d))
    BY <1>1, <2>1, HoldersGrow
  <2>3. QED BY <1>1, <1>2, <2>1, <2>2
<1>5. ASSUME NEW a \in Accounts, ReturnStep(c, a)
      PROVE  /\ pool'.inUse[b] <= Cardinality(HoldersIn(lease', b))
             /\ ~orphaned' => pool'.inUse[b] = Cardinality(HoldersIn(lease', b))
  <2>1. /\ lease[c] \in {None, a} /\ (~orphaned => lease[c] = a)
        /\ lease' = [lease EXCEPT ![c] = None]
        /\ orphaned' = orphaned
        /\ pool'.inUse[b] = IF b = a /\ pool.inUse[a] # 0 THEN pool.inUse[b] - 1
                                                         ELSE pool.inUse[b]
    BY <1>1, <1>5 DEF ReturnStep
  <2>2. CASE lease[c] = a
    <3>1. /\ lease'[c] = None /\ \A d \in Callers : d # c => lease'[d] = lease[d]
      BY <1>1, <2>1
    <3>2. /\ Cardinality(HoldersIn(lease, a)) = Cardinality(HoldersIn(lease', a)) + 1
          /\ \A d \in Accounts : d # a =>
               Cardinality(HoldersIn(lease, d)) = Cardinality(HoldersIn(lease', d))
      BY <1>1, <2>2, <3>1, HoldersShrink
    <3>3. Cardinality(HoldersIn(lease, b)) =
            IF b = a THEN Cardinality(HoldersIn(lease', b)) + 1
                     ELSE Cardinality(HoldersIn(lease', b))
      BY <3>2
    <3>4. /\ Cardinality(HoldersIn(lease, b)) \in Nat /\ pool.inUse[b] \in Nat
          /\ Cardinality(HoldersIn(lease', b)) \in Nat
          /\ pool.inUse[b] <= Cardinality(HoldersIn(lease, b))
          /\ ~orphaned => pool.inUse[b] = Cardinality(HoldersIn(lease, b))
      BY <1>1, <1>2
    <3>5. CASE b = a
      BY <2>1, <3>3, <3>4, <3>5
    <3>6. CASE b # a
      BY <2>1, <3>3, <3>4, <3>6
    <3>7. QED BY <3>5, <3>6
  <2>3. CASE lease[c] # a
    <3>1. lease[c] = None /\ orphaned
      BY <2>1, <2>3
    <3>2. lease' = lease
      BY <1>1, <2>1, <3>1
    <3>3. pool.inUse[b] \in Nat /\ Cardinality(HoldersIn(lease, b)) \in Nat
      BY <1>1, <1>2
    <3>4. QED BY <1>1, <2>1, <3>1, <3>2, <3>3
  <2>4. QED BY <2>2, <2>3
<1>6. CASE QuietStep
  BY <1>1, <1>6 DEF QuietStep
<1>7. (\E a \in Accounts : GrantStep(c, a) \/ ReturnStep(c, a)) \/ QuietStep
  BY DEF Stepped, Grants, Returns, Passes
<1>8. QED BY <1>4, <1>5, <1>6, <1>7

(* And the slot a request has stays that of its account. *)
LEMMA LeaseInvStep == LeaseInv /\ [Next]_vars => LeaseInv'
<1> SUFFICES ASSUME LeaseInv, [Next]_vars PROVE LeaseInv'
  OBVIOUS
<1>1. CASE UNCHANGED vars
  BY <1>1 DEF vars, LeaseInv, TypeOK, LeaseFollowsRequest, NoSlotLost, Leases
<1>2. ASSUME NEW c \in Callers, Step(c) PROVE LeaseInv'
  <2>1. \E q : Stepped(c, q)
    BY <1>2, AcquireStep, ReturnSteps, SwitchStep, UseStep DEF Step
  <2>2. PICK q : Stepped(c, q)
    BY <2>1
  <2>3. /\ r \in [Callers -> RequestType] /\ lease \in [Callers -> Accounts \cup {None}]
        /\ orphaned \in BOOLEAN /\ pool' \in PoolType
        /\ q \in RequestType /\ r' = [r EXCEPT ![c] = q]
    BY <2>2 DEF LeaseInv, TypeOK, Stepped, Moved
  <2>4. /\ r' \in [Callers -> RequestType]
        /\ r'[c] = q /\ \A d \in Callers \ {c} : r'[d] = r[d]
    BY <2>3
  <2>5. NoSlotLost'
    BY <2>2, CountersStep
  <2>6. SUFFICES /\ lease' \in [Callers -> Accounts \cup {None}] /\ orphaned' \in BOOLEAN
                 /\ LeaseFollowsRequest'
    BY <2>3, <2>4, <2>5 DEF LeaseInv, TypeOK
  <2>7. LeaseFollowsRequest
    BY DEF LeaseInv
  <2>8. ASSUME NEW a \in Accounts, Grants(c, q, a) PROVE
          /\ lease' \in [Callers -> Accounts \cup {None}] /\ orphaned' \in BOOLEAN
          /\ LeaseFollowsRequest'
    <3>1. /\ lease' \in [Callers -> Accounts \cup {None}] /\ orphaned' = orphaned
          /\ lease'[c] = a /\ \A d \in Callers \ {c} : lease'[d] = lease[d]
      BY <2>3, <2>8 DEF Grants, GrantStep
    <3>2. q.pc \in Using /\ q.acct = a
      BY <2>8 DEF Grants
    <3>3. QED BY <2>3, <2>4, <2>7, <3>1, <3>2 DEF LeaseFollowsRequest, Using
  <2>9. ASSUME NEW a \in Accounts, Returns(c, q, a) PROVE
          /\ lease' \in [Callers -> Accounts \cup {None}] /\ orphaned' \in BOOLEAN
          /\ LeaseFollowsRequest'
    <3>1. lease' = [lease EXCEPT ![c] = None] /\ orphaned' = orphaned
      BY <2>9 DEF Returns, ReturnStep
    <3>2. /\ lease' \in [Callers -> Accounts \cup {None}]
          /\ lease'[c] = None /\ \A d \in Callers \ {c} : lease'[d] = lease[d]
      BY <2>3, <3>1
    <3>3. q.pc \in {"acquire", "switch", "done"} /\ (q.pc = "switch" => q.acct \in Accounts)
      BY <2>9 DEF Returns
    <3>4. QED BY <2>3, <2>4, <2>7, <3>1, <3>2, <3>3 DEF LeaseFollowsRequest, Using
  <2>10. CASE Passes(c, q)
    <3>1. lease' = lease /\ (orphaned => orphaned')
      BY <2>10 DEF Passes, QuietStep
    <3>2. QED BY <2>3, <2>4, <2>7, <2>10, <3>1 DEF LeaseFollowsRequest, Using, Passes
  <2>11. QED BY <2>2, <2>8, <2>9, <2>10 DEF Stepped
<1>3. QED BY <1>1, <1>2 DEF Next

(* NewPool and the arriving requests. *)
LEMMA LeaseInvInit == Init => LeaseInv
<1> SUFFICES ASSUME Init PROVE LeaseInv
  OBVIOUS
<1>1. pool \in PoolType /\ \A a \in Accounts : pool.inUse[a] = 0
  <2>1. PICK s \in SetToSeqs(Accounts), n \in MaxQueues :
          pool = [queue |-> s, inUse |-> [a \in Accounts |-> 0], waiters |-> <<>>,
                  closed |-> {}, maxPer |-> MaxPer, maxQueue |-> n, global |-> Global]
    BY DEF Init
  <2>2. Cardinality(Accounts) \in Nat
    BY FiniteAssumption, FS_CardinalityType
  <2>3. s \in Seq(Accounts)
    <3>1. s \in [1 .. Cardinality(Accounts) -> Accounts]
      BY DEF SetToSeqs
    <3>2. QED BY <2>2, <3>1
  <2>4. /\ n \in Nat /\ MaxPer \in Nat /\ Global \in Nat
        /\ [a \in Accounts |-> 0] \in [Accounts -> Nat] /\ <<>> \in Seq(Callers)
    BY LimitsAssumption
  <2>5. QED BY <2>1, <2>3, <2>4 DEF PoolType
<1>2. r \in [Callers -> RequestType] /\ \A c \in Callers : r[c].pc = "acquire"
  <2>1. \A t \in Targets : Arriving(t) \in RequestType /\ Arriving(t).pc = "acquire"
    BY TargetsAssumption, ArrivingType
  <2>2. r \in [Callers -> {Arriving(t) : t \in Targets}]
    BY DEF Init
  <2>3. \A c \in Callers : \E t \in Targets : r[c] = Arriving(t)
    BY <2>2
  <2>4. QED BY <2>1, <2>2, <2>3
<1>3. lease \in [Callers -> Accounts \cup {None}] /\ \A c \in Callers : lease[c] = None
  BY DEF Init
<1>4. orphaned = FALSE
  BY DEF Init
<1>5. \A a \in Accounts : Leases(a) = {}
  BY <1>3, NoneAssumption DEF Leases
<1>6. \A a \in Accounts : Cardinality(Leases(a)) = 0
  BY <1>5, FS_EmptySet
<1>7. TypeOK /\ NoSlotLost
  <2>1. NoSlotLost
    BY <1>1, <1>6 DEF NoSlotLost
  <2>2. QED BY <1>1, <1>2, <1>3, <1>4, <2>1 DEF TypeOK
<1>8. LeaseFollowsRequest
  BY <1>2, <1>3 DEF LeaseFollowsRequest, Using
<1>9. QED BY <1>7, <1>8 DEF LeaseInv

----------------------------------------------------------------------------
(* The theorems *)

(* Every reachable state of the pool and of the requests is well typed. *)
THEOREM TypeCorrect == Spec => []TypeOK
<1>1. LeaseInv => TypeOK
  BY DEF LeaseInv
<1>2. QED BY LeaseInvInit, LeaseInvStep, <1>1, PTL DEF Spec

(***************************************************************************)
(* No path through logins, refreshes, switches and early returns keeps a   *)
(* slot counted that nobody will give back; and as long as every           *)
(* SwitchAccount has found an account, the counters equal the leases.      *)
(***************************************************************************)
THEOREM SlotsComeBack == Spec => []NoSlotLost
<1>1. LeaseInv => NoSlotLost
  BY DEF LeaseInv
<1>2. QED BY LeaseInvInit, LeaseInvStep, <1>1, PTL DEF Spec
=============================================================================
