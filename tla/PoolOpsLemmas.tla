--------------------------- MODULE PoolOpsLemmas ---------------------------
(***************************************************************************)
(* What the operations of PoolOps preserve: the type of the pool, and what *)
(* they do to the counters and to the set of occupied slots.               *)
(***************************************************************************)
EXTENDS PoolOps, FiniteSetTheorems, SequenceTheorems, TLAPS

----------------------------------------------------------------------------
(* Sequences *)

(* Removing an element (removeWaiterLocked, bumpQueue) keeps the type. *)
LEMMA WithoutType ==
  ASSUME NEW S, NEW s \in Seq(S), NEW e
  PROVE  Without(s, e) \in Seq(S)
  BY DEF Without, RemoveAt

(* Rotating the queue keeps it a sequence of accounts. *)
LEMMA BumpQueueType ==
  ASSUME NEW q \in Seq(Accounts), NEW a \in Accounts
  PROVE  BumpQueue(q, a) \in Seq(Accounts)
  BY WithoutType DEF BumpQueue

(* The members of a sequence belong to the set it ranges over. *)
LEMMA ToSetType ==
  ASSUME NEW S, NEW s \in Seq(S)
  PROVE  ToSet(s) \subseteq S
  BY DEF ToSet

(* What removing the element at i leaves, place by place. *)
LEMMA RemoveAtProperties ==
  ASSUME NEW S, NEW s \in Seq(S), NEW i \in DOMAIN s
  PROVE  /\ RemoveAt(s, i) \in Seq(S)
         /\ Len(RemoveAt(s, i)) = Len(s) - 1
         /\ \A j \in 1 .. Len(s) - 1 :
              RemoveAt(s, i)[j] = IF j < i THEN s[j] ELSE s[j + 1]
<1> DEFINE u == SubSeq(s, 1, i - 1)
           v == SubSeq(s, i + 1, Len(s))
<1>1. Len(s) \in Nat /\ i \in 1 .. Len(s)
  OBVIOUS
<1>2. /\ u \in Seq(S) /\ Len(u) = i - 1
      /\ \A j \in 1 .. i - 1 : u[j] = s[j]
  BY <1>1
<1>3. /\ v \in Seq(S) /\ Len(v) = Len(s) - i
      /\ \A j \in 1 .. Len(s) - i : v[j] = s[i + j]
  BY <1>1
<1>4. RemoveAt(s, i) = u \o v
  BY DEF RemoveAt
<1> HIDE DEF u, v
<1>5. /\ u \o v \in Seq(S) /\ Len(u \o v) = Len(s) - 1
      /\ \A j \in 1 .. Len(s) - 1 :
           (u \o v)[j] = IF j < i THEN u[j] ELSE v[j - (i - 1)]
  <2>1. /\ u \o v \in Seq(S) /\ Len(u \o v) = Len(u) + Len(v)
        /\ \A j \in 1 .. Len(u) + Len(v) :
             (u \o v)[j] = IF j <= Len(u) THEN u[j] ELSE v[j - Len(u)]
    BY <1>2, <1>3, ConcatProperties
  <2>2. PICK k \in Nat, l \in Nat : k = Len(u) /\ l = Len(s) /\ i = k + 1
    BY <1>1, <1>2
  <2>3. Len(u) + Len(v) = l - 1
    BY <1>1, <1>3, <2>2
  <2>4. \A j \in 1 .. l - 1 : (u \o v)[j] = IF j <= k THEN u[j] ELSE v[j - k]
    BY <2>1, <2>2, <2>3
  <2>5. \A j \in 1 .. l - 1 : (j <= k <=> j < i) /\ j - k = j - (i - 1)
    BY <2>2
  <2> QED
    BY <2>1, <2>2, <2>3, <2>4, <2>5
<1>6. ASSUME NEW j \in 1 .. Len(s) - 1
      PROVE  (u \o v)[j] = IF j < i THEN s[j] ELSE s[j + 1]
  <2>1. CASE j < i
    BY <1>1, <1>2, <1>5, <2>1
  <2>2. CASE ~(j < i)
    <3> DEFINE k == j - (i - 1)
    <3>1. k \in 1 .. Len(s) - i /\ i + k = j + 1
      BY <1>1, <2>2
    <3>2. (u \o v)[j] = v[k]
      BY <1>5, <2>2
    <3> HIDE DEF k
    <3>3. v[k] = s[j + 1]
      BY <1>3, <3>1
    <3>4. QED BY <2>2, <3>2, <3>3
  <2>3. QED BY <2>1, <2>2
<1>7. QED BY <1>4, <1>5, <1>6

(***************************************************************************)
(* A sequence without repeats stays one when an element is removed         *)
(* (removeWaiterLocked), and exactly that element is gone.                 *)
(***************************************************************************)
LEMMA WithoutElements ==
  ASSUME NEW S, NEW s \in Seq(S), IsInjective(s), NEW e
  PROVE  IsInjective(Without(s, e)) /\ ToSet(Without(s, e)) = ToSet(s) \ {e}
<1>1. CASE ~\E i \in DOMAIN s : s[i] = e
  <2>1. e \notin ToSet(s)
    BY <1>1 DEF ToSet
  <2>2. Without(s, e) = s
    BY <1>1 DEF Without
  <2>3. QED BY <2>1, <2>2
<1>2. CASE \E i \in DOMAIN s : s[i] = e
  <2> DEFINE k == CHOOSE i \in DOMAIN s : s[i] = e
             t == RemoveAt(s, k)
  <2>1. k \in DOMAIN s /\ s[k] = e /\ Without(s, e) = t
    BY <1>2 DEF Without
  <2> HIDE DEF k
  <2>2. /\ t \in Seq(S) /\ Len(t) = Len(s) - 1
        /\ \A j \in 1 .. Len(s) - 1 : t[j] = IF j < k THEN s[j] ELSE s[j + 1]
    BY <2>1, RemoveAtProperties
  <2>3. Len(s) \in Nat /\ DOMAIN s = 1 .. Len(s) /\ DOMAIN t = 1 .. Len(s) - 1
    BY <2>2
  <2>4. \A i, j \in 1 .. Len(s) : s[i] = s[j] => i = j
    BY <2>3 DEF IsInjective
  <2> HIDE DEF t
  <2>5. ASSUME NEW i \in DOMAIN t, NEW j \in DOMAIN t, t[i] = t[j] PROVE i = j
    <3> DEFINE m == IF i < k THEN i ELSE i + 1
               n == IF j < k THEN j ELSE j + 1
    <3>1. m \in 1 .. Len(s) /\ n \in 1 .. Len(s) /\ t[i] = s[m] /\ t[j] = s[n]
      BY <2>1, <2>2, <2>3
    <3>2. m = n
      BY <2>4, <2>5, <3>1
    <3>3. QED BY <2>1, <2>3, <3>2
  <2>6. ASSUME NEW x PROVE x \in ToSet(t) <=> x \in ToSet(s) /\ x # e
    <3>1. ASSUME x \in ToSet(t) PROVE x \in ToSet(s) /\ x # e
      <4>1. PICK i \in DOMAIN t : x = t[i]
        BY <3>1 DEF ToSet
      <4> DEFINE m == IF i < k THEN i ELSE i + 1
      <4>2. m \in 1 .. Len(s) /\ m # k /\ x = s[m]
        BY <2>1, <2>2, <2>3, <4>1
      <4>3. QED BY <2>1, <2>3, <2>4, <4>2 DEF ToSet
    <3>2. ASSUME x \in ToSet(s), x # e PROVE x \in ToSet(t)
      <4>1. PICK m \in DOMAIN s : x = s[m]
        BY <3>2 DEF ToSet
      <4> DEFINE i == IF m < k THEN m ELSE m - 1
      <4>2. i \in DOMAIN t /\ t[i] = s[m]
        BY <2>1, <2>2, <2>3, <3>2, <4>1
      <4>3. QED BY <4>1, <4>2 DEF ToSet
    <3>3. QED BY <3>1, <3>2
  <2>7. IsInjective(t)
    BY <2>5 DEF IsInjective
  <2>8. QED BY <2>1, <2>6, <2>7
<1>3. QED BY <1>1, <1>2

(* The same for the element at the front, which a wake-up takes. *)
LEMMA TailElements ==
  ASSUME NEW S, NEW s \in Seq(S), s # <<>>, IsInjective(s)
  PROVE  /\ Head(s) \in ToSet(s)
         /\ IsInjective(Tail(s)) /\ ToSet(Tail(s)) = ToSet(s) \ {Head(s)}
<1>1. /\ Len(s) \in Nat /\ Len(s) > 0 /\ DOMAIN s = 1 .. Len(s)
      /\ Head(s) = s[1]
      /\ DOMAIN Tail(s) = 1 .. Len(s) - 1
      /\ \A j \in 1 .. Len(s) - 1 : Tail(s)[j] = s[j + 1]
  OBVIOUS
<1>2. \A i, j \in 1 .. Len(s) : s[i] = s[j] => i = j
  BY <1>1 DEF IsInjective
<1>3. IsInjective(Tail(s))
  BY <1>1, <1>2 DEF IsInjective
<1>4. ASSUME NEW x PROVE x \in ToSet(Tail(s)) <=> x \in ToSet(s) /\ x # Head(s)
  <2>1. ASSUME x \in ToSet(Tail(s)) PROVE x \in ToSet(s) /\ x # Head(s)
    <3>1. PICK j \in 1 .. Len(s) - 1 : x = s[j + 1]
      BY <1>1, <2>1 DEF ToSet
    <3>2. j + 1 \in 1 .. Len(s) /\ j + 1 # 1 /\ 1 \in 1 .. Len(s)
      BY <1>1
    <3>3. QED BY <1>1, <1>2, <3>1, <3>2 DEF ToSet
  <2>2. ASSUME x \in ToSet(s), x # Head(s) PROVE x \in ToSet(Tail(s))
    <3>1. PICK m \in 1 .. Len(s) : x = s[m]
      BY <1>1, <2>2 DEF ToSet
    <3>2. m - 1 \in 1 .. Len(s) - 1 /\ Tail(s)[m - 1] = s[m]
      BY <1>1, <2>2, <3>1
    <3>3. QED BY <1>1, <3>1, <3>2 DEF ToSet
  <2>3. QED BY <2>1, <2>2
<1>5. Head(s) \in ToSet(s)
  BY <1>1 DEF ToSet
<1>6. QED BY <1>3, <1>4, <1>5

(* A new element at the end is the only one that is added. *)
LEMMA AppendElements ==
  ASSUME NEW S, NEW s \in Seq(S), IsInjective(s), NEW e \in S, e \notin ToSet(s)
  PROVE  IsInjective(Append(s, e)) /\ ToSet(Append(s, e)) = ToSet(s) \cup {e}
<1> DEFINE t == Append(s, e)
<1>1. /\ Len(s) \in Nat /\ DOMAIN s = 1 .. Len(s) /\ DOMAIN t = 1 .. Len(s) + 1
      /\ t[Len(s) + 1] = e
      /\ \A j \in 1 .. Len(s) : t[j] = s[j]
  OBVIOUS
<1> HIDE DEF t
<1>2. \A i, j \in 1 .. Len(s) : s[i] = s[j] => i = j
  BY <1>1 DEF IsInjective
<1>3. \A j \in 1 .. Len(s) : s[j] # e
  BY <1>1 DEF ToSet
<1>4. \A j \in 1 .. Len(s) + 1 : j \in 1 .. Len(s) \/ j = Len(s) + 1
  BY <1>1
<1>5. IsInjective(t)
  BY <1>1, <1>2, <1>3, <1>4 DEF IsInjective
<1>6. ToSet(t) = ToSet(s) \cup {e}
  <2>1. ASSUME NEW x \in ToSet(t) PROVE x \in ToSet(s) \cup {e}
    BY <1>1, <1>4 DEF ToSet
  <2>2. ASSUME NEW x \in ToSet(s) PROVE x \in ToSet(t)
    <3>1. PICK j \in 1 .. Len(s) : x = s[j]
      BY <1>1 DEF ToSet
    <3>2. j \in DOMAIN t /\ t[j] = x
      BY <1>1, <3>1
    <3>3. QED BY <3>2 DEF ToSet
  <2>3. e \in ToSet(t)
    <3>1. Len(s) + 1 \in DOMAIN t
      BY <1>1
    <3>2. QED BY <1>1, <3>1 DEF ToSet
  <2>4. QED BY <2>1, <2>2, <2>3
<1>7. QED BY <1>5, <1>6 DEF t

(* bumpQueue moves an account to the end: no account is lost or doubled. *)
LEMMA BumpQueueElements ==
  ASSUME NEW q \in Seq(Accounts), IsInjective(q), NEW a \in Accounts
  PROVE  IsInjective(BumpQueue(q, a)) /\ ToSet(BumpQueue(q, a)) = ToSet(q)
<1>1. CASE Contains(q, a)
  <2>1. a \in ToSet(q)
    BY <1>1 DEF Contains, ToSet
  <2>2. /\ Without(q, a) \in Seq(Accounts)
        /\ IsInjective(Without(q, a)) /\ ToSet(Without(q, a)) = ToSet(q) \ {a}
    BY WithoutType, WithoutElements
  <2>3. /\ IsInjective(Append(Without(q, a), a))
        /\ ToSet(Append(Without(q, a), a)) = ToSet(Without(q, a)) \cup {a}
    BY <2>2, AppendElements
  <2>4. QED BY <1>1, <2>1, <2>2, <2>3 DEF BumpQueue
<1>2. CASE ~Contains(q, a)
  BY <1>2 DEF BumpQueue
<1>3. QED BY <1>1, <1>2

----------------------------------------------------------------------------
(* Types *)

(* acquireLocked hands out only an account that canAcquireIDLocked passes. *)
LEMMA GrantableProperties ==
  ASSUME NEW p \in PoolType, NEW known, NEW target \in Accounts \cup {None},
         NEW exclude, NEW a \in Grantable(p, known, target, exclude)
  PROVE  a \in Accounts /\ CanAcquireID(p, a)
<1>1. CASE target # None
  BY <1>1 DEF Grantable
<1>2. CASE target = None
  <2>1. PICK j \in DOMAIN p.queue : a = p.queue[j] /\ CanAcquireID(p, p.queue[j])
    BY <1>2 DEF Grantable
  <2>2. p.queue \in Seq(Accounts)
    BY DEF PoolType
  <2>3. QED BY <2>1, <2>2
<1>3. QED BY <1>1, <1>2

(* The fields of a pool. *)
LEMMA PoolFields ==
  ASSUME NEW p \in PoolType
  PROVE  /\ p.queue \in Seq(Accounts)
         /\ p.inUse \in [Accounts -> Nat]
         /\ p.waiters \in Seq(Callers)
         /\ p.closed \in SUBSET Callers
         /\ p.maxPer \in Nat
         /\ p.maxQueue \in Nat
         /\ p.global \in Nat
  BY DEF PoolType

(* Granting a slot moves one counter and the rotation queue, nothing else. *)
LEMMA GrantedProperties ==
  ASSUME NEW p \in PoolType, NEW a \in Accounts
  PROVE  /\ Granted(p, a) \in PoolType
         /\ Granted(p, a).inUse = [p.inUse EXCEPT ![a] = @ + 1]
         /\ Granted(p, a).maxPer = p.maxPer
         /\ Granted(p, a).global = p.global
<1>1. BumpQueue(p.queue, a) \in Seq(Accounts)
  BY PoolFields, BumpQueueType
<1>2. [p.inUse EXCEPT ![a] = @ + 1] \in [Accounts -> Nat]
  BY PoolFields
<1>3. QED BY <1>1, <1>2 DEF Granted, PoolType

(* A wake-up touches the waiters only. *)
LEMMA NotifyWaiterProperties ==
  ASSUME NEW p \in PoolType
  PROVE  /\ NotifyWaiter(p) \in PoolType
         /\ NotifyWaiter(p).inUse = p.inUse
         /\ NotifyWaiter(p).maxPer = p.maxPer
         /\ NotifyWaiter(p).global = p.global
<1>1. CASE p.waiters = <<>>
  BY <1>1 DEF NotifyWaiter
<1>2. CASE p.waiters # <<>>
  <2>1. Head(p.waiters) \in Callers /\ Tail(p.waiters) \in Seq(Callers)
    BY <1>2, PoolFields
  <2>2. p.closed \cup {Head(p.waiters)} \in SUBSET Callers
    BY <2>1, PoolFields
  <2>3. QED BY <1>2, <2>1, <2>2 DEF NotifyWaiter, PoolType
<1>3. QED BY <1>1, <1>2

(* Releasing an account gives one slot back unless the counter is zero. *)
LEMMA ReleasedProperties ==
  ASSUME NEW p \in PoolType, NEW a \in Accounts
  PROVE  /\ Released(p, a) \in PoolType
         /\ Released(p, a).inUse =
              IF p.inUse[a] = 0 THEN p.inUse ELSE [p.inUse EXCEPT ![a] = @ - 1]
         /\ Released(p, a).maxPer = p.maxPer
         /\ Released(p, a).global = p.global
<1>1. CASE p.inUse[a] = 0
  BY <1>1 DEF Released
<1>2. CASE p.inUse[a] # 0
  <2> DEFINE r == [p EXCEPT !.inUse[a] = @ - 1]
  <2>1. /\ r \in PoolType
        /\ r.inUse = [p.inUse EXCEPT ![a] = @ - 1]
        /\ r.maxPer = p.maxPer
        /\ r.global = p.global
    <3>1. [p.inUse EXCEPT ![a] = @ - 1] \in [Accounts -> Nat]
      BY <1>2, PoolFields
    <3>2. QED BY <3>1 DEF PoolType
  <2>2. Released(p, a) = NotifyWaiter(r)
    BY <1>2, NoneAssumption DEF Released
  <2> HIDE DEF r
  <2>3. QED BY <1>2, <2>1, <2>2, NotifyWaiterProperties
<1>3. QED BY <1>1, <1>2

(* Closing every waiter empties the list and leaves the rest alone. *)
LEMMA DrainWaitersProperties ==
  ASSUME NEW p \in PoolType
  PROVE  /\ DrainWaiters(p) \in PoolType
         /\ DrainWaiters(p).maxPer = p.maxPer
<1>1. ToSet(p.waiters) \subseteq Callers
  BY ToSetType DEF PoolType
<1>2. p.closed \cup ToSet(p.waiters) \in SUBSET Callers
  BY <1>1, PoolFields
<1>3. <<>> \in Seq(Callers)
  OBVIOUS
<1>4. QED BY <1>2, <1>3 DEF DrainWaiters, PoolType

(* Reset installs a pool of the right type whose counters are all zero. *)
LEMMA ResetToProperties ==
  ASSUME NEW p \in PoolType, NEW ids \in Seq(Accounts),
         NEW maxQueue \in Nat, NEW global \in Nat
  PROVE  /\ ResetTo(p, ids, maxQueue, global) \in PoolType
         /\ ResetTo(p, ids, maxQueue, global).inUse = [a \in Accounts |-> 0]
  BY DrainWaitersProperties DEF ResetTo, PoolType

(* New limits leave the counters alone. *)
LEMMA WithLimitsProperties ==
  ASSUME NEW p \in PoolType, NEW maxPer \in Nat, NEW maxQueue \in Nat, NEW global \in Nat
  PROVE  /\ WithLimits(p, maxPer, maxQueue, global) \in PoolType
         /\ WithLimits(p, maxPer, maxQueue, global).inUse = p.inUse
<1> DEFINE r == [p EXCEPT !.maxPer = maxPer, !.maxQueue = maxQueue, !.global = global]
<1>1. r \in PoolType /\ r.inUse = p.inUse
  BY DEF PoolType
<1>2. WithLimits(p, maxPer, maxQueue, global) = NotifyWaiter(r)
  BY DEF WithLimits
<1> HIDE DEF r
<1>3. QED BY <1>1, <1>2, NotifyWaiterProperties

(* Putting a caller into or out of the wait list, and taking a wake-up. *)
LEMMA WaitingProperties ==
  ASSUME NEW p \in PoolType, NEW c \in Callers
  PROVE  /\ Enqueued(p, c) \in PoolType
         /\ Enqueued(p, c).inUse = p.inUse
         /\ Unlinked(p, c) \in PoolType
         /\ Unlinked(p, c).inUse = p.inUse
         /\ [p EXCEPT !.closed = @ \ {c}] \in PoolType
         /\ [Unlinked(p, c) EXCEPT !.closed = @ \ {c}] \in PoolType
<1>1. p.waiters \in Seq(Callers) /\ p.closed \in SUBSET Callers
  BY DEF PoolType
<1>2. Append(p.waiters, c) \in Seq(Callers) /\ Without(p.waiters, c) \in Seq(Callers)
  BY <1>1, WithoutType
<1>3. Enqueued(p, c) \in PoolType /\ Enqueued(p, c).inUse = p.inUse
  BY <1>2 DEF Enqueued, PoolType
<1>4. Unlinked(p, c) \in PoolType /\ Unlinked(p, c).inUse = p.inUse
  BY <1>2 DEF Unlinked, PoolType
<1>5. \A q \in PoolType : [q EXCEPT !.closed = @ \ {c}] \in PoolType
  BY DEF PoolType
<1>6. QED BY <1>3, <1>4, <1>5

----------------------------------------------------------------------------
(* Waiters and the rotation queue *)

(***************************************************************************)
(* From p to q some callers have been woken, E of those that waited: they  *)
(* leave the wait list and their channels are closed.                      *)
(***************************************************************************)
Wakes(p, q) ==
  /\ IsInjective(p.waiters) => IsInjective(q.waiters)
  /\ \E E \in SUBSET ToSet(p.waiters) :
       /\ IsInjective(p.waiters) => ToSet(q.waiters) = ToSet(p.waiters) \ E
       /\ q.closed = p.closed \cup E

(* A pool whose wait list and channels are as before has woken nobody. *)
LEMMA WakesNobody ==
  ASSUME NEW p, NEW q, q.waiters = p.waiters, q.closed = p.closed
  PROVE  Wakes(p, q)
<1>1. {} \in SUBSET ToSet(p.waiters) /\ p.closed = p.closed \cup {}
      /\ ToSet(p.waiters) = ToSet(p.waiters) \ {}
  OBVIOUS
<1>2. QED BY <1>1 DEF Wakes

(* notifyWaiterLocked wakes the caller that has waited longest, if any. *)
LEMMA NotifyWaiterWakes ==
  ASSUME NEW p \in PoolType
  PROVE  Wakes(p, NotifyWaiter(p)) /\ NotifyWaiter(p).queue = p.queue
<1>1. CASE p.waiters = <<>>
  BY <1>1, WakesNobody DEF NotifyWaiter
<1>2. CASE p.waiters # <<>>
  <2> DEFINE e == Head(p.waiters)
             w == Tail(p.waiters)
             d == p.closed \cup {e}
             q == [p EXCEPT !.closed = d, !.waiters = w]
  <2>1. NotifyWaiter(p) = q
    BY <1>2 DEF NotifyWaiter
  <2>2. q.closed = d /\ q.waiters = w /\ q.queue = p.queue
    <3> HIDE DEF d, w
    <3>1. QED BY DEF PoolType
  <2>3. e \in ToSet(p.waiters)
    BY <1>2, PoolFields DEF ToSet
  <2>4. IsInjective(p.waiters) => IsInjective(w) /\ ToSet(w) = ToSet(p.waiters) \ {e}
    BY <1>2, PoolFields, TailElements
  <2>5. Wakes(p, q)
    <3>1. {e} \in SUBSET ToSet(p.waiters)
      BY <2>3
    <3> HIDE DEF q, w, e
    <3>2. QED BY <2>2, <2>4, <3>1 DEF Wakes
  <2> HIDE DEF q
  <2>6. QED BY <2>1, <2>2, <2>5
<1>3. QED BY <1>1, <1>2

(* A release may wake one caller; it leaves the rotation queue alone. *)
LEMMA ReleasedWakes ==
  ASSUME NEW p \in PoolType, NEW a \in Accounts
  PROVE  Wakes(p, Released(p, a)) /\ Released(p, a).queue = p.queue
<1>1. CASE p.inUse[a] = 0
  BY <1>1, WakesNobody DEF Released
<1>2. CASE p.inUse[a] # 0
  <2> DEFINE u == [p.inUse EXCEPT ![a] = @ - 1]
             q == [p EXCEPT !.inUse = u]
  <2>1. Released(p, a) = NotifyWaiter(q)
    BY <1>2, NoneAssumption DEF Released
  <2>2. u \in [Accounts -> Nat]
    BY <1>2, PoolFields
  <2> HIDE DEF u
  <2>3. q \in PoolType /\ q.waiters = p.waiters /\ q.closed = p.closed /\ q.queue = p.queue
    BY <2>2 DEF PoolType
  <2> HIDE DEF q
  <2>4. Wakes(q, NotifyWaiter(q)) /\ NotifyWaiter(q).queue = q.queue
    BY <2>3, NotifyWaiterWakes
  <2>5. QED BY <2>1, <2>3, <2>4 DEF Wakes
<1>3. QED BY <1>1, <1>2

(* New limits wake one caller. *)
LEMMA WithLimitsWakes ==
  ASSUME NEW p \in PoolType, NEW maxPer \in Nat, NEW maxQueue \in Nat, NEW global \in Nat
  PROVE  /\ Wakes(p, WithLimits(p, maxPer, maxQueue, global))
         /\ WithLimits(p, maxPer, maxQueue, global).queue = p.queue
<1> DEFINE q == [p EXCEPT !.maxPer = maxPer, !.maxQueue = maxQueue, !.global = global]
<1>1. WithLimits(p, maxPer, maxQueue, global) = NotifyWaiter(q)
  BY DEF WithLimits
<1>2. q \in PoolType /\ q.waiters = p.waiters /\ q.closed = p.closed /\ q.queue = p.queue
  BY DEF PoolType
<1> HIDE DEF q
<1>3. Wakes(q, NotifyWaiter(q)) /\ NotifyWaiter(q).queue = q.queue
  BY <1>2, NotifyWaiterWakes
<1>4. QED BY <1>1, <1>2, <1>3 DEF Wakes

(* Reset wakes every caller and installs the queue. *)
LEMMA ResetToWakes ==
  ASSUME NEW p \in PoolType, NEW ids \in Seq(Accounts),
         NEW maxQueue \in Nat, NEW global \in Nat
  PROVE  /\ Wakes(p, ResetTo(p, ids, maxQueue, global))
         /\ ResetTo(p, ids, maxQueue, global).queue = ids
<1> DEFINE W == ToSet(p.waiters)
           d == p.closed \cup W
           m == DrainWaiters(p)
           q == ResetTo(p, ids, maxQueue, global)
<1>1. m = [p EXCEPT !.closed = d, !.waiters = <<>>]
  BY DEF DrainWaiters
<1>2. m \in PoolType
  BY DrainWaitersProperties
<1> HIDE DEF d
<1>3. m.closed = d /\ m.waiters = <<>>
  BY <1>1 DEF PoolType
<1>4. q = [m EXCEPT !.queue = ids, !.inUse = [a \in Accounts |-> 0],
                    !.maxQueue = maxQueue, !.global = global]
  BY DEF ResetTo
<1> HIDE DEF m, q
<1>5. q.closed = d /\ q.waiters = <<>> /\ q.queue = ids
  BY <1>2, <1>3, <1>4 DEF PoolType
<1>6. IsInjective(<<>>) /\ ToSet(<<>>) = {}
  BY DEF IsInjective, ToSet
<1>7. W \in SUBSET W /\ W \ W = {}
  OBVIOUS
<1>8. Wakes(p, q)
  BY <1>5, <1>6, <1>7 DEF Wakes, d
<1>9. QED BY <1>5, <1>8 DEF q

(* A grant wakes nobody and keeps the accounts of the rotation queue. *)
LEMMA GrantedWakes ==
  ASSUME NEW p \in PoolType, NEW a \in Accounts
  PROVE  /\ Wakes(p, Granted(p, a))
         /\ IsInjective(p.queue) => /\ IsInjective(Granted(p, a).queue)
                                    /\ ToSet(Granted(p, a).queue) = ToSet(p.queue)
<1> DEFINE u == [p.inUse EXCEPT ![a] = @ + 1]
           b == BumpQueue(p.queue, a)
<1>1. Granted(p, a) = [p EXCEPT !.inUse = u, !.queue = b]
  BY DEF Granted
<1> HIDE DEF u, b
<1>2. /\ Granted(p, a).queue = b
      /\ Granted(p, a).waiters = p.waiters /\ Granted(p, a).closed = p.closed
  BY <1>1 DEF PoolType
<1>3. Wakes(p, Granted(p, a))
  BY <1>2, WakesNobody
<1>4. QED BY <1>2, <1>3, PoolFields, BumpQueueElements DEF b

(* Parking puts the caller at the end of the list. *)
LEMMA EnqueuedElements ==
  ASSUME NEW p \in PoolType, IsInjective(p.waiters),
         NEW c \in Callers, c \notin ToSet(p.waiters)
  PROVE  /\ IsInjective(Enqueued(p, c).waiters)
         /\ ToSet(Enqueued(p, c).waiters) = ToSet(p.waiters) \cup {c}
         /\ Enqueued(p, c).closed = p.closed
         /\ Enqueued(p, c).queue = p.queue
<1> DEFINE w == Append(p.waiters, c)
<1>1. Enqueued(p, c) = [p EXCEPT !.waiters = w]
  BY DEF Enqueued
<1> HIDE DEF w
<1>2. /\ Enqueued(p, c).waiters = w
      /\ Enqueued(p, c).closed = p.closed /\ Enqueued(p, c).queue = p.queue
  BY <1>1 DEF PoolType
<1>3. QED BY <1>2, PoolFields, AppendElements DEF w

(* Abandoning the wait takes the caller off the list and closes its channel. *)
LEMMA UnlinkedElements ==
  ASSUME NEW p \in PoolType, IsInjective(p.waiters), NEW c \in Callers
  PROVE  LET q == [Unlinked(p, c) EXCEPT !.closed = @ \ {c}]
         IN  /\ IsInjective(q.waiters)
             /\ ToSet(q.waiters) = ToSet(p.waiters) \ {c}
             /\ q.closed = p.closed \ {c}
             /\ q.queue = p.queue
<1> DEFINE w == Without(p.waiters, c)
           d == p.closed \ {c}
           q == [Unlinked(p, c) EXCEPT !.closed = @ \ {c}]
<1>1. Unlinked(p, c) = [p EXCEPT !.waiters = w]
  BY DEF Unlinked
<1>2. IsInjective(w) /\ ToSet(w) = ToSet(p.waiters) \ {c}
  BY PoolFields, WithoutElements
<1> HIDE DEF w
<1>3. Unlinked(p, c).waiters = w /\ Unlinked(p, c).closed = p.closed
      /\ Unlinked(p, c).queue = p.queue /\ Unlinked(p, c) \in PoolType
  BY <1>1, WaitingProperties DEF PoolType
<1>4. q = [Unlinked(p, c) EXCEPT !.closed = d]
  BY <1>3
<1> HIDE DEF d, q
<1>5. q.closed = d /\ q.waiters = w /\ q.queue = p.queue
  BY <1>3, <1>4 DEF PoolType
<1>6. QED BY <1>2, <1>5 DEF d, q

----------------------------------------------------------------------------
(* Slots *)

(* A pair is an occupied slot when its number is within its account's count. *)
LEMMA SlotsMembership ==
  ASSUME NEW inUse \in [Accounts -> Nat], NEW s
  PROVE  s \in Slots(inUse) <=>
           \E a \in Accounts : \E i \in 1 .. inUse[a] : s = <<a, i>>
  BY DEF Slots

(* One more in the counter of a is one more occupied slot. *)
LEMMA SlotsGrow ==
  ASSUME NEW inUse \in [Accounts -> Nat], NEW a \in Accounts,
         IsFiniteSet(Slots(inUse))
  PROVE  LET after == [inUse EXCEPT ![a] = @ + 1]
         IN  /\ IsFiniteSet(Slots(after))
             /\ Cardinality(Slots(after)) = Cardinality(Slots(inUse)) + 1
<1> DEFINE after == [inUse EXCEPT ![a] = @ + 1]
           new == <<a, inUse[a] + 1>>
<1>1. after \in [Accounts -> Nat]
  OBVIOUS
<1>2. new \notin Slots(inUse)
  BY SlotsMembership
<1>3. Slots(after) = Slots(inUse) \cup {new}
  <2>1. ASSUME NEW s PROVE s \in Slots(after) <=> s \in Slots(inUse) \/ s = new
    <3>1. s \in Slots(after) <=> \E b \in Accounts : \E i \in 1 .. after[b] : s = <<b, i>>
      BY <1>1, SlotsMembership
    <3>2. s \in Slots(inUse) <=> \E b \in Accounts : \E i \in 1 .. inUse[b] : s = <<b, i>>
      BY SlotsMembership
    <3>3. \A b \in Accounts : after[b] = IF b = a THEN inUse[b] + 1 ELSE inUse[b]
      OBVIOUS
    <3>4. \A b \in Accounts : inUse[b] \in Nat
      OBVIOUS
    <3> HIDE DEF after
    <3>5. ASSUME s \in Slots(after) PROVE s \in Slots(inUse) \/ s = new
      <4>1. PICK b \in Accounts : \E i \in 1 .. after[b] : s = <<b, i>>
        BY <3>1, <3>5
      <4>2. PICK i \in 1 .. after[b] : s = <<b, i>>
        BY <4>1
      <4>3. i \in 1 .. inUse[b] \/ (b = a /\ i = inUse[b] + 1)
        BY <3>3, <3>4, <4>2
      <4>4. QED BY <3>2, <4>2, <4>3
    <3>6. ASSUME s \in Slots(inUse) PROVE s \in Slots(after)
      BY <3>1, <3>2, <3>3, <3>4, <3>6
    <3>7. ASSUME s = new PROVE s \in Slots(after)
      <4>1. inUse[a] + 1 \in 1 .. after[a]
        BY <3>3, <3>4
      <4>2. QED BY <3>1, <3>7, <4>1
    <3>8. QED BY <3>5, <3>6, <3>7
  <2>2. QED BY <2>1
<1> HIDE DEF after, new
<1>4. /\ IsFiniteSet(Slots(after))
      /\ Cardinality(Slots(after)) = Cardinality(Slots(inUse)) + 1
  BY <1>2, <1>3, FS_AddElement
<1>5. QED BY <1>4 DEF after

(* One less in a positive counter is one occupied slot less. *)
LEMMA SlotsShrink ==
  ASSUME NEW inUse \in [Accounts -> Nat], NEW a \in Accounts, inUse[a] # 0,
         IsFiniteSet(Slots(inUse))
  PROVE  LET after == [inUse EXCEPT ![a] = @ - 1]
         IN  /\ IsFiniteSet(Slots(after))
             /\ Cardinality(Slots(after)) = Cardinality(Slots(inUse)) - 1
<1> DEFINE after == [inUse EXCEPT ![a] = @ - 1]
<1>1. after \in [Accounts -> Nat]
  OBVIOUS
<1>2. inUse = [after EXCEPT ![a] = @ + 1]
  <2>1. \A b \in Accounts : inUse[b] = [after EXCEPT ![a] = @ + 1][b]
    OBVIOUS
  <2>2. [after EXCEPT ![a] = @ + 1] \in [Accounts -> Nat]
    BY <1>1
  <2> HIDE DEF after
  <2>3. QED BY <2>1, <2>2
<1>3. Slots(after) \subseteq Slots(inUse)
  <2>1. \A b \in Accounts : after[b] \in Nat /\ inUse[b] \in Nat /\ after[b] <= inUse[b]
    OBVIOUS
  <2> HIDE DEF after
  <2>2. SUFFICES ASSUME NEW s \in Slots(after) PROVE s \in Slots(inUse)
    OBVIOUS
  <2>3. PICK b \in Accounts : \E i \in 1 .. after[b] : s = <<b, i>>
    BY <1>1, SlotsMembership
  <2>4. PICK i \in 1 .. after[b] : s = <<b, i>>
    BY <2>3
  <2>5. i \in 1 .. inUse[b]
    BY <2>1
  <2>6. QED BY <2>4, <2>5, SlotsMembership
<1> HIDE DEF after
<1>4. IsFiniteSet(Slots(after))
  BY <1>3, FS_Subset
<1>5. Cardinality(Slots(inUse)) = Cardinality(Slots(after)) + 1
  BY <1>1, <1>2, <1>4, SlotsGrow
<1>6. Cardinality(Slots(after)) \in Nat
  BY <1>4, FS_CardinalityType
<1>7. QED BY <1>4, <1>5, <1>6 DEF after

(* No account in use, no slot occupied. *)
LEMMA SlotsEmpty ==
  ASSUME NEW inUse \in [Accounts -> Nat], \A a \in Accounts : inUse[a] = 0
  PROVE  IsFiniteSet(Slots(inUse)) /\ Cardinality(Slots(inUse)) = 0
<1>1. Slots(inUse) = {}
  BY SlotsMembership
<1>2. QED BY <1>1, FS_EmptySet

----------------------------------------------------------------------------
(* Holders *)

(* The holders of an account, and the leases, are finitely many. *)
LEMMA HoldersFinite ==
  ASSUME NEW h
  PROVE  /\ \A a \in Accounts : IsFiniteSet(HoldersIn(h, a)) /\ Cardinality(HoldersIn(h, a)) \in Nat
         /\ IsFiniteSet(LeasesIn(h)) /\ Cardinality(LeasesIn(h)) \in Nat
<1>1. LeasesIn(h) \subseteq Callers /\ \A a \in Accounts : HoldersIn(h, a) \subseteq Callers
  BY DEF LeasesIn, HoldersIn
<1>2. IsFiniteSet(Callers)
  BY FiniteAssumption
<1>3. IsFiniteSet(LeasesIn(h)) /\ \A a \in Accounts : IsFiniteSet(HoldersIn(h, a))
  BY <1>1, <1>2, FS_Subset
<1>4. QED BY <1>3, FS_CardinalityType

(* A grant adds one holder to its account and one lease. *)
LEMMA HoldersGrow ==
  ASSUME NEW h \in [Callers -> Accounts \cup {None}], NEW g,
         NEW c \in Callers, NEW a \in Accounts,
         h[c] = None, g[c] = a, \A d \in Callers : d # c => g[d] = h[d]
  PROVE  /\ Cardinality(HoldersIn(g, a)) = Cardinality(HoldersIn(h, a)) + 1
         /\ \A b \in Accounts : b # a =>
              Cardinality(HoldersIn(g, b)) = Cardinality(HoldersIn(h, b))
         /\ Cardinality(LeasesIn(g)) = Cardinality(LeasesIn(h)) + 1
<1>1. HoldersIn(g, a) = HoldersIn(h, a) \cup {c} /\ c \notin HoldersIn(h, a)
  BY NoneAssumption DEF HoldersIn
<1>2. \A b \in Accounts : b # a => HoldersIn(g, b) = HoldersIn(h, b)
  BY NoneAssumption DEF HoldersIn
<1>3. LeasesIn(g) = LeasesIn(h) \cup {c} /\ c \notin LeasesIn(h)
  BY NoneAssumption DEF LeasesIn
<1>4. Cardinality(HoldersIn(g, a)) = Cardinality(HoldersIn(h, a)) + 1
  BY <1>1, HoldersFinite, FS_AddElement
<1>5. Cardinality(LeasesIn(g)) = Cardinality(LeasesIn(h)) + 1
  BY <1>3, HoldersFinite, FS_AddElement
<1>6. QED BY <1>2, <1>4, <1>5

(* A return takes one holder from its account and one lease away. *)
LEMMA HoldersShrink ==
  ASSUME NEW h \in [Callers -> Accounts \cup {None}], NEW g,
         NEW c \in Callers, NEW a \in Accounts,
         h[c] = a, g[c] = None, \A d \in Callers : d # c => g[d] = h[d]
  PROVE  /\ Cardinality(HoldersIn(h, a)) = Cardinality(HoldersIn(g, a)) + 1
         /\ \A b \in Accounts : b # a =>
              Cardinality(HoldersIn(h, b)) = Cardinality(HoldersIn(g, b))
         /\ Cardinality(LeasesIn(h)) = Cardinality(LeasesIn(g)) + 1
<1>1. HoldersIn(h, a) = HoldersIn(g, a) \cup {c} /\ c \notin HoldersIn(g, a)
  BY NoneAssumption DEF HoldersIn
<1>2. \A b \in Accounts : b # a => HoldersIn(g, b) = HoldersIn(h, b)
  BY NoneAssumption DEF HoldersIn
<1>3. LeasesIn(h) = LeasesIn(g) \cup {c} /\ c \notin LeasesIn(g)
  BY NoneAssumption DEF LeasesIn
<1>4. Cardinality(HoldersIn(h, a)) = Cardinality(HoldersIn(g, a)) + 1
  BY <1>1, HoldersFinite, FS_AddElement
<1>5. Cardinality(LeasesIn(h)) = Cardinality(LeasesIn(g)) + 1
  BY <1>3, HoldersFinite, FS_AddElement
<1>6. QED BY <1>2, <1>4, <1>5
============================================================================
