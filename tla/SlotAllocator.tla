--------------------------- MODULE SlotAllocator ---------------------------
(***************************************************************************)
(* What the account pool promises its callers, without queues, counters    *)
(* or waiting: an account is handed out only while fewer leases on it are  *)
(* alive than the per-account limit allows and fewer leases in total than  *)
(* the global limit allows; a lease ends only when its holder returns it.  *)
(***************************************************************************)
EXTENDS Naturals, FiniteSets

CONSTANTS
  Accounts, Callers,
  NoAccount   \* not one of the Accounts

VARIABLES
  held,     \* held[c]: the account caller c holds, or NoAccount
  perLimit, \* leases one account may carry
  total     \* leases all accounts may carry together, 0: no bound

vars == <<held, perLimit, total>>

Holders(a) == {c \in Callers : held[c] = a}
Leases == {c \in Callers : held[c] # NoAccount}

Init ==
  /\ held = [c \in Callers |-> NoAccount]
  /\ perLimit \in Nat
  /\ total \in Nat

Grant(c, a) ==
  /\ held[c] = NoAccount
  /\ Cardinality(Holders(a)) < perLimit
  /\ total > 0 => Cardinality(Leases) < total
  /\ held' = [held EXCEPT ![c] = a]
  /\ UNCHANGED <<perLimit, total>>

Return(c) ==
  /\ held[c] # NoAccount
  /\ held' = [held EXCEPT ![c] = NoAccount]
  /\ UNCHANGED <<perLimit, total>>

SetLimits ==
  /\ perLimit' \in Nat
  /\ total' \in Nat
  /\ UNCHANGED held

Next ==
  \/ \E c \in Callers, a \in Accounts : Grant(c, a)
  \/ \E c \in Callers : Return(c)
  \/ SetLimits

Spec == Init /\ [][Next]_vars
============================================================================
