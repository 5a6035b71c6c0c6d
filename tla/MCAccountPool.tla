--------------------------- MODULE MCAccountPool ---------------------------
(* Small instances of AccountPool for TLC. *)
EXTENDS AccountPool, TLC

CONSTANTS a1, a2

AnyAccount == [target |-> None, exclude |-> {}]
Pinned == [target |-> a1, exclude |-> {}]
NotFirst == [target |-> None, exclude |-> {a1}]

MCRequests == {AnyAccount, Pinned, NotFirst}
PlainRequests == {AnyAccount, Pinned}

Tight == [maxPer |-> 1, maxQueue |-> Unset, global |-> Unset]
OneGlobal == [maxPer |-> 2, maxQueue |-> 1, global |-> 1]
Wide == [maxPer |-> 2, maxQueue |-> 2, global |-> 3]

OneSetting == {Tight}
TwoSettings == {Tight, Wide}
MCSettings == {Tight, OneGlobal, Wide}

BothAccounts == {<<a1, a2>>}
MCStores == {<<a1, a2>>, <<a2>>, <<>>}

CallerSymmetry == Permutations(Callers)
============================================================================
