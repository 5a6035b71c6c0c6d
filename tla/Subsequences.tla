----------------------------- MODULE Subsequences -----------------------------
(***************************************************************************)
(* Parts of sequences by their positions: what SelectSeq and a stable sort *)
(* give, said without recursion.                                           *)
(***************************************************************************)
EXTENDS Naturals, Sequences, FiniteSets

(* The place of position i among the positions of a set *)
Rank(positions, i) == Cardinality({j \in positions : j <= i})

(* The elements at the positions, in their order *)
Picked(s, positions) ==
  [k \in 1 .. Cardinality(positions) |-> s[CHOOSE i \in positions : Rank(positions, i) = k]]

(* The numbers of a set in their order *)
InOrder(numbers) ==
  [k \in 1 .. Cardinality(numbers) |-> CHOOSE n \in numbers : Rank(numbers, n) = k]

(* Triples one after the other *)
Joined(triples) ==
  [k \in 1 .. 3 * Len(triples) |-> triples[(k + 2) \div 3][1 + ((k + 2) % 3)]]

Where(s, Test(_)) == Picked(s, {i \in DOMAIN s : Test(s[i])})

(* How many elements of the sequence are in the set *)
Count(s, set) == Cardinality({i \in DOMAIN s : s[i] \in set})

(* By a number; what has the same number stays in its order *)
SortedBy(s, Number(_)) ==
  [k \in DOMAIN s |->
     s[CHOOSE i \in DOMAIN s :
         Cardinality({j \in DOMAIN s : \/ Number(s[j]) < Number(s[i])
                                       \/ Number(s[j]) = Number(s[i]) /\ j <= i}) = k]]
===============================================================================
