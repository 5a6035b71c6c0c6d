----------------------------- MODULE StoreProofs -----------------------------
(***************************************************************************)
(* Proofs about the stores beside the configuration: what a page is told   *)
(* of its sample (RawSamples), who finds a finished response               *)
(* (ResponseStore), which reasoning is given back (ThinkingCache), what    *)
(* the statistics count (TokenStats), which rounds a session's chain and a *)
(* page's sample have (DevCapture), and what of an answer the clients of   *)
(* the other APIs get (ApiStreams).                                        *)
(***************************************************************************)
EXTENDS Stores, Subsequences, FiniteSetTheorems, FunctionTheorems, SequenceTheorems, TLAPS

(***************************************************************************)
(* What the composition does with one store is what that store does by     *)
(* itself.                                                                 *)
(***************************************************************************)
LEMMA StoresApart == Spec => T!Spec /\ R!Spec /\ S!Spec /\ C!Spec /\ D!Spec /\ Api!Spec
<1>1. Init => T!Init /\ R!Init /\ S!Init /\ C!Init /\ D!Init /\ Api!Init
  BY DEF Init
<1>2. [Next]_vars => [T!Next]_T!vars
  BY DEF Next, vars, thinking, T!vars
<1>3. [Next]_vars => [R!Next]_R!vars
  BY DEF Next, vars, responses, R!vars
<1>4. [Next]_vars => [D!Next]_D!vars
  BY DEF Next, vars, samples, D!vars
<1>5. [Next]_vars => [S!Next]_S!vars
  BY DEF Next, vars, tokens, S!vars
<1>6. [Next]_vars => [C!Next]_C!vars
  BY DEF Next, vars, captures, C!vars
<1>7. [Next]_vars => [Api!Next]_Api!vars
  BY DEF Next, vars, streams, Api!vars
<1> QED
  BY <1>1, <1>2, <1>3, <1>4, <1>5, <1>6, <1>7, PTL
     DEF Spec, T!Spec, R!Spec, S!Spec, C!Spec, D!Spec, Api!Spec

----------------------------------------------------------------------------
(* Parts of sequences *)

(***************************************************************************)
(* The places of a set of positions are the numbers up to its size, in     *)
(* order and each once.                                                    *)
(***************************************************************************)
LEMMA Ranks ==
  ASSUME NEW n \in Nat, NEW I \in SUBSET (1 .. n)
  PROVE  /\ IsFiniteSet(I) /\ Cardinality(I) \in Nat
         /\ \A i \in I : Rank(I, i) \in 1 .. Cardinality(I)
         /\ \A i, j \in I : i < j => Rank(I, i) < Rank(I, j)
         /\ \A i, j \in I : Rank(I, i) = Rank(I, j) => i = j
         /\ \A k \in 1 .. Cardinality(I) : \E i \in I : Rank(I, i) = k
<1> DEFINE Upto(i) == {j \in I : j <= i}
           c == Cardinality(I)
           f == [i \in I |-> Rank(I, i)]
<1> HIDE DEF Upto
<1>1. IsFiniteSet(I) /\ c \in Nat /\ \A i \in I : i \in Int
  <2>1. IsFiniteSet(1 .. n)
    BY FS_Interval
  <2>2. IsFiniteSet(I)
    BY <2>1, FS_Subset
  <2> QED
    BY <2>2, FS_CardinalityType
<1>2. ASSUME NEW i \in I
      PROVE  IsFiniteSet(Upto(i)) /\ Rank(I, i) \in 1 .. c
  <2>1. Upto(i) \in SUBSET I /\ i \in Upto(i)
    BY <1>1 DEF Upto
  <2>2. IsFiniteSet(Upto(i)) /\ Cardinality(Upto(i)) <= c
    BY <1>1, <2>1, FS_Subset
  <2>3. Cardinality(Upto(i)) \in Nat /\ Cardinality(Upto(i)) # 0
    BY <2>1, <2>2, FS_CardinalityType, FS_EmptySet
  <2> QED
    BY <1>1, <2>2, <2>3 DEF Rank, Upto
<1>3. ASSUME NEW i \in I, NEW j \in I, i < j
      PROVE  Rank(I, i) < Rank(I, j)
  <2>1. i \in Int /\ j \in Int /\ \A k \in I : k <= i => k <= j
    BY <1>1, <1>3
  <2>4. Upto(i) \in SUBSET Upto(j) /\ j \in Upto(j) /\ j \notin Upto(i)
    <3>1. \A k \in Upto(i) : k \in I /\ k <= j
      BY <2>1 DEF Upto
    <3>2. j <= j /\ ~(j <= i)
      BY <1>3, <2>1
    <3> QED
      BY <3>1, <3>2 DEF Upto
  <2>2. Cardinality(Upto(i)) <= Cardinality(Upto(j)) /\ Cardinality(Upto(i)) # Cardinality(Upto(j))
    BY <1>2, <2>4, FS_Subset
  <2>3. Cardinality(Upto(i)) \in Nat /\ Cardinality(Upto(j)) \in Nat
    BY <1>2, FS_CardinalityType
  <2> QED
    BY <2>2, <2>3 DEF Rank, Upto
<1>0. ASSUME NEW i \in I, NEW j \in I, Rank(I, i) = Rank(I, j)
      PROVE  i = j
  <2>1. i \in Int /\ j \in Int /\ Rank(I, i) \in Int
    BY <1>1, <1>2
  <2>2. ~(Rank(I, i) < Rank(I, j)) /\ ~(Rank(I, j) < Rank(I, i))
    BY <1>0, <2>1
  <2>3. ~(i < j) /\ ~(j < i)
    BY <1>3, <2>2
  <2> QED
    BY <2>1, <2>3
<1>4. f \in Injection(I, 1 .. c)
  BY <1>0, <1>2, Fun_IsInj
<1>5. f \in Surjection(I, 1 .. c)
  <2>1. IsFiniteSet(1 .. c) /\ Cardinality(1 .. c) = c
    BY <1>1, FS_Interval
  <2> QED
    BY <1>4, <2>1, FS_Injection
<1>6. \A k \in 1 .. c : \E i \in I : Rank(I, i) = k
  <2>1. \A i \in I : f[i] = Rank(I, i)
    OBVIOUS
  <2> HIDE DEF f
  <2>2. \A k \in 1 .. c : \E i \in I : f[i] = k
    BY <1>5, Fun_SurjectionProperties
  <2> QED
    BY <2>1, <2>2
<1> QED
  BY <1>0, <1>1, <1>2, <1>3, <1>6

(* A part of a sequence has the elements at their places *)
LEMMA PickedElements ==
  ASSUME NEW X, NEW s \in Seq(X), NEW I \in SUBSET DOMAIN s
  PROVE  /\ Picked(s, I) \in Seq(X)
         /\ Len(Picked(s, I)) = Cardinality(I) /\ DOMAIN Picked(s, I) = 1 .. Cardinality(I)
         /\ \A i \in I : Picked(s, I)[Rank(I, i)] = s[i]
<1> DEFINE c == Cardinality(I)
           At(k) == CHOOSE i \in I : Rank(I, i) = k
<1>1. Len(s) \in Nat /\ DOMAIN s = 1 .. Len(s) /\ I \in SUBSET (1 .. Len(s))
  OBVIOUS
<1>2. c \in Nat /\ \A k \in 1 .. c : At(k) \in I /\ Rank(I, At(k)) = k
  BY <1>1, Ranks
<1>3. \A k \in 1 .. c : s[At(k)] \in X
  BY <1>2
<1>4. Picked(s, I) = [k \in 1 .. c |-> s[At(k)]]
  BY DEF Picked
<1> HIDE DEF At
<1>5. Picked(s, I) \in Seq(X) /\ Len(Picked(s, I)) = c /\ DOMAIN Picked(s, I) = 1 .. c
  BY <1>2, <1>3, <1>4
<1>6. ASSUME NEW i \in I
      PROVE  Picked(s, I)[Rank(I, i)] = s[i]
  <2>1. Rank(I, i) \in 1 .. c
    BY <1>1, Ranks
  <2>2. At(Rank(I, i)) \in I /\ Rank(I, At(Rank(I, i))) = Rank(I, i)
    BY <1>2, <2>1
  <2>3. At(Rank(I, i)) = i
    BY <1>1, <2>2, Ranks
  <2> QED
    BY <1>4, <2>1, <2>3
<1> QED
  BY <1>5, <1>6

(* A part of a sequence has of each set as many elements as the positions *)
LEMMA PickedCount ==
  ASSUME NEW X, NEW s \in Seq(X), NEW I \in SUBSET DOMAIN s, NEW A
  PROVE  /\ Count(Picked(s, I), A) = Cardinality({i \in I : s[i] \in A})
         /\ Count(Picked(s, I), A) \in Nat
<1> DEFINE p == Picked(s, I)
           J == {i \in I : s[i] \in A}
           K == {k \in DOMAIN p : p[k] \in A}
           f == [i \in J |-> Rank(I, i)]
<1>1. Len(s) \in Nat /\ DOMAIN s = 1 .. Len(s) /\ I \in SUBSET (1 .. Len(s))
  OBVIOUS
<1>a. /\ \A i \in I : Rank(I, i) \in 1 .. Cardinality(I)
      /\ \A i, j \in I : Rank(I, i) = Rank(I, j) => i = j
      /\ \A k \in 1 .. Cardinality(I) : \E i \in I : Rank(I, i) = k
  BY <1>1, Ranks
<1>b. DOMAIN p = 1 .. Cardinality(I) /\ \A i \in I : p[Rank(I, i)] = s[i]
  BY PickedElements
<1> HIDE DEF p
<1>2. \A i \in J : Rank(I, i) \in K
  BY <1>a, <1>b
<1>3. \A i, j \in J : Rank(I, i) = Rank(I, j) => i = j
  BY <1>a
<1>4. ASSUME NEW k \in K
      PROVE  \E i \in J : Rank(I, i) = k
  <2>0. k \in 1 .. Cardinality(I) /\ p[k] \in A
    BY <1>b
  <2>1. PICK i \in I : Rank(I, i) = k
    BY <1>a, <2>0
  <2> QED
    BY <1>b, <2>0, <2>1
<1>5. f \in Bijection(J, K)
  BY <1>2, <1>3, <1>4, Fun_IsBij
<1>6. IsFiniteSet(J)
  BY <1>1, Ranks, FS_Subset
<1>7. ExistsBijection(J, K)
  BY <1>5 DEF ExistsBijection
<1> QED
  BY <1>6, <1>7, FS_Bijection, FS_CardinalityType DEF Count, p

(* An element more *)
LEMMA AppendCount ==
  ASSUME NEW X, NEW s \in Seq(X), NEW x \in X, NEW A
  PROVE  /\ Count(s, A) \in Nat
         /\ Count(Append(s, x), A) = IF x \in A THEN Count(s, A) + 1 ELSE Count(s, A)
<1> DEFINE J == {i \in DOMAIN s : s[i] \in A}
           t == Append(s, x)
           K == {i \in DOMAIN t : t[i] \in A}
           n == Len(s) + 1
<1>1. /\ t \in Seq(X) /\ DOMAIN t = 1 .. n /\ t[n] = x /\ n \notin DOMAIN s
      /\ DOMAIN s = 1 .. Len(s) /\ \A i \in DOMAIN s : i \in DOMAIN t /\ t[i] = s[i]
  OBVIOUS
<1>2. K = IF x \in A THEN J \cup {n} ELSE J
  BY <1>1
<1>3. IsFiniteSet(J) /\ n \notin J
  BY <1>1, FS_Interval, FS_Subset
<1>4. Count(s, A) = Cardinality(J) /\ Count(t, A) = Cardinality(K)
  BY DEF Count
<1> HIDE DEF J, K, t, n
<1>5. Cardinality(J) \in Nat /\ Cardinality(J \cup {n}) = Cardinality(J) + 1
  BY <1>3, FS_AddElement, FS_CardinalityType
<1> QED
  BY <1>2, <1>4, <1>5 DEF t

(* The positions up to one and those after it *)
LEMMA RankAndAfter ==
  ASSUME NEW n \in Nat, NEW I \in SUBSET (1 .. n), NEW i \in I
  PROVE  /\ Cardinality(I) = Rank(I, i) + Cardinality({j \in I : i < j})
         /\ Cardinality({j \in I : i < j}) \in Nat /\ Rank(I, i) \in Nat
<1> DEFINE Upto  == {j \in I : j <= i}
           After == {j \in I : i < j}
<1>1. \A j \in I : j \in Int /\ (j <= i \/ i < j) /\ ~(j <= i /\ i < j)
  OBVIOUS
<1>2. I = Upto \cup After /\ Upto \cap After = {} /\ Upto \in SUBSET I /\ After \in SUBSET I
  BY <1>1
<1>3. Rank(I, i) = Cardinality(Upto)
  BY DEF Rank
<1> HIDE DEF Upto, After
<1>4. IsFiniteSet(Upto) /\ IsFiniteSet(After)
  BY <1>2, Ranks, FS_Subset
<1>5. Cardinality(Upto \cup After) = Cardinality(Upto) + Cardinality(After) - Cardinality({})
  BY <1>2, <1>4, FS_Union
<1>6. Cardinality({}) = 0 /\ Cardinality(Upto) \in Nat /\ Cardinality(After) \in Nat
  BY <1>4, FS_EmptySet, FS_CardinalityType
<1>7. Cardinality(I) = Rank(I, i) + Cardinality(After)
  BY <1>2, <1>3, <1>5, <1>6
<1> QED
  BY <1>3, <1>6, <1>7 DEF After

(***************************************************************************)
(* A part of one sequence ends another's, if the positions of the first    *)
(* map in order to positions of the second with the same elements, and to  *)
(* all of these from some position on.                                     *)
(***************************************************************************)
Ends(s, I, t, J, f) ==
  /\ f \in [I -> J]
  /\ \A i \in I : s[i] = t[f[i]]
  /\ \A i, j \in I : i < j => f[i] < f[j]
  /\ \A i \in I : \A q \in J : f[i] < q => \E j \in I : f[j] = q

(* so that it has the last ones of the elements *)
LEMMA PickedSuffix ==
  ASSUME NEW X, NEW s \in Seq(X), NEW I \in SUBSET DOMAIN s,
         NEW t \in Seq(X), NEW J \in SUBSET DOMAIN t, NEW f, Ends(s, I, t, J, f)
  PROVE  /\ Cardinality(I) \in Nat /\ Cardinality(J) \in Nat
         /\ Cardinality(I) <= Cardinality(J)
         /\ \A k \in 1 .. Cardinality(I) :
              Picked(s, I)[k] = Picked(t, J)[Cardinality(J) - Cardinality(I) + k]
         /\ (\A q \in J : \E i \in I : f[i] = q) => Cardinality(I) = Cardinality(J)
<1> DEFINE a == Cardinality(I)
           b == Cardinality(J)
           After(positions, i) == {j \in positions : i < j}
<1>0. Len(s) \in Nat /\ I \in SUBSET (1 .. Len(s)) /\ Len(t) \in Nat /\ J \in SUBSET (1 .. Len(t))
  OBVIOUS
<1> USE DEF Ends
<1>1. IsFiniteSet(I) /\ IsFiniteSet(J) /\ a \in Nat /\ b \in Nat
  BY <1>0, Ranks
<1>2. (\A i \in I : i \in Int) /\ (\A q \in J : q \in Int)
  BY <1>0
<1>3. \A i, j \in I : f[i] = f[j] => i = j
  BY <1>2
<1>4. f \in Injection(I, J)
  BY <1>3, Fun_IsInj
<1>5. a <= b
  BY <1>1, <1>4, FS_Injection
<1>7. ASSUME NEW i \in I
      PROVE  Cardinality(After(J, f[i])) = Cardinality(After(I, i))
  <2> DEFINE g == [j \in After(I, i) |-> f[j]]
  <2>1. \A j \in After(I, i) : f[j] \in After(J, f[i])
    OBVIOUS
  <2>2. \A q \in After(J, f[i]) : \E j \in After(I, i) : f[j] = q
    <3> SUFFICES ASSUME NEW q \in J, f[i] < q
                 PROVE  \E j \in I : i < j /\ f[j] = q
      OBVIOUS
    <3>1. PICK j \in I : f[j] = q
      OBVIOUS
    <3>2. i \in Int /\ j \in Int /\ f[i] \in Int /\ q \in Int
      BY <1>2
    <3>3. ~(j < i) /\ j # i
      BY <3>1, <3>2
    <3> QED
      BY <3>1, <3>2, <3>3
  <2>3. g \in Bijection(After(I, i), After(J, f[i]))
    <3>1. \A j, k \in After(I, i) : f[j] = f[k] => j = k
      BY <1>3
    <3> HIDE DEF After
    <3>2. g \in [After(I, i) -> After(J, f[i])]
      BY <2>1
    <3> QED
      BY <2>2, <3>1, <3>2, Fun_IsBij
  <2>4. After(I, i) \in SUBSET I
    OBVIOUS
  <2> HIDE DEF After, g
  <2>5. ExistsBijection(After(I, i), After(J, f[i])) /\ IsFiniteSet(After(I, i))
    BY <1>1, <2>3, <2>4, FS_Subset DEF ExistsBijection
  <2> QED
    BY <2>5, FS_Bijection
<1>8. ASSUME NEW k \in 1 .. a
      PROVE  Picked(s, I)[k] = Picked(t, J)[b - a + k]
  <2>1. PICK i \in I : Rank(I, i) = k
    BY <1>0, Ranks
  <2>2. I \in SUBSET Int /\ J \in SUBSET Int /\ f[i] \in J
    BY <1>2
  <2>3. a = k + Cardinality(After(I, i)) /\ Cardinality(After(I, i)) \in Nat
    BY <1>0, <2>1, RankAndAfter
  <2>4. /\ b = Rank(J, f[i]) + Cardinality(After(J, f[i]))
        /\ Cardinality(After(J, f[i])) \in Nat /\ Rank(J, f[i]) \in Nat
    BY <1>0, <2>2, RankAndAfter
  <2> HIDE DEF After
  <2>5. Cardinality(After(J, f[i])) = Cardinality(After(I, i))
    BY <1>7
  <2>6. Rank(J, f[i]) = b - a + k
    BY <1>1, <2>3, <2>4, <2>5
  <2>7. Picked(s, I)[k] = s[i]
    BY <2>1, PickedElements
  <2>8. Picked(t, J)[Rank(J, f[i])] = t[f[i]]
    BY <2>2, PickedElements
  <2>9. s[i] = t[f[i]]
    OBVIOUS
  <2> QED
    BY <2>6, <2>7, <2>8, <2>9
<1>9. ASSUME \A q \in J : \E i \in I : f[i] = q
      PROVE  a = b
  <2>1. f \in Surjection(I, J)
    BY <1>9, Fun_IsSurj
  <2> QED
    BY <1>1, <1>4, <2>1, FS_Injection
<1> QED
  BY <1>1, <1>5, <1>8, <1>9

(* The stores' own copies of the operators on parts of sequences *)
LEMMA StatsPicked ==
  ASSUME NEW s, NEW I
  PROVE  S!Picked(s, I) = Picked(s, I) /\ S!Cardinality(I) = Cardinality(I)
<1>1. \A set : S!Cardinality(set) = Cardinality(set)
  BY DEF S!Cardinality, Cardinality
<1>2. S!Picked(s, I) = Picked(s, I)
  BY DEF S!Picked, Picked, S!Rank, Rank, S!Cardinality, Cardinality, S!IsFiniteSet, IsFiniteSet
<1> QED
  BY <1>1, <1>2

(* and the captures' *)
LEMMA CapturesPicked ==
  ASSUME NEW s, NEW I
  PROVE  C!Picked(s, I) = Picked(s, I)
  BY DEF C!Picked, Picked, C!Rank, Rank, C!Cardinality, Cardinality, C!IsFiniteSet, IsFiniteSet

(* A sequence turned round *)
LEMMA Reversed ==
  ASSUME NEW X, NEW s \in Seq(X)
  PROVE  /\ C!Reverse(s) \in Seq(X) /\ Len(C!Reverse(s)) = Len(s)
         /\ DOMAIN C!Reverse(s) = 1 .. Len(s)
         /\ \A i \in 1 .. Len(s) : C!Reverse(s)[i] = s[Len(s) - i + 1]
  BY DEF C!Reverse

(* What has the last elements of a sequence is a suffix of it *)
LEMMA ReversedSuffix ==
  ASSUME NEW X, NEW s \in Seq(X), NEW t \in Seq(X), Len(s) <= Len(t),
         \A k \in 1 .. Len(s) : s[k] = t[Len(t) - Len(s) + k]
  PROVE  C!IsSuffix(s, t)
<1> DEFINE u == C!Reverse(s)
           v == C!Reverse(t)
<1>0. Len(s) \in Nat /\ Len(t) \in Nat
  OBVIOUS
<1>1. u \in Seq(X) /\ Len(u) = Len(s) /\ \A i \in 1 .. Len(s) : u[i] = s[Len(s) - i + 1]
  BY Reversed
<1>2. v \in Seq(X) /\ Len(v) = Len(t) /\ \A i \in 1 .. Len(t) : v[i] = t[Len(t) - i + 1]
  BY Reversed
<1> HIDE DEF u, v
<1>3. ASSUME NEW i \in 1 .. Len(s)
      PROVE  u[i] = v[i]
  <2>1. Len(s) - i + 1 \in 1 .. Len(s) /\ i \in 1 .. Len(t)
    BY <1>0
  <2>2. s[Len(s) - i + 1] = t[Len(t) - Len(s) + (Len(s) - i + 1)]
    BY <2>1
  <2>3. Len(t) - Len(s) + (Len(s) - i + 1) = Len(t) - i + 1
    BY <1>0
  <2> QED
    BY <1>1, <1>2, <2>1, <2>2, <2>3
<1>4. SubSeq(u, 1, Len(u)) = SubSeq(v, 1, Len(u))
  BY <1>0, <1>1, <1>2, <1>3
<1> QED
  BY <1>0, <1>1, <1>2, <1>4 DEF C!IsSuffix, C!IsPrefix, u, v

----------------------------------------------------------------------------
(* Raw samples *)

Directory == [of : Requests \cup {None}, upstream : BOOLEAN, meta : BOOLEAN]

Whole(p) == [of |-> p, upstream |-> TRUE, meta |-> TRUE]

(***************************************************************************)
(* A page writes into a directory of its own, which is whole when it is    *)
(* promoted; a promoted directory stays as it is.                          *)
(***************************************************************************)
SamplesInv ==
  /\ at \in [Requests -> {"idle", "upstream", "meta", "promote"}]
  /\ dir \in [Requests -> Directory]
  /\ \A p \in Requests :
       /\ at[p] # "idle" => dir[p].of = p
       /\ at[p] \in {"meta", "promote"} => dir[p].upstream
       /\ at[p] = "promote" => dir[p].meta
  /\ D!AnsweredOnDisk

(* A step of a page that promotes nothing *)
LEMMA PageMoves ==
  ASSUME SamplesInv, NEW p \in Requests, NEW d \in Directory,
         NEW to \in {"idle", "upstream", "meta", "promote"},
         at' = [at EXCEPT ![p] = to], dir' = [dir EXCEPT ![p] = d],
         to # "idle" => d.of = p,
         to \in {"meta", "promote"} => d.upstream,
         to = "promote" => d.meta,
         UNCHANGED <<dirs, answered>>
  PROVE  SamplesInv'
<1>1. at' \in [Requests -> {"idle", "upstream", "meta", "promote"}] /\ dir' \in [Requests -> Directory]
  BY DEF SamplesInv
<1>2. \A q \in Requests :
        /\ at'[q] # "idle" => dir'[q].of = q
        /\ at'[q] \in {"meta", "promote"} => dir'[q].upstream
        /\ at'[q] = "promote" => dir'[q].meta
  BY DEF SamplesInv
<1>3. D!AnsweredOnDisk'
  BY DEF SamplesInv, D!AnsweredOnDisk
<1> QED
  BY <1>1, <1>2, <1>3 DEF SamplesInv

(* Every step of the pages keeps their directories *)
LEMMA SamplesKept ==
  ASSUME SamplesInv, [D!Next]_D!vars
  PROVE  SamplesInv'
<1>1. ASSUME NEW p \in Requests, D!Choose(p)
      PROVE  SamplesInv'
  <2>1. [[of |-> None, upstream |-> FALSE, meta |-> FALSE] EXCEPT !.of = p] \in Directory
        /\ [[of |-> None, upstream |-> FALSE, meta |-> FALSE] EXCEPT !.of = p].of = p
    BY DEF Directory
  <2>2. PICK d \in Directory : d = [D!Empty EXCEPT !.of = p] /\ d.of = p
    BY <2>1 DEF D!Empty
  <2>3. /\ at' = [at EXCEPT ![p] = "upstream"] /\ dir' = [dir EXCEPT ![p] = d]
        /\ UNCHANGED <<dirs, answered>>
    BY <1>1, <2>2 DEF D!Choose, D!Goto
  <2> QED
    BY <2>2, <2>3, PageMoves
<1>2. ASSUME NEW p \in Requests, D!WriteFile(p, "upstream", "meta")
      PROVE  SamplesInv'
  <2>1. PICK o \in Directory : o = dir[p] /\ o.of = p
    BY <1>2 DEF D!WriteFile, SamplesInv
  <2>2. [o EXCEPT !["upstream"] = TRUE] \in Directory
    BY DEF Directory
  <2>3. [o EXCEPT !["upstream"] = TRUE].of = o.of /\ [o EXCEPT !["upstream"] = TRUE].upstream
    BY DEF Directory
  <2>4. PICK d \in Directory : d = [o EXCEPT !["upstream"] = TRUE] /\ d.of = p /\ d.upstream
    BY <2>1, <2>2, <2>3
  <2>5. /\ at' = [at EXCEPT ![p] = "meta"] /\ dir' = [dir EXCEPT ![p] = d]
        /\ UNCHANGED <<dirs, answered>>
    BY <1>2, <2>1, <2>4 DEF D!WriteFile, D!Goto
  <2> QED
    BY <2>4, <2>5, PageMoves
<1>3. ASSUME NEW p \in Requests, D!WriteFile(p, "meta", "promote")
      PROVE  SamplesInv'
  <2>1. PICK o \in Directory : o = dir[p] /\ o.of = p /\ o.upstream
    BY <1>3 DEF D!WriteFile, SamplesInv
  <2>2. [o EXCEPT !["meta"] = TRUE] \in Directory
    BY DEF Directory
  <2>3. /\ [o EXCEPT !["meta"] = TRUE].of = o.of /\ [o EXCEPT !["meta"] = TRUE].meta
        /\ [o EXCEPT !["meta"] = TRUE].upstream = o.upstream
    BY DEF Directory
  <2>4. PICK d \in Directory : d = [o EXCEPT !["meta"] = TRUE] /\ d.of = p /\ d.upstream /\ d.meta
    BY <2>1, <2>2, <2>3
  <2>5. /\ at' = [at EXCEPT ![p] = "promote"] /\ dir' = [dir EXCEPT ![p] = d]
        /\ UNCHANGED <<dirs, answered>>
    BY <1>3, <2>1, <2>4 DEF D!WriteFile, D!Goto
  <2> QED
    BY <2>4, <2>5, PageMoves
<1>4. ASSUME NEW p \in Requests, D!Promote(p)
      PROVE  SamplesInv'
  <2>1. at[p] = "promote" /\ at' = [at EXCEPT ![p] = "idle"] /\ dir' = dir
    BY <1>4 DEF D!Promote, D!Goto
  <2>2. dir[p] = Whole(p)
    BY <2>1 DEF SamplesInv, Directory, Whole
  <2>3. D!AnsweredOnDisk'
    <3>1. CASE name[p] \in DOMAIN dirs
      BY <1>4, <3>1 DEF D!Promote, SamplesInv, D!AnsweredOnDisk
    <3>2. CASE name[p] \notin DOMAIN dirs
      <4>1. /\ dirs' = [n \in DOMAIN dirs \cup {name[p]} |-> IF n = name[p] THEN dir[p] ELSE dirs[n]]
            /\ answered' = answered \cup {[of |-> p, name |-> name[p]]}
        BY <1>4, <3>2 DEF D!Promote
      <4>2. dirs'[name[p]] = Whole(p) /\ name[p] \in DOMAIN dirs'
        BY <2>2, <4>1
      <4>3. \A a \in answered : a.name \in DOMAIN dirs' /\ dirs'[a.name] = dirs[a.name]
        BY <3>2, <4>1 DEF SamplesInv, D!AnsweredOnDisk
      <4>4. ASSUME NEW a \in answered'
            PROVE  a.name \in DOMAIN dirs' /\ dirs'[a.name] = Whole(a.of)
        <5>1. CASE a \in answered
          <6>1. dirs[a.name] = Whole(a.of)
            BY <5>1 DEF SamplesInv, D!AnsweredOnDisk, Whole
          <6> QED
            BY <4>3, <5>1, <6>1
        <5>2. CASE a = [of |-> p, name |-> name[p]]
          <6>1. a.name = name[p] /\ a.of = p
            BY <5>2
          <6> QED
            BY <4>2, <6>1
        <5> QED
          BY <4>1, <5>1, <5>2
      <4> QED
        BY <4>4 DEF D!AnsweredOnDisk, Whole
    <3> QED
      BY <3>1, <3>2
  <2> QED
    BY <2>1, <2>3 DEF SamplesInv
<1>5. ASSUME NEW p \in Requests, D!Fails(p)
      PROVE  SamplesInv'
  BY <1>5 DEF D!Fails, D!Goto, SamplesInv, D!AnsweredOnDisk
<1>6. CASE D!Stop
  BY <1>6 DEF D!Stop, SamplesInv, D!AnsweredOnDisk
<1>7. CASE UNCHANGED D!vars
  BY <1>7 DEF D!vars, SamplesInv, D!AnsweredOnDisk
<1> QED
  BY <1>1, <1>2, <1>3, <1>4, <1>5, <1>6, <1>7 DEF D!Next

(***************************************************************************)
(* A page finds the sample it was told is saved, its own and whole, of any *)
(* number of pages and whatever fails or stops.                            *)
(***************************************************************************)
THEOREM SamplesSaved == Spec => []AnsweredOnDisk
<1>1. D!Init => SamplesInv
  BY DEF D!Init, D!Empty, SamplesInv, Directory, D!AnsweredOnDisk
<1>2. SamplesInv /\ [D!Next]_D!vars => SamplesInv'
  BY SamplesKept
<1>3. SamplesInv => AnsweredOnDisk
  BY DEF SamplesInv, AnsweredOnDisk
<1> QED
  BY <1>1, <1>2, <1>3, StoresApart, PTL DEF D!Spec

----------------------------------------------------------------------------
(* Finished responses *)

Logged == [owner : Owners, time : Nat, asked : Nat]

Item == [owner : Owners, expires : Nat]

Key(id) == <<log[id].owner, id>>

(***************************************************************************)
(* What is kept is of a logged response, its owner's, until its time and   *)
(* no later than the store's time to live from then; what is not kept any  *)
(* more is over.                                                           *)
(***************************************************************************)
ResponseTypes ==
  /\ ttl \in Nat /\ setting \in TTLs /\ rnow \in Nat
  /\ log \in Seq(Logged)
  /\ ttl = 0 => log = <<>>
  /\ items \in [DOMAIN items -> Item]

Remembered(id) ==
  /\ log[id].owner # "" /\ log[id].time <= rnow
  /\ Key(id) \in DOMAIN items =>
       items[Key(id)] = [owner |-> log[id].owner, expires |-> log[id].time + ttl]
  /\ Key(id) \notin DOMAIN items => rnow > log[id].time + ttl

ResponsesInv ==
  /\ ResponseTypes
  /\ \A k \in DOMAIN items : \E id \in DOMAIN log : k = Key(id)
  /\ \A id \in DOMAIN log : Remembered(id)

(* What the sweep leaves, and that it leaves what is not over *)
LEMMA Swept ==
  ASSUME ResponsesInv
  PROVE  /\ DOMAIN R!sweep \subseteq DOMAIN items
         /\ \A k \in DOMAIN R!sweep : R!sweep[k] = items[k]
         /\ \A k \in DOMAIN items : k \in DOMAIN R!sweep <=> rnow <= items[k].expires
  BY DEF R!sweep

(* The time to live is that of the store once there is one *)
LEMMA TimeToLive ==
  ASSUME ResponsesInv
  PROVE  /\ R!getResponseStore \in Nat \ {0} /\ R!ResponsesStoreTTLSeconds \in Nat
         /\ log # <<>> => R!getResponseStore = ttl
  BY StoresAssumption DEF ResponsesInv, ResponseTypes, R!getResponseStore, R!ResponsesStoreTTLSeconds

(* The store is swept, by a request that may also be the first *)
LEMMA SweepKept ==
  ASSUME ResponsesInv,
         items' = R!sweep, ttl' = R!getResponseStore, UNCHANGED <<setting, rnow, log>>
  PROVE  ResponsesInv'
<1>1. ttl' \in Nat /\ ttl' # 0 /\ (log # <<>> => ttl' = ttl)
  BY TimeToLive
<1>2. items' \in [DOMAIN items' -> Item]
  BY Swept DEF ResponsesInv, ResponseTypes, R!sweep
<1>3. \A id \in DOMAIN log : Key(id)' = Key(id)
  BY DEF Key
<1>4. \A id \in DOMAIN log : ttl' = ttl
  BY <1>1 DEF ResponsesInv, ResponseTypes
<1>5. \A k \in DOMAIN items' : \E id \in DOMAIN log' : k = Key(id)'
  BY <1>3, Swept DEF ResponsesInv
<1>6. ASSUME NEW id \in DOMAIN log'
      PROVE  Remembered(id)'
  <2>1. id \in DOMAIN log /\ log' = log /\ rnow' = rnow /\ ttl' = ttl /\ Key(id)' = Key(id)
    BY <1>3, <1>4
  <2>2. log[id] \in Logged /\ Remembered(id) /\ rnow \in Nat /\ ttl \in Nat
    BY <2>1 DEF ResponsesInv, ResponseTypes
  <2>3. CASE Key(id) \in DOMAIN items
    <3>1. items[Key(id)] = [owner |-> log[id].owner, expires |-> log[id].time + ttl]
      BY <2>2, <2>3 DEF Remembered
    <3>2. items[Key(id)].expires = log[id].time + ttl
      BY <3>1
    <3>3. rnow <= log[id].time + ttl <=> ~(rnow > log[id].time + ttl)
      BY <2>2 DEF Logged
    <3> QED
      BY <2>1, <2>2, <2>3, <3>1, <3>2, <3>3, Swept DEF Remembered
  <2>4. CASE Key(id) \notin DOMAIN items
    BY <2>1, <2>2, <2>4, Swept DEF Remembered
  <2> QED
    BY <2>3, <2>4
<1>7. ResponseTypes'
  BY <1>1, <1>2 DEF ResponsesInv, ResponseTypes
<1> QED
  BY <1>5, <1>6, <1>7 DEF ResponsesInv

(* A response is put, for the time to live of the store *)
LEMMA PutKept ==
  ASSUME ResponsesInv,
         NEW owner \in Owners, R!put(owner)
  PROVE  ResponsesInv'
<1>1. PICK t \in Nat \ {0} : t = R!getResponseStore /\ (log # <<>> => t = ttl)
  BY TimeToLive
<1>2. PICK a \in Nat : a = R!ResponsesStoreTTLSeconds
  BY TimeToLive
<1>3. PICK n \in Nat : n = Len(log) + 1 /\ DOMAIN log = 1 .. n - 1 /\ n \notin DOMAIN log
  BY DEF ResponsesInv, ResponseTypes
<1>4. PICK e \in Logged : e = [owner |-> owner, time |-> rnow, asked |-> a]
  BY DEF ResponsesInv, ResponseTypes, Logged
<1>14. rnow \in Nat /\ t \in Nat /\ rnow + t \in Nat
  BY DEF ResponsesInv, ResponseTypes
<1>5. PICK x \in Item : x = [owner |-> owner, expires |-> rnow + t]
  BY <1>14 DEF Item
<1>6. /\ owner # "" /\ ttl' = t /\ setting' = setting /\ rnow' = rnow
      /\ log' = Append(log, e)
      /\ items' = [k \in DOMAIN R!sweep \cup {<<owner, n>>} |->
                     IF k = <<owner, n>> THEN x ELSE R!sweep[k]]
  BY <1>1, <1>2, <1>3, <1>4, <1>5 DEF R!put, R!responseStoreKey
<1>7. /\ log' \in Seq(Logged) /\ DOMAIN log' = DOMAIN log \cup {n} /\ log'[n] = e
      /\ \A id \in DOMAIN log : log'[id] = log[id] /\ log[id] \in Logged
  <2>1. log \in Seq(Logged) /\ e \in Logged
    BY <1>4 DEF ResponsesInv, ResponseTypes
  <2>2. /\ log' \in Seq(Logged) /\ Len(log') = Len(log) + 1
        /\ \A i \in 1 .. Len(log) : log'[i] = log[i]
        /\ log'[Len(log) + 1] = e
    <3>1. /\ Append(log, e) \in Seq(Logged) /\ Len(Append(log, e)) = Len(log) + 1
          /\ \A i \in 1 .. Len(log) : Append(log, e)[i] = log[i]
          /\ Append(log, e)[Len(log) + 1] = e
      BY <2>1, AppendProperties
    <3>2. log' = Append(log, e)
      BY <1>6
    <3> QED
      BY <3>1, <3>2
  <2>3. DOMAIN log' = 1 .. n /\ Len(log) = n - 1
    BY <1>3, <2>1, <2>2
  <2>4. 1 .. n = (1 .. n - 1) \cup {n}
    BY <1>3
  <2>5. \A id \in DOMAIN log : log[id] \in Logged
    BY <2>1
  <2>6. DOMAIN log = 1 .. Len(log) /\ Len(log) + 1 = n
    BY <1>3, <2>1, <2>3
  <2>7. \A id \in DOMAIN log : log'[id] = log[id]
    BY <2>2, <2>6
  <2>8. log'[n] = e
    BY <2>2, <2>6
  <2>9. DOMAIN log' = DOMAIN log \cup {n}
    BY <1>3, <2>3, <2>4
  <2> QED
    BY <2>2, <2>5, <2>7, <2>8, <2>9
<1>8. Key(n)' = <<owner, n>> /\ \A id \in DOMAIN log : Key(id)' = Key(id) /\ Key(id) # <<owner, n>>
  BY <1>3, <1>4, <1>7 DEF Key
<1>9. items' \in [DOMAIN items' -> Item] /\ DOMAIN items' = DOMAIN R!sweep \cup {<<owner, n>>}
  BY <1>6, Swept DEF ResponsesInv, ResponseTypes
<1>10. \A k \in DOMAIN items' : \E id \in DOMAIN log' : k = Key(id)'
  BY <1>7, <1>8, <1>9, Swept DEF ResponsesInv
<1>11. \A id \in DOMAIN log : t = ttl
  BY <1>1 DEF ResponsesInv, ResponseTypes
<1>12. ASSUME NEW id \in DOMAIN log'
       PROVE  Remembered(id)'
  <2>1. CASE id = n
    <3>1. items'[Key(id)'] = x /\ Key(id)' \in DOMAIN items'
      BY <1>6, <1>8, <1>9, <2>1
    <3>2. log'[id].owner = owner /\ log'[id].time = rnow
      BY <1>4, <1>7, <2>1
    <3>6. rnow' = rnow /\ ttl' = t
      BY <1>6
    <3>3. rnow' = rnow /\ ttl' = t /\ rnow <= rnow
      BY <3>6, <1>14
    <3>4. items'[Key(id)'] = [owner |-> log'[id].owner, expires |-> log'[id].time + ttl']
      BY <1>5, <3>1, <3>2, <3>3
    <3>5. log'[id].owner # "" /\ log'[id].time <= rnow'
      BY <1>6, <3>2, <3>3
    <3> QED
      BY <3>1, <3>4, <3>5 DEF Remembered
  <2>2. CASE id \in DOMAIN log
    <3>1. log'[id] = log[id] /\ log[id] \in Logged /\ Key(id)' = Key(id) /\ Key(id) # <<owner, n>>
      BY <1>7, <1>8, <2>2
    <3>2. ttl' = ttl /\ rnow' = rnow
      BY <1>6, <1>11, <2>2
    <3>3. Key(id) \in DOMAIN items' <=> Key(id) \in DOMAIN R!sweep
      BY <1>9, <3>1
    <3>4. Key(id) \in DOMAIN R!sweep => items'[Key(id)] = items[Key(id)]
      BY <1>6, <3>1, Swept
    <3>5. Remembered(id) /\ rnow \in Nat /\ ttl \in Nat
      BY <2>2 DEF ResponsesInv, ResponseTypes
    <3>6. CASE Key(id) \in DOMAIN items
      <4>1. items[Key(id)] = [owner |-> log[id].owner, expires |-> log[id].time + ttl]
        BY <3>5, <3>6 DEF Remembered
      <4>2. items[Key(id)].expires = log[id].time + ttl
        BY <4>1
      <4>3. rnow <= log[id].time + ttl <=> ~(rnow > log[id].time + ttl)
        BY <3>1, <3>5 DEF Logged
      <4> QED
        BY <3>1, <3>2, <3>3, <3>4, <3>5, <3>6, <4>1, <4>2, <4>3, Swept DEF Remembered
    <3>7. CASE Key(id) \notin DOMAIN items
      BY <3>1, <3>2, <3>3, <3>5, <3>7, Swept DEF Remembered
    <3> QED
      BY <3>6, <3>7
  <2> QED
    BY <1>7, <2>1, <2>2
<1>13. ResponseTypes'
  BY <1>6, <1>7, <1>9 DEF ResponsesInv, ResponseTypes
<1> QED
  BY <1>10, <1>12, <1>13 DEF ResponsesInv

(* Every step keeps it *)
LEMMA ResponsesKept ==
  ASSUME ResponsesInv, [R!Next]_R!vars
  PROVE  ResponsesInv'
<1>1. CASE R!get
  BY <1>1, SweepKept DEF R!get
<1>2. ASSUME NEW t \in TTLs, R!Configure(t)
      PROVE  ResponsesInv'
  BY <1>2 DEF R!Configure, ResponsesInv, ResponseTypes, Remembered, Key
<1>3. CASE R!Tick
  <2>1. rnow' = rnow + 1 /\ UNCHANGED <<ttl, setting, items, log>>
    BY <1>3 DEF R!Tick
  <2>2. ResponseTypes'
    BY <2>1 DEF ResponsesInv, ResponseTypes
  <2>3. \A id \in DOMAIN log : Key(id)' = Key(id)
    BY <2>1 DEF Key
  <2>4. ASSUME NEW id \in DOMAIN log
        PROVE  Remembered(id)'
    <3>1. log[id] \in Logged /\ Remembered(id) /\ rnow \in Nat /\ ttl \in Nat
      BY DEF ResponsesInv, ResponseTypes
    <3>2. log[id].time \in Nat
      BY <3>1 DEF Logged
    <3>3. PICK s \in Nat : s = log[id].time
      BY <3>2
    <3>4. /\ s <= rnow => s <= rnow + 1
          /\ rnow > s + ttl => rnow + 1 > s + ttl
      BY <3>1, <3>3
    <3>5. s <= rnow' /\ log' = log /\ items' = items /\ ttl' = ttl
      BY <2>1, <3>1, <3>3, <3>4 DEF Remembered
    <3>6. Key(id) \notin DOMAIN items => rnow' > s + ttl
      BY <2>1, <3>1, <3>3, <3>4 DEF Remembered
    <3>7. Key(id)' = Key(id)
      BY <2>3
    <3> QED
      BY <3>1, <3>3, <3>5, <3>6, <3>7 DEF Remembered
  <2> QED
    BY <2>1, <2>2, <2>3, <2>4 DEF ResponsesInv
<1>4. CASE UNCHANGED R!vars
  BY <1>4 DEF R!vars, ResponsesInv, ResponseTypes, Remembered, Key
<1> QED
  BY <1>1, <1>2, <1>3, <1>4, PutKept DEF R!Next

(***************************************************************************)
(* A finished response is found by its owner until its time is over, and   *)
(* by nobody else, whatever is swept or configured in between.             *)
(***************************************************************************)
THEOREM FoundUntilOver == Spec => []FoundByItsOwner
<1>1. R!Init => ResponsesInv
  BY DEF R!Init, ResponsesInv, ResponseTypes
<1>2. ResponsesInv /\ [R!Next]_R!vars => ResponsesInv'
  BY ResponsesKept
<1>3. ResponsesInv => FoundByItsOwner
  <2> SUFFICES ASSUME ResponsesInv, NEW id \in DOMAIN log, NEW owner \in Owners
               PROVE  R!Found(owner, id) <=> owner = log[id].owner /\ rnow <= log[id].time + ttl
    BY DEF FoundByItsOwner, R!FoundByItsOwner
  <2>1. log[id] \in Logged /\ Remembered(id) /\ rnow \in Nat /\ ttl \in Nat
    BY DEF ResponsesInv, ResponseTypes
  <2>2. CASE owner = log[id].owner
    <3>1. <<owner, id>> = Key(id) /\ owner # ""
      BY <2>1, <2>2 DEF Key, Remembered
    <3>2. rnow <= log[id].time + ttl <=> ~(rnow > log[id].time + ttl)
      BY <2>1 DEF Logged
    <3>3. CASE Key(id) \in DOMAIN items
      <4>1. items[Key(id)] = [owner |-> log[id].owner, expires |-> log[id].time + ttl]
        BY <2>1, <3>3 DEF Remembered
      <4>2. items[Key(id)].expires = log[id].time + ttl /\ items[Key(id)].owner = owner
        BY <2>2, <4>1
      <4> QED
        BY <2>2, <3>1, <3>3, <4>2, Swept DEF R!Found, R!responseStoreKey
    <3>4. CASE Key(id) \notin DOMAIN items
      BY <2>1, <2>2, <3>1, <3>2, <3>4, Swept DEF R!Found, R!responseStoreKey, Remembered
    <3> QED
      BY <3>3, <3>4
  <2>3. CASE owner # log[id].owner
    <3>1. \A j \in DOMAIN log : Key(j) # <<owner, id>>
      BY <2>3 DEF Key
    <3>2. <<owner, id>> \notin DOMAIN items
      BY <3>1 DEF ResponsesInv
    <3> QED
      BY <2>3, <3>2, Swept DEF R!Found, R!responseStoreKey
  <2> QED
    BY <2>2, <2>3
<1> QED
  BY <1>1, <1>2, <1>3, StoresApart, PTL DEF R!Spec

----------------------------------------------------------------------------
(* The reasoning of answers *)

(***************************************************************************)
(* Of the first N stores: n is the last of its conversation, the other     *)
(* conversations stored after n, and the entry n is listed with.           *)
(***************************************************************************)
Last(n, N) == \A m \in n + 1 .. N : saved[m].key # saved[n].key

Later(n, N) == {saved[m].key : m \in n + 1 .. N}

Over(n) == saved[n].time + ThinkingTtl

Lists(n) == [created |-> saved[n].time, expires |-> Over(n)]

(* Later stores have later times, and each conversation has a last store *)
StoresInOrder ==
  /\ saved \in Seq([key : T!Keys, time : Nat]) /\ tnow \in Nat
  /\ \A n \in DOMAIN saved : saved[n].time < tnow
  /\ \A m, n \in DOMAIN saved : m < n => saved[m].time < saved[n].time
  /\ \A N \in 0 .. Len(saved) : \A m \in 1 .. N :
       \E n \in m .. N : saved[n].key = saved[m].key /\ Last(n, N)

(* A file is cut off or of its conversation *)
FilesOwned ==
  \A k \in DOMAIN data : data[k] # Torn => data[k] \in DOMAIN saved /\ saved[data[k]].key = k

(* An entry expires no later than what is in its file, or will be *)
Bounded(idx) ==
  /\ DOMAIN idx \subseteq T!Keys
  /\ idx \in [DOMAIN idx -> [created : Nat, expires : Nat]]
  /\ \A k \in DOMAIN idx :
       /\ saved # <<>> /\ idx[k].expires <= Over(Len(saved))
       /\ k \in DOMAIN data => data[k] = Torn \/ idx[k].expires <= Over(data[k])

OwnInv ==
  /\ StoresInOrder /\ FilesOwned
  /\ index # Torn => Bounded(index)
  /\ pc \in {"idle", "data", "write", "index", "save"}
  /\ pc # "idle" => saved # <<>> /\ Bounded(mem)
  /\ pc = "write" => T!Current.key \in DOMAIN data /\ data[T!Current.key] = Torn

(***************************************************************************)
(* An index lists the last stores of the first N that were not over at t,  *)
(* as many as the limit allows, and each of them is in its file.           *)
(***************************************************************************)
Listed(idx, N, t) ==
  /\ \A k \in DOMAIN idx : \E n \in 1 .. N : k = saved[n].key /\ Last(n, N) /\ idx[k] = Lists(n)
  /\ \A n \in 1 .. N : Last(n, N) /\ t < Over(n) =>
       (saved[n].key \in DOMAIN idx <=> Cardinality(Later(n, N)) < Entries)

OnDisk(idx, N, t, but) ==
  \A n \in 1 .. N : Last(n, N) /\ t < Over(n) /\ saved[n].key \in DOMAIN idx \ but =>
    saved[n].key \in DOMAIN data /\ data[saved[n].key] = n

Began == T!Current.time

LatestInv ==
  ~troubled =>
    /\ pc = "idle" =>
         /\ index # Torn
         /\ Listed(index, Len(saved), tnow) /\ OnDisk(index, Len(saved), tnow, {})
    /\ pc \in {"data", "write"} =>
         /\ Listed(mem, Len(saved) - 1, Began)
         /\ OnDisk(mem, Len(saved) - 1, Began, {T!Current.key})
         /\ \A k \in DOMAIN mem : Began < mem[k].expires
    /\ pc \in {"index", "save"} =>
         Listed(mem, Len(saved), Began) /\ OnDisk(mem, Len(saved), Began, {})

(* What a store is known by *)
LEMMA StoreFacts ==
  ASSUME StoresInOrder
  PROVE  /\ Len(saved) \in Nat /\ DOMAIN saved = 1 .. Len(saved)
         /\ \A n \in DOMAIN saved : saved[n].key \in T!Keys /\ saved[n].time \in Nat /\ Over(n) \in Nat
<1>1. Len(saved) \in Nat /\ DOMAIN saved = 1 .. Len(saved)
  BY DEF StoresInOrder
<1>5. saved \in Seq([key : T!Keys, time : Nat])
  BY DEF StoresInOrder
<1>6. PICK stores : stores = [key : T!Keys, time : Nat]
  OBVIOUS
<1>7. saved \in Seq(stores)
  BY <1>5, <1>6
<1>8. \A n \in DOMAIN saved : saved[n] \in stores
  BY <1>7
<1>2. \A n \in DOMAIN saved : saved[n] \in [key : T!Keys, time : Nat]
  BY <1>6, <1>8
<1>3. ThinkingTtl \in Nat
  BY StoresAssumption
<1>4. ASSUME NEW n \in DOMAIN saved
      PROVE  saved[n].key \in T!Keys /\ saved[n].time \in Nat /\ Over(n) \in Nat
  <2>1. PICK r \in [key : T!Keys, time : Nat] : r = saved[n]
    BY <1>2
  <2>2. r.key \in T!Keys /\ r.time \in Nat
    OBVIOUS
  <2> QED
    BY <1>3, <2>1, <2>2 DEF Over
<1> QED
  BY <1>1, <1>4

(* What is taken away or cut off leaves the files of their conversations *)
LEMMA FilesStay ==
  ASSUME FilesOwned, saved' = saved,
         \A k \in DOMAIN data' : data'[k] = Torn \/ (k \in DOMAIN data /\ data'[k] = data[k])
  PROVE  FilesOwned'
BY DEF FilesOwned

(* ... and an index bounded *)
LEMMA BoundedStays ==
  ASSUME NEW i, Bounded(i), saved' = saved,
         \A k \in DOMAIN data' : data'[k] = Torn \/ (k \in DOMAIN data /\ data'[k] = data[k])
  PROVE  Bounded(i)'
<1>1. \A n : Over(n)' = Over(n)
  BY DEF Over
<1> QED
  BY <1>1 DEF Bounded

(* The order of the stores while none is added *)
LEMMA OrderStays ==
  ASSUME StoresInOrder, saved' = saved, tnow' \in {tnow, tnow + 1}
  PROVE  StoresInOrder'
<1>1. tnow' \in Nat /\ \A n \in DOMAIN saved : saved[n].time < tnow'
  BY StoreFacts DEF StoresInOrder
<1>2. \A n, m : Last(n, m)' <=> Last(n, m)
  BY DEF Last
<1> QED
  BY <1>1, <1>2 DEF StoresInOrder

(* A store is added *)
LEMMA OrderGrows ==
  ASSUME StoresInOrder, NEW r \in [key : T!Keys, time : Nat], r.time = tnow,
         saved' = Append(saved, r), tnow' = tnow + 1
  PROVE  /\ StoresInOrder'
         /\ Len(saved') = Len(saved) + 1 /\ saved'[Len(saved) + 1] = r
         /\ \A n \in DOMAIN saved : n \in DOMAIN saved' /\ saved'[n] = saved[n]
         /\ saved' # <<>>
<1>0. PICK b \in Nat : b = Len(saved) /\ DOMAIN saved = 1 .. b
  BY StoreFacts
<1>1. saved \in Seq([key : T!Keys, time : Nat]) /\ tnow \in Nat
  BY DEF StoresInOrder
<1>2. /\ Append(saved, r) \in Seq([key : T!Keys, time : Nat])
      /\ Append(saved, r) # <<>>
      /\ Len(Append(saved, r)) = Len(saved) + 1
      /\ \A n \in 1 .. Len(saved) : Append(saved, r)[n] = saved[n]
      /\ Append(saved, r)[Len(saved) + 1] = r
  BY <1>1, AppendProperties
<1>3. /\ saved' \in Seq([key : T!Keys, time : Nat]) /\ saved' # <<>>
      /\ Len(saved') = b + 1 /\ saved'[b + 1] = r
      /\ \A n \in 1 .. b : saved'[n] = saved[n]
  BY <1>0, <1>2
<1>4. DOMAIN saved' = 1 .. b + 1
  BY <1>3
<1>5. \A n \in 1 .. b + 1 : n = b + 1 \/ n \in 1 .. b
  BY <1>0
<1>6. \A n \in 1 .. b : saved[n].time \in Nat /\ saved[n].time < tnow
  BY <1>0, StoreFacts DEF StoresInOrder
<1>7. tnow' \in Nat /\ tnow < tnow' /\ \A s \in Nat : s < tnow => s < tnow'
  BY <1>1
<1>8. \A n \in DOMAIN saved' : saved'[n].time < tnow'
  BY <1>3, <1>4, <1>5, <1>6, <1>7
<1>9. ASSUME NEW m \in DOMAIN saved', NEW n \in DOMAIN saved', m < n
      PROVE  saved'[m].time < saved'[n].time
  <2>1. m \in 1 .. b
    BY <1>0, <1>4, <1>9
  <2>2. CASE n = b + 1
    BY <1>3, <1>6, <2>1, <2>2
  <2>3. CASE n \in 1 .. b
    BY <1>0, <1>3, <1>9, <2>1, <2>3 DEF StoresInOrder
  <2> QED
    BY <1>4, <1>5, <2>2, <2>3
<1>10. ASSUME NEW N \in 0 .. b, NEW n \in 1 .. N
       PROVE  (saved'[n].key = saved[n].key) /\ (Last(n, N)' <=> Last(n, N))
  <2>1. n \in 1 .. b /\ \A m \in n + 1 .. N : m \in 1 .. b
    BY <1>0
  <2>2. saved'[n] = saved[n] /\ \A m \in n + 1 .. N : saved'[m] = saved[m]
    BY <1>3, <2>1
  <2> QED
    BY <2>2 DEF Last
<1>11. ASSUME NEW N \in 0 .. b + 1, NEW m \in 1 .. N
       PROVE  \E n \in m .. N : saved'[n].key = saved'[m].key /\ Last(n, N)'
  <2>1. CASE N \in 0 .. b
    <3>1. PICK n \in m .. N : saved[n].key = saved[m].key /\ Last(n, N)
      BY <1>0, <2>1 DEF StoresInOrder
    <3>2. n \in 1 .. N
      BY <1>0
    <3> QED
      BY <1>10, <2>1, <3>1, <3>2
  <2>2. CASE N = b + 1
    <3>1. Last(b + 1, N)'
      BY <1>0, <2>2 DEF Last
    <3>2. CASE saved'[m].key = r.key
      <4>1. b + 1 \in m .. N
        BY <1>0, <2>2
      <4> QED
        BY <1>3, <3>1, <3>2, <4>1
    <3>3. CASE saved'[m].key # r.key
      <4>0. m # b + 1
        BY <1>3, <3>3
      <4>1. m \in 1 .. b
        BY <1>0, <1>5, <2>2, <4>0
      <4>2. PICK n \in m .. b : saved[n].key = saved[m].key /\ Last(n, b)
        <5>1. b \in 0 .. b
          BY <1>0
        <5>2. \A j \in 0 .. b : \A i \in 1 .. j :
                \E n \in i .. j : saved[n].key = saved[i].key /\ Last(n, j)
          BY <1>0 DEF StoresInOrder
        <5> QED
          BY <4>1, <5>1, <5>2
      <4>3. n \in 1 .. b /\ n \in m .. N
        BY <1>0, <2>2, <4>1
      <4>4. Last(n, b)' /\ saved'[n].key = saved'[m].key
        BY <1>3, <1>10, <4>1, <4>2, <4>3
      <4>5. \A j \in n + 1 .. N : j = b + 1 \/ j \in n + 1 .. b
        BY <1>0, <2>2
      <4>6. Last(n, N)'
        BY <1>3, <3>3, <4>4, <4>5 DEF Last
      <4> QED
        BY <4>3, <4>4, <4>6
    <3> QED
      BY <3>2, <3>3
  <2> QED
    BY <1>0, <2>1, <2>2
<1>12. StoresInOrder'
  <2>1. Len(saved') = b + 1
    BY <1>3
  <2> QED
    BY <1>3, <1>7, <1>8, <1>9, <1>11, <2>1 DEF StoresInOrder
<1>13. \A n \in DOMAIN saved : n \in DOMAIN saved' /\ saved'[n] = saved[n]
  BY <1>0, <1>3, <1>4
<1> QED
  BY <1>0, <1>3, <1>12, <1>13

(* The instance counts as this module does *)
LEMMA SameCardinality == ASSUME NEW set PROVE T!Cardinality(set) = Cardinality(set)
BY DEF T!Cardinality, Cardinality

(* What is dropped is gone, and the rest stays *)
LEMMA Dropped ==
  ASSUME NEW f, NEW gone
  PROVE  /\ DOMAIN T!Drop(f, gone) = DOMAIN f \ gone
         /\ \A k \in DOMAIN f \ gone : T!Drop(f, gone)[k] = f[k]
BY DEF T!Drop

(* Files that are dropped *)
LEMMA FilesDropped ==
  ASSUME NEW gone, data' = T!Drop(data, gone)
  PROVE  /\ \A k \in DOMAIN data' : k \in DOMAIN data /\ data'[k] = data[k]
         /\ \A k \in DOMAIN data \ gone : k \in DOMAIN data'
<1>1. DOMAIN data' = DOMAIN data \ gone
  BY Dropped
<1>2. \A k \in DOMAIN data \ gone : data'[k] = data[k]
  BY Dropped
<1> QED
  BY <1>1, <1>2

(* A part of a bounded index is bounded *)
LEMMA PartBounded ==
  ASSUME NEW i, Bounded(i), NEW gone
  PROVE  Bounded(T!Drop(i, gone))
<1>1. T!Drop(i, gone) \in [DOMAIN i \ gone -> [created : Nat, expires : Nat]]
  <2>1. PICK entries : entries = [created : Nat, expires : Nat]
    OBVIOUS
  <2>2. i \in [DOMAIN i -> entries]
    BY <2>1 DEF Bounded
  <2>3. T!Drop(i, gone) \in [DOMAIN i \ gone -> entries]
    BY <2>2 DEF T!Drop
  <2> QED
    BY <2>1, <2>3
<1>2. PICK j : j = T!Drop(i, gone)
  OBVIOUS
<1>3. DOMAIN j = DOMAIN i \ gone /\ \A k \in DOMAIN j : j[k] = i[k]
  <2>1. /\ DOMAIN T!Drop(i, gone) = DOMAIN i \ gone
        /\ \A k \in DOMAIN i \ gone : T!Drop(i, gone)[k] = i[k]
    BY Dropped
  <2> QED
    BY <1>2, <2>1
<1>4. j \in [DOMAIN j -> [created : Nat, expires : Nat]]
  BY <1>1, <1>2, <1>3
<1>5. Bounded(j)
  BY <1>3, <1>4 DEF Bounded
<1> QED
  BY <1>2, <1>5

(* What is read of the index is bounded *)
LEMMA ReadBounded ==
  ASSUME OwnInv
  PROVE  Bounded(T!loadIndex)
<1>1. CASE index = Torn
  BY <1>1 DEF T!loadIndex, Bounded
<1>2. CASE index # Torn
  BY <1>2 DEF T!loadIndex, OwnInv
<1> QED
  BY <1>1, <1>2

(* A bounded index is bounded by the store that is added *)
LEMMA BoundedGrows ==
  ASSUME NEW i, Bounded(i), StoresInOrder, FilesOwned,
         NEW r \in [key : T!Keys, time : Nat], r.time = tnow,
         saved' = Append(saved, r), tnow' = tnow + 1,
         \A k \in DOMAIN data' : k \in DOMAIN data /\ data'[k] = data[k]
  PROVE  Bounded(i)'
<1>1. /\ Len(saved') = Len(saved) + 1 /\ saved'[Len(saved) + 1] = r /\ saved' # <<>>
      /\ \A n \in DOMAIN saved : saved'[n] = saved[n]
  BY OrderGrows
<1>2. PICK b \in Nat : b = Len(saved) /\ DOMAIN saved = 1 .. b
  BY StoreFacts
<1>3. \A n \in DOMAIN saved : Over(n)' = Over(n) /\ Over(n) \in Nat
  BY <1>1, StoreFacts DEF Over
<1>4. PICK t \in Nat, l \in Nat : t = tnow /\ l = ThinkingTtl
  BY StoresAssumption DEF StoresInOrder
<1>5. Over(Len(saved))' = t + l
  <2>1. Len(saved') = b + 1 /\ saved'[b + 1].time = t
    BY <1>1, <1>2, <1>4
  <2> QED
    BY <1>4, <2>1 DEF Over
<1>6. \A n \in DOMAIN saved : Over(n) <= t + l
  <2> SUFFICES ASSUME NEW n \in DOMAIN saved
               PROVE  Over(n) <= t + l
    OBVIOUS
  <2>1. PICK s \in Nat : s = saved[n].time /\ s < t
    BY <1>4, StoreFacts DEF StoresInOrder
  <2>2. s + l <= t + l
    BY <2>1
  <2> QED
    BY <1>4, <2>1, <2>2 DEF Over
<1>7. ASSUME NEW k \in DOMAIN i
      PROVE  /\ i[k].expires <= t + l
             /\ k \in DOMAIN data' => data'[k] = Torn \/ i[k].expires <= Over(data[k])'
  <2>1. PICK x \in Nat : x = i[k].expires
    BY DEF Bounded
  <2>2. saved # <<>> /\ x <= Over(b)
    BY <1>2, <2>1 DEF Bounded
  <2>3. b \in DOMAIN saved
    BY <1>2, <2>2 DEF StoresInOrder
  <2>4. PICK o \in Nat : o = Over(b)
    BY <1>3, <2>3
  <2>5. x <= t + l
    BY <1>6, <2>2, <2>3, <2>4
  <2>6. ASSUME k \in DOMAIN data', data'[k] # Torn
        PROVE  x <= Over(data[k])'
    <3>1. k \in DOMAIN data /\ data'[k] = data[k] /\ data[k] \in DOMAIN saved
      BY <2>6 DEF FilesOwned
    <3>2. x <= Over(data[k])
      BY <2>1, <2>6, <3>1 DEF Bounded
    <3>3. PICK m \in DOMAIN saved : m = data[k] /\ m = data'[k]
      BY <3>1
    <3>4. Over(m)' = Over(m)
      BY <1>3
    <3>5. x <= Over(m)'
      BY <3>2, <3>3, <3>4
    <3>6. Over(m)' = Over(data[k])'
      BY <3>3 DEF Over
    <3> QED
      BY <3>5, <3>6
  <2> QED
    BY <2>1, <2>5, <2>6
<1> QED
  BY <1>1, <1>5, <1>7 DEF Bounded

(* A file of a conversation stays so when a store is added *)
LEMMA FilesGrow ==
  ASSUME FilesOwned, StoresInOrder,
         NEW r \in [key : T!Keys, time : Nat], r.time = tnow,
         saved' = Append(saved, r), tnow' = tnow + 1,
         \A k \in DOMAIN data' : k \in DOMAIN data /\ data'[k] = data[k]
  PROVE  FilesOwned'
<1>1. \A n \in DOMAIN saved : n \in DOMAIN saved' /\ saved'[n] = saved[n]
  BY OrderGrows
<1> QED
  BY <1>1 DEF FilesOwned

(* What a Store begins with *)
LEMMA Begins ==
  ASSUME OwnInv, NEW c \in Conversations, T!StoreBegins(c)
  PROVE  \E r \in [key : T!Keys, time : Nat] :
           /\ r.time = tnow /\ saved' = Append(saved, r) /\ tnow' = tnow + 1
           /\ pc = "idle" /\ pc' = "data" /\ UNCHANGED <<index, troubled>>
           /\ data' = T!Drop(data, T!Expired(T!loadIndex))
           /\ mem' = T!Drop(T!loadIndex, T!Expired(T!loadIndex))
<1>1. PICK key \in T!Keys : key = T!keyFor(T!PreprocessInlineFileInputs(c))
  BY DEF T!Keys
<1>2. PICK r \in [key : T!Keys, time : Nat] : r = [key |-> key, time |-> tnow]
  BY DEF OwnInv, StoresInOrder
<1>3. r.time = tnow
  BY <1>2
<1> QED
  BY <1>1, <1>2, <1>3 DEF T!StoreBegins

(* What is written, and what the index in the memory becomes *)
Listing == [k \in DOMAIN mem \cup {T!Current.key} |->
              IF k = T!Current.key THEN Lists(Len(saved)) ELSE mem[k]]

(* The step that writes a reasoning, in terms of what is listed then *)
LEMMA Writes ==
  ASSUME OwnInv, T!WriteData
  PROVE  /\ pc = "write" /\ pc' = "index" /\ UNCHANGED <<index, tnow, saved, troubled>>
         /\ mem' = T!Drop(Listing, T!Overflow(Listing))
         /\ DOMAIN data' = DOMAIN data \ T!Overflow(Listing)
         /\ \A k \in DOMAIN data' :
              data'[k] = IF k = T!Current.key THEN Len(saved) ELSE data[k]
<1>1. PICK all : all = Listing
  OBVIOUS
<1>9. PICK c, b : c = T!Current.key /\ b = Len(saved)
  OBVIOUS
<1>2. all = [k \in DOMAIN mem \cup {T!Current.key} |->
               IF k = T!Current.key
               THEN [created |-> T!Current.time, expires |-> T!Current.time + ThinkingTtl]
               ELSE mem[k]]
  BY <1>1 DEF Listing, Lists, Over, T!Current
<1>3. /\ mem' = T!Drop(all, T!Overflow(all))
      /\ data' = T!Drop([data EXCEPT ![T!Current.key] = Len(saved)], T!Overflow(all))
      /\ pc = "write" /\ pc' = "index" /\ UNCHANGED <<index, tnow, saved, troubled>>
  BY <1>2 DEF T!WriteData
<1>4. PICK whole : whole = [data EXCEPT ![c] = b]
  OBVIOUS
<1>5. /\ DOMAIN whole = DOMAIN data
      /\ \A k \in DOMAIN data : whole[k] = IF k = c THEN b ELSE data[k]
  BY <1>4
<1>6. PICK gone : gone = T!Overflow(all)
  OBVIOUS
<1>7. data' = T!Drop(whole, gone)
  BY <1>3, <1>4, <1>6, <1>9
<1>8. DOMAIN data' = DOMAIN data \ gone /\ \A k \in DOMAIN data' : data'[k] = whole[k]
  <2>1. DOMAIN data' = DOMAIN whole \ gone
    BY <1>7, Dropped
  <2>2. \A k \in DOMAIN whole \ gone : data'[k] = whole[k]
    BY <1>7, Dropped
  <2> QED
    BY <1>5, <2>1, <2>2
<1>10. \A k \in DOMAIN data' : data'[k] = IF k = T!Current.key THEN Len(saved) ELSE data[k]
  BY <1>5, <1>8, <1>9
<1> QED
  BY <1>1, <1>3, <1>5, <1>6, <1>8, <1>10

(* The running Store is the last *)
LEMMA Running ==
  ASSUME OwnInv, pc # "idle"
  PROVE  /\ Len(saved) \in DOMAIN saved /\ T!Current = saved[Len(saved)]
         /\ T!Current.key \in T!Keys /\ T!Current.time \in Nat
         /\ Over(Len(saved)) \in Nat
<1>1. Len(saved) \in Nat /\ DOMAIN saved = 1 .. Len(saved) /\ saved # <<>>
  BY StoreFacts DEF OwnInv
<1>2. saved \in Seq([key : T!Keys, time : Nat])
  BY DEF OwnInv, StoresInOrder
<1>3. Len(saved) # 0
  BY <1>1, <1>2, EmptySeq
<1>4. Len(saved) \in DOMAIN saved
  BY <1>1, <1>3
<1> QED
  BY <1>4, StoreFacts DEF T!Current, OwnInv

(* The step that writes a reasoning keeps the files and the index bounded *)
LEMMA WriteOwned ==
  ASSUME OwnInv, T!WriteData
  PROVE  OwnInv'
<1>0. PICK b \in DOMAIN saved : b = Len(saved) /\ Over(b) \in Nat
  BY Running DEF T!WriteData
<1>1. PICK c \in T!Keys : c = T!Current.key /\ saved[b].key = c
  BY <1>0, Running DEF T!WriteData
<1>2. /\ UNCHANGED <<index, tnow, saved>> /\ pc' = "index"
      /\ mem' = T!Drop(Listing, T!Overflow(Listing))
      /\ \A k \in DOMAIN data' : k \in DOMAIN data /\ data'[k] = IF k = c THEN b ELSE data[k]
  BY <1>0, <1>1, Writes
<1>3. FilesOwned'
  BY <1>0, <1>1, <1>2 DEF FilesOwned, OwnInv
<1>4. \A n : Over(n)' = Over(n)
  BY <1>2 DEF Over
<1>5. ASSUME NEW i, Bounded(i)
      PROVE  Bounded(i)'
  <2>1. ASSUME NEW k \in DOMAIN i, k \in DOMAIN data', data'[k] # Torn
        PROVE  i[k].expires <= Over(data'[k])
    <3>1. CASE k = c
      <4>1. data'[k] = b /\ i[k].expires <= Over(b)
        BY <1>0, <1>2, <1>5, <2>1, <3>1 DEF Bounded
      <4> QED
        BY <4>1
    <3>2. CASE k # c
      BY <1>2, <1>5, <2>1, <3>2 DEF Bounded
    <3> QED
      BY <3>1, <3>2
  <2>2. \A k \in DOMAIN i : saved' # <<>> /\ i[k].expires <= Over(Len(saved))
    BY <1>2, <1>5 DEF Bounded
  <2>3. \A k \in DOMAIN i : i[k].expires <= Over(Len(saved))'
    BY <1>2, <1>4, <2>2 DEF Over
  <2>4. ASSUME NEW k \in DOMAIN i, k \in DOMAIN data', data'[k] # Torn
        PROVE  i[k].expires <= Over(data[k])'
    BY <2>1, <2>4, <1>2 DEF Over
  <2> QED
    BY <1>5, <2>2, <2>3, <2>4 DEF Bounded
<1>6. index' # Torn => Bounded(index)'
  <2> SUFFICES ASSUME index # Torn
               PROVE  Bounded(index)'
    BY <1>2
  <2>1. PICK i : i = index
    OBVIOUS
  <2>2. Bounded(i)'
    BY <1>5, <2>1 DEF OwnInv
  <2> QED
    BY <1>2, <2>1, <2>2 DEF Bounded
<1>7. Bounded(Listing)
  <2>1. PICK all : all = Listing
    OBVIOUS
  <2>2. PICK e \in [created : Nat, expires : Nat] : e = Lists(b) /\ e.expires = Over(b)
    <3>1. PICK s \in Nat, o \in Nat : s = saved[b].time /\ o = Over(b)
      BY <1>0, StoreFacts DEF OwnInv
    <3>2. PICK e \in [created : Nat, expires : Nat] : e = [created |-> s, expires |-> o]
      OBVIOUS
    <3>3. e = Lists(b) /\ e.expires = Over(b)
      BY <3>1, <3>2 DEF Lists
    <3> QED
      BY <3>3
  <2>3. all = [k \in DOMAIN mem \cup {c} |-> IF k = c THEN e ELSE mem[k]]
    BY <1>0, <1>1, <2>1, <2>2 DEF Listing
  <2>4. Bounded(mem) /\ saved # <<>>
    BY <1>2 DEF OwnInv, T!WriteData
  <2>5. DOMAIN all \subseteq T!Keys /\ DOMAIN all = DOMAIN mem \cup {c}
    BY <1>1, <2>3, <2>4 DEF Bounded
  <2>6. all \in [DOMAIN all -> [created : Nat, expires : Nat]]
    <3>1. PICK entries : entries = [created : Nat, expires : Nat]
      OBVIOUS
    <3>2. mem \in [DOMAIN mem -> entries] /\ e \in entries
      BY <2>4, <3>1 DEF Bounded
    <3> QED
      BY <2>3, <3>1, <3>2
  <2>7. ASSUME NEW k \in DOMAIN all
        PROVE  /\ all[k].expires <= Over(Len(saved))
               /\ k \in DOMAIN data => data[k] = Torn \/ all[k].expires <= Over(data[k])
    <3>1. CASE k # c
      BY <2>3, <2>4, <3>1 DEF Bounded
    <3>2. CASE k = c
      <4>1. all[k].expires = Over(b) /\ Over(b) <= Over(b)
        BY <1>0, <2>2, <2>3, <2>5, <3>2
      <4>2. data[k] = Torn
        BY <1>1, <1>2, <3>2 DEF OwnInv, T!WriteData
      <4> QED
        BY <1>0, <4>1, <4>2
    <3> QED
      BY <3>1, <3>2
  <2>8. Bounded(all)
    BY <2>4, <2>5, <2>6, <2>7 DEF Bounded
  <2> QED
    BY <2>1, <2>8
<1>8. Bounded(mem)'
  <2>1. Bounded(T!Drop(Listing, T!Overflow(Listing)))
    BY <1>7, PartBounded
  <2>2. PICK i : i = T!Drop(Listing, T!Overflow(Listing))
    OBVIOUS
  <2>3. Bounded(i)'
    BY <1>5, <2>1, <2>2
  <2> QED
    BY <1>2, <2>2, <2>3 DEF Bounded
<1>9. StoresInOrder'
  BY <1>2, OrderStays DEF OwnInv
<1> QED
  BY <1>2, <1>3, <1>6, <1>8, <1>9 DEF OwnInv

(* A step that saves nothing and at most takes files away or cuts them off *)
LEMMA OwnStays ==
  ASSUME OwnInv, saved' = saved, tnow' \in {tnow, tnow + 1},
         \A k \in DOMAIN data' : data'[k] = Torn \/ (k \in DOMAIN data /\ data'[k] = data[k]),
         pc' \in {"idle", "data", "write", "index", "save"},
         index' = index \/ index' = Torn \/ (index' = mem /\ pc # "idle"),
         pc' # "idle" => pc # "idle" /\ mem' = mem,
         pc' = "write" => T!Current.key \in DOMAIN data' /\ data'[T!Current.key] = Torn
  PROVE  OwnInv'
<1>1. StoresInOrder' /\ FilesOwned'
  BY OrderStays, FilesStay DEF OwnInv
<1>2. ASSUME index' # Torn
      PROVE  Bounded(index)'
  <2>1. PICK i : i = index' /\ Bounded(i)
    BY <1>2 DEF OwnInv
  <2>2. Bounded(i)'
    BY <2>1, BoundedStays
  <2> QED
    BY <2>1, <2>2 DEF Bounded
<1>3. ASSUME pc' # "idle"
      PROVE  saved' # <<>> /\ Bounded(mem)'
  <2>1. PICK i : i = mem /\ i = mem' /\ Bounded(i)
    BY <1>3 DEF OwnInv
  <2>2. Bounded(i)'
    BY <2>1, BoundedStays
  <2> QED
    BY <1>3, <2>1, <2>2 DEF Bounded, OwnInv
<1>4. T!Current' = T!Current
  BY DEF T!Current
<1> QED
  BY <1>1, <1>2, <1>3, <1>4 DEF OwnInv

(* Every step keeps it *)
LEMMA OwnKept ==
  ASSUME OwnInv, [T!Next]_T!vars
  PROVE  OwnInv'
<1>1. CASE T!Apply
  <2>1. PICK gone : data' = T!Drop(data, gone)
    BY <1>1 DEF T!Apply
  <2>2. \A k \in DOMAIN data' : k \in DOMAIN data /\ data'[k] = data[k]
    BY <2>1, FilesDropped
  <2>3. pc = "idle" /\ UNCHANGED <<index, mem, pc, tnow, saved>>
    BY <1>1 DEF T!Apply
  <2> QED
    BY <2>2, <2>3, OwnStays
<1>2. ASSUME NEW c \in Conversations, T!StoreBegins(c)
      PROVE  OwnInv'
  <2>1. PICK r \in [key : T!Keys, time : Nat] :
           /\ r.time = tnow /\ saved' = Append(saved, r) /\ tnow' = tnow + 1
           /\ pc' = "data" /\ index' = index
           /\ data' = T!Drop(data, T!Expired(T!loadIndex))
           /\ mem' = T!Drop(T!loadIndex, T!Expired(T!loadIndex))
    BY <1>2, Begins
  <2>2. \A k \in DOMAIN data' : k \in DOMAIN data /\ data'[k] = data[k]
    BY <2>1, FilesDropped
  <2>3. StoresInOrder' /\ saved' # <<>>
    BY <2>1, OrderGrows DEF OwnInv
  <2>4. FilesOwned'
    BY <2>1, <2>2, FilesGrow DEF OwnInv
  <2>5. ASSUME NEW i, Bounded(i)
        PROVE  Bounded(i)'
    BY <2>1, <2>2, <2>5, BoundedGrows DEF OwnInv
  <2>6. ASSUME index' # Torn
        PROVE  Bounded(index)'
    <3>1. PICK i : i = index /\ Bounded(i)
      BY <2>1, <2>6 DEF OwnInv
    <3>2. Bounded(i)'
      BY <2>5, <3>1
    <3> QED
      BY <2>1, <3>1, <3>2 DEF Bounded
  <2>7. Bounded(mem)'
    <3>1. PICK i : i = T!Drop(T!loadIndex, T!Expired(T!loadIndex)) /\ Bounded(i)
      BY ReadBounded, PartBounded
    <3>2. Bounded(i)'
      BY <2>5, <3>1
    <3> QED
      BY <2>1, <3>1, <3>2 DEF Bounded
  <2>8. pc' \in {"idle", "data", "write", "index", "save"} /\ pc' # "write"
    BY <2>1
  <2>9. (index # Torn => Bounded(index))'
    BY <2>6
  <2> QED
    BY <2>3, <2>4, <2>7, <2>8, <2>9 DEF OwnInv
<1>3. CASE T!OpenData
  <2>1. PICK c : c = T!Current.key
    OBVIOUS
  <2>2. data' = [k \in DOMAIN data \cup {c} |-> IF k = c THEN Torn ELSE data[k]]
    BY <1>3, <2>1 DEF T!OpenData
  <2>3. /\ \A k \in DOMAIN data' : data'[k] = Torn \/ (k \in DOMAIN data /\ data'[k] = data[k])
        /\ c \in DOMAIN data' /\ data'[c] = Torn
    BY <2>2
  <2>4. pc = "data" /\ pc' = "write" /\ UNCHANGED <<index, mem, tnow, saved>>
    BY <1>3 DEF T!OpenData
  <2>5. T!Current.key \in DOMAIN data' /\ data'[T!Current.key] = Torn
    BY <2>1, <2>3
  <2>6. \A k \in DOMAIN data' : data'[k] = Torn \/ (k \in DOMAIN data /\ data'[k] = data[k])
    BY <2>3
  <2>7. /\ pc' \in {"idle", "data", "write", "index", "save"} /\ pc # "idle"
        /\ tnow' \in {tnow, tnow + 1}
    BY <2>4
  <2> QED
    BY <2>4, <2>5, <2>6, <2>7, OwnStays
<1>4. CASE T!WriteData
  BY <1>4, WriteOwned
<1>5. CASE T!OpenIndex
  BY <1>5, OwnStays DEF T!OpenIndex
<1>6. CASE T!SaveIndex
  BY <1>6, OwnStays DEF T!SaveIndex
<1>7. CASE T!Stop
  BY <1>7, OwnStays DEF T!Stop
<1>8. CASE T!Tick
  BY <1>8, OwnStays DEF T!Tick
<1>9. CASE UNCHANGED T!vars
  <2>1. UNCHANGED <<data, index, mem, pc, tnow, saved, troubled>>
    BY <1>9 DEF T!vars
  <2>2. pc = "write" => T!Current.key \in DOMAIN data' /\ data'[T!Current.key] = Torn
    BY <2>1 DEF OwnInv
  <2>3. pc' \in {"idle", "data", "write", "index", "save"}
    BY <2>1 DEF OwnInv
  <2> QED
    BY <2>1, <2>2, <2>3, OwnStays
<1> QED
  BY <1>1, <1>2, <1>3, <1>4, <1>5, <1>6, <1>7, <1>8, <1>9 DEF T!Next

(* The stores after a given one are finitely many, and fewer after a later one *)
LEMMA LaterCounted ==
  ASSUME NEW n \in Nat, NEW m \in Nat, NEW N \in Nat, NEW M \in Nat, n <= m, N <= M
  PROVE  /\ IsFiniteSet(Later(n, M)) /\ Cardinality(Later(n, M)) \in Nat
         /\ Cardinality(Later(m, N)) \in Nat
         /\ Later(m, N) \subseteq Later(n, M)
         /\ Cardinality(Later(m, N)) <= Cardinality(Later(n, M))
<1>1. IsFiniteSet(n + 1 .. M)
  BY FS_Interval
<1>2. Later(n, M) = {saved[j].key : j \in n + 1 .. M}
  BY DEF Later
<1>3. IsFiniteSet(Later(n, M))
  <2>1. PICK f : f = [j \in n + 1 .. M |-> saved[j].key]
    OBVIOUS
  <2>2. f \in Surjection(n + 1 .. M, Later(n, M))
    BY <1>2, <2>1 DEF Surjection
  <2> QED
    BY <1>1, <2>2, FS_Surjection
<1>4. \A j \in m + 1 .. N : j \in n + 1 .. M
  OBVIOUS
<1>5. Later(m, N) \subseteq Later(n, M)
  BY <1>4 DEF Later
<1>6. /\ IsFiniteSet(Later(m, N)) /\ Cardinality(Later(m, N)) <= Cardinality(Later(n, M))
  BY <1>3, <1>5, FS_Subset
<1> QED
  BY <1>3, <1>5, <1>6, FS_CardinalityType

(* A conversation has one last store *)
LEMMA LastUnique ==
  ASSUME NEW N \in Nat, NEW n \in 1 .. N, NEW m \in 1 .. N, Last(n, N), Last(m, N),
         saved[n].key = saved[m].key
  PROVE  n = m
<1>1. CASE n < m
  <2>1. m \in n + 1 .. N
    BY <1>1
  <2> QED
    BY <2>1 DEF Last
<1>2. CASE m < n
  <2>1. n \in m + 1 .. N
    BY <1>2
  <2> QED
    BY <2>1 DEF Last
<1> QED
  BY <1>1, <1>2

(* An index lists the last store of each conversation *)
LEMMA ListsLast ==
  ASSUME NEW i, NEW N \in Nat, NEW t, Listed(i, N, t),
         NEW n \in 1 .. N, Last(n, N), saved[n].key \in DOMAIN i
  PROVE  i[saved[n].key] = Lists(n)
<1>1. PICK m \in 1 .. N : saved[n].key = saved[m].key /\ Last(m, N) /\ i[saved[n].key] = Lists(m)
  BY DEF Listed
<1>2. m = n
  BY <1>1, LastUnique
<1> QED
  BY <1>1, <1>2

(* The first stores stay the first when one is added *)
LEMMA FirstStay ==
  ASSUME NEW N \in Nat, \A n \in 1 .. N : saved'[n] = saved[n]
  PROVE  \A n \in 1 .. N :
           /\ saved'[n].key = saved[n].key /\ Over(n)' = Over(n) /\ Lists(n)' = Lists(n)
           /\ Last(n, N)' <=> Last(n, N)
           /\ Later(n, N)' = Later(n, N)
<1> SUFFICES ASSUME NEW n \in 1 .. N
             PROVE  /\ saved'[n].key = saved[n].key /\ Over(n)' = Over(n) /\ Lists(n)' = Lists(n)
                    /\ Last(n, N)' <=> Last(n, N)
                    /\ Later(n, N)' = Later(n, N)
  OBVIOUS
<1>1. \A m \in n + 1 .. N : m \in 1 .. N /\ saved'[m] = saved[m]
  OBVIOUS
<1>2. saved'[n] = saved[n]
  OBVIOUS
<1>3. Over(n)' = Over(n)
  BY <1>2 DEF Over
<1>4. Lists(n)' = Lists(n)
  BY <1>2, <1>3 DEF Lists
<1>5. Last(n, N)' <=> Last(n, N)
  BY <1>1, <1>2 DEF Last
<1>6. Later(n, N)' = Later(n, N)
  BY <1>1 DEF Later
<1> QED
  BY <1>2, <1>3, <1>4, <1>5, <1>6

(* ... and what is listed of them stays listed *)
LEMMA ListedStays ==
  ASSUME NEW i, NEW N \in Nat, NEW t, Listed(i, N, t), \A n \in 1 .. N : saved'[n] = saved[n]
  PROVE  Listed(i, N, t)'
<1>1. \A n \in 1 .. N :
        /\ saved'[n].key = saved[n].key /\ Over(n)' = Over(n) /\ Lists(n)' = Lists(n)
        /\ Last(n, N)' <=> Last(n, N)
        /\ Later(n, N)' = Later(n, N)
  BY FirstStay
<1>2. \A k \in DOMAIN i : \E n \in 1 .. N : k = saved'[n].key /\ Last(n, N)' /\ i[k] = Lists(n)'
  BY <1>1 DEF Listed
<1>3. \A n \in 1 .. N : Last(n, N)' /\ t < Over(n)' =>
        (saved'[n].key \in DOMAIN i <=> Cardinality(Later(n, N)') < Entries)
  BY <1>1 DEF Listed
<1> QED
  BY <1>2, <1>3 DEF Listed

(* What is listed at a time is listed later *)
LEMMA ListedLater ==
  ASSUME StoresInOrder, NEW i, NEW N \in 0 .. Len(saved), NEW t \in Nat, NEW u \in Nat, t <= u,
         Listed(i, N, t), NEW but, OnDisk(i, N, t, but)
  PROVE  Listed(i, N, u) /\ OnDisk(i, N, u, but)
<1>1. \A n \in 1 .. N : n \in DOMAIN saved
  BY StoreFacts
<1>2. \A n \in 1 .. N : u < Over(n) => t < Over(n)
  <2> SUFFICES ASSUME NEW n \in 1 .. N, u < Over(n)
               PROVE  t < Over(n)
    OBVIOUS
  <2>1. PICK o \in Nat : o = Over(n)
    BY <1>1, StoreFacts
  <2> QED
    BY <2>1
<1>3. Listed(i, N, u)
  BY <1>2 DEF Listed
<1> QED
  BY <1>2, <1>3 DEF OnDisk

(***************************************************************************)
(* A Store that is about to write its index entry, as the b-th.            *)
(***************************************************************************)
Writing(b) ==
  /\ OwnInv /\ LatestInv /\ ~troubled /\ pc = "write" /\ b = Len(saved)

(* What is known of such a Store *)
LEMMA WritingFacts ==
  ASSUME NEW b, Writing(b)
  PROVE  /\ b \in Nat \ {0} /\ DOMAIN saved = 1 .. b /\ StoresInOrder
         /\ T!Current = saved[b] /\ Began = saved[b].time
         /\ Listed(mem, b - 1, Began) /\ OnDisk(mem, b - 1, Began, {saved[b].key})
         /\ \A k \in DOMAIN mem : Began < mem[k].expires
         /\ Listing = [k \in DOMAIN mem \cup {saved[b].key} |->
                         IF k = saved[b].key THEN Lists(b) ELSE mem[k]]
         /\ Entries \in Nat \ {0}
<1>1. /\ pc = "write" /\ b = Len(saved) /\ OwnInv
      /\ Listed(mem, Len(saved) - 1, Began)
      /\ OnDisk(mem, Len(saved) - 1, Began, {T!Current.key})
      /\ \A k \in DOMAIN mem : Began < mem[k].expires
  BY DEF Writing, LatestInv
<1>2. b \in Nat \ {0} /\ DOMAIN saved = 1 .. b
  BY <1>1, Running, StoreFacts DEF OwnInv
<1>3. T!Current = saved[b]
  BY <1>1 DEF T!Current
<1>4. Began = saved[b].time
  BY <1>3 DEF Began
<1> QED
  BY <1>1, <1>2, <1>3, <1>4, StoresAssumption DEF OwnInv, Listing

(* What the running Store lists before it prunes *)
LEMMA ListingOf ==
  ASSUME NEW b, Writing(b), NEW k \in DOMAIN Listing
  PROVE  \E n \in 1 .. b :
           /\ k = saved[n].key /\ Last(n, b) /\ Listing[k] = Lists(n)
           /\ n # b => n \in 1 .. b - 1 /\ Last(n, b - 1) /\ Began < Over(n) /\ k \in DOMAIN mem
<1>1. /\ b \in Nat \ {0}
      /\ Listing = [l \in DOMAIN mem \cup {saved[b].key} |->
                      IF l = saved[b].key THEN Lists(b) ELSE mem[l]]
  BY WritingFacts
<1>2. CASE k = saved[b].key
  <2>1. b \in 1 .. b /\ Last(b, b)
    BY <1>1 DEF Last
  <2>2. Listing[k] = Lists(b)
    BY <1>1, <1>2
  <2> QED
    BY <1>2, <2>1, <2>2
<1>3. CASE k # saved[b].key
  <2>1. k \in DOMAIN mem /\ Listing[k] = mem[k]
    BY <1>1, <1>3
  <2>2. PICK n \in 1 .. b - 1 : k = saved[n].key /\ Last(n, b - 1) /\ mem[k] = Lists(n)
    <3>1. Listed(mem, b - 1, Began)
      BY WritingFacts
    <3> QED
      BY <2>1, <3>1 DEF Listed
  <2>3. n \in 1 .. b /\ \A m \in n + 1 .. b : m = b \/ m \in n + 1 .. b - 1
    BY <1>1
  <2>4. Last(n, b)
    BY <1>3, <2>2, <2>3 DEF Last
  <2>5. Began < mem[k].expires
    BY <2>1, WritingFacts
  <2>6. mem[k].expires = Over(n)
    BY <2>2 DEF Lists
  <2> QED
    BY <2>1, <2>2, <2>3, <2>4, <2>5, <2>6
<1> QED
  BY <1>2, <1>3

(* The entries newer than the one of n are those of the later conversations *)
LEMMA NewerListed ==
  ASSUME NEW b, Writing(b), NEW n \in 1 .. b, Last(n, b), saved[n].key \in DOMAIN Listing,
         Listing[saved[n].key] = Lists(n)
  PROVE  T!Newer(Listing, saved[n].key) = Later(n, b)
<1>0. /\ b \in Nat \ {0} /\ DOMAIN saved = 1 .. b /\ StoresInOrder
      /\ Listing = [l \in DOMAIN mem \cup {saved[b].key} |->
                      IF l = saved[b].key THEN Lists(b) ELSE mem[l]]
      /\ Listed(mem, b - 1, Began)
  BY WritingFacts
<1>1. \A m \in 1 .. b : Lists(m).created = saved[m].time /\ saved[m].time \in Nat
  BY <1>0, StoreFacts DEF Lists
<1>2. \A m \in 1 .. b : saved[m].time > saved[n].time <=> m > n
  <2> SUFFICES ASSUME NEW m \in 1 .. b
               PROVE  saved[m].time > saved[n].time <=> m > n
    OBVIOUS
  <2>1. PICK s \in Nat, t \in Nat : s = saved[m].time /\ t = saved[n].time
    BY <1>1
  <2>2. m < n => s < t
    BY <1>0, <2>1 DEF StoresInOrder
  <2>3. n < m => t < s
    BY <1>0, <2>1 DEF StoresInOrder
  <2>4. m = n => s = t
    BY <2>1
  <2> QED
    BY <2>1, <2>2, <2>3, <2>4
<1>3. ASSUME NEW l \in DOMAIN Listing, Listing[l].created > Listing[saved[n].key].created
      PROVE  l \in Later(n, b)
  <2>1. PICK m \in 1 .. b : l = saved[m].key /\ Listing[l] = Lists(m)
    BY ListingOf
  <2>2. m > n
    BY <1>1, <1>2, <1>3, <2>1
  <2>3. m \in n + 1 .. b
    BY <2>2
  <2> QED
    BY <2>1, <2>3 DEF Later
<1>4. ASSUME NEW l \in Later(n, b)
      PROVE  l \in DOMAIN Listing /\ Listing[l].created > Listing[saved[n].key].created
  <2>1. PICK j \in n + 1 .. b : l = saved[j].key
    BY DEF Later
  <2>2. CASE l = saved[b].key
    <3>1. b \in 1 .. b /\ b > n
      BY <1>0
    <3>2. l \in DOMAIN Listing /\ Listing[l] = Lists(b)
      BY <1>0, <2>2
    <3> QED
      BY <1>1, <1>2, <3>1, <3>2
  <2>3. CASE l # saved[b].key
    <3>1. j # b
      BY <2>1, <2>3
    <3>2. j \in 1 .. b - 1 /\ b - 1 \in 0 .. Len(saved) /\ n # b
      BY <1>0, <3>1 DEF Writing
    <3>3. PICK m \in j .. b - 1 : saved[m].key = l /\ Last(m, b - 1)
      BY <1>0, <2>1, <3>2 DEF StoresInOrder
    <3>4. m \in 1 .. b /\ m > n /\ n <= m /\ m \in 1 .. b - 1 /\ m \in Nat /\ n \in Nat /\ b - 1 \in Nat
      BY <1>0, <3>2
    <3>5. /\ n \in 1 .. b - 1 /\ Last(n, b - 1) /\ Began < Over(n)
          /\ saved[n].key \in DOMAIN mem
      <4>1. PICK i \in 1 .. b :
              /\ saved[n].key = saved[i].key /\ Last(i, b)
              /\ i # b => i \in 1 .. b - 1 /\ Last(i, b - 1) /\ Began < Over(i)
                          /\ saved[n].key \in DOMAIN mem
        BY ListingOf
      <4>2. i = n
        BY <1>0, <4>1, LastUnique
      <4> QED
        BY <3>2, <4>1, <4>2
    <3>6. Began < Over(m)
      <4>1. PICK s \in Nat, t \in Nat, g \in Nat, w \in Nat :
              s = saved[m].time /\ t = saved[n].time /\ g = Began /\ w = ThinkingTtl
        <5>1. Began \in Nat
          <6>1. Began = saved[b].time
            BY WritingFacts
          <6>2. b \in 1 .. b
            BY <1>0
          <6> QED
            BY <1>1, <6>1, <6>2
        <5> QED
          BY <1>1, <3>4, <5>1, StoresAssumption
      <4>2. s > t
        BY <1>2, <3>4, <4>1
      <4>3. g < t + w
        BY <3>5, <4>1 DEF Over
      <4>4. g < s + w
        BY <4>2, <4>3
      <4> QED
        BY <4>1, <4>4 DEF Over
    <3>7. Cardinality(Later(m, b - 1)) < Entries
      <4>1. Cardinality(Later(n, b - 1)) < Entries
        BY <1>0, <3>5 DEF Listed
      <4>2. /\ Cardinality(Later(m, b - 1)) \in Nat /\ Cardinality(Later(n, b - 1)) \in Nat
            /\ Cardinality(Later(m, b - 1)) <= Cardinality(Later(n, b - 1))
        BY <3>4, LaterCounted
      <4>3. Entries \in Nat
        BY StoresAssumption
      <4> QED
        BY <4>1, <4>2, <4>3
    <3>8. l \in DOMAIN mem
      BY <1>0, <3>3, <3>4, <3>6, <3>7 DEF Listed
    <3>9. mem[l] = Lists(m)
      BY <1>0, <3>3, <3>4, <3>8, ListsLast
    <3>10. l \in DOMAIN Listing /\ Listing[l] = Lists(m)
      BY <1>0, <2>3, <3>8, <3>9
    <3> QED
      BY <1>1, <1>2, <3>4, <3>10
  <2> QED
    BY <2>2, <2>3
<1>5. PICK all, k : all = Listing /\ k = saved[n].key
  OBVIOUS
<1>6. \A l : l \in T!Newer(all, k) <=> l \in DOMAIN all /\ all[l].created > all[k].created
  BY DEF T!Newer
<1> QED
  BY <1>3, <1>4, <1>5, <1>6

(* An entry is pruned when the limit is reached by later conversations *)
LEMMA Pruned ==
  ASSUME NEW b, Writing(b), NEW n \in 1 .. b, Last(n, b), saved[n].key \in DOMAIN Listing
  PROVE  /\ Listing[saved[n].key] = Lists(n)
         /\ saved[n].key \notin T!Overflow(Listing) <=> Cardinality(Later(n, b)) < Entries
         /\ n # b => n \in 1 .. b - 1 /\ Last(n, b - 1) /\ saved[n].key \in DOMAIN mem
<1>0. b \in Nat
  BY WritingFacts
<1>1. PICK i \in 1 .. b :
        /\ saved[n].key = saved[i].key /\ Last(i, b) /\ Listing[saved[n].key] = Lists(i)
        /\ i # b => i \in 1 .. b - 1 /\ Last(i, b - 1) /\ Began < Over(i) /\ saved[n].key \in DOMAIN mem
  BY ListingOf
<1>2. i = n
  BY <1>0, <1>1, LastUnique
<1>3. Cardinality(T!Newer(Listing, saved[n].key)) = Cardinality(Later(n, b))
  BY <1>1, <1>2, NewerListed
<1>4. saved[n].key \in T!Overflow(Listing) <=> Cardinality(Later(n, b)) >= Entries
  <2>1. PICK all : all = Listing
    OBVIOUS
  <2>2. PICK k : k = saved[n].key
    OBVIOUS
  <2>3. k \in DOMAIN all
    BY <2>1, <2>2
  <2>4. Cardinality(T!Newer(all, k)) = Cardinality(Later(n, b))
    BY <1>3, <2>1, <2>2
  <2>5. k \in T!Overflow(all) <=> Cardinality(T!Newer(all, k)) >= Entries
    BY <2>3, SameCardinality DEF T!Overflow
  <2> QED
    BY <2>1, <2>2, <2>4, <2>5
<1>5. Cardinality(Later(n, b)) \in Nat /\ Entries \in Nat
  BY <1>0, LaterCounted, StoresAssumption
<1> QED
  BY <1>1, <1>2, <1>4, <1>5

(* The index a Store goes on with lists the conversations up to its own *)
LEMMA WriteListed ==
  ASSUME NEW b, Writing(b), T!WriteData
  PROVE  /\ Listed(mem', b, Began)
         /\ \A n \in 1 .. b : Last(n, b) /\ Began < Over(n) /\ saved[n].key \in DOMAIN mem' =>
              saved[n].key \in DOMAIN data' /\ data'[saved[n].key] = n
<1>0. /\ b \in Nat \ {0} /\ T!Current = saved[b] /\ b = Len(saved)
      /\ Listed(mem, b - 1, Began) /\ OnDisk(mem, b - 1, Began, {saved[b].key})
      /\ Listing = [l \in DOMAIN mem \cup {saved[b].key} |->
                      IF l = saved[b].key THEN Lists(b) ELSE mem[l]]
      /\ Entries \in Nat \ {0}
  <2>1. b = Len(saved)
    BY DEF Writing
  <2>2. Listing = [l \in DOMAIN mem \cup {saved[b].key} |->
                     IF l = saved[b].key THEN Lists(b) ELSE mem[l]]
    BY WritingFacts
  <2>3. Listed(mem, b - 1, Began) /\ OnDisk(mem, b - 1, Began, {saved[b].key})
    BY WritingFacts
  <2>4. b \in Nat \ {0} /\ T!Current = saved[b] /\ Entries \in Nat \ {0}
    BY WritingFacts
  <2> QED
    BY <2>1, <2>2, <2>3, <2>4
<1>1. PICK gone : gone = T!Overflow(Listing)
  OBVIOUS
<1>2. /\ mem' = T!Drop(Listing, gone)
      /\ DOMAIN data' = DOMAIN data \ gone
      /\ \A k \in DOMAIN data' : data'[k] = IF k = saved[b].key THEN b ELSE data[k]
  <2>1. OwnInv
    BY DEF Writing
  <2>2. /\ mem' = T!Drop(Listing, T!Overflow(Listing))
        /\ DOMAIN data' = DOMAIN data \ T!Overflow(Listing)
        /\ \A k \in DOMAIN data' : data'[k] = IF k = T!Current.key THEN Len(saved) ELSE data[k]
    BY <2>1, Writes
  <2>3. T!Current.key = saved[b].key /\ Len(saved) = b
    BY <1>0
  <2> QED
    BY <1>1, <2>2, <2>3
<1>3. DOMAIN mem' = DOMAIN Listing \ gone /\ \A k \in DOMAIN Listing \ gone : mem'[k] = Listing[k]
  <2>1. PICK all : all = Listing
    OBVIOUS
  <2>2. mem' = T!Drop(all, gone)
    BY <1>2, <2>1
  <2>3. DOMAIN mem' = DOMAIN all \ gone
    BY <2>2, Dropped
  <2>4. \A k \in DOMAIN all \ gone : mem'[k] = all[k]
    BY <2>2, Dropped
  <2> QED
    BY <2>1, <2>3, <2>4
<1>4. b \in 1 .. b /\ Last(b, b) /\ saved[b].key \in DOMAIN Listing
  <2>1. b \in 1 .. b /\ \A m \in b + 1 .. b : FALSE
    BY <1>0
  <2>2. saved[b].key \in DOMAIN Listing
    BY <1>0
  <2> QED
    BY <2>1, <2>2 DEF Last
<1>5. Cardinality(Later(b, b)) < Entries
  <2>1. b + 1 .. b = {}
    BY <1>0
  <2>2. Later(b, b) = {}
    BY <2>1 DEF Later
  <2> QED
    BY <1>0, <2>2, FS_EmptySet
<1>6. saved[b].key \in DOMAIN mem'
  BY <1>1, <1>3, <1>4, <1>5, Pruned
<1>7. ASSUME NEW k \in DOMAIN mem'
      PROVE  \E n \in 1 .. b : k = saved[n].key /\ Last(n, b) /\ mem'[k] = Lists(n)
  BY <1>3, ListingOf
<1>8. ASSUME NEW n \in 1 .. b, Last(n, b), Began < Over(n)
      PROVE  saved[n].key \in DOMAIN mem' <=> Cardinality(Later(n, b)) < Entries
  <2>1. CASE n = b
    BY <1>5, <1>6, <2>1
  <2>2. CASE n # b
    <3>1. ASSUME saved[n].key \in DOMAIN mem'
          PROVE  Cardinality(Later(n, b)) < Entries
      <4>1. saved[n].key \in DOMAIN Listing /\ saved[n].key \notin gone
        BY <1>3, <3>1
      <4> QED
        BY <1>1, <1>8, <4>1, Pruned
    <3>2. ASSUME Cardinality(Later(n, b)) < Entries
          PROVE  saved[n].key \in DOMAIN mem'
      <4>1. n \in 1 .. b - 1 /\ n \in Nat /\ b - 1 \in Nat /\ n <= n /\ b - 1 <= b /\ b \in Nat
        BY <1>0, <2>2
      <4>2. \A m \in n + 1 .. b - 1 : m \in n + 1 .. b
        BY <1>0
      <4>3. Last(n, b - 1)
        BY <1>8, <4>2 DEF Last
      <4>4. /\ Cardinality(Later(n, b - 1)) \in Nat /\ Cardinality(Later(n, b)) \in Nat
            /\ Cardinality(Later(n, b - 1)) <= Cardinality(Later(n, b))
        BY <4>1, LaterCounted
      <4>5. Cardinality(Later(n, b - 1)) < Entries
        BY <1>0, <3>2, <4>4
      <4>6. saved[n].key \in DOMAIN mem
        BY <1>0, <1>8, <4>1, <4>3, <4>5 DEF Listed
      <4>7. saved[n].key \in DOMAIN Listing
        BY <1>0, <4>6
      <4>8. saved[n].key \notin gone
        BY <1>1, <1>8, <3>2, <4>7, Pruned
      <4> QED
        BY <1>3, <4>7, <4>8
    <3> QED
      BY <3>1, <3>2
  <2> QED
    BY <2>1, <2>2
<1>9. ASSUME NEW n \in 1 .. b, Last(n, b), Began < Over(n), saved[n].key \in DOMAIN mem'
      PROVE  saved[n].key \in DOMAIN data' /\ data'[saved[n].key] = n
  <2>1. saved[n].key \in DOMAIN Listing /\ saved[n].key \notin gone
    BY <1>3, <1>9
  <2>2. CASE n = b
    <3>1. saved[b].key \in DOMAIN data
      BY <1>0 DEF Writing, OwnInv
    <3> QED
      BY <1>2, <2>1, <2>2, <3>1
  <2>3. CASE n # b
    <3>1. n \in 1 .. b - 1 /\ Last(n, b - 1) /\ saved[n].key \in DOMAIN mem
      BY <1>9, <2>1, <2>3, Pruned
    <3>2. saved[n].key # saved[b].key
      <4>1. b \in n + 1 .. b
        BY <1>0, <3>1
      <4> QED
        BY <1>9, <4>1 DEF Last
    <3>3. saved[n].key \in DOMAIN data /\ data[saved[n].key] = n
      BY <1>0, <1>9, <3>1, <3>2 DEF OnDisk
    <3> QED
      BY <1>2, <2>1, <3>2, <3>3
  <2> QED
    BY <2>2, <2>3
<1>10. Listed(mem', b, Began)
  <2>1. PICK i : i = mem'
    OBVIOUS
  <2>2. Listed(i, b, Began)
    BY <1>7, <1>8, <2>1 DEF Listed
  <2> QED
    BY <2>1, <2>2 DEF Listed
<1> QED
  BY <1>9, <1>10

(* The pruning by age of what is listed takes no file away that is not over *)
LEMMA AgeListed ==
  ASSUME OwnInv, LatestInv, ~troubled, pc = "idle", NEW N, N = Len(saved),
         NEW gone, gone = T!Expired(T!loadIndex)
  PROVE  /\ N \in Nat /\ N \in 0 .. Len(saved) /\ tnow \in Nat
         /\ index # Torn /\ T!loadIndex = index
         /\ Listed(index, N, tnow) /\ OnDisk(index, N, tnow, {})
         /\ \A n \in 1 .. N : Last(n, N) /\ tnow < Over(n) => saved[n].key \notin gone
         /\ \A k \in DOMAIN index \ gone : tnow < index[k].expires
<1>1. /\ index # Torn /\ Listed(index, N, tnow) /\ OnDisk(index, N, tnow, {})
  BY DEF LatestInv
<1>2. T!loadIndex = index
  BY <1>1 DEF T!loadIndex
<1>3. N \in Nat /\ N \in 0 .. Len(saved) /\ tnow \in Nat /\ DOMAIN saved = 1 .. N
  BY StoreFacts DEF OwnInv, StoresInOrder
<1>4. PICK i : i = index
  OBVIOUS
<1>5. gone = {k \in DOMAIN i : tnow >= i[k].expires}
  BY <1>2, <1>4 DEF T!Expired
<1>6. \A k \in DOMAIN i : i[k].expires \in Nat
  BY <1>1, <1>4 DEF OwnInv, Bounded
<1>7. ASSUME NEW n \in 1 .. N, Last(n, N), tnow < Over(n), saved[n].key \in DOMAIN i
      PROVE  saved[n].key \notin gone
  <2>1. i[saved[n].key] = Lists(n)
    BY <1>1, <1>3, <1>4, <1>7, ListsLast
  <2>2. i[saved[n].key].expires = Over(n) /\ Over(n) \in Nat
    BY <1>3, <2>1, StoreFacts DEF Lists, OwnInv
  <2>3. ~(tnow >= i[saved[n].key].expires)
    BY <1>3, <1>7, <2>2
  <2> QED
    BY <1>5, <2>3
<1>8. \A k \in DOMAIN i \ gone : tnow < i[k].expires
  BY <1>3, <1>5, <1>6
<1> QED
  BY <1>1, <1>2, <1>3, <1>4, <1>5, <1>7, <1>8

(* An index that lists and is on disk stays so while nothing is stored or written *)
LEMMA OnDiskStays ==
  ASSUME NEW i, NEW N \in Nat, NEW t, NEW but,
         \A n \in 1 .. N : saved'[n] = saved[n],
         \A n \in 1 .. N : Last(n, N) /\ t < Over(n) /\ saved[n].key \in DOMAIN i \ but =>
           saved[n].key \in DOMAIN data' /\ data'[saved[n].key] = n
  PROVE  OnDisk(i, N, t, but)'
<1>1. \A n \in 1 .. N :
        /\ saved'[n].key = saved[n].key /\ Over(n)' = Over(n)
        /\ Last(n, N)' <=> Last(n, N)
  BY FirstStay
<1> QED
  BY <1>1 DEF OnDisk

(* Between Stores, in one and at its end *)
LEMMA IdleLatest ==
  ASSUME NEW i, NEW N, NEW t, i = index', N = Len(saved'), t = tnow',
         index' # Torn, pc' = "idle", Listed(i, N, t)', OnDisk(i, N, t, {})'
  PROVE  LatestInv'
BY DEF LatestInv, Listed, OnDisk

(* A Store before its entry is written *)
LEMMA StoringLatest ==
  ASSUME NEW i, NEW N, NEW t, NEW c,
         i = mem', N = Len(saved') - 1, t = Began', c = T!Current.key',
         pc' \in {"data", "write"}, Listed(i, N, t)', OnDisk(i, N, t, {c})',
         \A k \in DOMAIN i : t < i[k].expires
  PROVE  LatestInv'
BY DEF LatestInv, Listed, OnDisk

(* A Store whose entry is in the index of its memory *)
LEMMA StoredLatest ==
  ASSUME NEW i, NEW N, NEW t, i = mem', N = Len(saved'), t = Began',
         pc' \in {"index", "save"}, Listed(i, N, t)', OnDisk(i, N, t, {})'
  PROVE  LatestInv'
BY DEF LatestInv, Listed, OnDisk

(* Every step keeps it *)
LEMMA LatestKept ==
  ASSUME OwnInv, LatestInv, OwnInv', [T!Next]_T!vars
  PROVE  LatestInv'
<1> SUFFICES ASSUME ~troubled'
             PROVE  LatestInv'
  BY DEF LatestInv
<1>0. ~troubled
  <2>1. CASE T!Stop
    BY <2>1 DEF T!Stop
  <2>2. ASSUME NEW c \in Conversations, T!StoreBegins(c)
        PROVE  ~troubled
    BY <2>2, Begins
  <2>3. CASE T!Apply \/ T!OpenData \/ T!OpenIndex \/ T!SaveIndex \/ T!Tick
    BY <2>3 DEF T!Apply, T!OpenData, T!OpenIndex, T!SaveIndex, T!Tick
  <2>4. CASE T!WriteData
    BY <2>4, Writes
  <2>5. CASE UNCHANGED T!vars
    BY <2>5 DEF T!vars
  <2> QED
    BY <2>1, <2>2, <2>3, <2>4, <2>5 DEF T!Next
<1>a. PICK N \in Nat : N = Len(saved) /\ N \in 0 .. Len(saved) /\ DOMAIN saved = 1 .. N
  <2>1. Len(saved) \in Nat /\ DOMAIN saved = 1 .. Len(saved)
    BY StoreFacts DEF OwnInv
  <2>2. Len(saved) \in 0 .. Len(saved)
    BY <2>1
  <2> QED
    BY <2>1, <2>2
<1>1. CASE T!Apply
  <2>1. PICK gone : gone = T!Expired(T!loadIndex)
    OBVIOUS
  <2>2. /\ pc = "idle" /\ UNCHANGED <<index, pc, tnow, saved>>
        /\ data' = T!Drop(data, gone)
    BY <1>1, <2>1 DEF T!Apply
  <2>3. /\ \A k \in DOMAIN data' : k \in DOMAIN data /\ data'[k] = data[k]
        /\ \A k \in DOMAIN data \ gone : k \in DOMAIN data'
    BY <2>2, FilesDropped
  <2>4. /\ index # Torn /\ Listed(index, N, tnow) /\ OnDisk(index, N, tnow, {})
        /\ \A n \in 1 .. N : Last(n, N) /\ tnow < Over(n) => saved[n].key \notin gone
    BY <1>0, <1>a, <2>1, <2>2, AgeListed
  <2>5. PICK i, t : i = index /\ t = tnow
    OBVIOUS
  <2>6. Listed(i, N, t)'
    BY <2>2, <2>4, <2>5, ListedStays
  <2>7. \A n \in 1 .. N : Last(n, N) /\ t < Over(n) /\ saved[n].key \in DOMAIN i \ {} =>
          saved[n].key \in DOMAIN data' /\ data'[saved[n].key] = n
    BY <2>3, <2>4, <2>5 DEF OnDisk
  <2>8. OnDisk(i, N, t, {})'
    BY <2>2, <2>7, OnDiskStays
  <2> QED
    BY <1>a, <2>2, <2>4, <2>5, <2>6, <2>8, IdleLatest
<1>2. ASSUME NEW c \in Conversations, T!StoreBegins(c)
      PROVE  LatestInv'
  <2>1. PICK gone : gone = T!Expired(T!loadIndex)
    OBVIOUS
  <2>2. PICK r \in [key : T!Keys, time : Nat] :
          /\ r.time = tnow /\ saved' = Append(saved, r) /\ tnow' = tnow + 1
          /\ pc = "idle" /\ pc' = "data"
          /\ data' = T!Drop(data, gone) /\ mem' = T!Drop(T!loadIndex, gone)
    BY <1>2, <2>1, Begins
  <2>3. /\ \A k \in DOMAIN data' : k \in DOMAIN data /\ data'[k] = data[k]
        /\ \A k \in DOMAIN data \ gone : k \in DOMAIN data'
    BY <2>2, FilesDropped
  <2>4. /\ T!loadIndex = index /\ Listed(index, N, tnow) /\ OnDisk(index, N, tnow, {})
        /\ \A n \in 1 .. N : Last(n, N) /\ tnow < Over(n) => saved[n].key \notin gone
        /\ \A k \in DOMAIN index \ gone : tnow < index[k].expires
    BY <1>0, <1>a, <2>1, <2>2, AgeListed
  <2>5. /\ Len(saved') = N + 1 /\ saved'[N + 1] = r
        /\ \A n \in 1 .. N : saved'[n] = saved[n]
    BY <1>a, <2>2, OrderGrows DEF OwnInv
  <2>6. PICK i, t, key : i = mem' /\ t = tnow /\ key = r.key
    OBVIOUS
  <2>7. DOMAIN i = DOMAIN index \ gone /\ \A k \in DOMAIN i : i[k] = index[k]
    <3>1. i = T!Drop(index, gone)
      BY <2>2, <2>4, <2>6
    <3>2. DOMAIN i = DOMAIN index \ gone
      BY <3>1, Dropped
    <3>3. \A k \in DOMAIN index \ gone : i[k] = index[k]
      BY <3>1, Dropped
    <3> QED
      BY <3>2, <3>3
  <2>8. Listed(i, N, t)
    BY <2>4, <2>6, <2>7 DEF Listed
  <2>9. Listed(i, N, t)'
    BY <2>5, <2>8, ListedStays
  <2>10. \A n \in 1 .. N : Last(n, N) /\ t < Over(n) /\ saved[n].key \in DOMAIN i \ {key} =>
           saved[n].key \in DOMAIN data' /\ data'[saved[n].key] = n
    BY <2>3, <2>4, <2>6, <2>7 DEF OnDisk
  <2>11. OnDisk(i, N, t, {key})'
    BY <2>5, <2>10, OnDiskStays
  <2>12. T!Current' = r
    BY <2>5 DEF T!Current
  <2>13. Began' = t /\ T!Current.key' = key
    BY <2>2, <2>6, <2>12 DEF Began
  <2>14. \A k \in DOMAIN i : t < i[k].expires
    BY <2>4, <2>6, <2>7
  <2>15. N = Len(saved') - 1
    BY <1>a, <2>5
  <2> QED
    BY <2>2, <2>6, <2>9, <2>11, <2>13, <2>14, <2>15, StoringLatest
<1>3. CASE T!OpenData
  <2>1. PICK M, t, c, i : M = N - 1 /\ t = Began /\ c = T!Current.key /\ i = mem
    OBVIOUS
  <2>2. pc = "data" /\ pc' = "write" /\ UNCHANGED <<mem, tnow, saved>>
    BY <1>3 DEF T!OpenData
  <2>3. data' = [k \in DOMAIN data \cup {c} |-> IF k = c THEN Torn ELSE data[k]]
    BY <1>3, <2>1 DEF T!OpenData
  <2>4. M \in Nat
    <3>1. N \in DOMAIN saved
      BY <1>a, <2>2, Running
    <3> QED
      BY <1>a, <2>1, <3>1
  <2>5. /\ Listed(i, M, t) /\ OnDisk(i, M, t, {c})
        /\ \A k \in DOMAIN i : t < i[k].expires
    BY <1>0, <1>a, <2>1, <2>2 DEF LatestInv
  <2>6. Listed(i, M, t)'
    BY <2>2, <2>4, <2>5, ListedStays
  <2>7. \A n \in 1 .. M : Last(n, M) /\ t < Over(n) /\ saved[n].key \in DOMAIN i \ {c} =>
          saved[n].key \in DOMAIN data' /\ data'[saved[n].key] = n
    BY <2>3, <2>5 DEF OnDisk
  <2>8. OnDisk(i, M, t, {c})'
    BY <2>2, <2>4, <2>7, OnDiskStays
  <2>9. T!Current' = T!Current /\ Began' = Began
    BY <2>2 DEF T!Current, Began
  <2> QED
    BY <1>a, <2>1, <2>2, <2>5, <2>6, <2>8, <2>9, StoringLatest
<1>4. CASE T!WriteData
  <2>1. Writing(N)
    BY <1>0, <1>4, <1>a DEF Writing, T!WriteData
  <2>2. PICK i, t : i = mem' /\ t = Began
    OBVIOUS
  <2>3. /\ Listed(mem', N, t)
        /\ \A n \in 1 .. N : Last(n, N) /\ t < Over(n) /\ saved[n].key \in DOMAIN i \ {} =>
             saved[n].key \in DOMAIN data' /\ data'[saved[n].key] = n
    BY <1>4, <2>1, <2>2, WriteListed
  <2>4. Listed(i, N, t)
    BY <2>2, <2>3
  <2>5. saved' = saved /\ pc' = "index"
    BY <1>4 DEF T!WriteData
  <2>6. Listed(i, N, t)'
    BY <2>4, <2>5, ListedStays
  <2>7. OnDisk(i, N, t, {})'
    BY <2>3, <2>5, OnDiskStays
  <2>8. Began' = t
    BY <2>2, <2>5 DEF Began, T!Current
  <2> QED
    BY <1>a, <2>2, <2>5, <2>6, <2>7, <2>8, StoredLatest
<1>5. CASE T!OpenIndex
  <2>1. pc = "index" /\ pc' = "save" /\ UNCHANGED <<mem, data, saved>>
    BY <1>5 DEF T!OpenIndex
  <2>2. PICK i, t : i = mem /\ t = Began
    OBVIOUS
  <2>3. Listed(i, N, t) /\ OnDisk(i, N, t, {})
    BY <1>0, <1>a, <2>1, <2>2 DEF LatestInv
  <2>4. Listed(i, N, t)'
    BY <2>1, <2>3, ListedStays
  <2>5. OnDisk(i, N, t, {})'
    BY <2>1, <2>3, OnDiskStays DEF OnDisk
  <2>6. Began' = t
    BY <2>1, <2>2 DEF Began, T!Current
  <2> QED
    BY <1>a, <2>1, <2>2, <2>4, <2>5, <2>6, StoredLatest
<1>6. CASE T!SaveIndex
  <2>1. pc = "save" /\ pc' = "idle" /\ index' = mem /\ UNCHANGED <<data, tnow, saved>>
    BY <1>6 DEF T!SaveIndex
  <2>8. PICK i : i = mem
    OBVIOUS
  <2>2. PICK t \in Nat, u \in Nat : t = Began /\ u = tnow /\ t <= u
    <3>1. Len(saved) \in DOMAIN saved /\ T!Current = saved[Len(saved)] /\ T!Current.time \in Nat
      BY <2>1, Running
    <3>2. Began \in Nat /\ tnow \in Nat /\ Began < tnow
      BY <3>1 DEF OwnInv, StoresInOrder, Began
    <3>3. Began <= tnow
      BY <3>2
    <3> QED
      BY <3>2, <3>3
  <2>3. Listed(i, N, t) /\ OnDisk(i, N, t, {})
    BY <1>0, <1>a, <2>1, <2>2, <2>8 DEF LatestInv
  <2>4. Listed(i, N, u) /\ OnDisk(i, N, u, {})
    BY <1>a, <2>2, <2>3, ListedLater DEF OwnInv
  <2>5. Listed(i, N, u)'
    BY <2>1, <2>4, ListedStays
  <2>6. OnDisk(i, N, u, {})'
    BY <2>1, <2>4, OnDiskStays DEF OnDisk
  <2>7. i # Torn
    <3>1. Bounded(i)
      BY <2>1, <2>8 DEF OwnInv
    <3>2. DOMAIN i \in SUBSET T!Keys /\ i \in [DOMAIN i -> [created : Nat, expires : Nat]]
      BY <3>1 DEF Bounded
    <3> QED
      BY <3>2, StoresAssumption
  <2> QED
    BY <1>a, <2>1, <2>2, <2>5, <2>6, <2>7, <2>8, IdleLatest
<1>7. CASE T!Stop
  BY <1>7 DEF T!Stop
<1>8. CASE T!Tick
  <2>1. pc = "idle" /\ UNCHANGED <<data, index, pc, saved>> /\ tnow' = tnow + 1
    BY <1>8 DEF T!Tick
  <2>8. PICK i : i = index
    OBVIOUS
  <2>2. PICK t \in Nat, u \in Nat : t = tnow /\ u = tnow' /\ t <= u
    <3>1. tnow \in Nat
      BY DEF OwnInv, StoresInOrder
    <3>2. tnow' \in Nat /\ tnow <= tnow'
      BY <2>1, <3>1
    <3> QED
      BY <3>1, <3>2
  <2>3. i # Torn /\ Listed(i, N, t) /\ OnDisk(i, N, t, {})
    BY <1>0, <1>a, <2>1, <2>2, <2>8 DEF LatestInv
  <2>4. Listed(i, N, u) /\ OnDisk(i, N, u, {})
    BY <1>a, <2>2, <2>3, ListedLater DEF OwnInv
  <2>5. Listed(i, N, u)'
    BY <2>1, <2>4, ListedStays
  <2>6. OnDisk(i, N, u, {})'
    BY <2>1, <2>4, OnDiskStays DEF OnDisk
  <2> QED
    BY <1>a, <2>1, <2>2, <2>3, <2>5, <2>6, <2>8, IdleLatest
<1>9. CASE UNCHANGED T!vars
  BY <1>9 DEF T!vars, LatestInv, Listed, OnDisk, Last, Later, Over, Lists, Began, T!Current
<1> QED
  BY <1>1, <1>2, <1>3, <1>4, <1>5, <1>6, <1>7, <1>8, <1>9 DEF T!Next

(* The last store of a conversation is its latest, and so are those after it *)
LEMMA LatestIsLast ==
  ASSUME StoresInOrder, NEW key, T!Times(key) # {}
  PROVE  /\ T!Latest(key) \in 1 .. Len(saved) /\ saved[T!Latest(key)].key = key
         /\ Last(T!Latest(key), Len(saved))
         /\ \A m \in T!Times(key) : m <= T!Latest(key)
<1>1. PICK b \in Nat : b = Len(saved) /\ DOMAIN saved = 1 .. b
  BY StoreFacts
<1>2. PICK j \in 1 .. b : saved[j].key = key
  BY <1>1 DEF T!Times
<1>3. b \in 0 .. b
  BY <1>1
<1>4. PICK n \in j .. b : saved[n].key = key /\ Last(n, b)
  BY <1>1, <1>2, <1>3 DEF StoresInOrder
<1>5. n \in 1 .. b
  BY <1>1, <1>2
<1>6. n \in T!Times(key)
  BY <1>1, <1>4, <1>5 DEF T!Times
<1>7. \A m \in T!Times(key) : m <= n
  <2> SUFFICES ASSUME NEW m \in T!Times(key), ~(m <= n)
               PROVE  FALSE
    OBVIOUS
  <2>1. m \in 1 .. b /\ saved[m].key = key
    BY <1>1 DEF T!Times
  <2>2. m \in n + 1 .. b
    BY <1>5, <2>1
  <2> QED
    BY <1>4, <2>1, <2>2 DEF Last
<1>8. T!Latest(key) \in T!Times(key) /\ \A m \in T!Times(key) : m <= T!Latest(key)
  BY <1>6, <1>7 DEF T!Latest
<1>9. T!Latest(key) = n
  <2>1. PICK l : l = T!Latest(key) /\ l \in T!Times(key) /\ n <= l /\ l <= n
    BY <1>6, <1>7, <1>8
  <2>2. l \in 1 .. b
    BY <1>1, <2>1 DEF T!Times
  <2>3. l = n
    BY <1>5, <2>1, <2>2
  <2> QED
    BY <2>1, <2>3
<1> QED
  BY <1>1, <1>4, <1>5, <1>7, <1>9

(* The conversations stored since are those the property counts *)
LEMMA SinceIsLater ==
  ASSUME StoresInOrder, NEW key, T!Times(key) # {}
  PROVE  {k \in T!Keys \ {key} : T!Times(k) # {} /\ T!Latest(k) > T!Latest(key)}
           = Later(T!Latest(key), Len(saved))
<1>1. PICK b \in Nat : b = Len(saved) /\ DOMAIN saved = 1 .. b
  BY StoreFacts
<1>2. PICK n \in 1 .. b : /\ n = T!Latest(key) /\ saved[n].key = key /\ Last(n, b)
  BY <1>1, LatestIsLast
<1>3. ASSUME NEW k \in T!Keys \ {key}, T!Times(k) # {}, T!Latest(k) > n
      PROVE  k \in Later(n, b)
  <2>1. PICK m \in 1 .. b : m = T!Latest(k) /\ saved[m].key = k
    BY <1>1, <1>3, LatestIsLast
  <2>2. m \in n + 1 .. b
    BY <1>1, <1>3, <2>1
  <2> QED
    BY <2>1, <2>2 DEF Later
<1>4. ASSUME NEW k \in Later(n, b)
      PROVE  k \in T!Keys \ {key} /\ T!Times(k) # {} /\ T!Latest(k) > n
  <2>1. PICK m \in n + 1 .. b : k = saved[m].key
    BY DEF Later
  <2>2. m \in 1 .. b /\ m > n
    BY <1>1
  <2>3. k \in T!Keys /\ k # key
    BY <1>1, <1>2, <2>1, <2>2, StoreFacts DEF Last
  <2>4. m \in T!Times(k)
    BY <1>1, <2>1, <2>2 DEF T!Times
  <2>5. T!Latest(k) \in 1 .. b /\ m <= T!Latest(k)
    BY <1>1, <2>4, LatestIsLast
  <2>6. PICK l \in 1 .. b : l = T!Latest(k)
    BY <2>5
  <2>7. l > n
    BY <2>2, <2>5, <2>6
  <2> QED
    BY <2>3, <2>4, <2>6, <2>7
<1>5. PICK others : others = {k \in T!Keys \ {key} : T!Times(k) # {} /\ T!Latest(k) > n}
  OBVIOUS
<1>6. others = Later(n, b)
  <2>1. \A k \in others : k \in Later(n, b)
    BY <1>3, <1>5
  <2>2. \A k \in Later(n, b) : k \in others
    BY <1>4, <1>5
  <2> QED
    BY <2>1, <2>2
<1> QED
  BY <1>1, <1>2, <1>5, <1>6

(* What the invariant says of what is read *)
LEMMA LatestRead ==
  ASSUME OwnInv, LatestInv, pc = "idle"
  PROVE  T!LatestRestored
<1> SUFFICES ASSUME ~troubled, NEW key \in T!Keys
             PROVE  T!readThinking(key) =
                      IF /\ T!Times(key) # {}
                         /\ tnow < saved[T!Latest(key)].time + ThinkingTtl
                         /\ Cardinality({k \in T!Keys \ {key} :
                                           T!Times(k) # {} /\ T!Latest(k) > T!Latest(key)}) < Entries
                      THEN T!Latest(key) ELSE 0
  BY SameCardinality DEF T!LatestRestored
<1>1. PICK b \in Nat : b = Len(saved) /\ DOMAIN saved = 1 .. b
  BY StoreFacts DEF OwnInv
<1>2. PICK gone : gone = T!Expired(T!loadIndex)
  OBVIOUS
<1>3. /\ T!loadIndex = index /\ Listed(index, b, tnow) /\ OnDisk(index, b, tnow, {})
      /\ \A n \in 1 .. b : Last(n, b) /\ tnow < Over(n) => saved[n].key \notin gone
      /\ \A k \in DOMAIN index \ gone : tnow < index[k].expires
  BY <1>1, <1>2, AgeListed
<1>4. T!readThinking(key) = IF key \in DOMAIN index \ gone /\ key \in DOMAIN data THEN data[key] ELSE 0
  BY <1>2, <1>3 DEF T!readThinking
<1>5. CASE T!Times(key) = {}
  <2>1. key \notin DOMAIN index
    BY <1>1, <1>3, <1>5 DEF Listed, T!Times
  <2> QED
    BY <1>4, <1>5, <2>1
<1>6. CASE T!Times(key) # {}
  <2>1. PICK n \in 1 .. b : n = T!Latest(key) /\ saved[n].key = key /\ Last(n, b)
    BY <1>1, <1>6, LatestIsLast DEF OwnInv
  <2>2. PICK newer : /\ newer = {k \in T!Keys \ {key} :
                                   T!Times(k) # {} /\ T!Latest(k) > T!Latest(key)}
                     /\ newer = Later(n, b)
    BY <1>1, <1>6, <2>1, SinceIsLater DEF OwnInv
  <2>3. Over(n) = saved[T!Latest(key)].time + ThinkingTtl
    BY <2>1 DEF Over
  <2>4. T!readThinking(key) = IF tnow < Over(n) /\ Cardinality(newer) < Entries THEN n ELSE 0
    <3>1. CASE tnow < Over(n) /\ Cardinality(newer) < Entries
      <4>1. key \in DOMAIN index /\ key \notin gone
        BY <1>3, <2>1, <2>2, <3>1 DEF Listed
      <4>2. key \in DOMAIN data /\ data[key] = n
        BY <1>3, <2>1, <3>1, <4>1 DEF OnDisk
      <4> QED
        BY <1>4, <3>1, <4>1, <4>2
    <3>2. CASE tnow < Over(n) /\ ~(Cardinality(newer) < Entries)
      <4>1. key \notin DOMAIN index
        BY <1>3, <2>1, <2>2, <3>2 DEF Listed
      <4> QED
        BY <1>4, <3>2, <4>1
    <3>3. CASE ~(tnow < Over(n))
      <4>1. key \notin DOMAIN index \ gone
        <5> SUFFICES ASSUME key \in DOMAIN index \ gone
                     PROVE  FALSE
          OBVIOUS
        <5>1. index[key] = Lists(n)
          BY <1>3, <2>1, ListsLast
        <5>2. index[key].expires = Over(n)
          BY <5>1 DEF Lists
        <5> QED
          BY <1>3, <3>3, <5>2
      <4> QED
        BY <1>4, <3>3, <4>1
    <3> QED
      BY <3>1, <3>2, <3>3
  <2> QED
    BY <1>6, <2>1, <2>2, <2>3, <2>4
<1> QED
  BY <1>5, <1>6

(* What is read is of the conversation and not over *)
LEMMA OwnRead ==
  ASSUME OwnInv
  PROVE  T!OwnAndFresh
<1> SUFFICES ASSUME NEW key \in T!Keys, NEW n, n = T!readThinking(key), n \notin {0, Torn}
             PROVE  saved[n].key = key /\ tnow < saved[n].time + ThinkingTtl
  BY DEF T!OwnAndFresh
<1>1. PICK i : i = T!loadIndex /\ Bounded(i)
  BY ReadBounded
<1>2. key \in DOMAIN i \ T!Expired(i) /\ key \in DOMAIN data /\ n = data[key]
  BY <1>1 DEF T!readThinking
<1>3. n \in DOMAIN saved /\ saved[n].key = key /\ i[key].expires <= Over(n)
  BY <1>1, <1>2 DEF OwnInv, FilesOwned, Bounded
<1>4. PICK x \in Nat : x = i[key].expires
  BY <1>1, <1>2 DEF Bounded
<1>5. PICK o \in Nat, t \in Nat : o = Over(n) /\ t = tnow
  BY <1>3, StoreFacts DEF OwnInv, StoresInOrder
<1>6. ~(t >= x)
  BY <1>2, <1>4, <1>5 DEF T!Expired
<1>7. t < o
  BY <1>3, <1>4, <1>5, <1>6
<1> QED
  BY <1>3, <1>5, <1>7 DEF Over

(***************************************************************************)
(* What a conversation is given back is its own, whatever was stopped or   *)
(* failed between two writes; and while nothing was, it is the reasoning   *)
(* of its last answer until that is over or as many conversations as the   *)
(* limit allows were stored since.  For any conversations, any limit and   *)
(* any time to live.                                                       *)
(***************************************************************************)
THEOREM RestoredWhatWasStored == Spec => []RestoredAsStored
<1>1. T!Init => OwnInv /\ LatestInv
  <2> SUFFICES ASSUME T!Init
               PROVE  OwnInv /\ LatestInv
    OBVIOUS
  <2>1. /\ data = <<>> /\ index = <<>> /\ saved = <<>> /\ tnow = 0 /\ pc = "idle"
    BY DEF T!Init
  <2>2. DOMAIN saved = {} /\ DOMAIN index = {} /\ DOMAIN data = {} /\ Len(saved) = 0
    BY <2>1
  <2>3. StoresInOrder
    BY <2>1, <2>2 DEF StoresInOrder
  <2>4. Bounded(index)
    BY <2>1, <2>2 DEF Bounded
  <2>5. OwnInv
    BY <2>1, <2>2, <2>3, <2>4 DEF OwnInv, FilesOwned
  <2>6. index # Torn
    <3>1. DOMAIN index \in SUBSET T!Keys /\ index \in [DOMAIN index -> [created : Nat, expires : Nat]]
      BY <2>4 DEF Bounded
    <3> QED
      BY <3>1, StoresAssumption
  <2>7. Listed(index, 0, tnow) /\ OnDisk(index, 0, tnow, {})
    BY <2>2 DEF Listed, OnDisk
  <2>8. LatestInv
    BY <2>1, <2>2, <2>6, <2>7 DEF LatestInv
  <2> QED
    BY <2>5, <2>8
<1>2. OwnInv /\ LatestInv /\ [T!Next]_T!vars => (OwnInv /\ LatestInv)'
  BY OwnKept, LatestKept
<1>3. OwnInv /\ LatestInv => RestoredAsStored
  BY LatestRead, OwnRead DEF RestoredAsStored, T!RestoredAsStored
<1> QED
  BY <1>1, <1>2, <1>3, StoresApart, PTL DEF T!Spec

----------------------------------------------------------------------------
(* Token statistics *)

(* The times the retention keeps *)
Retained == {t \in Nat : t >= snow - Retention}

(* For any times the retention keeps, the records are those of the finished requests *)
Agrees(records) == \A A \in SUBSET Retained : Count(records, A) = Count(done, A)

(***************************************************************************)
(* Unless a write was cut off, the records of the file, or those an append *)
(* is about to write, agree with the finished requests.                    *)
(***************************************************************************)
TokensInv ==
  /\ snow \in Nat /\ done \in Seq(0 .. snow)
  /\ writing \in Seq(Nat) /\ file \in Seq(Nat) \cup {Torn}
  /\ ~lost => IF writing = <<>> THEN file # Torn /\ Agrees(file) ELSE Agrees(writing)

(* The records an append keeps *)
LEMMA KeptAgrees ==
  ASSUME snow \in Nat, NEW records \in Seq(Nat)
  PROVE  /\ S!Kept(records) \in Seq(Nat)
         /\ \A A \in SUBSET Retained : Count(S!Kept(records), A) = Count(records, A)
<1> DEFINE I == {i \in DOMAIN records : records[i] >= snow - Retention}
<1>1. S!Kept(records) = Picked(records, I)
  BY StatsPicked DEF S!Kept, S!Where
<1>2. Picked(records, I) \in Seq(Nat)
  BY PickedElements
<1>3. ASSUME NEW A \in SUBSET Retained
      PROVE  Count(S!Kept(records), A) = Count(records, A)
  <2>1. \A i \in DOMAIN records : records[i] \in A => records[i] >= snow - Retention
    BY DEF Retained
  <2>2. {i \in I : records[i] \in A} = {i \in DOMAIN records : records[i] \in A}
    BY <2>1
  <2>3. Count(Picked(records, I), A) = Cardinality({i \in I : records[i] \in A})
    BY PickedCount
  <2> QED
    BY <1>1, <2>2, <2>3 DEF Count
<1> QED
  BY <1>1, <1>2, <1>3

(* A finished request *)
LEMMA AppendTokens ==
  ASSUME TokensInv, S!appendTokenRecord
  PROVE  TokensInv'
<1>1. PICK records \in Seq(Nat) : records = S!Readable /\ (file # Torn => records = file)
  <2>1. <<>> \in Seq(Nat) /\ file \in Seq(Nat) \cup {Torn}
    BY DEF TokensInv
  <2> QED
    BY <2>1 DEF S!Readable
<1> DEFINE more == Append(records, snow)
<1>2. /\ writing = <<>> /\ writing' = S!Kept(more) /\ done' = Append(done, snow)
      /\ snow' = snow /\ lost' = lost /\ file' = Torn
  BY <1>1 DEF S!appendTokenRecord
<1>3. snow \in Nat /\ done \in Seq(0 .. snow) /\ done' \in Seq(0 .. snow) /\ more \in Seq(Nat)
  BY <1>1, <1>2 DEF TokensInv
<1>4. writing' \in Seq(Nat) /\ \A A \in SUBSET Retained : Count(writing', A) = Count(more, A)
  BY <1>2, <1>3, KeptAgrees
<1>5. ASSUME ~lost
      PROVE  writing' # <<>> /\ Agrees(writing)'
  <2>1. Agrees(records)
    BY <1>1, <1>2, <1>5 DEF TokensInv
  <2>2. ASSUME NEW A \in SUBSET Retained
        PROVE  Count(writing', A) = Count(done', A) /\ (snow \in A => Count(writing', A) # 0)
    <3>1. Count(records, A) = Count(done, A) /\ Count(done, A) \in Nat
      BY <1>3, <2>1, AppendCount DEF Agrees
    <3>0. done \in Seq(Nat)
      BY <1>3
    <3>2. Count(done', A) = IF snow \in A THEN Count(done, A) + 1 ELSE Count(done, A)
      BY <1>2, <1>3, <3>0, AppendCount
    <3>3. Count(more, A) = IF snow \in A THEN Count(records, A) + 1 ELSE Count(records, A)
      BY <1>3, AppendCount
    <3> HIDE DEF more
    <3> QED
      BY <1>4, <3>1, <3>2, <3>3
  <2>3. {snow} \in SUBSET Retained
    BY <1>3, RangesAssumption DEF Retained
  <2>4. Count(writing', {snow}) # 0
    BY <2>2, <2>3
  <2>5. Count(<<>>, {snow}) = 0
    BY FS_EmptySet DEF Count
  <2>6. Retained' = Retained
    BY <1>2 DEF Retained
  <2> QED
    BY <2>2, <2>4, <2>5, <2>6 DEF Agrees
<1> QED
  BY <1>2, <1>3, <1>4, <1>5 DEF TokensInv

(* Every step of the statistics *)
LEMMA TokensKept ==
  ASSUME TokensInv, [S!Next]_S!vars
  PROVE  TokensInv'
<1>1. CASE S!appendTokenRecord
  BY <1>1, AppendTokens
<1>2. CASE S!Written
  <2>1. /\ writing # <<>> /\ file' = writing /\ writing' = <<>>
        /\ snow' = snow /\ done' = done /\ lost' = lost
    BY <1>2 DEF S!Written
  <2>2. ~lost => Agrees(writing)
    BY <2>1 DEF TokensInv
  <2>3. ~lost' => Agrees(file)'
    BY <2>1, <2>2 DEF Agrees, Retained
  <2>4. file' # Torn /\ file' \in Seq(Nat) /\ writing' \in Seq(Nat)
    BY <2>1, RangesAssumption DEF TokensInv
  <2> QED
    BY <2>1, <2>3, <2>4 DEF TokensInv
<1>3. CASE S!Stop
  BY <1>3 DEF TokensInv, S!Stop
<1>4. CASE S!Tick
  <2>1. /\ writing = <<>> /\ snow' = snow + 1
        /\ UNCHANGED <<file, writing, done, lost>>
    BY <1>4 DEF S!Tick
  <2>2. snow' \in Nat /\ done' \in Seq(0 .. snow')
    <3>1. snow \in Nat /\ done \in Seq(0 .. snow) /\ 0 .. snow \subseteq 0 .. snow'
      BY <2>1 DEF TokensInv
    <3> QED
      BY <2>1, <3>1
  <2>3. \A A \in SUBSET Retained' : A \in SUBSET Retained
    BY <2>1, RangesAssumption DEF Retained, TokensInv
  <2>4. Agrees(file) => Agrees(file)'
    BY <2>1, <2>3 DEF Agrees
  <2> QED
    BY <2>1, <2>2, <2>4 DEF TokensInv
<1>5. CASE UNCHANGED S!vars
  BY <1>5 DEF TokensInv, S!vars, Agrees, Retained
<1> QED
  BY <1>1, <1>2, <1>3, <1>4, <1>5 DEF S!Next

(* Where a time falls on the time line *)
LEMMA PointOf ==
  ASSUME NEW a \in Int, NEW b \in Nat \ {0}, NEW i \in Int
  PROVE  a \div b = i <=> i * b <= a /\ a < (i + 1) * b
<1> DEFINE q == a \div b
<1>1. a = b * (a \div b) + (a % b)
  OBVIOUS
<1>2. a % b \in 0 .. b - 1 /\ a \div b \in Int
  OBVIOUS
<1>3. q * b <= a /\ a < q * b + b
  BY <1>1, <1>2
<1>4. (q + 1) * b = q * b + b /\ (i + 1) * b = i * b + b
  BY <1>2
<1>5. q < i => (q + 1) * b <= i * b
  BY <1>2
<1>6. i < q => (i + 1) * b <= q * b
  BY <1>2
<1> QED
  BY <1>2, <1>3, <1>4, <1>5, <1>6

(* and which times are of a point *)
LEMMA PointInterval ==
  ASSUME NEW time \in Nat, NEW n \in Nat \ {0}, NEW b \in Nat \ {0}, NEW i \in 0 .. n - 1,
         NEW t \in 0 .. time
  PROVE  LET from == time - n * b
         IN  from <= t /\ (t - from) \div b = i
               <=> t \in time - (n - i) * b .. time - (n - (i + 1)) * b - 1
<1> DEFINE from == time - n * b
           low == i * b
           high == (i + 1) * b
<1>1. n * b \in Nat /\ low \in Nat /\ high \in Nat /\ high <= n * b /\ from \in Int
  OBVIOUS
<1>2. time - (n - i) * b = from + low /\ time - (n - (i + 1)) * b = from + high
  OBVIOUS
<1>3. t - from \in Int /\ i \in Int
  BY <1>1
<1>4. (t - from) \div b = i <=> low <= t - from /\ t - from < high
  BY <1>3, PointOf
<1> HIDE DEF from, low, high
<1>5. from <= t /\ (t - from) \div b = i <=> t \in from + low .. from + high - 1
  BY <1>1, <1>4
<1> QED
  BY <1>2, <1>5 DEF from

(* The page counts what is in the file *)
LEMMA TokensCounted ==
  ASSUME TokensInv
  PROVE  EachCountedOnce
<1> SUFFICES ASSUME writing = <<>>, ~lost, NEW range \in Ranges
             PROVE  LET stats == S!GetTokenStats(range)
                        Start(i) == snow - (range.points - i) * range.interval
                    IN /\ stats.total = S!Cardinality({k \in DOMAIN done : done[k] >= Start(0)})
                       /\ \A i \in 0 .. range.points - 1 :
                            stats.points[i] = S!Cardinality({k \in DOMAIN done : done[k] \in Start(i) .. Start(i + 1) - 1})
  BY DEF EachCountedOnce, S!EachCountedOnce
<1> DEFINE n == range.points
           b == range.interval
           from == snow - n * b
           Start(i) == snow - (n - i) * b
           I == {k \in DOMAIN file : from <= file[k] /\ file[k] <= snow}
           records == Picked(file, I)
           Point(r) == (r - from) \div b
<1>1. /\ snow \in Nat /\ done \in Seq(0 .. snow) /\ file \in Seq(Nat) /\ file # Torn /\ Agrees(file)
  BY DEF TokensInv
<1>2. n \in Nat \ {0} /\ b \in Nat \ {0} /\ n * b \in Nat /\ n * b <= Retention /\ Retention \in Nat
  BY RangesAssumption
<1>3. S!GetTokenStats(range) =
        [total |-> Len(records),
         points |-> [i \in 0 .. n - 1 |-> Cardinality({k \in DOMAIN records : Point(records[k]) = i})]]
  <2>1. S!QueryTokenRecords(from, snow) = records
    BY <1>1, StatsPicked DEF S!QueryTokenRecords, S!Readable, S!Where
  <2> QED
    BY <2>1, StatsPicked DEF S!GetTokenStats
<1>4. S!GetTokenStats(range).total = S!Cardinality({k \in DOMAIN done : done[k] >= Start(0)})
  <2> DEFINE A == {t \in Nat : from <= t /\ t <= snow}
  <2>1. A \in SUBSET Retained
    BY <1>1, <1>2 DEF Retained
  <2>2. Len(records) = Cardinality(I)
    BY <1>1, PickedElements
  <2>3. I = {k \in DOMAIN file : file[k] \in A}
    BY <1>1
  <2>4. {k \in DOMAIN done : done[k] >= Start(0)} = {k \in DOMAIN done : done[k] \in A}
    <3>1. Start(0) = from
      BY <1>2
    <3>2. \A k \in DOMAIN done : done[k] \in Nat /\ done[k] <= snow
      BY <1>1
    <3> QED
      BY <1>1, <1>2, <3>1, <3>2
  <2>5. Count(file, A) = Count(done, A)
    BY <1>1, <2>1 DEF Agrees
  <2>6. S!GetTokenStats(range).total = Len(records)
    BY <1>3
  <2>7. S!Cardinality({k \in DOMAIN done : done[k] >= Start(0)}) = Count(done, A)
    BY <2>4, StatsPicked DEF Count
  <2>8. Cardinality(I) = Count(file, A)
    BY <2>3 DEF Count
  <2> QED
    BY <2>2, <2>5, <2>6, <2>7, <2>8
<1>5. ASSUME NEW i \in 0 .. n - 1
      PROVE  S!GetTokenStats(range).points[i]
               = S!Cardinality({k \in DOMAIN done : done[k] \in Start(i) .. Start(i + 1) - 1})
  <2> DEFINE A == {t \in Nat : from <= t /\ t <= snow /\ Point(t) = i}
             B == {t \in Nat : Point(t) = i}
  <2>1. A \in SUBSET Retained
    BY <1>1, <1>2 DEF Retained
  <2>2. {k \in DOMAIN records : Point(records[k]) = i} = {k \in DOMAIN records : records[k] \in B}
    <3>0. I \in SUBSET DOMAIN file
      OBVIOUS
    <3>1. \A k \in DOMAIN records : records[k] \in Nat
      <4> HIDE DEF I
      <4>1. records \in Seq(Nat)
        BY <1>1, <3>0, PickedElements
      <4> HIDE DEF records
      <4> QED
        BY <4>1
    <3> QED
      BY <3>1
  <2>3. Count(records, B) = Cardinality({k \in I : file[k] \in B})
    BY <1>1, PickedCount
  <2>4. {k \in I : file[k] \in B} = {k \in DOMAIN file : file[k] \in A}
    BY <1>1
  <2>5. Count(file, A) = Count(done, A)
    BY <1>1, <2>1 DEF Agrees
  <2>6. ASSUME NEW t \in 0 .. snow
        PROVE  t \in A <=> t \in Start(i) .. Start(i + 1) - 1
    <3>0. snow \in Nat /\ n \in Nat \ {0} /\ b \in Nat \ {0} /\ i \in 0 .. n - 1 /\ t \in 0 .. snow
      BY <1>1, <1>2
    <3> HIDE DEF n, b
    <3>1. from <= t /\ Point(t) = i <=> t \in Start(i) .. Start(i + 1) - 1
      BY <3>0, PointInterval, Zenon
    <3>2. t \in Nat /\ t <= snow
      BY <1>1
    <3> HIDE DEF Point, from, Start
    <3> QED
      BY <3>1, <3>2
  <2>7. {k \in DOMAIN done : done[k] \in Start(i) .. Start(i + 1) - 1} = {k \in DOMAIN done : done[k] \in A}
    BY <1>1, <2>6
  <2>8. S!GetTokenStats(range).points[i] = Cardinality({k \in DOMAIN records : Point(records[k]) = i})
    BY <1>3
  <2> QED
    BY <2>2, <2>3, <2>4, <2>5, <2>7, <2>8, StatsPicked DEF Count
<1> QED
  BY <1>4, <1>5

(***************************************************************************)
(* The page counts each request of its range once, in the totals and at    *)
(* the point of the time line where it belongs (RecordTokenUsage,          *)
(* GetTokenStats): what the retention drops is in no range, for any ranges *)
(* that go back no further than the retention.                             *)
(***************************************************************************)
THEOREM TokensCountedOnce == Spec => []EachCountedOnce
<1>1. S!Init => TokensInv
  <2>1. \A A : Count(<<>>, A) = 0
    BY FS_EmptySet DEF Count
  <2> SUFFICES ASSUME S!Init
               PROVE  TokensInv
    OBVIOUS
  <2>2. file = <<>> /\ writing = <<>> /\ snow = 0 /\ done = <<>>
    BY DEF S!Init
  <2>3. <<>> \in Seq(Nat) /\ <<>> \in Seq(0 .. 0) /\ Torn \notin Seq(Nat)
    BY RangesAssumption
  <2> QED
    BY <2>1, <2>2, <2>3 DEF TokensInv, Agrees
<1>2. TokensInv /\ [S!Next]_S!vars => TokensInv'
  BY TokensKept
<1>3. Spec => S!Spec
  BY StoresApart
<1>4. TokensInv => EachCountedOnce
  BY TokensCounted
<1> QED
  BY <1>1, <1>2, <1>3, <1>4, PTL DEF S!Spec

----------------------------------------------------------------------------
(* Captured rounds *)

Capture == [req : Requests, round : Nat, created : Nat]

(* The captures of a request in the store, by their positions *)
Own(entries, r) == {i \in DOMAIN entries : entries[i].req = r}

(* The k-th of a request's captures in the store, from the newest, is its k-th last one *)
Placed(i) ==
  LET r == caps[i].req
      k == Rank(Own(caps, r), i)
  IN  k <= Len(pushed[r]) /\ caps[i] = pushed[r][Len(pushed[r]) - k + 1]

(* Nothing of the sampled request is lost *)
AllThere ==
  /\ since <= Len(caps)
  /\ \A k \in 1 .. Len(pushed[Sampled]) :
       \E i \in 1 .. since : caps[i].req = Sampled /\ Rank(Own(caps, Sampled), i) = k

CaptureTypes ==
  /\ cnow \in Nat /\ caps \in Seq(Capture) /\ pushed \in [Requests -> Seq(Capture)]
  /\ state \in [Requests -> {"new", "open", "between", "done"}]
  /\ round \in [Requests -> Nat] /\ created \in [Requests -> Nat]
  /\ since \in Nat /\ cleared \in BOOLEAN /\ handler \in {"off", "running", "left"}

(* A request's captures, in the order of their seconds *)
InTime(r) ==
  /\ created[r] <= cnow
  /\ state[r] = "new" => pushed[r] = <<>>
  /\ \A i \in DOMAIN pushed[r] :
       /\ pushed[r][i].req = r /\ pushed[r][i].created <= created[r]
       /\ \A j \in DOMAIN pushed[r] : i < j => pushed[r][i].created <= pushed[r][j].created

(* The page's first snapshot *)
SnapshotOf == \A e \in Capture : e.req = Sampled => C!Id(e) \notin before

CapturesInv ==
  /\ CaptureTypes
  /\ \A r \in Requests : InTime(r)
  /\ \A i \in DOMAIN caps : Placed(i)
  /\ handler # "off" => SnapshotOf
  /\ state[Sampled] # "new" /\ ~cleared /\ since <= Captures => AllThere
  /\ SampleHasOwn

(* Where the captures are when one is put before them *)
LEMMA PushedAt ==
  ASSUME NEW s \in Seq(Capture), NEW e \in Capture, NEW t \in Seq(Capture),
         NEW m \in 1 .. Len(s) + 1, t = SubSeq(<<e>> \o s, 1, m)
  PROVE  /\ Len(t) = m /\ t[1] = e
         /\ \A i \in DOMAIN t : i # 1 => i - 1 \in DOMAIN s /\ t[i] = s[i - 1]
<1>1. Len(s) \in Nat /\ m \in Nat /\ DOMAIN s = 1 .. Len(s)
  OBVIOUS
<1>2. Len(t) = m /\ DOMAIN t = 1 .. m /\ t[1] = e
  BY <1>1
<1>3. ASSUME NEW i \in 2 .. m
      PROVE  i - 1 \in DOMAIN s /\ t[i] = s[i - 1]
  BY <1>1
<1>4. \A i \in DOMAIN t : i # 1 => i \in 2 .. m
  BY <1>1, <1>2
<1> QED
  BY <1>2, <1>3, <1>4

(* Their places among a request's captures then: the first *)
LEMMA PushedFirst ==
  ASSUME NEW s \in Seq(Capture), NEW e \in Capture, NEW t \in Seq(Capture),
         NEW m \in 1 .. Len(s) + 1, t = SubSeq(<<e>> \o s, 1, m)
  PROVE  Rank(Own(t, e.req), 1) = 1
<1>1. Len(t) = m /\ t[1] = e /\ DOMAIN t = 1 .. m /\ m \in Nat /\ 1 <= m
  BY PushedAt
<1>2. {j \in Own(t, e.req) : j <= 1} = {1}
  BY <1>1 DEF Own
<1> QED
  BY <1>2, FS_Singleton DEF Rank

(* and the others *)
LEMMA PushedRanks ==
  ASSUME NEW s \in Seq(Capture), NEW e \in Capture, NEW t \in Seq(Capture),
         NEW m \in 1 .. Len(s) + 1, t = SubSeq(<<e>> \o s, 1, m)
  PROVE  \A i \in DOMAIN t : i # 1 =>
           \A r : Rank(Own(t, r), i)
                    = IF r = e.req THEN Rank(Own(s, r), i - 1) + 1 ELSE Rank(Own(s, r), i - 1)
<1>1. Len(s) \in Nat /\ m \in Nat /\ DOMAIN s = 1 .. Len(s)
  OBVIOUS
<1>2. Len(t) = m /\ DOMAIN t = 1 .. m /\ t[1] = e
  BY PushedAt
<1>6. \A i \in DOMAIN t : i # 1 => i \in 2 .. m
  BY <1>1, <1>2
<1>3. \A i \in 2 .. m : i - 1 \in DOMAIN s /\ t[i] = s[i - 1]
  <2>1. \A i \in 2 .. m : i \in DOMAIN t /\ i # 1
    BY <1>1, <1>2
  <2> QED
    BY <2>1, PushedAt
<1>5. ASSUME NEW i \in 2 .. m, NEW r
      PROVE  Rank(Own(t, r), i)
               = IF r = e.req THEN Rank(Own(s, r), i - 1) + 1 ELSE Rank(Own(s, r), i - 1)
  <2> DEFINE A == {j \in Own(s, r) : j <= i - 1}
             B == {j \in Own(t, r) : j <= i /\ j # 1}
             f == [j \in A |-> j + 1]
  <2>1. \A j \in A : j + 1 \in B
    <3> SUFFICES ASSUME NEW j \in 1 .. Len(s), s[j].req = r, j <= i - 1
                 PROVE  j + 1 \in DOMAIN t /\ t[j + 1].req = r /\ j + 1 <= i /\ j + 1 # 1
      BY <1>1 DEF Own
    <3>1. j + 1 \in 2 .. m /\ (j + 1) - 1 = j
      BY <1>1
    <3>2. t[j + 1] = s[j]
      BY <1>3, <3>1
    <3> QED
      BY <1>1, <1>2, <3>1, <3>2
  <2>2. ASSUME NEW j \in B
        PROVE  \E k \in A : f[k] = j
    <3>1. j \in 2 .. m /\ t[j].req = r /\ j <= i
      BY <1>1, <1>2 DEF Own
    <3>2. j - 1 \in DOMAIN s /\ t[j] = s[j - 1]
      BY <1>3, <3>1
    <3>3. j - 1 \in A
      BY <1>1, <3>1, <3>2 DEF Own
    <3>4. f[j - 1] = j
      BY <3>1, <3>3
    <3> QED
      BY <3>3, <3>4
  <2>3. \A j, k \in A : f[j] = f[k] => j = k
    BY <1>1 DEF Own
  <2>4. IsFiniteSet(A) /\ A \in SUBSET (1 .. Len(s)) /\ 1 \notin B
    <3>1. A \in SUBSET (1 .. Len(s)) /\ 1 \notin B
      BY <1>1 DEF Own
    <3> HIDE DEF A
    <3> QED
      BY <1>1, <3>1, Ranks
  <2>5. {j \in Own(t, r) : j <= i} = IF r = e.req THEN B \cup {1} ELSE B
    <3>1. 1 \in Own(t, r) <=> r = e.req
      BY <1>1, <1>2 DEF Own
    <3>2. 1 <= i
      BY <1>1
    <3> QED
      BY <3>1, <3>2
  <2>6. Rank(Own(s, r), i - 1) = Cardinality(A)
    BY DEF Rank
  <2> HIDE DEF A, B
  <2>7. f \in Bijection(A, B)
    BY <2>1, <2>2, <2>3, Fun_IsBij
  <2> HIDE DEF f
  <2>8. IsFiniteSet(B) /\ Cardinality(B) = Cardinality(A)
    BY <2>4, <2>7, FS_Bijection DEF ExistsBijection
  <2>9. Cardinality(B \cup {1}) = Cardinality(A) + 1
    BY <2>4, <2>8, FS_AddElement
  <2> QED
    BY <2>5, <2>6, <2>8, <2>9 DEF Rank
<1> QED
  BY <1>5, <1>6

(* A sample that stays stays right *)
LEMMA SampleStays ==
  ASSUME SampleHasOwn, sample' = sample
  PROVE  SampleHasOwn'
  BY DEF SampleHasOwn, C!SampleHasOwn

(* Time goes on, and the rounds with it *)
LEMMA StaysInOrder ==
  ASSUME CapturesInv, NEW r \in Requests, pushed'[r] = pushed[r],
         created'[r] \in Nat, created[r] <= created'[r], created'[r] <= cnow',
         state'[r] = "new" => state[r] = "new"
  PROVE  InTime(r)'
<1>1. InTime(r) /\ pushed[r] \in Seq(Capture) /\ created[r] \in Nat
  BY DEF CapturesInv, CaptureTypes
<1>2. \A i \in DOMAIN pushed[r] : pushed[r][i].created \in Nat
  <2>1. \A i \in DOMAIN pushed[r] : pushed[r][i] \in Capture
    BY <1>1, ElementOfSeq
  <2>2. \A x \in Capture : x.created \in Nat
    BY DEF Capture
  <2> QED
    BY <2>1, <2>2
<1>3. \A i \in DOMAIN pushed[r] : pushed[r][i].created <= created'[r]
  BY <1>1, <1>2 DEF InTime
<1> QED
  BY <1>1, <1>3 DEF InTime

(* A step that neither captures nor takes anything *)
LEMMA CapturesStay ==
  ASSUME CapturesInv, UNCHANGED <<caps, pushed, since, cleared, before, sample>>,
         handler' \in {"off", "running", "left"}, handler = "off" => handler' = "off",
         state' \in [Requests -> {"new", "open", "between", "done"}],
         round' \in [Requests -> Nat], created' \in [Requests -> Nat], cnow' \in Nat,
         \A r \in Requests : /\ created[r] <= created'[r] /\ created'[r] <= cnow'
                             /\ state'[r] = "new" => state[r] = "new",
         state[Sampled] = "new" => state'[Sampled] = "new"
  PROVE  CapturesInv'
<1>1. CaptureTypes'
  BY DEF CapturesInv, CaptureTypes
<1>2. ASSUME NEW r \in Requests
      PROVE  InTime(r)'
  BY StaysInOrder
<1>3. \A i \in DOMAIN caps' : Placed(i)'
  BY DEF CapturesInv, Placed
<1>4. handler' # "off" => SnapshotOf'
  BY DEF CapturesInv, SnapshotOf
<1>5. state'[Sampled] # "new" /\ ~cleared' /\ since' <= Captures => AllThere'
  BY DEF CapturesInv, AllThere
<1>6. SampleHasOwn'
  BY SampleStays DEF CapturesInv
<1> QED
  BY <1>1, <1>2, <1>3, <1>4, <1>5, <1>6 DEF CapturesInv

(* The page begins: its request has no captures, so the snapshot has none of it *)
LEMMA CapturesBegin ==
  ASSUME CapturesInv, C!Begin(Sampled)
  PROVE  CapturesInv'
<1>1. /\ state[Sampled] = "new" /\ since' = 0 /\ handler' = "running" /\ cleared' = FALSE
      /\ state' = [state EXCEPT ![Sampled] = "open"] /\ round' = [round EXCEPT ![Sampled] = 1]
      /\ created' = [created EXCEPT ![Sampled] = cnow]
      /\ before' = {C!Id(e) : e \in C!Range(caps)}
      /\ UNCHANGED <<caps, cnow, sample, pushed>>
  BY DEF C!Begin, C!Open
<1>2. Sampled \in Requests /\ CaptureTypes /\ InTime(Sampled)
  BY CapturesAssumption DEF CapturesInv
<1>3. pushed[Sampled] = <<>>
  BY <1>1, <1>2 DEF InTime
<1>4. CaptureTypes'
  BY <1>1, <1>2 DEF CaptureTypes
<1>5. ASSUME NEW r \in Requests
      PROVE  InTime(r)'
  <2>1. /\ created[r] \in Nat /\ created[r] <= cnow /\ cnow \in Nat
        /\ state[r] \in {"new", "open", "between", "done"}
    BY DEF CapturesInv, CaptureTypes, InTime
  <2>2. created'[r] \in {created[r], cnow} /\ state'[r] \in {state[r], "open"}
    BY <1>1, <1>2 DEF CaptureTypes
  <2> QED
    BY <1>1, <2>1, <2>2, StaysInOrder
<1>6. \A i \in DOMAIN caps' : Placed(i)'
  BY <1>1 DEF CapturesInv, Placed
<1>7. ASSUME NEW i \in DOMAIN caps
      PROVE  caps[i].req # Sampled
  <2> SUFFICES ASSUME caps[i].req = Sampled
               PROVE  FALSE
    OBVIOUS
  <2>1. Own(caps, Sampled) \in SUBSET (1 .. Len(caps)) /\ Len(caps) \in Nat /\ i \in Own(caps, Sampled)
    BY <1>2 DEF CaptureTypes, Own
  <2>2. Rank(Own(caps, Sampled), i) \in 1 .. Cardinality(Own(caps, Sampled))
    BY <2>1, Ranks
  <2>3. Rank(Own(caps, Sampled), i) <= 0
    BY <1>3 DEF CapturesInv, Placed
  <2> QED
    BY <2>2, <2>3
<1>8. SnapshotOf'
  <2> SUFFICES ASSUME NEW e \in Capture, e.req = Sampled, C!Id(e) \in before'
               PROVE  FALSE
    BY DEF SnapshotOf
  <2>1. PICK i \in DOMAIN caps : C!Id(e) = C!Id(caps[i])
    BY <1>1 DEF C!Range
  <2>2. C!Id(e)[1] = Sampled /\ C!Id(caps[i])[1] = caps[i].req
    BY DEF C!Id
  <2> QED
    BY <1>7, <2>1, <2>2
<1>9. AllThere'
  <2>1. since' <= Len(caps') /\ Len(pushed'[Sampled]) = 0
    BY <1>1, <1>2, <1>3 DEF CaptureTypes
  <2> QED
    BY <2>1 DEF AllThere
<1>10. SampleHasOwn'
  BY <1>1, SampleStays DEF CapturesInv
<1> QED
  BY <1>4, <1>5, <1>6, <1>8, <1>9, <1>10 DEF CapturesInv

(* A round, or an attempt that was not answered, is captured *)
LEMMA CapturePushed ==
  ASSUME CapturesInv, NEW r \in Requests, NEW e \in Capture,
         e.req = r, e.created = created[r], state[r] = "open", C!push(e),
         UNCHANGED <<round, created, cnow, handler, before, sample, cleared>>,
         state' \in [Requests -> {"new", "open", "between", "done"}],
         \A q \in Requests : state'[q] = "new" <=> state[q] = "new"
  PROVE  CapturesInv'
<1> DEFINE m == IF Len(caps) < Captures THEN Len(caps) + 1 ELSE Captures
<1>1. /\ caps' = SubSeq(<<e>> \o caps, 1, m) /\ since' = since + 1
      /\ pushed' = [pushed EXCEPT ![r] = Append(@, e)]
  BY DEF C!push
<1>2. /\ caps \in Seq(Capture) /\ m \in 1 .. Len(caps) + 1 /\ since \in Nat
      /\ \A q \in Requests : pushed[q] \in Seq(Capture)
      /\ \A i \in DOMAIN caps : caps[i] \in Capture /\ caps[i].req \in Requests
  <2>1. caps \in Seq(Capture) /\ since \in Nat /\ pushed \in [Requests -> Seq(Capture)]
    BY DEF CapturesInv, CaptureTypes
  <2>2. m \in 1 .. Len(caps) + 1
    <3>1. Len(caps) \in Nat /\ Captures \in Nat \ {0}
      BY <2>1, CapturesAssumption
    <3> QED
      BY <3>1
  <2>3. \A i \in DOMAIN caps : caps[i] \in Capture
    BY <2>1, ElementOfSeq
  <2>4. \A x \in Capture : x.req \in Requests
    BY DEF Capture
  <2> QED
    BY <2>1, <2>2, <2>3, <2>4
<1>3. caps' \in Seq(Capture)
  BY <1>1, <1>2
<1>4. /\ Len(caps') = m /\ caps'[1] = e /\ Rank(Own(caps', r), 1) = 1
      /\ \A i \in DOMAIN caps' : i # 1 => i - 1 \in DOMAIN caps /\ caps'[i] = caps[i - 1]
      /\ \A i \in DOMAIN caps' : i # 1 =>
           \A q : Rank(Own(caps', q), i)
                    = IF q = r THEN Rank(Own(caps, q), i - 1) + 1 ELSE Rank(Own(caps, q), i - 1)
  <2>1. m \in 1 .. Len(caps) + 1 /\ caps' = SubSeq(<<e>> \o caps, 1, m)
    BY <1>1, <1>2
  <2> HIDE DEF m
  <2>3. /\ caps \in Seq(Capture) /\ caps' \in Seq(Capture)
        /\ m \in 1 .. Len(caps) + 1 /\ caps' = SubSeq(<<e>> \o caps, 1, m)
    BY <1>2, <1>3, <2>1
  <2>2. /\ Len(caps') = m /\ caps'[1] = e /\ Rank(Own(caps', e.req), 1) = 1
        /\ \A i \in DOMAIN caps' : i # 1 => i - 1 \in DOMAIN caps /\ caps'[i] = caps[i - 1]
        /\ \A i \in DOMAIN caps' : i # 1 =>
             \A q : Rank(Own(caps', q), i)
                      = IF q = e.req THEN Rank(Own(caps, q), i - 1) + 1 ELSE Rank(Own(caps, q), i - 1)
    <3>1. /\ Len(caps') = m /\ caps'[1] = e
          /\ \A i \in DOMAIN caps' : i # 1 => i - 1 \in DOMAIN caps /\ caps'[i] = caps[i - 1]
      BY <2>3, PushedAt
    <3>2. Rank(Own(caps', e.req), 1) = 1
      BY <2>3, PushedFirst
    <3>3. \A i \in DOMAIN caps' : i # 1 =>
            \A q : Rank(Own(caps', q), i)
                     = IF q = e.req THEN Rank(Own(caps, q), i - 1) + 1 ELSE Rank(Own(caps, q), i - 1)
      BY <2>3, PushedRanks
    <3> QED
      BY <3>1, <3>2, <3>3
  <2> QED
    BY <2>2
<1>5. CaptureTypes'
  <2>1. pushed' \in [Requests -> Seq(Capture)]
    BY <1>1, <1>2 DEF CapturesInv, CaptureTypes
  <2> QED
    BY <1>1, <1>3, <2>1 DEF CapturesInv, CaptureTypes
<1>6. ASSUME NEW q \in Requests
      PROVE  InTime(q)'
  <2>1. InTime(q) /\ pushed[q] \in Seq(Capture) /\ pushed[r] \in Seq(Capture)
    BY <1>2 DEF CapturesInv
  <2>2. CASE q # r
    <3>1. pushed'[q] = pushed[q]
      BY <1>1, <2>2 DEF CapturesInv, CaptureTypes
    <3> QED
      BY <2>1, <3>1 DEF InTime
  <2>3. CASE q = r
    <3> DEFINE old == pushed[r]
               new == Append(old, e)
    <3>1. pushed'[q] = new
      BY <1>1, <2>3 DEF CapturesInv, CaptureTypes
    <3>2. /\ DOMAIN new = 1 .. Len(old) + 1 /\ DOMAIN old = 1 .. Len(old) /\ Len(old) \in Nat
          /\ new[Len(old) + 1] = e
          /\ \A i \in DOMAIN old : new[i] = old[i]
      BY <2>1
    <3>3. \A i \in DOMAIN old : /\ old[i].req = r /\ old[i].created <= created[r]
                                /\ \A j \in DOMAIN old : i < j => old[i].created <= old[j].created
      BY <2>1, <2>3 DEF InTime
    <3>4. created[r] \in Nat /\ created[r] <= cnow
      BY <2>1, <2>3 DEF InTime, CapturesInv, CaptureTypes
    <3> HIDE DEF old, new
    <3>5. \A i \in DOMAIN new : i \in DOMAIN old \/ i = Len(old) + 1
      BY <3>2
    <3>6. \A i \in DOMAIN new : new[i].req = r /\ new[i].created <= created[r]
      BY <3>2, <3>3, <3>4, <3>5
    <3>7. ASSUME NEW i \in DOMAIN new, NEW j \in DOMAIN new, i < j
          PROVE  new[i].created <= new[j].created
      <4>1. i \in DOMAIN old
        BY <3>2, <3>5, <3>7
      <4> QED
        BY <3>2, <3>3, <3>5, <3>7, <4>1
    <3> QED
      BY <2>3, <3>1, <3>4, <3>6, <3>7 DEF InTime
  <2> QED
    BY <2>2, <2>3
<1>7. ASSUME NEW i \in DOMAIN caps'
      PROVE  Placed(i)'
  <2>1. pushed'[r] = Append(pushed[r], e) /\ \A q \in Requests : q # r => pushed'[q] = pushed[q]
    BY <1>1 DEF CapturesInv, CaptureTypes
  <2>2. pushed[r] \in Seq(Capture) /\ Len(pushed'[r]) = Len(pushed[r]) + 1
        /\ Len(pushed[r]) \in Nat /\ pushed'[r][Len(pushed[r]) + 1] = e
        /\ \A n \in 1 .. Len(pushed[r]) : pushed'[r][n] = pushed[r][n]
    BY <1>2, <2>1
  <2>3. CASE i = 1
    BY <1>4, <2>2, <2>3 DEF Placed
  <2>4. CASE i # 1
    <3> DEFINE j == i - 1
               q == caps[j].req
               k == Rank(Own(caps, q), j)
    <3>1. j \in DOMAIN caps /\ caps'[i] = caps[j] /\ q \in Requests
      BY <1>2, <1>4, <2>4
    <3>2. k <= Len(pushed[q]) /\ caps[j] = pushed[q][Len(pushed[q]) - k + 1]
      BY <3>1 DEF CapturesInv, Placed
    <3>3. k \in Nat /\ k >= 1
      <4>1. Own(caps, q) \in SUBSET (1 .. Len(caps)) /\ j \in Own(caps, q) /\ Len(caps) \in Nat
        BY <1>2, <3>1 DEF Own
      <4>2. Rank(Own(caps, q), j) \in 1 .. Cardinality(Own(caps, q)) /\ Cardinality(Own(caps, q)) \in Nat
        BY <4>1, Ranks
      <4> QED
        BY <4>2
    <3>4. Rank(Own(caps', q), i) = IF q = r THEN k + 1 ELSE k
      BY <1>4, <2>4
    <3> HIDE DEF k
    <3>5. CASE q = r
      <4>1. Len(pushed'[r]) - (k + 1) + 1 = Len(pushed[r]) - k + 1
        BY <2>2, <3>3
      <4>2. Len(pushed[r]) - k + 1 \in 1 .. Len(pushed[r])
        BY <2>2, <3>2, <3>3, <3>5
      <4>3. k + 1 <= Len(pushed'[r]) /\ Rank(Own(caps', r), i) = k + 1 /\ caps'[i].req = r
        BY <2>2, <3>1, <3>2, <3>3, <3>4, <3>5
      <4>4. caps'[i] = pushed'[r][Len(pushed'[r]) - (k + 1) + 1]
        BY <2>2, <3>1, <3>2, <3>5, <4>1, <4>2
      <4> QED
        BY <4>3, <4>4 DEF Placed
    <3>6. CASE q # r
      BY <2>1, <3>1, <3>2, <3>4, <3>6 DEF Placed
    <3> QED
      BY <3>5, <3>6
  <2> QED
    BY <2>3, <2>4
<1>8. handler' # "off" => SnapshotOf'
  BY DEF CapturesInv, SnapshotOf
<1>9. ASSUME state'[Sampled] # "new", ~cleared', since' <= Captures
      PROVE  AllThere'
  <2>1. since + 1 <= Captures /\ AllThere
    BY <1>1, <1>2, <1>9, CapturesAssumption DEF CapturesInv
  <2>2. since' <= Len(caps')
    BY <1>1, <1>2, <1>4, <2>1, CapturesAssumption DEF AllThere
  <2>3. ASSUME NEW k \in 1 .. Len(pushed'[Sampled])
        PROVE  \E i \in 1 .. since' : caps'[i].req = Sampled /\ Rank(Own(caps', Sampled), i) = k
    <3>1. CASE Sampled = r /\ k = 1
      BY <1>1, <1>2, <1>4, <3>1
    <3>2. CASE ~(Sampled = r /\ k = 1)
      <4> DEFINE l == IF Sampled = r THEN k - 1 ELSE k
      <4>1. l \in 1 .. Len(pushed[Sampled])
        <5>1. pushed'[Sampled] = IF Sampled = r THEN Append(pushed[r], e) ELSE pushed[Sampled]
          BY <1>1, CapturesAssumption DEF CapturesInv, CaptureTypes
        <5>2. pushed[Sampled] \in Seq(Capture)
          BY <1>2, CapturesAssumption
        <5> QED
          BY <3>2, <5>1, <5>2
      <4>2. PICK j \in 1 .. since : caps[j].req = Sampled /\ Rank(Own(caps, Sampled), j) = l
        BY <2>1, <4>1 DEF AllThere
      <4>3. j + 1 \in DOMAIN caps' /\ j + 1 # 1 /\ (j + 1) - 1 = j /\ j + 1 \in 1 .. since'
        <5>1. DOMAIN caps' = 1 .. Len(caps')
          BY <1>3
        <5>2. Len(caps') \in Nat
          BY <1>3
        <5> QED
          BY <1>1, <1>2, <2>2, <5>1, <5>2
      <4>4. caps'[j + 1] = caps[j]
        BY <1>4, <4>3
      <4>5. Rank(Own(caps', Sampled), j + 1) = IF Sampled = r THEN l + 1 ELSE l
        BY <1>4, <4>2, <4>3
      <4>6. (IF Sampled = r THEN l + 1 ELSE l) = k
        OBVIOUS
      <4> QED
        BY <4>2, <4>3, <4>4, <4>5, <4>6
    <3> QED
      BY <3>1, <3>2
  <2> QED
    BY <2>2, <2>3 DEF AllThere
<1>10. SampleHasOwn'
  BY SampleStays DEF CapturesInv
<1> QED
  BY <1>5, <1>6, <1>7, <1>8, <1>9, <1>10 DEF CapturesInv

(***************************************************************************)
(* What the page takes of its request is what the store has of it that a   *)
(* failed attempt did not leave, turned round: no other capture of the     *)
(* request was there before.                                               *)
(***************************************************************************)
LEMMA OwnTaken ==
  ASSUME CapturesInv, SnapshotOf
  PROVE  LET own == C!Of(Sampled, C!collectNewCaptureEntries(before, caps))
             all == C!Of(Sampled, pushed[Sampled])
         IN  C!IsSuffix(own, all) /\ (AllThere => own = all)
<1> DEFINE t == pushed[Sampled]
           I == {i \in DOMAIN caps : C!Id(caps[i]) \notin before /\ caps[i].round # 0}
           p == Picked(caps, I)
           entries == C!Reverse(p)
           K == {k \in DOMAIN entries : entries[k].req = Sampled /\ entries[k].round # 0}
           J == {q \in DOMAIN t : t[q].req = Sampled /\ t[q].round # 0}
           O == Own(caps, Sampled)
           n == Cardinality(I)
           At(k) == CHOOSE i \in I : Rank(I, i) = n - k + 1
           f == [k \in K |-> Len(t) - Rank(O, At(k)) + 1]
<1>1. C!collectNewCaptureEntries(before, caps) = entries
  BY CapturesPicked DEF C!collectNewCaptureEntries, C!Where
<1>2. C!Of(Sampled, entries) = Picked(entries, K) /\ C!Of(Sampled, t) = Picked(t, J)
  BY CapturesPicked DEF C!Of, C!Where
<1>3. /\ caps \in Seq(Capture) /\ t \in Seq(Capture) /\ since \in Nat
      /\ \A i \in DOMAIN caps : caps[i] \in Capture
  <2>1. caps \in Seq(Capture) /\ t \in Seq(Capture) /\ since \in Nat
    BY CapturesAssumption DEF CapturesInv, CaptureTypes
  <2> QED
    BY <2>1, ElementOfSeq
<1>4. /\ Len(caps) \in Nat /\ DOMAIN caps = 1 .. Len(caps) /\ Len(t) \in Nat /\ DOMAIN t = 1 .. Len(t)
      /\ I \in SUBSET DOMAIN caps /\ J \in SUBSET DOMAIN t /\ O \in SUBSET (1 .. Len(caps))
      /\ \A i \in O : i \in DOMAIN caps /\ caps[i].req = Sampled
      /\ \A i \in DOMAIN caps : caps[i].req = Sampled => i \in O
  BY <1>3 DEF Own
<1> HIDE DEF t
<1>5. /\ n \in Nat
      /\ \A i \in I : Rank(I, i) \in 1 .. n
      /\ \A i, j \in I : i < j => Rank(I, i) < Rank(I, j)
      /\ \A i, j \in I : Rank(I, i) = Rank(I, j) => i = j
      /\ \A k \in 1 .. n : \E i \in I : Rank(I, i) = k
  BY <1>4, Ranks
<1>6. /\ Cardinality(O) \in Nat
      /\ \A i \in O : Rank(O, i) \in 1 .. Cardinality(O)
      /\ \A i, j \in O : i < j => Rank(O, i) < Rank(O, j)
      /\ \A k \in 1 .. Cardinality(O) : \E i \in O : Rank(O, i) = k
  BY <1>4, Ranks
<1>7. /\ p \in Seq(Capture) /\ Len(p) = n
      /\ \A i \in I : p[Rank(I, i)] = caps[i]
  BY <1>3, <1>4, PickedElements
<1>8. \A i \in O : Rank(O, i) <= Len(t) /\ caps[i] = t[Len(t) - Rank(O, i) + 1]
  BY <1>4 DEF CapturesInv, Placed, t
<1> HIDE DEF I, p, O
<1>9. /\ entries \in Seq(Capture) /\ DOMAIN entries = 1 .. n
      /\ \A k \in 1 .. n : entries[k] = p[n - k + 1]
  BY <1>5, <1>7, Reversed
<1>10. ASSUME NEW k \in 1 .. n
       PROVE  At(k) \in I /\ Rank(I, At(k)) = n - k + 1 /\ entries[k] = caps[At(k)]
  <2>1. n - k + 1 \in 1 .. n
    BY <1>5
  <2>2. At(k) \in I /\ Rank(I, At(k)) = n - k + 1
    BY <1>5, <2>1
  <2> HIDE DEF At
  <2> QED
    BY <1>7, <1>9, <2>2
<1> HIDE DEF entries, At
<1>11. ASSUME NEW k \in K
       PROVE  /\ k \in 1 .. n /\ At(k) \in I /\ At(k) \in O
              /\ f[k] = Len(t) - Rank(O, At(k)) + 1 /\ f[k] \in J /\ entries[k] = t[f[k]]
  <2>1. k \in 1 .. n /\ entries[k].req = Sampled /\ entries[k].round # 0
    BY <1>9
  <2>2. At(k) \in I /\ entries[k] = caps[At(k)]
    BY <1>10, <2>1
  <2>3. At(k) \in O
    BY <1>4, <2>1, <2>2 DEF I
  <2>4. f[k] = Len(t) - Rank(O, At(k)) + 1
    OBVIOUS
  <2> HIDE DEF f
  <2>5. f[k] \in 1 .. Len(t) /\ entries[k] = t[f[k]]
    BY <1>4, <1>6, <1>8, <2>2, <2>3, <2>4
  <2> QED
    BY <1>4, <2>1, <2>2, <2>3, <2>4, <2>5
<1>12. f \in [K -> J]
  BY <1>11
<1> HIDE DEF f
<1>13. ASSUME NEW k \in K, NEW l \in K, k < l
       PROVE  f[k] < f[l]
  <2>1. k \in Int /\ l \in Int /\ At(k) \in Int /\ At(l) \in Int
    BY <1>4, <1>11
  <2>2. Rank(I, At(l)) < Rank(I, At(k))
    <3>1. Rank(I, At(l)) = n - l + 1 /\ Rank(I, At(k)) = n - k + 1
      BY <1>10, <1>11
    <3> QED
      BY <1>5, <1>13, <2>1, <3>1
  <2>3. At(l) < At(k)
    <3>1. ~(At(k) < At(l)) /\ At(k) # At(l)
      <4>1. Rank(I, At(l)) \in Int /\ Rank(I, At(k)) \in Int
        BY <1>5, <1>11
      <4> QED
        BY <1>5, <1>11, <2>2, <4>1
    <3> QED
      BY <2>1, <3>1
  <2>4. Rank(O, At(l)) < Rank(O, At(k)) /\ Rank(O, At(l)) \in Int /\ Rank(O, At(k)) \in Int
    BY <1>6, <1>11, <2>3
  <2> QED
    BY <1>4, <1>11, <2>4
<1>14. ASSUME NEW j \in O, NEW q \in J, Rank(O, j) = Len(t) - q + 1
       PROVE  \E l \in K : f[l] = q
  <2>1. q \in 1 .. Len(t) /\ t[q].req = Sampled /\ t[q].round # 0
    BY <1>4
  <2>2. caps[j] = t[q] /\ j \in DOMAIN caps /\ caps[j] \in Capture
    <3>1. Len(t) - Rank(O, j) + 1 = q
      BY <1>4, <1>14, <2>1
    <3> QED
      BY <1>3, <1>4, <1>8, <3>1
  <2>3. j \in I
    BY <2>1, <2>2 DEF SnapshotOf, I
  <2> DEFINE l == n - Rank(I, j) + 1
  <2>4. l \in 1 .. n /\ n - l + 1 = Rank(I, j)
    BY <1>5, <2>3
  <2> HIDE DEF l
  <2>5. At(l) = j
    BY <1>5, <1>10, <2>3, <2>4
  <2>6. entries[l] = t[q]
    BY <1>10, <2>2, <2>4, <2>5
  <2>7. l \in K
    BY <1>9, <2>1, <2>4, <2>6
  <2>8. f[l] = q
    BY <1>4, <1>11, <1>14, <2>1, <2>5, <2>7
  <2> QED
    BY <2>7, <2>8
<1>15. ASSUME NEW k \in K, NEW q \in J, f[k] < q
       PROVE  \E l \in K : f[l] = q
  <2>1. q \in 1 .. Len(t) /\ At(k) \in O /\ f[k] = Len(t) - Rank(O, At(k)) + 1
    BY <1>4, <1>11
  <2>2. Len(t) - q + 1 \in 1 .. Cardinality(O)
    <3>1. Rank(O, At(k)) \in 1 .. Cardinality(O)
      BY <1>6, <2>1
    <3> QED
      BY <1>4, <1>6, <1>15, <2>1, <3>1
  <2>3. PICK j \in O : Rank(O, j) = Len(t) - q + 1
    BY <1>6, <2>2
  <2> QED
    BY <1>14, <2>3
<1>16. ASSUME AllThere, NEW q \in J
       PROVE  \E l \in K : f[l] = q
  <2>1. q \in 1 .. Len(t) /\ Len(t) - q + 1 \in 1 .. Len(t)
    BY <1>4
  <2>2. PICK j \in 1 .. since : caps[j].req = Sampled /\ Rank(O, j) = Len(t) - q + 1
    BY <1>16, <2>1 DEF AllThere, t, O
  <2>3. since <= Len(caps)
    BY <1>16 DEF AllThere
  <2>4. j \in O
    BY <1>3, <1>4, <2>2, <2>3
  <2> QED
    BY <1>14, <2>2, <2>4
<1> DEFINE own == Picked(entries, K)
           all == Picked(t, J)
<1>17. K \in SUBSET DOMAIN entries
  OBVIOUS
<1>18. /\ own \in Seq(Capture) /\ Len(own) = Cardinality(K)
       /\ all \in Seq(Capture) /\ Len(all) = Cardinality(J)
  BY <1>3, <1>4, <1>9, <1>17, PickedElements
<1>19. /\ Cardinality(K) \in Nat /\ Cardinality(J) \in Nat /\ Cardinality(K) <= Cardinality(J)
       /\ \A k \in 1 .. Cardinality(K) : own[k] = all[Cardinality(J) - Cardinality(K) + k]
       /\ (\A q \in J : \E k \in K : f[k] = q) => Cardinality(K) = Cardinality(J)
  <2>1. \A k \in K : entries[k] = t[f[k]]
    BY <1>11
  <2> HIDE DEF K, J
  <2> QED
    <3>1. K \in SUBSET DOMAIN entries /\ J \in SUBSET DOMAIN t
      BY <1>4, <1>17
    <3>2. Ends(entries, K, t, J, f)
      BY <1>12, <1>13, <1>15, <2>1 DEF Ends
    <3> QED
      <4>1. entries \in Seq(Capture) /\ t \in Seq(Capture)
        BY <1>3, <1>9
      <4> HIDE DEF own, all
      <4>2. Cardinality(K) \in Nat /\ Cardinality(J) \in Nat /\ Cardinality(K) <= Cardinality(J)
        BY <3>1, <3>2, <4>1, PickedSuffix
      <4>4. (\A q \in J : \E k \in K : f[k] = q) => Cardinality(K) = Cardinality(J)
        BY <3>1, <3>2, <4>1, PickedSuffix
      <4>3. \A k \in 1 .. Cardinality(K) :
              Picked(entries, K)[k] = Picked(t, J)[Cardinality(J) - Cardinality(K) + k]
        BY <3>1, <3>2, <4>1, PickedSuffix
      <4> QED
        BY <4>2, <4>3, <4>4 DEF own, all
<1> HIDE DEF own, all, K, J
<1>20. C!IsSuffix(own, all)
  BY <1>18, <1>19, ReversedSuffix
<1>21. ASSUME AllThere
       PROVE  own = all
  <2>1. Cardinality(K) = Cardinality(J)
    BY <1>16, <1>19, <1>21
  <2>2. Len(own) = Len(all) /\ \A k \in 1 .. Len(own) : own[k] = all[k]
    BY <1>18, <1>19, <2>1
  <2> QED
    BY <1>18, <2>2, SeqEqual
<1> QED
  BY <1>1, <1>2, <1>20, <1>21 DEF own, all, t

(* The page saves what it took *)
LEMMA SampleTaken ==
  ASSUME CapturesInv, C!captureRawSample
  PROVE  CapturesInv'
<1> DEFINE entries == C!collectNewCaptureEntries(before, caps)
           all == C!Of(Sampled, pushed[Sampled])
<1>1. /\ handler = "left" /\ handler' = "off"
      /\ UNCHANGED <<caps, state, round, created, cnow, before, pushed, since, cleared>>
      /\ sample' = IF entries = <<>> THEN None
                   ELSE [entries |-> entries, all |-> all,
                         whole |-> state[Sampled] = "done" /\ ~cleared /\ since <= Captures]
  BY DEF C!captureRawSample, C!upstream
<1>2. C!IsSuffix(C!Of(Sampled, entries), all) /\ (AllThere => C!Of(Sampled, entries) = all)
  BY <1>1, OwnTaken DEF CapturesInv
<1> HIDE DEF entries, all
<1>3. SampleHasOwn'
  <2> SUFFICES ASSUME sample' # None
               PROVE  LET own == C!Of(Sampled, sample'.entries)
                      IN  C!IsSuffix(own, sample'.all) /\ (sample'.whole => own = sample'.all)
    BY DEF SampleHasOwn, C!SampleHasOwn
  <2>1. /\ sample'.entries = entries /\ sample'.all = all
        /\ sample'.whole => state[Sampled] = "done" /\ ~cleared /\ since <= Captures
    BY <1>1
  <2>2. sample'.whole => AllThere
    BY <2>1 DEF CapturesInv
  <2> QED
    BY <1>2, <2>1, <2>2
<1>4. CaptureTypes'
  BY <1>1 DEF CapturesInv, CaptureTypes
<1>5. \A r \in Requests : InTime(r)'
  BY <1>1 DEF CapturesInv, InTime
<1>6. \A i \in DOMAIN caps' : Placed(i)'
  BY <1>1 DEF CapturesInv, Placed
<1>7. state'[Sampled] # "new" /\ ~cleared' /\ since' <= Captures => AllThere'
  BY <1>1 DEF CapturesInv, AllThere
<1> QED
  BY <1>1, <1>3, <1>4, <1>5, <1>6, <1>7 DEF CapturesInv

(* At the start *)
LEMMA CapturesStart ==
  ASSUME C!Init
  PROVE  CapturesInv
<1>1. CaptureTypes
  <2>1. <<>> \in Seq(Capture)
    OBVIOUS
  <2> QED
    BY <2>1 DEF C!Init, CaptureTypes
<1>2. ASSUME NEW r \in Requests
      PROVE  InTime(r)
  BY DEF C!Init, InTime
<1>3. \A i \in DOMAIN caps : Placed(i)
  BY DEF C!Init
<1>4. handler = "off" /\ sample = None /\ state[Sampled] = "new"
  BY CapturesAssumption DEF C!Init
<1>5. SampleHasOwn
  BY <1>4 DEF SampleHasOwn, C!SampleHasOwn
<1> QED
  BY <1>1, <1>2, <1>3, <1>4, <1>5 DEF CapturesInv

(* Every step of it *)
LEMMA CapturesKept ==
  ASSUME CapturesInv, [C!Next]_captures
  PROVE  CapturesInv'
<1>1. /\ CaptureTypes /\ Sampled \in Requests
      /\ \A r \in Requests : /\ created[r] <= cnow /\ created[r] \in Nat /\ created[r] <= created[r]
                             /\ state[r] \in {"new", "open", "between", "done"}
  BY CapturesAssumption DEF CapturesInv, CaptureTypes, InTime
<1>2. ASSUME NEW r \in Requests, C!Begin(r)
      PROVE  CapturesInv'
  <2>1. CASE r = Sampled
    BY <1>2, <2>1, CapturesBegin
  <2>2. CASE r # Sampled
    <3>1. /\ state' = [state EXCEPT ![r] = "open"] /\ round' = [round EXCEPT ![r] = 1]
          /\ created' = [created EXCEPT ![r] = cnow]
          /\ UNCHANGED <<caps, cnow, sample, pushed, handler, before, since, cleared>>
      BY <1>2, <2>2 DEF C!Begin, C!Open
    <3> QED
      BY <1>1, <2>2, <3>1, CapturesStay DEF CaptureTypes
  <2> QED
    BY <2>1, <2>2
<1>3. ASSUME NEW r \in Requests, C!Attempt(r)
      PROVE  CapturesInv'
  <2>1. C!Entry(r, 0) \in Capture
    BY <1>1 DEF Capture, C!Entry
  <2>2. /\ C!Entry(r, 0).req = r /\ C!Entry(r, 0).created = created[r]
        /\ state[r] = "open" /\ C!push(C!Entry(r, 0))
        /\ UNCHANGED <<state, round, created, cnow, handler, before, sample, cleared>>
    BY <1>3 DEF C!Attempt, C!Entry, C!upstream, C!page
  <2> QED
    BY <1>1, <2>1, <2>2, CapturePushed DEF CaptureTypes
<1>4. ASSUME NEW r \in Requests, C!RoundEnds(r)
      PROVE  CapturesInv'
  <2>1. C!Entry(r, round[r]) \in Capture
    BY <1>1 DEF Capture, C!Entry, CaptureTypes
  <2>2. /\ C!Entry(r, round[r]).req = r /\ C!Entry(r, round[r]).created = created[r]
        /\ state[r] = "open" /\ C!push(C!Entry(r, round[r])) /\ state' = [state EXCEPT ![r] = "between"]
        /\ UNCHANGED <<round, created, cnow, handler, before, sample, cleared>>
    BY <1>4 DEF C!RoundEnds, C!Entry, C!page
  <2>3. /\ state' \in [Requests -> {"new", "open", "between", "done"}]
        /\ \A q \in Requests : state'[q] = "new" <=> state[q] = "new"
    BY <1>1, <2>2 DEF CaptureTypes
  <2> QED
    BY <2>1, <2>2, <2>3, CapturePushed
<1>5. ASSUME NEW r \in Requests, C!Continues(r)
      PROVE  CapturesInv'
  <2>1. /\ state[r] = "between" /\ state' = [state EXCEPT ![r] = "open"]
        /\ round' = [round EXCEPT ![r] = round[r] + 1] /\ created' = [created EXCEPT ![r] = cnow]
        /\ UNCHANGED <<caps, cnow, handler, before, sample, pushed, since, cleared>>
    BY <1>5 DEF C!Continues, C!Open, C!page
  <2> QED
    BY <1>1, <2>1, CapturesStay DEF CaptureTypes
<1>6. ASSUME NEW r \in Requests, C!Ends(r)
      PROVE  CapturesInv'
  <2>1. /\ state[r] = "between" /\ state' = [state EXCEPT ![r] = "done"]
        /\ UNCHANGED <<caps, round, created, cnow, handler, before, sample, pushed, since, cleared>>
    BY <1>6 DEF C!Ends, C!page
  <2> QED
    BY <1>1, <2>1, CapturesStay DEF CaptureTypes
<1>7. CASE C!Leaves
  <2>1. /\ handler = "running" /\ handler' = "left"
        /\ UNCHANGED <<caps, state, round, created, cnow, before, sample, pushed, since, cleared>>
    BY <1>7 DEF C!Leaves, C!page, C!upstream
  <2> QED
    BY <1>1, <2>1, CapturesStay DEF CaptureTypes
<1>8. CASE C!captureRawSample
  BY <1>8, SampleTaken
<1>9. CASE C!Clear
  <2>1. /\ caps' = <<>> /\ cleared' = TRUE
        /\ UNCHANGED <<state, round, created, cnow, handler, before, sample, pushed, since>>
    BY <1>9 DEF C!Clear, C!page, C!upstream
  <2>2. CaptureTypes'
    BY <1>1, <2>1 DEF CaptureTypes
  <2>3. \A r \in Requests : InTime(r)'
    BY <2>1 DEF CapturesInv, InTime
  <2>4. \A i \in DOMAIN caps' : Placed(i)'
    BY <2>1
  <2>5. handler' # "off" => SnapshotOf'
    BY <2>1 DEF CapturesInv, SnapshotOf
  <2>6. SampleHasOwn'
    BY <2>1, SampleStays DEF CapturesInv
  <2> QED
    BY <2>1, <2>2, <2>3, <2>4, <2>5, <2>6 DEF CapturesInv
<1>10. CASE C!Tick
  <2>1. /\ cnow' = cnow + 1
        /\ UNCHANGED <<caps, state, round, created, handler, before, sample, pushed, since, cleared>>
    BY <1>10 DEF C!Tick, C!page
  <2> QED
    BY <1>1, <2>1, CapturesStay DEF CaptureTypes
<1>11. CASE UNCHANGED captures
  BY <1>1, <1>11, CapturesStay DEF CaptureTypes, captures
<1> QED
  BY <1>2, <1>3, <1>4, <1>5, <1>6, <1>7, <1>8, <1>9, <1>10, <1>11 DEF C!Next

(* Sorting what is in order changes nothing *)
LEMMA InPlace ==
  ASSUME NEW n \in Nat, NEW c \in [1 .. n -> Nat],
         \A i, j \in 1 .. n : i < j => c[i] <= c[j], NEW k \in 1 .. n
  PROVE  (CHOOSE i \in 1 .. n :
            C!Cardinality({j \in 1 .. n : c[j] < c[i] \/ (c[j] = c[i] /\ j <= i)}) = k) = k
<1>1. ASSUME NEW i \in 1 .. n
      PROVE  C!Cardinality({j \in 1 .. n : c[j] < c[i] \/ (c[j] = c[i] /\ j <= i)}) = i
  <2>1. ASSUME NEW j \in 1 .. n
        PROVE  (c[j] < c[i] \/ (c[j] = c[i] /\ j <= i)) <=> j <= i
    <3>1. c[i] \in Nat /\ c[j] \in Nat /\ i \in Int /\ j \in Int
      OBVIOUS
    <3>2. i < j => c[i] <= c[j]
      OBVIOUS
    <3>3. j < i => c[j] <= c[i]
      OBVIOUS
    <3> QED
      BY <3>1, <3>2, <3>3
  <2>2. {j \in 1 .. n : c[j] < c[i] \/ (c[j] = c[i] /\ j <= i)} = 1 .. i
    BY <2>1
  <2>3. Cardinality(1 .. i) = i
    BY FS_Interval
  <2>4. C!Cardinality(1 .. i) = Cardinality(1 .. i)
    BY DEF C!Cardinality, Cardinality, C!IsFiniteSet, IsFiniteSet
  <2> QED
    BY <2>2, <2>3, <2>4
<1> QED
  BY <1>1

(***************************************************************************)
(* The store turned round has a request's captures by their seconds, so    *)
(* sorting them changes nothing: they are the last ones.                   *)
(***************************************************************************)
LEMMA ChainIsSuffix ==
  ASSUME CapturesInv, NEW r \in Requests
  PROVE  C!IsSuffix(C!buildCaptureChain(r), pushed[r])
<1> DEFINE t == pushed[r]
           O == Own(caps, r)
           n == Cardinality(O)
           s == C!Reverse(Picked(caps, O))
           c == [k \in 1 .. n |-> s[k].created]
<1>1. /\ caps \in Seq(Capture) /\ t \in Seq(Capture) /\ Len(t) \in Nat /\ DOMAIN t = 1 .. Len(t)
      /\ Len(caps) \in Nat /\ O \in SUBSET (1 .. Len(caps)) /\ O \in SUBSET DOMAIN caps
      /\ \A i \in O : i \in DOMAIN caps /\ caps[i].req = r
  BY DEF CapturesInv, CaptureTypes, Own
<1>2. /\ n \in Nat
      /\ \A i \in O : Rank(O, i) \in 1 .. n
      /\ \A k \in 1 .. n : \E i \in O : Rank(O, i) = k
  BY <1>1, Ranks
<1>3. /\ Picked(caps, O) \in Seq(Capture) /\ Len(Picked(caps, O)) = n
      /\ \A i \in O : Picked(caps, O)[Rank(O, i)] = caps[i]
  BY <1>1, PickedElements
<1>4. /\ s \in Seq(Capture) /\ Len(s) = n /\ DOMAIN s = 1 .. n
      /\ \A k \in 1 .. n : s[k] = Picked(caps, O)[n - k + 1]
  BY <1>3, Reversed
<1>5. \A i \in O : Rank(O, i) <= Len(t) /\ caps[i] = t[Len(t) - Rank(O, i) + 1]
  BY <1>1 DEF CapturesInv, Placed
<1> HIDE DEF s, t, O
<1>6. n <= Len(t)
  <2>1. CASE n = 0
    BY <1>1, <2>1
  <2>2. CASE n # 0
    <3>1. n \in 1 .. n
      BY <1>2, <2>2
    <3> QED
      BY <1>2, <1>5, <3>1
  <2> QED
    BY <2>1, <2>2
<1>7. ASSUME NEW k \in 1 .. n
      PROVE  s[k] = t[Len(t) - n + k]
  <2>1. n - k + 1 \in 1 .. n
    BY <1>2
  <2>2. PICK i \in O : Rank(O, i) = n - k + 1
    BY <1>2, <2>1
  <2>3. s[k] = caps[i]
    BY <1>3, <1>4, <2>2
  <2>4. Len(t) - (n - k + 1) + 1 = Len(t) - n + k
    BY <1>1, <1>2
  <2> QED
    BY <1>5, <2>2, <2>3, <2>4
<1>8. C!IsSuffix(s, t)
  BY <1>1, <1>4, <1>6, <1>7, ReversedSuffix
<1>9. \A i, j \in DOMAIN t : i < j => t[i].created <= t[j].created
  BY DEF CapturesInv, InTime, t
<1>10. c \in [1 .. n -> Nat]
  <2>1. \A k \in 1 .. n : s[k] \in Capture
    BY <1>4, ElementOfSeq
  <2>2. \A x \in Capture : x.created \in Nat
    BY DEF Capture
  <2> QED
    BY <2>1, <2>2
<1>11. ASSUME NEW i \in 1 .. n, NEW j \in 1 .. n, i < j
       PROVE  c[i] <= c[j]
  <2>1. /\ Len(t) - n + i \in DOMAIN t /\ Len(t) - n + j \in DOMAIN t
        /\ Len(t) - n + i < Len(t) - n + j
    BY <1>1, <1>2, <1>6, <1>11
  <2>2. t[Len(t) - n + i].created <= t[Len(t) - n + j].created
    BY <1>9, <2>1
  <2> QED
    BY <1>7, <2>2
<1>12. C!buildCaptureChain(r) =
         [k \in 1 .. n |-> s[CHOOSE i \in 1 .. n :
            C!Cardinality({j \in 1 .. n : s[j].created < s[i].created
                                          \/ (s[j].created = s[i].created /\ j <= i)}) = k]]
  <2> DEFINE u == C!Reverse(C!Picked(caps, {i \in DOMAIN caps : caps[i].req = r}))
  <2>1. u = s
    BY CapturesPicked DEF s, O, Own
  <2> DEFINE sorted(w) ==
        [k \in DOMAIN w |-> w[CHOOSE i \in DOMAIN w :
           C!Cardinality({j \in DOMAIN w : w[j].created < w[i].created
                                           \/ (w[j].created = w[i].created /\ j <= i)}) = k]]
  <2>2. C!buildCaptureChain(r) = sorted(u)
    BY DEF C!buildCaptureChain, C!SortedBy, C!Where
  <2>3. C!buildCaptureChain(r) = sorted(s)
    <3> HIDE DEF u, sorted
    <3> QED
      BY <2>1, <2>2
  <2>4. \A places : DOMAIN s = places =>
          sorted(s) = [k \in places |-> s[CHOOSE i \in places :
             C!Cardinality({j \in places : s[j].created < s[i].created
                                           \/ (s[j].created = s[i].created /\ j <= i)}) = k]]
    OBVIOUS
  <2> HIDE DEF sorted
  <2> QED
    BY <1>4, <2>3, <2>4
<1>13. ASSUME NEW k \in 1 .. n
       PROVE  (CHOOSE i \in 1 .. n :
                 C!Cardinality({j \in 1 .. n : s[j].created < s[i].created
                                               \/ (s[j].created = s[i].created /\ j <= i)}) = k) = k
  <2>1. \A i \in 1 .. n : c[i] = s[i].created
    OBVIOUS
  <2> HIDE DEF c
  <2>2. (CHOOSE i \in 1 .. n :
           C!Cardinality({j \in 1 .. n : c[j] < c[i] \/ (c[j] = c[i] /\ j <= i)}) = k) = k
    BY <1>2, <1>10, <1>11, InPlace
  <2> QED
    BY <2>1, <2>2
<1>14. C!buildCaptureChain(r) = s
  <2> DEFINE At(k) == CHOOSE i \in 1 .. n :
                        C!Cardinality({j \in 1 .. n : s[j].created < s[i].created
                                                      \/ (s[j].created = s[i].created /\ j <= i)}) = k
  <2>1. C!buildCaptureChain(r) = [k \in 1 .. n |-> s[At(k)]]
    BY <1>12
  <2>2. \A k \in 1 .. n : At(k) = k
    BY <1>13
  <2> HIDE DEF At
  <2>3. s = [k \in 1 .. n |-> s[k]]
    BY <1>4
  <2> QED
    BY <2>1, <2>2, <2>3
<1> QED
  BY <1>8, <1>14 DEF t

(* The selection of a request without captures is empty *)
LEMMA ChainsFromInv ==
  ASSUME CapturesInv
  PROVE  ChainsAreSuffixes
<1> SUFFICES ASSUME NEW r \in Requests
             PROVE  C!IsSuffix(C!resolveCaptureChainSelection(r), pushed[r])
  BY DEF ChainsAreSuffixes, C!ChainsAreSuffixes
<1>1. C!IsSuffix(<<>>, pushed[r])
  <2>1. <<>> \in Seq(Capture) /\ pushed[r] \in Seq(Capture)
    BY DEF CapturesInv, CaptureTypes
  <2>2. Len(<<>>) = 0 /\ Len(pushed[r]) \in Nat
    BY <2>1
  <2> QED
    <3>1. \A k \in 1 .. Len(<<>>) : <<>>[k] = pushed[r][Len(pushed[r]) - Len(<<>>) + k]
      BY <2>2
    <3>2. Len(<<>>) <= Len(pushed[r])
      BY <2>2
    <3> DEFINE s == <<>>
               t == pushed[r]
    <3>3. s \in Seq(Capture) /\ t \in Seq(Capture) /\ Len(s) <= Len(t)
          /\ \A k \in 1 .. Len(s) : s[k] = t[Len(t) - Len(s) + k]
      BY <2>1, <3>1, <3>2
    <3> HIDE DEF s, t
    <3>4. C!IsSuffix(s, t)
      BY <3>3, ReversedSuffix
    <3> QED
      BY <3>4 DEF s, t
<1> QED
  BY <1>1, ChainIsSuffix DEF C!resolveCaptureChainSelection

(* In every state of the stores *)
LEMMA CapturesAlways == Spec => []CapturesInv
<1>1. UNCHANGED C!vars => UNCHANGED captures
  BY DEF C!vars, captures
<1>2. CapturesInv /\ [C!Next]_C!vars => CapturesInv'
  BY <1>1, CapturesKept
<1> QED
  BY <1>2, CapturesStart, StoresApart, PTL DEF C!Spec

(***************************************************************************)
(* A session's chain is the latest of its rounds in the order they were    *)
(* read, with no hole (buildCaptureChain): the store's order, newest       *)
(* first, the seconds and the sort agree for any number of requests and    *)
(* rounds, whatever the limit drops.                                       *)
(***************************************************************************)
THEOREM ChainsAreLatest == Spec => []ChainsAreSuffixes
  BY CapturesAlways, ChainsFromInv, PTL

(***************************************************************************)
(* The sample a page takes of its request (collectNewCaptureEntries) has   *)
(* the request's latest rounds in order, whatever other requests capture   *)
(* meanwhile, and all of them when the answer was read to its end and      *)
(* neither the limit nor a clearing took something away.                   *)
(***************************************************************************)
THEOREM SamplesHaveOwn == Spec => []SampleHasOwn
<1>1. CapturesInv => SampleHasOwn
  BY DEF CapturesInv
<1> QED
  BY <1>1, CapturesAlways, PTL

----------------------------------------------------------------------------
(* One more element, and numbers in their order *)

(* A part of a sequence that has one more element *)
LEMMA PickedBefore ==
  ASSUME NEW X, NEW s \in Seq(X), NEW e \in X, NEW I \in SUBSET DOMAIN s
  PROVE  Picked(Append(s, e), I) = Picked(s, I)
<1>1. I \in SUBSET (1 .. Len(s)) /\ Len(s) \in Nat
  OBVIOUS
<1>2. \A k \in 1 .. Cardinality(I) : (CHOOSE i \in I : Rank(I, i) = k) \in I
  BY <1>1, Ranks
<1>3. \A i \in I : Append(s, e)[i] = s[i]
  OBVIOUS
<1> QED
  BY <1>2, <1>3 DEF Picked

(* and with it, that element comes last *)
LEMMA PickedWithLast ==
  ASSUME NEW X, NEW s \in Seq(X), NEW e \in X, NEW I \in SUBSET DOMAIN s
  PROVE  Picked(Append(s, e), I \cup {Len(s) + 1}) = Append(Picked(s, I), e)
<1> DEFINE n == Len(s) + 1
           J == I \cup {n}
           u == Append(s, e)
           c == Cardinality(I)
<1>1. I \in SUBSET (1 .. Len(s)) /\ Len(s) \in Nat /\ n \notin I /\ n \in Nat /\ J \in SUBSET (1 .. n)
  OBVIOUS
<1>2. u \in Seq(X) /\ DOMAIN u = 1 .. n /\ u[n] = e /\ \A i \in I : u[i] = s[i]
  OBVIOUS
<1>3. c \in Nat /\ IsFiniteSet(I)
  BY <1>1, Ranks
<1>4. Cardinality(J) = c + 1
  BY <1>1, <1>3, FS_AddElement
<1>5. \A i \in I : Rank(J, i) = Rank(I, i)
  <2> SUFFICES ASSUME NEW i \in I PROVE Rank(J, i) = Rank(I, i)
    OBVIOUS
  <2>1. ~(n <= i)
    BY <1>1
  <2>2. {j \in J : j <= i} = {j \in I : j <= i}
    BY <2>1
  <2> QED
    BY <2>2 DEF Rank
<1>6. Rank(J, n) = c + 1
  <2>1. \A i \in 1 .. n : i <= n
    BY <1>1
  <2>2. {j \in J : j <= n} = J
    BY <1>1, <2>1
  <2> QED
    BY <1>4, <2>2 DEF Rank
<1> HIDE DEF u, J, n
<1>7. /\ Picked(u, J) \in Seq(X) /\ Len(Picked(u, J)) = c + 1
      /\ \A j \in J : Picked(u, J)[Rank(J, j)] = u[j]
  <2>1. J \in SUBSET DOMAIN u
    BY <1>1, <1>2
  <2> QED
    BY <1>2, <1>4, <2>1, PickedElements
<1>8. /\ Picked(s, I) \in Seq(X) /\ Len(Picked(s, I)) = c
      /\ \A i \in I : Picked(s, I)[Rank(I, i)] = s[i]
  BY PickedElements
<1>9. ASSUME NEW k \in 1 .. c
      PROVE  Picked(u, J)[k] = Picked(s, I)[k]
  <2>1. PICK i \in I : Rank(I, i) = k
    BY <1>1, Ranks
  <2>2. i \in J
    BY DEF J
  <2> QED
    BY <1>2, <1>5, <1>7, <1>8, <2>1, <2>2
<1>10. Picked(u, J)[c + 1] = e
  <2>1. n \in J
    BY DEF J
  <2> QED
    BY <1>2, <1>6, <1>7, <2>1
<1>11. Picked(u, J) = Append(Picked(s, I), e)
  BY <1>3, <1>7, <1>8, <1>9, <1>10
<1> QED
  BY <1>11 DEF u, J, n

(* The numbers of a set in their order are the set's, each once, ascending *)
LEMMA Ordered ==
  ASSUME NEW n \in Nat, NEW I \in SUBSET (1 .. n)
  PROVE  /\ InOrder(I) \in Seq(Int) /\ Len(InOrder(I)) = Cardinality(I) /\ Cardinality(I) \in Nat
         /\ \A k \in 1 .. Cardinality(I) : InOrder(I)[k] \in I
         /\ \A i \in I : \E k \in 1 .. Cardinality(I) : InOrder(I)[k] = i
         /\ \A k, l \in 1 .. Cardinality(I) : k < l => InOrder(I)[k] < InOrder(I)[l]
<1> DEFINE c == Cardinality(I)
           At(k) == CHOOSE i \in I : Rank(I, i) = k
<1>1. c \in Nat /\ \A k \in 1 .. c : At(k) \in I /\ Rank(I, At(k)) = k
  <2>1. c \in Nat /\ \A k \in 1 .. c : \E i \in I : Rank(I, i) = k
    BY Ranks
  <2> QED
    BY <2>1
<1>2. InOrder(I) = [k \in 1 .. c |-> At(k)]
  BY DEF InOrder
<1> HIDE DEF At
<1>3. InOrder(I) \in Seq(Int) /\ Len(InOrder(I)) = c /\ \A k \in 1 .. c : InOrder(I)[k] \in I
  <2>0. I \in SUBSET Int
    OBVIOUS
  <2>1. \A k \in 1 .. c : At(k) \in I /\ At(k) \in Int
    BY <1>1, <2>0
  <2> QED
    BY <1>1, <1>2, <2>1
<1>4. ASSUME NEW i \in I
      PROVE  \E k \in 1 .. c : InOrder(I)[k] = i
  <2>1. Rank(I, i) \in 1 .. c
    BY Ranks
  <2>2. At(Rank(I, i)) = i
    <3>1. \A j, k \in I : Rank(I, j) = Rank(I, k) => j = k
      BY Ranks
    <3>2. At(Rank(I, i)) \in I /\ Rank(I, At(Rank(I, i))) = Rank(I, i)
      BY <1>1, <2>1
    <3> QED
      BY <3>1, <3>2
  <2> QED
    BY <1>2, <2>1, <2>2
<1>5. ASSUME NEW k \in 1 .. c, NEW l \in 1 .. c, k < l
      PROVE  InOrder(I)[k] < InOrder(I)[l]
  <2>1. PICK i \in I, j \in I : i = At(k) /\ j = At(l) /\ Rank(I, i) = k /\ Rank(I, j) = l
    BY <1>1
  <2>2. j < i => Rank(I, j) < Rank(I, i)
    BY Ranks
  <2>3. i \in Int /\ j \in Int /\ i # j
    BY <1>5, <2>1
  <2>4. i < j
    BY <1>5, <2>1, <2>2, <2>3
  <2> QED
    BY <1>2, <2>1, <2>4
<1> QED
  BY <1>1, <1>3, <1>4, <1>5

(* The streams' own copies of the operators on parts of sequences *)
LEMMA StreamsOrdered ==
  ASSUME NEW I
  PROVE  Api!InOrder(I) = InOrder(I) /\ Api!Cardinality(I) = Cardinality(I)
<1>1. \A set : Api!Cardinality(set) = Cardinality(set)
  BY DEF Api!Cardinality, Cardinality, Api!IsFiniteSet, IsFiniteSet
<1>2. Api!InOrder(I) = InOrder(I)
  BY DEF Api!InOrder, InOrder, Api!Rank, Rank, Api!Cardinality, Cardinality, Api!IsFiniteSet, IsFiniteSet
<1> QED
  BY <1>1, <1>2

----------------------------------------------------------------------------
(* The blocks of the Claude stream *)

BlockEvents ==
  [t : {"message_start", "start", "thinking", "text", "call", "stop", "ping", "error",
        "message_delta", "message_stop"},
   at : Int, of : Seq(Int)]

NoBlock(s, ks) == \A k \in ks : s[k].at < 0

(* Each event of a block follows from the one before it *)
Linked(s) ==
  \A k \in 1 .. Len(s) : s[k].at >= 0 =>
    /\ NoBlock(s, 1 .. k - 1) => s[k].t = "start" /\ s[k].at = 0
    /\ \A j \in 1 .. k - 1 : s[j].at >= 0 /\ NoBlock(s, j + 1 .. k - 1) =>
         IF s[k].t = "start" THEN s[j].t = "stop" /\ s[k].at = s[j].at + 1
         ELSE s[j].t # "stop" /\ s[k].at = s[j].at

(* The last block is still open, or none is, and the next one has this number *)
LastIs(s, open, next) ==
  /\ NoBlock(s, 1 .. Len(s)) => open = -1 /\ next = 0
  /\ \A k \in 1 .. Len(s) : s[k].at >= 0 /\ NoBlock(s, k + 1 .. Len(s)) =>
       /\ next = s[k].at + 1
       /\ IF open = -1 THEN s[k].t = "stop" ELSE s[k].t # "stop" /\ s[k].at = open

Chain(s, open, next) ==
  /\ s \in Seq(BlockEvents) /\ next \in Nat /\ open \in Int /\ open \in {-1, next - 1}
  /\ Linked(s) /\ LastIs(s, open, next)

(* One event more *)
LEMMA OneMore ==
  ASSUME NEW s \in Seq(BlockEvents), NEW e \in BlockEvents
  PROVE  /\ Append(s, e) \in Seq(BlockEvents) /\ Len(s) \in Nat
         /\ Len(Append(s, e)) = Len(s) + 1 /\ Append(s, e)[Len(s) + 1] = e
         /\ \A k \in 1 .. Len(s) : Append(s, e)[k] = s[k]
         /\ e.at \in Int /\ \A k \in 1 .. Len(s) : s[k].at \in Int
<1>1. \A k \in 1 .. Len(s) : s[k] \in BlockEvents
  OBVIOUS
<1>2. e.at \in Int /\ \A k \in 1 .. Len(s) : s[k].at \in Int
  BY <1>1 DEF BlockEvents
<1> QED
  BY <1>2

(* The links up to the last event are those there were *)
LEMMA LinkedBefore ==
  ASSUME NEW s \in Seq(BlockEvents), Linked(s), NEW u, \A j \in 1 .. Len(s) : u[j] = s[j],
         NEW k \in 1 .. Len(s), u[k].at >= 0
  PROVE  /\ NoBlock(u, 1 .. k - 1) => u[k].t = "start" /\ u[k].at = 0
         /\ \A j \in 1 .. k - 1 : u[j].at >= 0 /\ NoBlock(u, j + 1 .. k - 1) =>
              IF u[k].t = "start" THEN u[j].t = "stop" /\ u[k].at = u[j].at + 1
              ELSE u[j].t # "stop" /\ u[k].at = u[j].at
<1>1. Len(s) \in Nat /\ \A j \in 1 .. Len(s) : u[j] = s[j]
  OBVIOUS
<1>2. s[k].at >= 0 /\ u[k] = s[k]
  BY <1>1
<1>3. ASSUME NoBlock(u, 1 .. k - 1)
      PROVE  u[k].t = "start" /\ u[k].at = 0
  <2>1. NoBlock(s, 1 .. k - 1)
    BY <1>1, <1>3 DEF NoBlock
  <2> QED
    BY <1>2, <2>1 DEF Linked
<1>4. ASSUME NEW j \in 1 .. k - 1, u[j].at >= 0, NoBlock(u, j + 1 .. k - 1)
      PROVE  IF u[k].t = "start" THEN u[j].t = "stop" /\ u[k].at = u[j].at + 1
             ELSE u[j].t # "stop" /\ u[k].at = u[j].at
  <2>1. NoBlock(s, j + 1 .. k - 1)
    BY <1>1, <1>4 DEF NoBlock
  <2>2. u[j] = s[j]
    BY <1>1
  <2>3. IF s[k].t = "start" THEN s[j].t = "stop" /\ s[k].at = s[j].at + 1
        ELSE s[j].t # "stop" /\ s[k].at = s[j].at
    BY <1>2, <1>4, <2>1, <2>2 DEF Linked
  <2> QED
    BY <1>2, <2>2, <2>3
<1> QED
  BY <1>3, <1>4

(* What is not of a block changes nothing *)
LEMMA BetweenBlocks ==
  ASSUME NEW s, NEW open, NEW next, Chain(s, open, next), NEW e \in BlockEvents, e.at = -1
  PROVE  Chain(Append(s, e), open, next)
<1> DEFINE u == Append(s, e)
           n == Len(s)
<1>1. /\ u \in Seq(BlockEvents) /\ n \in Nat /\ Len(u) = n + 1
      /\ u[n + 1] = e /\ \A k \in 1 .. n : u[k] = s[k]
  BY OneMore DEF Chain
<1> HIDE DEF u
<1>2. s \in Seq(BlockEvents) /\ Linked(s) /\ LastIs(s, open, next)
  BY DEF Chain
<1>3. Linked(u)
  <2> SUFFICES ASSUME NEW k \in 1 .. n, u[k].at >= 0
               PROVE  /\ NoBlock(u, 1 .. k - 1) => u[k].t = "start" /\ u[k].at = 0
                      /\ \A j \in 1 .. k - 1 : u[j].at >= 0 /\ NoBlock(u, j + 1 .. k - 1) =>
                           IF u[k].t = "start" THEN u[j].t = "stop" /\ u[k].at = u[j].at + 1
                           ELSE u[j].t # "stop" /\ u[k].at = u[j].at
    BY <1>1 DEF Linked
  <2> QED
    BY <1>1, <1>2, LinkedBefore
<1>4. NoBlock(u, 1 .. Len(u)) => open = -1 /\ next = 0
  <2>1. NoBlock(u, 1 .. Len(u)) => NoBlock(s, 1 .. n)
    BY <1>1 DEF NoBlock
  <2> QED
    BY <1>2, <2>1 DEF LastIs
<1>5. ASSUME NEW k \in 1 .. Len(u), u[k].at >= 0, NoBlock(u, k + 1 .. Len(u))
      PROVE  /\ next = u[k].at + 1
             /\ IF open = -1 THEN u[k].t = "stop" ELSE u[k].t # "stop" /\ u[k].at = open
  <2>1. k \in 1 .. n
    BY <1>1, <1>5
  <2>2. NoBlock(s, k + 1 .. n) /\ u[k] = s[k]
    BY <1>1, <1>5, <2>1 DEF NoBlock
  <2> QED
    BY <1>2, <1>5, <2>1, <2>2 DEF LastIs
<1> QED
  BY <1>1, <1>3, <1>4, <1>5 DEF Chain, LastIs, u

(* What a block may have next: its start, if none is open, or another part *)
Fits(e, open, next) ==
  e.at >= 0 /\ IF open = -1 THEN e.t = "start" /\ e.at = next ELSE e.t # "start" /\ e.at = open

(* and the last block is then as the event leaves it *)
LEMMA BlockGrows ==
  ASSUME NEW s, NEW open, NEW next, Chain(s, open, next), NEW e \in BlockEvents, Fits(e, open, next)
  PROVE  Chain(Append(s, e), IF e.t = "stop" THEN -1 ELSE e.at, e.at + 1)
<1> DEFINE u == Append(s, e)
           n == Len(s) + 1
<1>1. /\ u \in Seq(BlockEvents) /\ n \in Nat \ {0} /\ Len(u) = n /\ Len(s) = n - 1
      /\ u[n] = e /\ \A k \in 1 .. n - 1 : u[k] = s[k]
  BY OneMore DEF Chain
<1>2. s \in Seq(BlockEvents) /\ Linked(s) /\ LastIs(s, open, next) /\ e.at \in Nat
  BY OneMore DEF Chain, Fits
<1> HIDE DEF u, n
<1>3. NoBlock(u, 1 .. n - 1) => e.t = "start" /\ e.at = 0
  <2>1. NoBlock(u, 1 .. n - 1) => NoBlock(s, 1 .. Len(s))
    BY <1>1 DEF NoBlock
  <2> QED
    BY <1>2, <2>1 DEF LastIs, Fits
<1>4. ASSUME NEW j \in 1 .. n - 1, u[j].at >= 0, NoBlock(u, j + 1 .. n - 1)
      PROVE  IF e.t = "start" THEN u[j].t = "stop" /\ e.at = u[j].at + 1
             ELSE u[j].t # "stop" /\ e.at = u[j].at
  <2>1. u[j] = s[j] /\ NoBlock(s, j + 1 .. Len(s)) /\ j \in 1 .. Len(s)
    BY <1>1, <1>4 DEF NoBlock
  <2>2. next = s[j].at + 1 /\ IF open = -1 THEN s[j].t = "stop" ELSE s[j].t # "stop" /\ s[j].at = open
    BY <1>2, <1>4, <2>1 DEF LastIs
  <2> QED
    BY <2>1, <2>2 DEF Fits
<1>5. Linked(u)
  <2> SUFFICES ASSUME NEW k \in 1 .. n - 1, u[k].at >= 0
               PROVE  /\ NoBlock(u, 1 .. k - 1) => u[k].t = "start" /\ u[k].at = 0
                      /\ \A j \in 1 .. k - 1 : u[j].at >= 0 /\ NoBlock(u, j + 1 .. k - 1) =>
                           IF u[k].t = "start" THEN u[j].t = "stop" /\ u[k].at = u[j].at + 1
                           ELSE u[j].t # "stop" /\ u[k].at = u[j].at
    BY <1>1, <1>3, <1>4 DEF Linked
  <2>1. k \in 1 .. Len(s) /\ \A j \in 1 .. Len(s) : u[j] = s[j]
    BY <1>1
  <2> QED
    BY <1>2, <2>1, LinkedBefore
<1>6. ASSUME NEW k \in 1 .. n, NoBlock(u, k + 1 .. n)
      PROVE  k = n
  <2>1. ~(e.at < 0)
    BY <1>2
  <2> QED
    BY <1>1, <1>6, <2>1 DEF NoBlock
<1>7. ~NoBlock(u, 1 .. n)
  BY <1>1, <1>2 DEF NoBlock
<1>8. LastIs(u, IF e.t = "stop" THEN -1 ELSE e.at, e.at + 1)
  BY <1>1, <1>2, <1>6, <1>7 DEF LastIs
<1> QED
  BY <1>1, <1>2, <1>5, <1>8 DEF Chain, u

ClaudeStates ==
  [sent : Seq(BlockEvents), next : Nat, thinking : Nat \cup {-1}, text : Nat \cup {-1}]

(* The stream so far: at most one block is open, the last *)
Streaming(s) ==
  /\ s \in ClaudeStates /\ (s.thinking = -1 \/ s.text = -1)
  /\ Chain(s.sent, IF s.text = -1 THEN s.thinking ELSE s.text, s.next)

Kinds == {"thinking", "text"}
Other(kind) == IF kind = "text" THEN "thinking" ELSE "text"

(* Events beside the blocks: a ping, an error, what starts and ends the message *)
LEMMA SaidBetween ==
  ASSUME NEW s, Streaming(s), NEW e \in BlockEvents, e.at = -1
  PROVE  Streaming(Api!Say(s, e))
<1>1. Chain(Append(s.sent, e), IF s.text = -1 THEN s.thinking ELSE s.text, s.next)
  BY BetweenBlocks DEF Streaming
<1>2. Append(s.sent, e) \in Seq(BlockEvents)
  BY <1>1 DEF Chain
<1> QED
  BY <1>1, <1>2 DEF Streaming, ClaudeStates, Api!Say

(* What a start and a stop are *)
LEMMA BlockTypes ==
  ASSUME NEW i \in Int
  PROVE  /\ Api!Block("start", i) \in BlockEvents /\ Api!Block("start", i).t = "start"
         /\ Api!Block("stop", i) \in BlockEvents /\ Api!Block("stop", i).t = "stop"
         /\ Api!Block("start", i).at = i /\ Api!Block("stop", i).at = i
<1>1. <<>> \in Seq(Int)
  OBVIOUS
<1> QED
  BY <1>1 DEF Api!Block, BlockEvents

(* and a delta *)
LEMMA PartTypes ==
  ASSUME NEW kind \in Kinds, NEW i \in Int, NEW x \in Seq(Int)
  PROVE  LET e == [Api!Block(kind, i) EXCEPT !.of = x]
         IN  e \in BlockEvents /\ e.t = kind /\ e.at = i /\ e.of = x
<1>1. <<>> \in Seq(Int)
  OBVIOUS
<1> QED
  BY <1>1 DEF Api!Block, BlockEvents, Kinds

(* closeThinkingBlock, closeTextBlock *)
LEMMA BlockCloses ==
  ASSUME NEW s, Streaming(s), NEW kind \in Kinds
  PROVE  LET v == Api!CloseBlock(s, kind)
         IN  Streaming(v) /\ v[kind] = -1 /\ v[Other(kind)] = s[Other(kind)]
<1> DEFINE e == Api!Block("stop", s[kind])
           v == Api!CloseBlock(s, kind)
<1>1. CASE s[kind] = -1
  BY <1>1 DEF Api!CloseBlock
<1>2. CASE s[kind] # -1
  <2>1. s[kind] \in Nat /\ s.text \in Nat \cup {-1} /\ s.thinking \in Nat \cup {-1} /\ s.next \in Nat
    <3>1. s.text \in Nat \cup {-1} /\ s.thinking \in Nat \cup {-1} /\ s.next \in Nat
      BY DEF Streaming, ClaudeStates
    <3>2. s["text"] = s.text /\ s["thinking"] = s.thinking
      BY DEF Streaming, ClaudeStates
    <3> QED
      BY <1>2, <3>1, <3>2 DEF Kinds
  <2>2. e \in BlockEvents /\ e.t = "stop" /\ e.at = s[kind]
    BY <2>1, BlockTypes
  <2>3. (IF s.text = -1 THEN s.thinking ELSE s.text) = s[kind] /\ s[Other(kind)] = -1
    BY <1>2, <2>1 DEF Streaming, Kinds, Other
  <2>4. Chain(s.sent, s[kind], s.next)
    BY <2>3 DEF Streaming
  <2> HIDE DEF e
  <2>5. Fits(e, s[kind], s.next)
    BY <1>2, <2>1, <2>2 DEF Fits
  <2>6. Chain(Append(s.sent, e), -1, s[kind] + 1)
    BY <2>2, <2>4, <2>5, BlockGrows
  <2>7. s[kind] + 1 = s.next
    BY <1>2, <2>1, <2>4 DEF Chain
  <2>8. v = [s EXCEPT ![kind] = -1, !.sent = Append(s.sent, e)]
    <3>1. v = Api!Say([s EXCEPT ![kind] = -1], e)
      BY <1>2, <2>1 DEF Api!CloseBlock, e
    <3> QED
      BY <3>1 DEF Api!Say, Streaming, ClaudeStates, Kinds
  <2>9. v \in ClaudeStates /\ v.sent = Append(s.sent, e) /\ v.next = s.next /\ v.text = -1 /\ v.thinking = -1
    BY <2>3, <2>6, <2>8 DEF Streaming, ClaudeStates, Kinds, Chain, Other
  <2> QED
    BY <2>3, <2>6, <2>7, <2>9 DEF Streaming, Kinds, Other
<1>3. s[kind] = -1 \/ s[kind] # -1
  OBVIOUS
<1> QED
  BY <1>1, <1>2, <1>3

(* A block opens when the other kind's is closed *)
LEMMA BlockOpens ==
  ASSUME NEW s, Streaming(s), NEW kind \in Kinds, s[Other(kind)] = -1
  PROVE  LET v == Api!OpenBlock(s, kind)
         IN  Streaming(v) /\ v[kind] \in Nat /\ v[Other(kind)] = -1
<1> DEFINE e == Api!Block("start", s.next)
           v == Api!OpenBlock(s, kind)
<1>0. /\ s[kind] \in Nat \cup {-1} /\ s.text \in Nat \cup {-1} /\ s.thinking \in Nat \cup {-1}
      /\ s.next \in Nat /\ s \in ClaudeStates
  <2>1. s.text \in Nat \cup {-1} /\ s.thinking \in Nat \cup {-1} /\ s.next \in Nat
    BY DEF Streaming, ClaudeStates
  <2>2. s["text"] = s.text /\ s["thinking"] = s.thinking
    BY DEF Streaming, ClaudeStates
  <2> QED
    BY <2>1, <2>2 DEF Kinds, Streaming
<1>1. CASE s[kind] \in Nat
  <2>0. s[kind] >= 0
    BY <1>1
  <2>1. v = s
    BY <2>0, Zenon DEF Api!OpenBlock
  <2> QED
    BY <1>1, <2>1
<1>2. CASE s[kind] = -1
  <2>2. e \in BlockEvents /\ e.t = "start" /\ e.at = s.next
    BY <1>0, BlockTypes
  <2>3. s.text = -1 /\ s.thinking = -1
    BY <1>0, <1>2 DEF ClaudeStates, Kinds, Other
  <2>4. Chain(s.sent, -1, s.next)
    BY <2>3 DEF Streaming
  <2> HIDE DEF e
  <2>5. Fits(e, -1, s.next)
    BY <1>0, <2>2 DEF Fits
  <2>6. Chain(Append(s.sent, e), s.next, s.next + 1)
    BY <1>0, <2>2, <2>4, <2>5, BlockGrows
  <2>8. v = [s EXCEPT ![kind] = s.next, !.next = s.next + 1, !.sent = Append(s.sent, e)]
    <3>1. v = Api!Say([s EXCEPT ![kind] = s.next, !.next = s.next + 1], e)
      BY <1>2, <1>0 DEF Api!OpenBlock, e, Kinds, ClaudeStates
    <3> QED
      BY <3>1, <1>0 DEF Api!Say, ClaudeStates, Kinds
  <2>9. /\ v \in ClaudeStates /\ v.sent = Append(s.sent, e) /\ v.next = s.next + 1
        /\ v[kind] = s.next /\ v[Other(kind)] = -1
        /\ v["text"] = v.text /\ v["thinking"] = v.thinking
    BY <1>0, <2>3, <2>6, <2>8 DEF ClaudeStates, Kinds, Chain, Other
  <2>10. (v.thinking = -1 \/ v.text = -1) /\ (IF v.text = -1 THEN v.thinking ELSE v.text) = s.next
    BY <1>0, <2>9 DEF Kinds, Other
  <2> QED
    BY <1>0, <2>6, <2>9, <2>10 DEF Streaming
<1> QED
  BY <1>0, <1>1, <1>2

(* and has parts while it is open *)
LEMMA BlockPart ==
  ASSUME NEW s, Streaming(s), NEW kind \in Kinds, s[kind] \in Nat, NEW x \in Seq(Int)
  PROVE  Streaming(Api!BlockDelta(s, kind, x))
<1> DEFINE e == [Api!Block(kind, s[kind]) EXCEPT !.of = x]
           v == Api!BlockDelta(s, kind, x)
<1>1. s \in ClaudeStates /\ s["text"] = s.text /\ s["thinking"] = s.thinking
  BY DEF Streaming, ClaudeStates
<1>2. e \in BlockEvents /\ e.t = kind /\ e.at = s[kind]
  BY PartTypes
<1>3. (IF s.text = -1 THEN s.thinking ELSE s.text) = s[kind]
  BY <1>1 DEF Streaming, ClaudeStates, Kinds
<1> HIDE DEF e
<1>4. Fits(e, s[kind], s.next)
  BY <1>2 DEF Fits, Kinds
<1>5. Chain(s.sent, s[kind], s.next)
  BY <1>3 DEF Streaming
<1>6. s[kind] + 1 = s.next
  BY <1>5, <1>1 DEF Chain, ClaudeStates
<1>7. Chain(Append(s.sent, e), s[kind], s.next)
  <2>1. Chain(Append(s.sent, e), IF e.t = "stop" THEN -1 ELSE e.at, e.at + 1)
    BY <1>2, <1>4, <1>5, BlockGrows
  <2> QED
    BY <1>2, <1>6, <2>1 DEF Kinds
<1>8. v = [s EXCEPT !.sent = Append(s.sent, e)]
  BY DEF Api!BlockDelta, Api!Say, e
<1>9. v \in ClaudeStates /\ v.sent = Append(s.sent, e) /\ v.next = s.next /\ v.text = s.text /\ v.thinking = s.thinking
  BY <1>1, <1>7, <1>8 DEF ClaudeStates, Chain
<1> QED
  BY <1>3, <1>7, <1>9 DEF Streaming

(* onParsed *)
LEMMA PieceStreams ==
  ASSUME NEW s, Streaming(s), NEW p, NEW j \in Nat
  PROVE  Streaming(Api!ClaudePiece(s, p, j))
<1>1. ASSUME NEW kind \in Kinds
      PROVE  Streaming(Api!BlockDelta(Api!OpenBlock(Api!CloseBlock(s, Other(kind)), kind), kind, <<j>>))
  <2> DEFINE c == Api!CloseBlock(s, Other(kind))
             o == Api!OpenBlock(c, kind)
  <2>1. Other(kind) \in Kinds
    BY DEF Kinds, Other
  <2>2. Streaming(c) /\ c[Other(kind)] = -1
    BY <2>1, BlockCloses
  <2>3. Streaming(o) /\ o[kind] \in Nat
    BY <2>2, BlockOpens
  <2>4. <<j>> \in Seq(Int)
    OBVIOUS
  <2> QED
    BY <2>3, <2>4, BlockPart
<1>2. /\ Streaming(Api!BlockDelta(Api!OpenBlock(Api!CloseBlock(s, "text"), "thinking"), "thinking", <<j>>))
      /\ Streaming(Api!BlockDelta(Api!OpenBlock(Api!CloseBlock(s, "thinking"), "text"), "text", <<j>>))
  BY <1>1 DEF Kinds, Other
<1> QED
  BY <1>2 DEF Api!ClaudePiece

----------------------------------------------------------------------------
(* A sequence and then another *)
LEMMA Continued ==
  ASSUME NEW X, NEW s \in Seq(X), NEW w \in Seq(X)
  PROVE  /\ s \o w \in Seq(X) /\ Len(s) \in Nat /\ Len(s \o w) = Len(s) + Len(w)
         /\ \A k \in 1 .. Len(s) : (s \o w)[k] = s[k]
         /\ \A k \in 1 .. Len(w) : (s \o w)[Len(s) + k] = w[k]
<1>1. Len(s) \in Nat /\ Len(w) \in Nat
  OBVIOUS
<1>2. ASSUME NEW k \in 1 .. Len(w)
      PROVE  (s \o w)[Len(s) + k] = w[k]
  <2>1. Len(s) + k \in 1 .. Len(s) + Len(w) /\ ~(Len(s) + k <= Len(s)) /\ Len(s) + k - Len(s) = k
    BY <1>1
  <2> QED
    BY <2>1, ConcatProperties
<1> QED
  BY <1>1, <1>2, ConcatProperties

(* Triples one after the other *)

(* The elements of triples that are joined *)
LEMMA JoinedTriples ==
  ASSUME NEW X, NEW q \in Seq(Seq(X)), \A i \in 1 .. Len(q) : Len(q[i]) = 3
  PROVE  /\ Api!Joined(q) \in Seq(X) /\ Len(Api!Joined(q)) = 3 * Len(q)
         /\ \A i \in 1 .. Len(q) : /\ Api!Joined(q)[3 * i - 2] = q[i][1]
                                   /\ Api!Joined(q)[3 * i - 1] = q[i][2]
                                   /\ Api!Joined(q)[3 * i] = q[i][3]
<1> DEFINE n == Len(q)
           u == Api!Joined(q)
<1>1. n \in Nat /\ \A i \in 1 .. n : q[i] \in Seq(X) /\ Len(q[i]) = 3
  OBVIOUS
<1>2. u = [k \in 1 .. 3 * n |-> q[(k + 2) \div 3][1 + ((k + 2) % 3)]]
  BY DEF Api!Joined
<1> HIDE DEF n, u
<1>3. ASSUME NEW k \in 1 .. 3 * n
      PROVE  (k + 2) \div 3 \in 1 .. n /\ 1 + ((k + 2) % 3) \in 1 .. 3
  BY <1>1
<1>4. \A i \in 1 .. n : \A p \in 1 .. 3 : q[i][p] \in X
  BY <1>1
<1>5. u \in Seq(X) /\ Len(u) = 3 * n /\ DOMAIN u = 1 .. 3 * n
  <2>1. \A k \in 1 .. 3 * n : u[k] \in X
    BY <1>2, <1>3, <1>4
  <2> QED
    BY <1>1, <1>2, <2>1
<1>6. ASSUME NEW i \in 1 .. n
      PROVE  u[3 * i - 2] = q[i][1] /\ u[3 * i - 1] = q[i][2] /\ u[3 * i] = q[i][3]
  <2>1. /\ 3 * i - 2 \in 1 .. 3 * n /\ 3 * i - 1 \in 1 .. 3 * n /\ 3 * i \in 1 .. 3 * n
    BY <1>1
  <2>2. /\ (3 * i - 2 + 2) \div 3 = i /\ (3 * i - 1 + 2) \div 3 = i /\ (3 * i + 2) \div 3 = i
        /\ 1 + ((3 * i - 2 + 2) % 3) = 1 /\ 1 + ((3 * i - 1 + 2) % 3) = 2 /\ 1 + ((3 * i + 2) % 3) = 3
    BY <1>1
  <2> QED
    BY <1>2, <2>1, <2>2
<1> QED
  BY <1>5, <1>6 DEF n, u

(* Blocks that start and stop at once, from a number on *)
Blocks(q, next) ==
  /\ q \in Seq(Seq(BlockEvents))
  /\ \A i \in 1 .. Len(q) :
       /\ Len(q[i]) = 3 /\ q[i][1].at = next + i - 1 /\ q[i][2].at = next + i - 1 /\ q[i][3].at = next + i - 1
       /\ q[i][1].t = "start" /\ q[i][2].t \notin {"start", "stop"} /\ q[i][3].t = "stop"

(* Blocks that start and stop at once, at the end *)
LEMMA BlocksAtOnce ==
  ASSUME NEW s, NEW next, Chain(s, -1, next), NEW q, Blocks(q, next)
  PROVE  Chain(s \o Api!Joined(q), -1, next + Len(q))
<1> DEFINE n == Len(s)
           m == Len(q)
           w == Api!Joined(q)
           u == s \o w
<1>1. s \in Seq(BlockEvents) /\ n \in Nat /\ m \in Nat /\ next \in Nat /\ Linked(s) /\ LastIs(s, -1, next)
  BY DEF Chain, Blocks
<1>2. /\ w \in Seq(BlockEvents) /\ Len(w) = 3 * m
      /\ \A i \in 1 .. m : w[3 * i - 2] = q[i][1] /\ w[3 * i - 1] = q[i][2] /\ w[3 * i] = q[i][3]
  BY JoinedTriples DEF Blocks
<1>3. /\ u \in Seq(BlockEvents) /\ Len(u) = n + 3 * m
      /\ (\A k \in 1 .. n : u[k] = s[k]) /\ \A k \in 1 .. 3 * m : u[n + k] = w[k]
  <2> HIDE DEF w
  <2>1. s \in Seq(BlockEvents) /\ w \in Seq(BlockEvents) /\ Len(s) = n /\ Len(w) = 3 * m
    BY <1>1, <1>2
  <2> HIDE DEF n, m
  <2>2. u \in Seq(BlockEvents)
    BY <2>1, Continued
  <2>3. Len(u) = Len(s) + Len(w)
    BY <2>1, Continued
  <2>4. \A k \in 1 .. Len(s) : u[k] = s[k]
    BY <2>1, Continued
  <2>5. \A k \in 1 .. Len(w) : u[Len(s) + k] = w[k]
    BY <2>1, Continued
  <2> QED
    BY <2>1, <2>2, <2>3, <2>4, <2>5
<1> HIDE DEF n, m, w, u
<1>4. ASSUME NEW i \in 1 .. m
      PROVE  /\ u[n + 3 * i - 2].t = "start" /\ u[n + 3 * i - 2].at = next + i - 1
             /\ u[n + 3 * i - 1].t \notin {"start", "stop"} /\ u[n + 3 * i - 1].at = next + i - 1
             /\ u[n + 3 * i].t = "stop" /\ u[n + 3 * i].at = next + i - 1
  <2>1. 3 * i - 2 \in 1 .. 3 * m /\ 3 * i - 1 \in 1 .. 3 * m /\ 3 * i \in 1 .. 3 * m
    BY <1>1
  <2>2. u[n + (3 * i - 2)] = q[i][1] /\ u[n + (3 * i - 1)] = q[i][2] /\ u[n + 3 * i] = q[i][3]
    BY <1>2, <1>3, <2>1
  <2>3. n + (3 * i - 2) = n + 3 * i - 2 /\ n + (3 * i - 1) = n + 3 * i - 1
    BY <1>1
  <2> QED
    BY <2>2, <2>3 DEF Blocks, m
<1>5. ASSUME NEW k \in 1 .. n + 3 * m, k > n
      PROVE  \E i \in 1 .. m : k \in {n + 3 * i - 2, n + 3 * i - 1, n + 3 * i}
  <2>1. (k - n + 2) \div 3 \in 1 .. m
    BY <1>1, <1>5
  <2>2. k \in {n + 3 * ((k - n + 2) \div 3) - 2, n + 3 * ((k - n + 2) \div 3) - 1, n + 3 * ((k - n + 2) \div 3)}
    BY <1>1, <1>5
  <2> QED
    BY <2>1, <2>2
<1>6. ASSUME NEW k \in 1 .. n + 3 * m, k > n
      PROVE  u[k].at \in Nat
  <2>1. PICK i \in 1 .. m : k \in {n + 3 * i - 2, n + 3 * i - 1, n + 3 * i}
    BY <1>5, <1>6
  <2>2. u[k].at = next + i - 1
    BY <1>4, <2>1
  <2> QED
    BY <1>1, <2>2
<1>7. Linked(u)
  <2> SUFFICES ASSUME NEW k \in 1 .. n + 3 * m, u[k].at >= 0
               PROVE  /\ NoBlock(u, 1 .. k - 1) => u[k].t = "start" /\ u[k].at = 0
                      /\ \A j \in 1 .. k - 1 : u[j].at >= 0 /\ NoBlock(u, j + 1 .. k - 1) =>
                           IF u[k].t = "start" THEN u[j].t = "stop" /\ u[k].at = u[j].at + 1
                           ELSE u[j].t # "stop" /\ u[k].at = u[j].at
    BY <1>3 DEF Linked
  <2>1. CASE k <= n
    <3>1. k \in 1 .. Len(s) /\ \A j \in 1 .. Len(s) : u[j] = s[j]
      BY <1>1, <1>3, <2>1 DEF n
    <3> QED
      BY <1>1, <3>1, LinkedBefore
  <2>2. CASE k = n + 1
    <3>1. u[k].t = "start" /\ u[k].at = next
      <4>1. 1 \in 1 .. m /\ n + 3 * 1 - 2 = k
        BY <1>1, <2>2
      <4> QED
        BY <1>1, <1>4, <4>1
    <3>2. NoBlock(u, 1 .. k - 1) => NoBlock(s, 1 .. n)
      BY <1>1, <1>3, <2>2 DEF NoBlock
    <3>3. ASSUME NEW j \in 1 .. k - 1, u[j].at >= 0, NoBlock(u, j + 1 .. k - 1)
          PROVE  u[j].t = "stop" /\ u[k].at = u[j].at + 1
      <4>1. j \in 1 .. n /\ u[j] = s[j] /\ NoBlock(s, j + 1 .. n)
        <5>2. n \in Nat /\ k - 1 = n
          BY <1>1, <2>2
        <5>4. \A i \in 1 .. n : u[i] = s[i]
          BY <1>3
        <5>1. j \in 1 .. n /\ \A i \in 1 .. n : u[i] = s[i]
          BY <5>2, <5>4
        <5>3. \A i \in j + 1 .. n : i \in 1 .. n
          BY <5>1
        <5> QED
          BY <3>3, <5>1, <5>2, <5>3 DEF NoBlock
      <4> QED
        BY <1>1, <3>1, <3>3, <4>1 DEF LastIs, n
    <3> QED
      BY <1>1, <3>1, <3>2, <3>3 DEF LastIs, n
  <2>3. CASE k > n + 1
    <3>1. u[k - 1].at \in Nat /\ k - 1 \in 1 .. k - 1
      BY <1>1, <1>6, <2>3
    <3>2. ~NoBlock(u, 1 .. k - 1)
      BY <3>1 DEF NoBlock
    <3>3. ASSUME NEW j \in 1 .. k - 1, NoBlock(u, j + 1 .. k - 1)
          PROVE  j = k - 1
      BY <3>1, <3>3 DEF NoBlock
    <3>4. PICK i \in 1 .. m : k \in {n + 3 * i - 2, n + 3 * i - 1, n + 3 * i}
      <4>1. k > n
        BY <1>1, <2>3
      <4> QED
        BY <1>5, <4>1
    <3>5. IF u[k].t = "start" THEN u[k - 1].t = "stop" /\ u[k].at = u[k - 1].at + 1
          ELSE u[k - 1].t # "stop" /\ u[k].at = u[k - 1].at
      <4>1. CASE k = n + 3 * i - 2
        <5>1. \E h \in 1 .. m : h = i - 1
          BY <1>1, <2>3, <4>1
        <5>2. PICK h \in 1 .. m : h = i - 1
          BY <5>1
        <5>3. n + 3 * h = k - 1 /\ next + i - 1 = next + h - 1 + 1
          BY <1>1, <4>1, <5>2
        <5>4. u[k].t = "start" /\ u[k].at = next + i - 1
          BY <1>4, <4>1
        <5>5. u[k - 1].t = "stop" /\ u[k - 1].at = next + h - 1
          BY <1>4, <5>3
        <5> QED
          BY <5>3, <5>4, <5>5
      <4>2. CASE k = n + 3 * i - 1
        <5>1. n + 3 * i - 2 = k - 1
          BY <1>1, <4>2
        <5> QED
          BY <1>4, <4>2, <5>1
      <4>3. CASE k = n + 3 * i
        <5>1. n + 3 * i - 1 = k - 1
          BY <1>1, <4>3
        <5> QED
          BY <1>4, <4>3, <5>1
      <4> QED
        BY <3>4, <4>1, <4>2, <4>3
    <3> QED
      BY <3>2, <3>3, <3>5
  <2> QED
    BY <1>1, <2>1, <2>2, <2>3
<1>8. LastIs(u, -1, next + m)
  <2>1. CASE m = 0
    <3>1. Len(u) = n
      BY <1>1, <1>3, <2>1
    <3>2. NoBlock(u, 1 .. Len(u)) => NoBlock(s, 1 .. n)
      BY <1>3, <3>1 DEF NoBlock
    <3>3. \A k \in 1 .. n : NoBlock(u, k + 1 .. Len(u)) => NoBlock(s, k + 1 .. n)
      BY <1>1, <1>3, <3>1 DEF NoBlock
    <3> QED
      BY <1>1, <1>3, <2>1, <3>1, <3>2, <3>3 DEF LastIs, n
  <2>2. CASE m # 0
    <3>1. m \in 1 .. m /\ n + 3 * m \in 1 .. n + 3 * m
      BY <1>1, <2>2
    <3>2. u[n + 3 * m].t = "stop" /\ u[n + 3 * m].at = next + m - 1 /\ next + m - 1 \in Nat
      BY <1>1, <1>4, <3>1
    <3>3. ASSUME NEW k \in 1 .. n + 3 * m, NoBlock(u, k + 1 .. n + 3 * m)
          PROVE  k = n + 3 * m
      BY <1>1, <3>1, <3>2, <3>3 DEF NoBlock
    <3>4. ~NoBlock(u, 1 .. n + 3 * m)
      BY <1>1, <3>1, <3>2 DEF NoBlock
    <3> QED
      BY <1>1, <1>3, <3>2, <3>3, <3>4 DEF LastIs
  <2> QED
    BY <2>1, <2>2
<1> QED
  BY <1>1, <1>3, <1>7, <1>8 DEF Chain, m, u, w

----------------------------------------------------------------------------
(* The answer *)

Said == said \in Seq(Api!Kinds)

Numbers == Len(said) * MaxCalls

(* Where the numbers of calls and of pieces lie *)
LEMMA CallsOfAnswer ==
  ASSUME Said, MaxCalls \in Nat
  PROVE  /\ Len(said) \in Nat /\ Numbers \in Nat
         /\ Api!Detected \in SUBSET (1 .. Numbers) /\ Api!Thought \in SUBSET (1 .. Numbers)
         /\ Api!ClaudeCalls \in SUBSET (1 .. Numbers)
         /\ Api!Written \in SUBSET (1 .. Len(said))
<1>1. Len(said) \in Nat /\ DOMAIN said = 1 .. Len(said)
  BY DEF Said
<1>2. Numbers \in Nat
  BY <1>1 DEF Numbers
<1>3. \A js : Api!Calls(js) \in SUBSET (1 .. Numbers)
  BY DEF Api!Calls, Numbers
<1>4. \A cs : Api!Deduped(cs) \in SUBSET cs
  BY DEF Api!Deduped
<1>5. Api!Detected \in SUBSET (1 .. Numbers)
  BY <1>3, <1>4, Zenon DEF Api!Detected
<1>6. Api!Thought \in SUBSET (1 .. Numbers)
  BY <1>3, <1>4, Zenon DEF Api!Thought
<1>7. Api!ClaudeCalls \in SUBSET (1 .. Numbers)
  BY <1>5, <1>6 DEF Api!ClaudeCalls
<1>8. Api!Written \in SUBSET (1 .. Len(said))
  BY <1>1 DEF Api!Written, Api!Pieces
<1> QED
  BY <1>1, <1>2, <1>5, <1>6, <1>7, <1>8

(* and in their order they make a sequence of numbers *)
LEMMA OrderedNumbers ==
  ASSUME NEW n \in Nat, NEW I \in SUBSET (1 .. n)
  PROVE  /\ Api!InOrder(I) \in Seq(Int) /\ DOMAIN Api!InOrder(I) = 1 .. Len(Api!InOrder(I))
         /\ Len(Api!InOrder(I)) \in Nat
<1>1. InOrder(I) \in Seq(Int)
  BY Ordered
<1> QED
  BY <1>1, StreamsOrdered

(* finalize *)
LEMMA StreamEnds ==
  ASSUME NEW s, Streaming(s), Said, MaxCalls \in Nat
  PROVE  Streaming(Api!ClaudeEnd(s)) /\ Api!ClaudeEnd(s).text = -1 /\ Api!ClaudeEnd(s).thinking = -1
<1> DEFINE c1 == Api!CloseBlock(s, "thinking")
           c == Api!CloseBlock(c1, "text")
           calls == Api!InOrder(Api!ClaudeCalls)
           called == [i \in DOMAIN calls |-> Api!WholeBlock("call", c.next + i - 1, <<calls[i]>>)]
           text == <<Api!WholeBlock("text", c.next, Api!InOrder(Api!Written))>>
           rest == IF ~ask.tools THEN <<>>
                   ELSE IF Api!ClaudeCalls # {} THEN called
                   ELSE IF Api!Written # {} THEN text ELSE <<>>
<1>1. Streaming(c) /\ c.text = -1 /\ c.thinking = -1
  <2>1. Streaming(c1) /\ c1["thinking"] = -1
    BY BlockCloses DEF Kinds
  <2>2. Streaming(c) /\ c["text"] = -1 /\ c["thinking"] = -1
    BY <2>1, BlockCloses DEF Kinds, Other
  <2> QED
    BY <2>2 DEF Streaming, ClaudeStates
<1>2. Chain(c.sent, -1, c.next) /\ c.next \in Nat /\ c \in ClaudeStates
  BY <1>1 DEF Streaming, ClaudeStates
<1>3. calls \in Seq(Int) /\ DOMAIN calls = 1 .. Len(calls) /\ Len(calls) \in Nat
  BY CallsOfAnswer, OrderedNumbers
<1>4. Api!InOrder(Api!Written) \in Seq(Int)
  BY CallsOfAnswer, OrderedNumbers
<1> HIDE DEF c1, c, calls
<1>5. ASSUME NEW kind \in {"call", "text"}, NEW i \in Int, NEW x \in Seq(Int)
      PROVE  LET b == Api!WholeBlock(kind, i, x)
             IN  /\ b \in Seq(BlockEvents) /\ Len(b) = 3 /\ b[1].t = "start" /\ b[2].t = kind /\ b[3].t = "stop"
                 /\ b[1].at = i /\ b[2].at = i /\ b[3].at = i
  BY BlockTypes DEF Api!WholeBlock, Api!Block, BlockEvents
<1>6. Blocks(called, c.next)
  <2>1. ASSUME NEW i \in 1 .. Len(calls)
        PROVE  c.next + i - 1 \in Int /\ <<calls[i]>> \in Seq(Int)
    BY <1>2, <1>3
  <2> DEFINE b(i) == Api!WholeBlock("call", c.next + i - 1, <<calls[i]>>)
  <2>2. \A i \in 1 .. Len(calls) :
          /\ b(i) \in Seq(BlockEvents) /\ Len(b(i)) = 3
          /\ b(i)[1].t = "start" /\ b(i)[2].t = "call" /\ b(i)[3].t = "stop"
          /\ b(i)[1].at = c.next + i - 1 /\ b(i)[2].at = c.next + i - 1 /\ b(i)[3].at = c.next + i - 1
    <3> SUFFICES ASSUME NEW i \in 1 .. Len(calls)
                 PROVE  /\ b(i) \in Seq(BlockEvents) /\ Len(b(i)) = 3
                        /\ b(i)[1].t = "start" /\ b(i)[2].t = "call" /\ b(i)[3].t = "stop"
                        /\ b(i)[1].at = c.next + i - 1 /\ b(i)[2].at = c.next + i - 1
                        /\ b(i)[3].at = c.next + i - 1
      BY Zenon
    <3> DEFINE j == c.next + i - 1
               x == <<calls[i]>>
    <3>1. j \in Int /\ x \in Seq(Int)
      BY <2>1
    <3> HIDE DEF j, x
    <3>2. LET a == Api!WholeBlock("call", j, x)
          IN  /\ a \in Seq(BlockEvents) /\ Len(a) = 3
              /\ a[1].t = "start" /\ a[2].t = "call" /\ a[3].t = "stop"
              /\ a[1].at = j /\ a[2].at = j /\ a[3].at = j
      BY <1>5, <3>1
    <3> QED
      BY <3>2 DEF j, x
  <2>3. called = [i \in 1 .. Len(calls) |-> b(i)]
    BY <1>3
  <2> HIDE DEF called, b
  <2>4. called \in Seq(Seq(BlockEvents)) /\ Len(called) = Len(calls)
    BY <1>3, <2>2, <2>3
  <2>5. \A i \in 1 .. Len(calls) : called[i] = b(i)
    BY <2>3
  <2> QED
    BY <2>2, <2>4, <2>5 DEF Blocks
<1>7. Blocks(text, c.next)
  <2> DEFINE b == Api!WholeBlock("text", c.next, Api!InOrder(Api!Written))
  <2>1. /\ b \in Seq(BlockEvents) /\ Len(b) = 3 /\ b[1].t = "start" /\ b[2].t = "text" /\ b[3].t = "stop"
        /\ b[1].at = c.next /\ b[2].at = c.next /\ b[3].at = c.next
    BY <1>2, <1>4, <1>5
  <2> HIDE DEF b
  <2>2. <<b>> \in Seq(Seq(BlockEvents)) /\ Len(<<b>>) = 1 /\ <<b>>[1] = b
    BY <2>1
  <2>3. \A i \in 1 .. 1 : i = 1 /\ c.next + i - 1 = c.next
    BY <1>2
  <2>4. Blocks(<<b>>, c.next)
    BY <2>1, <2>2, <2>3 DEF Blocks
  <2> QED
    BY <2>4 DEF b
<1>8. Blocks(<<>>, c.next)
  BY DEF Blocks
<1>9. Blocks(rest, c.next)
  BY <1>6, <1>7, <1>8
<1> HIDE DEF rest
<1> DEFINE d == [c EXCEPT !.sent = @ \o Api!Joined(rest), !.next = @ + Len(rest)]
           e1 == Api!Block("message_delta", -1)
           e2 == Api!Block("message_stop", -1)
<1>10. Streaming(d) /\ d.text = -1 /\ d.thinking = -1
  <2>1. Chain(c.sent \o Api!Joined(rest), -1, c.next + Len(rest))
    BY <1>2, <1>9, BlocksAtOnce
  <2>2. c.sent \o Api!Joined(rest) \in Seq(BlockEvents) /\ c.next + Len(rest) \in Nat
    BY <2>1 DEF Chain
  <2> QED
    BY <1>1, <1>2, <2>1, <2>2 DEF Streaming, ClaudeStates
<1>11. e1 \in BlockEvents /\ e1.at = -1 /\ e2 \in BlockEvents /\ e2.at = -1
  BY DEF Api!Block, BlockEvents
<1>12. Api!ClaudeEnd(s) = Api!Say(Api!Say(d, e1), e2)
  BY DEF Api!ClaudeEnd, rest, calls, c, c1
<1> HIDE DEF d, e1, e2
<1>13. Streaming(Api!Say(d, e1)) /\ Streaming(Api!Say(Api!Say(d, e1), e2))
  BY <1>10, <1>11, SaidBetween
<1>14. /\ Api!Say(Api!Say(d, e1), e2).text = d.text
       /\ Api!Say(Api!Say(d, e1), e2).thinking = d.thinking
  BY <1>10 DEF Api!Say, Streaming, ClaudeStates
<1> QED
  BY <1>10, <1>12, <1>13, <1>14

----------------------------------------------------------------------------
ClaudeInv ==
  /\ Said
  /\ ended = "no" => Streaming(cla)
  /\ ended = "end" => Streaming(cla) /\ cla.text = -1 /\ cla.thinking = -1
  /\ Linked(cla.sent) /\ cla.sent \in Seq(BlockEvents)

(* The events of a stream follow from each other *)
LEMMA StreamingLinked ==
  ASSUME NEW s, Streaming(s)
  PROVE  Linked(s.sent) /\ s.sent \in Seq(BlockEvents)
BY DEF Streaming, Chain

(* Every step keeps the blocks in order *)
LEMMA ClaudeStep ==
  ASSUME ClaudeInv, [Api!Next]_Api!vars, MaxCalls \in Nat
  PROVE  ClaudeInv'
<1>1. CASE Api!Piece
  <2>0. PICK p \in Api!Kinds : said' = Append(said, p) /\ cla' = Api!ClaudePiece(cla, p, Len(said) + 1)
    BY <1>1 DEF Api!Piece
  <2>1. Said' /\ Len(said) + 1 \in Nat
    BY <2>0 DEF ClaudeInv, Said, Api!Kinds
  <2>2. ended = "no" /\ ended' = "no"
    BY <1>1 DEF Api!Piece, Api!Open
  <2>3. Streaming(cla')
    BY <2>0, <2>1, <2>2, PieceStreams DEF ClaudeInv
  <2> QED
    BY <2>1, <2>2, <2>3, StreamingLinked DEF ClaudeInv
<1>2. CASE Api!KeepAlive
  <2>1. Api!Block("ping", -1) \in BlockEvents /\ Api!Block("ping", -1).at = -1
    BY DEF Api!Block, BlockEvents
  <2>2. ended = "no" /\ ended' = "no" /\ cla' = Api!Say(cla, Api!Block("ping", -1)) /\ said' = said
    BY <1>2 DEF Api!KeepAlive, Api!Open
  <2>3. Streaming(cla')
    BY <2>1, <2>2, SaidBetween DEF ClaudeInv
  <2> QED
    BY <2>2, <2>3, StreamingLinked DEF ClaudeInv, Said
<1>3. CASE Api!Finish
  <2>1. ended = "no" /\ said' = said /\ Streaming(cla) /\ Said
    BY <1>3 DEF Api!Finish, ClaudeInv
  <2>2. CASE ended' = "end" /\ cla' = Api!ClaudeEnd(cla)
    <3>1. Streaming(cla') /\ cla'.text = -1 /\ cla'.thinking = -1
      BY <2>1, <2>2, StreamEnds
    <3> QED
      BY <2>1, <2>2, <3>1, StreamingLinked DEF ClaudeInv, Said
  <2>3. CASE ended' \in {"error", "broken"} /\ cla' = Api!Say(cla, Api!Block("error", -1))
    <3>1. Api!Block("error", -1) \in BlockEvents /\ Api!Block("error", -1).at = -1
      BY DEF Api!Block, BlockEvents
    <3>2. Streaming(cla')
      BY <2>1, <2>3, <3>1, SaidBetween
    <3> QED
      BY <2>1, <2>3, <3>2, StreamingLinked DEF ClaudeInv, Said
  <2> QED
    BY <1>3, <2>2, <2>3 DEF Api!Finish
<1>4. CASE Api!Gone
  BY <1>4 DEF Api!Gone, ClaudeInv, Said
<1>5. CASE Api!Refused
  <2>1. ended' = "refused" /\ said' = said /\ cla' = [cla EXCEPT !.sent = <<>>] /\ Streaming(cla)
    BY <1>5 DEF Api!Refused, ClaudeInv
  <2>2. cla'.sent = <<>>
    BY <2>1 DEF Streaming, ClaudeStates
  <2> QED
    BY <2>1, <2>2 DEF ClaudeInv, Said, Linked
<1>6. CASE UNCHANGED Api!vars
  BY <1>6 DEF Api!vars, ClaudeInv, Said
<1> QED
  BY <1>1, <1>2, <1>3, <1>4, <1>5, <1>6 DEF Api!Next

(* They are at the start *)
LEMMA ClaudeStarts ==
  ASSUME Api!Init
  PROVE  ClaudeInv
<1> DEFINE e == Api!Block("message_start", -1)
<1>1. said = <<>> /\ ended = "no" /\ cla = [sent |-> <<e>>, next |-> 0, thinking |-> -1, text |-> -1]
  BY DEF Api!Init
<1>2. e \in BlockEvents /\ e.at = -1
  BY DEF Api!Block, BlockEvents
<1> HIDE DEF e
<1>3. <<e>> \in Seq(BlockEvents) /\ Len(<<e>>) = 1 /\ <<e>>[1] = e
  BY <1>2
<1>4. Linked(<<e>>) /\ LastIs(<<e>>, -1, 0)
  BY <1>2, <1>3 DEF Linked, LastIs
<1>5. Chain(<<e>>, -1, 0)
  BY <1>3, <1>4 DEF Chain
<1>6. Streaming(cla)
  BY <1>1, <1>3, <1>5 DEF Streaming, ClaudeStates
<1> QED
  BY <1>1, <1>6, StreamingLinked DEF ClaudeInv, Said

(***************************************************************************)
(* The content blocks a Claude client gets are numbered from zero without  *)
(* gaps, one is open at a time, deltas belong to the open one, and when    *)
(* the message stops none is open: for answers of any number of pieces and *)
(* calls, however they end.                                                *)
(***************************************************************************)
THEOREM BlocksInOrder == Spec => []BlocksWellFormed
<1>1. ClaudeInv => BlocksWellFormed
  <2> SUFFICES ASSUME ClaudeInv PROVE Api!BlocksWellFormed
    BY DEF BlocksWellFormed
  <2>1. Linked(cla.sent) /\ DOMAIN cla.sent = 1 .. Len(cla.sent)
    BY DEF ClaudeInv
  <2>2. ASSUME ended = "end"
        PROVE  LastIs(cla.sent, -1, cla.next)
    BY <2>2 DEF ClaudeInv, Streaming, Chain
  <2> QED
    BY <2>1, <2>2 DEF Api!BlocksWellFormed, Linked, NoBlock, LastIs
<1>2. MaxCalls \in Nat
  BY StreamsAssumption
<1> QED
  BY <1>1, <1>2, ClaudeStarts, ClaudeStep, StoresApart, PTL DEF Api!Spec

----------------------------------------------------------------------------
(* The lines of the chat stream *)

Lines == Seq(Int)

Writers == [status : {0, 200, 429}, buf : Lines, out : Seq(Lines)]

(* A writer whose client gets an answer *)
Sending(b, o) == [status |-> 200, buf |-> b, out |-> o]

(* A writer by its fields *)
LEMMA WriterFields ==
  ASSUME NEW w \in Writers, NEW b \in Lines, NEW o \in Seq(Lines)
  PROVE  [w EXCEPT !.buf = b, !.out = o] = [status |-> w.status, buf |-> b, out |-> o]
<1> DEFINE r == [w EXCEPT !.buf = b, !.out = o]
<1>1. r \in Writers
  BY DEF Writers
<1>2. r.buf = b /\ r.out = o /\ r.status = w.status
  BY DEF Writers
<1> HIDE DEF r
<1>3. r = [status |-> w.status, buf |-> b, out |-> o]
  BY <1>1, <1>2 DEF Writers
<1> QED
  BY <1>3 DEF r

(* The first write of an answer sets its status *)
LEMMA WriterStarts ==
  ASSUME NEW w \in Writers, w.status \in {0, 200}
  PROVE  [w EXCEPT !.status = IF @ = 0 THEN 200 ELSE @] = Sending(w.buf, w.out)
BY DEF Writers, Sending

(* What is written goes to the buffer *)
LEMMA WriterTakes ==
  ASSUME NEW b, NEW c, NEW o
  PROVE  [Sending(b, o) EXCEPT !.buf = c] = Sending(c, o)
BY DEF Sending

(* What a writer has whose client gets an answer *)
LEMMA WriterSends ==
  ASSUME NEW b \in Lines, NEW o \in Seq(Lines)
  PROVE  /\ Sending(b, o) \in Writers
         /\ Sending(b, o).status = 200 /\ Sending(b, o).buf = b /\ Sending(b, o).out = o
BY DEF Writers, Sending

(* The streams' own copy of Picked *)
LEMMA StreamsPicked ==
  ASSUME NEW s, NEW I
  PROVE  Api!Picked(s, I) = Picked(s, I)
BY DEF Api!Picked, Picked, Api!Rank, Rank, Api!Cardinality, Cardinality, Api!IsFiniteSet, IsFiniteSet

(* The one line that is not blank *)
LEMMA FirstOfTwo ==
  ASSUME NEW line \in Seq(Int), line # <<>>
  PROVE  Api!Where(<<line, <<>>>>, LAMBDA l : l # <<>>) = <<line>>
<1> DEFINE lines == <<line, <<>>>>
           I == {i \in DOMAIN lines : lines[i] # <<>>}
<1>1. lines \in Seq(Seq(Int)) /\ DOMAIN lines = {1, 2} /\ lines[1] = line /\ lines[2] = <<>>
  <2>1. <<>> \in Seq(Int)
    OBVIOUS
  <2> QED
    BY <2>1
<1>2. I = {1}
  BY <1>1
<1>3. Cardinality({1}) = 1 /\ {1} \in SUBSET (1 .. 2) /\ {1} \in SUBSET DOMAIN lines
  <2>1. Cardinality({1}) = 1
    BY FS_Singleton
  <2>2. {1} \in SUBSET (1 .. 2)
    OBVIOUS
  <2>3. {1} \in SUBSET DOMAIN lines
    BY <1>1
  <2> QED
    BY <2>1, <2>2, <2>3
<1> HIDE DEF lines
<1>4. Rank({1}, 1) = 1
  <2>1. Rank({1}, 1) \in 1 .. 1
    BY <1>3, Ranks
  <2> QED
    BY <2>1
<1> DEFINE At(k) == CHOOSE i \in {1} : Rank({1}, i) = k
<1>5. Picked(lines, {1}) = [k \in 1 .. 1 |-> lines[At(k)]]
  BY <1>3 DEF Picked
<1>6. Picked(lines, {1}) = <<line>>
  <2>1. At(1) = 1
    BY <1>4
  <2> HIDE DEF At
  <2>2. Picked(lines, {1})[1] = line
    BY <1>1, <1>5, <2>1
  <2>3. Picked(lines, {1}) = [k \in 1 .. 1 |-> Picked(lines, {1})[k]]
    BY <1>5
  <2>4. <<line>> = [k \in 1 .. 1 |-> Picked(lines, {1})[k]]
    BY <2>2
  <2> QED
    BY <2>3, <2>4
<1>7. Api!Where(lines, LAMBDA l : l # <<>>) = Picked(lines, I)
  BY StreamsPicked DEF Api!Where
<1> QED
  BY <1>2, <1>6, <1>7 DEF lines

(* A line and the blank line after it are read at once *)
LEMMA LineDrained ==
  ASSUME NEW line \in Lines, line # <<>>, \A k \in 1 .. Len(line) : line[k] # 0,
         NEW w \in Writers, w.buf = line \o <<0, 0>>
  PROVE  Api!Drained(w) = [status |-> w.status, buf |-> <<>>, out |-> Append(w.out, line)]
<1> DEFINE n == Len(line)
           E == {k \in DOMAIN w.buf : w.buf[k] = Api!Newline}
           e == Api!InOrder(E)
           start(i) == IF i = 1 THEN 1 ELSE e[i - 1] + 1
           lines == [i \in DOMAIN e |-> SubSeq(w.buf, start(i), e[i] - 1)]
<1>0. line \in Seq(Int) /\ w.buf \in Lines /\ w.out \in Seq(Lines)
  BY DEF Writers, Lines
<1>1. n \in Nat /\ w.buf \in Seq(Int) /\ Len(w.buf) = n + 2 /\ DOMAIN w.buf = 1 .. n + 2
  BY <1>0 DEF Lines
<1>2. w.buf[n + 1] = 0 /\ w.buf[n + 2] = 0 /\ \A k \in 1 .. n : w.buf[k] = line[k]
  <2>1. <<0, 0>> \in Seq(Int) /\ Len(<<0, 0>>) = 2
    OBVIOUS
  <2>2. \A k \in 1 .. 2 : (line \o <<0, 0>>)[Len(line) + k] = <<0, 0>>[k]
    BY <1>0, <2>1, Continued
  <2>3. \A k \in 1 .. Len(line) : (line \o <<0, 0>>)[k] = line[k]
    BY <1>0, <2>1, Continued
  <2> QED
    BY <1>1, <2>2, <2>3
<1>3. E = {n + 1, n + 2}
  BY <1>1, <1>2 DEF Api!Newline
<1>4. Cardinality(E) = 2 /\ E \in SUBSET (1 .. n + 2) /\ n + 2 \in Nat
  <2>1. n + 1 # n + 2
    BY <1>1
  <2>2. IsFiniteSet({n + 1}) /\ Cardinality({n + 1}) = 1
    BY FS_Singleton
  <2>3. {n + 1, n + 2} = {n + 1} \cup {n + 2} /\ n + 2 \notin {n + 1}
    BY <2>1
  <2>4. Cardinality({n + 1} \cup {n + 2}) = Cardinality({n + 1}) + 1
    BY <2>2, <2>3, FS_AddElement
  <2>5. Cardinality({n + 1, n + 2}) = 2
    BY <2>2, <2>3, <2>4
  <2>6. {n + 1, n + 2} \in SUBSET (1 .. n + 2) /\ n + 2 \in Nat
    BY <1>1
  <2> HIDE DEF E
  <2> QED
    BY <1>3, <2>5, <2>6
<1> HIDE DEF E, n
<1>5. e \in Seq(Int) /\ Len(e) = 2 /\ DOMAIN e = 1 .. 2 /\ e[1] = n + 1 /\ e[2] = n + 2
  <2>1. e = InOrder(E)
    BY StreamsOrdered
  <2> HIDE DEF e
  <2>2. /\ e \in Seq(Int) /\ Len(e) = 2 /\ (\A k \in 1 .. 2 : e[k] \in E)
        /\ \A k, l \in 1 .. 2 : k < l => e[k] < e[l]
    BY <1>4, <2>1, Ordered
  <2>3. e[1] \in E /\ e[2] \in E /\ e[1] < e[2]
    BY <2>2
  <2> QED
    BY <1>1, <1>3, <2>2, <2>3
<1> HIDE DEF e
<1>6. lines = <<line, <<>>>>
  <2>1. lines = [i \in 1 .. 2 |-> SubSeq(w.buf, start(i), e[i] - 1)]
    BY <1>5
  <2>2. start(1) = 1 /\ e[1] - 1 = n /\ start(2) = n + 2 /\ e[2] - 1 = n + 1
    BY <1>1, <1>5
  <2>3. SubSeq(w.buf, 1, n) = line
    <3>1. 1 .. n \in SUBSET (1 .. Len(w.buf))
      BY <1>1
    <3>2. SubSeq(w.buf, 1, n) \in Seq(Int) /\ Len(SubSeq(w.buf, 1, n)) = n
          /\ \A k \in 1 .. n : SubSeq(w.buf, 1, n)[k] = w.buf[k]
      BY <1>1, <3>1
    <3> QED
      BY <1>0, <1>2, <3>2 DEF n
  <2>4. SubSeq(w.buf, n + 2, n + 1) = <<>>
    BY <1>1
  <2> HIDE DEF start, lines
  <2>5. \A i \in 1 .. 2 : lines[i] = SubSeq(w.buf, start(i), e[i] - 1)
    BY <2>1, Zenon
  <2>6. lines[1] = line /\ lines[2] = <<>>
    <3>0. 1 \in 1 .. 2 /\ 2 \in 1 .. 2
      OBVIOUS
    <3>1. lines[1] = SubSeq(w.buf, start(1), e[1] - 1) /\ lines[2] = SubSeq(w.buf, start(2), e[2] - 1)
      BY <2>5, <3>0, Zenon
    <3>2. lines[1] = SubSeq(w.buf, 1, n) /\ lines[2] = SubSeq(w.buf, n + 2, n + 1)
      BY <2>2, <3>1, Zenon
    <3> QED
      BY <2>3, <2>4, <3>2, Zenon
  <2>7. DOMAIN lines = 1 .. 2 /\ lines = [i \in 1 .. 2 |-> lines[i]]
    BY <2>1
  <2>8. <<line, <<>>>> = [i \in 1 .. 2 |-> lines[i]]
    BY <2>6
  <2> QED
    BY <2>7, <2>8
<1>7. SubSeq(w.buf, e[Len(e)] + 1, Len(w.buf)) = <<>>
  BY <1>1, <1>5
<1>8. e # <<>>
  <2>1. Len(<<>>) = 0 /\ Len(e) # 0
    BY <1>5
  <2> QED
    BY <2>1, Zenon
<1> HIDE DEF lines
<1>9. Api!Drained(w) = [w EXCEPT !.buf = SubSeq(w.buf, e[Len(e)] + 1, Len(w.buf)),
                                 !.out = w.out \o Api!Where(lines, LAMBDA l : l # <<>>)]
  BY <1>8 DEF Api!Drained, e, E, lines
<1>10. w.out \o Api!Where(lines, LAMBDA l : l # <<>>) = Append(w.out, line)
  <2>1. Api!Where(lines, LAMBDA l : l # <<>>) = <<line>>
    BY <1>0, <1>6, FirstOfTwo
  <2>2. w.out \o <<line>> = Append(w.out, line)
    BY <1>0
  <2> QED
    BY <2>1, <2>2
<1>11. <<>> \in Lines /\ Append(w.out, line) \in Seq(Lines)
  <2>1. <<>> \in Lines
    BY DEF Lines
  <2> QED
    BY <1>0, <2>1
<1>12. Api!Drained(w) = [w EXCEPT !.buf = <<>>, !.out = Append(w.out, line)]
  BY <1>7, <1>9, <1>10
<1> QED
  BY <1>11, <1>12, WriterFields

(* One write: the buffer has it, and its lines go out *)
LEMMA WriteSends ==
  ASSUME NEW w \in Writers, w.status \in {0, 200}, NEW p
  PROVE  Api!Write(w, p) = Api!Drained(Sending(w.buf \o p, w.out))
<1> DEFINE sent == [w EXCEPT !.status = IF @ = 0 THEN 200 ELSE @]
<1>1. sent = Sending(w.buf, w.out)
  BY WriterStarts
<1>2. sent.status = 200 /\ sent.buf = w.buf
  BY <1>1 DEF Sending
<1> HIDE DEF sent
<1>3. [sent EXCEPT !.buf = sent.buf \o p] = Sending(w.buf \o p, w.out)
  <2>1. [Sending(w.buf, w.out) EXCEPT !.buf = w.buf \o p] = Sending(w.buf \o p, w.out)
    <3> DEFINE b == w.buf
               c == w.buf \o p
               o == w.out
    <3> HIDE DEF b, c, o
    <3>1. [Sending(b, o) EXCEPT !.buf = c] = Sending(c, o)
      BY DEF Sending
    <3> QED
      BY <3>1, Zenon DEF b, c, o
  <2>2. [sent EXCEPT !.buf = sent.buf \o p] = [Sending(w.buf, w.out) EXCEPT !.buf = w.buf \o p]
    BY <1>1, <1>2, Zenon
  <2> QED
    BY <2>1, <2>2, Zenon
<1>4. Api!Write(w, p) = IF sent.status # 200 THEN [sent EXCEPT !.out = Append(sent.out, p)]
                        ELSE Api!Drained([sent EXCEPT !.buf = sent.buf \o p])
  BY Zenon DEF Api!Write, sent
<1> QED
  BY <1>2, <1>3, <1>4

(* A line that is written in pieces *)
LEMMA LineWritten ==
  ASSUME NEW w \in Writers, w.status \in {0, 200}, w.buf = <<>>, NEW x \in Int, x # 0
  PROVE  Api!WriteLine(w, x) = Sending(<<>>, Append(w.out, <<-1, x>>))
<1> DEFINE o == w.out
<1>0. /\ o \in Seq(Lines)
      /\ <<>> \in Lines /\ <<-1>> \in Lines /\ <<x>> \in Lines /\ <<-1, x>> \in Lines /\ <<0, 0>> \in Lines
  <2>1. /\ <<-1>> \in Seq(Int) /\ <<x>> \in Seq(Int) /\ <<-1, x>> \in Seq(Int)
        /\ <<0, 0>> \in Seq(Int) /\ <<>> \in Seq(Int)
    OBVIOUS
  <2> QED
    BY <2>1 DEF Writers, Lines
<1>1. ASSUME NEW b \in Lines, NEW p \in Lines
      PROVE  /\ b \o p \in Lines
             /\ Api!Write(Sending(b, o), p) = Api!Drained(Sending(b \o p, o))
  <2>1. b \o p \in Lines
    BY DEF Lines
  <2>2. /\ Sending(b, o) \in Writers /\ Sending(b, o).status = 200
        /\ Sending(b, o).buf = b /\ Sending(b, o).out = o
    BY <1>0, WriterSends
  <2> QED
    BY <2>1, <2>2, WriteSends
<1>2. ASSUME NEW b \in Lines, \A k \in 1 .. Len(b) : b[k] # 0
      PROVE  Api!Drained(Sending(b, o)) = Sending(b, o)
  <2>1. Sending(b, o).buf = b
    BY <1>0, WriterSends
  <2>2. {k \in DOMAIN b : b[k] = Api!Newline} = {}
    BY <1>2 DEF Api!Newline, Lines
  <2>3. Api!InOrder({}) = <<>>
    <3>1. Api!InOrder({}) = InOrder({})
      BY StreamsOrdered
    <3>2. Len(InOrder({})) = 0 /\ InOrder({}) \in Seq(Int)
      <4>1. Len(InOrder({})) = Cardinality({}) /\ InOrder({}) \in Seq(Int)
        <5>1. 0 \in Nat /\ {} \in SUBSET (1 .. 0)
          OBVIOUS
        <5> QED
          BY <5>1, Ordered
      <4> QED
        BY <4>1, FS_EmptySet
    <3> QED
      BY <3>1, <3>2
  <2> DEFINE e == Api!InOrder({k \in DOMAIN Sending(b, o).buf : Sending(b, o).buf[k] = Api!Newline})
  <2>4. e = <<>>
    <3>1. {k \in DOMAIN Sending(b, o).buf : Sending(b, o).buf[k] = Api!Newline}
            = {k \in DOMAIN b : b[k] = Api!Newline}
      BY <2>1, Zenon
    <3> QED
      BY <2>2, <2>3, <3>1, Zenon
  <2> QED
    BY <2>4, Zenon DEF Api!Drained, e
<1>3. Api!ChatLine(x)[1] = <<-1>> /\ Api!ChatLine(x)[2] = <<x>> /\ Api!ChatLine(x)[3] = <<0, 0>>
  BY DEF Api!ChatLine, Api!Data, Api!Newline
<1>4. <<-1>> \o <<x>> = <<-1, x>>
  <2>1. <<-1>> \o <<x>> = Append(<<-1>>, x)
    OBVIOUS
  <2>2. <<-1, x>> = Append(<<-1>>, x)
    OBVIOUS
  <2> QED
    BY <2>1, <2>2
<1>5. Api!Write(w, <<-1>>) = Sending(<<-1>>, o)
  <2>1. Api!Write(w, <<-1>>) = Api!Drained(Sending(<<>> \o <<-1>>, o))
    <3>1. Api!Write(w, <<-1>>) = Api!Drained(Sending(w.buf \o <<-1>>, w.out))
      <4>1. PICK p : p = <<-1>>
        OBVIOUS
      <4>2. Api!Write(w, p) = Api!Drained(Sending(w.buf \o p, w.out))
        BY WriteSends, ZenonT(60)
      <4> QED
        BY <4>1, <4>2, Zenon
    <3>2. w.buf \o <<-1>> = <<>> \o <<-1>>
      OBVIOUS
    <3> QED
      BY <3>1, <3>2
  <2>2. <<>> \o <<-1>> = <<-1>>
    OBVIOUS
  <2>5. \A k \in 1 .. Len(<<-1>>) : <<-1>>[k] # 0
    OBVIOUS
  <2> QED
    BY <1>0, <1>2, <2>1, <2>2, <2>5
<1>6. Api!Write(Sending(<<-1>>, o), <<x>>) = Sending(<<-1, x>>, o)
  <2>1. Api!Write(Sending(<<-1>>, o), <<x>>) = Api!Drained(Sending(<<-1, x>>, o))
    <3>1. Api!Write(Sending(<<-1>>, o), <<x>>) = Api!Drained(Sending(<<-1>> \o <<x>>, o))
      <4>1. PICK c \in Lines, p \in Lines : c = <<-1>> /\ p = <<x>>
        BY <1>0
      <4>2. Api!Write(Sending(c, o), p) = Api!Drained(Sending(c \o p, o))
        BY <1>1
      <4> QED
        BY <4>1, <4>2, Zenon
    <3> QED
      BY <1>4, <3>1, Zenon
  <2>2. \A k \in 1 .. Len(<<-1, x>>) : <<-1, x>>[k] # 0
    OBVIOUS
  <2> QED
    BY <1>0, <1>2, <2>1, <2>2
<1>7. Api!Write(Sending(<<-1, x>>, o), <<0, 0>>) = Sending(<<>>, Append(o, <<-1, x>>))
  <2> DEFINE line == <<-1, x>>
             b == line \o <<0, 0>>
             v == Sending(b, o)
  <2>1. Api!Write(Sending(line, o), <<0, 0>>) = Api!Drained(v) /\ b \in Lines
    BY <1>0, <1>1
  <2>2. line # <<>> /\ \A k \in 1 .. Len(line) : line[k] # 0
    OBVIOUS
  <2>3. line \in Lines
    BY <1>0
  <2>6. PICK z : z = <<0, 0>>
    OBVIOUS
  <2>7. b = line \o z
    BY <2>6
  <2> HIDE DEF line, b
  <2>4. v \in Writers /\ v.buf = b /\ v.out = o /\ v.status = 200
    BY <1>0, <2>1, WriterSends
  <2> HIDE DEF v
  <2>5. Api!Drained(v) = [status |-> 200, buf |-> <<>>, out |-> Append(o, line)]
    <3>1. Api!Drained(v) = [status |-> v.status, buf |-> <<>>, out |-> Append(v.out, line)]
      <4>1. v.buf = line \o <<0, 0>>
        BY <2>4, <2>6, <2>7, Zenon
      <4> QED
        BY <2>2, <2>3, <2>4, <4>1, LineDrained, ZenonT(60)
    <3> QED
      BY <2>4, <3>1
  <2> QED
    BY <2>1, <2>5 DEF line, Sending
<1>8. Api!WriteLine(w, x) = Api!Write(Api!Write(Api!Write(w, <<-1>>), <<x>>), <<0, 0>>)
  BY <1>3 DEF Api!WriteLine
<1> QED
  BY <1>5, <1>6, <1>7, <1>8

(* and one that comes at once *)
LEMMA CommentWritten ==
  ASSUME NEW w \in Writers, w.status \in {0, 200}, w.buf = <<>>
  PROVE  Api!Write(w, <<-2, 0, 0>>) = Sending(<<>>, Append(w.out, <<-2>>))
<1> DEFINE line == <<-2>>
           o == w.out
           b == line \o <<0, 0>>
           v == Sending(b, o)
<1>1. <<>> \o <<-2, 0, 0>> = <<-2, 0, 0>> /\ <<-2, 0, 0>> = b
  <2>1. <<-2, 0, 0>> = Append(Append(<<-2>>, 0), 0)
    OBVIOUS
  <2>2. <<0, 0>> = Append(<<0>>, 0)
    OBVIOUS
  <2>3. <<-2>> \o Append(<<0>>, 0) = Append(Append(<<-2>>, 0), 0)
    OBVIOUS
  <2>4. <<>> \o <<-2, 0, 0>> = <<-2, 0, 0>>
    OBVIOUS
  <2> QED
    BY <2>1, <2>2, <2>3, <2>4
<1>2. line \in Lines /\ b \in Lines /\ o \in Seq(Lines)
  <2>1. line \in Seq(Int) /\ line \o <<0, 0>> \in Seq(Int)
    OBVIOUS
  <2> QED
    BY <2>1 DEF Lines, Writers
<1>3. line # <<>> /\ \A k \in 1 .. Len(line) : line[k] # 0
  OBVIOUS
<1>4. Api!Write(w, <<-2, 0, 0>>) = Api!Drained(v)
  <2>1. Api!Write(w, <<-2, 0, 0>>) = Api!Drained(Sending(<<>> \o <<-2, 0, 0>>, o))
    <3>1. Api!Write(w, <<-2, 0, 0>>) = Api!Drained(Sending(w.buf \o <<-2, 0, 0>>, w.out))
      <4>1. PICK p : p = <<-2, 0, 0>>
        OBVIOUS
      <4>2. Api!Write(w, p) = Api!Drained(Sending(w.buf \o p, w.out))
        BY WriteSends, ZenonT(60)
      <4> QED
        BY <4>1, <4>2, Zenon
    <3>2. w.buf \o <<-2, 0, 0>> = <<>> \o <<-2, 0, 0>>
      OBVIOUS
    <3> QED
      BY <3>1, <3>2
  <2> QED
    BY <1>1, <2>1
<1>7. b = line \o <<0, 0>>
  OBVIOUS
<1> HIDE DEF line, b
<1>5. v \in Writers /\ v.buf = b /\ v.out = o /\ v.status = 200
  BY <1>2, WriterSends
<1> HIDE DEF v
<1>6. Api!Drained(v) = [status |-> 200, buf |-> <<>>, out |-> Append(o, line)]
  <2>1. Api!Drained(v) = [status |-> v.status, buf |-> <<>>, out |-> Append(v.out, line)]
    <3>1. v.buf = line \o <<0, 0>>
      BY <1>5, <1>7, Zenon
    <3> QED
      BY <1>2, <1>3, <1>5, <3>1, LineDrained, ZenonT(60)
  <2> QED
    BY <1>5, <2>1
<1> QED
  BY <1>4, <1>6 DEF line, Sending

(* The lines with data, and what they are of the answer so far *)
DataOf(out) == {i \in DOMAIN out : out[i][1] = -1}

Lined(out) == Picked(out, DataOf(out))

Numbered(n) == [j \in 1 .. n |-> <<-1, j>>]

(* A line more that is data, or is not *)
LEMMA LinesGrow ==
  ASSUME NEW out \in Seq(Lines), NEW line \in Lines
  PROVE  Lined(Append(out, line)) = IF line[1] = -1 THEN Append(Lined(out), line) ELSE Lined(out)
<1> DEFINE u == Append(out, line)
           n == Len(out) + 1
<1>1. /\ DOMAIN out = 1 .. n - 1 /\ n \in Nat /\ DOMAIN u = 1 .. n
      /\ u[n] = line /\ \A i \in 1 .. n - 1 : u[i] = out[i]
  OBVIOUS
<1>2. DataOf(out) \in SUBSET DOMAIN out
  BY DEF DataOf
<1> HIDE DEF u
<1>3. CASE line[1] = -1
  <2>1. DataOf(u) = DataOf(out) \cup {n}
    BY <1>1, <1>3 DEF DataOf
  <2>2. Picked(u, DataOf(out) \cup {n}) = Append(Picked(out, DataOf(out)), line)
    BY <1>2, PickedWithLast DEF u
  <2> QED
    BY <1>3, <2>1, <2>2 DEF Lined, u
<1>4. CASE line[1] # -1
  <2>1. DataOf(u) = DataOf(out)
    BY <1>1, <1>4 DEF DataOf
  <2>2. Picked(u, DataOf(out)) = Picked(out, DataOf(out))
    BY <1>2, PickedBefore DEF u
  <2> QED
    BY <1>4, <2>1, <2>2 DEF Lined, u
<1> QED
  BY <1>3, <1>4

(* The lines of one piece more *)
LEMMA NumberedOn ==
  ASSUME NEW n \in Nat
  PROVE  Numbered(n) \in Seq(Lines) /\ Numbered(n + 1) = Append(Numbered(n), <<-1, n + 1>>)
<1>1. \A j \in 1 .. n + 1 : <<-1, j>> \in Lines
  BY DEF Lines
<1> DEFINE l(j) == <<-1, j>>
<1>2. \A j \in 1 .. n + 1 : l(j) \in Lines
  BY <1>1
<1> HIDE DEF l
<1>3. [j \in 1 .. n |-> l(j)] \in Seq(Lines)
  BY <1>2
<1>4. [j \in 1 .. n + 1 |-> l(j)] = Append([j \in 1 .. n |-> l(j)], l(n + 1))
  BY <1>2, <1>3
<1> QED
  BY <1>3, <1>4 DEF l, Numbered

(* Between two writes of the chat stream the buffer is empty, and the lines of *)
(* data that went out are those of the pieces so far                           *)
ProxyInv ==
  /\ Said /\ pings \in Nat
  /\ ended = "refused" => proxy.out = <<<<-4, 0>>>>
  /\ ended # "refused" =>
       /\ proxy \in Writers /\ proxy.status \in {0, 200} /\ proxy.buf = <<>>
       /\ Lined(proxy.out) = IF Api!Finalized THEN Append(Numbered(Len(said)), <<-1, -3>>)
                             ELSE Numbered(Len(said))
  /\ ended = "no" /\ said = <<>> /\ pings = 0 =>
       proxy = [status |-> 0, buf |-> <<>>, out |-> <<>>]

(* A writer whose client got one more line *)
LEMMA ProxySends ==
  ASSUME NEW o \in Seq(Lines), NEW line \in Lines
  PROVE  LET w == Sending(<<>>, Append(o, line))
         IN  w \in Writers /\ w.status \in {0, 200} /\ w.buf = <<>> /\ w.out = Append(o, line)
<1> DEFINE u == Append(o, line)
           b == <<>>
<1>1. b \in Lines /\ u \in Seq(Lines)
  <2>1. <<>> \in Lines
    BY DEF Lines
  <2> QED
    BY <2>1
<1> HIDE DEF u, b
<1>2. /\ Sending(b, u) \in Writers /\ Sending(b, u).status = 200
      /\ Sending(b, u).buf = b /\ Sending(b, u).out = u
  BY <1>1, WriterSends
<1> QED
  BY <1>2 DEF u, b

(* Every step keeps the lines in order *)
LEMMA ProxyStep ==
  ASSUME ProxyInv, [Api!Next]_Api!vars
  PROVE  ProxyInv'
<1> USE DEF Api!Finalized
<1>0. ASSUME NEW x \in Int
      PROVE  <<-1, x>> \in Lines /\ <<-1, x>>[1] = -1 /\ <<-2>> \in Lines /\ <<-2>>[1] # -1
  BY DEF Lines
<1>1. CASE Api!Piece
  <2> DEFINE n == Len(said)
  <2>1. /\ ended = "no" /\ ended' = "no" /\ pings' = pings /\ Said' /\ Len(said') = n + 1 /\ n \in Nat
        /\ proxy' = Api!WriteLine(proxy, n + 1) /\ said' # <<>>
    BY <1>1 DEF Api!Piece, Api!Open, ProxyInv, Said
  <2>2. proxy \in Writers /\ proxy.out \in Seq(Lines) /\ Lined(proxy.out) = Numbered(n)
        /\ proxy.status \in {0, 200} /\ proxy.buf = <<>>
    BY <2>1 DEF ProxyInv, Writers
  <2>3. proxy' = Sending(<<>>, Append(proxy.out, <<-1, n + 1>>))
    BY <2>1, <2>2, LineWritten
  <2>4. /\ proxy' \in Writers /\ proxy'.status \in {0, 200} /\ proxy'.buf = <<>>
        /\ proxy'.out = Append(proxy.out, <<-1, n + 1>>)
    BY <1>0, <2>1, <2>2, <2>3, ProxySends
  <2>5. Lined(proxy'.out) = Numbered(n + 1)
    <3> DEFINE line == <<-1, n + 1>>
    <3>0. n + 1 \in Int
      BY <2>1
    <3>1. line \in Lines /\ line[1] = -1 /\ Numbered(n + 1) = Append(Numbered(n), line)
      <4>1. line \in Lines /\ line[1] = -1
        BY <1>0, <3>0
      <4>2. Numbered(n + 1) = Append(Numbered(n), line)
        BY <2>1, NumberedOn
      <4> QED
        BY <4>1, <4>2
    <3> HIDE DEF line
    <3>2. Lined(Append(proxy.out, line)) = Append(Lined(proxy.out), line)
      BY <2>2, <3>1, LinesGrow
    <3> QED
      BY <2>2, <2>4, <3>1, <3>2 DEF line
  <2> QED
    BY <2>1, <2>4, <2>5 DEF ProxyInv
<1>2. CASE Api!KeepAlive
  <2>1. /\ ended = "no" /\ ended' = "no" /\ pings' = pings + 1 /\ said' = said /\ Said'
        /\ proxy' = Api!Write(proxy, <<-2, 0, 0>>)
    BY <1>2 DEF Api!KeepAlive, Api!Open, Api!Comment, Api!Newline, ProxyInv, Said
  <2>2. proxy \in Writers /\ proxy.out \in Seq(Lines) /\ Lined(proxy.out) = Numbered(Len(said))
        /\ proxy.status \in {0, 200} /\ proxy.buf = <<>>
    BY <2>1 DEF ProxyInv, Writers
  <2>3. proxy' = Sending(<<>>, Append(proxy.out, <<-2>>))
    BY <2>1, <2>2, CommentWritten
  <2> DEFINE line == <<-2>>
  <2>0. line \in Lines /\ line[1] # -1
    BY DEF Lines
  <2> HIDE DEF line
  <2>4. /\ proxy' \in Writers /\ proxy'.status \in {0, 200} /\ proxy'.buf = <<>>
        /\ proxy'.out = Append(proxy.out, line)
    BY <2>0, <2>2, <2>3, ProxySends DEF line
  <2>5. Lined(proxy'.out) = Numbered(Len(said))
    BY <2>0, <2>2, <2>4, LinesGrow
  <2>6. pings' \in Nat /\ pings' # 0
    BY <2>1 DEF ProxyInv
  <2> QED
    BY <2>1, <2>4, <2>5, <2>6 DEF ProxyInv
<1>3. CASE Api!Finish
  <2>1. /\ ended = "no" /\ ended' \in {"end", "error", "broken"} /\ pings' = pings /\ said' = said /\ Said'
        /\ proxy' = Api!WriteLine(proxy, -3)
    BY <1>3 DEF Api!Finish, Api!Stop, ProxyInv, Said
  <2>2. proxy \in Writers /\ proxy.out \in Seq(Lines) /\ Lined(proxy.out) = Numbered(Len(said))
        /\ proxy.status \in {0, 200} /\ proxy.buf = <<>>
    BY <2>1 DEF ProxyInv, Writers
  <2>3. proxy' = Sending(<<>>, Append(proxy.out, <<-1, -3>>))
    BY <2>1, <2>2, LineWritten
  <2>4. /\ proxy' \in Writers /\ proxy'.status \in {0, 200} /\ proxy'.buf = <<>>
        /\ proxy'.out = Append(proxy.out, <<-1, -3>>)
    BY <1>0, <2>2, <2>3, ProxySends
  <2>5. Lined(proxy'.out) = Append(Numbered(Len(said)), <<-1, -3>>)
    BY <1>0, <2>2, <2>4, LinesGrow
  <2> QED
    BY <2>1, <2>4, <2>5 DEF ProxyInv
<1>4. CASE Api!Gone
  BY <1>4 DEF Api!Gone, ProxyInv, Said
<1>5. CASE Api!Refused
  <2>1. /\ ended = "no" /\ ended' = "refused" /\ said' = said /\ pings' = pings /\ Said'
        /\ proxy = [status |-> 0, buf |-> <<>>, out |-> <<>>]
        /\ proxy' = Api!Write(Api!WriteHeader(proxy, 429), <<-4, 0>>)
    BY <1>5 DEF Api!Refused, Api!Failed, Api!Newline, ProxyInv, Said
  <2>2. Api!WriteHeader(proxy, 429) = [status |-> 429, buf |-> <<>>, out |-> <<>>]
    BY <2>1 DEF Api!WriteHeader
  <2>3. proxy'.out = Append(<<>>, <<-4, 0>>)
    <3> DEFINE w == [status |-> 429, buf |-> <<>>, out |-> <<>>]
               sent == [w EXCEPT !.status = IF @ = 0 THEN 200 ELSE @]
    <3>1. sent.status = 429 /\ [sent EXCEPT !.out = Append(@, <<-4, 0>>)].out = Append(<<>>, <<-4, 0>>)
      OBVIOUS
    <3>2. Api!Write(w, <<-4, 0>>) = IF sent.status # 200 THEN [sent EXCEPT !.out = Append(@, <<-4, 0>>)]
                                    ELSE Api!Drained([sent EXCEPT !.buf = @ \o <<-4, 0>>])
      BY Zenon DEF Api!Write
    <3> HIDE DEF sent, w
    <3>3. Api!Write(w, <<-4, 0>>).out = Append(<<>>, <<-4, 0>>)
      <4>1. sent.status # 200
        BY <3>1
      <4>2. Api!Write(w, <<-4, 0>>) = [sent EXCEPT !.out = Append(@, <<-4, 0>>)]
        BY <3>2, <4>1, Zenon
      <4> QED
        BY <3>1, <4>2, Zenon
    <3> QED
      BY <2>1, <2>2, <3>3 DEF w
  <2>4. Append(<<>>, <<-4, 0>>) = <<<<-4, 0>>>>
    OBVIOUS
  <2> QED
    BY <2>1, <2>3, <2>4 DEF ProxyInv
<1>6. CASE UNCHANGED Api!vars
  BY <1>6 DEF Api!vars, ProxyInv, Said
<1> QED
  BY <1>1, <1>2, <1>3, <1>4, <1>5, <1>6 DEF Api!Next

(* They are at the start *)
LEMMA ProxyStarts ==
  ASSUME Api!Init
  PROVE  ProxyInv
<1>1. /\ said = <<>> /\ ended = "no" /\ pings = 0
      /\ proxy = [status |-> 0, buf |-> <<>>, out |-> <<>>]
  BY DEF Api!Init
<1>2. proxy \in Writers /\ proxy.status = 0 /\ proxy.buf = <<>> /\ proxy.out = <<>>
  BY <1>1 DEF Writers, Lines
<1>3. Lined(<<>>) = <<>>
  <2>1. DataOf(<<>>) = {}
    BY DEF DataOf
  <2>2. Cardinality({}) = 0
    BY FS_EmptySet
  <2> QED
    BY <2>1, <2>2 DEF Lined, Picked
<1>4. Len(said) = 0 /\ Numbered(0) = <<>>
  BY <1>1 DEF Numbered
<1> QED
  BY <1>1, <1>2, <1>3, <1>4 DEF ProxyInv, Said, Api!Finalized

(***************************************************************************)
(* The lines of the chat stream reach the translator of the Claude and     *)
(* Gemini responses whole, once and in order, for answers of any length;   *)
(* an error before the stream reaches the client as it is.                 *)
(***************************************************************************)
THEOREM LinesInOrder == Spec => []LinesTranslated
<1>1. ProxyInv => LinesTranslated
  <2> SUFFICES ASSUME ProxyInv PROVE Api!LinesTranslated
    BY DEF LinesTranslated
  <2> DEFINE found == Api!Where(proxy.out, LAMBDA l : l[1] = Api!Data)
             lines == [j \in DOMAIN said |-> <<Api!Data, j>>]
  <2>1. found = Lined(proxy.out)
    BY StreamsPicked DEF Api!Where, Lined, DataOf, Api!Data
  <2>2. lines = Numbered(Len(said))
    BY DEF ProxyInv, Said, Numbered, Api!Data
  <2> HIDE DEF found, lines
  <2>3. ended # "refused" =>
          found = IF Api!Finalized THEN Append(lines, <<-1, -3>>) ELSE lines
    BY <2>1, <2>2 DEF ProxyInv
  <2>4. Api!LinesTranslated =
          IF ended = "refused" THEN proxy.out = <<<<-4, 0>>>>
          ELSE found = IF Api!Finalized THEN Append(lines, <<-1, -3>>) ELSE lines
    BY DEF Api!LinesTranslated, Api!Failed, Api!Newline, Api!Data, Api!Stop, found, lines
  <2> QED
    BY <2>3, <2>4 DEF ProxyInv
<1> QED
  BY <1>1, ProxyStarts, ProxyStep, StoresApart, PTL DEF Api!Spec

----------------------------------------------------------------------------
(* The items of a streamed response *)

ItemEvents ==
  [t : {"created", "item added", "part added", "thinking", "text", "text done", "part done", "call", "item done"},
   out : Int, of : Seq(Int)]

Adds(e) == e.t = "item added"
Finishes(e) == e.t = "item done"

(* An event's item has been added, not after it, and is done, not before it, *)
(* unless it is open                                                         *)
WellPlaced(s, k, open) ==
  /\ \E a \in 1 .. Len(s) : s[a].out = s[k].out /\ Adds(s[a])
  /\ \A j \in 1 .. Len(s) : s[j].out = s[k].out =>
       (Adds(s[j]) => j <= k) /\ (Finishes(s[j]) => k <= j)
  /\ IF s[k].out \in open THEN ~Finishes(s[k])
     ELSE \E d \in 1 .. Len(s) : s[d].out = s[k].out /\ Finishes(s[d])

(* The items up to a number have been added, and all but the open ones are done *)
Items(s, open, next) ==
  /\ s \in Seq(ItemEvents) /\ next \in Nat /\ open \in SUBSET Int
  /\ \A i \in open : /\ 0 <= i /\ i < next
                     /\ \E a \in 1 .. Len(s) : s[a].out = i /\ Adds(s[a])
  /\ \A k \in 1 .. Len(s) : s[k].out # -1 =>
       0 <= s[k].out /\ s[k].out < next /\ WellPlaced(s, k, open)

(* No event does both *)
LEMMA AddsOrFinishes == ASSUME NEW e PROVE ~(Adds(e) /\ Finishes(e))
BY DEF Adds, Finishes

(* One event more *)
LEMMA OneItemMore ==
  ASSUME NEW s \in Seq(ItemEvents), NEW e \in ItemEvents
  PROVE  /\ Append(s, e) \in Seq(ItemEvents) /\ Len(s) \in Nat
         /\ Len(Append(s, e)) = Len(s) + 1 /\ Append(s, e)[Len(s) + 1] = e
         /\ \A k \in 1 .. Len(s) : Append(s, e)[k] = s[k]
         /\ e.out \in Int /\ \A k \in 1 .. Len(s) : s[k].out \in Int
<1>1. \A k \in 1 .. Len(s) : s[k] \in ItemEvents
  OBVIOUS
<1>2. e.out \in Int /\ \A k \in 1 .. Len(s) : s[k].out \in Int
  BY <1>1 DEF ItemEvents
<1> QED
  BY <1>2

(* What belongs to no item changes nothing *)
LEMMA BetweenItems ==
  ASSUME NEW s, NEW open, NEW next, Items(s, open, next), NEW e \in ItemEvents, e.out = -1
  PROVE  Items(Append(s, e), open, next)
<1> DEFINE u == Append(s, e)
           n == Len(s)
<1>1. /\ u \in Seq(ItemEvents) /\ n \in Nat /\ Len(u) = n + 1 /\ Len(s) = n
      /\ u[n + 1] = e /\ \A k \in 1 .. n : u[k] = s[k]
  BY OneItemMore DEF Items
<1> HIDE DEF u, n
<1>2. ASSUME NEW k \in 1 .. Len(u), u[k].out # -1
      PROVE  0 <= u[k].out /\ u[k].out < next /\ WellPlaced(u, k, open)
  <2>1. k \in 1 .. n /\ u[k] = s[k]
    BY <1>1, <1>2
  <2>2. 0 <= s[k].out /\ s[k].out < next /\ WellPlaced(s, k, open)
    BY <1>1, <1>2, <2>1 DEF Items
  <2>3. \A j \in 1 .. n : j \in 1 .. Len(u) /\ u[j] = s[j]
    BY <1>1
  <2>4. \E a \in 1 .. Len(u) : u[a].out = u[k].out /\ Adds(u[a])
    <3>1. PICK a \in 1 .. n : s[a].out = s[k].out /\ Adds(s[a])
      BY <1>1, <2>2 DEF WellPlaced
    <3> QED
      BY <2>1, <2>3, <3>1
  <2>5. ASSUME NEW j \in 1 .. Len(u), u[j].out = u[k].out
        PROVE  (Adds(u[j]) => j <= k) /\ (Finishes(u[j]) => k <= j)
    <3>1. j \in 1 .. n
      <4>1. j # n + 1
        BY <1>1, <1>2, <2>5
      <4> QED
        BY <1>1, <4>1
    <3>2. s[j].out = s[k].out /\ u[j] = s[j]
      BY <2>1, <2>3, <2>5, <3>1
    <3> QED
      BY <1>1, <2>2, <3>1, <3>2 DEF WellPlaced
  <2>6. IF u[k].out \in open THEN ~Finishes(u[k])
        ELSE \E d \in 1 .. Len(u) : u[d].out = u[k].out /\ Finishes(u[d])
    <3>1. CASE s[k].out \in open
      BY <2>1, <2>2, <3>1 DEF WellPlaced
    <3>2. CASE s[k].out \notin open
      <4>1. PICK d \in 1 .. n : s[d].out = s[k].out /\ Finishes(s[d])
        BY <1>1, <2>2, <3>2 DEF WellPlaced
      <4> QED
        BY <2>1, <2>3, <3>2, <4>1
    <3> QED
      BY <3>1, <3>2
  <2>7. WellPlaced(u, k, open)
    BY <2>4, <2>5, <2>6 DEF WellPlaced
  <2> QED
    BY <2>1, <2>2, <2>7
<1>3. ASSUME NEW i \in open
      PROVE  /\ 0 <= i /\ i < next
             /\ \E a \in 1 .. Len(u) : u[a].out = i /\ Adds(u[a])
  <2>1. PICK a \in 1 .. n : s[a].out = i /\ Adds(s[a])
    BY <1>1 DEF Items
  <2>2. a \in 1 .. Len(u) /\ u[a] = s[a]
    BY <1>1
  <2> QED
    BY <2>1, <2>2 DEF Items
<1> QED
  BY <1>1, <1>2, <1>3 DEF Items, u

(* The next item is added *)
LEMMA ItemAdded ==
  ASSUME NEW s, NEW open, NEW next, Items(s, open, next),
         NEW e \in ItemEvents, e.out = next, Adds(e)
  PROVE  Items(Append(s, e), open \cup {next}, next + 1)
<1> DEFINE u == Append(s, e)
           n == Len(s)
<1>1. /\ u \in Seq(ItemEvents) /\ n \in Nat /\ Len(u) = n + 1 /\ Len(s) = n
      /\ u[n + 1] = e /\ \A k \in 1 .. n : u[k] = s[k]
  BY OneItemMore DEF Items
<1>2. next \in Nat /\ open \in SUBSET Int /\ \A k \in 1 .. n : s[k].out \in Int /\ s[k].out < next
  <2>1. \A k \in 1 .. n : s[k].out \in Int
    BY OneItemMore DEF Items
  <2> QED
    BY <2>1 DEF Items
<1> HIDE DEF u, n
<1>3. ASSUME NEW k \in 1 .. n, u[k].out # -1
      PROVE  0 <= u[k].out /\ u[k].out < next + 1 /\ WellPlaced(u, k, open \cup {next})
  <2>1. u[k] = s[k] /\ u[k].out # e.out
    BY <1>1, <1>2
  <2>2. 0 <= s[k].out /\ s[k].out < next /\ WellPlaced(s, k, open)
    BY <1>1, <1>3, <2>1 DEF Items
  <2>3. \A j \in 1 .. n : j \in 1 .. Len(u) /\ u[j] = s[j]
    BY <1>1
  <2>4. \E a \in 1 .. Len(u) : u[a].out = u[k].out /\ Adds(u[a])
    <3>1. PICK a \in 1 .. n : s[a].out = s[k].out /\ Adds(s[a])
      BY <1>1, <2>2 DEF WellPlaced
    <3> QED
      BY <2>1, <2>3, <3>1
  <2>5. ASSUME NEW j \in 1 .. Len(u), u[j].out = u[k].out
        PROVE  (Adds(u[j]) => j <= k) /\ (Finishes(u[j]) => k <= j)
    <3>1. j \in 1 .. n
      <4>1. j # n + 1
        BY <1>1, <2>1, <2>5
      <4> QED
        BY <1>1, <4>1
    <3>2. s[j].out = s[k].out /\ u[j] = s[j]
      BY <2>1, <2>3, <2>5, <3>1
    <3> QED
      BY <1>1, <2>2, <3>1, <3>2 DEF WellPlaced
  <2>6. IF u[k].out \in open \cup {next} THEN ~Finishes(u[k])
        ELSE \E d \in 1 .. Len(u) : u[d].out = u[k].out /\ Finishes(u[d])
    <3>1. CASE s[k].out \in open
      BY <2>1, <2>2, <3>1 DEF WellPlaced
    <3>2. CASE s[k].out \notin open
      <4>1. PICK d \in 1 .. n : s[d].out = s[k].out /\ Finishes(s[d])
        BY <1>1, <2>2, <3>2 DEF WellPlaced
      <4>2. u[k].out \notin open \cup {next}
        BY <2>1, <3>2
      <4> QED
        BY <2>1, <2>3, <4>1, <4>2
    <3> QED
      BY <3>1, <3>2
  <2>7. WellPlaced(u, k, open \cup {next})
    BY <2>4, <2>5, <2>6 DEF WellPlaced
  <2> QED
    BY <1>2, <2>1, <2>2, <2>7
<1>4. WellPlaced(u, n + 1, open \cup {next})
  <2>1. \A j \in 1 .. n : u[j].out # e.out
    BY <1>1, <1>2
  <2>2. n + 1 \in 1 .. Len(u) /\ \A j \in 1 .. Len(u) : u[j].out = e.out => j = n + 1
    BY <1>1, <2>1
  <2> QED
    BY <1>1, <2>2, AddsOrFinishes DEF WellPlaced
<1>5. \A k \in 1 .. Len(u) : u[k].out # -1 =>
        0 <= u[k].out /\ u[k].out < next + 1 /\ WellPlaced(u, k, open \cup {next})
  <2>1. \A k \in 1 .. Len(u) : k \in 1 .. n \/ k = n + 1
    BY <1>1
  <2> QED
    <3>1. u[n + 1].out = next /\ 0 <= next /\ next < next + 1
      BY <1>1, <1>2
    <3> QED
      BY <1>3, <1>4, <2>1, <3>1
<1>6. ASSUME NEW i \in open \cup {next}
      PROVE  /\ 0 <= i /\ i < next + 1
             /\ \E a \in 1 .. Len(u) : u[a].out = i /\ Adds(u[a])
  <2>1. CASE i = next
    <3>1. n + 1 \in 1 .. Len(u)
      BY <1>1
    <3> QED
      BY <1>1, <1>2, <2>1, <3>1
  <2>2. CASE i \in open
    <3>1. 0 <= i /\ i < next /\ i \in Int
      BY <1>2, <2>2 DEF Items
    <3>2. PICK a \in 1 .. n : s[a].out = i /\ Adds(s[a])
      BY <1>1, <2>2 DEF Items
    <3>3. a \in 1 .. Len(u) /\ u[a] = s[a]
      BY <1>1
    <3> QED
      BY <1>2, <3>1, <3>2, <3>3
  <2> QED
    BY <2>1, <2>2
<1>7. open \cup {next} \in SUBSET Int /\ next + 1 \in Nat
  BY <1>2
<1> QED
  BY <1>1, <1>5, <1>6, <1>7 DEF Items, u

(* An open item is used, or it is done *)
LEMMA ItemGoesOn ==
  ASSUME NEW s, NEW open, NEW next, Items(s, open, next),
         NEW e \in ItemEvents, e.out \in open, ~Adds(e)
  PROVE  Items(Append(s, e), IF Finishes(e) THEN open \ {e.out} ELSE open, next)
<1> DEFINE u == Append(s, e)
           n == Len(s)
           o == IF Finishes(e) THEN open \ {e.out} ELSE open
<1>1. /\ u \in Seq(ItemEvents) /\ n \in Nat /\ Len(u) = n + 1 /\ Len(s) = n
      /\ u[n + 1] = e /\ \A k \in 1 .. n : u[k] = s[k]
  BY OneItemMore DEF Items
<1>2. /\ next \in Nat /\ open \in SUBSET Int /\ e.out \in Int /\ 0 <= e.out /\ e.out < next
      /\ o \in SUBSET open /\ (e.out \in o <=> ~Finishes(e)) /\ \A i \in open : i # e.out => i \in o
  BY OneItemMore DEF Items
<1>3. PICK b \in 1 .. n : s[b].out = e.out /\ Adds(s[b])
  BY DEF Items
<1> HIDE DEF u, n, o
<1>4. n + 1 \in 1 .. Len(u) /\ \A k \in 1 .. Len(u) : k <= n + 1 /\ (k \in 1 .. n \/ k = n + 1)
  BY <1>1
<1>5. ASSUME NEW k \in 1 .. n, u[k].out # -1
      PROVE  0 <= u[k].out /\ u[k].out < next /\ WellPlaced(u, k, o)
  <2>1. u[k] = s[k]
    BY <1>1
  <2>2. 0 <= s[k].out /\ s[k].out < next /\ WellPlaced(s, k, open)
    BY <1>1, <1>5, <2>1 DEF Items
  <2>3. \E a \in 1 .. Len(u) : u[a].out = u[k].out /\ Adds(u[a])
    <3>1. PICK a \in 1 .. n : s[a].out = s[k].out /\ Adds(s[a])
      BY <1>1, <2>2 DEF WellPlaced
    <3> QED
      BY <1>1, <2>1, <3>1
  <2>4. ASSUME NEW j \in 1 .. Len(u), u[j].out = u[k].out
        PROVE  (Adds(u[j]) => j <= k) /\ (Finishes(u[j]) => k <= j)
    <3>1. CASE j = n + 1
      BY <1>1, <3>1
    <3>2. CASE j \in 1 .. n
      BY <1>1, <2>1, <2>2, <2>4, <3>2 DEF WellPlaced
    <3> QED
      BY <1>4, <3>1, <3>2
  <2>5. IF u[k].out \in o THEN ~Finishes(u[k])
        ELSE \E d \in 1 .. Len(u) : u[d].out = u[k].out /\ Finishes(u[d])
    <3>1. CASE u[k].out = e.out
      <4>1. ~Finishes(s[k])
        BY <2>1, <2>2, <3>1 DEF WellPlaced
      <4> QED
        BY <1>1, <1>2, <1>4, <2>1, <3>1, <4>1
    <3>2. CASE u[k].out # e.out /\ u[k].out \in open
      BY <1>2, <2>1, <2>2, <3>2 DEF WellPlaced
    <3>3. CASE u[k].out # e.out /\ u[k].out \notin open
      <4>1. PICK d \in 1 .. n : s[d].out = s[k].out /\ Finishes(s[d])
        BY <1>1, <2>1, <2>2, <3>3 DEF WellPlaced
      <4>2. d \in 1 .. Len(u) /\ u[d] = s[d]
        BY <1>1
      <4>3. u[k].out \notin o
        BY <1>2, <3>3
      <4> QED
        BY <2>1, <4>1, <4>2, <4>3
    <3> QED
      BY <3>1, <3>2, <3>3
  <2> QED
    BY <2>1, <2>2, <2>3, <2>4, <2>5 DEF WellPlaced
<1>6. WellPlaced(u, n + 1, o)
  <2>1. \E a \in 1 .. Len(u) : u[a].out = e.out /\ Adds(u[a])
    BY <1>1, <1>3
  <2>2. ASSUME NEW j \in 1 .. Len(u), u[j].out = e.out, Finishes(u[j])
        PROVE  n + 1 <= j
    <3>1. ASSUME j \in 1 .. n
          PROVE  FALSE
      <4>1. s[j].out = e.out /\ Finishes(s[j]) /\ e.out # -1
        BY <1>1, <1>2, <2>2, <3>1
      <4>2. WellPlaced(s, j, open)
        BY <1>1, <3>1, <4>1 DEF Items
      <4> QED
        BY <4>1, <4>2 DEF WellPlaced
    <3> QED
      BY <1>4, <3>1
  <2>3. IF e.out \in o THEN ~Finishes(e)
        ELSE \E d \in 1 .. Len(u) : u[d].out = e.out /\ Finishes(u[d])
    BY <1>1, <1>2, <1>4
  <2> QED
    BY <1>1, <1>4, <2>1, <2>2, <2>3 DEF WellPlaced
<1>7. \A k \in 1 .. Len(u) : u[k].out # -1 =>
        0 <= u[k].out /\ u[k].out < next /\ WellPlaced(u, k, o)
  BY <1>1, <1>2, <1>4, <1>5, <1>6
<1>8. \A i \in o : /\ 0 <= i /\ i < next
                   /\ \E a \in 1 .. Len(u) : u[a].out = i /\ Adds(u[a])
  BY <1>1, <1>2 DEF Items
<1> QED
  BY <1>1, <1>2, <1>7, <1>8 DEF Items, u, o

(* Items that are added, used and done at once, from a number on *)
Triples(q, next) ==
  /\ q \in Seq(Seq(ItemEvents))
  /\ \A i \in 1 .. Len(q) :
       /\ Len(q[i]) = 3 /\ \A p \in 1 .. 3 : q[i][p].out = next + i - 1
       /\ Adds(q[i][1]) /\ ~Adds(q[i][2]) /\ ~Finishes(q[i][2]) /\ Finishes(q[i][3])

(* They leave the open items open *)
LEMMA ItemsAtOnce ==
  ASSUME NEW s, NEW open, NEW next, Items(s, open, next), NEW q, Triples(q, next)
  PROVE  Items(s \o Api!Joined(q), open, next + Len(q))
<1> DEFINE n == Len(s)
           m == Len(q)
           w == Api!Joined(q)
           u == s \o w
<1>1. s \in Seq(ItemEvents) /\ n \in Nat /\ m \in Nat /\ next \in Nat /\ open \in SUBSET Int
  BY DEF Items, Triples
<1>2. /\ w \in Seq(ItemEvents) /\ Len(w) = 3 * m
      /\ \A i \in 1 .. m : w[3 * i - 2] = q[i][1] /\ w[3 * i - 1] = q[i][2] /\ w[3 * i] = q[i][3]
  BY JoinedTriples DEF Triples
<1>3. /\ u \in Seq(ItemEvents) /\ Len(u) = n + 3 * m
      /\ (\A k \in 1 .. n : u[k] = s[k]) /\ \A k \in 1 .. 3 * m : u[n + k] = w[k]
  <2> HIDE DEF w
  <2>1. s \in Seq(ItemEvents) /\ w \in Seq(ItemEvents) /\ Len(s) = n /\ Len(w) = 3 * m
    BY <1>1, <1>2
  <2> HIDE DEF n, m
  <2>2. u \in Seq(ItemEvents)
    BY <2>1, Continued
  <2>3. Len(u) = Len(s) + Len(w)
    BY <2>1, Continued
  <2>4. \A k \in 1 .. Len(s) : u[k] = s[k]
    BY <2>1, Continued
  <2>5. \A k \in 1 .. Len(w) : u[Len(s) + k] = w[k]
    BY <2>1, Continued
  <2> QED
    BY <2>1, <2>2, <2>3, <2>4, <2>5
<1>4. Len(s) = n /\ Len(q) = m
  OBVIOUS
<1> HIDE DEF n, m, w, u
<1>5. ASSUME NEW i \in 1 .. m
      PROVE  /\ u[n + 3 * i - 2].out = next + i - 1 /\ u[n + 3 * i - 1].out = next + i - 1
             /\ u[n + 3 * i].out = next + i - 1
             /\ Adds(u[n + 3 * i - 2]) /\ ~Adds(u[n + 3 * i - 1]) /\ ~Adds(u[n + 3 * i])
             /\ ~Finishes(u[n + 3 * i - 2]) /\ ~Finishes(u[n + 3 * i - 1]) /\ Finishes(u[n + 3 * i])
  <2>1. 3 * i - 2 \in 1 .. 3 * m /\ 3 * i - 1 \in 1 .. 3 * m /\ 3 * i \in 1 .. 3 * m
    BY <1>1
  <2>2. u[n + (3 * i - 2)] = q[i][1] /\ u[n + (3 * i - 1)] = q[i][2] /\ u[n + 3 * i] = q[i][3]
    BY <1>2, <1>3, <2>1
  <2>3. n + (3 * i - 2) = n + 3 * i - 2 /\ n + (3 * i - 1) = n + 3 * i - 1
    BY <1>1
  <2>4. /\ 1 \in 1 .. 3 /\ 2 \in 1 .. 3 /\ 3 \in 1 .. 3
        /\ \A p \in 1 .. 3 : q[i][p].out = next + i - 1
        /\ Adds(q[i][1]) /\ ~Adds(q[i][2]) /\ ~Finishes(q[i][2]) /\ Finishes(q[i][3])
    BY <1>4 DEF Triples
  <2>5. ~Finishes(q[i][1]) /\ ~Adds(q[i][3])
    BY <2>4, AddsOrFinishes
  <2> QED
    BY <2>2, <2>3, <2>4, <2>5
<1>6. ASSUME NEW k \in 1 .. n + 3 * m, k > n
      PROVE  \E i \in 1 .. m : k \in {n + 3 * i - 2, n + 3 * i - 1, n + 3 * i}
  <2>1. (k - n + 2) \div 3 \in 1 .. m
    BY <1>1, <1>6
  <2>2. k \in {n + 3 * ((k - n + 2) \div 3) - 2, n + 3 * ((k - n + 2) \div 3) - 1, n + 3 * ((k - n + 2) \div 3)}
    BY <1>1, <1>6
  <2> QED
    BY <2>1, <2>2
<1>7. \A k \in 1 .. n : s[k].out \in Int /\ s[k].out < next
  <2>1. \A k \in 1 .. n : s[k] \in ItemEvents
    BY <1>1, <1>4
  <2>2. \A k \in 1 .. n : s[k].out \in Int
    BY <2>1 DEF ItemEvents
  <2> QED
    BY <1>1, <1>4, <2>2 DEF Items
<1>8. ASSUME NEW k \in 1 .. n + 3 * m, k > n
      PROVE  u[k].out \in Int /\ u[k].out >= next /\ u[k].out < next + m
  <2>1. PICK i \in 1 .. m : k \in {n + 3 * i - 2, n + 3 * i - 1, n + 3 * i}
    BY <1>6, <1>8
  <2>2. u[k].out = next + i - 1
    BY <1>5, <2>1
  <2> QED
    BY <1>1, <2>2
<1>9. ASSUME NEW k \in 1 .. n, u[k].out # -1
      PROVE  0 <= u[k].out /\ u[k].out < next + m /\ WellPlaced(u, k, open)
  <2>1. u[k] = s[k] /\ 0 <= s[k].out /\ s[k].out < next /\ s[k].out \in Int /\ WellPlaced(s, k, open)
    BY <1>3, <1>4, <1>7, <1>9 DEF Items
  <2>2. ASSUME NEW j \in 1 .. Len(u), u[j].out = u[k].out
        PROVE  j \in 1 .. n /\ u[j] = s[j]
    <3>1. ASSUME j > n
          PROVE  FALSE
      <4>1. j \in 1 .. n + 3 * m
        BY <1>3
      <4>2. u[j].out \in Int /\ u[j].out >= next
        BY <1>8, <3>1, <4>1
      <4> QED
        BY <1>1, <2>1, <2>2, <4>2
    <3> QED
      BY <1>1, <1>3, <3>1
  <2>3. \A j \in 1 .. n : j \in 1 .. Len(u) /\ u[j] = s[j]
    BY <1>1, <1>3
  <2>4. \E a \in 1 .. Len(u) : u[a].out = u[k].out /\ Adds(u[a])
    <3>1. PICK a \in 1 .. n : s[a].out = s[k].out /\ Adds(s[a])
      BY <1>4, <2>1 DEF WellPlaced
    <3> QED
      BY <2>1, <2>3, <3>1
  <2>5. \A j \in 1 .. Len(u) : u[j].out = u[k].out => (Adds(u[j]) => j <= k) /\ (Finishes(u[j]) => k <= j)
    BY <1>4, <2>1, <2>2 DEF WellPlaced
  <2>6. IF u[k].out \in open THEN ~Finishes(u[k])
        ELSE \E d \in 1 .. Len(u) : u[d].out = u[k].out /\ Finishes(u[d])
    <3>1. CASE u[k].out \in open
      BY <2>1, <3>1 DEF WellPlaced
    <3>2. CASE u[k].out \notin open
      <4>1. PICK d \in 1 .. n : s[d].out = s[k].out /\ Finishes(s[d])
        BY <1>4, <2>1, <3>2 DEF WellPlaced
      <4> QED
        BY <2>1, <2>3, <3>2, <4>1
    <3> QED
      BY <3>1, <3>2
  <2>7. s[k].out < next + m
    BY <1>1, <2>1
  <2> QED
    BY <2>1, <2>4, <2>5, <2>6, <2>7 DEF WellPlaced
<1>10. ASSUME NEW k \in 1 .. n + 3 * m, k > n
       PROVE  WellPlaced(u, k, open)
  <2>1. PICK i \in 1 .. m : k \in {n + 3 * i - 2, n + 3 * i - 1, n + 3 * i}
    BY <1>6, <1>10
  <2>2. u[k].out = next + i - 1
    BY <1>5, <2>1
  <2>3. n + 3 * i - 2 \in 1 .. Len(u) /\ n + 3 * i \in 1 .. Len(u)
    BY <1>1, <1>3
  <2>4. /\ \E a \in 1 .. Len(u) : u[a].out = u[k].out /\ Adds(u[a])
        /\ \E d \in 1 .. Len(u) : u[d].out = u[k].out /\ Finishes(u[d])
    BY <1>5, <2>2, <2>3
  <2>5. u[k].out \notin open
    BY <1>1, <1>8, <1>10 DEF Items
  <2>6. ASSUME NEW j \in 1 .. Len(u), u[j].out = u[k].out
        PROVE  (Adds(u[j]) => j <= k) /\ (Finishes(u[j]) => k <= j)
    <3>1. j \in 1 .. n + 3 * m /\ j > n
      <4>1. ASSUME j \in 1 .. n
            PROVE  FALSE
        <5>1. s[j].out < next /\ u[j] = s[j] /\ s[j].out \in Int
          BY <1>3, <1>7, <4>1
        <5> QED
          BY <1>1, <2>2, <2>6, <5>1
      <4> QED
        BY <1>1, <1>3, <4>1
    <3>2. PICK l \in 1 .. m : j \in {n + 3 * l - 2, n + 3 * l - 1, n + 3 * l}
      BY <1>6, <3>1
    <3>3. u[j].out = next + l - 1
      BY <1>5, <3>2
    <3>4. l = i
      BY <1>1, <2>2, <2>6, <3>3
    <3>5. Adds(u[j]) => j = n + 3 * i - 2
      BY <1>5, <3>2, <3>4
    <3>6. Finishes(u[j]) => j = n + 3 * i
      BY <1>5, <3>2, <3>4
    <3>7. n + 3 * i - 2 <= k /\ k <= n + 3 * i
      BY <1>1, <2>1
    <3> QED
      BY <3>5, <3>6, <3>7
  <2> QED
    BY <2>4, <2>5, <2>6 DEF WellPlaced
<1>11. \A k \in 1 .. Len(u) : u[k].out # -1 =>
         0 <= u[k].out /\ u[k].out < next + m /\ WellPlaced(u, k, open)
  <2> SUFFICES ASSUME NEW k \in 1 .. Len(u), u[k].out # -1
               PROVE  0 <= u[k].out /\ u[k].out < next + m /\ WellPlaced(u, k, open)
    OBVIOUS
  <2>1. CASE k > n
    <3>1. k \in 1 .. n + 3 * m
      BY <1>3
    <3>2. u[k].out \in Int /\ u[k].out >= next /\ u[k].out < next + m /\ WellPlaced(u, k, open)
      BY <1>8, <1>10, <2>1, <3>1
    <3> QED
      BY <1>1, <3>2
  <2>2. CASE ~(k > n)
    <3>1. k \in 1 .. n
      BY <1>1, <1>3, <2>2
    <3> QED
      BY <1>9, <3>1
  <2> QED
    BY <2>1, <2>2
<1>12. ASSUME NEW i \in open
       PROVE  /\ 0 <= i /\ i < next + m
              /\ \E a \in 1 .. Len(u) : u[a].out = i /\ Adds(u[a])
  <2>1. i \in Int /\ 0 <= i /\ i < next
    BY <1>1 DEF Items
  <2>2. PICK a \in 1 .. n : s[a].out = i /\ Adds(s[a])
    BY <1>4 DEF Items
  <2>3. a \in 1 .. Len(u) /\ u[a] = s[a]
    BY <1>1, <1>3
  <2>4. i < next + m
    BY <1>1, <2>1
  <2> QED
    BY <2>1, <2>2, <2>3, <2>4
<1>13. next + m \in Nat
  BY <1>1
<1> QED
  BY <1>1, <1>3, <1>11, <1>12, <1>13 DEF Items, u, w, m

(* responsesStreamRuntime, and its items: the message is open once it is added *)
ItemLists  == Seq(ItemEvents)
NumberSets == SUBSET Int

ResponseStates ==
  [sent : ItemLists, message : Nat \cup {-1}, calls : Lines, next : Nat,
   called : BOOLEAN, shown : Lines, pending : NumberSets]

OpenItems(s) == IF s.message >= 0 THEN {s.message} ELSE {}

Responding(s) == s \in ResponseStates /\ Items(s.sent, OpenItems(s), s.next)

(* What an event of an item is *)
LEMMA EventTypes ==
  ASSUME NEW out \in Int, NEW x \in Seq(Int)
  PROVE  /\ Api!Event("item added", out) \in ItemEvents /\ Adds(Api!Event("item added", out))
         /\ Api!Event("item done", out) \in ItemEvents /\ Finishes(Api!Event("item done", out))
         /\ \A t \in {"part added", "part done"} :
              LET e == Api!Event(t, out)
              IN  e \in ItemEvents /\ ~Adds(e) /\ ~Finishes(e) /\ e.out = out
         /\ \A t \in {"thinking", "text", "text done", "call"} :
              LET e == [Api!Event(t, out) EXCEPT !.of = x]
              IN  e \in ItemEvents /\ ~Adds(e) /\ ~Finishes(e) /\ e.out = out
         /\ Api!Event("item added", out).out = out /\ Api!Event("item done", out).out = out
<1>1. <<>> \in Seq(Int)
  OBVIOUS
<1> QED
  BY <1>1 DEF Api!Event, ItemEvents, Adds, Finishes

(* What an event that is sent changes *)
LEMMA SaidFields ==
  ASSUME NEW s \in ResponseStates, NEW e \in ItemEvents
  PROVE  LET v == Api!Say(s, e)
         IN  /\ v \in ResponseStates /\ v.sent = Append(s.sent, e) /\ v.message = s.message
             /\ v.calls = s.calls /\ v.next = s.next /\ v.called = s.called
             /\ v.shown = s.shown /\ v.pending = s.pending
<1>1. PICK x \in ItemLists : x = Append(s.sent, e)
  <2>1. s.sent \in ItemLists
    BY DEF ResponseStates
  <2>2. Append(s.sent, e) \in Seq(ItemEvents)
    BY <2>1, AppendProperties DEF ItemLists
  <2> QED
    BY <2>2 DEF ItemLists
<1>2. Api!Say(s, e) = [s EXCEPT !.sent = x]
  BY <1>1 DEF Api!Say
<1> QED
  BY <1>1, <1>2 DEF ResponseStates

(* An event beside the items *)
LEMMA SaysThinking ==
  ASSUME NEW s, Responding(s), NEW e \in ItemEvents, e.out = -1
  PROVE  Responding(Api!Say(s, e)) /\ Api!Say(s, e).calls = s.calls
<1>1. Items(Append(s.sent, e), OpenItems(s), s.next)
  BY BetweenItems DEF Responding
<1>2. s \in ResponseStates
  BY DEF Responding
<1> QED
  BY <1>1, <1>2, SaidFields DEF Responding, OpenItems

(* and one of the message, that does not end it *)
LEMMA SaysOfMessage ==
  ASSUME NEW s, Responding(s), s.message >= 0,
         NEW e \in ItemEvents, e.out = s.message, ~Adds(e), ~Finishes(e)
  PROVE  /\ Responding(Api!Say(s, e)) /\ Api!Say(s, e).calls = s.calls
         /\ Api!Say(s, e).message = s.message
<1>1. s \in ResponseStates /\ Items(s.sent, OpenItems(s), s.next) /\ e.out \in OpenItems(s)
  BY DEF Responding, OpenItems
<1>2. Items(Append(s.sent, e), OpenItems(s), s.next)
  BY <1>1, ItemGoesOn DEF Adds, Finishes
<1> QED
  BY <1>1, <1>2, SaidFields DEF Responding, OpenItems

(* The message is there *)
LEMMA MessageAdded ==
  ASSUME NEW s, Responding(s)
  PROVE  LET a == Api!AddMessage(s)
         IN  /\ Responding(a) /\ a.message >= 0 /\ a.message \in Int /\ a.calls = s.calls
             /\ a.pending = s.pending
<1>1. s \in ResponseStates /\ s.next \in Nat /\ s.next \in Int /\ s.message \in Nat \cup {-1}
  BY DEF Responding, ResponseStates
<1>2. CASE s.message >= 0
  <2>1. Api!AddMessage(s) = s
    BY <1>1, <1>2 DEF Api!AddMessage
  <2>2. s.message \in Int
    BY <1>1
  <2> QED
    BY <1>2, <2>1, <2>2
<1>3. CASE ~(s.message >= 0)
  <2> DEFINE v == [s EXCEPT !.message = s.next, !.next = @ + 1]
             e == Api!Event("item added", s.next)
             f == Api!Event("part added", s.next)
  <2>1. /\ v \in ResponseStates /\ v.message = s.next /\ v.next = s.next + 1 /\ v.sent = s.sent
        /\ v.calls = s.calls /\ v.pending = s.pending
    <3>1. PICK n \in Nat, m \in Nat : n = s.next /\ m = s.next + 1
      BY <1>1
    <3>2. v = [s EXCEPT !.message = n, !.next = m]
      BY <3>1
    <3> HIDE DEF v
    <3> QED
      BY <1>1, <3>1, <3>2 DEF ResponseStates
  <2>2. <<>> \in Seq(Int)
    OBVIOUS
  <2>3. /\ e \in ItemEvents /\ Adds(e) /\ e.out = s.next
        /\ f \in ItemEvents /\ ~Adds(f) /\ ~Finishes(f) /\ f.out = s.next
    BY <1>1, <2>2, EventTypes
  <2>4. Api!AddMessage(s) = Api!Say(Api!Say(v, e), f)
    BY <1>3 DEF Api!AddMessage
  <2> HIDE DEF v, e, f
  <2>5. Items(s.sent, {}, s.next)
    BY <1>3 DEF Responding, OpenItems
  <2>6. e.t = "item added"
    BY <2>3 DEF Adds
  <2>7. Items(Append(s.sent, e), {} \cup {s.next}, s.next + 1)
    BY <2>3, <2>5, <2>6, ItemAdded
  <2>8. LET w == Api!Say(v, e)
        IN  /\ w \in ResponseStates /\ w.sent = Append(s.sent, e) /\ w.message = s.next
            /\ w.next = s.next + 1 /\ w.calls = s.calls /\ w.pending = s.pending
    BY <2>1, <2>3, SaidFields
  <2>9. PICK w : w = Api!Say(v, e)
    OBVIOUS
  <2>10. {} \cup {s.next} = {s.next} /\ OpenItems(w) = {s.next}
    BY <1>1, <2>8, <2>9 DEF OpenItems
  <2>11. Responding(w) /\ w.message >= 0 /\ f.out = w.message
    <3>1. Items(w.sent, OpenItems(w), w.next)
      BY <2>7, <2>8, <2>9, <2>10
    <3> QED
      BY <1>1, <2>3, <2>8, <2>9, <3>1 DEF Responding
  <2>12. Responding(Api!Say(w, f)) /\ Api!Say(w, f).message = w.message /\ Api!Say(w, f).calls = w.calls
    BY <2>3, <2>11, SaysOfMessage
  <2>13. Api!Say(w, f).pending = w.pending
    BY <2>3, <2>8, <2>9, SaidFields
  <2> QED
    BY <1>1, <2>4, <2>8, <2>9, <2>11, <2>12, <2>13
<1> QED
  BY <1>2, <1>3

(* emitTextDelta *)
LEMMA TextAdded ==
  ASSUME NEW s, Responding(s), NEW j \in Int
  PROVE  LET v == Api!TextDelta(s, j)
         IN  Responding(v) /\ v.calls = s.calls /\ v.pending = s.pending
<1> DEFINE a == Api!AddMessage(s)
           b == [a EXCEPT !.shown = Append(@, j)]
           e == [Api!Event("text", a.message) EXCEPT !.of = <<j>>]
<1>1. Responding(a) /\ a.message >= 0 /\ a.message \in Int /\ a.calls = s.calls /\ a.pending = s.pending
  BY MessageAdded
<1>2. <<j>> \in Seq(Int)
  OBVIOUS
<1> HIDE DEF a
<1>3. e \in ItemEvents /\ ~Adds(e) /\ ~Finishes(e) /\ e.out = a.message
  BY <1>1, <1>2, EventTypes
<1>4. /\ b \in ResponseStates /\ b.sent = a.sent /\ b.message = a.message /\ b.next = a.next
      /\ b.calls = a.calls /\ b.pending = a.pending
  <2>1. a \in ResponseStates
    BY <1>1 DEF Responding
  <2>2. PICK x \in Lines : x = Append(a.shown, j)
    <3>1. a.shown \in Lines
      BY <2>1 DEF ResponseStates
    <3>2. Append(a.shown, j) \in Seq(Int)
      BY <3>1, AppendProperties DEF Lines
    <3> QED
      BY <3>2 DEF Lines
  <2>3. b = [a EXCEPT !.shown = x]
    BY <2>2
  <2> HIDE DEF b
  <2> QED
    BY <2>1, <2>2, <2>3 DEF ResponseStates
<1>5. Responding(b) /\ b.message >= 0
  BY <1>1, <1>4 DEF Responding, OpenItems
<1>6. Api!TextDelta(s, j) = Api!Say(b, e)
  BY DEF Api!TextDelta, a
<1> HIDE DEF b, e
<1>7. Responding(Api!Say(b, e)) /\ Api!Say(b, e).calls = b.calls
  BY <1>3, <1>4, <1>5, SaysOfMessage
<1>8. Api!Say(b, e).pending = b.pending
  BY <1>3, <1>4, SaidFields
<1> QED
  BY <1>1, <1>4, <1>6, <1>7, <1>8

(* The events of the calls of a set, in their order *)
CallsFrom(next, cs) ==
  [i \in 1 .. Cardinality(cs) |-> Api!CallEvents(next + i - 1, InOrder(cs)[i])]

(* are items that are added, used and done at once *)
LEMMA CallsAreTriples ==
  ASSUME NEW next \in Nat, NEW n \in Nat, NEW cs \in SUBSET (1 .. n)
  PROVE  Triples(CallsFrom(next, cs), next) /\ Len(CallsFrom(next, cs)) = Cardinality(cs) /\ Cardinality(cs) \in Nat
<1> DEFINE c == Cardinality(cs)
           q(i) == Api!CallEvents(next + i - 1, InOrder(cs)[i])
<1>1. c \in Nat /\ InOrder(cs) \in Seq(Int) /\ Len(InOrder(cs)) = c
  BY Ordered
<1>2. ASSUME NEW i \in 1 .. c
      PROVE  /\ q(i) \in Seq(ItemEvents) /\ Len(q(i)) = 3 /\ \A p \in 1 .. 3 : q(i)[p].out = next + i - 1
             /\ Adds(q(i)[1]) /\ ~Adds(q(i)[2]) /\ ~Finishes(q(i)[2]) /\ Finishes(q(i)[3])
  <2> DEFINE out == next + i - 1
             x == <<InOrder(cs)[i]>>
             e1 == Api!Event("item added", out)
             e2 == [Api!Event("call", out) EXCEPT !.of = x]
             e3 == Api!Event("item done", out)
  <2>1. out \in Int /\ x \in Seq(Int)
    BY <1>1
  <2> HIDE DEF out, x
  <2>2. /\ e1 \in ItemEvents /\ Adds(e1) /\ e1.out = out
        /\ e2 \in ItemEvents /\ ~Adds(e2) /\ ~Finishes(e2) /\ e2.out = out
        /\ e3 \in ItemEvents /\ Finishes(e3) /\ e3.out = out
    BY <2>1, EventTypes
  <2>3. q(i) = <<e1, e2, e3>>
    BY DEF Api!CallEvents, out, x
  <2> HIDE DEF e1, e2, e3, q
  <2>4. /\ <<e1, e2, e3>> \in Seq(ItemEvents) /\ Len(<<e1, e2, e3>>) = 3
        /\ <<e1, e2, e3>>[1] = e1 /\ <<e1, e2, e3>>[2] = e2 /\ <<e1, e2, e3>>[3] = e3
    BY <2>2
  <2>5. \A p \in 1 .. 3 : q(i)[p].out = out
    BY <2>2, <2>3, <2>4
  <2> QED
    BY <2>2, <2>3, <2>4, <2>5 DEF out
<1>3. CallsFrom(next, cs) = [i \in 1 .. c |-> q(i)]
  BY DEF CallsFrom
<1> HIDE DEF c, q
<1>4. CallsFrom(next, cs) \in Seq(Seq(ItemEvents)) /\ Len(CallsFrom(next, cs)) = c
  <2>1. PICK L : L = Seq(ItemEvents)
    OBVIOUS
  <2>2. \A i \in 1 .. c : q(i) \in L
    BY <1>2, <2>1
  <2>3. CallsFrom(next, cs) \in Seq(L) /\ Len(CallsFrom(next, cs)) = c
    BY <1>1, <1>3, <2>2
  <2> QED
    BY <2>1, <2>3
<1>5. \A i \in 1 .. c : CallsFrom(next, cs)[i] = q(i)
  BY <1>3
<1>6. Triples(CallsFrom(next, cs), next)
  BY <1>2, <1>4, <1>5 DEF Triples
<1> QED
  BY <1>1, <1>4, <1>6 DEF c

(* emitFunctionCallDoneEvents, when no call has an index yet *)
LEMMA CallsGiven ==
  ASSUME NEW s \in ResponseStates, s.calls = <<>>, NEW n \in Nat, NEW cs \in SUBSET (1 .. n)
  PROVE  LET v == Api!CallsDone(s, cs)
         IN  /\ v \in ResponseStates /\ v.sent = s.sent \o Api!Joined(CallsFrom(s.next, cs))
             /\ v.next = s.next + Cardinality(cs) /\ v.message = s.message
             /\ v.shown = s.shown /\ v.pending = s.pending
             /\ v.called = IF cs = {} THEN s.called ELSE TRUE
<1> DEFINE c == Cardinality(cs)
           f == [i \in 1 .. c |-> s.next + i - 1]
           v == Api!CallsDone(s, cs)
           q == CallsFrom(s.next, cs)
<1>1. c \in Nat /\ s.next \in Nat /\ (c = 0 <=> cs = {}) /\ s.sent \in Seq(ItemEvents)
  <2>1. c \in Nat /\ IsFiniteSet(cs)
    BY Ranks
  <2>2. c = 0 <=> cs = {}
    BY <2>1, FS_EmptySet
  <2> QED
    BY <2>1, <2>2 DEF ResponseStates, ItemLists
<1>2. Api!Cardinality(cs) = c /\ Api!InOrder(cs) = InOrder(cs)
  BY StreamsOrdered
<1>3. Triples(q, s.next) /\ Len(q) = c
  BY <1>1, CallsAreTriples
<1>4. Api!Joined(q) \in Seq(ItemEvents) /\ Len(Api!Joined(q)) = 3 * c
  BY <1>3, JoinedTriples DEF Triples
<1>5. Len(s.calls) = 0
  OBVIOUS
<1>6. CASE c = 0
  <2>1. Api!Allocated(s, c) = s
    BY <1>5, <1>6 DEF Api!Allocated
  <2>2. v = s
    BY <1>2, <2>1 DEF Api!CallsDone
  <2>3. Api!Joined(q) = <<>>
    BY <1>4, <1>6
  <2>4. s.sent \o <<>> = s.sent
    BY <1>1
  <2>5. s.next + c = s.next
    BY <1>1, <1>6
  <2> HIDE DEF c, v, q
  <2>6. v.sent = s.sent \o Api!Joined(q) /\ v.next = s.next + c
    BY <2>2, <2>3, <2>4, <2>5
  <2>7. v.called = IF cs = {} THEN s.called ELSE TRUE
    BY <1>1, <1>6, <2>2
  <2> QED
    BY <2>2, <2>6, <2>7 DEF c, v, q
<1>7. CASE c # 0
  <2> DEFINE a == Api!Allocated(s, c)
  <2>1. f \in Seq(Int) /\ Len(f) = c /\ \A i \in 1 .. c : f[i] = s.next + i - 1
    BY <1>1
  <2>2. a = [s EXCEPT !.calls = f, !.next = s.next + c]
    <3>1. ~(c <= Len(s.calls))
      BY <1>1, <1>5, <1>7
    <3>2. a = [s EXCEPT !.calls = s.calls \o [i \in 1 .. c - Len(s.calls) |-> s.next + i - 1],
                        !.next = s.next + c - Len(s.calls)]
      BY <3>1 DEF Api!Allocated
    <3>3. c - Len(s.calls) = c /\ s.next + c - Len(s.calls) = s.next + c
      BY <1>1, <1>5
    <3>4. s.calls \o f = f
      BY <2>1
    <3> QED
      BY <3>2, <3>3, <3>4, Zenon
  <2> HIDE DEF a, f
  <2>3. /\ a \in ResponseStates /\ a.calls = f /\ a.next = s.next + c /\ a.sent = s.sent
        /\ a.message = s.message /\ a.shown = s.shown /\ a.pending = s.pending /\ a.called = s.called
    <3>1. PICK l \in Lines, m \in Nat : l = f /\ m = s.next + c
      BY <1>1, <2>1 DEF Lines
    <3>2. a = [s EXCEPT !.calls = l, !.next = m]
      BY <2>2, <3>1
    <3> QED
      BY <3>1, <3>2 DEF ResponseStates
  <2>4. a # s
    BY <1>1, <1>7, <2>3
  <2>5. v = [a EXCEPT !.called = TRUE, !.sent = s.sent \o Api!Joined(q)]
    <3> DEFINE r == [i \in 1 .. Len(a.calls) - Len(s.calls) |->
                       Api!CallEvents(a.calls[Len(s.calls) + i], Api!InOrder(cs)[Len(s.calls) + i])]
    <3>1. v = [a EXCEPT !.called = TRUE, !.sent = a.sent \o Api!Joined(r)]
      BY <1>2, <2>4 DEF Api!CallsDone, a
    <3>2. Len(a.calls) - Len(s.calls) = c /\ \A i \in 1 .. c : Len(s.calls) + i = i
      BY <1>1, <1>5, <2>1, <2>3
    <3>3. \A i \in 1 .. c : a.calls[Len(s.calls) + i] = s.next + i - 1
      BY <2>1, <2>3, <3>2
    <3>4. r = q
      BY <1>2, <3>2, <3>3 DEF CallsFrom
    <3> HIDE DEF r, q
    <3> QED
      BY <2>3, <3>1, <3>4
  <2>6. PICK x \in ItemLists : x = s.sent \o Api!Joined(q)
    <3> HIDE DEF q
    <3>1. s.sent \o Api!Joined(q) \in Seq(ItemEvents)
      BY <1>1, <1>4, Continued
    <3> QED
      BY <3>1 DEF ItemLists
  <2>7. v = [a EXCEPT !.called = TRUE, !.sent = x]
    BY <2>5, <2>6
  <2> HIDE DEF v, q, c
  <2>8. /\ v \in ResponseStates /\ v.sent = x /\ v.called = TRUE /\ v.next = a.next
        /\ v.message = a.message /\ v.shown = a.shown /\ v.pending = a.pending
    BY <2>3, <2>6, <2>7 DEF ResponseStates
  <2>9. v.called = IF cs = {} THEN s.called ELSE TRUE
    BY <1>1, <1>7, <2>8
  <2> QED
    BY <2>3, <2>6, <2>8, <2>9 DEF v, q, c
<1> QED
  BY <1>6, <1>7

(* Calls that are given, as items *)
LEMMA CallsRespond ==
  ASSUME NEW s, Responding(s), s.calls = <<>>, NEW n \in Nat, NEW cs \in SUBSET (1 .. n)
  PROVE  LET v == Api!CallsDone(s, cs)
         IN  Responding(v) /\ v.message = s.message /\ v.pending = s.pending
<1> DEFINE q == CallsFrom(s.next, cs)
           v == Api!CallsDone(s, cs)
<1>1. s \in ResponseStates /\ s.next \in Nat /\ Items(s.sent, OpenItems(s), s.next)
  BY DEF Responding, ResponseStates
<1>2. /\ v \in ResponseStates /\ v.sent = s.sent \o Api!Joined(q)
      /\ v.next = s.next + Cardinality(cs) /\ v.message = s.message /\ v.pending = s.pending
  BY <1>1, CallsGiven
<1>3. Triples(q, s.next) /\ Len(q) = Cardinality(cs)
  BY <1>1, CallsAreTriples
<1> HIDE DEF q, v
<1>4. Items(s.sent \o Api!Joined(q), OpenItems(s), s.next + Len(q))
  BY <1>1, <1>3, ItemsAtOnce
<1>5. Items(v.sent, OpenItems(v), v.next)
  BY <1>2, <1>3, <1>4 DEF OpenItems
<1> QED
  BY <1>2, <1>5 DEF Responding, v

(* Between two pieces no call has an index *)
Waiting(s) == Responding(s) /\ s.calls = <<>>

(* A block whose turn has come leaves it so *)
LEMMA Released ==
  ASSUME Said, MaxCalls \in Nat, NEW s, Waiting(s)
  PROVE  Waiting(Api!Release(s))
<1>1. CASE s.pending = {}
  BY <1>1 DEF Api!Release
<1>2. CASE s.pending # {}
  <2> DEFINE cs == Api!Deduped(Api!Calls(s.pending))
             v == Api!CallsDone(s, cs)
             w == Api!ResetCalls(v)
             u == [w EXCEPT !.pending = {}]
  <2>1. Numbers \in Nat /\ cs \in SUBSET (1 .. Numbers)
    BY CallsOfAnswer DEF Api!Deduped, Api!Calls, Numbers
  <2> HIDE DEF cs
  <2>2. Responding(v)
    BY <2>1, CallsRespond DEF Waiting
  <2>3. Api!Release(s) = u
    BY <1>2 DEF Api!Release, cs
  <2> HIDE DEF v
  <2>4. v \in ResponseStates /\ <<>> \in Lines /\ {} \in NumberSets
    BY <2>2 DEF Responding, Lines, NumberSets
  <2>5. PICK l \in Lines, e \in NumberSets : l = <<>> /\ e = {}
    BY <2>4
  <2>6. w = [v EXCEPT !.calls = l]
    BY <2>5 DEF Api!ResetCalls
  <2> HIDE DEF w
  <2>7. w \in ResponseStates /\ w.calls = l /\ w.sent = v.sent /\ w.message = v.message /\ w.next = v.next
    BY <2>4, <2>5, <2>6 DEF ResponseStates
  <2>8. u = [w EXCEPT !.pending = e]
    BY <2>5
  <2> HIDE DEF u
  <2>9. u \in ResponseStates /\ u.calls = l /\ u.sent = v.sent /\ u.message = v.message /\ u.next = v.next
    BY <2>5, <2>7, <2>8 DEF ResponseStates
  <2>10. Responding(u)
    BY <2>2, <2>9 DEF Responding, OpenItems
  <2> QED
    BY <2>3, <2>5, <2>9, <2>10 DEF Waiting
<1> QED
  BY <1>1, <1>2

(* onParsed *)
LEMMA PieceResponds ==
  ASSUME Said, MaxCalls \in Nat, NEW s, Waiting(s), NEW p \in Api!Kinds, NEW j \in Nat
  PROVE  Waiting(Api!ResponsesPiece(s, p, j))
<1> DEFINE r == Api!ResponsesPiece(s, p, j)
<1>1. Waiting(Api!Release(s))
  BY Released
<1>2. p.k \in {"think", "text", "block", "cut"}
  BY DEF Api!Kinds, Api!Texts
<1>3. CASE p.k = "think"
  <2> DEFINE e == [Api!Event("thinking", -1) EXCEPT !.of = <<j>>]
  <2>1. <<j>> \in Seq(Int) /\ -1 \in Int
    OBVIOUS
  <2>2. e \in ItemEvents /\ e.out = -1
    BY <2>1, EventTypes
  <2>3. r = IF ask.think THEN Api!Say(s, e) ELSE s
    BY <1>3 DEF Api!ResponsesPiece
  <2> HIDE DEF e, r
  <2>4. Responding(Api!Say(s, e)) /\ Api!Say(s, e).calls = s.calls
    BY <2>2, SaysThinking DEF Waiting
  <2> QED
    BY <2>3, <2>4 DEF Waiting, r
<1>4. CASE p.k # "think" /\ (p.k = "text" \/ ~ask.tools)
  <2>1. r = Api!TextDelta(Api!Release(s), j)
    BY <1>2, <1>4 DEF Api!ResponsesPiece
  <2> HIDE DEF r
  <2> QED
    BY <1>1, <2>1, TextAdded DEF Waiting, r
<1>5. CASE p.k = "block" /\ ask.tools
  <2> DEFINE a == Api!Release(s)
  <2>1. r = [a EXCEPT !.pending = {j}]
    BY <1>5 DEF Api!ResponsesPiece
  <2> HIDE DEF a, r
  <2>2. PICK e \in NumberSets : e = {j}
    <3>1. {j} \in NumberSets
      BY DEF NumberSets
    <3> QED
      BY <3>1
  <2>3. r = [a EXCEPT !.pending = e] /\ a \in ResponseStates
    BY <1>1, <2>1, <2>2 DEF a, Waiting, Responding
  <2>4. r \in ResponseStates /\ r.calls = a.calls /\ r.sent = a.sent /\ r.message = a.message /\ r.next = a.next
    BY <2>2, <2>3 DEF ResponseStates
  <2> QED
    BY <1>1, <2>4 DEF a, r, Waiting, Responding, OpenItems
<1>6. CASE p.k = "cut" /\ ask.tools
  <2>1. r = Api!Release(s)
    BY <1>6 DEF Api!ResponsesPiece
  <2> QED
    BY <1>1, <2>1
<1> QED
  BY <1>2, <1>3, <1>4, <1>5, <1>6

(* closeMessage: no item is open any more *)
LEMMA MessageClosed ==
  ASSUME NEW s, Responding(s)
  PROVE  LET v == Api!CloseMessage(s)
         IN  v \in ResponseStates /\ \E next : Items(v.sent, {}, next)
<1>1. /\ s \in ResponseStates /\ s.message \in Nat \cup {-1} /\ s.shown \in Seq(Int)
      /\ Items(s.sent, OpenItems(s), s.next) /\ s.sent \in Seq(ItemEvents)
  BY DEF Responding, ResponseStates, ItemLists, Lines
<1>2. CASE s.message < 0
  <2>1. Api!CloseMessage(s) = s
    BY <1>2 DEF Api!CloseMessage
  <2>2. OpenItems(s) = {}
    BY <1>1, <1>2 DEF OpenItems
  <2> QED
    BY <1>1, <2>1, <2>2
<1>3. CASE ~(s.message < 0)
  <2> DEFINE e1 == [Api!Event("text done", s.message) EXCEPT !.of = s.shown]
             e2 == Api!Event("part done", s.message)
             e3 == Api!Event("item done", s.message)
             a == Api!Say(s, e1)
             b == Api!Say(a, e2)
             v == Api!Say(b, e3)
  <2>1. s.message \in Int /\ s.message >= 0 /\ OpenItems(s) = {s.message}
    BY <1>1, <1>3 DEF OpenItems
  <2>2. /\ e1 \in ItemEvents /\ ~Adds(e1) /\ ~Finishes(e1) /\ e1.out = s.message
        /\ e2 \in ItemEvents /\ ~Adds(e2) /\ ~Finishes(e2) /\ e2.out = s.message
        /\ e3 \in ItemEvents /\ Finishes(e3) /\ e3.out = s.message
    BY <1>1, <2>1, EventTypes
  <2>3. Api!CloseMessage(s) = v
    BY <1>3 DEF Api!CloseMessage
  <2> HIDE DEF e1, e2, e3
  <2>4. Responding(a) /\ a.message = s.message
    BY <2>1, <2>2, SaysOfMessage
  <2> HIDE DEF a
  <2>5. Responding(b) /\ b.message = s.message
    BY <2>1, <2>2, <2>4, SaysOfMessage
  <2> HIDE DEF b
  <2>6. b \in ResponseStates /\ Items(b.sent, {s.message}, b.next)
    BY <2>1, <2>5 DEF Responding, OpenItems
  <2>7. e3.t # "item added" /\ e3.t = "item done"
    BY <2>2 DEF Finishes
  <2>8. Items(Append(b.sent, e3), {s.message} \ {e3.out}, b.next)
    BY <2>2, <2>6, <2>7, ItemGoesOn, AddsOrFinishes
  <2>9. {s.message} \ {e3.out} = {}
    BY <2>2
  <2>10. v \in ResponseStates /\ v.sent = Append(b.sent, e3)
    BY <2>2, <2>6, SaidFields
  <2>11. Items(v.sent, {}, b.next)
    BY <2>8, <2>9, <2>10
  <2> HIDE DEF v
  <2> QED
    BY <2>3, <2>10, <2>11
<1> QED
  BY <1>2, <1>3

(* ItemsWellFormed, of a list of events and whether it is over *)
WellFormed(s, over) ==
  /\ \A k \in 1 .. Len(s) : s[k].out # -1 =>
       /\ \E a \in 1 .. Len(s) : s[a].out = s[k].out /\ Adds(s[a])
       /\ over => \E d \in 1 .. Len(s) : s[d].out = s[k].out /\ Finishes(s[d])
       /\ \A j \in 1 .. Len(s) : s[j].out = s[k].out =>
            (Adds(s[j]) => j <= k) /\ (Finishes(s[j]) => k <= j)
  /\ \A k \in 1 .. Len(s) : s[k].t \in {"completed", "failed"} => over /\ k = Len(s) - 1
  /\ over => /\ Len(s) > 1 /\ s[Len(s) - 1].t \in {"completed", "failed"}
             /\ s[Len(s)].t = "DONE"

(* says the same as the property *)
LEMMA ItemsAreWellFormed ==
  ASSUME NEW X, res.sent \in Seq(X), WellFormed(res.sent, Api!Finalized)
  PROVE  Api!ItemsWellFormed
<1> DEFINE s == res.sent
           Of(k) == {j \in DOMAIN s : s[j].out = s[k].out}
<1>1. DOMAIN s = 1 .. Len(s)
  OBVIOUS
<1>2. WellFormed(s, Api!Finalized)
  OBVIOUS
<1>3. /\ \A k : (s[k].t = "item added" <=> Adds(s[k])) /\ (s[k].t = "item done" <=> Finishes(s[k]))
      /\ \A k : \A j : j \in Of(k) <=> j \in 1 .. Len(s) /\ s[j].out = s[k].out
  BY <1>1 DEF Adds, Finishes
<1> HIDE DEF s, Of
<1>4. ASSUME NEW k \in 1 .. Len(s), s[k].out # -1
      PROVE  /\ \E a \in Of(k) : s[a].t = "item added"
             /\ Api!Finalized => \E d \in Of(k) : s[d].t = "item done"
             /\ \A j \in Of(k) : /\ s[j].t = "item added" => j <= k
                                 /\ s[j].t = "item done" => k <= j
  <2>1. \E a \in Of(k) : s[a].t = "item added"
    BY <1>2, <1>3, <1>4 DEF WellFormed
  <2>2. Api!Finalized => \E d \in Of(k) : s[d].t = "item done"
    BY <1>2, <1>3, <1>4 DEF WellFormed
  <2>3. ASSUME NEW j \in Of(k)
        PROVE  (s[j].t = "item added" => j <= k) /\ (s[j].t = "item done" => k <= j)
    BY <1>2, <1>3, <1>4 DEF WellFormed
  <2> QED
    BY <2>1, <2>2, <2>3
<1>5. \A k \in 1 .. Len(s) : s[k].t \in {"completed", "failed"} => Api!Finalized /\ k = Len(s) - 1
  BY <1>2 DEF WellFormed
<1>6. Api!Finalized => /\ Len(s) > 1 /\ s[Len(s) - 1].t \in {"completed", "failed"}
                       /\ s[Len(s)].t = "DONE"
  BY <1>2 DEF WellFormed
<1> QED
  BY <1>1, <1>4, <1>5, <1>6, Zenon DEF Api!ItemsWellFormed, s, Of

(* While the answer comes *)
LEMMA WellFormedSoFar ==
  ASSUME NEW s, NEW open, NEW next, Items(s, open, next)
  PROVE  WellFormed(s, FALSE)
<1>1. \A k \in 1 .. Len(s) : s[k].t \notin {"completed", "failed"}
  <2>1. \A k \in 1 .. Len(s) : s[k] \in ItemEvents
    BY DEF Items
  <2> QED
    BY <2>1 DEF ItemEvents
<1> QED
  BY <1>1 DEF Items, WellPlaced, WellFormed

(* and when it is over *)
LEMMA WellFormedAtEnd ==
  ASSUME NEW s, NEW next, Items(s, {}, next),
         NEW e, e.out = -1, e.t \in {"completed", "failed"}, NEW f, f.out = -1, f.t = "DONE"
  PROVE  LET u == Append(Append(s, e), f)
         IN  u \in Seq(ItemEvents \cup {e, f}) /\ WellFormed(u, TRUE)
<1> DEFINE X == ItemEvents \cup {e, f}
           n == Len(s)
           u == Append(Append(s, e), f)
<1>1. s \in Seq(ItemEvents) /\ n \in Nat /\ Len(s) = n
  BY DEF Items
<1>2. s \in Seq(X) /\ e \in X /\ f \in X
  BY <1>1
<1> HIDE DEF X
<1>3. /\ u \in Seq(X) /\ Len(u) = n + 2 /\ u[n + 1] = e /\ u[n + 2] = f
      /\ \A k \in 1 .. n : u[k] = s[k]
  BY <1>2
<1> HIDE DEF u, n
<1>4. \A k \in 1 .. Len(u) : k \in 1 .. n \/ k = n + 1 \/ k = n + 2
  BY <1>1, <1>3
<1>5. \A k \in 1 .. n : k \in 1 .. Len(u) /\ u[k] = s[k] /\ s[k].t \notin {"completed", "failed"}
  <2>1. \A k \in 1 .. n : s[k] \in ItemEvents
    BY <1>1
  <2>2. \A k \in 1 .. n : s[k].t \notin {"completed", "failed"}
    BY <2>1 DEF ItemEvents
  <2> QED
    BY <1>1, <1>3, <2>2
<1>6. ASSUME NEW k \in 1 .. Len(u), u[k].out # -1
      PROVE  /\ \E a \in 1 .. Len(u) : u[a].out = u[k].out /\ Adds(u[a])
             /\ \E d \in 1 .. Len(u) : u[d].out = u[k].out /\ Finishes(u[d])
             /\ \A j \in 1 .. Len(u) : u[j].out = u[k].out =>
                  (Adds(u[j]) => j <= k) /\ (Finishes(u[j]) => k <= j)
  <2>1. k \in 1 .. n
    BY <1>3, <1>4, <1>6
  <2>2. u[k] = s[k] /\ WellPlaced(s, k, {})
    BY <1>1, <1>3, <1>6, <2>1 DEF Items
  <2>3. \A j \in 1 .. Len(u) : u[j].out = u[k].out => j \in 1 .. n
    BY <1>3, <1>4, <1>6
  <2> QED
    BY <1>1, <1>5, <2>2, <2>3 DEF WellPlaced
<1>7. \A k \in 1 .. Len(u) : u[k].t \in {"completed", "failed"} => k = Len(u) - 1
  <2>1. f.t \notin {"completed", "failed"}
    OBVIOUS
  <2>2. Len(u) - 1 = n + 1
    BY <1>1, <1>3
  <2> QED
    BY <1>3, <1>4, <1>5, <2>1, <2>2
<1>8. Len(u) > 1 /\ Len(u) - 1 = n + 1 /\ Len(u) = n + 2
  BY <1>1, <1>3
<1>9. WellFormed(u, TRUE)
  BY <1>3, <1>6, <1>7, <1>8 DEF WellFormed
<1> QED
  BY <1>3, <1>9 DEF u, X

(* The last two events *)
LEMMA SaysLast ==
  ASSUME NEW s \in ResponseStates, NEW e, NEW f
  PROVE  Api!Say(Api!Say(s, e), f).sent = Append(Append(s.sent, e), f)
<1>1. "sent" \in DOMAIN s
  BY DEF ResponseStates
<1> QED
  BY <1>1 DEF Api!Say

(* finalize *)
LEMMA ResponseEnds ==
  ASSUME Said, MaxCalls \in Nat, NEW s, Waiting(s)
  PROVE  LET v == Api!ResponsesEnd(s)
         IN  WellFormed(v.sent, TRUE) /\ \E X : v.sent \in Seq(X)
<1> DEFINE cut == ask.tools /\ Api!Pieces({"cut"}) # {}
           flushed == IF cut THEN Api!TextDelta(Api!Release(s), Len(said)) ELSE Api!Release(s)
           fin == Api!FinalCalls(flushed, Api!Detected)
           closed == Api!CloseMessage(fin)
           v == Api!ResponsesEnd(s)
           last == Api!Event("DONE", -1)
<1>1. Waiting(Api!Release(s)) /\ Len(said) \in Nat /\ Len(said) \in Int
  BY Released, CallsOfAnswer
<1>2. Waiting(flushed)
  BY <1>1, TextAdded DEF Waiting
<1> HIDE DEF flushed
<1>3. Numbers \in Nat /\ Api!Detected \in SUBSET (1 .. Numbers)
  BY CallsOfAnswer
<1>4. Responding(fin)
  BY <1>2, <1>3, CallsRespond DEF Api!FinalCalls, Waiting
<1>5. v = IF Api!Detected = {} /\ (ask.required \/ Api!Written = {}) THEN Api!Fail(closed)
          ELSE Api!Say(Api!Say(closed, [Api!Event("completed", -1) EXCEPT !.of = Api!Completed(closed, Api!Detected)]), last)
  BY DEF Api!ResponsesEnd, flushed
<1> HIDE DEF fin
<1>6. closed \in ResponseStates
  BY <1>4, MessageClosed
<1>7. PICK next : Items(closed.sent, {}, next)
  BY <1>4, MessageClosed
<1> HIDE DEF closed
<1>8. last.out = -1 /\ last.t = "DONE"
  BY DEF Api!Event
<1>9. PICK e : /\ v = Api!Say(Api!Say(closed, e), last)
               /\ e.out = -1 /\ e.t \in {"completed", "failed"}
  <2> DEFINE c == [Api!Event("completed", -1) EXCEPT !.of = Api!Completed(closed, Api!Detected)]
             f == Api!Event("failed", -1)
  <2>1. c.out = -1 /\ c.t = "completed" /\ f.out = -1 /\ f.t = "failed"
    BY DEF Api!Event
  <2>2. v = Api!Say(Api!Say(closed, c), last) \/ v = Api!Say(Api!Say(closed, f), last)
    BY <1>5 DEF Api!Fail
  <2> HIDE DEF c, f, v, last
  <2> QED
    BY <2>1, <2>2
<1> HIDE DEF v, last
<1>10. v.sent = Append(Append(closed.sent, e), last)
  BY <1>6, <1>9, SaysLast
<1>11. /\ Append(Append(closed.sent, e), last) \in Seq(ItemEvents \cup {e, last})
       /\ WellFormed(Append(Append(closed.sent, e), last), TRUE)
  BY <1>7, <1>8, <1>9, WellFormedAtEnd
<1> QED
  BY <1>10, <1>11 DEF v

(* While the answer comes, its items are those of Responding; what has been *)
(* sent stays                                                               *)
ItemsInv ==
  /\ Said /\ ended \in {"no", "gone", "refused", "end", "error", "broken"}
  /\ ended = "no" => Waiting(res)
  /\ WellFormed(res.sent, Api!Finalized) /\ \E X : res.sent \in Seq(X)

(* It is enough *)
LEMMA WaitingIsWellFormed ==
  ASSUME NEW s, Waiting(s)
  PROVE  WellFormed(s.sent, FALSE) /\ \E X : s.sent \in Seq(X)
<1>1. Items(s.sent, OpenItems(s), s.next)
  BY DEF Waiting, Responding
<1>2. PICK open, next, u : u = s.sent /\ open = OpenItems(s) /\ next = s.next
  OBVIOUS
<1>3. Items(u, open, next)
  BY <1>1, <1>2
<1>4. WellFormed(u, FALSE) /\ u \in Seq(ItemEvents)
  BY <1>3, WellFormedSoFar DEF Items
<1> QED
  BY <1>2, <1>4

(* Every step keeps the items as they should be *)
LEMMA ItemsStep ==
  ASSUME ItemsInv, [Api!Next]_Api!vars, MaxCalls \in Nat
  PROVE  ItemsInv'
<1>1. CASE Api!Piece
  <2>0. PICK p \in Api!Kinds : said' = Append(said, p) /\ res' = Api!ResponsesPiece(res, p, Len(said) + 1)
    BY <1>1 DEF Api!Piece
  <2>1. Said' /\ Len(said) + 1 \in Nat /\ Said
    BY <2>0 DEF ItemsInv, Said, Api!Kinds
  <2>2. ended = "no" /\ ended' = "no" /\ Api!Finalized' = FALSE
    BY <1>1 DEF Api!Piece, Api!Open, Api!Finalized
  <2>3. Waiting(res')
    BY <2>0, <2>1, <2>2, PieceResponds DEF ItemsInv
  <2> QED
    BY <2>1, <2>2, <2>3, WaitingIsWellFormed DEF ItemsInv
<1>2. CASE Api!KeepAlive
  BY <1>2 DEF Api!KeepAlive, ItemsInv, Said, Api!Open, Api!Finalized
<1>3. CASE Api!Finish
  <2>1. ended = "no" /\ said' = said /\ Said /\ Waiting(res) /\ res' = Api!ResponsesEnd(res)
    BY <1>3 DEF Api!Finish, ItemsInv
  <2>2. ended' \in {"end", "error", "broken"} /\ Api!Finalized' = TRUE
    BY <1>3 DEF Api!Finish, Api!Finalized
  <2>3. WellFormed(res'.sent, TRUE) /\ \E X : res'.sent \in Seq(X)
    BY <2>1, ResponseEnds
  <2>4. Said'
    BY <2>1 DEF Said
  <2> QED
    BY <2>2, <2>3, <2>4 DEF ItemsInv
<1>4. CASE Api!Gone
  BY <1>4 DEF Api!Gone, ItemsInv, Said, Api!Finalized
<1>5. CASE Api!Refused
  <2>1. ended = "no" /\ ended' = "refused" /\ said' = said /\ res' = [res EXCEPT !.sent = <<>>] /\ res \in ResponseStates
    BY <1>5 DEF Api!Refused, ItemsInv, Waiting, Responding
  <2>2. res'.sent = <<>> /\ Api!Finalized' = FALSE /\ Said'
    BY <2>1 DEF ResponseStates, Api!Finalized, ItemsInv, Said
  <2>3. WellFormed(<<>>, FALSE) /\ <<>> \in Seq(Int)
    BY DEF WellFormed
  <2> QED
    BY <2>1, <2>2, <2>3 DEF ItemsInv
<1>6. CASE UNCHANGED Api!vars
  BY <1>6 DEF Api!vars, ItemsInv, Said, Api!Finalized
<1> QED
  BY <1>1, <1>2, <1>3, <1>4, <1>5, <1>6 DEF Api!Next

(* They are so at the start *)
LEMMA ItemsStart ==
  ASSUME Api!Init
  PROVE  ItemsInv
<1> DEFINE e == Api!Event("created", -1)
<1>1. said = <<>> /\ ended = "no" /\ res = [sent |-> <<e>>, message |-> -1, calls |-> <<>>,
            next |-> 0, called |-> FALSE, shown |-> <<>>, pending |-> {}]
  BY DEF Api!Init
<1>2. e \in ItemEvents /\ e.out = -1
  <2>1. <<>> \in Seq(Int)
    OBVIOUS
  <2> QED
    BY <2>1 DEF Api!Event, ItemEvents
<1> HIDE DEF e
<1>3. <<e>> \in Seq(ItemEvents) /\ Len(<<e>>) = 1 /\ <<e>>[1] = e
  BY <1>2
<1>4. Items(<<e>>, {}, 0)
  BY <1>2, <1>3 DEF Items
<1>5. res \in ResponseStates /\ res.sent = <<e>> /\ res.next = 0 /\ res.calls = <<>> /\ OpenItems(res) = {}
  <2>1. PICK l \in ItemLists, n \in Lines, x \in NumberSets : l = <<e>> /\ n = <<>> /\ x = {}
    <3>1. <<e>> \in ItemLists /\ <<>> \in Lines /\ {} \in NumberSets
      BY <1>3 DEF ItemLists, Lines, NumberSets
    <3> QED
      BY <3>1
  <2>2. res = [sent |-> l, message |-> -1, calls |-> n, next |-> 0, called |-> FALSE, shown |-> n, pending |-> x]
    BY <1>1, <2>1
  <2> QED
    BY <2>1, <2>2 DEF ResponseStates, OpenItems
<1>6. Waiting(res)
  BY <1>4, <1>5 DEF Waiting, Responding
<1>7. Api!Finalized = FALSE
  BY <1>1 DEF Api!Finalized
<1>8. Said /\ ended \in {"no", "gone", "refused", "end", "error", "broken"}
  BY <1>1 DEF Said
<1>9. WellFormed(res.sent, FALSE) /\ \E X : res.sent \in Seq(X)
  BY <1>6, WaitingIsWellFormed
<1> QED
  BY <1>6, <1>7, <1>8, <1>9 DEF ItemsInv

(***************************************************************************)
(* The items of a streamed response are added, used and done in that       *)
(* order, once, under one output_index each; when it is completed or has   *)
(* failed all of them are done, and [DONE] comes last: for answers of any  *)
(* number of pieces and calls, however they end.                           *)
(***************************************************************************)
THEOREM ItemsInTurn == Spec => []ItemsWellFormed
<1>1. ItemsInv => ItemsWellFormed
  BY ItemsAreWellFormed DEF ItemsInv, ItemsWellFormed
<1>2. MaxCalls \in Nat
  BY StreamsAssumption
<1> QED
  BY <1>1, <1>2, ItemsStart, ItemsStep, StoresApart, PTL DEF Api!Spec

----------------------------------------------------------------------------
(* What the events of a type give *)

Is(e, t) == e.t = t

(* Numbers that rise, and are those of a set *)
Rising(l, Ns) ==
  /\ l \in Lines /\ Ns \in SUBSET Int
  /\ \A a \in 1 .. Len(l) : l[a] \in Ns
  /\ \A x \in Ns : \E a \in 1 .. Len(l) : l[a] = x
  /\ \A a \in 1 .. Len(l) : \A b \in 1 .. Len(l) : a < b => l[a] < l[b]

Typed(s, t, A) ==
  \A k \in 1 .. Len(s) : Is(s[k], t) => s[k].of \in Lines /\ \A a \in 1 .. Len(s[k].of) : s[k].of[a] \in A

Covers(s, t, A) ==
  \A x \in A : \E k \in 1 .. Len(s) : Is(s[k], t) /\ \E a \in 1 .. Len(s[k].of) : s[k].of[a] = x

Rises(s, t) ==
  \A k \in 1 .. Len(s) : \A l \in 1 .. Len(s) : Is(s[k], t) /\ Is(s[l], t) =>
    \A a \in 1 .. Len(s[k].of) : \A b \in 1 .. Len(s[l].of) :
      k < l \/ (k = l /\ a < b) => s[k].of[a] < s[l].of[b]

(* The events of a type give the numbers of a set, each once, rising *)
Gives(s, t, A) == A \in SUBSET Int /\ Typed(s, t, A) /\ Covers(s, t, A) /\ Rises(s, t)

(* What is said later, with greater numbers, adds to what is given *)
LEMMA GivesMore ==
  ASSUME NEW X, NEW s \in Seq(X), NEW w \in Seq(X), NEW t, NEW A, NEW B,
         Gives(s, t, A), Gives(w, t, B), \A x \in A : \A y \in B : x < y
  PROVE  Gives(s \o w, t, A \cup B)
<1> DEFINE u == s \o w
           n == Len(s)
           m == Len(w)
<1>1. /\ n \in Nat /\ m \in Nat /\ Len(u) = n + m /\ Len(s) = n /\ Len(w) = m
      /\ \A k \in 1 .. n : u[k] = s[k]
  BY Continued
<1>2. \A k \in 1 .. m : u[n + k] = w[k]
  BY Continued
<1> HIDE DEF u, n, m
<1>3. ASSUME NEW k \in 1 .. Len(u)
      PROVE  k \in 1 .. n \/ \E i \in 1 .. m : k = n + i
  <2>1. CASE k > n
    <3>1. k - n \in 1 .. m /\ k = n + (k - n)
      BY <1>1, <2>1
    <3> QED
      BY <3>1
  <2> QED
    BY <1>1, <2>1
<1>4. (\A k \in 1 .. n : k \in 1 .. Len(u)) /\ \A i \in 1 .. m : n + i \in 1 .. Len(u)
  BY <1>1
<1>5. A \cup B \in SUBSET Int
  BY DEF Gives
<1>6. Typed(u, t, A \cup B)
  <2> SUFFICES ASSUME NEW k \in 1 .. Len(u), Is(u[k], t)
               PROVE  u[k].of \in Lines /\ \A a \in 1 .. Len(u[k].of) : u[k].of[a] \in A \cup B
    BY DEF Typed
  <2>1. CASE k \in 1 .. n
    BY <1>1, <2>1 DEF Gives, Typed
  <2>2. ASSUME NEW i \in 1 .. m, k = n + i
        PROVE  u[k].of \in Lines /\ \A a \in 1 .. Len(u[k].of) : u[k].of[a] \in A \cup B
    BY <1>1, <1>2, <2>2 DEF Gives, Typed
  <2> QED
    BY <1>3, <2>1, <2>2
<1>7. Covers(u, t, A \cup B)
  <2>1. ASSUME NEW x \in A
        PROVE  \E k \in 1 .. Len(u) : Is(u[k], t) /\ \E a \in 1 .. Len(u[k].of) : u[k].of[a] = x
    <3>1. PICK k \in 1 .. n : Is(s[k], t) /\ \E a \in 1 .. Len(s[k].of) : s[k].of[a] = x
      BY <1>1 DEF Gives, Covers
    <3> QED
      BY <1>1, <1>4, <3>1
  <2>2. ASSUME NEW x \in B
        PROVE  \E k \in 1 .. Len(u) : Is(u[k], t) /\ \E a \in 1 .. Len(u[k].of) : u[k].of[a] = x
    <3>1. PICK k \in 1 .. m : Is(w[k], t) /\ \E a \in 1 .. Len(w[k].of) : w[k].of[a] = x
      BY <1>1 DEF Gives, Covers
    <3> QED
      BY <1>2, <1>4, <3>1
  <2> QED
    BY <2>1, <2>2 DEF Covers
<1>8. Rises(u, t)
  <2> SUFFICES ASSUME NEW k \in 1 .. Len(u), NEW l \in 1 .. Len(u), Is(u[k], t), Is(u[l], t),
                      NEW a \in 1 .. Len(u[k].of), NEW b \in 1 .. Len(u[l].of),
                      k < l \/ (k = l /\ a < b)
               PROVE  u[k].of[a] < u[l].of[b]
    BY DEF Rises
  <2>1. CASE k \in 1 .. n /\ l \in 1 .. n
    <3>1. u[k] = s[k] /\ u[l] = s[l]
      BY <1>1, <2>1
    <3> QED
      BY <1>1, <2>1, <3>1 DEF Gives, Rises
  <2>2. ASSUME k \in 1 .. n, NEW i \in 1 .. m, l = n + i
        PROVE  u[k].of[a] < u[l].of[b]
    <3>1. u[k] = s[k] /\ u[l] = w[i]
      BY <1>1, <1>2, <2>2
    <3>2. u[k].of[a] \in A /\ u[l].of[b] \in B
      BY <1>1, <2>2, <3>1 DEF Gives, Typed
    <3> QED
      BY <3>2
  <2>3. ASSUME NEW i \in 1 .. m, NEW j \in 1 .. m, k = n + i, l = n + j
        PROVE  u[k].of[a] < u[l].of[b]
    <3>1. u[k] = w[i] /\ u[l] = w[j]
      BY <1>2, <2>3
    <3>2. i < j \/ (i = j /\ a < b)
      BY <1>1, <2>3
    <3> QED
      BY <1>1, <3>1, <3>2 DEF Gives, Rises
  <2>4. ASSUME NEW i \in 1 .. m, k = n + i, l \in 1 .. n
        PROVE  FALSE
    BY <1>1, <2>4
  <2> QED
    BY <1>3, <2>1, <2>2, <2>3, <2>4
<1> QED
  BY <1>5, <1>6, <1>7, <1>8 DEF Gives, u

(* One event, of the type or not *)
LEMMA GivesNext ==
  ASSUME NEW X, NEW s \in Seq(X), NEW e \in X, NEW t, NEW A, NEW B,
         Gives(s, t, A), Is(e, t), Rising(e.of, B), \A x \in A : \A y \in B : x < y
  PROVE  Gives(Append(s, e), t, A \cup B)
<1>1. <<e>> \in Seq(X) /\ Len(<<e>>) = 1 /\ <<e>>[1] = e
  OBVIOUS
<1>2. Gives(<<e>>, t, B)
  <2> DEFINE o == <<e>>
  <2>1. Len(o) = 1 /\ o[1] = e
    OBVIOUS
  <2>2. \A k \in 1 .. Len(o) : k = 1
    BY <2>1
  <2>3. 1 \in 1 .. Len(o)
    BY <2>1
  <2> HIDE DEF o
  <2>4. Typed(o, t, B)
    BY <2>1, <2>2 DEF Typed, Rising
  <2>5. Covers(o, t, B)
    BY <2>1, <2>3 DEF Covers, Rising
  <2>6. Rises(o, t)
    <3> SUFFICES ASSUME NEW k \in 1 .. Len(o), NEW l \in 1 .. Len(o),
                        NEW a \in 1 .. Len(o[k].of), NEW b \in 1 .. Len(o[l].of),
                        k < l \/ (k = l /\ a < b)
                 PROVE  o[k].of[a] < o[l].of[b]
      BY DEF Rises
    <3>1. k = 1 /\ l = 1
      BY <2>2
    <3>2. a < b
      BY <3>1
    <3> QED
      BY <2>1, <3>1, <3>2 DEF Rising
  <2> QED
    BY <2>4, <2>5, <2>6 DEF Gives, Rising, o
<1>3. Gives(s \o <<e>>, t, A \cup B)
  BY <1>1, <1>2, GivesMore
<1>4. s \o <<e>> = Append(s, e)
  OBVIOUS
<1> QED
  BY <1>3, <1>4

(* An event of another type gives none of it *)
LEMMA GivesSame ==
  ASSUME NEW X, NEW s \in Seq(X), NEW e \in X, NEW t, NEW A, Gives(s, t, A), ~Is(e, t)
  PROVE  Gives(Append(s, e), t, A)
<1> DEFINE o == <<e>>
<1>1. o \in Seq(X) /\ Len(o) = 1 /\ o[1] = e /\ \A k \in 1 .. Len(o) : k = 1
  OBVIOUS
<1> HIDE DEF o
<1>2. Gives(o, t, {})
  BY <1>1 DEF Gives, Typed, Covers, Rises
<1>3. Gives(s \o o, t, A \cup {})
  BY <1>1, <1>2, GivesMore
<1>4. s \o o = Append(s, e)
  BY DEF o
<1>5. A \cup {} = A
  OBVIOUS
<1> QED
  BY <1>3, <1>4, <1>5

(* Numbers that rise *)
LEMMA RisingOne == ASSUME NEW x \in Int PROVE Rising(<<x>>, {x})
BY DEF Rising, Lines

(* and a greater one after them *)
LEMMA RisingMore ==
  ASSUME NEW l, NEW Ns, Rising(l, Ns), NEW x \in Int, \A y \in Ns : y < x
  PROVE  Rising(Append(l, x), Ns \cup {x})
<1> DEFINE u == Append(l, x)
           n == Len(l)
<1>1. /\ u \in Seq(Int) /\ n \in Nat /\ Len(l) = n /\ Len(u) = n + 1 /\ u[n + 1] = x
      /\ \A a \in 1 .. n : u[a] = l[a]
  BY DEF Rising, Lines
<1> HIDE DEF u, n
<1>2. \A a \in 1 .. Len(u) : a \in 1 .. n \/ a = n + 1
  BY <1>1
<1>3. (\A a \in 1 .. n : a \in 1 .. Len(u)) /\ n + 1 \in 1 .. Len(u)
  BY <1>1
<1>4. \A a \in 1 .. Len(u) : u[a] \in Ns \cup {x}
  BY <1>1, <1>2 DEF Rising
<1>5. \A y \in Ns \cup {x} : \E a \in 1 .. Len(u) : u[a] = y
  <2>1. ASSUME NEW y \in Ns PROVE \E a \in 1 .. Len(u) : u[a] = y
    <3>1. PICK a \in 1 .. n : l[a] = y
      BY <1>1 DEF Rising
    <3> QED
      BY <1>1, <1>3, <3>1
  <2> QED
    BY <1>1, <1>3, <2>1
<1>6. ASSUME NEW a \in 1 .. Len(u), NEW b \in 1 .. Len(u), a < b
      PROVE  u[a] < u[b]
  <2>1. a \in 1 .. n
    BY <1>1, <1>2, <1>6
  <2>2. CASE b \in 1 .. n
    BY <1>1, <1>6, <2>1, <2>2 DEF Rising
  <2>3. CASE b = n + 1
    BY <1>1, <2>1, <2>3 DEF Rising
  <2> QED
    BY <1>2, <2>2, <2>3
<1>7. Ns \cup {x} \in SUBSET Int /\ u \in Lines
  BY <1>1 DEF Rising, Lines
<1> QED
  BY <1>4, <1>5, <1>6, <1>7 DEF Rising, u

(* A set of numbers, put in order *)
LEMMA RisingInOrder ==
  ASSUME NEW n \in Nat, NEW Ns \in SUBSET (1 .. n)
  PROVE  Rising(InOrder(Ns), Ns) /\ Len(InOrder(Ns)) = Cardinality(Ns)
<1>1. Ns \in SUBSET Int
  OBVIOUS
<1>2. /\ InOrder(Ns) \in Seq(Int) /\ Len(InOrder(Ns)) = Cardinality(Ns) /\ Cardinality(Ns) \in Nat
      /\ \A k \in 1 .. Cardinality(Ns) : InOrder(Ns)[k] \in Ns
      /\ \A i \in Ns : \E k \in 1 .. Cardinality(Ns) : InOrder(Ns)[k] = i
      /\ \A k, l \in 1 .. Cardinality(Ns) : k < l => InOrder(Ns)[k] < InOrder(Ns)[l]
  BY Ordered
<1> QED
  BY <1>1, <1>2 DEF Rising, Lines

(* It is what the properties say *)
LEMMA GivesIsTells ==
  ASSUME NEW X, NEW s \in Seq(X), NEW t, NEW A, Gives(s, t, A)
  PROVE  Api!Tells(s, t, A) /\ Api!Ascends(s, t) /\ Api!Told(s, t) = A
<1>1. DOMAIN s = 1 .. Len(s)
  OBVIOUS
<1>2. \A k \in 1 .. Len(s) : Is(s[k], t) => DOMAIN s[k].of = 1 .. Len(s[k].of)
  BY DEF Gives, Typed, Lines
<1>3. Api!Ascends(s, t)
  <2> SUFFICES ASSUME NEW k \in 1 .. Len(s), NEW l \in 1 .. Len(s), Is(s[k], t), Is(s[l], t),
                      NEW a \in DOMAIN s[k].of, NEW b \in DOMAIN s[l].of,
                      k < l \/ (k = l /\ a < b)
               PROVE  s[k].of[a] < s[l].of[b]
    BY <1>1 DEF Api!Ascends, Is
  <2>1. a \in 1 .. Len(s[k].of) /\ b \in 1 .. Len(s[l].of)
    BY <1>2
  <2> QED
    BY <2>1 DEF Gives, Rises
<1>4. ASSUME NEW x
      PROVE  x \in Api!Told(s, t) <=> x \in A
  <2>1. x \in Api!Told(s, t) <=> \E k \in 1 .. Len(s) : Is(s[k], t) /\ \E a \in DOMAIN s[k].of : s[k].of[a] = x
    BY <1>1 DEF Api!Told, Api!Range, Is
  <2>2. \A k \in 1 .. Len(s) : Is(s[k], t) => ((\E a \in DOMAIN s[k].of : s[k].of[a] = x) <=> (\E a \in 1 .. Len(s[k].of) : s[k].of[a] = x))
    BY <1>2
  <2> QED
    BY <2>1, <2>2 DEF Gives, Typed, Covers
<1>5. Api!Told(s, t) = A
  BY <1>4
<1> QED
  BY <1>3, <1>5 DEF Api!Tells

(* Where the elements of triples that are joined come from *)
LEMMA InTriples ==
  ASSUME NEW m \in Nat, NEW k \in 1 .. 3 * m
  PROVE  \E i \in 1 .. m : k \in {3 * i - 2, 3 * i - 1, 3 * i}
<1>1. (k + 2) \div 3 \in 1 .. m
  OBVIOUS
<1>2. k \in {3 * ((k + 2) \div 3) - 2, 3 * ((k + 2) \div 3) - 1, 3 * ((k + 2) \div 3)}
  OBVIOUS
<1> QED
  BY <1>1, <1>2

(* Triples of which the second gives one number each *)
LEMMA JoinedGives ==
  ASSUME NEW X, NEW q \in Seq(Seq(X)), NEW t, NEW l, NEW Ns, Rising(l, Ns), Len(q) = Len(l),
         \A i \in 1 .. Len(q) : /\ Len(q[i]) = 3 /\ ~Is(q[i][1], t) /\ ~Is(q[i][3], t)
                                /\ Is(q[i][2], t) /\ q[i][2].of = <<l[i]>>
  PROVE  Gives(Api!Joined(q), t, Ns)
<1> DEFINE u == Api!Joined(q)
           m == Len(q)
<1>1. /\ m \in Nat /\ Len(q) = m /\ Len(l) = m /\ u \in Seq(X) /\ Len(u) = 3 * m
      /\ \A i \in 1 .. m : u[3 * i - 2] = q[i][1] /\ u[3 * i - 1] = q[i][2] /\ u[3 * i] = q[i][3]
  BY JoinedTriples
<1> HIDE DEF u, m
<1>2. ASSUME NEW i \in 1 .. m
      PROVE  l[i] \in Int /\ l[i] \in Ns /\ <<l[i]>> \in Lines
  <2>1. l[i] \in Ns /\ l[i] \in Int
    BY <1>1 DEF Rising
  <2> QED
    BY <2>1 DEF Lines
<1>3. ASSUME NEW k \in 1 .. Len(u), Is(u[k], t)
      PROVE  \E i \in 1 .. m : k = 3 * i - 1 /\ u[k].of = <<l[i]>>
  <2>1. PICK i \in 1 .. m : k \in {3 * i - 2, 3 * i - 1, 3 * i}
    BY <1>1, InTriples
  <2>2. u[3 * i - 2] = q[i][1] /\ u[3 * i - 1] = q[i][2] /\ u[3 * i] = q[i][3]
    BY <1>1
  <2>3. ~Is(u[3 * i - 2], t) /\ ~Is(u[3 * i], t) /\ u[3 * i - 1].of = <<l[i]>>
    BY <1>1, <2>2
  <2>4. k = 3 * i - 1
    BY <1>3, <2>1, <2>3
  <2> QED
    BY <2>3, <2>4
<1>4. Typed(u, t, Ns)
  <2> SUFFICES ASSUME NEW k \in 1 .. Len(u), Is(u[k], t)
               PROVE  u[k].of \in Lines /\ \A a \in 1 .. Len(u[k].of) : u[k].of[a] \in Ns
    BY DEF Typed
  <2>1. PICK i \in 1 .. m : u[k].of = <<l[i]>>
    BY <1>3
  <2>2. \A a \in 1 .. Len(<<l[i]>>) : <<l[i]>>[a] = l[i]
    OBVIOUS
  <2> QED
    BY <1>2, <2>1, <2>2
<1>5. Covers(u, t, Ns)
  <2> SUFFICES ASSUME NEW x \in Ns
               PROVE  \E k \in 1 .. Len(u) : Is(u[k], t) /\ \E a \in 1 .. Len(u[k].of) : u[k].of[a] = x
    BY DEF Covers
  <2>1. PICK i \in 1 .. m : l[i] = x
    BY <1>1 DEF Rising
  <2>2. 3 * i - 1 \in 1 .. Len(u) /\ Is(u[3 * i - 1], t) /\ u[3 * i - 1].of = <<x>>
    BY <1>1, <2>1
  <2>3. 1 \in 1 .. Len(<<x>>) /\ <<x>>[1] = x
    OBVIOUS
  <2> QED
    BY <2>2, <2>3
<1>6. Rises(u, t)
  <2> SUFFICES ASSUME NEW k \in 1 .. Len(u), NEW j \in 1 .. Len(u), Is(u[k], t), Is(u[j], t),
                      NEW a \in 1 .. Len(u[k].of), NEW b \in 1 .. Len(u[j].of),
                      k < j \/ (k = j /\ a < b)
               PROVE  u[k].of[a] < u[j].of[b]
    BY DEF Rises
  <2>1. PICK i \in 1 .. m : k = 3 * i - 1 /\ u[k].of = <<l[i]>>
    BY <1>3
  <2>2. PICK h \in 1 .. m : j = 3 * h - 1 /\ u[j].of = <<l[h]>>
    BY <1>3
  <2>3. a = 1 /\ b = 1 /\ u[k].of[a] = l[i] /\ u[j].of[b] = l[h]
    BY <2>1, <2>2
  <2>4. i < h
    BY <1>1, <2>1, <2>2, <2>3
  <2> QED
    BY <1>1, <2>3, <2>4 DEF Rising
<1> QED
  BY <1>4, <1>5, <1>6 DEF Gives, Rising, u

(* and triples without events of the type *)
LEMMA JoinedSilent ==
  ASSUME NEW X, NEW q \in Seq(Seq(X)), NEW t,
         \A i \in 1 .. Len(q) : Len(q[i]) = 3 /\ \A p \in 1 .. 3 : ~Is(q[i][p], t)
  PROVE  Gives(Api!Joined(q), t, {})
<1> DEFINE u == Api!Joined(q)
           m == Len(q)
<1>1. /\ m \in Nat /\ Len(q) = m /\ Len(u) = 3 * m
      /\ \A i \in 1 .. m : u[3 * i - 2] = q[i][1] /\ u[3 * i - 1] = q[i][2] /\ u[3 * i] = q[i][3]
  BY JoinedTriples
<1> HIDE DEF u, m
<1>2. ASSUME NEW k \in 1 .. Len(u), Is(u[k], t)
      PROVE  FALSE
  <2>1. PICK i \in 1 .. m : k \in {3 * i - 2, 3 * i - 1, 3 * i}
    BY <1>1, InTriples
  <2>2. 1 \in 1 .. 3 /\ 2 \in 1 .. 3 /\ 3 \in 1 .. 3
    OBVIOUS
  <2> QED
    BY <1>1, <1>2, <2>1, <2>2
<1> QED
  BY <1>2 DEF Gives, Typed, Covers, Rises, u

(* What the events of calls give: the calls, and no text *)
LEMMA CallEventsGive ==
  ASSUME NEW next \in Nat, NEW n \in Nat, NEW cs \in SUBSET (1 .. n)
  PROVE  LET w == Api!Joined(CallsFrom(next, cs))
         IN  /\ w \in Seq(ItemEvents) /\ Gives(w, "call", cs)
             /\ Gives(w, "text", {}) /\ Gives(w, "text done", {})
<1> DEFINE c == Cardinality(cs)
           q == CallsFrom(next, cs)
           l == InOrder(cs)
           out(i) == next + i - 1
           e1(i) == Api!Event("item added", out(i))
           e2(i) == [Api!Event("call", out(i)) EXCEPT !.of = <<l[i]>>]
           e3(i) == Api!Event("item done", out(i))
<1>1. Triples(q, next) /\ Len(q) = c /\ c \in Nat
  BY CallsAreTriples
<1>2. q \in Seq(Seq(ItemEvents)) /\ \A i \in 1 .. c : Len(q[i]) = 3
  BY <1>1 DEF Triples
<1>3. Rising(l, cs) /\ Len(l) = c
  BY RisingInOrder
<1>4. ASSUME NEW i \in 1 .. c
      PROVE  q[i] = <<e1(i), e2(i), e3(i)>>
  BY <1>4 DEF CallsFrom, Api!CallEvents
<1>5. ASSUME NEW i
      PROVE  /\ Is(e1(i), "item added") /\ Is(e2(i), "call") /\ Is(e3(i), "item done") /\ e2(i).of = <<l[i]>>
             /\ \A t \in {"call", "text", "text done"} : ~Is(e1(i), t) /\ ~Is(e3(i), t)
             /\ \A t \in {"text", "text done"} : ~Is(e2(i), t)
  BY DEF Is, Api!Event
<1> HIDE DEF e1, e2, e3, q, c, l
<1>6. ASSUME NEW i \in 1 .. c
      PROVE  /\ Len(q[i]) = 3 /\ ~Is(q[i][1], "call") /\ ~Is(q[i][3], "call")
             /\ Is(q[i][2], "call") /\ q[i][2].of = <<l[i]>>
             /\ \A p \in 1 .. 3 : ~Is(q[i][p], "text") /\ ~Is(q[i][p], "text done")
  <2>1. q[i][1] = e1(i) /\ q[i][2] = e2(i) /\ q[i][3] = e3(i)
    BY <1>4
  <2>2. /\ ~Is(e1(i), "text") /\ ~Is(e2(i), "text") /\ ~Is(e3(i), "text")
        /\ ~Is(e1(i), "text done") /\ ~Is(e2(i), "text done") /\ ~Is(e3(i), "text done")
        /\ ~Is(e1(i), "call") /\ Is(e2(i), "call") /\ ~Is(e3(i), "call") /\ e2(i).of = <<l[i]>>
    BY <1>5
  <2>3. \A p \in 1 .. 3 : p = 1 \/ p = 2 \/ p = 3
    OBVIOUS
  <2> QED
    BY <1>2, <2>1, <2>2, <2>3
<1>7. Gives(Api!Joined(q), "call", cs)
  BY <1>1, <1>2, <1>3, <1>6, JoinedGives
<1>8. Gives(Api!Joined(q), "text", {}) /\ Gives(Api!Joined(q), "text done", {})
  BY <1>1, <1>2, <1>6, JoinedSilent
<1>9. Api!Joined(q) \in Seq(ItemEvents)
  BY <1>1, <1>2, JoinedTriples
<1> QED
  BY <1>7, <1>8, <1>9 DEF q

(* emitFunctionCallDoneEvents *)
LEMMA CallsGive ==
  ASSUME NEW s \in ResponseStates, s.calls = <<>>, NEW n \in Nat, NEW cs \in SUBSET (1 .. n),
         NEW A, Gives(s.sent, "call", A), \A x \in A : \A y \in cs : x < y
  PROVE  LET v == Api!CallsDone(s, cs)
         IN  /\ Gives(v.sent, "call", A \cup cs)
             /\ \A t \in {"text", "text done"} : \A B : Gives(s.sent, t, B) => Gives(v.sent, t, B)
<1> DEFINE v == Api!CallsDone(s, cs)
           w == Api!Joined(CallsFrom(s.next, cs))
<1>1. s.next \in Nat /\ s.sent \in Seq(ItemEvents)
  BY DEF ResponseStates, ItemLists
<1>2. v.sent = s.sent \o w
  BY CallsGiven
<1>3. /\ w \in Seq(ItemEvents) /\ Gives(w, "call", cs)
      /\ Gives(w, "text", {}) /\ Gives(w, "text done", {})
  BY <1>1, CallEventsGive
<1> HIDE DEF v, w
<1>4. Gives(s.sent \o w, "call", A \cup cs)
  BY <1>1, <1>3, GivesMore
<1>5. ASSUME NEW t \in {"text", "text done"}, NEW B, Gives(s.sent, t, B)
      PROVE  Gives(s.sent \o w, t, B)
  <2>1. Gives(w, t, {})
    BY <1>3
  <2>2. Gives(s.sent \o w, t, B \cup {})
    BY <1>1, <1>3, <1>5, <2>1, GivesMore
  <2>3. B \cup {} = B
    OBVIOUS
  <2> QED
    BY <2>2, <2>3
<1> QED
  BY <1>2, <1>4, <1>5 DEF v

(* One triple, whose second gives what is to be given *)
LEMMA JoinedOne ==
  ASSUME NEW X, NEW b \in Seq(X), Len(b) = 3, NEW t, NEW Ns,
         ~Is(b[1], t), Is(b[2], t), Rising(b[2].of, Ns), ~Is(b[3], t)
  PROVE  Gives(Api!Joined(<<b>>), t, Ns)
<1> DEFINE q == <<b>>
           u == Api!Joined(q)
<1>1. q \in Seq(Seq(X)) /\ Len(q) = 1 /\ q[1] = b
  OBVIOUS
<1> HIDE DEF q
<1>2. \A i \in 1 .. Len(q) : i = 1
  BY <1>1
<1>3. \A i \in 1 .. Len(q) : Len(q[i]) = 3
  BY <1>1, <1>2
<1> DEFINE m == Len(q)
<1>16. /\ m = 1 /\ u \in Seq(X) /\ Len(u) = 3 * m
       /\ \A i \in 1 .. m : u[3 * i - 2] = q[i][1] /\ u[3 * i - 1] = q[i][2] /\ u[3 * i] = q[i][3]
  BY <1>1, <1>3, JoinedTriples
<1> HIDE DEF u, m
<1>4. u \in Seq(X) /\ Len(u) = 3 /\ u[1] = b[1] /\ u[2] = b[2] /\ u[3] = b[3]
  <2>1. 1 \in 1 .. m
    BY <1>16
  <2>2. u[3 * 1 - 2] = q[1][1] /\ u[3 * 1 - 1] = q[1][2] /\ u[3 * 1] = q[1][3]
    BY <1>16, <2>1
  <2> QED
    BY <1>1, <1>16, <2>2
<1>5. b[1] \in X /\ b[2] \in X /\ b[3] \in X
  <2>1. 1 \in 1 .. Len(b) /\ 2 \in 1 .. Len(b) /\ 3 \in 1 .. Len(b)
    OBVIOUS
  <2>2. \A i \in 1 .. Len(b) : b[i] \in X
    OBVIOUS
  <2> QED
    BY <2>1, <2>2
<1>6. u = Append(Append(Append(<<>>, b[1]), b[2]), b[3])
  BY <1>4
<1>7. <<>> \in Seq(X) /\ Gives(<<>>, t, {})
  BY DEF Gives, Typed, Covers, Rises
<1>8. Append(<<>>, b[1]) \in Seq(X)
  BY <1>5, <1>7, AppendProperties
<1>9. PICK v \in Seq(X) : v = Append(<<>>, b[1])
  BY <1>8
<1>15. Gives(Append(<<>>, b[1]), t, {})
  BY <1>5, <1>7, GivesSame
<1>10. Gives(Append(v, b[2]), t, {} \cup Ns)
  BY <1>5, <1>9, <1>15, GivesNext
<1>11. PICK w \in Seq(X) : w = Append(v, b[2])
  BY <1>5, AppendProperties
<1>12. {} \cup Ns = Ns
  OBVIOUS
<1>13. Gives(w, t, Ns)
  BY <1>10, <1>11, <1>12
<1>14. Gives(Append(w, b[3]), t, Ns)
  BY <1>5, <1>13, GivesSame
<1> QED
  BY <1>6, <1>9, <1>11, <1>14 DEF q, u

(* One event for each number *)
LEMMA EachGives ==
  ASSUME NEW X, NEW u \in Seq(X), NEW t, NEW l, NEW Ns, Rising(l, Ns), Len(u) = Len(l),
         \A i \in 1 .. Len(u) : Is(u[i], t) /\ u[i].of = <<l[i]>>
  PROVE  Gives(u, t, Ns)
<1> DEFINE n == Len(u)
<1>1. n \in Nat /\ Len(u) = n /\ Len(l) = n
  OBVIOUS
<1> HIDE DEF n
<1>2. ASSUME NEW i \in 1 .. n
      PROVE  l[i] \in Ns /\ <<l[i]>> \in Lines /\ Len(<<l[i]>>) = 1 /\ <<l[i]>>[1] = l[i]
  <2>1. l[i] \in Ns /\ l[i] \in Int
    BY <1>1 DEF Rising
  <2> QED
    BY <2>1 DEF Lines
<1>3. Typed(u, t, Ns)
  <2> SUFFICES ASSUME NEW k \in 1 .. Len(u)
               PROVE  u[k].of \in Lines /\ \A a \in 1 .. Len(u[k].of) : u[k].of[a] \in Ns
    BY DEF Typed
  <2>1. k \in 1 .. n /\ u[k].of = <<l[k]>>
    BY <1>1
  <2>2. \A a \in 1 .. Len(<<l[k]>>) : <<l[k]>>[a] = l[k]
    OBVIOUS
  <2> QED
    BY <1>2, <2>1, <2>2
<1>4. Covers(u, t, Ns)
  <2> SUFFICES ASSUME NEW x \in Ns
               PROVE  \E k \in 1 .. Len(u) : Is(u[k], t) /\ \E a \in 1 .. Len(u[k].of) : u[k].of[a] = x
    BY DEF Covers
  <2>1. PICK i \in 1 .. n : l[i] = x
    BY <1>1 DEF Rising
  <2>2. i \in 1 .. Len(u) /\ Is(u[i], t) /\ u[i].of = <<x>>
    BY <1>1, <2>1
  <2>3. 1 \in 1 .. Len(<<x>>) /\ <<x>>[1] = x
    OBVIOUS
  <2> QED
    BY <2>2, <2>3
<1>5. Rises(u, t)
  <2> SUFFICES ASSUME NEW k \in 1 .. Len(u), NEW j \in 1 .. Len(u),
                      NEW a \in 1 .. Len(u[k].of), NEW b \in 1 .. Len(u[j].of),
                      k < j \/ (k = j /\ a < b)
               PROVE  u[k].of[a] < u[j].of[b]
    BY DEF Rises
  <2>1. k \in 1 .. n /\ j \in 1 .. n /\ u[k].of = <<l[k]>> /\ u[j].of = <<l[j]>>
    BY <1>1
  <2>2. a = 1 /\ b = 1 /\ u[k].of[a] = l[k] /\ u[j].of[b] = l[j]
    BY <2>1
  <2>3. k < j
    BY <2>2
  <2> QED
    BY <1>1, <2>1, <2>2, <2>3 DEF Rising
<1> QED
  BY <1>3, <1>4, <1>5 DEF Gives, Rising

----------------------------------------------------------------------------
(* The numbers of calls *)

(* of later pieces are greater *)
LEMMA PiecesAscend ==
  ASSUME NEW M \in Nat \ {0}, NEW x \in Nat \ {0}, NEW y \in Nat \ {0}, x >= y
  PROVE  (x - 1) \div M >= (y - 1) \div M
<1> DEFINE p == (x - 1) \div M
           q == (y - 1) \div M
<1>1. p \in Nat /\ x - 1 < M * (p + 1)
  OBVIOUS
<1>2. q \in Nat /\ M * q <= y - 1
  OBVIOUS
<1> HIDE DEF p, q
<1>3. ASSUME p < q
      PROVE  FALSE
  <2>1. M * (p + 1) <= M * q
    BY <1>1, <1>2, <1>3
  <2>2. M * (p + 1) \in Int /\ M * q \in Int
    BY <1>1, <1>2
  <2> QED
    BY <1>1, <1>2, <2>1, <2>2
<1>4. p >= q
  BY <1>1, <1>2, <1>3
<1> QED
  BY <1>4 DEF p, q

(* The first call of a piece *)
LEMMA FirstNumber ==
  ASSUME NEW M \in Nat \ {0}, NEW j \in Nat \ {0}, NEW L \in Nat, j <= L
  PROVE  LET n == (j - 1) * M + 1
         IN  n \in 1 .. L * M /\ (n - 1) \div M = j - 1 /\ (n - 1) % M = 0
<1> DEFINE i == j - 1
           z == i * M
<1>1. i \in Nat /\ i + 1 <= L /\ z \in Nat /\ z + 1 - 1 = z
  OBVIOUS
<1>2. z \div M = i
  BY <1>1
<1>3. z % M = 0
  BY <1>1
<1>4. z + M <= L * M
  BY <1>1
<1> HIDE DEF z
<1>5. z + 1 <= L * M
  BY <1>1, <1>4
<1>6. z + 1 \in 1 .. L * M
  BY <1>1, <1>5
<1> QED
  BY <1>1, <1>2, <1>3, <1>6 DEF z

(* The numbers of a piece end with it *)
LEMMA LastNumber ==
  ASSUME NEW M \in Nat \ {0}, NEW n \in Nat \ {0}, NEW L \in Nat, 1 + ((n - 1) \div M) <= L
  PROVE  n <= L * M
<1> DEFINE p == (n - 1) \div M
<1>1. p \in Nat /\ n - 1 < M * (p + 1) /\ p + 1 <= L
  OBVIOUS
<1> HIDE DEF p
<1>2. M * (p + 1) <= M * L
  BY <1>1
<1>3. M * (p + 1) \in Int /\ M * L \in Int /\ M * L = L * M
  BY <1>1
<1> QED
  BY <1>1, <1>2, <1>3

(* The calls of a piece, each path once *)
Once(j) == Api!Deduped(Api!Calls({j}))

(* The calls that have been given, but for those of the block that waits *)
CallsSoFar(pending) == UNION {Once(j) : j \in {j \in Api!Pieces({"block"}) : ask.tools /\ j \notin pending}}

(* What the streamed response shows of the text before the end *)
TextSoFar == IF ask.tools THEN Api!Pieces({"text"}) ELSE Api!Written

(* A call has a number, and a place in a piece of the answer *)
LEMMA CallsNumbered ==
  ASSUME Said, MaxCalls \in Nat, NEW js, NEW n \in Api!Calls(js)
  PROVE  /\ Numbers \in Nat /\ MaxCalls \in Nat \ {0} /\ n \in Nat \ {0} /\ n \in 1 .. Numbers
         /\ Api!PieceOf(n) \in js /\ Api!PlaceOf(n) \in DOMAIN said[Api!PieceOf(n)].calls
<1>1. n \in 1 .. Numbers /\ Len(said) \in Nat /\ Numbers \in Nat
  BY CallsOfAnswer DEF Api!Calls, Numbers
<1>2. MaxCalls # 0
  <2>1. ASSUME MaxCalls = 0
        PROVE  FALSE
    <3>1. Numbers = 0
      BY <1>1, <2>1 DEF Numbers
    <3> QED
      BY <1>1, <3>1
  <2> QED
    BY <2>1
<1> QED
  BY <1>1, <1>2 DEF Api!Calls

(* Calls of later pieces have greater numbers *)
LEMMA CallsAscend ==
  ASSUME Said, MaxCalls \in Nat, NEW is \in SUBSET Int, NEW js \in SUBSET Int,
         \A i \in is : \A j \in js : i < j,
         NEW x \in Api!Calls(is), NEW y \in Api!Calls(js)
  PROVE  x < y
<1>1. /\ MaxCalls \in Nat \ {0} /\ x \in Nat \ {0} /\ y \in Nat \ {0}
      /\ Api!PieceOf(x) \in is /\ Api!PieceOf(y) \in js
  BY CallsNumbered
<1>2. ASSUME x >= y
      PROVE  FALSE
  <2> DEFINE p == (x - 1) \div MaxCalls
             q == (y - 1) \div MaxCalls
  <2>1. p >= q
    BY <1>1, <1>2, PiecesAscend
  <2>2. p \in Int /\ q \in Int
    <3>1. PICK a \in Nat : a = x - 1
      BY <1>1
    <3>2. PICK b \in Nat : b = y - 1
      BY <1>1
    <3>3. PICK m \in Nat \ {0} : m = MaxCalls
      BY <1>1
    <3>4. a \div m \in Int /\ b \div m \in Int
      OBVIOUS
    <3> QED
      BY <3>1, <3>2, <3>3, <3>4
  <2>3. 1 + p < 1 + q
    BY <1>1 DEF Api!PieceOf
  <2> HIDE DEF p, q
  <2> QED
    BY <2>1, <2>2, <2>3
<1> QED
  BY <1>1, <1>2

(* What is kept of some calls *)
LEMMA KeptIsPart == \A cs : Api!Deduped(cs) \in SUBSET cs
BY DEF Api!Deduped

(* Of some calls the first is kept *)
LEMMA FirstIsKept ==
  ASSUME NEW n \in Nat, NEW cs \in SUBSET (1 .. n), cs # {}
  PROVE  Api!Deduped(cs) # {}
<1> DEFINE l == InOrder(cs)
           c == Cardinality(cs)
<1>1. /\ l \in Seq(Int) /\ Len(l) = c /\ c \in Nat /\ \A k \in 1 .. c : l[k] \in cs
      /\ \A i \in cs : \E k \in 1 .. c : l[k] = i
      /\ \A k, m \in 1 .. c : k < m => l[k] < l[m]
  BY Ordered
<1> HIDE DEF l, c
<1>2. 1 \in 1 .. c
  <2>1. PICK i \in cs : TRUE
    OBVIOUS
  <2>2. PICK k \in 1 .. c : l[k] = i
    BY <1>1
  <2> QED
    BY <1>1, <2>2
<1>3. l[1] \in cs /\ l[1] \in Int /\ \A i \in cs : i \in Int
  BY <1>1, <1>2
<1>4. ASSUME NEW i \in cs
      PROVE  l[1] <= i
  <2>1. PICK k \in 1 .. c : l[k] = i
    BY <1>1
  <2>2. CASE k = 1
    BY <1>3, <2>1, <2>2
  <2>3. CASE k # 1
    <3>1. 1 < k
      BY <1>1, <2>3
    <3>2. l[1] < i
      BY <1>1, <1>2, <2>1, <3>1
    <3> QED
      BY <1>3, <3>2
  <2> QED
    BY <2>2, <2>3
<1>5. l[1] \in Api!Deduped(cs)
  BY <1>3, <1>4 DEF Api!Deduped
<1> QED
  BY <1>5

(* Pieces of the answer *)
LEMMA PiecesNumbered ==
  ASSUME Said
  PROVE  /\ Len(said) \in Nat /\ DOMAIN said = 1 .. Len(said)
         /\ \A kinds : Api!Pieces(kinds) \in SUBSET (1 .. Len(said))
         /\ \A kinds : \A j : j \in Api!Pieces(kinds) <=> j \in 1 .. Len(said) /\ said[j].k \in kinds
<1>1. Len(said) \in Nat /\ DOMAIN said = 1 .. Len(said)
  BY DEF Said
<1> QED
  BY <1>1 DEF Api!Pieces

(* A piece that is no thinking and no text has calls *)
LEMMA BlockHasCalls ==
  ASSUME Said, MaxCalls \in Nat, NEW j \in Api!Pieces({"block"})
  PROVE  Api!Calls({j}) # {} /\ MaxCalls \in Nat \ {0}
<1>1. Len(said) \in Nat /\ j \in 1 .. Len(said) /\ said[j].k = "block" /\ DOMAIN said = 1 .. Len(said)
  BY PiecesNumbered
<1>2. said[j] \in Api!Kinds
  BY <1>1 DEF Said
<1>3. PICK m \in 0 .. MaxCalls : said[j].calls \in [1 .. m -> Paths \cup {None}] /\ said[j].calls # <<>>
  <2>1. said[j] \in Api!Texts /\ said[j].calls # <<>>
    BY <1>1, <1>2 DEF Api!Kinds
  <2> QED
    BY <2>1 DEF Api!Texts, Api!BoundedSeq, Api!SeqOf
<1>4. m # 0
  <2>1. ASSUME m = 0
        PROVE  FALSE
    <3>1. said[j].calls \in [1 .. 0 -> Paths \cup {None}]
      BY <1>3, <2>1
    <3>2. said[j].calls = <<>>
      BY <3>1
    <3> QED
      BY <1>3, <3>2
  <2> QED
    BY <2>1
<1>5. MaxCalls \in Nat \ {0} /\ 1 \in DOMAIN said[j].calls
  BY <1>3, <1>4
<1> DEFINE n == (j - 1) * MaxCalls + 1
<1>6. n \in 1 .. Len(said) * MaxCalls /\ (n - 1) \div MaxCalls = j - 1 /\ (n - 1) % MaxCalls = 0
  BY <1>1, <1>5, FirstNumber
<1> HIDE DEF n
<1>7. Api!PieceOf(n) = j /\ Api!PlaceOf(n) = 1
  BY <1>1, <1>6 DEF Api!PieceOf, Api!PlaceOf
<1>8. n \in Api!Calls({j})
  BY <1>5, <1>6, <1>7 DEF Api!Calls
<1> QED
  BY <1>5, <1>8

(* What a piece more leaves as it was *)
LEMMA PiecesGrow ==
  ASSUME Said, NEW p \in Api!Kinds, said' = Append(said, p)
  PROVE  /\ Said' /\ Len(said') = Len(said) + 1 /\ said'[Len(said) + 1] = p
         /\ \A j \in 1 .. Len(said) : said'[j] = said[j]
         /\ \A kinds : Api!Pieces(kinds)' =
              IF p.k \in kinds THEN Api!Pieces(kinds) \cup {Len(said) + 1} ELSE Api!Pieces(kinds)
<1> DEFINE L == Len(said)
<1>1. said \in Seq(Api!Kinds) /\ L \in Nat /\ DOMAIN said = 1 .. L
  BY DEF Said
<1>2. /\ said' \in Seq(Api!Kinds) /\ Len(said') = L + 1 /\ said'[L + 1] = p /\ DOMAIN said' = 1 .. L + 1
      /\ \A j \in 1 .. L : said'[j] = said[j]
  BY <1>1, AppendProperties
<1>3. Said'
  <2>1. Api!Kinds' = Api!Kinds
    BY DEF Api!Kinds, Api!Texts
  <2> QED
    BY <1>2, <2>1 DEF Said
<1> HIDE DEF L
<1>4. ASSUME NEW kinds
      PROVE  Api!Pieces(kinds)' = IF p.k \in kinds THEN Api!Pieces(kinds) \cup {L + 1} ELSE Api!Pieces(kinds)
  <2>1. Api!Pieces(kinds) = {j \in 1 .. L : said[j].k \in kinds}
    BY <1>1 DEF Api!Pieces
  <2>2. Api!Pieces(kinds)' = {j \in 1 .. L + 1 : said'[j].k \in kinds}
    BY <1>2 DEF Api!Pieces
  <2>3. 1 .. L + 1 = (1 .. L) \cup {L + 1} /\ L + 1 \notin 1 .. L
    BY <1>1
  <2> QED
    BY <1>2, <2>1, <2>2, <2>3
<1> QED
  BY <1>2, <1>3, <1>4 DEF L

(* The calls of a piece do not change when another one comes *)
LEMMA OnceStays ==
  ASSUME Said, MaxCalls \in Nat, NEW p \in Api!Kinds, said' = Append(said, p), NEW j \in 1 .. Len(said)
  PROVE  Once(j)' = Once(j)
<1>1. /\ Len(said) \in Nat /\ Len(said') = Len(said) + 1 /\ Said'
      /\ \A i \in 1 .. Len(said) : said'[i] = said[i]
  BY PiecesGrow, PiecesNumbered
<1>2. \A n : Api!PieceOf(n)' = Api!PieceOf(n) /\ Api!PlaceOf(n)' = Api!PlaceOf(n)
  BY DEF Api!PieceOf, Api!PlaceOf
<1>3. ASSUME NEW n \in Api!Calls({j})
      PROVE  n \in Api!Calls({j})' /\ Api!PathOf(n)' = Api!PathOf(n)
  <2>1. /\ MaxCalls \in Nat \ {0} /\ n \in 1 .. Numbers
        /\ Api!PieceOf(n) = j /\ Api!PlaceOf(n) \in DOMAIN said[j].calls
    BY CallsNumbered
  <2>2. n \in 1 .. (Len(said) + 1) * MaxCalls
    <3>1. (Len(said) + 1) * MaxCalls = Len(said) * MaxCalls + MaxCalls
      BY <1>1, <2>1
    <3>2. Numbers \in Nat /\ Numbers = Len(said) * MaxCalls
      BY CallsOfAnswer DEF Numbers
    <3> HIDE DEF Numbers
    <3>3. n \in Nat /\ 1 <= n /\ n <= Numbers + MaxCalls
      BY <2>1, <3>2
    <3>4. Numbers + MaxCalls = (Len(said) + 1) * MaxCalls
      BY <3>1, <3>2
    <3> QED
      BY <2>1, <3>2, <3>3, <3>4
  <2>3. said'[j] = said[j]
    BY <1>1
  <2>4. n \in Api!Calls({j})'
    BY <1>1, <1>2, <2>1, <2>2, <2>3 DEF Api!Calls
  <2>5. Api!PathOf(n)' = Api!PathOf(n)
    BY <1>2, <2>1, <2>3 DEF Api!PathOf
  <2> QED
    BY <2>4, <2>5
<1>4. ASSUME NEW n \in Api!Calls({j})'
      PROVE  n \in Api!Calls({j})
  <2>1. /\ n \in 1 .. Len(said') * MaxCalls /\ Api!PieceOf(n) = j
        /\ Api!PlaceOf(n) \in DOMAIN said'[j].calls
    BY <1>2 DEF Api!Calls
  <2>2. said'[j] = said[j] /\ n \in Nat \ {0}
    BY <1>1, <2>1
  <2>3. MaxCalls \in Nat \ {0}
    <3>1. ASSUME MaxCalls = 0
          PROVE  FALSE
      <4>1. Len(said') * MaxCalls = 0
        BY <1>1, <3>1
      <4> QED
        BY <2>1, <4>1
    <3> QED
      BY <3>1
  <2>4. 1 + ((n - 1) \div MaxCalls) <= Len(said)
    BY <1>1, <2>1 DEF Api!PieceOf
  <2>5. n <= Len(said) * MaxCalls
    BY <1>1, <2>2, <2>3, <2>4, LastNumber
  <2>6. Len(said) * MaxCalls \in Nat
    BY <1>1
  <2>7. n \in 1 .. Len(said) * MaxCalls
    BY <2>2, <2>5, <2>6
  <2> QED
    BY <2>1, <2>2, <2>7 DEF Api!Calls
<1>5. Api!Calls({j})' = Api!Calls({j})
  BY <1>3, <1>4
<1> QED
  BY <1>3, <1>5 DEF Once, Api!Deduped

----------------------------------------------------------------------------
(* What a streamed response has told *)

Called(s, Ds) == IF Ds = {} THEN s.called = FALSE ELSE s.called = TRUE

Telling(s, Ts, Ds) ==
  /\ s \in ResponseStates
  /\ Gives(s.sent, "text", Ts) /\ Gives(s.sent, "text done", {}) /\ Gives(s.sent, "call", Ds)
  /\ Rising(s.shown, Ts) /\ (s.message < 0 => s.shown = <<>>) /\ Called(s, Ds)

(* The type of an event *)
LEMMA EventIs ==
  ASSUME NEW t, NEW out, NEW x, NEW u
  PROVE  /\ Is(Api!Event(t, out), u) <=> t = u
         /\ Is([Api!Event(t, out) EXCEPT !.of = x], u) <=> t = u
         /\ [Api!Event(t, out) EXCEPT !.of = x].of = x
         /\ [Api!Event(t, out) EXCEPT !.of = x].out = out
BY DEF Is, Api!Event

(* A block of an answer, and what it gives *)
LEMMA BlockIs ==
  ASSUME NEW t, NEW i, NEW x, NEW u
  PROVE  /\ Is(Api!Block(t, i), u) <=> t = u
         /\ Is([Api!Block(t, i) EXCEPT !.of = x], u) <=> t = u
         /\ [Api!Block(t, i) EXCEPT !.of = x].of = x
BY DEF Is, Api!Block

(* An event that gives no text and no call *)
LEMMA TellsOther ==
  ASSUME NEW s, NEW Ts, NEW Ds, Telling(s, Ts, Ds), NEW e \in ItemEvents,
         ~Is(e, "text"), ~Is(e, "text done"), ~Is(e, "call")
  PROVE  LET v == Api!Say(s, e)
         IN  /\ Telling(v, Ts, Ds) /\ v.message = s.message /\ v.calls = s.calls /\ v.pending = s.pending
             /\ v.shown = s.shown /\ v.sent = Append(s.sent, e)
<1> DEFINE v == Api!Say(s, e)
<1>1. s \in ResponseStates /\ s.sent \in Seq(ItemEvents)
  BY DEF Telling, ResponseStates, ItemLists
<1>2. /\ v \in ResponseStates /\ v.sent = Append(s.sent, e) /\ v.message = s.message
      /\ v.calls = s.calls /\ v.called = s.called /\ v.shown = s.shown /\ v.pending = s.pending
  BY <1>1, SaidFields
<1> HIDE DEF v
<1>3. Gives(Append(s.sent, e), "text", Ts)
  BY <1>1, GivesSame DEF Telling
<1>4. Gives(Append(s.sent, e), "text done", {})
  BY <1>1, GivesSame DEF Telling
<1>5. Gives(Append(s.sent, e), "call", Ds)
  BY <1>1, GivesSame DEF Telling
<1>6. Telling(v, Ts, Ds)
  BY <1>2, <1>3, <1>4, <1>5 DEF Telling, Called
<1> QED
  BY <1>2, <1>6 DEF v

(* The message is there *)
LEMMA TellsAdded ==
  ASSUME NEW s, NEW Ts, NEW Ds, Telling(s, Ts, Ds)
  PROVE  LET a == Api!AddMessage(s)
         IN  /\ Telling(a, Ts, Ds) /\ a.message >= 0 /\ a.message \in Int
             /\ a.calls = s.calls /\ a.pending = s.pending
<1>1. s \in ResponseStates /\ s.next \in Nat /\ s.next \in Int /\ s.message \in Nat \cup {-1}
  <2>1. s \in ResponseStates
    BY DEF Telling
  <2>2. s.next \in Nat /\ s.message \in Nat \cup {-1}
    BY <2>1 DEF ResponseStates
  <2> QED
    BY <2>1, <2>2
<1>2. CASE s.message >= 0
  <2>1. Api!AddMessage(s) = s
    BY <1>1, <1>2 DEF Api!AddMessage
  <2>2. s.message \in Int
    BY <1>1
  <2> QED
    BY <1>2, <2>1, <2>2
<1>3. CASE ~(s.message >= 0)
  <2> DEFINE v == [s EXCEPT !.message = s.next, !.next = @ + 1]
             e == Api!Event("item added", s.next)
             f == Api!Event("part added", s.next)
  <2>1. /\ v \in ResponseStates /\ v.message = s.next /\ v.sent = s.sent /\ v.shown = s.shown
        /\ v.calls = s.calls /\ v.pending = s.pending /\ v.called = s.called
    <3>1. PICK n \in Nat, m \in Nat : n = s.next /\ m = s.next + 1
      BY <1>1
    <3>2. v = [s EXCEPT !.message = n, !.next = m]
      BY <3>1
    <3> HIDE DEF v
    <3> QED
      BY <1>1, <3>1, <3>2 DEF ResponseStates
  <2>2. <<>> \in Seq(Int)
    OBVIOUS
  <2>3. e \in ItemEvents /\ f \in ItemEvents
    BY <1>1, <2>2, EventTypes
  <2>4. /\ ~Is(e, "text") /\ ~Is(e, "text done") /\ ~Is(e, "call")
        /\ ~Is(f, "text") /\ ~Is(f, "text done") /\ ~Is(f, "call")
    BY EventIs
  <2>5. Api!AddMessage(s) = Api!Say(Api!Say(v, e), f)
    BY <1>3 DEF Api!AddMessage
  <2> HIDE DEF v, e, f
  <2>6. v.message >= 0 /\ v.message \in Int /\ ~(v.message < 0)
    BY <1>1, <2>1
  <2>7. Telling(v, Ts, Ds)
    BY <2>1, <2>6 DEF Telling, Called
  <2>8. PICK w : w = Api!Say(v, e)
    OBVIOUS
  <2>9. Telling(w, Ts, Ds) /\ w.message = v.message /\ w.calls = v.calls /\ w.pending = v.pending
    BY <2>3, <2>4, <2>7, <2>8, TellsOther
  <2>10. LET x == Api!Say(w, f)
         IN Telling(x, Ts, Ds) /\ x.message = w.message /\ x.calls = w.calls /\ x.pending = w.pending
    BY <2>3, <2>4, <2>9, TellsOther
  <2> QED
    BY <2>1, <2>5, <2>6, <2>8, <2>9, <2>10
<1> QED
  BY <1>2, <1>3

(* emitTextDelta *)
LEMMA TellsText ==
  ASSUME NEW s, NEW Ts, NEW Ds, Telling(s, Ts, Ds), NEW j \in Int, \A x \in Ts : x < j
  PROVE  LET v == Api!TextDelta(s, j)
         IN  Telling(v, Ts \cup {j}, Ds) /\ v.calls = s.calls /\ v.pending = s.pending
<1> DEFINE a == Api!AddMessage(s)
           b == [a EXCEPT !.shown = Append(@, j)]
           e == [Api!Event("text", a.message) EXCEPT !.of = <<j>>]
           v == Api!Say(b, e)
<1>1. Telling(a, Ts, Ds) /\ a.message >= 0 /\ a.message \in Int /\ a.calls = s.calls /\ a.pending = s.pending
  BY TellsAdded
<1>2. <<j>> \in Seq(Int) /\ Rising(<<j>>, {j})
  BY RisingOne
<1> HIDE DEF a
<1>3. e \in ItemEvents
  BY <1>1, <1>2, EventTypes
<1>4. Is(e, "text") /\ ~Is(e, "text done") /\ ~Is(e, "call") /\ e.of = <<j>>
  <2>1. PICK x, o : x = <<j>> /\ o = a.message
    OBVIOUS
  <2>2. e = [Api!Event("text", o) EXCEPT !.of = x]
    BY <2>1
  <2> HIDE DEF e
  <2>3. (\A u : Is(e, u) <=> "text" = u) /\ e.of = x
    BY <2>2 DEF Is, Api!Event
  <2> QED
    BY <2>1, <2>3
<1>5. a \in ResponseStates /\ Rising(Append(a.shown, j), Ts \cup {j})
  BY <1>1, RisingMore DEF Telling
<1>6. /\ b \in ResponseStates /\ b.sent = a.sent /\ b.message = a.message /\ b.called = a.called
      /\ b.calls = a.calls /\ b.pending = a.pending /\ b.shown = Append(a.shown, j)
  <2>1. PICK x \in Lines : x = Append(a.shown, j)
    BY <1>5 DEF Rising
  <2>2. b = [a EXCEPT !.shown = x]
    BY <2>1
  <2> HIDE DEF b
  <2> QED
    BY <1>5, <2>1, <2>2 DEF ResponseStates
<1>7. Api!TextDelta(s, j) = v
  BY DEF Api!TextDelta, a
<1> HIDE DEF b, e
<1>8. /\ v \in ResponseStates /\ v.sent = Append(a.sent, e) /\ v.message = a.message
      /\ v.called = a.called /\ v.calls = a.calls /\ v.pending = a.pending /\ v.shown = Append(a.shown, j)
  BY <1>3, <1>6, SaidFields
<1> HIDE DEF v
<1>9. a.sent \in Seq(ItemEvents)
  BY <1>5 DEF ResponseStates, ItemLists
<1>10. Gives(Append(a.sent, e), "text", Ts \cup {j})
  BY <1>1, <1>2, <1>3, <1>4, <1>9, GivesNext DEF Telling
<1>11. Gives(Append(a.sent, e), "text done", {})
  BY <1>1, <1>3, <1>4, <1>9, GivesSame DEF Telling
<1>12. Gives(Append(a.sent, e), "call", Ds)
  BY <1>1, <1>3, <1>4, <1>9, GivesSame DEF Telling
<1>13. ~(v.message < 0)
  BY <1>1, <1>8
<1>14. Telling(v, Ts \cup {j}, Ds)
  BY <1>1, <1>5, <1>8, <1>10, <1>11, <1>12, <1>13 DEF Telling, Called
<1> QED
  BY <1>1, <1>7, <1>8, <1>14

(* emitFunctionCallDoneEvents *)
LEMMA TellsCalls ==
  ASSUME NEW s, NEW Ts, NEW Ds, Telling(s, Ts, Ds), s.calls = <<>>,
         NEW n \in Nat, NEW cs \in SUBSET (1 .. n), \A x \in Ds : \A y \in cs : x < y
  PROVE  LET v == Api!CallsDone(s, cs)
         IN  Telling(v, Ts, Ds \cup cs) /\ v.message = s.message /\ v.pending = s.pending
<1> DEFINE v == Api!CallsDone(s, cs)
<1>1. s \in ResponseStates
  BY DEF Telling
<1>2. /\ v \in ResponseStates /\ v.message = s.message /\ v.shown = s.shown /\ v.pending = s.pending
      /\ v.called = IF cs = {} THEN s.called ELSE TRUE
  BY <1>1, CallsGiven
<1>3. Gives(v.sent, "call", Ds \cup cs)
  BY <1>1, CallsGive DEF Telling
<1>4. Gives(v.sent, "text", Ts) /\ Gives(v.sent, "text done", {})
  BY <1>1, CallsGive DEF Telling
<1> HIDE DEF v
<1>5. Called(v, Ds \cup cs)
  <2>1. CASE cs = {}
    <3>1. Ds \cup cs = Ds
      BY <2>1
    <3> QED
      BY <1>2, <2>1, <3>1 DEF Called, Telling
  <2>2. CASE cs # {}
    <3>1. Ds \cup cs # {}
      BY <2>2
    <3> QED
      BY <1>2, <2>2, <3>1 DEF Called
  <2> QED
    BY <2>1, <2>2
<1>6. Telling(v, Ts, Ds \cup cs)
  BY <1>2, <1>3, <1>4, <1>5 DEF Telling
<1> QED
  BY <1>2, <1>6 DEF v

(* The block that waits is the last one *)
Turn(pending) ==
  \/ pending = {}
  \/ /\ ask.tools
     /\ \E j \in Api!Pieces({"block"}) : pending = {j} /\ \A i \in Api!Pieces({"block"}) : i <= j

(* Calls that are kept are among the answer's *)
LEMMA OnceNumbered ==
  ASSUME Said, MaxCalls \in Nat
  PROVE  /\ Numbers \in Nat
         /\ \A j : Once(j) \in SUBSET (1 .. Numbers) /\ Once(j) \in SUBSET Api!Calls({j})
<1>1. \A js : Api!Calls(js) \in SUBSET (1 .. Numbers)
  BY DEF Api!Calls, Numbers
<1> QED
  BY <1>1, CallsOfAnswer, KeptIsPart DEF Once

(* A block whose turn has come is given *)
LEMMA TellsReleased ==
  ASSUME Said, MaxCalls \in Nat, NEW s, NEW Ts, Telling(s, Ts, CallsSoFar(s.pending)),
         s.calls = <<>>, Turn(s.pending)
  PROVE  LET v == Api!Release(s)
         IN  Telling(v, Ts, CallsSoFar({})) /\ v.calls = <<>> /\ v.pending = {}
<1>1. CASE s.pending = {}
  BY <1>1 DEF Api!Release
<1>2. CASE s.pending # {}
  <2>1. PICK j \in Api!Pieces({"block"}) : s.pending = {j} /\ ask.tools /\ \A i \in Api!Pieces({"block"}) : i <= j
    BY <1>2 DEF Turn
  <2> DEFINE v == Api!CallsDone(s, Once(j))
             w == Api!ResetCalls(v)
             u == [w EXCEPT !.pending = {}]
             Ds == CallsSoFar({j})
  <2>2. Numbers \in Nat /\ Once(j) \in SUBSET (1 .. Numbers)
    BY OnceNumbered
  <2>3. ASSUME NEW x \in Ds, NEW y \in Once(j)
        PROVE  x < y
    <3>1. PICK i \in Api!Pieces({"block"}) : i # j /\ x \in Once(i)
      BY DEF CallsSoFar
    <3>2. i \in Int /\ j \in Int /\ i <= j
      BY <2>1, PiecesNumbered
    <3>3. \A a \in {i} : \A b \in {j} : a < b
      BY <3>1, <3>2
    <3>4. x \in Api!Calls({i}) /\ y \in Api!Calls({j})
      BY <3>1, OnceNumbered
    <3>5. {i} \in SUBSET Int /\ {j} \in SUBSET Int
      BY <3>2
    <3> QED
      BY <3>3, <3>4, <3>5, CallsAscend
  <2>4. CallsSoFar({}) = Ds \cup Once(j)
    BY <2>1 DEF CallsSoFar
  <2>5. Telling(s, Ts, Ds)
    BY <2>1
  <2>6. Api!Release(s) = u
    BY <1>2, <2>1 DEF Api!Release, Once
  <2> HIDE DEF Ds
  <2>7. Telling(v, Ts, Ds \cup Once(j))
    BY <2>2, <2>3, <2>5, TellsCalls
  <2> HIDE DEF v
  <2>8. v \in ResponseStates /\ <<>> \in Lines /\ {} \in NumberSets
    <3>1. v \in ResponseStates
      BY <2>7 DEF Telling
    <3>2. <<>> \in Lines /\ {} \in NumberSets
      BY DEF Lines, NumberSets
    <3> QED
      BY <3>1, <3>2
  <2>9. PICK l \in Lines, e \in NumberSets : l = <<>> /\ e = {}
    BY <2>8
  <2>10. w = [v EXCEPT !.calls = l]
    BY <2>9 DEF Api!ResetCalls
  <2> HIDE DEF w
  <2>11. /\ w \in ResponseStates /\ w.calls = l /\ w.sent = v.sent /\ w.message = v.message
         /\ w.called = v.called /\ w.shown = v.shown
    BY <2>8, <2>9, <2>10 DEF ResponseStates
  <2>12. u = [w EXCEPT !.pending = e]
    BY <2>9
  <2> HIDE DEF u
  <2>13. /\ u \in ResponseStates /\ u.calls = l /\ u.sent = v.sent /\ u.message = v.message
         /\ u.called = v.called /\ u.shown = v.shown /\ u.pending = e
    BY <2>9, <2>11, <2>12 DEF ResponseStates
  <2>14. Telling(u, Ts, Ds \cup Once(j))
    BY <2>7, <2>13 DEF Telling, Called
  <2> QED
    BY <2>4, <2>6, <2>9, <2>13, <2>14
<1> QED
  BY <1>1, <1>2

(* The pieces of text that are known, and the calls that have been given, *)
(* when the answer has grown                                              *)
LEMMA SoFarGrows ==
  ASSUME Said, MaxCalls \in Nat, NEW p \in Api!Kinds, said' = Append(said, p), ask' = ask,
         NEW pending \in SUBSET (1 .. Len(said) + 1)
  PROVE  /\ TextSoFar' = IF p.k \in (IF ask.tools THEN {"text"} ELSE {"text", "block", "cut"})
                         THEN TextSoFar \cup {Len(said) + 1} ELSE TextSoFar
         /\ (p.k = "block" /\ ask.tools => Len(said) + 1 \in pending) =>
              CallsSoFar(pending)' = CallsSoFar(pending)
<1>1. \A kinds : Api!Pieces(kinds)' =
        IF p.k \in kinds THEN Api!Pieces(kinds) \cup {Len(said) + 1} ELSE Api!Pieces(kinds)
  BY PiecesGrow
<1>2. TextSoFar' = IF p.k \in (IF ask.tools THEN {"text"} ELSE {"text", "block", "cut"})
                   THEN TextSoFar \cup {Len(said) + 1} ELSE TextSoFar
  <2>1. TextSoFar = Api!Pieces(IF ask.tools THEN {"text"} ELSE {"text", "block", "cut"})
    BY DEF TextSoFar, Api!Written
  <2>2. TextSoFar' = Api!Pieces(IF ask.tools THEN {"text"} ELSE {"text", "block", "cut"})'
    BY DEF TextSoFar, Api!Written
  <2>3. PICK kinds : kinds = IF ask.tools THEN {"text"} ELSE {"text", "block", "cut"}
    OBVIOUS
  <2>4. Api!Pieces(kinds)' =
          IF p.k \in kinds THEN Api!Pieces(kinds) \cup {Len(said) + 1} ELSE Api!Pieces(kinds)
    BY <1>1
  <2> QED
    BY <2>1, <2>2, <2>3, <2>4
<1>3. ASSUME p.k = "block" /\ ask.tools => Len(said) + 1 \in pending
      PROVE  CallsSoFar(pending)' = CallsSoFar(pending)
  <2> DEFINE B == {j \in Api!Pieces({"block"}) : ask.tools /\ j \notin pending}
  <2>1. B' = B
    <3>1. Api!Pieces({"block"})' = IF p.k = "block" THEN Api!Pieces({"block"}) \cup {Len(said) + 1} ELSE Api!Pieces({"block"})
      BY <1>1
    <3> QED
      BY <1>3, <3>1
  <2>2. \A j \in B : j \in 1 .. Len(said)
    BY PiecesNumbered
  <2>3. \A j \in B : Once(j)' = Once(j)
    BY <2>2, OnceStays
  <2>4. CallsSoFar(pending) = UNION {Once(j) : j \in B}
    BY DEF CallsSoFar
  <2>5. CallsSoFar(pending)' = UNION {Once(j)' : j \in B'}
    BY DEF CallsSoFar
  <2> HIDE DEF B
  <2> QED
    BY <2>1, <2>3, <2>4, <2>5
<1> QED
  BY <1>2, <1>3

(* onParsed *)
LEMMA TellsPiece ==
  ASSUME Said, MaxCalls \in Nat, NEW p \in Api!Kinds, said' = Append(said, p), ask' = ask,
         NEW s, Telling(s, TextSoFar, CallsSoFar(s.pending)), s.calls = <<>>, Turn(s.pending)
  PROVE  LET v == Api!ResponsesPiece(s, p, Len(said) + 1)
         IN  \E pending : /\ v.pending = pending /\ v.calls = <<>> /\ Turn(pending)'
                          /\ Telling(v, TextSoFar', CallsSoFar(pending)')
<1> DEFINE j == Len(said) + 1
           v == Api!ResponsesPiece(s, p, j)
           r == Api!Release(s)
           B == Api!Pieces({"block"})
<1>1. /\ Len(said) \in Nat /\ j \in Int /\ j \in 1 .. j
      /\ B \in SUBSET (1 .. Len(said)) /\ TextSoFar \in SUBSET (1 .. Len(said))
  BY PiecesNumbered DEF TextSoFar, Api!Written
<1>2. p.k \in {"think", "text", "block", "cut"}
  BY DEF Api!Kinds, Api!Texts
<1>3. B' = IF p.k = "block" THEN B \cup {j} ELSE B
  BY PiecesGrow
<1>4. \A x \in TextSoFar : x < j
  BY <1>1
<1>5. Telling(r, TextSoFar, CallsSoFar({})) /\ r.calls = <<>> /\ r.pending = {}
  BY TellsReleased
<1>6. ASSUME NEW q \in SUBSET (1 .. j), p.k = "block" /\ ask.tools => j \in q
      PROVE  CallsSoFar(q)' = CallsSoFar(q)
  BY <1>6, SoFarGrows
<1>7. TextSoFar' = IF p.k \in (IF ask.tools THEN {"text"} ELSE {"text", "block", "cut"})
                   THEN TextSoFar \cup {j} ELSE TextSoFar
  <2>1. {} \in SUBSET (1 .. j)
    OBVIOUS
  <2> QED
    BY <2>1, SoFarGrows
<1>8. Turn({})'
  BY DEF Turn
<1>9. {} \in SUBSET (1 .. j)
  OBVIOUS
<1> HIDE DEF r
<1>10. CASE p.k = "think"
  <2> DEFINE e == [Api!Event("thinking", -1) EXCEPT !.of = <<j>>]
             q == s.pending
  <2>1. <<j>> \in Seq(Int) /\ -1 \in Int
    BY <1>1
  <2>2. e \in ItemEvents
    BY <2>1, EventTypes
  <2>3. ~Is(e, "text") /\ ~Is(e, "text done") /\ ~Is(e, "call")
    <3>1. PICK x, o : x = <<j>> /\ o = -1
      OBVIOUS
    <3>2. e = [Api!Event("thinking", o) EXCEPT !.of = x]
      BY <3>1
    <3> HIDE DEF e
    <3>3. \A u : Is(e, u) <=> "thinking" = u
      BY <3>2 DEF Is, Api!Event
    <3> QED
      BY <3>3
  <2>4. v = IF ask.think THEN Api!Say(s, e) ELSE s
    BY <1>10 DEF Api!ResponsesPiece
  <2> HIDE DEF e, v
  <2>5. LET w == Api!Say(s, e)
        IN  Telling(w, TextSoFar, CallsSoFar(q)) /\ w.pending = q /\ w.calls = s.calls
    BY <2>2, <2>3, TellsOther
  <2>6. Telling(v, TextSoFar, CallsSoFar(q)) /\ v.pending = q /\ v.calls = <<>>
    BY <2>4, <2>5
  <2> HIDE DEF q
  <2>7. PICK o : o = q
    OBVIOUS
  <2>8. Turn(o) /\ o \in SUBSET (1 .. j)
    BY <1>1, <2>7 DEF Turn, q
  <2>9. Turn(o)'
    BY <1>3, <1>10, <2>8 DEF Turn
  <2>10. CallsSoFar(o)' = CallsSoFar(o) /\ TextSoFar' = TextSoFar
    BY <1>6, <1>7, <1>10, <2>8
  <2> QED
    BY <2>6, <2>7, <2>9, <2>10 DEF v
<1>11. CASE p.k # "think" /\ (p.k = "text" \/ ~ask.tools)
  <2>1. v = Api!TextDelta(r, j)
    BY <1>2, <1>11 DEF Api!ResponsesPiece, r
  <2> HIDE DEF v
  <2>2. Telling(v, TextSoFar \cup {j}, CallsSoFar({})) /\ v.calls = <<>> /\ v.pending = {}
    BY <1>1, <1>4, <1>5, <2>1, TellsText
  <2>3. TextSoFar' = TextSoFar \cup {j}
    BY <1>2, <1>7, <1>11
  <2>4. CallsSoFar({})' = CallsSoFar({})
    BY <1>6, <1>9, <1>11
  <2> QED
    BY <1>8, <2>2, <2>3, <2>4 DEF v
<1>12. CASE p.k = "block" /\ ask.tools
  <2>1. v = [r EXCEPT !.pending = {j}]
    BY <1>12 DEF Api!ResponsesPiece, r
  <2> HIDE DEF v
  <2>2. PICK e \in NumberSets : e = {j}
    <3>1. {j} \in NumberSets
      BY <1>1 DEF NumberSets
    <3> QED
      BY <3>1
  <2>3. v = [r EXCEPT !.pending = e] /\ r \in ResponseStates
    BY <1>5, <2>1, <2>2 DEF Telling
  <2>4. /\ v \in ResponseStates /\ v.calls = r.calls /\ v.sent = r.sent /\ v.message = r.message
        /\ v.shown = r.shown /\ v.called = r.called /\ v.pending = e
    BY <2>3 DEF ResponseStates
  <2>5. Telling(v, TextSoFar, CallsSoFar({})) /\ v.calls = <<>>
    BY <1>5, <2>4 DEF Telling, Called
  <2>6. CallsSoFar({}) = CallsSoFar(e)
    <3>1. j \notin B
      BY <1>1
    <3> QED
      BY <2>2, <3>1 DEF CallsSoFar
  <2>7. e \in SUBSET (1 .. j) /\ j \in e
    BY <1>1, <2>2
  <2>8. CallsSoFar(e)' = CallsSoFar(e) /\ TextSoFar' = TextSoFar
    BY <1>6, <1>7, <1>12, <2>7
  <2>9. Turn(e)'
    <3>1. j \in B' /\ \A i \in B' : i <= j
      BY <1>1, <1>3, <1>12
    <3> QED
      BY <1>12, <2>2, <3>1 DEF Turn
  <2> QED
    BY <2>4, <2>5, <2>6, <2>8, <2>9 DEF v
<1>13. CASE p.k = "cut" /\ ask.tools
  <2>1. v = r
    BY <1>13 DEF Api!ResponsesPiece, r
  <2> HIDE DEF v
  <2>2. CallsSoFar({})' = CallsSoFar({}) /\ TextSoFar' = TextSoFar
    BY <1>6, <1>7, <1>9, <1>13
  <2> QED
    BY <1>5, <1>8, <2>1, <2>2 DEF v
<1> QED
  BY <1>2, <1>10, <1>11, <1>12, <1>13

----------------------------------------------------------------------------
(* The end *)

(* All of the text that is shown *)
AllShown == IF ask.tools THEN Api!Pieces({"text", "cut"}) ELSE Api!Written

(* A block that broke off is the last piece *)
CutIsLast == \A i \in 1 .. Len(said) : said[i].k = "cut" => i = Len(said)

(* The calls of the whole answer are among those of its blocks *)
LEMMA DetectedGiven ==
  ASSUME Said, MaxCalls \in Nat, CallsSoFar({}) # {}
  PROVE  Api!Detected \subseteq CallsSoFar({})
<1> DEFINE B == Api!Pieces({"block"})
<1>1. ask.tools /\ CallsSoFar({}) = UNION {Once(j) : j \in B}
  BY DEF CallsSoFar
<1>2. Api!Calls(B) # {}
  <2>1. PICK j \in B : Once(j) # {}
    BY <1>1
  <2>2. PICK n : n \in Api!Calls({j})
    BY <2>1, OnceNumbered
  <2>3. n \in Api!Calls(B)
    BY <2>2 DEF Api!Calls
  <2> QED
    BY <2>3
<1>3. Api!Detected = Api!Deduped(Api!Calls(B))
  BY <1>2 DEF Api!Detected
<1>4. ASSUME NEW n \in Api!Deduped(Api!Calls(B))
      PROVE  n \in UNION {Once(j) : j \in B}
  <2>1. PICK j \in B : j = Api!PieceOf(n)
    BY DEF Api!Deduped, Api!Calls
  <2>2. n \in Api!Calls({j}) /\ \A m \in Api!Calls({j}) : m \in Api!Calls(B)
    BY <2>1 DEF Api!Deduped, Api!Calls
  <2>3. n \in Once(j)
    BY <2>2 DEF Once, Api!Deduped
  <2> QED
    BY <2>3
<1> QED
  BY <1>1, <1>3, <1>4

(* closeMessage: the text of the message, at once *)
LEMMA TellsClosed ==
  ASSUME NEW s, NEW Ts, NEW Ds, Telling(s, Ts, Ds)
  PROVE  LET v == Api!CloseMessage(s)
         IN  /\ v \in ResponseStates
             /\ Gives(v.sent, "text", Ts) /\ Gives(v.sent, "text done", Ts) /\ Gives(v.sent, "call", Ds)
<1>1. /\ s \in ResponseStates /\ s.message \in Nat \cup {-1} /\ s.shown \in Seq(Int)
      /\ s.sent \in Seq(ItemEvents)
  BY DEF Telling, ResponseStates, ItemLists, Lines
<1>2. CASE s.message < 0
  <2>1. Api!CloseMessage(s) = s
    BY <1>2 DEF Api!CloseMessage
  <2>2. Ts = {}
    <3>1. Len(s.shown) = 0
      <4>1. s.shown = <<>>
        BY <1>2 DEF Telling
      <4> QED
        BY <4>1
    <3>2. ASSUME NEW x \in Ts PROVE FALSE
      <4>1. PICK a \in 1 .. Len(s.shown) : TRUE
        BY DEF Telling, Rising
      <4> QED
        BY <3>1, <4>1
    <3> QED
      BY <3>2
  <2> QED
    BY <1>1, <2>1, <2>2 DEF Telling
<1>3. CASE ~(s.message < 0)
  <2> DEFINE e1 == [Api!Event("text done", s.message) EXCEPT !.of = s.shown]
             e2 == Api!Event("part done", s.message)
             e3 == Api!Event("item done", s.message)
             a == Api!Say(s, e1)
             b == Api!Say(a, e2)
             v == Api!Say(b, e3)
  <2>1. s.message \in Int
    BY <1>1
  <2>2. e1 \in ItemEvents /\ e2 \in ItemEvents /\ e3 \in ItemEvents
    BY <1>1, <2>1, EventTypes
  <2>4. Api!CloseMessage(s) = v
    BY <1>3 DEF Api!CloseMessage
  <2>17. PICK x, o : x = s.shown /\ o = s.message
    OBVIOUS
  <2>18. e1 = [Api!Event("text done", o) EXCEPT !.of = x]
    BY <2>17
  <2>19. (\A u : Is(e2, u) <=> "part done" = u) /\ (\A u : Is(e3, u) <=> "item done" = u)
    BY EventIs
  <2> HIDE DEF e1, e2, e3
  <2>20. (\A u : Is(e1, u) <=> "text done" = u) /\ e1.of = x
    BY <2>18 DEF Is, Api!Event
  <2>3. /\ ~Is(e1, "text") /\ Is(e1, "text done") /\ ~Is(e1, "call") /\ e1.of = s.shown
        /\ \A t \in {"text", "text done", "call"} : ~Is(e2, t) /\ ~Is(e3, t)
    BY <2>17, <2>19, <2>20
  <2>5. a \in ResponseStates /\ a.sent = Append(s.sent, e1)
    BY <1>1, <2>2, SaidFields
  <2>6. Gives(Append(s.sent, e1), "text", Ts)
    BY <1>1, <2>2, <2>3, GivesSame DEF Telling
  <2>7. Gives(Append(s.sent, e1), "call", Ds)
    BY <1>1, <2>2, <2>3, GivesSame DEF Telling
  <2>8. Gives(Append(s.sent, e1), "text done", {} \cup Ts)
    BY <1>1, <2>2, <2>3, GivesNext DEF Telling
  <2>9. {} \cup Ts = Ts
    OBVIOUS
  <2>10. Gives(a.sent, "text", Ts) /\ Gives(a.sent, "text done", Ts) /\ Gives(a.sent, "call", Ds)
    BY <2>5, <2>6, <2>7, <2>8, <2>9
  <2> HIDE DEF a
  <2>11. a.sent \in Seq(ItemEvents)
    BY <2>5 DEF ResponseStates, ItemLists
  <2>12. b \in ResponseStates /\ b.sent = Append(a.sent, e2)
    BY <2>2, <2>5, SaidFields
  <2>13. ASSUME NEW t \in {"text", "text done", "call"}, NEW A, Gives(a.sent, t, A)
         PROVE  Gives(b.sent, t, A)
    BY <2>2, <2>3, <2>11, <2>12, <2>13, GivesSame
  <2> HIDE DEF b
  <2>14. b.sent \in Seq(ItemEvents)
    BY <2>12 DEF ResponseStates, ItemLists
  <2>15. v \in ResponseStates /\ v.sent = Append(b.sent, e3)
    BY <2>2, <2>12, SaidFields
  <2>16. ASSUME NEW t \in {"text", "text done", "call"}, NEW A, Gives(b.sent, t, A)
         PROVE  Gives(v.sent, t, A)
    BY <2>2, <2>3, <2>14, <2>15, <2>16, GivesSame
  <2> HIDE DEF v
  <2> QED
    BY <2>4, <2>10, <2>13, <2>15, <2>16
<1> QED
  BY <1>2, <1>3

(* What a response that is over has told *)
Told(s, Ts, cs) ==
  /\ \E X : s \in Seq(X)
  /\ Gives(s, "text", Ts) /\ Gives(s, "text done", Ts)
  /\ \E Ds : Gives(s, "call", Ds) /\ cs \subseteq Ds

(* finalize *)
LEMMA TellsAll ==
  ASSUME Said, CutIsLast, MaxCalls \in Nat,
         NEW s, Telling(s, TextSoFar, CallsSoFar(s.pending)), s.calls = <<>>, Turn(s.pending)
  PROVE  Told(Api!ResponsesEnd(s).sent, AllShown, Api!Detected)
<1> DEFINE cut == ask.tools /\ Api!Pieces({"cut"}) # {}
           r == Api!Release(s)
           flushed == IF cut THEN Api!TextDelta(r, Len(said)) ELSE r
           fin == Api!FinalCalls(flushed, Api!Detected)
           closed == Api!CloseMessage(fin)
           v == Api!ResponsesEnd(s)
           last == Api!Event("DONE", -1)
           Ds == CallsSoFar({})
<1>1. Telling(r, TextSoFar, Ds) /\ r.calls = <<>>
  BY TellsReleased
<1>2. /\ Len(said) \in Nat /\ Len(said) \in Int /\ Numbers \in Nat
      /\ Api!Detected \in SUBSET (1 .. Numbers)
  BY CallsOfAnswer
<1> HIDE DEF r
<1>3. Telling(flushed, AllShown, Ds) /\ flushed.calls = <<>>
  <2>1. CASE cut
    <3>1. PICK i \in 1 .. Len(said) : said[i].k = "cut"
      BY <2>1, PiecesNumbered
    <3>2. i = Len(said)
      BY <3>1 DEF CutIsLast
    <3>3. TextSoFar = Api!Pieces({"text"}) /\ AllShown = Api!Pieces({"text", "cut"})
      BY <2>1 DEF TextSoFar, AllShown
    <3>4. AllShown = TextSoFar \cup {Len(said)}
      BY <3>1, <3>2, <3>3, PiecesNumbered DEF CutIsLast
    <3>5. ASSUME NEW x \in TextSoFar
          PROVE  x < Len(said)
      <4>1. x \in 1 .. Len(said) /\ said[x].k = "text"
        BY <3>3, PiecesNumbered
      <4>2. x # Len(said)
        BY <3>1, <3>2, <4>1
      <4> QED
        BY <1>2, <4>1, <4>2
    <3>6. flushed = Api!TextDelta(r, Len(said))
      BY <2>1
    <3> QED
      <4>1. Len(said) \in Int /\ \A x \in TextSoFar : x < Len(said)
        BY <1>2, <3>5
      <4>2. LET q == Api!TextDelta(r, Len(said))
            IN  Telling(q, TextSoFar \cup {Len(said)}, Ds) /\ q.calls = r.calls
        BY <1>1, <4>1, TellsText
      <4> QED
        BY <1>1, <3>4, <3>6, <4>2
  <2>2. CASE ~cut
    <3>1. AllShown = TextSoFar
      <4>1. ask.tools => Api!Pieces({"text", "cut"}) = Api!Pieces({"text"})
        BY <2>2 DEF Api!Pieces
      <4> QED
        BY <4>1 DEF AllShown, TextSoFar
    <3> QED
      BY <1>1, <2>2, <3>1
  <2> QED
    BY <2>1, <2>2
<1> HIDE DEF flushed
<1>4. PICK E : Telling(fin, AllShown, E) /\ Api!Detected \subseteq E
  <2>1. CASE Ds = {}
    <3>1. flushed.called = FALSE
      BY <1>3, <2>1 DEF Telling, Called
    <3>2. fin = Api!CallsDone(flushed, Api!Detected)
      BY <3>1 DEF Api!FinalCalls
    <3>3. \A x \in Ds : \A y \in Api!Detected : x < y
      BY <2>1
    <3> HIDE DEF fin, Ds
    <3>4. Telling(fin, AllShown, Ds \cup Api!Detected)
      BY <1>2, <1>3, <3>2, <3>3, TellsCalls
    <3> QED
      BY <3>4 DEF fin
  <2>2. CASE Ds # {}
    <3>1. flushed.called = TRUE
      BY <1>3, <2>2 DEF Telling, Called
    <3>2. fin = flushed
      BY <3>1 DEF Api!FinalCalls
    <3>3. Api!Detected \subseteq Ds
      BY <2>2, DetectedGiven
    <3> QED
      BY <1>3, <3>2, <3>3
  <2> QED
    BY <2>1, <2>2
<1>5. v = IF Api!Detected = {} /\ (ask.required \/ Api!Written = {}) THEN Api!Fail(closed)
          ELSE Api!Say(Api!Say(closed, [Api!Event("completed", -1) EXCEPT !.of = Api!Completed(closed, Api!Detected)]), last)
  BY DEF Api!ResponsesEnd, flushed, r
<1> HIDE DEF fin
<1>6. /\ closed \in ResponseStates /\ Gives(closed.sent, "text", AllShown)
      /\ Gives(closed.sent, "text done", AllShown) /\ Gives(closed.sent, "call", E)
  BY <1>4, TellsClosed
<1> HIDE DEF closed
<1>7. \A t \in {"text", "text done", "call"} : ~Is(last, t)
  BY EventIs
<1>8. PICK e : /\ v = Api!Say(Api!Say(closed, e), last)
               /\ \A t \in {"text", "text done", "call"} : ~Is(e, t)
  <2> DEFINE c == [Api!Event("completed", -1) EXCEPT !.of = Api!Completed(closed, Api!Detected)]
             f == Api!Event("failed", -1)
  <2>1. \A t \in {"text", "text done", "call"} : ~Is(c, t) /\ ~Is(f, t)
    BY EventIs
  <2>2. v = Api!Say(Api!Say(closed, c), last) \/ v = Api!Say(Api!Say(closed, f), last)
    BY <1>5 DEF Api!Fail
  <2> HIDE DEF c, f, v, last
  <2> QED
    BY <2>1, <2>2
<1> HIDE DEF v, last
<1>9. v.sent = Append(Append(closed.sent, e), last)
  BY <1>6, <1>8, SaysLast
<1>10. PICK X : X = ItemEvents \cup {e, last}
  OBVIOUS
<1>11. closed.sent \in Seq(ItemEvents)
  BY <1>6 DEF ResponseStates, ItemLists
<1>12. closed.sent \in Seq(X) /\ e \in X /\ last \in X
  BY <1>10, <1>11
<1>13. PICK w \in Seq(X) : w = Append(closed.sent, e)
  <2>1. Append(closed.sent, e) \in Seq(X)
    BY <1>12, AppendProperties
  <2> QED
    BY <2>1
<1>14. ASSUME NEW t \in {"text", "text done", "call"}, NEW A, Gives(closed.sent, t, A)
       PROVE  Gives(v.sent, t, A)
  <2>1. Gives(w, t, A)
    BY <1>8, <1>12, <1>13, <1>14, GivesSame
  <2>2. Gives(Append(w, last), t, A)
    BY <1>7, <1>12, <2>1, GivesSame
  <2> QED
    BY <1>9, <1>13, <2>2
<1>15. v.sent \in Seq(X)
  BY <1>9, <1>12, <1>13
<1> QED
  BY <1>4, <1>6, <1>14, <1>15 DEF Told, v

----------------------------------------------------------------------------
(* Native Claude: what the stream has told *)
Streamed(s, Ts) == s \in ClaudeStates /\ Gives(s.sent, "text", Ts) /\ Gives(s.sent, "call", {})

(* What a block changes *)
LEMMA BlockSaid ==
  ASSUME NEW s \in ClaudeStates, NEW e \in BlockEvents
  PROVE  /\ Api!Say(s, e) \in ClaudeStates /\ Api!Say(s, e).sent = Append(s.sent, e)
         /\ Api!Say(s, e).next = s.next /\ s.sent \in Seq(BlockEvents)
<1> DEFINE l == Seq(BlockEvents)
<1>1. s.sent \in l
  BY DEF ClaudeStates
<1>2. Append(s.sent, e) \in l
  BY <1>1, AppendProperties
<1>3. s \in [sent : l, next : Nat, thinking : Nat \cup {-1}, text : Nat \cup {-1}]
  BY DEF ClaudeStates
<1> HIDE DEF l
<1>4. PICK x \in l : x = Append(s.sent, e)
  BY <1>2
<1>5. Api!Say(s, e) = [s EXCEPT !.sent = x]
  BY <1>4 DEF Api!Say
<1>6. /\ Api!Say(s, e) \in [sent : l, next : Nat, thinking : Nat \cup {-1}, text : Nat \cup {-1}]
      /\ Api!Say(s, e).sent = x /\ Api!Say(s, e).next = s.next
  BY <1>3, <1>5
<1> QED
  BY <1>1, <1>4, <1>6 DEF ClaudeStates, l

(* An event that gives no text and no call *)
LEMMA StreamsOther ==
  ASSUME NEW s, NEW Ts, Streamed(s, Ts), NEW e \in BlockEvents, ~Is(e, "text"), ~Is(e, "call")
  PROVE  Streamed(Api!Say(s, e), Ts)
<1>1. s.sent \in Seq(BlockEvents) /\ Api!Say(s, e) \in ClaudeStates /\ Api!Say(s, e).sent = Append(s.sent, e)
  BY BlockSaid DEF Streamed
<1>2. Gives(Append(s.sent, e), "text", Ts)
  BY <1>1, GivesSame DEF Streamed
<1>3. Gives(Append(s.sent, e), "call", {})
  BY <1>1, GivesSame DEF Streamed
<1> QED
  BY <1>1, <1>2, <1>3 DEF Streamed

(* closeThinkingBlock, closeTextBlock *)
LEMMA StreamCloses ==
  ASSUME NEW s, NEW Ts, Streamed(s, Ts), NEW kind \in Kinds
  PROVE  Streamed(Api!CloseBlock(s, kind), Ts)
<1> DEFINE e == Api!Block("stop", s[kind])
           a == [s EXCEPT ![kind] = -1]
<1>1. CASE s[kind] < 0
  BY <1>1 DEF Api!CloseBlock
<1>2. CASE ~(s[kind] < 0)
  <2>1. s \in ClaudeStates /\ s[kind] \in Int
    BY DEF Streamed, ClaudeStates, Kinds
  <2>2. a \in ClaudeStates /\ a.sent = s.sent
    <3>1. CASE kind = "text"
      BY <2>1, <3>1 DEF ClaudeStates
    <3>2. CASE kind = "thinking"
      BY <2>1, <3>2 DEF ClaudeStates
    <3> QED
      BY <3>1, <3>2 DEF Kinds
  <2>3. e \in BlockEvents
    BY <2>1, BlockTypes
  <2>4. ~Is(e, "text") /\ ~Is(e, "call")
    BY BlockIs
  <2>5. Api!CloseBlock(s, kind) = Api!Say(a, e)
    BY <1>2 DEF Api!CloseBlock
  <2> HIDE DEF e, a
  <2>6. Streamed(a, Ts)
    BY <2>2 DEF Streamed
  <2> QED
    BY <2>3, <2>4, <2>5, <2>6, StreamsOther
<1> QED
  BY <1>1, <1>2

(* A block is open *)
LEMMA StreamOpens ==
  ASSUME NEW s, NEW Ts, Streamed(s, Ts), NEW kind \in Kinds
  PROVE  Streamed(Api!OpenBlock(s, kind), Ts)
<1> DEFINE e == Api!Block("start", s.next)
           a == [s EXCEPT ![kind] = s.next, !.next = @ + 1]
<1>1. CASE s[kind] >= 0
  BY <1>1 DEF Api!OpenBlock
<1>2. CASE ~(s[kind] >= 0)
  <2>1. s \in ClaudeStates /\ s.next \in Int
    BY DEF Streamed, ClaudeStates
  <2>2. a \in ClaudeStates /\ a.sent = s.sent
    <3>1. PICK n \in Nat, m \in Nat : n = s.next /\ m = s.next + 1
      BY DEF Streamed, ClaudeStates
    <3>2. CASE kind = "text"
      <4>1. a = [s EXCEPT !.text = n, !.next = m]
        BY <2>1, <3>1, <3>2 DEF ClaudeStates
      <4> QED
        BY <2>1, <4>1 DEF ClaudeStates
    <3>3. CASE kind = "thinking"
      <4>1. a = [s EXCEPT !.thinking = n, !.next = m]
        BY <2>1, <3>1, <3>3 DEF ClaudeStates
      <4> QED
        BY <2>1, <4>1 DEF ClaudeStates
    <3> QED
      BY <3>2, <3>3 DEF Kinds
  <2>3. e \in BlockEvents
    BY <2>1, BlockTypes
  <2>4. ~Is(e, "text") /\ ~Is(e, "call")
    BY BlockIs
  <2>5. Api!OpenBlock(s, kind) = Api!Say(a, e)
    BY <1>2 DEF Api!OpenBlock
  <2> HIDE DEF e, a
  <2>6. Streamed(a, Ts)
    BY <2>2 DEF Streamed
  <2> QED
    BY <2>3, <2>4, <2>5, <2>6, StreamsOther
<1> QED
  BY <1>1, <1>2

(* A part of a block; what is text adds to the text *)
LEMMA StreamsPart ==
  ASSUME NEW s, NEW Ts, Streamed(s, Ts), NEW kind \in Kinds, NEW j \in Int, \A x \in Ts : x < j
  PROVE  Streamed(Api!BlockDelta(s, kind, <<j>>), IF kind = "text" THEN Ts \cup {j} ELSE Ts)
<1> DEFINE e == [Api!Block(kind, s[kind]) EXCEPT !.of = <<j>>]
<1>1. s \in ClaudeStates /\ s[kind] \in Int /\ <<j>> \in Seq(Int)
  BY DEF Streamed, ClaudeStates, Kinds
<1>2. e \in BlockEvents
  BY <1>1, PartTypes
<1>3. ~Is(e, "call") /\ (Is(e, "text") <=> kind = "text") /\ e.of = <<j>>
  <2>1. PICK x, o : x = <<j>> /\ o = s[kind]
    OBVIOUS
  <2>2. e = [Api!Block(kind, o) EXCEPT !.of = x]
    BY <2>1
  <2> HIDE DEF e
  <2>3. (\A u : Is(e, u) <=> kind = u) /\ e.of = x
    BY <2>2 DEF Is, Api!Block
  <2> QED
    BY <2>1, <2>3 DEF Kinds
<1>4. Api!BlockDelta(s, kind, <<j>>) = Api!Say(s, e)
  BY DEF Api!BlockDelta
<1> HIDE DEF e
<1>5. CASE kind # "text"
  BY <1>2, <1>3, <1>4, <1>5, StreamsOther
<1>6. CASE kind = "text"
  <2>1. s.sent \in Seq(BlockEvents) /\ Api!Say(s, e) \in ClaudeStates /\ Api!Say(s, e).sent = Append(s.sent, e)
    BY <1>2, BlockSaid DEF Streamed
  <2>2. Rising(e.of, {j})
    BY <1>3, RisingOne
  <2>3. Gives(Append(s.sent, e), "text", Ts \cup {j})
    BY <1>2, <1>3, <1>6, <2>1, <2>2, GivesNext DEF Streamed
  <2>4. Gives(Append(s.sent, e), "call", {})
    BY <1>2, <1>3, <2>1, GivesSame DEF Streamed
  <2> QED
    BY <1>4, <1>6, <2>1, <2>3, <2>4 DEF Streamed
<1> QED
  BY <1>5, <1>6

(* onParsed *)
LEMMA StreamsPiece ==
  ASSUME NEW s, NEW Ts, Streamed(s, Ts), NEW p, NEW j \in Int, \A x \in Ts : x < j
  PROVE  Streamed(Api!ClaudePiece(s, p, j), IF p.k # "think" /\ ~ask.tools THEN Ts \cup {j} ELSE Ts)
<1>1. "text" \in Kinds /\ "thinking" \in Kinds
  BY DEF Kinds
<1>2. CASE p.k = "think" /\ ask.think
  <2> DEFINE c == Api!CloseBlock(s, "text")
             o == Api!OpenBlock(c, "thinking")
  <2>1. Api!ClaudePiece(s, p, j) = Api!BlockDelta(o, "thinking", <<j>>)
    BY <1>2 DEF Api!ClaudePiece
  <2>2. Streamed(c, Ts)
    BY <1>1, StreamCloses
  <2> HIDE DEF c
  <2>3. Streamed(o, Ts)
    BY <1>1, <2>2, StreamOpens
  <2> HIDE DEF o
  <2>4. Streamed(Api!BlockDelta(o, "thinking", <<j>>), IF "thinking" = "text" THEN Ts \cup {j} ELSE Ts)
    BY <1>1, <2>3, StreamsPart
  <2>5. (IF "thinking" = "text" THEN Ts \cup {j} ELSE Ts) = Ts
    OBVIOUS
  <2> QED
    BY <1>2, <2>1, <2>4, <2>5
<1>3. CASE p.k # "think" /\ ~ask.tools
  <2> DEFINE c == Api!CloseBlock(s, "thinking")
             o == Api!OpenBlock(c, "text")
  <2>1. Api!ClaudePiece(s, p, j) = Api!BlockDelta(o, "text", <<j>>)
    BY <1>3 DEF Api!ClaudePiece
  <2>2. Streamed(c, Ts)
    BY <1>1, StreamCloses
  <2> HIDE DEF c
  <2>3. Streamed(o, Ts)
    BY <1>1, <2>2, StreamOpens
  <2> HIDE DEF o
  <2>4. Streamed(Api!BlockDelta(o, "text", <<j>>), IF "text" = "text" THEN Ts \cup {j} ELSE Ts)
    BY <1>1, <2>3, StreamsPart
  <2> QED
    BY <1>3, <2>1, <2>4
<1>4. CASE (p.k = "think" /\ ~ask.think) \/ (p.k # "think" /\ ask.tools)
  <2>1. Api!ClaudePiece(s, p, j) = s
    BY <1>4 DEF Api!ClaudePiece
  <2> QED
    BY <1>4, <2>1
<1> QED
  BY <1>2, <1>3, <1>4

(* A block that starts and stops at once gives what it is for *)
LEMMA WholeBlockIs ==
  ASSUME NEW kind \in {"call", "text"}, NEW i \in Int, NEW x \in Seq(Int)
  PROVE  LET b == Api!WholeBlock(kind, i, x)
         IN  /\ b \in Seq(BlockEvents) /\ Len(b) = 3 /\ b[2].of = x
             /\ \A t \in {"call", "text"} : ~Is(b[1], t) /\ (Is(b[2], t) <=> t = kind) /\ ~Is(b[3], t)
<1> DEFINE e1 == Api!Block("start", i)
           e2 == [Api!Block(kind, i) EXCEPT !.of = x]
           e3 == Api!Block("stop", i)
<1>1. e1 \in BlockEvents /\ e3 \in BlockEvents
  BY BlockTypes
<1>2. e2 \in BlockEvents
  <2>1. <<>> \in Seq(Int)
    OBVIOUS
  <2> QED
    BY <2>1 DEF Api!Block, BlockEvents
<1>3. e2.of = x /\ \A t \in {"call", "text"} : ~Is(e1, t) /\ (Is(e2, t) <=> t = kind) /\ ~Is(e3, t)
  BY BlockIs
<1>4. Api!WholeBlock(kind, i, x) = <<e1, e2, e3>>
  BY DEF Api!WholeBlock
<1> HIDE DEF e1, e2, e3
<1>5. /\ <<e1, e2, e3>> \in Seq(BlockEvents) /\ Len(<<e1, e2, e3>>) = 3
      /\ <<e1, e2, e3>>[1] = e1 /\ <<e1, e2, e3>>[2] = e2 /\ <<e1, e2, e3>>[3] = e3
  BY <1>1, <1>2
<1> QED
  BY <1>3, <1>4, <1>5

(* Blocks of calls *)
LEMMA CallBlocksGive ==
  ASSUME NEW next \in Nat, NEW n \in Nat, NEW cs \in SUBSET (1 .. n)
  PROVE  LET l == Api!InOrder(cs)
             w == Api!Joined([i \in DOMAIN l |-> Api!WholeBlock("call", next + i - 1, <<l[i]>>)])
         IN  w \in Seq(BlockEvents) /\ Gives(w, "call", cs) /\ Gives(w, "text", {})
<1> DEFINE l == Api!InOrder(cs)
           m == Len(l)
           b(i) == Api!WholeBlock("call", next + i - 1, <<l[i]>>)
           q == [i \in DOMAIN l |-> b(i)]
<1>1. Rising(l, cs) /\ l \in Seq(Int) /\ m \in Nat /\ DOMAIN l = 1 .. m /\ Len(l) = m
  <2>1. Rising(l, cs)
    BY RisingInOrder, StreamsOrdered
  <2> QED
    BY <2>1 DEF Rising, Lines
<1> HIDE DEF l, m
<1>2. ASSUME NEW i \in 1 .. m
      PROVE  /\ b(i) \in Seq(BlockEvents) /\ Len(b(i)) = 3 /\ b(i)[2].of = <<l[i]>>
             /\ ~Is(b(i)[1], "call") /\ Is(b(i)[2], "call") /\ ~Is(b(i)[3], "call")
             /\ ~Is(b(i)[1], "text") /\ ~Is(b(i)[2], "text") /\ ~Is(b(i)[3], "text")
  <2> DEFINE k == next + i - 1
             x == <<l[i]>>
  <2>1. k \in Int /\ x \in Seq(Int)
    BY <1>1
  <2> HIDE DEF k, x
  <2>2. LET c == Api!WholeBlock("call", k, x)
        IN  /\ c \in Seq(BlockEvents) /\ Len(c) = 3 /\ c[2].of = x
            /\ \A t \in {"call", "text"} : ~Is(c[1], t) /\ (Is(c[2], t) <=> t = "call") /\ ~Is(c[3], t)
    BY <2>1, WholeBlockIs
  <2>3. b(i) = Api!WholeBlock("call", k, x)
    BY DEF k, x
  <2> HIDE DEF b
  <2> QED
    BY <2>2, <2>3 DEF x
<1>3. q = [i \in 1 .. m |-> b(i)]
  BY <1>1
<1> HIDE DEF q, b
<1>4. q \in Seq(Seq(BlockEvents)) /\ Len(q) = m
  <2>1. PICK L : L = Seq(BlockEvents)
    OBVIOUS
  <2>2. \A i \in 1 .. m : b(i) \in L
    BY <1>2, <2>1
  <2>3. q \in Seq(L) /\ Len(q) = m
    BY <1>1, <1>3, <2>2
  <2> QED
    BY <2>1, <2>3
<1>5. \A i \in 1 .. m : q[i] = b(i)
  BY <1>3
<1>6. Gives(Api!Joined(q), "call", cs)
  <2>1. Len(q) = Len(l)
    BY <1>1, <1>4
  <2>2. \A i \in 1 .. Len(q) : /\ Len(q[i]) = 3 /\ ~Is(q[i][1], "call") /\ ~Is(q[i][3], "call")
                                /\ Is(q[i][2], "call") /\ q[i][2].of = <<l[i]>>
    BY <1>2, <1>4, <1>5
  <2> QED
    BY <1>1, <1>4, <2>1, <2>2, JoinedGives
<1>7. Gives(Api!Joined(q), "text", {})
  <2>1. \A i \in 1 .. m : Len(q[i]) = 3 /\ \A p \in 1 .. 3 : ~Is(q[i][p], "text")
    <3>1. \A p \in 1 .. 3 : p = 1 \/ p = 2 \/ p = 3
      OBVIOUS
    <3> QED
      BY <1>2, <1>5, <3>1
  <2> QED
    BY <1>4, <2>1, JoinedSilent
<1>8. Api!Joined(q) \in Seq(BlockEvents)
  <2>1. \A i \in 1 .. m : Len(q[i]) = 3
    BY <1>2, <1>5
  <2> QED
    BY <1>4, <2>1, JoinedTriples
<1> QED
  BY <1>6, <1>7, <1>8 DEF q, b, l

(* and a block of the text that was kept back *)
LEMMA TextBlockGives ==
  ASSUME NEW next \in Nat, NEW n \in Nat, NEW A \in SUBSET (1 .. n)
  PROVE  LET w == Api!Joined(<<Api!WholeBlock("text", next, Api!InOrder(A))>>)
         IN  w \in Seq(BlockEvents) /\ Gives(w, "text", A) /\ Gives(w, "call", {})
<1> DEFINE l == Api!InOrder(A)
           b == Api!WholeBlock("text", next, l)
           q == <<b>>
<1>1. Rising(l, A) /\ l \in Seq(Int)
  <2>1. Rising(l, A)
    BY RisingInOrder, StreamsOrdered
  <2> QED
    BY <2>1 DEF Rising, Lines
<1> HIDE DEF l
<1>2. /\ b \in Seq(BlockEvents) /\ Len(b) = 3 /\ b[2].of = l
      /\ ~Is(b[1], "text") /\ Is(b[2], "text") /\ ~Is(b[3], "text")
      /\ ~Is(b[1], "call") /\ ~Is(b[2], "call") /\ ~Is(b[3], "call")
  <2>1. \A t \in {"call", "text"} : ~Is(b[1], t) /\ (Is(b[2], t) <=> t = "text") /\ ~Is(b[3], t)
    BY <1>1, WholeBlockIs
  <2>2. b \in Seq(BlockEvents) /\ Len(b) = 3 /\ b[2].of = l
    BY <1>1, WholeBlockIs
  <2> HIDE DEF b
  <2> QED
    BY <2>1, <2>2
<1> HIDE DEF b
<1>3. q \in Seq(Seq(BlockEvents)) /\ Len(q) = 1 /\ q[1] = b
  BY <1>2
<1>4. Gives(Api!Joined(q), "text", A)
  BY <1>1, <1>2, JoinedOne
<1> HIDE DEF q
<1>5. \A i \in 1 .. Len(q) : Len(q[i]) = 3 /\ \A p \in 1 .. 3 : ~Is(q[i][p], "call")
  <2>1. \A i \in 1 .. Len(q) : i = 1
    BY <1>3
  <2>2. \A p \in 1 .. 3 : p = 1 \/ p = 2 \/ p = 3
    OBVIOUS
  <2> QED
    BY <1>2, <1>3, <2>1, <2>2
<1>6. Gives(Api!Joined(q), "call", {})
  BY <1>3, <1>5, JoinedSilent
<1>7. Api!Joined(q) \in Seq(BlockEvents)
  BY <1>3, <1>5, JoinedTriples
<1> QED
  BY <1>4, <1>6, <1>7 DEF q, b, l

(* What the stream has told when it is over: no text if there are calls *)
AllKept == IF ask.tools /\ Api!Detected # {} THEN {} ELSE Api!Written

WrittenSoFar == IF ask.tools THEN {} ELSE Api!Written

CallsKept(s) == ask.tools /\ Api!Detected # {} => Gives(s, "call", Api!Detected)

(* finalize *)
LEMMA StreamsAll ==
  ASSUME Said, MaxCalls \in Nat, NEW s, Streamed(s, WrittenSoFar)
  PROVE  LET u == Api!ClaudeEnd(s).sent
         IN  u \in Seq(BlockEvents) /\ Gives(u, "text", AllKept) /\ CallsKept(u)
<1> DEFINE c1 == Api!CloseBlock(s, "thinking")
           c == Api!CloseBlock(c1, "text")
           calls == Api!InOrder(Api!ClaudeCalls)
           called == [i \in DOMAIN calls |-> Api!WholeBlock("call", c.next + i - 1, <<calls[i]>>)]
           text == <<Api!WholeBlock("text", c.next, Api!InOrder(Api!Written))>>
           rest == IF ~ask.tools THEN <<>>
                   ELSE IF Api!ClaudeCalls # {} THEN called
                   ELSE IF Api!Written # {} THEN text ELSE <<>>
           w == Api!Joined(rest)
<1>1. Streamed(c, WrittenSoFar)
  <2>1. "text" \in Kinds /\ "thinking" \in Kinds
    BY DEF Kinds
  <2>2. Streamed(c1, WrittenSoFar)
    BY <2>1, StreamCloses
  <2> HIDE DEF c1
  <2> QED
    BY <2>1, <2>2, StreamCloses
<1>2. c.next \in Nat /\ c \in ClaudeStates /\ c.sent \in Seq(BlockEvents)
  BY <1>1 DEF Streamed, ClaudeStates
<1> HIDE DEF c
<1>3. /\ Numbers \in Nat /\ Api!ClaudeCalls \in SUBSET (1 .. Numbers) /\ Len(said) \in Nat
      /\ Api!Written \in SUBSET (1 .. Len(said))
  BY CallsOfAnswer
<1>4. PICK A, Es : /\ w \in Seq(BlockEvents) /\ Gives(w, "text", A) /\ Gives(w, "call", Es)
                  /\ A \cup WrittenSoFar = AllKept /\ (ask.tools /\ Api!Detected # {} => Es = Api!Detected)
                  /\ (WrittenSoFar = {} \/ A = {})
  <2>1. CASE ask.tools /\ Api!ClaudeCalls # {}
    <3>1. w = Api!Joined(called)
      BY <2>1
    <3> HIDE DEF w
    <3>2. w \in Seq(BlockEvents) /\ Gives(w, "call", Api!ClaudeCalls) /\ Gives(w, "text", {})
      BY <1>2, <1>3, <3>1, CallBlocksGive
    <3>3. {} \cup WrittenSoFar = AllKept /\ (Api!Detected # {} => Api!ClaudeCalls = Api!Detected)
      BY <2>1 DEF WrittenSoFar, AllKept, Api!ClaudeCalls
    <3> QED
      BY <3>2, <3>3 DEF w
  <2>2. CASE ask.tools /\ Api!ClaudeCalls = {} /\ Api!Written # {}
    <3>1. w = Api!Joined(text)
      BY <2>2
    <3> HIDE DEF w
    <3>2. w \in Seq(BlockEvents) /\ Gives(w, "text", Api!Written) /\ Gives(w, "call", {})
      BY <1>2, <1>3, <3>1, TextBlockGives
    <3>3. Api!Detected = {}
      BY <2>2 DEF Api!ClaudeCalls
    <3>4. WrittenSoFar = {} /\ AllKept = Api!Written
      BY <2>2, <3>3 DEF WrittenSoFar, AllKept
    <3> QED
      BY <3>2, <3>3, <3>4 DEF w
  <2>3. CASE ~ask.tools \/ (Api!ClaudeCalls = {} /\ Api!Written = {})
    <3>1. rest = <<>>
      BY <2>3
    <3>2. w = <<>>
      BY <3>1 DEF Api!Joined
    <3>3. \A t : Gives(<<>>, t, {})
      BY DEF Gives, Typed, Covers, Rises
    <3>4. ask.tools => Api!Detected = {}
      BY <2>3 DEF Api!ClaudeCalls
    <3>5. {} \cup WrittenSoFar = AllKept
      BY <2>3, <3>4 DEF WrittenSoFar, AllKept
    <3>6. <<>> \in Seq(BlockEvents)
      OBVIOUS
    <3> HIDE DEF w
    <3> QED
      BY <3>2, <3>3, <3>4, <3>5, <3>6
  <2> QED
    BY <2>1, <2>2, <2>3
<1> DEFINE d == [c EXCEPT !.sent = @ \o w, !.next = @ + Len(rest)]
           e1 == Api!Block("message_delta", -1)
           e2 == Api!Block("message_stop", -1)
           v == Api!Say(Api!Say(d, e1), e2)
<1>5. Api!ClaudeEnd(s) = v
  BY DEF Api!ClaudeEnd, c
<1>6. d.sent = c.sent \o w /\ v.sent = Append(Append(c.sent \o w, e1), e2)
  BY <1>2 DEF Api!Say, ClaudeStates
<1>7. /\ e1 \in BlockEvents /\ e2 \in BlockEvents
      /\ ~Is(e1, "text") /\ ~Is(e1, "call") /\ ~Is(e2, "text") /\ ~Is(e2, "call")
  <2>1. e1 \in BlockEvents /\ e2 \in BlockEvents
    <3>1. <<>> \in Seq(Int)
      OBVIOUS
    <3> QED
      BY <3>1 DEF Api!Block, BlockEvents
  <2> QED
    BY <2>1, BlockIs
<1> HIDE DEF w, d, e1, e2, v
<1>8. PICK x \in Seq(BlockEvents) : x = c.sent \o w
  BY <1>2, <1>4, Continued
<1>9. PICK y \in Seq(BlockEvents) : y = Append(x, e1)
  <2>1. Append(x, e1) \in Seq(BlockEvents)
    BY <1>7, AppendProperties
  <2> QED
    BY <2>1
<1>10. v.sent = Append(y, e2) /\ v.sent \in Seq(BlockEvents)
  BY <1>6, <1>7, <1>8, <1>9, AppendProperties
<1>11. ASSUME NEW t \in {"text", "call"}, NEW B, Gives(x, t, B)
       PROVE  Gives(v.sent, t, B)
  <2>1. Gives(y, t, B)
    BY <1>7, <1>9, <1>11, GivesSame
  <2>2. Gives(Append(y, e2), t, B)
    BY <1>7, <2>1, GivesSame
  <2> QED
    BY <1>10, <2>2
<1>12. Gives(x, "text", WrittenSoFar \cup A)
  <2>1. \A a \in WrittenSoFar : \A b \in A : a < b
    BY <1>4
  <2> QED
    BY <1>1, <1>2, <1>4, <1>8, <2>1, GivesMore DEF Streamed
<1>13. Gives(x, "call", {} \cup Es)
  BY <1>1, <1>2, <1>4, <1>8, GivesMore DEF Streamed
<1>14. WrittenSoFar \cup A = AllKept /\ {} \cup Es = Es
  BY <1>4
<1>15. Gives(v.sent, "text", AllKept) /\ Gives(v.sent, "call", Es)
  BY <1>11, <1>12, <1>13, <1>14
<1>16. CallsKept(v.sent)
  BY <1>4, <1>15 DEF CallsKept
<1> QED
  BY <1>5, <1>10, <1>15, <1>16

----------------------------------------------------------------------------
(* Native Gemini *)

GeminiEvents == BlockEvents \cup {Api!Block("STOP", -1)}

GeminiTold(s, Ts) == s \in Seq(GeminiEvents) /\ Gives(s, "text", Ts) /\ Gives(s, "call", {})

(* Events of other types give nothing *)
LEMMA NoneGives ==
  ASSUME NEW s, NEW t, \A k \in 1 .. Len(s) : ~Is(s[k], t)
  PROVE  Gives(s, t, {})
BY DEF Gives, Typed, Covers, Rises

(* onParsed *)
LEMMA GeminiSaysPiece ==
  ASSUME NEW s, NEW Ts, GeminiTold(s, Ts), NEW p, NEW j \in Int, \A x \in Ts : x < j
  PROVE  GeminiTold(Api!GeminiPiece(s, p, j), IF p.k # "think" /\ ~ask.tools THEN Ts \cup {j} ELSE Ts)
<1> DEFINE e == [Api!Block("text", 0) EXCEPT !.of = <<j>>]
<1>1. e \in GeminiEvents
  <2>1. PICK x \in Seq(Int) : x = <<j>>
    <3>1. <<j>> \in Seq(Int)
      OBVIOUS
    <3> QED
      BY <3>1
  <2>2. <<>> \in Seq(Int)
    OBVIOUS
  <2>3. e = [Api!Block("text", 0) EXCEPT !.of = x]
    BY <2>1
  <2>4. [Api!Block("text", 0) EXCEPT !.of = x] \in BlockEvents
    BY <2>2 DEF Api!Block, BlockEvents
  <2> QED
    BY <2>3, <2>4 DEF GeminiEvents
<1>2. Is(e, "text") /\ ~Is(e, "call") /\ e.of = <<j>>
  BY BlockIs
<1>3. CASE p.k # "think" /\ ~ask.tools
  <2>1. Api!GeminiPiece(s, p, j) = Append(s, e)
    BY <1>3 DEF Api!GeminiPiece
  <2> HIDE DEF e
  <2>2. s \in Seq(GeminiEvents) /\ Append(s, e) \in Seq(GeminiEvents)
    BY <1>1, AppendProperties DEF GeminiTold
  <2>3. Rising(e.of, {j})
    BY <1>2, RisingOne
  <2>4. Gives(Append(s, e), "text", Ts \cup {j})
    BY <1>1, <1>2, <2>2, <2>3, GivesNext DEF GeminiTold
  <2>5. Gives(Append(s, e), "call", {})
    BY <1>1, <1>2, <2>2, GivesSame DEF GeminiTold
  <2> QED
    BY <1>3, <2>1, <2>2, <2>4, <2>5 DEF GeminiTold
<1>4. CASE ~(p.k # "think" /\ ~ask.tools)
  <2>1. Api!GeminiPiece(s, p, j) = s
    BY <1>4 DEF Api!GeminiPiece
  <2> QED
    BY <1>4, <2>1
<1> QED
  BY <1>3, <1>4

(* The parts of the end, one for each number *)
Parts(kind, ns) ==
  [i \in 1 .. Cardinality(ns) |-> [Api!Block(kind, 0) EXCEPT !.of = <<InOrder(ns)[i]>>]]

(* They give their numbers, and nothing of the other kind *)
LEMMA PartsGive ==
  ASSUME NEW kind \in {"call", "text"}, NEW n \in Nat, NEW ns \in SUBSET (1 .. n)
  PROVE  LET u == Parts(kind, ns)
         IN  /\ u \in Seq(GeminiEvents) /\ Gives(u, kind, ns)
             /\ \A t \in {"call", "text"} : t # kind => Gives(u, t, {})
<1> DEFINE l == InOrder(ns)
           c == Cardinality(ns)
           e(i) == [Api!Block(kind, 0) EXCEPT !.of = <<l[i]>>]
           u == [i \in 1 .. c |-> e(i)]
<1>1. Rising(l, ns) /\ l \in Seq(Int) /\ c \in Nat /\ Len(l) = c
  <2>1. Rising(l, ns) /\ Len(l) = c /\ c \in Nat
    BY RisingInOrder, Ordered
  <2> QED
    BY <2>1 DEF Rising, Lines
<1>2. Parts(kind, ns) = u
  BY DEF Parts
<1> HIDE DEF l, c
<1>3. ASSUME NEW i \in 1 .. c
      PROVE  /\ e(i) \in GeminiEvents /\ e(i).of = <<l[i]>>
             /\ \A t \in {"call", "text"} : Is(e(i), t) <=> t = kind
  <2>1. PICK x \in Seq(Int) : x = <<l[i]>>
    <3>1. l[i] \in Int
      BY <1>1
    <3>2. <<l[i]>> \in Seq(Int)
      BY <3>1
    <3> QED
      BY <3>2
  <2>4. <<>> \in Seq(Int)
    OBVIOUS
  <2>5. e(i) = [Api!Block(kind, 0) EXCEPT !.of = x]
    BY <2>1
  <2>6. [Api!Block(kind, 0) EXCEPT !.of = x] \in BlockEvents
    BY <2>4 DEF Api!Block, BlockEvents
  <2>2. e(i) \in BlockEvents
    BY <2>5, <2>6
  <2>3. e(i).of = <<l[i]>> /\ \A t \in {"call", "text"} : Is(e(i), t) <=> t = kind
    BY BlockIs
  <2> QED
    BY <2>2, <2>3 DEF GeminiEvents
<1> HIDE DEF e
<1>4. u \in Seq(GeminiEvents) /\ Len(u) = c /\ \A i \in 1 .. c : u[i] = e(i)
  BY <1>1, <1>3
<1> HIDE DEF u
<1>5. Gives(u, kind, ns)
  BY <1>1, <1>3, <1>4, EachGives
<1>6. ASSUME NEW t \in {"call", "text"}, t # kind
      PROVE  Gives(u, t, {})
  <2>1. \A k \in 1 .. Len(u) : ~Is(u[k], t)
    BY <1>3, <1>4, <1>6
  <2> QED
    BY <2>1, NoneGives
<1> QED
  BY <1>2, <1>4, <1>5, <1>6

(* What is given when the answer is over *)
AllGiven ==
  IF ask.tools /\ (Api!Detected # {} \/ Api!Thought # {}) THEN {}
  ELSE IF ask.tools /\ ask.think /\ Api!Written = {} THEN Api!Pieces({"think"}) ELSE Api!Written

(* buildGeminiPartsFromFinal *)
LEMMA GeminiEndSays ==
  ASSUME Said, MaxCalls \in Nat, NEW s, GeminiTold(s, WrittenSoFar)
  PROVE  LET u == Api!GeminiEnd(s)
         IN  u \in Seq(GeminiEvents) /\ Gives(u, "text", AllGiven) /\ CallsKept(u)
<1> DEFINE calls == IF Api!Detected # {} THEN Api!Detected ELSE Api!Thought
           text == IF Api!Written # {} THEN Api!Written ELSE IF ask.think THEN Api!Pieces({"think"}) ELSE {}
           e == Api!Block("STOP", -1)
           x == IF ask.tools THEN s \o Api!GeminiParts ELSE s
<1>1. /\ Numbers \in Nat /\ calls \in SUBSET (1 .. Numbers) /\ Len(said) \in Nat
      /\ text \in SUBSET (1 .. Len(said))
  BY CallsOfAnswer, PiecesNumbered
<1>2. Api!GeminiParts = IF calls # {} THEN Parts("call", calls) ELSE Parts("text", text)
  <2>1. \A kind, ns : Parts(kind, ns) = [i \in 1 .. Api!Cardinality(ns) |-> [Api!Block(kind, 0) EXCEPT !.of = <<Api!InOrder(ns)[i]>>]]
    BY StreamsOrdered DEF Parts
  <2> QED
    BY <2>1 DEF Api!GeminiParts
<1>3. e \in GeminiEvents /\ ~Is(e, "text") /\ ~Is(e, "call")
  <2>1. e \in GeminiEvents
    BY DEF GeminiEvents
  <2> QED
    BY <2>1, BlockIs
<1>4. Api!GeminiEnd(s) = Append(x, e)
  BY DEF Api!GeminiEnd
<1> HIDE DEF e
<1>5. s \in Seq(GeminiEvents) /\ Gives(s, "text", WrittenSoFar) /\ Gives(s, "call", {})
  BY DEF GeminiTold
<1>6. /\ x \in Seq(GeminiEvents) /\ Gives(x, "text", AllGiven)
      /\ ask.tools /\ Api!Detected # {} => Gives(x, "call", Api!Detected)
  <2>1. CASE ~ask.tools
    <3>1. AllGiven = WrittenSoFar
      BY <2>1 DEF AllGiven, WrittenSoFar
    <3> QED
      BY <1>5, <2>1, <3>1
  <2>2. CASE ask.tools /\ calls # {}
    <3> DEFINE w == Parts("call", calls)
    <3>1. x = s \o w
      BY <1>2, <2>2
    <3> HIDE DEF calls
    <3>2. w \in Seq(GeminiEvents) /\ Gives(w, "call", calls) /\ Gives(w, "text", {})
      BY <1>1, PartsGive
    <3> HIDE DEF w, x
    <3>3. Gives(s \o w, "call", {} \cup calls)
      BY <1>5, <3>2, GivesMore
    <3>4. Gives(s \o w, "text", WrittenSoFar \cup {})
      BY <1>5, <3>2, GivesMore
    <3>5. WrittenSoFar \cup {} = AllGiven /\ (Api!Detected # {} => {} \cup calls = Api!Detected)
      BY <2>2 DEF WrittenSoFar, AllGiven, calls
    <3>6. s \o w \in Seq(GeminiEvents)
      BY <1>5, <3>2, Continued
    <3> QED
      BY <3>1, <3>3, <3>4, <3>5, <3>6
  <2>3. CASE ask.tools /\ calls = {}
    <3> DEFINE w == Parts("text", text)
    <3>1. x = s \o w
      BY <1>2, <2>3
    <3> HIDE DEF text
    <3>2. w \in Seq(GeminiEvents) /\ Gives(w, "text", text)
      BY <1>1, PartsGive
    <3> HIDE DEF w, x
    <3>3. WrittenSoFar = {}
      BY <2>3 DEF WrittenSoFar
    <3>4. Gives(s \o w, "text", {} \cup text)
      BY <1>5, <3>2, <3>3, GivesMore
    <3>5. {} \cup text = AllGiven /\ Api!Detected = {}
      BY <2>3 DEF AllGiven, text, calls
    <3>6. s \o w \in Seq(GeminiEvents)
      BY <1>5, <3>2, Continued
    <3> QED
      BY <3>1, <3>4, <3>5, <3>6
  <2> QED
    BY <2>1, <2>2, <2>3
<1> HIDE DEF x
<1>7. Append(x, e) \in Seq(GeminiEvents)
  BY <1>3, <1>6, AppendProperties
<1>8. Gives(Append(x, e), "text", AllGiven)
  BY <1>3, <1>6, GivesSame
<1>9. ask.tools /\ Api!Detected # {} => Gives(Append(x, e), "call", Api!Detected)
  BY <1>3, <1>6, GivesSame
<1> QED
  BY <1>4, <1>7, <1>8, <1>9 DEF CallsKept

----------------------------------------------------------------------------
(* While the answer comes, each API has told what it should by then; when it *)
(* is over, all of it; what was sent in between stays in order               *)
ToldInv ==
  /\ Said /\ CutIsLast /\ ended \in {"no", "gone", "refused", "end", "error", "broken"}
  /\ ended = "no" => /\ Telling(res, TextSoFar, CallsSoFar(res.pending))
                     /\ res.calls = <<>> /\ Turn(res.pending)
                     /\ Streamed(cla, WrittenSoFar) /\ GeminiTold(gem, WrittenSoFar)
  /\ \E X, Ds : res.sent \in Seq(X) /\ Gives(res.sent, "call", Ds)
  /\ Api!Finalized => /\ Told(res.sent, AllShown, Api!Detected)
                      /\ gem \in Seq(GeminiEvents) /\ Gives(gem, "text", AllGiven) /\ CallsKept(gem)
  /\ ended = "end" => /\ cla.sent \in Seq(BlockEvents)
                      /\ Gives(cla.sent, "text", AllKept) /\ CallsKept(cla.sent)

(* It is enough *)
LEMMA ToldIsOnce ==
  ASSUME ToldInv, MaxCalls \in Nat
  PROVE  Api!CallsOnce
<1>1. PICK X, Ds : res.sent \in Seq(X) /\ Gives(res.sent, "call", Ds)
  BY DEF ToldInv
<1>2. Api!Ascends(res.sent, "call")
  BY <1>1, GivesIsTells
<1>3. ASSUME Api!Finalized
      PROVE  Api!Detected \subseteq Api!Told(res.sent, "call")
  <2>1. Told(res.sent, AllShown, Api!Detected)
    BY <1>3 DEF ToldInv
  <2>2. PICK E : Gives(res.sent, "call", E) /\ Api!Detected \subseteq E
    BY <2>1 DEF Told
  <2>3. Api!Told(res.sent, "call") = E
    BY <1>1, <2>2, GivesIsTells
  <2> QED
    BY <2>2, <2>3
<1>4. ASSUME ended = "end", ask.tools, Api!Detected # {}
      PROVE  Api!Tells(cla.sent, "call", Api!Detected)
  <2>1. cla.sent \in Seq(BlockEvents) /\ Gives(cla.sent, "call", Api!Detected)
    BY <1>4 DEF ToldInv, CallsKept
  <2> QED
    BY <2>1, GivesIsTells
<1>5. ASSUME Api!Finalized, ask.tools, Api!Detected # {}
      PROVE  Api!Tells(gem, "call", Api!Detected)
  <2>1. gem \in Seq(GeminiEvents) /\ Gives(gem, "call", Api!Detected)
    BY <1>5 DEF ToldInv, CallsKept
  <2> QED
    BY <2>1, GivesIsTells
<1> QED
  BY <1>2, <1>3, <1>4, <1>5 DEF Api!CallsOnce

(* A block has calls, of which some are kept *)
LEMMA NoBlockLeft ==
  ASSUME Said, MaxCalls \in Nat, Api!Detected = {}
  PROVE  Api!Pieces({"block"}) = {}
<1> DEFINE B == Api!Pieces({"block"})
<1>1. ASSUME NEW j \in B
      PROVE  FALSE
  <2>1. Api!Calls({j}) # {}
    BY BlockHasCalls
  <2>2. Api!Calls(B) # {}
    BY <2>1 DEF Api!Calls
  <2>3. Api!Detected = Api!Deduped(Api!Calls(B))
    BY <2>2 DEF Api!Detected
  <2>4. Api!Calls(B) \in SUBSET (1 .. Numbers) /\ Numbers \in Nat
    BY CallsOfAnswer DEF Api!Calls, Numbers
  <2>5. Api!Deduped(Api!Calls(B)) # {}
    BY <2>2, <2>4, FirstIsKept
  <2> QED
    BY <2>3, <2>5
<1> QED
  BY <1>1

(* and for the text *)
LEMMA ToldIsText ==
  ASSUME ToldInv, MaxCalls \in Nat
  PROVE  Api!TextOnce
<1> SUFFICES ASSUME Api!Finalized
             PROVE  /\ Api!Tells(res.sent, "text", AllShown) /\ Api!Tells(res.sent, "text done", AllShown)
                    /\ Api!Detected = {} /\ ~Api!Whole.failed => Api!Whole.text = AllShown
                    /\ ended = "end" => Api!Tells(cla.sent, "text", AllKept)
                    /\ Api!Tells(gem, "text", AllGiven)
  BY DEF Api!TextOnce, AllShown, AllKept, AllGiven
<1>1. Told(res.sent, AllShown, Api!Detected) /\ gem \in Seq(GeminiEvents) /\ Gives(gem, "text", AllGiven)
  BY DEF ToldInv
<1>2. PICK X : res.sent \in Seq(X)
  BY <1>1 DEF Told
<1>3. Api!Tells(res.sent, "text", AllShown)
  BY <1>1, <1>2, GivesIsTells DEF Told
<1>4. Api!Tells(res.sent, "text done", AllShown)
  BY <1>1, <1>2, GivesIsTells DEF Told
<1>5. Api!Tells(gem, "text", AllGiven)
  BY <1>1, GivesIsTells
<1>6. ASSUME ended = "end"
      PROVE  Api!Tells(cla.sent, "text", AllKept)
  <2>1. cla.sent \in Seq(BlockEvents) /\ Gives(cla.sent, "text", AllKept)
    BY <1>6 DEF ToldInv
  <2> QED
    BY <2>1, GivesIsTells
<1>7. ASSUME Api!Detected = {}, ~Api!Whole.failed
      PROVE  Api!Whole.text = AllShown
  <2>1. Api!Whole.text = Api!Written
    BY <1>7 DEF Api!Whole
  <2>2. Api!Pieces({"block"}) = {}
    BY <1>7, NoBlockLeft DEF ToldInv
  <2>3. Api!Written = Api!Pieces({"text", "cut"})
    BY <2>2 DEF Api!Written, Api!Pieces
  <2> QED
    BY <2>1, <2>3 DEF AllShown
<1> QED
  BY <1>3, <1>4, <1>5, <1>6, <1>7

(* The same answer *)
LEMMA SameAnswer ==
  ASSUME said' = said, ask' = ask
  PROVE  /\ AllShown' = AllShown /\ AllKept' = AllKept /\ AllGiven' = AllGiven
         /\ Api!Detected' = Api!Detected /\ Said' = Said /\ CutIsLast' = CutIsLast
<1>1. \A kinds : Api!Pieces(kinds)' = Api!Pieces(kinds)
  BY DEF Api!Pieces
<1>2. \A n : Api!PathOf(n)' = Api!PathOf(n)
  BY DEF Api!PathOf, Api!PieceOf, Api!PlaceOf
<1>3. \A js : Api!Calls(js)' = Api!Calls(js)
  BY DEF Api!Calls, Api!PieceOf, Api!PlaceOf
<1>4. Api!Detected' = Api!Detected
  BY <1>1, <1>2, <1>3 DEF Api!Detected, Api!Deduped
<1>5. Api!Thought' = Api!Thought
  BY <1>1, <1>2, <1>3 DEF Api!Thought, Api!Deduped
<1>6. Api!Written' = Api!Written
  BY <1>1 DEF Api!Written
<1>7. Said' = Said /\ CutIsLast' = CutIsLast
  BY DEF Said, Api!Kinds, Api!Texts, CutIsLast
<1> QED
  BY <1>1, <1>4, <1>5, <1>6, <1>7 DEF AllShown, AllKept, AllGiven

(* and what is known of it so far *)
LEMMA SameSoFar ==
  ASSUME said' = said, ask' = ask, res'.pending = res.pending
  PROVE  /\ TextSoFar' = TextSoFar /\ WrittenSoFar' = WrittenSoFar
         /\ CallsSoFar(res.pending)' = CallsSoFar(res.pending) /\ Turn(res.pending)' = Turn(res.pending)
<1>1. \A kinds : Api!Pieces(kinds)' = Api!Pieces(kinds)
  BY DEF Api!Pieces
<1>2. \A n : Api!PathOf(n)' = Api!PathOf(n)
  BY DEF Api!PathOf, Api!PieceOf, Api!PlaceOf
<1>3. \A js : Api!Calls(js)' = Api!Calls(js)
  BY DEF Api!Calls, Api!PieceOf, Api!PlaceOf
<1>4. \A j : Once(j)' = Once(j)
  BY <1>2, <1>3 DEF Once, Api!Deduped
<1> QED
  BY <1>1, <1>4 DEF TextSoFar, WrittenSoFar, Api!Written, CallsSoFar, Turn

(* Every step tells what is to be told *)
LEMMA ToldStep ==
  ASSUME ToldInv, [Api!Next]_Api!vars, MaxCalls \in Nat
  PROVE  ToldInv'
<1>1. CASE Api!Piece
  <2> DEFINE j == Len(said) + 1
  <2>1. PICK p \in Api!Kinds : /\ said' = Append(said, p) /\ res' = Api!ResponsesPiece(res, p, j)
                               /\ cla' = Api!ClaudePiece(cla, p, j) /\ gem' = Api!GeminiPiece(gem, p, j)
    BY <1>1 DEF Api!Piece
  <2>2. /\ ended = "no" /\ ended' = "no" /\ ask' = ask /\ Said /\ CutIsLast
        /\ said # <<>> => said[Len(said)].k # "cut"
    BY <1>1 DEF Api!Piece, Api!Open, ToldInv
  <2>3. /\ Telling(res, TextSoFar, CallsSoFar(res.pending)) /\ res.calls = <<>> /\ Turn(res.pending)
        /\ Streamed(cla, WrittenSoFar) /\ GeminiTold(gem, WrittenSoFar)
    BY <2>2 DEF ToldInv
  <2>4. /\ Len(said) \in Nat /\ DOMAIN said = 1 .. Len(said) /\ j \in Int
        /\ Api!Written \in SUBSET (1 .. Len(said))
    BY <2>2, PiecesNumbered DEF Api!Written
  <2>5. /\ Said' /\ Len(said') = j /\ said'[j] = p
        /\ \A i \in 1 .. Len(said) : said'[i] = said[i]
    BY <2>1, <2>2, PiecesGrow
  <2>6. CutIsLast'
    <3>1. \A i \in 1 .. Len(said) : said[i].k # "cut"
      <4>1. ASSUME NEW i \in 1 .. Len(said), said[i].k = "cut"
            PROVE  FALSE
        <5>1. i = Len(said)
          BY <2>2, <4>1 DEF CutIsLast
        <5>2. said # <<>>
          <6>1. Len(said) # 0
            BY <2>4
          <6> QED
            BY <6>1
        <5> QED
          BY <2>2, <4>1, <5>1, <5>2
      <4> QED
        BY <4>1
    <3>2. \A i \in 1 .. Len(said') : i \in 1 .. Len(said) \/ i = Len(said')
      BY <2>4, <2>5
    <3> QED
      BY <2>5, <3>1, <3>2 DEF CutIsLast
  <2>7. \E pending : /\ res'.pending = pending /\ res'.calls = <<>> /\ Turn(pending)'
                     /\ Telling(res', TextSoFar', CallsSoFar(pending)')
    BY <2>1, <2>2, <2>3, TellsPiece
  <2>8. WrittenSoFar' = IF p.k # "think" /\ ~ask.tools THEN WrittenSoFar \cup {j} ELSE WrittenSoFar
    <3>1. p.k \in {"think", "text", "block", "cut"}
      BY DEF Api!Kinds, Api!Texts
    <3>2. Api!Pieces({"text", "block", "cut"})' =
            IF p.k \in {"text", "block", "cut"}
            THEN Api!Pieces({"text", "block", "cut"}) \cup {Len(said) + 1} ELSE Api!Pieces({"text", "block", "cut"})
      BY <2>1, <2>2, PiecesGrow
    <3> QED
      BY <2>2, <3>1, <3>2 DEF WrittenSoFar, Api!Written
  <2>9. \A x \in WrittenSoFar : x < j
    <3>1. WrittenSoFar \in SUBSET (1 .. Len(said))
      BY <2>4 DEF WrittenSoFar
    <3> QED
      BY <2>4, <3>1
  <2> HIDE DEF j
  <2>10. Streamed(cla', WrittenSoFar')
    BY <2>1, <2>3, <2>4, <2>8, <2>9, StreamsPiece
  <2>11. GeminiTold(gem', WrittenSoFar')
    BY <2>1, <2>3, <2>4, <2>8, <2>9, GeminiSaysPiece
  <2>12. PICK pending : /\ res'.pending = pending /\ res'.calls = <<>> /\ Turn(pending)'
                        /\ Telling(res', TextSoFar', CallsSoFar(pending)')
    BY <2>7
  <2>13. Telling(res', TextSoFar', CallsSoFar(res.pending)') /\ Turn(res.pending)'
    BY <2>12 DEF CallsSoFar, Turn
  <2>14. res'.sent \in Seq(ItemEvents) /\ \E Ds : Gives(res'.sent, "call", Ds)
    BY <2>13 DEF Telling, ResponseStates, ItemLists
  <2>15. ~Api!Finalized' /\ ended' # "end"
    BY <2>2 DEF Api!Finalized
  <2> QED
    BY <2>2, <2>5, <2>6, <2>10, <2>11, <2>12, <2>13, <2>14, <2>15 DEF ToldInv
<1>2. CASE Api!KeepAlive
  <2> DEFINE e == Api!Block("ping", -1)
  <2>1. /\ ended = "no" /\ ended' = "no" /\ said' = said /\ ask' = ask /\ res' = res /\ gem' = gem
        /\ cla' = Api!Say(cla, e)
    BY <1>2 DEF Api!KeepAlive, Api!Open
  <2>2. e \in BlockEvents
    <3>1. <<>> \in Seq(Int)
      OBVIOUS
    <3> QED
      BY <3>1 DEF Api!Block, BlockEvents
  <2>3. ~Is(e, "text") /\ ~Is(e, "call")
    BY BlockIs
  <2> HIDE DEF e
  <2>4. Streamed(cla', WrittenSoFar)
    BY <2>1, <2>2, <2>3, StreamsOther DEF ToldInv
  <2>5. /\ TextSoFar' = TextSoFar /\ WrittenSoFar' = WrittenSoFar
        /\ CallsSoFar(res.pending)' = CallsSoFar(res.pending) /\ Turn(res.pending)' = Turn(res.pending)
    BY <2>1, SameSoFar
  <2>6. Said' = Said /\ CutIsLast' = CutIsLast
    BY <2>1, SameAnswer
  <2>7. ~Api!Finalized' /\ ended' # "end"
    BY <2>1 DEF Api!Finalized
  <2> QED
    BY <2>1, <2>4, <2>5, <2>6, <2>7 DEF ToldInv
<1>3. CASE Api!Finish
  <2>1. /\ ended = "no" /\ said' = said /\ ask' = ask /\ ended' \in {"end", "error", "broken"}
        /\ res' = Api!ResponsesEnd(res) /\ gem' = Api!GeminiEnd(gem)
        /\ ended' = "end" => cla' = Api!ClaudeEnd(cla)
    BY <1>3 DEF Api!Finish
  <2>2. /\ Said /\ CutIsLast /\ Telling(res, TextSoFar, CallsSoFar(res.pending)) /\ res.calls = <<>>
        /\ Turn(res.pending) /\ Streamed(cla, WrittenSoFar) /\ GeminiTold(gem, WrittenSoFar)
    BY <2>1 DEF ToldInv
  <2>3. /\ AllShown' = AllShown /\ AllKept' = AllKept /\ AllGiven' = AllGiven
        /\ Api!Detected' = Api!Detected /\ Said' /\ CutIsLast'
    BY <2>1, <2>2, SameAnswer
  <2>4. Told(res'.sent, AllShown, Api!Detected)
    BY <2>1, <2>2, TellsAll
  <2>5. gem' \in Seq(GeminiEvents) /\ Gives(gem', "text", AllGiven) /\ CallsKept(gem')
    BY <2>1, <2>2, GeminiEndSays
  <2>6. ended' = "end" => /\ cla'.sent \in Seq(BlockEvents)
                          /\ Gives(cla'.sent, "text", AllKept) /\ CallsKept(cla'.sent)
    BY <2>1, <2>2, StreamsAll
  <2>7. \E X, Ds : res'.sent \in Seq(X) /\ Gives(res'.sent, "call", Ds)
    BY <2>4 DEF Told
  <2>8. Told(res.sent, AllShown, Api!Detected)'
    BY <2>3, <2>4 DEF Told
  <2>9. (gem \in Seq(GeminiEvents) /\ Gives(gem, "text", AllGiven) /\ CallsKept(gem))'
    BY <2>1, <2>3, <2>5 DEF CallsKept
  <2>10. (ended = "end" => /\ cla.sent \in Seq(BlockEvents)
                           /\ Gives(cla.sent, "text", AllKept) /\ CallsKept(cla.sent))'
    BY <2>1, <2>3, <2>6 DEF CallsKept
  <2> QED
    BY <2>1, <2>3, <2>7, <2>8, <2>9, <2>10 DEF ToldInv
<1>4. CASE Api!Gone
  <2>1. ended' = "gone" /\ said' = said /\ ask' = ask /\ res' = res
    BY <1>4 DEF Api!Gone
  <2> QED
    BY <2>1, SameAnswer DEF ToldInv, Api!Finalized
<1>5. CASE Api!Refused
  <2>1. /\ ended = "no" /\ ended' = "refused" /\ said' = said /\ ask' = ask
        /\ res' = [res EXCEPT !.sent = <<>>] /\ res \in ResponseStates
    BY <1>5 DEF Api!Refused, ToldInv, Telling
  <2>2. res'.sent = <<>>
    BY <2>1 DEF ResponseStates
  <2>3. <<>> \in Seq(Int) /\ Gives(<<>>, "call", {})
    BY NoneGives
  <2> QED
    BY <2>1, <2>2, <2>3, SameAnswer DEF ToldInv, Api!Finalized
<1>6. CASE UNCHANGED Api!vars
  <2>1. /\ ended' = ended /\ said' = said /\ ask' = ask /\ res' = res /\ cla' = cla /\ gem' = gem
    BY <1>6 DEF Api!vars
  <2>2. /\ TextSoFar' = TextSoFar /\ WrittenSoFar' = WrittenSoFar
        /\ CallsSoFar(res.pending)' = CallsSoFar(res.pending) /\ Turn(res.pending)' = Turn(res.pending)
    BY <2>1, SameSoFar
  <2> QED
    BY <2>1, <2>2, SameAnswer DEF ToldInv, Api!Finalized, CallsKept
<1> QED
  BY <1>1, <1>2, <1>3, <1>4, <1>5, <1>6 DEF Api!Next

(* Nothing has been told at the start *)
LEMMA ToldStart ==
  ASSUME Api!Init
  PROVE  ToldInv
<1> DEFINE e == Api!Event("created", -1)
           f == Api!Block("message_start", -1)
<1>1. /\ said = <<>> /\ ended = "no" /\ gem = <<>>
      /\ res = [sent |-> <<e>>, message |-> -1, calls |-> <<>>,
                next |-> 0, called |-> FALSE, shown |-> <<>>, pending |-> {}]
      /\ cla = [sent |-> <<f>>, next |-> 0, thinking |-> -1, text |-> -1]
  BY DEF Api!Init
<1>2. e \in ItemEvents /\ f \in BlockEvents
  <2>1. <<>> \in Seq(Int)
    OBVIOUS
  <2> QED
    BY <2>1 DEF Api!Event, ItemEvents, Api!Block, BlockEvents
<1>3. /\ \A t \in {"text", "text done", "call"} : ~Is(e, t)
      /\ \A t \in {"text", "call"} : ~Is(f, t)
  BY EventIs, BlockIs
<1> HIDE DEF e, f
<1>4. /\ <<e>> \in Seq(ItemEvents) /\ Len(<<e>>) = 1 /\ <<e>>[1] = e /\ \A k \in 1 .. 1 : k = 1
      /\ <<f>> \in Seq(BlockEvents) /\ Len(<<f>>) = 1 /\ <<f>>[1] = f
  BY <1>2
<1>5. /\ \A t \in {"text", "text done", "call"} : Gives(<<e>>, t, {})
      /\ \A t \in {"text", "call"} : Gives(<<f>>, t, {})
      /\ \A t : Gives(<<>>, t, {})
  <2>1. ASSUME NEW t \in {"text", "text done", "call"}
        PROVE  Gives(<<e>>, t, {})
    <3>1. \A k \in 1 .. Len(<<e>>) : ~Is(<<e>>[k], t)
      BY <1>3, <1>4
    <3> QED
      BY <3>1, NoneGives
  <2>2. ASSUME NEW t \in {"text", "call"}
        PROVE  Gives(<<f>>, t, {})
    <3>1. \A k \in 1 .. Len(<<f>>) : ~Is(<<f>>[k], t)
      BY <1>3, <1>4
    <3> QED
      BY <3>1, NoneGives
  <2>3. ASSUME NEW t
        PROVE  Gives(<<>>, t, {})
    BY DEF Gives, Typed, Covers, Rises
  <2> QED
    BY <2>1, <2>2, <2>3
<1>6. \A kinds : Api!Pieces(kinds) = {}
  BY <1>1 DEF Api!Pieces
<1>7. TextSoFar = {} /\ CallsSoFar({}) = {} /\ WrittenSoFar = {} /\ Turn({}) /\ Said /\ CutIsLast
  BY <1>1, <1>6 DEF TextSoFar, CallsSoFar, WrittenSoFar, Api!Written, Turn, Said, CutIsLast
<1>8. /\ res \in ResponseStates /\ res.sent = <<e>> /\ res.calls = <<>> /\ res.shown = <<>>
      /\ res.called = FALSE /\ res.pending = {}
  <2>1. PICK l \in ItemLists, n \in Lines, x \in NumberSets : l = <<e>> /\ n = <<>> /\ x = {}
    <3>1. <<e>> \in ItemLists /\ <<>> \in Lines /\ {} \in NumberSets
      BY <1>4 DEF ItemLists, Lines, NumberSets
    <3> QED
      BY <3>1
  <2>2. res = [sent |-> l, message |-> -1, calls |-> n, next |-> 0, called |-> FALSE, shown |-> n, pending |-> x]
    BY <1>1, <2>1
  <2> QED
    BY <2>1, <2>2 DEF ResponseStates
<1>9. Rising(<<>>, {})
  BY DEF Rising, Lines
<1>10. Telling(res, {}, {})
  BY <1>5, <1>8, <1>9 DEF Telling, Called
<1>11. Streamed(cla, {})
  BY <1>1, <1>4, <1>5 DEF Streamed, ClaudeStates
<1>12. GeminiTold(gem, {})
  <2>1. gem \in Seq(GeminiEvents)
    BY <1>1
  <2> QED
    BY <1>1, <1>5, <2>1 DEF GeminiTold
<1>13. Api!Finalized = FALSE
  BY <1>1 DEF Api!Finalized
<1> QED
  BY <1>1, <1>4, <1>5, <1>7, <1>8, <1>10, <1>11, <1>12, <1>13 DEF ToldInv

(***************************************************************************)
(* Every tool call of the answer is delivered once by each API, in the     *)
(* order of the answer, however many pieces and calls it has: by the       *)
(* streamed response while it comes, a block when the next piece comes, by *)
(* native Claude and Gemini at its end, if tools were asked for.           *)
(***************************************************************************)
THEOREM CallsToldOnce == Spec => []CallsOnce
<1>1. ToldInv /\ MaxCalls \in Nat => CallsOnce
  BY ToldIsOnce DEF CallsOnce
<1>2. MaxCalls \in Nat
  BY StreamsAssumption
<1> QED
  BY <1>1, <1>2, ToldStart, ToldStep, StoresApart, PTL DEF Api!Spec

(***************************************************************************)
(* When the answer is over, each API has delivered its text once, in order *)
(* and to the end, with what a broken block held back, or has left it out  *)
(* where calls replace it; the response that is not streamed has the text  *)
(* of the one that is.                                                     *)
(***************************************************************************)
THEOREM TextToldOnce == Spec => []TextOnce
<1>1. ToldInv /\ MaxCalls \in Nat => TextOnce
  BY ToldIsText DEF TextOnce
<1>2. MaxCalls \in Nat
  BY StreamsAssumption
<1> QED
  BY <1>1, <1>2, ToldStart, ToldStep, StoresApart, PTL DEF Api!Spec
=============================================================================
