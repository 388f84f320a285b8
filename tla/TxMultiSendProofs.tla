------------------------- MODULE TxMultiSendProofs -------------------------
(***************************************************************************)
(* Proofs about SendMultipleTransactions: the type invariant and           *)
(* MultiOutcomeFaithful, for every pool.  They rest on facts about         *)
(* SubSeqAt, the order-keeping filter the grouping by shard and the        *)
(* per-shard view of the calls are written with, and about ShardSum.       *)
(***************************************************************************)
EXTENDS TxMultiSend, PoolLemmas, FiniteSetTheorems, TLAPS

-----------------------------------------------------------------------------
(***************************************************************************)
(* SubSeqAt: the k-th element is the one at the position of rank k.        *)
(***************************************************************************)

(* A set of positions of a sequence is finite and no larger than it.       *)
LEMMA PositionsFinite ==
    ASSUME NEW n \in Nat, NEW K \in SUBSET (1..n)
    PROVE  /\ IsFiniteSet(K)
           /\ Cardinality(K) \in 0..n
<1>1. IsFiniteSet(1..n) /\ Cardinality(1..n) = n
    BY FS_Interval
<1>2. IsFiniteSet(K) /\ Cardinality(K) <= n
    BY <1>1, FS_Subset
<1>. QED
    BY <1>2, FS_CardinalityType

(* The rank of a kept position is between 1 and the number of them.        *)
LEMMA RankBounds ==
    ASSUME NEW n \in Nat, NEW K \in SUBSET (1..n), NEW i \in K
    PROVE  RankIn(K, i) \in 1..Cardinality(K)
<1> DEFINE L == {j \in K : j <= i}
<1>1. IsFiniteSet(K) /\ Cardinality(K) \in Nat
    BY PositionsFinite
<1>2. IsFiniteSet(L) /\ Cardinality(L) <= Cardinality(K) /\ Cardinality(L) \in Nat
    BY <1>1, FS_Subset, FS_CardinalityType
<1>3. {i} \subseteq L
    OBVIOUS
<1>4. Cardinality({i}) = 1
    BY FS_Singleton
<1>5. Cardinality(L) >= 1
    BY <1>2, <1>3, <1>4, FS_Subset
<1>. QED
    BY <1>1, <1>2, <1>5 DEF RankIn

(* A later kept position has a larger rank.                                *)
LEMMA RankStrict ==
    ASSUME NEW n \in Nat, NEW K \in SUBSET (1..n), NEW i \in K, NEW j \in K, i < j
    PROVE  RankIn(K, i) < RankIn(K, j)
<1> DEFINE Li == {k \in K : k <= i}
           Lj == {k \in K : k <= j}
<1>1. IsFiniteSet(K)
    BY PositionsFinite
<1>2. IsFiniteSet(Lj) /\ Cardinality(Lj) \in Nat
    BY <1>1, FS_Subset, FS_CardinalityType
<1>0. i \in Nat /\ j \in Nat /\ K \subseteq Nat
    OBVIOUS
<1>3a. Li \subseteq Lj
    <2> SUFFICES ASSUME NEW x \in K, x <= i PROVE x <= j
        OBVIOUS
    <2>1. x \in Nat
        BY <1>0
    <2>. QED
        BY <1>0, <2>1
<1>3b. j \in Lj
    BY <1>0
<1>3c. j \notin Li
    BY <1>0
<1>3. Li \subseteq Lj /\ j \in Lj /\ j \notin Li
    BY <1>3a, <1>3b, <1>3c
<1>4. /\ Cardinality(Li) <= Cardinality(Lj)
      /\ Cardinality(Li) = Cardinality(Lj) => Li = Lj
      /\ Cardinality(Li) \in Nat
    BY <1>2, <1>3, FS_Subset, FS_CardinalityType
<1>5. Li # Lj
    BY <1>3
<1>6. Cardinality(Li) < Cardinality(Lj)
    BY <1>2, <1>4, <1>5
<1>. QED
    BY <1>6 DEF RankIn

(* Every rank from 1 to the number of kept positions is taken: ranking is *)
(* an injection of the kept positions into 1..Cardinality(K), which has as *)
(* many elements, so it is onto.                                           *)
LEMMA RankOnto ==
    ASSUME NEW n \in Nat, NEW K \in SUBSET (1..n), NEW k \in 1..Cardinality(K)
    PROVE  \E i \in K : RankIn(K, i) = k
<1> DEFINE C == Cardinality(K)
           f == [i \in K |-> RankIn(K, i)]
<1>1. IsFiniteSet(K) /\ C \in Nat
    BY PositionsFinite
<1>2. f \in [K -> 1..C]
    BY RankBounds
<1>3. \A a, b \in K : f[a] = f[b] => a = b
    <2> SUFFICES ASSUME NEW a \in K, NEW b \in K, a # b
                 PROVE  f[a] # f[b]
        OBVIOUS
    <2>1. a < b \/ b < a
        OBVIOUS
    <2>2. RankIn(K, a) \in Nat /\ RankIn(K, b) \in Nat
        <3>1. RankIn(K, a) \in 1..C /\ RankIn(K, b) \in 1..C
            BY RankBounds
        <3>. QED
            BY <3>1, <1>1
    <2>3. CASE a < b
        <3>1. RankIn(K, a) < RankIn(K, b)
            BY <2>3, RankStrict
        <3>. QED
            BY <3>1, <2>2
    <2>4. CASE b < a
        <3>1. RankIn(K, b) < RankIn(K, a)
            BY <2>4, RankStrict
        <3>. QED
            BY <3>1, <2>2
    <2>. QED
        BY <2>1, <2>3, <2>4
<1>4. f \in Injection(K, 1..C)
    BY <1>2, <1>3 DEF Injection, IsInjective
<1>5. IsFiniteSet(1..C) /\ Cardinality(1..C) = C
    BY <1>1, FS_Interval
<1>6. f \in Surjection(K, 1..C)
    BY <1>1, <1>4, <1>5, FS_Injection
<1>. QED
    BY <1>6 DEF Surjection

(* The position SubSeqAt takes its k-th element from.                      *)
RankedAt(K, k) == CHOOSE i \in K : RankIn(K, i) = k

(* The k-th element of SubSeqAt comes from the kept position of rank k,   *)
(* and that position is the only one of that rank.                        *)
LEMMA RankedAtFacts ==
    ASSUME NEW n \in Nat, NEW K \in SUBSET (1..n), NEW k \in 1..Cardinality(K)
    PROVE  /\ RankedAt(K, k) \in K
           /\ RankIn(K, RankedAt(K, k)) = k
           /\ \A i \in K : RankIn(K, i) = k => i = RankedAt(K, k)
<1>1. RankedAt(K, k) \in K /\ RankIn(K, RankedAt(K, k)) = k
    BY RankOnto DEF RankedAt
<1>2. \A i \in K : RankIn(K, i) = k => i = RankedAt(K, k)
    <2> SUFFICES ASSUME NEW i \in K, RankIn(K, i) = k, i # RankedAt(K, k)
                 PROVE  FALSE
        OBVIOUS
    <2> DEFINE r == RankedAt(K, k)
    <2>0. RankedAt(K, k) \in 1..n
        BY <1>1
    <2>1. i \in Nat /\ r \in Nat
        BY <2>0 DEF r
    <2>2. i < r \/ r < i
        BY <2>1
    <2>3. CASE i < r
        <3>1. RankIn(K, i) < RankIn(K, r)
            BY <1>1, <2>3, RankStrict DEF r
        <3>. QED
            BY <3>1, <1>1 DEF r
    <2>4. CASE r < i
        <3>1. RankIn(K, r) < RankIn(K, i)
            BY <1>1, <2>4, RankStrict DEF r
        <3>. QED
            BY <3>1, <1>1 DEF r
    <2>. QED
        BY <2>2, <2>3, <2>4
<1>. QED
    BY <1>1, <1>2

(* An element of a sequence over S is in S.                              *)
LEMMA SeqElement ==
    ASSUME NEW S, NEW seq \in Seq(S), NEW k \in 1..Len(seq)
    PROVE  seq[k] \in S
OBVIOUS

(* SubSeqAt of a sequence over S is a sequence over S, with one element   *)
(* per kept position.                                                      *)
LEMMA SubSeqAtType ==
    ASSUME NEW S, NEW seq \in Seq(S), NEW K \in SUBSET (1..Len(seq))
    PROVE  /\ SubSeqAt(seq, K) \in Seq(S)
           /\ Len(SubSeqAt(seq, K)) = Cardinality(K)
           /\ Cardinality(K) <= Len(seq)
           /\ SubSeqAt(seq, K) = << >> <=> K = {}
<1>1. IsFiniteSet(K) /\ Cardinality(K) \in 0..Len(seq)
    BY PositionsFinite
<1>2. \A k \in 1..Cardinality(K) : seq[RankedAt(K, k)] \in S
    <2> SUFFICES ASSUME NEW k \in 1..Cardinality(K) PROVE seq[RankedAt(K, k)] \in S
        OBVIOUS
    <2>0. Len(seq) \in Nat
        OBVIOUS
    <2>1. RankedAt(K, k) \in 1..Len(seq)
        BY <2>0, RankedAtFacts
    <2>. QED
        BY <2>1, SeqElement
<1>3. SubSeqAt(seq, K) = [k \in 1..Cardinality(K) |-> seq[RankedAt(K, k)]]
    BY DEF SubSeqAt, RankedAt
<1>4. SubSeqAt(seq, K) \in Seq(S) /\ Len(SubSeqAt(seq, K)) = Cardinality(K)
    BY <1>1, <1>2, <1>3
<1>5. Cardinality(K) = 0 <=> K = {}
    BY <1>1, FS_EmptySet
<1>. QED
    BY <1>1, <1>4, <1>5

(* The kept position of rank k is the only one.                           *)
LEMMA RankedAtUnique ==
    ASSUME NEW n \in Nat, NEW K \in SUBSET (1..n), NEW k \in 1..Cardinality(K),
           NEW i \in K, RankIn(K, i) = k
    PROVE  i = RankedAt(K, k)
BY RankedAtFacts

(* SubSeqAt written with RankedAt.                                          *)
LEMMA SubSeqAtDef ==
    ASSUME NEW seq, NEW K
    PROVE  SubSeqAt(seq, K) = [k \in 1..Cardinality(K) |-> seq[RankedAt(K, k)]]
BY DEF SubSeqAt, RankedAt

(* Appending to a sequence leaves SubSeqAt over its old positions as it   *)
(* was, and SubSeqAt over the old positions and the new one gains the     *)
(* appended element at its end.                                            *)
LEMMA SubSeqAtAppend ==
    ASSUME NEW S, NEW seq \in Seq(S), NEW x, NEW K \in SUBSET (1..Len(seq))
    PROVE  /\ SubSeqAt(Append(seq, x), K) = SubSeqAt(seq, K)
           /\ SubSeqAt(Append(seq, x), K \cup {Len(seq) + 1})
                = Append(SubSeqAt(seq, K), x)
<1>1. PICK n \in Nat : n = Len(seq)
    OBVIOUS
<1>2. PICK m \in Nat : m = n + 1
    BY <1>1
<1>3. PICK K2 : K2 = K \cup {m}
    OBVIOUS
<1>4. PICK C \in Nat : C = Cardinality(K)
    BY <1>1, PositionsFinite
<1>5. PICK t : t = Append(seq, x)
    OBVIOUS
<1>6a. K \in SUBSET (1..n)
    BY <1>1
<1>6b. m \notin K /\ 1..n \subseteq 1..m /\ m \in 1..m
    BY <1>2, <1>6a
<1>6. /\ K \in SUBSET (1..n) /\ K2 \in SUBSET (1..m)
      /\ m \in K2 /\ m \notin K /\ K \subseteq K2
    BY <1>3, <1>6a, <1>6b
<1>7. IsFiniteSet(K) /\ C <= n
    BY <1>1, <1>4, <1>6, PositionsFinite
<1>8. Cardinality(K2) = C + 1
    BY <1>3, <1>4, <1>6, <1>7, FS_AddElement
<1>9. \A k \in 1..C : RankedAt(K, k) \in 1..n
    BY <1>4, <1>6, RankedAtFacts
<1>10. \A i \in 1..n : t[i] = seq[i]
    BY <1>1, <1>5
<1>11. t[m] = x
    BY <1>1, <1>2, <1>5
<1>12. SubSeqAt(t, K) = SubSeqAt(seq, K)
    <2>1. \A k \in 1..C : t[RankedAt(K, k)] = seq[RankedAt(K, k)]
        BY <1>9, <1>10
    <2>. QED
        BY <1>4, <2>1, SubSeqAtDef
<1>13. \A i \in K : RankIn(K2, i) = RankIn(K, i)
    <2> SUFFICES ASSUME NEW i \in K PROVE RankIn(K2, i) = RankIn(K, i)
        OBVIOUS
    <2>1. {j \in K2 : j <= i} = {j \in K : j <= i}
        BY <1>2, <1>3, <1>6
    <2>. QED
        BY <2>1 DEF RankIn
<1>14. RankIn(K2, m) = C + 1
    <2>0. \A j \in K2 : j \in Nat /\ j <= m
        BY <1>6
    <2>1. {j \in K2 : j <= m} = K2
        BY <2>0
    <2>. QED
        BY <2>1, <1>8 DEF RankIn
<1>15. \A k \in 1..C : RankedAt(K2, k) = RankedAt(K, k)
    <2> SUFFICES ASSUME NEW k \in 1..C PROVE RankedAt(K2, k) = RankedAt(K, k)
        OBVIOUS
    <2>1. PICK r \in K : r = RankedAt(K, k)
        BY <1>4, <1>6, RankedAtFacts
    <2>2. RankIn(K, r) = k
        BY <1>4, <1>6, <2>1, RankedAtFacts
    <2>3. RankIn(K2, r) = k
        BY <2>2, <1>13
    <2>4. k \in 1..Cardinality(K2) /\ r \in K2
        BY <1>6, <1>7, <1>8
    <2>. QED
        BY <1>6, <2>1, <2>3, <2>4, RankedAtUnique
<1>16. RankedAt(K2, C + 1) = m
    <2>1. C + 1 \in 1..Cardinality(K2)
        BY <1>8
    <2>. QED
        BY <1>6, <1>14, <2>1, RankedAtUnique
<1>17. SubSeqAt(t, K2) = Append(SubSeqAt(seq, K), x)
    <2>1. SubSeqAt(t, K2) = [k \in 1..C + 1 |-> t[RankedAt(K2, k)]]
        BY <1>8, SubSeqAtDef
    <2>2. SubSeqAt(seq, K) = [k \in 1..C |-> seq[RankedAt(K, k)]]
        BY <1>4, SubSeqAtDef
    <2>3. \A k \in 1..C : t[RankedAt(K2, k)] = seq[RankedAt(K, k)]
        BY <1>9, <1>10, <1>15
    <2>4. t[RankedAt(K2, C + 1)] = x
        BY <1>11, <1>16
    <2>. QED
        BY <2>1, <2>2, <2>3, <2>4
<1>. QED
    BY <1>1, <1>2, <1>3, <1>5, <1>12, <1>17


-----------------------------------------------------------------------------
(***************************************************************************)
(* ShardSum: the sum over the shards, as the number of pairs <<s, k>>.     *)
(***************************************************************************)

(* Nothing accepted sums to zero.                                           *)
LEMMA ShardSumZero ==
    /\ IsFiniteSet(SumPairs([s \in Shards |-> 0]))
    /\ ShardSum([s \in Shards |-> 0]) = 0
<1>1. SumPairs([s \in Shards |-> 0]) = {}
    BY DEF SumPairs
<1>. QED
    BY <1>1, FS_EmptySet DEF ShardSum

(* A shard that had accepted nothing and now accepts v adds v to the sum. *)
LEMMA ShardSumAdd ==
    ASSUME NEW f \in [Shards -> Nat], NEW s \in Shards, f[s] = 0, NEW v \in Nat,
           IsFiniteSet(SumPairs(f))
    PROVE  /\ IsFiniteSet(SumPairs([f EXCEPT ![s] = v]))
           /\ ShardSum([f EXCEPT ![s] = v]) = ShardSum(f) + v
<1>1. PICK g : g = [f EXCEPT ![s] = v]
    OBVIOUS
<1>2. PICK B : B = {s} \X (1..v)
    OBVIOUS
<1>3. SumPairs(g) = SumPairs(f) \cup B
    <2>1. ASSUME NEW p \in SumPairs(g) PROVE p \in SumPairs(f) \cup B
        <3>1. PICK t \in Shards : p \in {t} \X (1..g[t])
            BY <2>1 DEF SumPairs
        <3>2. CASE t = s
            BY <1>1, <1>2, <3>1, <3>2
        <3>3. CASE t # s
            <4>1. g[t] = f[t]
                BY <1>1, <3>3
            <4>. QED
                BY <3>1, <4>1 DEF SumPairs
        <3>. QED
            BY <3>2, <3>3
    <2>2. ASSUME NEW p \in SumPairs(f) PROVE p \in SumPairs(g)
        <3>1. PICK t \in Shards : p \in {t} \X (1..f[t])
            BY <2>2 DEF SumPairs
        <3>2. t # s
            BY <3>1
        <3>3. g[t] = f[t]
            BY <1>1, <3>2
        <3>. QED
            BY <3>1, <3>3 DEF SumPairs
    <2>3. ASSUME NEW p \in B PROVE p \in SumPairs(g)
        <3>1. g[s] = v
            BY <1>1
        <3>. QED
            BY <1>2, <2>3, <3>1 DEF SumPairs
    <2>. QED
        BY <2>1, <2>2, <2>3
<1>4. SumPairs(f) \cap B = {}
    <2> SUFFICES ASSUME NEW p \in SumPairs(f), p \in B PROVE FALSE
        OBVIOUS
    <2>1. PICK t \in Shards : p \in {t} \X (1..f[t])
        BY DEF SumPairs
    <2>2. t = s
        BY <1>2, <2>1
    <2>. QED
        BY <2>1, <2>2
<1>5. IsFiniteSet(B) /\ Cardinality(B) = v
    <2>0a. PICK Sg : Sg = {s}
        OBVIOUS
    <2>0b. PICK I : I = 1..v
        OBVIOUS
    <2>1. IsFiniteSet(Sg) /\ Cardinality(Sg) = 1
        BY <2>0a, FS_Singleton
    <2>2. IsFiniteSet(I) /\ Cardinality(I) = IF 1 > v THEN 0 ELSE v - 1 + 1
        <3>1. 1 \in Int /\ v \in Int
            OBVIOUS
        <3>. QED
            BY <2>0b, <3>1, FS_Interval
    <2>3. Cardinality(I) = v
        BY <2>2
    <2>4. IsFiniteSet(Sg \X I) /\ Cardinality(Sg \X I) = Cardinality(Sg) * Cardinality(I)
        BY <2>1, <2>2, FS_Product
    <2>. QED
        BY <1>2, <2>0a, <2>0b, <2>1, <2>3, <2>4
<1>6a. PICK A : A = SumPairs(f)
    OBVIOUS
<1>6. /\ IsFiniteSet(A \cup B)
      /\ Cardinality(A \cup B) = Cardinality(A) + Cardinality(B) - Cardinality(A \cap B)
    BY <1>5, <1>6a, FS_Union
<1>7. Cardinality(A) \in Nat /\ Cardinality({}) = 0
    BY <1>6a, FS_CardinalityType, FS_EmptySet
<1>8a. A \cap B = {} /\ SumPairs(g) = A \cup B
    BY <1>3, <1>4, <1>6a
<1>8c. Cardinality(A \cap B) = 0
    BY <1>7, <1>8a
<1>8b. Cardinality(A \cup B) = Cardinality(A) + v
    BY <1>5, <1>6, <1>7, <1>8c
<1>8. IsFiniteSet(SumPairs(g)) /\ Cardinality(SumPairs(g)) = Cardinality(SumPairs(f)) + v
    BY <1>6, <1>6a, <1>8a, <1>8b
<1>. QED
    BY <1>1, <1>8 DEF ShardSum

-----------------------------------------------------------------------------
(***************************************************************************)
(* The type invariant.                                                     *)
(***************************************************************************)

(* The calls of shard s among a sequence of calls.                         *)
CallsOf(cs, s) == SubSeqAt(cs, {i \in 1..Len(cs) : cs[i].shard = s})

(* Appending a call adds it to the calls of its own shard only.           *)
LEMMA CallsOfAppend ==
    ASSUME NEW S, NEW cs \in Seq(S), NEW c, NEW s
    PROVE  CallsOf(Append(cs, c), s) =
               IF c.shard = s THEN Append(CallsOf(cs, s), c) ELSE CallsOf(cs, s)
<1>1. PICK K : K = {i \in 1..Len(cs) : cs[i].shard = s}
    OBVIOUS
<1>2. PICK t : t = Append(cs, c)
    OBVIOUS
<1>3. K \in SUBSET (1..Len(cs)) /\ Len(t) = Len(cs) + 1
    BY <1>1, <1>2
<1>4. \A i \in 1..Len(cs) : t[i] = cs[i]
    BY <1>2
<1>5. CASE c.shard = s
    <2>1. {i \in 1..Len(t) : t[i].shard = s} = K \cup {Len(cs) + 1}
        BY <1>1, <1>2, <1>3, <1>4, <1>5
    <2>2. CallsOf(t, s) = SubSeqAt(t, K \cup {Len(cs) + 1})
        BY <2>1 DEF CallsOf
    <2>3. SubSeqAt(t, K \cup {Len(cs) + 1}) = Append(SubSeqAt(cs, K), c)
        <3>1. SubSeqAt(Append(cs, c), K \cup {Len(cs) + 1}) = Append(SubSeqAt(cs, K), c)
            BY <1>3, SubSeqAtAppend
        <3>. QED
            BY <1>2, <3>1
    <2>4. CallsOf(cs, s) = SubSeqAt(cs, K)
        BY <1>1 DEF CallsOf
    <2>. QED
        BY <1>2, <1>5, <2>2, <2>3, <2>4
<1>6. CASE c.shard # s
    <2>1. {i \in 1..Len(t) : t[i].shard = s} = K
        BY <1>1, <1>2, <1>3, <1>4, <1>6
    <2>2. CallsOf(t, s) = SubSeqAt(t, K)
        BY <2>1 DEF CallsOf
    <2>3. SubSeqAt(t, K) = SubSeqAt(cs, K)
        BY <1>2, <1>3, SubSeqAtAppend
    <2>4. CallsOf(cs, s) = SubSeqAt(cs, K)
        BY <1>1 DEF CallsOf
    <2>. QED
        BY <1>2, <1>6, <2>2, <2>3, <2>4
<1>. QED
    BY <1>5, <1>6

(* No call: no call of any shard.                                          *)
LEMMA CallsOfEmpty ==
    ASSUME NEW s
    PROVE  CallsOf(<< >>, s) = << >>
<1>1. {i \in 1..Len(<< >>) : << >>[i].shard = s} = {}
    OBVIOUS
<1>2. Cardinality({}) = 0
    BY FS_EmptySet
<1>. QED
    BY <1>1, <1>2 DEF CallsOf, SubSeqAt

(* A batch is a sequence of transactions no longer than MaxBatch, and so  *)
(* are its valid transactions and each of their groups by shard.          *)
LEMMA BatchGrouping ==
    ASSUME NEW txs \in Batches
    PROVE  LET v == SubSeqAt(txs, {i \in 1..Len(txs) : checkTransactionFields(txs[i])})
           IN  /\ v \in Seq(Txs)
               /\ getTxsByShardId(v) \in [Shards -> Seq(Txs)]
               /\ \A s \in Shards : Len(getTxsByShardId(v)[s]) <= MaxBatch
<1>1. txs \in Seq(Txs) /\ Len(txs) <= MaxBatch
    <2>1. PICK n \in 1..MaxBatch : txs \in [1..n -> Txs]
        BY DEF Batches
    <2>. QED
        BY <2>1, MultiAssumption
<1>2. PICK v : v = SubSeqAt(txs, {i \in 1..Len(txs) : checkTransactionFields(txs[i])})
    BY Zenon
<1>3. v \in Seq(Txs) /\ Len(v) <= MaxBatch
    <2>1. PICK K : K = {i \in 1..Len(txs) : checkTransactionFields(txs[i])}
        OBVIOUS
    <2>2. K \in SUBSET (1..Len(txs))
        BY <2>1
    <2>3. /\ SubSeqAt(txs, K) \in Seq(Txs)
          /\ Len(SubSeqAt(txs, K)) = Cardinality(K)
          /\ Cardinality(K) <= Len(txs)
        BY <1>1, <2>2, SubSeqAtType
    <2>4. v = SubSeqAt(txs, K)
        BY <1>2, <2>1
    <2>5. Cardinality(K) \in Nat /\ Len(txs) \in Nat
        BY <1>1, <2>2, PositionsFinite
    <2>6. v \in Seq(Txs)
        BY <2>3, <2>4, Zenon
    <2>7. Len(v) = Cardinality(K)
        BY <2>3, <2>4, Zenon
    <2>8. Cardinality(K) <= MaxBatch
        BY <1>1, <2>3, <2>5, MultiAssumption
    <2>. QED
        BY <2>5, <2>6, <2>7, <2>8
<1>4. \A s \in Shards : getTxsByShardId(v)[s] \in Seq(Txs)
                        /\ Len(getTxsByShardId(v)[s]) <= MaxBatch
    <2> SUFFICES ASSUME NEW s \in Shards
                 PROVE  getTxsByShardId(v)[s] \in Seq(Txs)
                        /\ Len(getTxsByShardId(v)[s]) <= MaxBatch
        OBVIOUS
    <2>1. PICK K : K = {i \in 1..Len(v) : SenderShard(v[i]) = s}
        OBVIOUS
    <2>2. K \in SUBSET (1..Len(v))
        BY <2>1
    <2>3. getTxsByShardId(v)[s] = SubSeqAt(v, K)
        BY <2>1 DEF getTxsByShardId
    <2>4. /\ SubSeqAt(v, K) \in Seq(Txs)
          /\ Len(SubSeqAt(v, K)) = Cardinality(K)
          /\ Cardinality(K) <= Len(v)
        BY <1>3, <2>2, SubSeqAtType
    <2>5. Cardinality(K) \in Nat /\ Len(v) \in Nat
        BY <1>3, <2>2, PositionsFinite
    <2>6. getTxsByShardId(v)[s] \in Seq(Txs)
        BY <2>3, <2>4, Zenon
    <2>7. Len(getTxsByShardId(v)[s]) = Cardinality(K)
        BY <2>3, <2>4, Zenon
    <2>8. Cardinality(K) <= MaxBatch
        BY <1>3, <2>4, <2>5, MultiAssumption
    <2>. QED
        BY <2>5, <2>6, <2>7, <2>8
<1>. QED
    BY <1>2, <1>3, <1>4 DEF getTxsByShardId

(* No group is longer than the batch it was cut from.                      *)
GroupsBounded == \A s \in Shards : Len(groups[s]) <= MaxBatch

(* The observer loop runs over a shard of the pool.                        *)
CallingShard == phase = "calling" => cur \in Shards

(* The type invariant, with the two facts it needs: no group is longer    *)
(* than a batch (a reply reports at most the group it was sent), and the  *)
(* observer loop runs over a shard.                                        *)
TInv == TypeOK /\ GroupsBounded /\ CallingShard

(* The initial state satisfies TInv: no group, no call, nothing counted. *)
LEMMA TInvInit == Init => TInv
<1>1. NoGroups \in [Shards -> Seq(Txs)] /\ \A s \in Shards : Len(NoGroups[s]) <= MaxBatch
    BY MultiAssumption DEF NoGroups
<1>. QED
    BY <1>1 DEF Init, TInv, TypeOK, GroupsBounded, CallingShard

(* Every step of SendMultipleTransactions keeps TInv.                    *)
LEMMA TInvStep == TInv /\ [Next]_vars => TInv'
<1> SUFFICES ASSUME TInv, [Next]_vars PROVE TInv'
    OBVIOUS
<1> USE DEF TInv, TypeOK, GroupsBounded, CallingShard
<1>1. ASSUME NEW txs \in Batches, StartMulti(txs) PROVE TInv'
    <2>1. PICK v : v = SubSeqAt(txs, {i \in 1..Len(txs) : checkTransactionFields(txs[i])})
        OBVIOUS
    <2>2. /\ getTxsByShardId(v) \in [Shards -> Seq(Txs)]
          /\ \A s \in Shards : Len(getTxsByShardId(v)[s]) <= MaxBatch
        BY <2>1, BatchGrouping
    <2>3. [s \in Shards |-> 0] \in [Shards -> Nat]
        OBVIOUS
    <2>. QED
        BY <1>1, <2>1, <2>2, <2>3 DEF StartMulti, Errors
<1>2. ASSUME NextShard PROVE TInv'
    BY <1>2 DEF NextShard, Errors
<1>3. ASSUME MultiCall PROVE TInv'
    <2>1. PICK r \in [status : Statuses, err : BOOLEAN, num : 0..Len(groups[cur])] :
              /\ calls' = Append(calls, [shard |-> cur, obs |-> ShardObservers[cur][idx],
                                         reply |-> r])
              /\ IF IsOk(r)
                 THEN /\ total' = total + r.num
                      /\ accepted' = [accepted EXCEPT ![cur] = r.num]
                      /\ phase' = "shard" /\ UNCHANGED idx
                 ELSE /\ idx' = idx + 1
                      /\ UNCHANGED <<total, accepted, phase>>
        BY <1>3 DEF MultiCall
    <2>2. cur \in Shards /\ idx \in 1..Len(ShardObservers[cur])
        BY <1>3 DEF MultiCall
    <2>3. ShardObservers[cur][idx] \in Observers
        BY <2>2, PoolTypes, SeqElement
    <2>4. r \in Replies /\ r.num \in Nat
        <3>1. Len(groups[cur]) <= MaxBatch /\ Len(groups[cur]) \in Nat
            BY <2>2
        <3>2a. r.num \in 0..Len(groups[cur]) /\ r.status \in Statuses /\ r.err \in BOOLEAN
            BY <2>1
        <3>2. r.num \in 0..MaxBatch /\ r.status \in Statuses /\ r.err \in BOOLEAN
            BY <3>1, <3>2a, MultiAssumption
        <3>3. r = [status |-> r.status, err |-> r.err, num |-> r.num]
            BY <2>1
        <3>. QED
            BY <3>2, <3>3 DEF Replies
    <2>5. UNCHANGED <<groups, pending, cur, result>>
        BY <1>3 DEF MultiCall
    <2>6. calls' \in Seq([shard : Shards, obs : Observers, reply : Replies])
        <3>1. [shard |-> cur, obs |-> ShardObservers[cur][idx], reply |-> r]
                \in [shard : Shards, obs : Observers, reply : Replies]
            BY <2>2, <2>3, <2>4
        <3>. QED
            BY <2>1, <3>1
    <2>7. /\ phase' \in {"idle", "shard", "calling", "done"}
          /\ idx' \in Nat \ {0}
          /\ total' \in Nat
          /\ accepted' \in [Shards -> Nat]
        <3>1. CASE IsOk(r)
            <4>1. /\ total' = total + r.num
                  /\ accepted' = [accepted EXCEPT ![cur] = r.num]
                  /\ phase' = "shard" /\ idx' = idx
                BY <2>1, <3>1, Zenon
            <4>2. total \in Nat /\ accepted \in [Shards -> Nat] /\ idx \in Nat \ {0}
                OBVIOUS
            <4>. QED
                BY <2>2, <2>4, <4>1, <4>2
        <3>2. CASE ~IsOk(r)
            <4>1. idx' = idx + 1 /\ UNCHANGED <<total, accepted, phase>>
                BY <2>1, <3>2, Zenon
            <4>. QED
                BY <4>1
        <3>. QED
            BY <3>1, <3>2
    <2>. QED
        BY <2>2, <2>5, <2>6, <2>7
<1>4. ASSUME ShardExhausted PROVE TInv'
    BY <1>4 DEF ShardExhausted
<1>5. ASSUME MultiDone PROVE TInv'
    BY <1>5 DEF MultiDone
<1>6. CASE UNCHANGED vars
    BY <1>6 DEF vars
<1>. QED
    BY <1>1, <1>2, <1>3, <1>4, <1>5, <1>6 DEF Next

(* SendMultipleTransactions keeps its state well-typed: the groups are    *)
(* sequences of transactions, the calls go to observers of a shard with a *)
(* reply of the observer's kind, and the counts are naturals.              *)
THEOREM MultiTypeCorrect == Spec => []TypeOK
<1>1. TInv => TypeOK
    BY DEF TInv
<1>. QED
    BY <1>1, TInvInit, TInvStep, PTL DEF Spec
-----------------------------------------------------------------------------
(***************************************************************************)
(* The inductive invariant.  Between StartMulti and the return, and after *)
(* a return of (total, nil), the calls made so far are, for every shard,  *)
(* its observers in order, none but the last one took the batch, a shard  *)
(* whose map entry was not reached yet has no call, and accepted and      *)
(* total are what those calls reported.                                    *)
(***************************************************************************)

(* A request is running, or it returned without an error.                  *)
Active == phase \in {"shard", "calling"} \/ (phase = "done" /\ result.err = None)

(* The range loop has reached shard s's map entry.                         *)
Visited(s) == groups[s] # << >> /\ s \notin pending

(* The observer loop of cur: idx - 1 observers were called, none took the *)
(* batch.                                                                   *)
CurrentLoop ==
    phase = "calling" =>
        /\ groups[cur] # << >> /\ cur \notin pending
        /\ Len(ShardCalls(cur)) = idx - 1
        /\ idx <= Len(ShardObservers[cur]) + 1
        /\ \A i \in 1..Len(ShardCalls(cur)) : ~TookBatch(ShardCalls(cur)[i].reply)

(* What the calls of shard s were, and what they leave in accepted.       *)
ShardHistory(s) ==
    LET sc == ShardCalls(s) IN
    /\ Len(sc) <= Len(ShardObservers[s])
    /\ \A i \in 1..Len(sc) : sc[i].obs = ShardObservers[s][i]
    /\ \A i \in 1..Len(sc) - 1 : ~TookBatch(sc[i].reply)
    /\ groups[s] = << >> \/ s \in pending => sc = << >>
    /\ Visited(s) /\ ~(phase = "calling" /\ s = cur)
       /\ (sc = << >> \/ ~TookBatch(sc[Len(sc)].reply))
          => Len(sc) = Len(ShardObservers[s])
    /\ accepted[s] = AcceptedBy(s)

MInv ==
    /\ TypeOK /\ GroupsBounded /\ CallingShard
    /\ Active =>
         /\ pending \subseteq {s \in Shards : groups[s] # << >>}
         /\ CurrentLoop
         /\ \A s \in Shards : ShardHistory(s)
         /\ IsFiniteSet(SumPairs(accepted)) /\ total = ShardSum(accepted)
         /\ phase = "done" => pending = {} /\ result.count = total

(* What the last of a shard's calls reports as accepted.                   *)
LastAccepted(sc) ==
    IF sc # << >> /\ TookBatch(sc[Len(sc)].reply) THEN sc[Len(sc)].reply.num ELSE 0

(* ShardHistory with the state it reads as arguments: the shard's calls,  *)
(* its group, whether it is pending, whether its observer loop is        *)
(* running, and its accepted count.                                        *)
Hist(sc, s, g, isPending, looping, a) ==
    /\ Len(sc) <= Len(ShardObservers[s])
    /\ \A i \in 1..Len(sc) : sc[i].obs = ShardObservers[s][i]
    /\ \A i \in 1..Len(sc) - 1 : ~TookBatch(sc[i].reply)
    /\ g = << >> \/ isPending => sc = << >>
    /\ g # << >> /\ ~isPending /\ ~looping
       /\ (sc = << >> \/ ~TookBatch(sc[Len(sc)].reply))
       => Len(sc) = Len(ShardObservers[s])
    /\ a = LastAccepted(sc)

(* The calls of a shard, and ShardHistory, through these operators.        *)
LEMMA HistIs ==
    ASSUME NEW s
    PROVE  /\ ShardCalls(s) = CallsOf(calls, s)
           /\ ShardCalls(s)' = CallsOf(calls', s)
           /\ AcceptedBy(s) = LastAccepted(ShardCalls(s))
           /\ AcceptedBy(s)' = LastAccepted(ShardCalls(s)')
           /\ ShardHistory(s) <=>
                Hist(ShardCalls(s), s, groups[s], s \in pending, phase = "calling" /\ s = cur,
                     accepted[s])
           /\ ShardHistory(s)' <=>
                Hist(ShardCalls(s)', s, groups'[s], s \in pending', phase' = "calling" /\ s = cur',
                     accepted'[s])
BY DEF ShardCalls, CallsOf, AcceptedBy, LastAccepted, ShardHistory, Hist, Visited

(* The calls of a shard are a sequence of calls.                           *)
LEMMA CallsOfType ==
    ASSUME NEW S, NEW cs \in Seq(S), NEW s
    PROVE  CallsOf(cs, s) \in Seq(S)
<1>1. {i \in 1..Len(cs) : cs[i].shard = s} \in SUBSET (1..Len(cs))
    OBVIOUS
<1>. QED
    BY <1>1, SubSeqAtType DEF CallsOf


(* The initial state satisfies MInv: no request is running.               *)
LEMMA MInvInit == Init => MInv
<1>1. Init => ~Active
    BY DEF Init, Active
<1>. QED
    BY <1>1, TInvInit DEF MInv, TInv

(* At a return without error every shard's history is complete, and the  *)
(* count is the sum of what each shard's last call accepted.              *)
LEMMA MInvFaithful == MInv => MultiOutcomeFaithful
<1> SUFFICES ASSUME MInv, phase = "done", result.err = None
             PROVE  MultiOutcomeFaithful
    BY DEF MultiOutcomeFaithful
<1>1. Active
    BY DEF Active
<1>2. /\ pending = {} /\ result.count = total /\ total = ShardSum(accepted)
      /\ \A s \in Shards : ShardHistory(s)
      /\ accepted \in [Shards -> Nat]
    BY <1>1 DEF MInv, TypeOK
<1>3. ASSUME NEW s \in Shards
      PROVE  LET sc == ShardCalls(s) IN
              /\ Len(sc) <= Len(ShardObservers[s])
              /\ \A i \in 1..Len(sc) : sc[i].obs = ShardObservers[s][i]
              /\ \A i \in 1..Len(sc) - 1 : ~TookBatch(sc[i].reply)
              /\ groups[s] # << >> /\ (sc = << >> \/ ~TookBatch(sc[Len(sc)].reply))
                   => Len(sc) = Len(ShardObservers[s])
              /\ groups[s] = << >> => sc = << >>
    <2>1. Hist(ShardCalls(s), s, groups[s], s \in pending, phase = "calling" /\ s = cur, accepted[s])
        BY <1>2, HistIs
    <2>2. s \notin pending /\ ~(phase = "calling" /\ s = cur)
        BY <1>2
    <2>. QED
        BY <2>1, <2>2 DEF Hist
<1>4. accepted = [s \in Shards |-> AcceptedBy(s)]
    <2>1. ASSUME NEW s \in Shards PROVE accepted[s] = AcceptedBy(s)
        <3>1. Hist(ShardCalls(s), s, groups[s], s \in pending, phase = "calling" /\ s = cur,
                   accepted[s])
            BY <1>2, HistIs
        <3>2. accepted[s] = LastAccepted(ShardCalls(s))
            BY <3>1 DEF Hist
        <3>. QED
            BY <3>2, HistIs
    <2>2. \A s \in Shards : accepted[s] = AcceptedBy(s)
        BY <2>1
    <2>3. accepted = [s \in Shards |-> accepted[s]]
        BY <1>2
    <2>. QED
        BY <2>2, <2>3, Zenon
<1>. QED
    BY <1>2, <1>3, <1>4 DEF MultiOutcomeFaithful


(* The return leaves every history as it was and returns the total.       *)
LEMMA MInvMultiDone ==
    ASSUME MInv, MultiDone
    PROVE  MInv'
<1>1. TInv'
    BY TInvStep DEF MInv, TInv, Next
<1>2. Active /\ Active'
    BY DEF MultiDone, Active
<1>3. /\ pending \subseteq {s \in Shards : groups[s] # << >>}
      /\ \A s \in Shards : ShardHistory(s)
      /\ IsFiniteSet(SumPairs(accepted)) /\ total = ShardSum(accepted)
    BY <1>2 DEF MInv
<1>4. ASSUME NEW s \in Shards PROVE ShardHistory(s)'
    <2>1. ShardCalls(s)' = ShardCalls(s)
        BY HistIs DEF MultiDone
    <2>2. Hist(ShardCalls(s), s, groups[s], s \in pending, phase = "calling" /\ s = cur, accepted[s])
        BY <1>3, HistIs
    <2>3. /\ groups'[s] = groups[s] /\ pending' = pending /\ accepted'[s] = accepted[s]
          /\ (phase' = "calling" /\ s = cur') = (phase = "calling" /\ s = cur)
        BY DEF MultiDone
    <2>. QED
        BY <2>1, <2>2, <2>3, HistIs
<1>5. CurrentLoop'
    BY DEF MultiDone, CurrentLoop
<1>. QED
    BY <1>1, <1>3, <1>4, <1>5 DEF MultiDone, MInv, TInv

(* Every observer of cur failed: its history is now complete.             *)
LEMMA MInvShardExhausted ==
    ASSUME MInv, ShardExhausted
    PROVE  MInv'
<1>1. TInv'
    BY TInvStep DEF MInv, TInv, Next
<1>2. Active /\ Active' /\ cur \in Shards
    BY DEF ShardExhausted, Active, MInv, CallingShard
<1>3. /\ pending \subseteq {s \in Shards : groups[s] # << >>}
      /\ CurrentLoop
      /\ \A s \in Shards : ShardHistory(s)
      /\ IsFiniteSet(SumPairs(accepted)) /\ total = ShardSum(accepted)
    BY <1>2 DEF MInv
<1>4. ASSUME NEW s \in Shards PROVE ShardHistory(s)'
    <2>1. ShardCalls(s)' = ShardCalls(s)
        BY HistIs DEF ShardExhausted
    <2>2. Hist(ShardCalls(s), s, groups[s], s \in pending, phase = "calling" /\ s = cur, accepted[s])
        BY <1>3, HistIs
    <2>3. /\ groups'[s] = groups[s] /\ pending' = pending /\ accepted'[s] = accepted[s]
          /\ ~(phase' = "calling" /\ s = cur')
        BY DEF ShardExhausted
    <2>4. CASE s # cur
        BY <2>1, <2>2, <2>3, <2>4, HistIs DEF ShardExhausted
    <2>5. CASE s = cur
        <3>1. Len(ShardCalls(cur)) = Len(ShardObservers[cur])
            <4>1. Len(ShardCalls(cur)) = idx - 1 /\ idx <= Len(ShardObservers[cur]) + 1
                BY <1>3 DEF CurrentLoop, ShardExhausted
            <4>2. idx > Len(ShardObservers[cur]) /\ idx \in Nat
                  /\ Len(ShardObservers[cur]) \in Nat
                BY <1>2, PoolTypes DEF ShardExhausted, MInv, TypeOK
            <4>. QED
                BY <4>1, <4>2
        <3>. QED
            BY <2>1, <2>2, <2>3, <2>5, <3>1, HistIs DEF Hist
    <2>. QED
        BY <2>4, <2>5
<1>5. CurrentLoop'
    BY DEF ShardExhausted, CurrentLoop
<1>. QED
    BY <1>1, <1>3, <1>4, <1>5 DEF ShardExhausted, MInv, TInv


(* The next map entry: either the call returns an error, or the observer  *)
(* loop of a shard with transactions and no call yet starts.              *)
LEMMA MInvNextShard ==
    ASSUME MInv, NextShard
    PROVE  MInv'
<1>1. TInv'
    BY TInvStep DEF MInv, TInv, Next
<1>2. /\ pending \subseteq {s \in Shards : groups[s] # << >>}
      /\ \A s \in Shards : ShardHistory(s)
      /\ IsFiniteSet(SumPairs(accepted)) /\ total = ShardSum(accepted)
    BY DEF NextShard, Active, MInv
<1>3. PICK s \in pending :
          \/ /\ GetObserversFails(s)
             /\ phase' = "done"
             /\ result' = [count |-> 0, err |-> "MissingObserver"]
             /\ UNCHANGED <<pending, cur, idx>>
          \/ /\ ~GetObserversFails(s)
             /\ phase' = "calling" /\ cur' = s /\ idx' = 1
             /\ pending' = pending \ {s}
             /\ UNCHANGED result
    BY DEF NextShard
<1>4. CASE phase' = "done"
    <2>1. result'.err = "MissingObserver"
        BY <1>3, <1>4
    <2>2. ~Active'
        BY <2>1, <1>4, ErrorsAssumption DEF Active, Errors
    <2>. QED
        BY <1>1, <2>2 DEF MInv, TInv
<1>5. CASE phase' # "done"
    <2>1. /\ phase' = "calling" /\ cur' = s /\ idx' = 1 /\ pending' = pending \ {s}
          /\ UNCHANGED <<groups, calls, total, accepted>>
        BY <1>3, <1>5 DEF NextShard
    <2>2. s \in Shards /\ groups[s] # << >> /\ ShardCalls(s) = << >>
        <3>1. s \in Shards /\ groups[s] # << >>
            BY <1>2
        <3>2. Hist(ShardCalls(s), s, groups[s], s \in pending, phase = "calling" /\ s = cur,
                   accepted[s])
            BY <1>2, <3>1, HistIs
        <3>. QED
            BY <3>1, <3>2 DEF Hist
    <2>3. ASSUME NEW t \in Shards PROVE ShardHistory(t)'
        <3>1. ShardCalls(t)' = ShardCalls(t)
            BY <2>1, HistIs
        <3>2. Hist(ShardCalls(t), t, groups[t], t \in pending, phase = "calling" /\ t = cur,
                   accepted[t])
            BY <1>2, HistIs
        <3>3. ~(phase = "calling")
            BY DEF NextShard
        <3>4. CASE t = s
            <4>1. ShardCalls(t)' = << >> /\ accepted'[t] = LastAccepted(<< >>)
                BY <2>1, <2>2, <3>1, <3>2, <3>4 DEF Hist
            <4>2. Len(ShardObservers[t]) \in Nat
                BY PoolTypes
            <4>3. Hist(<< >>, t, groups'[t], t \in pending', phase' = "calling" /\ t = cur',
                       accepted'[t])
                BY <2>1, <3>4, <4>1, <4>2 DEF Hist
            <4>. QED
                BY <4>1, <4>3, HistIs
        <3>5. CASE t # s
            <4>1. /\ (t \in pending') = (t \in pending)
                  /\ (phase' = "calling" /\ t = cur') = (phase = "calling" /\ t = cur)
                  /\ groups'[t] = groups[t] /\ accepted'[t] = accepted[t]
                BY <2>1, <3>3, <3>5
            <4>2. Hist(ShardCalls(t)', t, groups'[t], t \in pending',
                       phase' = "calling" /\ t = cur', accepted'[t])
                BY <3>1, <3>2, <4>1
            <4>. QED
                BY <4>2, HistIs
        <3>. QED
            BY <3>4, <3>5
    <2>4. CurrentLoop'
        <3>1. Len(ShardCalls(s)') = 0
            BY <2>1, <2>2, HistIs
        <3>2. Len(ShardObservers[s]) \in Nat
            BY <2>2, PoolTypes
        <3>. QED
            BY <2>1, <2>2, <3>1, <3>2 DEF CurrentLoop
    <2>5. pending' \subseteq {t \in Shards : groups'[t] # << >>}
        BY <1>2, <2>1
    <2>. QED
        BY <1>1, <1>2, <2>1, <2>3, <2>4, <2>5 DEF MInv, TInv
<1>. QED
    BY <1>4, <1>5


(* A new request: either it returns an error at once, or it starts with  *)
(* no call, nothing accepted and every shard with transactions pending.  *)
LEMMA MInvStartMulti ==
    ASSUME NEW txs \in Batches, MInv, StartMulti(txs)
    PROVE  MInv'
<1>1. TInv'
    BY TInvStep DEF MInv, TInv, Next
<1>2. PICK v : v = SubSeqAt(txs, {i \in 1..Len(txs) : checkTransactionFields(txs[i])})
    BY Zenon
<1>3. /\ calls' = << >> /\ total' = 0 /\ accepted' = [s \in Shards |-> 0]
      /\ \/ /\ phase' = "done"
            /\ result' = [count |-> 0, err |-> "NoValidTransactionToSend"]
         \/ /\ phase' = "shard"
            /\ groups' = getTxsByShardId(v)
            /\ pending' = {s \in Shards : getTxsByShardId(v)[s] # << >>}
    BY <1>2 DEF StartMulti
<1>4. CASE phase' = "done"
    <2>1. ~Active'
        BY <1>3, <1>4, ErrorsAssumption DEF Active, Errors
    <2>. QED
        BY <1>1, <2>1 DEF MInv, TInv
<1>5. CASE phase' # "done"
    <2>1. phase' = "shard" /\ pending' = {s \in Shards : groups'[s] # << >>}
        BY <1>3, <1>5
    <2>2. ASSUME NEW t \in Shards PROVE ShardHistory(t)'
        <3>1. ShardCalls(t)' = << >>
            BY <1>3, HistIs, CallsOfEmpty
        <3>2. Len(ShardObservers[t]) \in Nat
            BY PoolTypes
        <3>3. accepted'[t] = 0 /\ LastAccepted(<< >>) = 0
            BY <1>3 DEF LastAccepted
        <3>4. Hist(<< >>, t, groups'[t], t \in pending', phase' = "calling" /\ t = cur', accepted'[t])
            BY <2>1, <3>2, <3>3 DEF Hist
        <3>. QED
            BY <3>1, <3>4, HistIs
    <2>3. /\ IsFiniteSet(SumPairs(accepted')) /\ total' = ShardSum(accepted')
        BY <1>3, ShardSumZero
    <2>4. CurrentLoop'
        BY <2>1 DEF CurrentLoop
    <2>. QED
        BY <1>1, <2>1, <2>2, <2>3, <2>4 DEF MInv, TInv
<1>. QED
    BY <1>4, <1>5


(* The calls the request can make.                                          *)
CallRec == [shard : Shards, obs : Observers, reply : Replies]

(* One POST: it extends cur's history by the next observer in order, and *)
(* a reply that took the batch adds its count to cur's accepted (zero     *)
(* until then) and to the total.                                            *)
LEMMA MInvMultiCall ==
    ASSUME MInv, MultiCall
    PROVE  MInv'
<1>1. TInv'
    BY TInvStep DEF MInv, TInv, Next
<1>2. /\ pending \subseteq {s \in Shards : groups[s] # << >>}
      /\ CurrentLoop
      /\ \A s \in Shards : ShardHistory(s)
      /\ IsFiniteSet(SumPairs(accepted)) /\ total = ShardSum(accepted)
      /\ cur \in Shards /\ calls \in Seq(CallRec) /\ accepted \in [Shards -> Nat]
      /\ total \in Nat /\ idx \in Nat \ {0}
      /\ phase = "calling" /\ idx <= Len(ShardObservers[cur])
    BY DEF MultiCall, Active, MInv, TypeOK, CallingShard, CallRec
<1>3. PICK r \in [status : Statuses, err : BOOLEAN, num : 0..Len(groups[cur])] :
          /\ calls' = Append(calls, [shard |-> cur, obs |-> ShardObservers[cur][idx],
                                     reply |-> r])
          /\ IF IsOk(r)
             THEN /\ total' = total + r.num
                  /\ accepted' = [accepted EXCEPT ![cur] = r.num]
                  /\ phase' = "shard" /\ UNCHANGED idx
             ELSE /\ idx' = idx + 1
                  /\ UNCHANGED <<total, accepted, phase>>
    BY DEF MultiCall
<1>4. PICK c : c = [shard |-> cur, obs |-> ShardObservers[cur][idx], reply |-> r]
    OBVIOUS
<1>5. /\ UNCHANGED <<groups, pending, cur, result>>
      /\ calls' = Append(calls, c)
      /\ r.num \in Nat /\ (TookBatch(c.reply) <=> IsOk(r))
    BY <1>3, <1>4 DEF MultiCall, IsOk, TookBatch, StatusOK
<1>k. PICK k \in Shards : k = cur
    BY <1>2
<1>6. PICK sc : sc = ShardCalls(k)
    BY <1>k
<1>7. /\ sc \in Seq(CallRec)
      /\ ShardCalls(k)' = Append(sc, c)
      /\ \A t \in Shards \ {cur} : ShardCalls(t)' = ShardCalls(t)
    <2>1. sc \in Seq(CallRec)
        <3>1. sc = CallsOf(calls, k)
            BY <1>6, HistIs
        <3>2. CallsOf(calls, k) \in Seq(CallRec)
            BY <1>2, CallsOfType
        <3>. QED
            BY <3>1, <3>2
    <2>2. ShardCalls(k)' = Append(sc, c)
        <3>1. ShardCalls(k)' = CallsOf(Append(calls, c), k) /\ sc = CallsOf(calls, k)
            BY <1>5, <1>6, HistIs
        <3>2. c.shard = k
            BY <1>k, <1>4
        <3>3. CallsOf(Append(calls, c), k) = Append(CallsOf(calls, k), c)
            BY <1>2, <3>2, CallsOfAppend
        <3>. QED
            BY <3>1, <3>3
    <2>3. ASSUME NEW t \in Shards \ {cur} PROVE ShardCalls(t)' = ShardCalls(t)
        <3>1. ShardCalls(t)' = CallsOf(Append(calls, c), t) /\ ShardCalls(t) = CallsOf(calls, t)
            BY <1>5, HistIs
        <3>2. c.shard # t
            BY <1>4
        <3>3. CallsOf(Append(calls, c), t) = CallsOf(calls, t)
            BY <1>2, <3>2, CallsOfAppend
        <3>. QED
            BY <3>1, <3>3
    <2>. QED
        BY <2>1, <2>2, <2>3
<1>8. /\ Len(sc) = idx - 1
      /\ \A i \in 1..Len(sc) : ~TookBatch(sc[i].reply)
      /\ groups[cur] # << >> /\ cur \notin pending
      /\ Hist(sc, cur, groups[cur], cur \in pending, TRUE, accepted[cur])
    <2>1. Hist(sc, cur, groups[cur], cur \in pending, phase = "calling" /\ cur = cur, accepted[cur])
        BY <1>k, <1>2, <1>6, HistIs
    <2>2. /\ Len(ShardCalls(cur)) = idx - 1
          /\ \A i \in 1..Len(ShardCalls(cur)) : ~TookBatch(ShardCalls(cur)[i].reply)
          /\ groups[cur] # << >> /\ cur \notin pending
        BY <1>2 DEF CurrentLoop
    <2>3. ShardCalls(cur) = sc /\ (phase = "calling" /\ cur = cur) = TRUE
        BY <1>k, <1>2, <1>6
    <2>. QED
        BY <2>1, <2>2, <2>3
<1>9. accepted[cur] = 0
    <2>1. accepted[cur] = LastAccepted(sc)
        BY <1>8 DEF Hist
    <2>2. CASE sc = << >>
        BY <2>1, <2>2 DEF LastAccepted
    <2>3. CASE sc # << >>
        <3>1. Len(sc) \in 1..Len(sc)
            BY <1>7, <2>3
        <3>. QED
            BY <1>8, <2>1, <3>1 DEF LastAccepted
    <2>. QED
        BY <2>2, <2>3
(* The part of cur's new history that does not depend on the reply.       *)
<1>10. /\ Len(Append(sc, c)) = idx /\ idx <= Len(ShardObservers[cur])
       /\ \A i \in 1..Len(Append(sc, c)) : Append(sc, c)[i].obs = ShardObservers[cur][i]
       /\ \A i \in 1..Len(Append(sc, c)) - 1 : ~TookBatch(Append(sc, c)[i].reply)
       /\ Append(sc, c) # << >>
       /\ Append(sc, c)[Len(Append(sc, c))] = c
    <2>1. Len(sc) \in Nat /\ Len(Append(sc, c)) = Len(sc) + 1
        BY <1>7
    <2>2. \A i \in 1..Len(sc) : Append(sc, c)[i] = sc[i]
        BY <1>7
    <2>3. \A i \in 1..Len(sc) : sc[i].obs = ShardObservers[cur][i]
        BY <1>8 DEF Hist
    <2>4. Append(sc, c)[Len(sc) + 1] = c /\ c.obs = ShardObservers[cur][idx]
        BY <1>4, <1>7
    <2>5. Len(Append(sc, c)) = idx
        BY <1>2, <1>8, <2>1
    <2>6. \A i \in 1..Len(Append(sc, c)) : Append(sc, c)[i].obs = ShardObservers[cur][i]
        <3>1. SUFFICES ASSUME NEW i \in 1..Len(sc) + 1
                       PROVE  Append(sc, c)[i].obs = ShardObservers[cur][i]
            BY <2>1
        <3>2. CASE i = Len(sc) + 1
            BY <2>4, <2>5, <2>1, <3>2
        <3>3. CASE i # Len(sc) + 1
            BY <2>1, <2>2, <2>3, <3>3
        <3>. QED
            BY <3>2, <3>3
    <2>7. \A i \in 1..Len(Append(sc, c)) - 1 : ~TookBatch(Append(sc, c)[i].reply)
        BY <1>8, <2>1, <2>2
    <2>. QED
        BY <1>2, <2>1, <2>4, <2>5, <2>6, <2>7
<1>11. ASSUME NEW t \in Shards \ {cur}
       PROVE  /\ accepted'[t] = accepted[t]
              /\ ShardHistory(t)'
    <2>1. accepted'[t] = accepted[t]
        BY <1>2, <1>3
    <2>2. Hist(ShardCalls(t), t, groups[t], t \in pending, phase = "calling" /\ t = cur,
               accepted[t])
        BY <1>k, <1>2, HistIs
    <2>3. ~(phase = "calling" /\ t = cur) /\ ~(phase' = "calling" /\ t = cur')
        BY <1>5
    <2>. QED
        BY <1>k, <1>5, <1>7, <2>1, <2>2, <2>3, HistIs DEF Hist
<1>12. CASE IsOk(r)
    <2>1. /\ total' = total + r.num
          /\ accepted' = [accepted EXCEPT ![cur] = r.num]
          /\ phase' = "shard"
        BY <1>3, <1>12
    <2>2. ShardHistory(k)'
        <3>1. LastAccepted(Append(sc, c)) = r.num
            <4>1. Append(sc, c) # << >> /\ Append(sc, c)[Len(Append(sc, c))] = c
                BY <1>10
            <4>2. TookBatch(c.reply) /\ c.reply.num = r.num
                BY <1>4, <1>5, <1>12
            <4>. QED
                BY <4>1, <4>2 DEF LastAccepted
        <3>2. accepted'[cur] = r.num
            BY <1>2, <2>1
        <3>3. Hist(Append(sc, c), cur, groups[cur], cur \in pending, FALSE, r.num)
            BY <1>5, <1>8, <1>10, <1>12, <3>1 DEF Hist
        <3>. QED
            BY <1>k, <1>5, <1>7, <2>1, <3>2, <3>3, HistIs
    <2>3. IsFiniteSet(SumPairs(accepted')) /\ total' = ShardSum(accepted')
        BY <1>2, <1>5, <1>9, <2>1, ShardSumAdd
    <2>4. CurrentLoop'
        BY <2>1 DEF CurrentLoop
    <2>5. \A t \in Shards : ShardHistory(t)'
        <3>1. SUFFICES ASSUME NEW t \in Shards PROVE ShardHistory(t)'
            OBVIOUS
        <3>2. CASE t = k
            BY <2>2, <3>2
        <3>3. CASE t # k
            BY <1>11, <1>k, <3>3
        <3>. QED
            BY <3>2, <3>3
    <2>6. pending' \subseteq {s \in Shards : groups'[s] # << >>} /\ phase' # "done"
        BY <1>2, <1>5, <2>1
    <2>. QED
        BY <1>1, <2>3, <2>4, <2>5, <2>6 DEF MInv, TInv
<1>13. CASE ~IsOk(r)
    <2>1. idx' = idx + 1 /\ UNCHANGED <<total, accepted, phase>>
        BY <1>3, <1>13
    <2>2. ~TookBatch(Append(sc, c)[Len(Append(sc, c))].reply)
        BY <1>5, <1>10, <1>13
    <2>3. ShardHistory(k)'
        <3>1. LastAccepted(Append(sc, c)) = 0
            BY <2>2 DEF LastAccepted
        <3>2. Hist(Append(sc, c), cur, groups[cur], cur \in pending, TRUE, 0)
            BY <1>5, <1>8, <1>10, <3>1 DEF Hist
        <3>3. /\ groups'[k] = groups[cur] /\ pending' = pending /\ accepted'[k] = 0
              /\ (phase' = "calling" /\ k = cur') = TRUE
            BY <1>k, <1>2, <1>5, <1>9, <2>1
        <3>4. Hist(ShardCalls(k)', k, groups'[k], k \in pending', phase' = "calling" /\ k = cur',
                   accepted'[k])
            BY <1>k, <1>7, <3>2, <3>3
        <3>. QED
            BY <3>4, HistIs
    <2>4. CurrentLoop'
        <3>1. \A i \in 1..Len(Append(sc, c)) : ~TookBatch(Append(sc, c)[i].reply)
            <4>1. PICK n \in Nat : n = Len(Append(sc, c))
                BY <1>7
            <4>2. SUFFICES ASSUME NEW i \in 1..n PROVE ~TookBatch(Append(sc, c)[i].reply)
                BY <4>1
            <4>3. CASE i = n
                BY <2>2, <4>1, <4>3
            <4>4. CASE i # n
                <5>1. i \in 1..Len(Append(sc, c)) - 1
                    BY <4>1, <4>4
                <5>. QED
                    BY <1>10, <5>1
            <4>. QED
                BY <4>3, <4>4
        <3>2. Len(Append(sc, c)) = idx' - 1 /\ idx' <= Len(ShardObservers[cur]) + 1
            BY <1>2, <1>10, <2>1
        <3>3. ShardCalls(cur)' = Append(sc, c)
            BY <1>k, <1>5, <1>7 DEF ShardCalls
        <3>. QED
            BY <1>5, <1>8, <2>1, <3>1, <3>2, <3>3 DEF CurrentLoop
    <2>5. \A t \in Shards : ShardHistory(t)'
        <3>1. SUFFICES ASSUME NEW t \in Shards PROVE ShardHistory(t)'
            OBVIOUS
        <3>2. CASE t = k
            BY <2>3, <3>2
        <3>3. CASE t # k
            BY <1>11, <1>k, <3>3
        <3>. QED
            BY <3>2, <3>3
    <2>6. /\ pending' \subseteq {s \in Shards : groups'[s] # << >>} /\ phase' # "done"
          /\ IsFiniteSet(SumPairs(accepted')) /\ total' = ShardSum(accepted')
        BY <1>2, <1>5, <2>1
    <2>. QED
        BY <1>1, <2>4, <2>5, <2>6 DEF MInv, TInv
<1>. QED
    BY <1>12, <1>13


(* Every step of SendMultipleTransactions keeps MInv.                    *)
LEMMA MInvStep == MInv /\ [Next]_vars => MInv'
<1> SUFFICES ASSUME MInv, [Next]_vars PROVE MInv'
    OBVIOUS
<1>1. CASE \E txs \in Batches : StartMulti(txs)
    BY <1>1, MInvStartMulti
<1>2. CASE NextShard
    BY <1>2, MInvNextShard
<1>3. CASE MultiCall
    BY <1>3, MInvMultiCall
<1>4. CASE ShardExhausted
    BY <1>4, MInvShardExhausted
<1>5. CASE MultiDone
    BY <1>5, MInvMultiDone
<1>6. CASE UNCHANGED vars
    <2>1. /\ phase' = phase /\ groups' = groups /\ pending' = pending /\ cur' = cur
          /\ idx' = idx /\ calls' = calls /\ total' = total /\ accepted' = accepted
          /\ result' = result
        BY <1>6 DEF vars
    <2>2. TInv'
        BY TInvStep DEF MInv, TInv
    <2>3. (Active' = Active) /\ (CurrentLoop' = CurrentLoop)
        BY <2>1 DEF Active, CurrentLoop, ShardCalls
    <2>4. ASSUME NEW s PROVE ShardHistory(s)' <=> ShardHistory(s)
        <3>1. ShardCalls(s)' = ShardCalls(s)
            BY <2>1, HistIs
        <3>2. Hist(ShardCalls(s)', s, groups'[s], s \in pending', phase' = "calling" /\ s = cur',
                   accepted'[s])
              = Hist(ShardCalls(s), s, groups[s], s \in pending, phase = "calling" /\ s = cur,
                     accepted[s])
            BY <2>1, <3>1
        <3>. QED
            BY <3>2, HistIs
    <2>. QED
        BY <2>1, <2>2, <2>3, <2>4 DEF MInv, TInv
<1>. QED
    BY <1>1, <1>2, <1>3, <1>4, <1>5, <1>6 DEF Next

(* A SendMultipleTransactions that returns (count, nil) tried, for every   *)
(* shard with transactions, its observers in order until the first that   *)
(* took the batch or all of them, and returns exactly the sum of what the *)
(* observers that took a batch reported, for every pool and batch bound.  *)
THEOREM MultiOutcomeFaithfulHolds == Spec => []MultiOutcomeFaithful
<1>. QED
    BY MInvInit, MInvStep, MInvFaithful, PTL DEF Spec

=============================================================================
