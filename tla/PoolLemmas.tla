----------------------------- MODULE PoolLemmas -----------------------------
(***************************************************************************)
(* Facts about the observer pool and the address codec that the proofs of *)
(* the processors cite.                                                     *)
(***************************************************************************)
EXTENDS ObserverPool, TLAPS

(* The parts of the pool assumption the proofs use, cited one at a time:  *)
(* the whole assumption in a context slows the SMT backend down.          *)
LEMMA PoolTypes ==
    /\ ShardObservers \in [Shards -> Seq(Observers)]
    /\ AllObservers \in Seq(Observers)
BY PoolAssumption

(* No shard's observer list names an observer twice.                      *)
LEMMA ShardListsInjective == \A s \in Shards : IsInjectiveSeq(ShardObservers[s])
BY PoolAssumption

(* The value for an unknown sender shard is not a shard.                  *)
LEMMA NoShardIsNotAShard == NoShard \notin Shards
BY PoolAssumption

(* A transaction's sender shard is a shard or NoShard.                    *)
LEMMA SenderShardType ==
    ASSUME NEW tx \in Txs
    PROVE  SenderShard(tx) \in Shards \cup {NoShard}
BY PoolAssumption DEF Txs, SenderShard
=============================================================================
