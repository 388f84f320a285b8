------------------------------ MODULE MCTxQuery ------------------------------
(* The pool of MCTxSend: o1 and o2 are replicas of shard s0 (so a lagging *)
(* replica can disagree with the first), o3 of the metachain (so two       *)
(* shards can both know the transaction), in the flat order o1, o3, o2.  *)
(* Observers answer "unknown", "pending" or "executed".                    *)
EXTENDS TxQuery, TLC

CONSTANTS s0, s1, meta, o1, o2, o3, a0, bad

MCShards == {s0, s1, meta}
MCObservers == {o1, o2, o3}
MCObserverShard == [o \in MCObservers |-> IF o = o3 THEN meta ELSE s0]
MCAllObservers == <<o1, o3, o2>>
MCShardObservers ==
    [s \in MCShards |-> SelectSeq(MCAllObservers, LAMBDA o : MCObserverShard[o] = s)]
MCAddresses == {a0, bad}
MCAddressDecodes == [a \in MCAddresses |-> a # bad]
MCAddressShard == (a0 :> s0) @@ (bad :> NoShard)
MCTxStatuses == {"unknown", "pending", "executed"}
=============================================================================
