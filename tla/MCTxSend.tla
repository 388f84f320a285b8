------------------------------ MODULE MCTxSend ------------------------------
(* A pool of two regular shards and the metachain: shard s0 has two       *)
(* observers (so a retry happens), s1 has none (GetObservers fails), the  *)
(* metachain one observer placed between them in the flat list so that   *)
(* the cost loop skips in the middle.  Address a0 lives in s0, a1 in s1, *)
(* aX decodes but has no shard, bad does not decode.                      *)
EXTENDS TxSendProofs, TLC

CONSTANTS s0, s1, meta, o1, o2, o3, a0, a1, aX, bad

MCShards == {s0, s1, meta}
MCObservers == {o1, o2, o3}
MCObserverShard == [o \in MCObservers |-> IF o = o3 THEN meta ELSE s0]
MCAllObservers == <<o1, o3, o2>>
MCShardObservers ==
    [s \in MCShards |-> SelectSeq(MCAllObservers, LAMBDA o : MCObserverShard[o] = s)]
MCAddresses == {a0, a1, aX, bad}
MCAddressDecodes == [a \in MCAddresses |-> a # bad]
MCAddressShard == (a0 :> s0) @@ (a1 :> s1) @@ (aX :> NoShard) @@ (bad :> NoShard)
=============================================================================
