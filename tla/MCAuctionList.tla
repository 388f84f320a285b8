---------------------------- MODULE MCAuctionList ----------------------------
(* Four metachain observers o3..o6, so that a failed call that decoded   *)
(* data can be followed by further failures and a late success, and one   *)
(* regular-shard observer o1 placed among them in the flat list.          *)
EXTENDS AuctionList, TLC

CONSTANTS s0, meta, o1, o3, o4, o5, o6, a0

MCShards == {s0, meta}
MCObservers == {o1, o3, o4, o5, o6}
MCObserverShard == [o \in MCObservers |-> IF o = o1 THEN s0 ELSE meta]
MCAllObservers == <<o3, o1, o4, o5, o6>>
MCShardObservers ==
    [s \in MCShards |-> SelectSeq(MCAllObservers, LAMBDA o : MCObserverShard[o] = s)]
MCAddresses == {a0}
MCAddressDecodes == [a \in MCAddresses |-> TRUE]
MCAddressShard == a0 :> s0
=============================================================================
