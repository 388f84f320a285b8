---------------------------- MODULE MCTxMultiSend ----------------------------
(* The pool of MCTxSend: s0 has the replicas o1, o2, the metachain o3, s1 *)
(* no observer.  a0 sends from s0, a1 from s1, m0 from the metachain, bad *)
(* does not decode.  Batches hold up to two transactions.                 *)
EXTENDS TxMultiSend, TLC

CONSTANTS s0, s1, meta, o1, o2, o3, a0, a1, m0, bad

MCShards == {s0, s1, meta}
MCObservers == {o1, o2, o3}
MCObserverShard == [o \in MCObservers |-> IF o = o3 THEN meta ELSE s0]
MCAllObservers == <<o1, o3, o2>>
MCShardObservers ==
    [s \in MCShards |-> SelectSeq(MCAllObservers, LAMBDA o : MCObserverShard[o] = s)]
MCAddresses == {a0, a1, m0, bad}
MCAddressDecodes == [a \in MCAddresses |-> a # bad]
MCAddressShard == (a0 :> s0) @@ (a1 :> s1) @@ (m0 :> meta) @@ (bad :> NoShard)
(* One well-formed transaction from each sender, and one whose signature *)
(* is not hex: the receiver plays no part in grouping.                    *)
MCTxs == {[sender |-> a, receiver |-> a0, sigHex |-> TRUE] : a \in {a0, a1, m0}}
         \cup {[sender |-> a0, receiver |-> a0, sigHex |-> FALSE]}
=============================================================================
