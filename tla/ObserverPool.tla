---------------------------- MODULE ObserverPool ----------------------------
(***************************************************************************)
(* The topology the transaction processor reads: the observer pool, the    *)
(* shard router and the address codec.  None of these is under src/ (the  *)
(* processor reaches them through its Processor and PubkeyConverter       *)
(* interfaces), so they are modelled from the spec (4.B, 4.C, 4.E.1): the  *)
(* pool is immutable after start-up, so it is a set of constants.         *)
(***************************************************************************)
EXTENDS Naturals, Sequences, FiniteSets

CONSTANTS
    Shards,          \* the shard ids the pool knows, the metachain included
    Metachain,       \* core.MetachainShardId
    Observers,       \* the observer records (NodeData: address + shard id)
    ObserverShard,   \* observer.ShardId
    ShardObservers,  \* GetObservers(shardId): the ordered retry list of a shard
    AllObservers,    \* GetAllObservers(): the flat list in configuration order
    Addresses,       \* the bech32/hex strings a client can put in a tx
    AddressDecodes,  \* pubKeyConverter.Decode(address) succeeds
    AddressShard,    \* ComputeShardId(decoded address), or NoShard on error
    NoShard          \* the error outcome of ComputeShardId

(* No element of the sequence s occurs twice.                               *)
IsInjectiveSeq(s) == \A i, j \in 1..Len(s) : s[i] = s[j] => i = j

ASSUME PoolAssumption ==
    /\ Metachain \in Shards
    /\ NoShard \notin Shards
    /\ ObserverShard \in [Observers -> Shards]
    /\ ShardObservers \in [Shards -> Seq(Observers)]
    /\ AllObservers \in Seq(Observers)
    \* an observer is listed once (spec 3: an address repeats only across shards)
    /\ IsInjectiveSeq(AllObservers)
    /\ \A s \in Shards : IsInjectiveSeq(ShardObservers[s])
    /\ AddressDecodes \in [Addresses -> BOOLEAN]
    /\ AddressShard \in [Addresses -> Shards \cup {NoShard}]

(* The per-shard lists are the flat list split by shard, order kept.       *)
ASSUME PoolSplitAssumption ==
    \A s \in Shards :
        ShardObservers[s] = SelectSeq(AllObservers, LAMBDA o : ObserverShard[o] = s)

(* A client transaction, abstracted to what the processor looks at: the    *)
(* sender and receiver strings and whether the signature is valid hex.     *)
Txs == [sender : Addresses, receiver : Addresses, sigHex : BOOLEAN]

(* GetObservers(shardId) fails with ErrMissingObserver/NoObserversForShard *)
(* when the shard has no observer.                                          *)
GetObserversFails(s) == ShardObservers[s] = << >>

(* checkTransactionFields: sender and receiver decode, signature is hex.   *)
checkTransactionFields(tx) ==
    /\ AddressDecodes[tx.sender]
    /\ AddressDecodes[tx.receiver]
    /\ tx.sigHex

(* ComputeShardId(Decode(tx.Sender)); NoShard when either step fails.      *)
SenderShard(tx) ==
    IF AddressDecodes[tx.sender] THEN AddressShard[tx.sender] ELSE NoShard
=============================================================================
