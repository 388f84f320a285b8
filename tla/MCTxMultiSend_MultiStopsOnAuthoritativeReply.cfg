CONSTANTS
    s0 = s0
    s1 = s1
    meta = meta
    o1 = o1
    o2 = o2
    o3 = o3
    a0 = a0
    a1 = a1
    m0 = m0
    bad = bad
    None = None
    NoShard = NoShard
    MaxBatch = 2
    Shards <- MCShards
    Metachain <- meta
    Observers <- MCObservers
    ObserverShard <- MCObserverShard
    AllObservers <- MCAllObservers
    ShardObservers <- MCShardObservers
    Addresses <- MCAddresses
    AddressDecodes <- MCAddressDecodes
    AddressShard <- MCAddressShard
    Txs <- MCTxs
SPECIFICATION Spec
INVARIANT
    MultiStopsOnAuthoritativeReply
