CONSTANTS
    s0 = s0
    meta = meta
    o1 = o1
    o3 = o3
    o4 = o4
    o5 = o5
    o6 = o6
    a0 = a0
    None = None
    NoShard = NoShard
    Shards <- MCShards
    Metachain <- meta
    Observers <- MCObservers
    ObserverShard <- MCObserverShard
    AllObservers <- MCAllObservers
    ShardObservers <- MCShardObservers
    Addresses <- MCAddresses
    AddressDecodes <- MCAddressDecodes
    AddressShard <- MCAddressShard
SPECIFICATION Spec
INVARIANTS
    TypeOK
    
