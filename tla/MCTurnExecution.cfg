CONSTANTS
    k1 = k1
    k2 = k2
    t1 = t1
    t2 = t2
    Keys <- MCKeys
    Turns <- MCTurns
    NoKey = NoKey
    NoHandle = NoHandle
    Capacity = 1
    TTL = 1
    MaxNow = 1
    MaxIds = 2
SPECIFICATION FairSpec
INVARIANTS ConversationExclusive NoLeaseLeaks StreamProtocol ShutdownLeavesNothing
PROPERTIES ServiceSpec LeaseReturns
