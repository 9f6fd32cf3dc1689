CONSTANTS
    k1 = k1
    k2 = k2
    k3 = k3
    t1 = t1
    t2 = t2
    t3 = t3
    Keys <- MCKeys
    Turns <- MCTurns
    Capacity = 2
    TTL = 2
    MaxNow = 4
    MaxIds = 4
    NoHandle = NoHandle
SPECIFICATION Spec
SYMMETRY Symmetry
INVARIANTS LeaseInv RecencyOrder CapacityBound
PROPERTIES OnlyLegalDrops LeaseSpec
