CONSTANTS
    c1 = c1
    c2 = c2
    s1 = s1
    s2 = s2
    x1 = x1
    x2 = x2
    Callers <- MCCallers
    Streams <- MCStreams
    Closers <- MCClosers
    Nobody = Nobody
    MaxInstances = 3
SPECIFICATION FairSpec
INVARIANTS TypeOK HostPointerValid NoTaskOutlives TasksCounted
PROPERTIES ServiceSpec ShutdownReturns
