CONSTANTS
    b1 = b1
    b2 = b2
    c1 = c1
    c2 = c2
    Last = 3
    Builds = {b1, b2}
    Commits = {c1, c2}
    CommitOf <- MCCommitOf
    Ids = {1, 2, 3, 4}
    MaxFaults = 2
    MaxMeddling = 2
    Foreign = Foreign
    Nothing = Nothing
SPECIFICATION FairSpec
INVARIANTS PublishedIsWhole InterferenceIsNoticed
PROPERTIES ManifestIsLast FinishedIsKept RetryCompletes
