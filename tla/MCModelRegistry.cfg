CONSTANTS
    url = url
    file = file
    r1 = r1
    r2 = r2
    Urls <- MCUrls
    Files <- MCFiles
    Refreshers <- MCRefreshers
    Intervals = {0, 1, 2}
    DefaultInterval = 2
    Retry = 1
    MaxNow = 4
    MaxGeneration = 2
    MaxVersion = 2
SPECIFICATION Spec
SYMMETRY Symmetry
INVARIANTS SingleFlight FileIsFresh SnapshotCoherent
PROPERTIES StaleNeverPublished DownloadsThrottled
