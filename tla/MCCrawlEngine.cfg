\* Two fetches at a time, two stop requests, faults at both commit steps;
\* every limit is reached on some site.
SPECIFICATION LiveSpec
CONSTANTS
    Url <- MCUrl
    Seeds <- MCSeeds
    Denied <- MCDenied
    Content <- MCContent
    Sites <- MCSites
    MaxDepth = 2
    MaxPages = 4
    MaxDiscoveries = 6
    MaxArtifacts = 2
    MaxTotalBytes = 4
    Concurrency = 2
    Faults = {"seal", "publish"}
    MaxStops = 2
INVARIANTS
    TypeOK
    PendingOwned
    NothingLeftAtEnd
    RowsSettledAtEnd
    AcquiredIsBacked
    ShortestDepth
    TimingIndependent
PROPERTIES
    StopEnds
