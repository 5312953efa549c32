\* The same instance, asked for what the tests assert of .pending after a job.
SPECIFICATION LiveSpec
CONSTANTS
    Url <- MCUrl
    Seeds <- MCSeeds
    Denied <- MCDenied
    Content <- MCContent
    Sites <- MCSites
    MaxDepth = 2
    MaxPages = 4
    MaxDiscoveries = 6
    MaxArtifacts = 2
    MaxTotalBytes = 4
    Concurrency = 2
    Faults = {}
    MaxStops = 1
INVARIANTS
    NoPendingAfterEnd
