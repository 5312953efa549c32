\* Journalled directories: every crash, power cut and fault, each once.
SPECIFICATION Spec
CONSTANTS
    w1 = w1
    w2 = w2
    w3 = w3
    a = a
    b = b
    s = s
    None = None
    Download = {w1, w2, w3}
    Content = {a, b}
    Shard = {s}
    Body <- MCBody
    ShardOf <- MCShardOf
    Size = 2
    Ordered = TRUE
    MaxCrashes = 1
    MaxCuts = 1
    MaxFaults = 1
INVARIANTS
    NeverPartial
PROPERTIES
    Refines
CHECK_DEADLOCK FALSE
