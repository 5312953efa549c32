\* Two pages and three processes: a reply can be late for one page and early
\* for the next, and a worker can be replaced twice.
SPECIFICATION LiveSpec
CONSTANTS
    Page = {p, q}
    None = None
    MaxProcs = 3
    MaxInterrupts = 1
    MaxStuck = 1
    MaxRmFaults = 1
INVARIANTS
    NoOrphan
    AcceptedIsOwn
PROPERTIES
    ScratchAfterDeath
    RequestEnds
CHECK_DEADLOCK FALSE
