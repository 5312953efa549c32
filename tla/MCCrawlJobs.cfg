\* Three jobs for one slot and two places: blocking, refusal and overtaking
\* are possible; a caller, who may be cancelled, and close() race on one job.
\* A process whose jobs are settled may stop, so deadlock is not checked.
SPECIFICATION LiveSpec
CONSTANTS
    None = None
    Job = {j1, j2, j3}
    Caller = {c1}
    MaxActive = 1
    MaxPending = 2
    MaxCrashes = 1
    MaxFaults = 1
INVARIANTS NoZombieRow WithinLimits ClosedIsQuiet
PROPERTIES TerminalIsFinal CancelSettles JobsSettle CloseEnds
CHECK_DEADLOCK FALSE
