\* Two jobs, three resources and three digests, pages of two rows.  When every row is
\* written the jobs stop, so deadlock is not checked.
SPECIFICATION ListSpec
CONSTANTS
    Job = {j1, j2}
    Resource = {r1, r2, r3}
    Digest = {1, 2, 3}
    Nothing = Nothing
    Limit = 2
    MaxAttempts = 1
    MaxDiscoveries = 3
SYMMETRY Symmetry
INVARIANTS PassIsWhole NamesResolve
CHECK_DEADLOCK FALSE
