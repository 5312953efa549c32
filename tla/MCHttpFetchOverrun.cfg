\* No retry, no redirect, no fault: one exchange that overruns the budget and
\* whose connection is slow to close.
SPECIFICATION Spec
CONSTANTS
    s1 = s1
    s2 = s2
    p = p
    out = out
    Url = {s1, s2, p, out}
    Secure = {s1, s2, out}
    Admitted = {s1, s2, p}
    None = None
    MaxRetries = 0
    MaxRedirects = 0
    MaxBody = 1
    MaxTotal = 1
    MaxCancels = 0
    MaxFaults = 0
INVARIANT
    OverrunAborts
CHECK_DEADLOCK FALSE
