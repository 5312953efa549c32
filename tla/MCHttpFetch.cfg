\* Two https URLs and an http one may be asked, one is outside the policy; one
\* retry of two redirects, with a cancellation, a fault and a budget that two
\* attempts exhaust.
SPECIFICATION FairSpec
CONSTANTS
    s1 = s1
    s2 = s2
    p = p
    out = out
    Url = {s1, s2, p, out}
    Secure = {s1, s2, out}
    Admitted = {s1, s2, p}
    None = None
    MaxRetries = 1
    MaxRedirects = 2
    MaxBody = 1
    MaxTotal = 4
    MaxCancels = 1
    MaxFaults = 1
INVARIANTS
    BodyHasOwner
    AttemptsSettled
PROPERTIES
    Refines
    FetchEnds
CHECK_DEADLOCK FALSE
