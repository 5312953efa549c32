\* Three tasks of two jobs, one of which obeys robots.txt, with one follow-up
\* each, all on one host;
\* two of the tasks may be inside its slots at once.
SPECIFICATION Spec
CONSTANTS
    t1 = t1
    t2 = t2
    t3 = t3
    j1 = j1
    j2 = j2
    x = x
    y = y
    xo = xo
    xp = xp
    yo = yo
    Task = {t1, t2, t3}
    Job = {j1, j2}
    Origin = {xo, xp}
    Host = {x}
    JobOf <- MCJobOf
    HostOf <- MCHostOf
    First <- MCFirst
    Obeys = {j1}
    PerHost <- MCPerHost
    HostCap = 2
    GlobalCap = 3
    Interval <- MCInterval
    Delays = {2}
    TTL = 1
    MaxAge = 2
    MaxFollows = 1
INVARIANTS
    HostShare
PROPERTIES
    HostSpacing
