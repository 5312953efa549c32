\* Two tasks of one job that obeys robots.txt, on two hosts, with one
\* place everywhere: they meet at the global slots, and after a redirect at
\* every other resource.
SPECIFICATION LiveSpec
CONSTANTS
    t1 = t1
    t2 = t2
    t3 = t3
    j1 = j1
    j2 = j2
    x = x
    y = y
    xo = xo
    xp = xp
    yo = yo
    Task = {t1, t2}
    Job = {j1}
    Origin = {xo, yo}
    Host = {x, y}
    JobOf <- LiveJobOf
    HostOf <- LiveHostOf
    First <- LiveFirst
    Obeys = {j1}
    PerHost <- LivePerHost
    HostCap = 1
    GlobalCap = 1
    Interval <- LiveInterval
    Delays = {2}
    TTL = 1
    MaxAge = 2
    MaxFollows = 1
PROPERTIES
    EveryTaskEnds
