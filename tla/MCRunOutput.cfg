\* Three runs over the same input, one of them called with output_root, with a
\* crash, a failing write and an unsafe path among them.
SPECIFICATION Spec
CONSTANTS
    Run = {r1, r2, r3}
    Rooted = {r3}
    Absent = Absent
    MaxStops = 1
    MaxFaults = 1
    MaxUnsafe = 1
INVARIANTS
    WholeOrNothing
PROPERTIES
    OneWriter
CHECK_DEADLOCK FALSE
