CONSTANTS
    Sigs = {s1}
    Callers = {c1, c2}
    WINDOW = 2
    PRUNE_INTERVAL = 2
    CAPACITY_BACKOFF = 1
    MAX_TRACKED_SIGNATURES = 1
    MaxTime = 7
    MaxCalls = 3
    NotCalling = NotCalling
    TICKS = 2
    MAX_AGE = 1
    MAX_WINDOW = 3
    Stamp <- MCStamp
SPECIFICATION SSpec
SYMMETRY Symmetry
INVARIANTS
    SingleUse
    SweepsSpaced
    RepeatsAreSlow
CHECK_DEADLOCK FALSE
