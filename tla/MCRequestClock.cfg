CONSTANTS
    Callers = {c1, c2, c3}
    DRIFT_LIMIT = 3
    NotCalling = NotCalling
    FirstSecond = 1
    MaxTime = 4
    MaxRequests = 9
SPECIFICATION ClockSpec
SYMMETRY CallerSymmetry
INVARIANTS
    NearClock
    RepeatsNeedOverload
CHECK_DEADLOCK FALSE
