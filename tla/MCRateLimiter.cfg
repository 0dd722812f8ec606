CONSTANTS
    Ips = {ip1, ip2, ip3}
    Callers = {c1, c2}
    RATE_LIMIT_WINDOW = 2
    MAX_TRACKED_IPS = 2
    MaxTime = 5
    NotCalling = NotCalling
SPECIFICATION Spec
SYMMETRY IpSymmetry
INVARIANTS
    MemoryBounded
    AllowedSpaced
    NoBan
CHECK_DEADLOCK FALSE
