CONSTANTS
    p = p
    c = c
    n1 = n1
    Requests = {r1, r2}
    Primer = Primer
    Tasks <- MCTasks
    Names = {n1}
    Addrs = {p, c}
    DnsAnswers <- MCDnsAnswers
    POSITIVE_TTL = 2
    NEGATIVE_TTL = 1
    LookupTime = 1
    MaxTime = 3
    MaxMoves = 1
    NoTask = NoTask
    NoLookup = NoLookup
    Arrivals <- MCArrivals
    None = None
    TrustedNets = {}
    Hostnames <- MCHostnames
    BOOT_GRACE_PERIOD = 1
    Bounds <- MCBounds
SPECIFICATION Spec
SYMMETRY Symmetry
INVARIANTS
    AnswersAreRecent
PROPERTIES
    StoredInOrder
    ForwardedNeedsTrust
    OnlyBoundClients
CHECK_DEADLOCK FALSE
