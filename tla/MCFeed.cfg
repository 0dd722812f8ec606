CONSTANTS
    Callers = {r1, r2}
    Ips = {c1}
    None = None
    Rows <- MCRows
    NoRow = NoRow
    Batches <- MCBatches
    MaxWrites = 2
    RATE_LIMIT_WINDOW = 2
    MAX_TRACKED_IPS = 1
    MaxTime = 3
    NotCalling = NotCalling
    Width = 2
    Excluded <- MCExcluded
SPECIFICATION FeedSpec
SYMMETRY Symmetry
INVARIANTS
    PublishesWhatIsLeft
PROPERTIES
    ServedWasPublished
    RefusedOnlyForNews
CHECK_DEADLOCK FALSE
