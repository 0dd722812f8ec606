CONSTANTS
    Addrs = {a1, a2, junk}
    Parseable = {a1, a2}
    None = None
    Batches <- MCBatches
    Entries <- MCEntries
SPECIFICATION LoopSpec
INVARIANTS
    FullLoopCorrect
    DiffLoopCorrect
CHECK_DEADLOCK FALSE
