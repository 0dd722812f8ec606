CONSTANTS
    Endpoints = {e1}
    Groups = {g1}
    Addrs = {a1}
    Parseable = {a1}
    None = None
    NoJob = NoJob
    Ttls = {1}
    FULL_SYNC_INTERVAL = 2
    MaxTime = 5
    MaxPass = 1
    LastChange = 1
    MaxChanges = 2
    MaxEdits = 0
    MaxRestarts = 1
SPECIFICATION FairSpec
INVARIANTS
    FullBeforeDiff
    BootPopulates
PROPERTIES
    CursorAdvances
    EventuallySynced
    EventuallyConsistent
CHECK_DEADLOCK FALSE
