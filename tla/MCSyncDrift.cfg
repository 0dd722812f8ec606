CONSTANTS
    Endpoints = {e1}
    Groups = {g1, g2}
    Addrs = {a1}
    Parseable = {a1}
    None = None
    NoJob = NoJob
    Ttls = {1}
    FULL_SYNC_INTERVAL = 2
    MaxTime = 3
    MaxPass = 1
    LastChange = 3
    MaxChanges = 2
    MaxEdits = 1
    MaxRestarts = 0
SPECIFICATION Spec
SYMMETRY Symmetry
INVARIANTS
    DriftHasACause
PROPERTY EditsSurviveSync
CHECK_DEADLOCK FALSE
