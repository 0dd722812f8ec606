CONSTANTS
    Procs = {p1, p2}
    Keys = {1, 2, 3, 4, 5}
    EncKeys = {k1}
    Plaintext = Plaintext
    Nobody = Nobody
    MaxStops = 1
    MaxCreates = 1
    MaxEdits = 1
SPECIFICATION FairSpec
INVARIANTS
    CredentialsAccounted
    CanaryCovers
PROPERTIES
    OneMasterPerProcess
    MasterReturns
CHECK_DEADLOCK FALSE
