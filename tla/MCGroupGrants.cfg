CONSTANTS
    None = None
    Old = Old
    Keys = {k1}
    Groups = {g1, g2}
    Names = {n1, n2}
    Requests = {r1, r2}
SPECIFICATION FairSpec
INVARIANTS
    RowsAreSound
PROPERTIES
    OutagesKeepGrants
    StaleGrantsGo
