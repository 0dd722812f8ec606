CONSTANTS
    None = None
    Keys = {m, k1}
    Master = m
    Endpoints = {e1}
    Requests = {r1, r2, r3}
SPECIFICATION Spec
SYMMETRY Symmetry
CHECK_DEADLOCK FALSE
INVARIANTS
    OwnersExist
    DeletedOnce
    SuccessIsAudited
PROPERTIES
    ColumnsKept
    OwnershipMovesOnRequest
