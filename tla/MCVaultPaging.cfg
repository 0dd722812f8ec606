CONSTANTS
    PAGE_SIZE = 2
    MAX_PAGES = 4
    MAX_CONCURRENT_PAGES = 2
    MaxRows = 9
    MaxChanges = 2
    NoAnswer = NoAnswer
SPECIFICATION FairSpec
INVARIANTS
    CompleteWhenStill
    BoundedRequests
    MissesFew
PROPERTY FetchEnds
CHECK_DEADLOCK FALSE
