SPECIFICATION InterpFairSpec
CONSTANTS
    Threads = {1, 2}
    Items = {i1}
    Start = 1
    MinSpare = 1
    MaxSpare = 3
    Max = 1
    MaxRequests = 9
    Quota <- OneDeep
    NULL = NULL
    FREED = FREED
    Scopes = {"request"}
    CleanupHandlers = TRUE
    Responses = {"perl-script"}
    ConnFilters = FALSE
    MaxRefs = 0
    MaxDepth = 2
PROPERTIES
    EverythingEnds
