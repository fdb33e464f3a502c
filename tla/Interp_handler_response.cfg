SPECIFICATION InterpSpec
CONSTANTS
    Threads = {1, 2}
    Items = {i1, i2, i3}
    Start = 1
    MinSpare = 1
    MaxSpare = 1
    Max = 3
    MaxRequests = 1
    Quota <- OneDeep
    NULL = NULL
    FREED = FREED
    Scopes = {"handler"}
    CleanupHandlers = TRUE
    Responses = {"modperl", "perl-script"}
    ConnFilters = TRUE
    MaxRefs = 1
    MaxDepth = 4
SYMMETRY Symmetry
INVARIANTS
    RunsOnOwnInterpreter
CHECK_DEADLOCK FALSE
