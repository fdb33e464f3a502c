CONSTANTS
    NULL = NULL
    Code <- MCCode
    Names <- MCNames
    Filters <- MCFilters
    Preloads <- MCPreloads
    Added = {"Conn", "Req"}
    Vivified = {"Child"}
    Clones <- MCClones
SPECIFICATION ResolveSpec
INVARIANTS
    CallsNamedSub
    HandlerAlwaysFound
    FilterLevel
PROPERTIES
    ConfigFrozen
CHECK_DEADLOCK FALSE
