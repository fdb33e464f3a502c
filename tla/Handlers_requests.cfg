SPECIFICATION HandlersSpec
CONSTANTS
    NULL = NULL
    Handler = {A, B}
    Phases = {"ChildInit", "PostReadRequest", "Response"}
    Kind <- MCKind
    Mode <- MCMode
    Requests = {r1, r2}
    MergeHandlers = {"dir"}
    MaxLen = 3
    MaxOps = 3
SYMMETRY Symmetry
INVARIANTS
    RunsInOrder
PROPERTIES
    RequestsIsolated
    PhaseRunsAll
CHECK_DEADLOCK FALSE
