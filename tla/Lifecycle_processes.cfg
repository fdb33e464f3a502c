SPECIFICATION Spec
CONSTANTS
    NULL = NULL
    Vhosts <- MCVhosts
    Kinds = {"shared", "parent", "clone", "disabled"}
    Children = {"c1"}
    MaxClones = 2
    Start = 1
    MaxRestarts = 1
INVARIANTS
    OwnPid
    EndBlocksOnce
    TeardownOrder
    NothingLeft
CHECK_DEADLOCK FALSE
