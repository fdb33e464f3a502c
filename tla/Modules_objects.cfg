SPECIFICATION ModulesSpec
CONSTANTS
    NULL = NULL
    UNDEF = UNDEF
    Threads = {t1, t2}
    First = t1
    Clones = {i1, i2}
    Addrs = {4, 8, 12, 16, 18, 20, 22, 24, 26}
    TblMax = 3
    Cmds <- MCCmds
    Args = {"x"}
    MaxUses = 2
INVARIANTS
    ConfigSeen
    TablesRestored
