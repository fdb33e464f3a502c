SPECIFICATION RequestSpec
CONSTANTS
    NULL = NULL
    Subs = {s1, s2}
    Confs <- MCConfs
    Writes <- MCWrites
    Writers = {"r"}
    Specials = {"@INC"}
    Lexical = TRUE
INVARIANTS
    OwnEnvAndHandles
    GlobalRequestAlive
    
PROPERTIES
    SpecialsRestored
SYMMETRY SubsSymmetry
