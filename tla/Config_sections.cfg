SPECIFICATION ConfigSpec
CONSTANTS
    UNSET = UNSET
    None = None
    NULL = NULL
    SrvOptions = {Parent, Inherit, MergeHandlers}
    DirOptions = {MergeHandlers}
    Defaults = {}
    Parent = Parent
    Inherit = Inherit
    Keys = {k}
    Vals = {a, b}
    Modules = {m}
    Switches = {T}
    MaxSections = 4
    MaxDirectives = 4
INVARIANTS
    AddRemoveDisjoint
    OptionsReplay
    VarsReplay
    MergeAssociative
    ModulesLoaded
    SwitchesUsed
CHECK_DEADLOCK FALSE
