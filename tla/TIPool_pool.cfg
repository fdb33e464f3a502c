SPECIFICATION FairSpec
CONSTANTS
    Threads = {t1, t2, t3}
    Items = {i1, i2, i3}
    Start = 1
    MinSpare = 1
    MaxSpare = 1
    Max = 2
    MaxRequests = 1
    Quota <- TwiceEach
INVARIANTS
    Accounting
    ExclusiveUse
    NoLostWakeup
    NoStrandedWaiter
    SizeBound
PROPERTIES
    WaiterServed
