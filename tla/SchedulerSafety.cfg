SPECIFICATION SchedulerSpec
CONSTANTS
    a = a
    b = b
    x = x
    p = p
    c = c
    None = None
    Run = {p, c}
    Node = {a, b, x}
    Instruction = {}
    RunOf <- MCRunOf
    RevisionOf <- MCRevisionOf
    Edge = {}
    Serial = {}
    Keys <- MCKeys
    MaxAttempts <- MCMaxAttempts
    Asking = {x}
    Blocking = {a}
    Child = {c}
    Upgradable = {}
    MaxParallel <- MCMaxParallel
    MaxLimit = 2
    AttemptCap = 2
    MaxWorkers = 2
    ParentOf <- MCParentOf
    Controlled = {}
    Fragile = {}
    LifeCap = 2
INVARIANTS
    SchedulerTypeOK
    ChildSlotKept
    
CHECK_DEADLOCK FALSE
