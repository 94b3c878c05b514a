SPECIFICATION FairSchedulerSpec
CONSTANTS
    a = a
    b = b
    x = x
    p = p
    c = c
    None = None
    Run = {p, c}
    Node = {a, b, x}
    Instruction = {}
    RunOf <- MCRunOf
    RevisionOf <- MCRevisionOf
    Edge = {}
    Serial = {}
    Keys <- MCKeys
    MaxAttempts <- MCMaxAttempts
    Asking = {}
    Blocking = {a}
    Child = {c}
    Upgradable = {}
    MaxParallel <- MCMaxParallel
    MaxLimit = 2
    AttemptCap = 2
    MaxWorkers = 2
    ParentOf <- MCParentOf
    Controlled = {c}
    Fragile = {a}
    LifeCap = 1
CHECK_DEADLOCK FALSE

PROPERTIES
    ChildNotStarved
    LostWorkIsInterrupted
