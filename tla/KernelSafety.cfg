SPECIFICATION Spec
CONSTANTS
    a = a
    b = b
    c = c
    d = d
    r1 = r1
    files = files
    web = web
    None = None
    Run = {r1}
    Node = {a, b, c, d}
    Instruction = {i1, i2}
    RunOf <- MCRunOf
    RevisionOf <- MCRevisionOf
    Edge <- MCEdge
    Serial = {c}
    Keys <- MCKeys
    MaxAttempts <- MCMaxAttempts
    Asking = {b}
    Blocking = {}
    Child = {}
    Upgradable = {r1}
    MaxParallel <- MCMaxParallel
    MaxLimit = 2
    AttemptCap = 2
INVARIANTS
    TypeOK
    OneAttemptInFlight
    PlansAreHistory
    DependenciesFirst
    
    
    FinishedIsDone
    
    
PROPERTIES
    
    FencedWorkNeverSucceeds
    AttemptsAreHistory
CHECK_DEADLOCK FALSE
