SPECIFICATION Spec
CONSTANTS
    a = a
    b = b
    c = c
    d = d
    r1 = r1
    files = files
    web = web
    None = None
    Run = {r1}
    Node = {a, b}
    Instruction = {}
    RunOf <- MCRunOf
    RevisionOf <- MCRevisionOf
    Edge <- MCEdge
    Serial = {}
    Keys <- MCKeys
    MaxAttempts <- MCMaxAttempts
    Asking = {}
    Blocking = {}
    Child = {}
    Upgradable = {}
    MaxParallel <- MCDeepParallel
    MaxLimit = 2
    AttemptCap = 2
PROPERTIES
    TerminalIsIrreversible
CHECK_DEADLOCK FALSE
