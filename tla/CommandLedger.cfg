SPECIFICATION LedgerSpec
CONSTANTS
    Command = {c1}
    Worker = {w1, w2}
    Nobody = Nobody
    NoCall = NoCall
    FenceCap = 3
    LogCap = 5
SYMMETRY Workers
INVARIANTS
    TypeOK
    OneHolder
    FencesAreUnique
    LogRetellsStatus
    StaleWorkerIsSilent
PROPERTY
    KeepsPromise
CHECK_DEADLOCK FALSE
