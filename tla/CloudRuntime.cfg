SPECIFICATION FairSpec
CONSTANTS
    Runtime = {r1}
    Worker = {w1}
    RequestCap = 3
    None = None
INVARIANTS
    RunningIsBacked
    StoppedMeansStopped
PROPERTIES
    StopIsNotUndone
    StopsAreCarriedOut
