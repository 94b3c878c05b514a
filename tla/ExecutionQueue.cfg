SPECIFICATION FairSpec
CONSTANTS
    Job = {j1}
    Worker = {w1, w2, w3}
    Nobody = Nobody
    NoJob = NoJob
    FenceCap = 3
INVARIANTS
    TypeOK
    ProcessStartsOnce
    AnswersAgree
PROPERTIES
    CancelledNeverStarts
    EachJobIsOneShot
    EveryJobEnds
