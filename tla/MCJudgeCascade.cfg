CONSTANTS
    Runs = {r1, r2}
    FailMax = 3
    ResetTimeout = 1
    Keyed = {r1}
    Answers <- AllowedOrReview
SPECIFICATION FairSpec
INVARIANTS TypeOK NoProbeDuringCoolDown TwoRecordsPerRun AllowedIsSure
PROPERTIES EventuallyCloses
