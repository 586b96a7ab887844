CONSTANTS
    Events = {e1, e2}
    Workers = {w1}
    BatchSize = 2
    MaxRetries = 2
    MaxStream = 3
    Refused = {e2}
SPECIFICATION FairSpec
INVARIANTS TypeOK NothingVanishes
PROPERTIES OrphansStay UndeliveredIsSettled KeepsPromise
