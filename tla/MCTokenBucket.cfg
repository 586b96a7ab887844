CONSTANTS
    Bucket = 2
    Num = 2
    Den = 3
    Expire = 4
    MaxDelay = 1
    MaxTime = 7
    MaxRegained = 2
SPECIFICATION Spec
INVARIANTS TypeOK AdmissionBound
PROPERTIES ResetPromiseKept
