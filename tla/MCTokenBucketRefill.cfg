CONSTANTS
    Bucket = 2
    Num = 2
    Den = 3
    Expire = 4
    MaxDelay = 0
    MaxTime = 7
    MaxRegained = 0
SPECIFICATION Spec
INVARIANT RefillsAtRate
