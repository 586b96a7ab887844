CONSTANTS
    Events = {e1, e2}
    Workers = {w1}
    BatchSize = 2
    MaxRetries = 3
    MaxStream = 2
    Refused = {}
SPECIFICATION FairSpec
PROPERTY StreamDrains
