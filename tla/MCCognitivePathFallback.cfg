CONSTANTS
    Decisions = {d1}
    PendingTTL = 2
    ResultTTL = 3
    MaxPolls = 2
SPECIFICATION Spec
INVARIANT FallbackIsAudited
