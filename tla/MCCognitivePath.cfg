CONSTANTS
    Decisions = {d1}
    PendingTTL = 2
    ResultTTL = 3
    MaxPolls = 2
    LowRiskTools <- MCNothing
    HighRiskTools <- MCNothing
    PiiKeys <- MCNothing
    LargeAmounts <- MCNothing
    Suspicious <- MCNothing
    ForceCognitive = FALSE
    Tenants = {"acme", "system"}
    System = "system"
    Tenant <- MCTenant
    Newest = 2
    Rules <- MCRules
    Active <- MCActive
    Request <- MCRequest
    Applied <- MCApplied
    Recorded <- MCRecorded
SPECIFICATION FairSpec
INVARIANTS TypeOK NoEarlyNotFound FailClosed AnswerAgreesWithAudit ShownIsStored
PROPERTIES StoredOnlyWeakened CheckEnds KeepsPromise KeepsToolCall
