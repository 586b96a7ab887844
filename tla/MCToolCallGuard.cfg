SPECIFICATION Spec
CONSTANTS
    LowRiskTools <- MCLowRiskTools
    HighRiskTools <- MCHighRiskTools
    PiiKeys <- MCPiiKeys
    LargeAmounts <- MCLargeAmounts
    Suspicious <- MCSuspicious
    ForceCognitive = FALSE
    Calls = {c1}
    Tenants = {"acme", "system"}
    System = "system"
    Tenant <- MCTenant
    Newest = 2
    Rules <- MCRules
    Requests <- MCRequests
    MaxActivations = 1
INVARIANT GuardWaits
CHECK_DEADLOCK FALSE
