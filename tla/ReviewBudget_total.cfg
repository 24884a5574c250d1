CONSTANTS
    Workers = {w1}
    Racing = {}
    Evidence = {e1, e2, e3}
    AlwaysReviewed = {e1}
    Oversized = {}
    Contents = {c1}
    NoContent = nocontent
    Revised = {}
    Verdicts = {"needs_review"}
    Usages = {1}
    BaselineUsages = {}
    Unknown = unknown
    Window = 1
    Lease = 1
    MaxInFlight = 1
    TotalCalls = 2
    TotalTokens = 9
    TierCalls <- NineReviewsPerTier
    TierTokens <- ManyTokens
    Estimate = 2
    BaselineEstimate = 1
    AstraEnabled = FALSE
    MaxSubmissions = 3
SPECIFICATION ReviewSpec
INVARIANTS TotalKeepsUnsettled
CHECK_DEADLOCK FALSE
