CONSTANTS
    Workers = {w1, w2, w3}
    Racing = {w1, w2}
    Evidence = {e1, e2}
    AlwaysReviewed = {e1}
    Oversized = {e2}
    Contents = {c1, c2}
    NoContent = nocontent
    Revised = {c2}
    Verdicts = {"approve", "no_change", "needs_review", "ask", "undecodable"}
    Usages = {3}
    BaselineUsages = {2}
    Unknown = unknown
    Window = 1
    Lease = 1
    MaxInFlight = 1
    TotalCalls = 3
    TotalTokens = 4
    TierCalls <- OneReviewPerTier
    TierTokens <- ManyTokens
    Estimate = 2
    BaselineEstimate = 1
    AstraEnabled = TRUE
    MaxSubmissions = 2
SPECIFICATION ReviewSpec
INVARIANTS TypeOK SubmittedOnce SlotsBounded ApprovedTextWasReviewed BudgetsHold
PROPERTIES SettledOnce
SYMMETRY WorkerSymmetry
CHECK_DEADLOCK FALSE
