CONSTANTS
    a = a
    b = b
    Pages = {"p1", "p2"}
    Region <- RegionOfPage
    Planned <- PairWindow
    MaxChanges = 2
    MaxBacklog = 0
    MaxJobs = 1
    MaxDiscoveryJobs = 2
    MaxAttempts = 2
    MaxIssues = 1
    MinNewPages = 1
    PeriodicReview = FALSE
    MaxCrashes = 1
    MaxFailures = 0
    FailedCalls = {1}
    Items = {"t1", "t2", "r", "f", "u", "c"}
    KindOf <- KindOfItem
    Evidence <- About
    Reworded <- Rewording
    Sessions = {"s1"}
    Bystanders = {"reject", "relation", "topic", "annotate", "rollback"}
    MaxStamps = 4
    MaxDeaths = 1
SPECIFICATION MaintenanceSpec
INVARIANTS MaintenanceTypeOK NoWriteForgotten WrittenOnce DoneOnce FailedCallsBounded
PROPERTIES NothingAgainstDecision
SYMMETRY Symmetry
CHECK_DEADLOCK FALSE
