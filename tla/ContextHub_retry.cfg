CONSTANTS
    Evidence = {e1}
    Memories = 0
    Actions = {"create"}
    Verdicts = {"approve"}
    Decisions = {"promoted", "deferred"}
    MaxOutputs = 1
    MaxGroups = 1
    MaxDeferred = 2
    MaxStopped = 1
    MaxChanges = 0
    Wordings = {"edited"}
SPECIFICATION Spec
INVARIANTS PromotionCanBeRetried
CHECK_DEADLOCK FALSE
