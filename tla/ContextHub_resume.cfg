CONSTANTS
    Evidence = {e1}
    Memories = 0
    Actions = {"create"}
    Verdicts = {"approve"}
    Decisions = {}
    MaxOutputs = 1
    MaxGroups = 1
    MaxDeferred = 1
    MaxStopped = 1
    MaxChanges = 0
    Wordings = {"edited"}
SPECIFICATION Spec
INVARIANTS OutputsWrittenOnce
CHECK_DEADLOCK FALSE
