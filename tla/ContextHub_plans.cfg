CONSTANTS
    Evidence = {e1, e2}
    Memories = 1
    Actions = {"create", "update", "represented"}
    Verdicts = {"approve", "accumulating", "no_change", "needs_input"}
    Decisions = {}
    MaxOutputs = 1
    MaxGroups = 1
    MaxDeferred = 1
    MaxStopped = 2
    MaxChanges = 1
    Wordings = {"drafted", "edited"}
SPECIFICATION SceneSpec
INVARIANTS TypeOK PromotingIsOwned PlansAreKept AutomaticAsApproved
PROPERTIES DecisionsAreFinal
SYMMETRY EvidenceSymmetry
CHECK_DEADLOCK FALSE
