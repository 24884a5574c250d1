CONSTANTS
    Offered = {"write_page", "revise_page", "tombstone_derivation_cascade"}
    Keys = {}
    NoKey = nokey
    Mutabilities = {"revisioned"}
    RequestStatuses = {"active"}
    RelationTypes = {}
    MaxCascadeRevisions = 8
    MaxInputs = 1
    MaxPages = 3
    MaxRevisions = 8
    MaxRelations = 0
    MaxLifecycleEvents = 0
SPECIFICATION Spec
PROPERTIES CascadeRevivesOnlyValid
CHECK_DEADLOCK FALSE
