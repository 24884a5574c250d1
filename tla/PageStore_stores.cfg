CONSTANTS
    Offered = {"ingest_page", "write_page", "revise_page", "repair_page", "delete_page", "archive_page", "restore_archived_page", "link_pages", "tombstone_derivation_cascade"}
    Keys = {k1}
    NoKey = nokey
    Mutabilities = {"revisioned"}
    RequestStatuses = {"active"}
    RelationTypes = {"derived_from", "summarizes", "related_to"}
    MaxCascadeRevisions = 6
    MaxInputs = 1
    MaxPages = 3
    MaxRevisions = 5
    MaxRelations = 3
    MaxLifecycleEvents = 2
SPECIFICATION StoreSpec
INVARIANTS TypeOK HistoriesAreLines StatusesAreTold OneEffectPerKey RelationGraphIsSound
PROPERTIES RevisionsImmutable UnlinkedWhenWithdrawn CascadeComplete ImplementsContents
CHECK_DEADLOCK FALSE
