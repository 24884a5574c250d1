SPECIFICATION StoreSpec
CONSTANTS
    Openers = {o1, o2}
    Revisions <- Ids
    PageOf <- Held
    PackOf <- InPack
    Autonomous = {"r3"}
    Citations <- Cites
    Mentions <- Texts
    ImageOf <- Digests
    Links <- Related
    Stored = {"none", "draft", "clean", "clean.1", "clean.2", "clean.3", "clean.4", "clean.5", "clean.6"}
    MaxDeaths = 1
    Memories = 2
    MaxPages = 4
    MaxRevisions = 5
    MaxSources = 4
    MaxStoredPages = 6
    MaxStoredRevisions = 7
    MaxRelations = 1
    MaxTime = 0
    KeepRecent = 1
    MinimumAge = 1
    MaxGap = 0
INVARIANTS StoreTypeOK RecallReaches FeedbackDecidedOnce SourcesStand OpenStoreIsWhole
SYMMETRY Symmetry
CHECK_DEADLOCK FALSE
