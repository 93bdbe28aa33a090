SPECIFICATION FairSpec
CONSTANTS
    Ids <- MCIds
    Requests = {p1}
    Kinds = {"create", "duplicate", "post", "cancel", "patch", "delete"}
    InitialTables <- MCTables
    Dates = {0}
    BatchSize = 2
    Options <- MCOptions
    MaxRuns = 2
INVARIANTS
    RepairInvariant
    ReportTrue
    RunComplete
PROPERTIES
    AlignedForGood
    RepairSound
    ScannedOnce
    EveryRunEnds
