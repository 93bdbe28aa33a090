SPECIFICATION VFairSpec
CONSTANTS
    Ids <- MCIds
    Requests = {p1}
    Kinds = {"duplicate", "patch", "delete"}
    InitialTables <- MCTables
    Dates = {0}
    BatchSize = 1
    Options <- MCOptions
    MaxRuns = 1
    ScanOptions <- MCScanOptions
    MaxScans = 1
INVARIANTS
    VerificationInvariant
    SnapshotTrue
    ReportComplete
    CleanAfterRepair
PROPERTY EveryScanEnds
