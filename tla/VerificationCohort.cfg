SPECIFICATION VSpec
CONSTANTS
    Ids <- MCIds
    Requests = {p1}
    Kinds = {"patch"}
    InitialTables <- MCTables
    Dates = {0}
    BatchSize = 1
    Options <- MCOptions
    MaxRuns = 1
    ScanOptions <- MCCohortOptions
    MaxScans = 2
INVARIANT CohortFrozen
