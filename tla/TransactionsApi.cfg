SPECIFICATION MCSpec
CONSTANTS
    t1 = t1
    t2 = t2
    t3 = t3
    p1 = p1
    p2 = p2
    Requests = {p1, p2}
    Free = Free
    NoAccount = NoAccount
    Accounts <- MCAccounts
    TxIds <- MCTxIds
    Shapes <- MCShapes
    InitialTables <- MCTables
    Opening <- MCOpening
    Kinds = {"create", "duplicate", "patch", "delete", "post", "cancel", "createBulk", "patchBulk", "updateAccount"}
    MaxItems = 2
    ClockSteps = {1}
INVARIANTS
    AnswersHold
    LedgerInvariant
PROPERTIES
    ImplementsAtomicRequests
    EveryRequestReturns
    ShutdownEnds
