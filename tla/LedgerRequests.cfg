SPECIFICATION MCSpec
CONSTANTS
    t1 = t1
    t2 = t2
    t3 = t3
    Requests = {p1, p2, p3}
    Free = Free
    NoAccount = NoAccount
    Accounts <- MCAccounts
    TxIds <- MCTxIds
    Shapes <- MCShapes
    InitialTables <- MCOneTable
    Opening <- MCOpening
    Kinds = {"create", "duplicate", "patch", "delete", "post", "cancel", "patchBulk", "updateAccount", "archiveAccount", "restoreAccount"}
    MaxItems = 2
    ClockSteps = {1}
SYMMETRY RequestSymmetry
INVARIANTS
    TypeOK
    PostingsMatchStatus
    ConcurrentUpdateDetected
    
PROPERTY ImplementsBooks
