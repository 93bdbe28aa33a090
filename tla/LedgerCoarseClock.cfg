SPECIFICATION Spec
CONSTANTS
    t1 = t1
    t2 = t2
    t3 = t3
    Requests = {p1, p2, p3}
    Free = Free
    NoAccount = NoAccount
    Accounts <- MCAccounts
    TxIds <- MCTxIds
    Shapes <- MCShapes
    InitialTables <- MCOneTable
    Opening <- MCOpening
    Kinds = {"post", "cancel", "updateAccount"}
    MaxItems = 1
    ClockSteps = {0, 1}
SYMMETRY RequestSymmetry
INVARIANT ConcurrentUpdateDetected
