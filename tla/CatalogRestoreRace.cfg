SPECIFICATION Spec
CONSTANTS
    c1 = c1
    s1 = s1
    s2 = s2
    Requests = {p1, p2, p3}
    Free = Free
    Categories <- MCCategories
    Subcategories <- MCSubcategories
    Parent <- MCParent
    Kinds = {"archiveCategory", "restoreCategory"}
    InitialTables <- MCArchivedTable
    ClockSteps = {1}
SYMMETRY RequestSymmetry
INVARIANT RestoredWithCategory
