SPECIFICATION ApiSpec
CONSTANTS
    c1 = c1
    s1 = s1
    s2 = s2
    p1 = p1
    p2 = p2
    p3 = p3
    Requests = {p1, p2, p3}
    Free = Free
    Categories <- MCCategories
    Subcategories <- MCSubcategories
    Parent <- MCParent
    Kinds = {"createCategory", "updateCategory", "archiveCategory", "restoreCategory", "createSubcategory", "updateSubcategory", "archiveSubcategory", "restoreSubcategory"}
    InitialTables <- MCAllTables
    ClockSteps = {1}
SYMMETRY RequestSymmetry
INVARIANTS
    ConfirmedEditsKept
    ConfirmedArchiveHides
PROPERTIES
    OwnArchiveKept
    ArchivedOnce
