SPECIFICATION MCFairSpec
CONSTANTS
    c1 = c1
    s1 = s1
    s2 = s2
    p1 = p1
    p2 = p2
    p3 = p3
    Requests = {p1, p2, p3}
    Free = Free
    Categories <- MCCategories
    Subcategories <- MCSubcategories
    Parent <- MCParent
    Kinds = {"updateCategory", "archiveCategory", "restoreCategory", "updateSubcategory", "archiveSubcategory", "createSubcategory", "restoreSubcategory"}
    InitialTables <- MCShelfTables
    ClockSteps = {1}
INVARIANTS
    Inv
PROPERTIES
    ImplementsShelves
    EveryRequestAnswered
