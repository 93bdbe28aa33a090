SPECIFICATION Spec
CONSTANTS
    c1 = c1
    s1 = s1
    s2 = s2
    Requests = {p1, p2}
    Free = Free
    Categories <- MCCategories
    Subcategories <- MCSubcategories
    Parent <- MCParent
    Kinds = {"archiveCategory", "createSubcategory"}
    InitialTables <- MCYoungTable
    ClockSteps = {1}
INVARIANT ArchivedHidesSubcategories
