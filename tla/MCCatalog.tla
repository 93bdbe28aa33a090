----------------------------- MODULE MCCatalog -----------------------------
(***************************************************************************)
(* Small instances of Catalog for TLC: one category, two subcategories.    *)
(***************************************************************************)
EXTENDS CatalogInvariant, TLC

CONSTANTS c1, s1, s2

MCCategories == {c1}
MCSubcategories == {s1, s2}
MCParent == [s \in MCSubcategories |-> c1]

RowWith(archived, by) ==
    [present |-> TRUE, archived |-> archived, by |-> by, ver |-> archived,
     field |-> [f \in Fields |-> 0]]

Table(c, r1, r2) == (c1 :> c) @@ (s1 :> r1) @@ (s2 :> r2)

Shown == RowWith(0, "nobody")

\* An active category with one active subcategory and one archived on its own.
ActiveTable == Table(Shown, Shown, RowWith(1, "itself"))

\* The same category after it was archived.
ArchivedTable == Table(RowWith(2, "itself"), RowWith(2, "category"), RowWith(1, "itself"))

\* A category that still has to be created, or has no second subcategory yet.
YoungTables == {Table(NoRow, NoRow, NoRow), Table(Shown, Shown, NoRow)}

MCTables == {ActiveTable, ArchivedTable}
MCAllTables == MCTables \cup YoungTables
MCArchivedTable == {ArchivedTable}
MCYoungTable == {Table(Shown, Shown, NoRow)}
MCShelfTables == MCTables \cup {Table(RowWith(2, "itself"), RowWith(2, "category"), NoRow)}

RequestSymmetry == Permutations(Requests)
=============================================================================
