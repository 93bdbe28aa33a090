---------------------------- MODULE MCCatalogApi ----------------------------
(***************************************************************************)
(* A small instance of CatalogApi for TLC: the tables of MCCatalog and     *)
(* three requests.                                                         *)
(***************************************************************************)
EXTENDS CatalogApi, MCCatalog, Sequences

CONSTANTS p1, p2, p3

\* An archive of the category and two others, or a restore of it while single
\* subcategories are made active: all that RequestsApart allows. The requests are
\* interchangeable, so a trio is called in one order only.
Others == <<"restoreCategory", "archiveCategory", "archiveSubcategory",
            "updateCategory", "updateSubcategory">>
Revivals == <<"createSubcategory", "restoreSubcategory", "archiveSubcategory">>

Pairs(s) ==
    LET n == DOMAIN s IN {<<s[i], s[j]>> : <<i, j>> \in {x \in n \X n : x[1] <= x[2]}}

Trios == {<<"archiveCategory">> \o pair : pair \in Pairs(Others) \ {<<Others[1], Others[1]>>}}
         \cup {<<"restoreCategory">> \o pair : pair \in Pairs(Revivals)}

MCInit == ApiInit /\ <<kind[p1], kind[p2], kind[p3]>> \in Trios

MCFairSpec == MCInit /\ [][ApiNext]_<<vars, answer>> /\ ApiFairness
=============================================================================
