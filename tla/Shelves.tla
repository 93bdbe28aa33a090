------------------------------ MODULE Shelves ------------------------------
(***************************************************************************)
(* What the catalog promises its clients, without requests, locks or times:*)
(* every category is a shelf that is archived and brought back as a whole. *)
(* One step is one successful request.                                     *)
(***************************************************************************)
CONSTANTS Categories, Subcategories, Parent

VARIABLE shelf  \* what has become of each item

Items == Categories \cup Subcategories

\* Archived by its owner, or hidden with its category.
States == {"absent", "shown", "archived", "hidden"}

\* Subcategories are shown with their category, and hidden with it for as long as it is
\* archived.
Consistent ==
    /\ \A c \in Categories : shelf[c] # "hidden"
    /\ \A s \in Subcategories :
          /\ shelf[s] = "shown" => shelf[Parent[s]] = "shown"
          /\ shelf[s] = "hidden" => shelf[Parent[s]] = "archived"

Init == shelf \in [Items -> States] /\ Consistent

UnderShown(i) == i \in Subcategories => shelf[Parent[i]] = "shown"

Add(i) ==
    /\ shelf[i] = "absent" /\ UnderShown(i)
    /\ shelf' = [shelf EXCEPT ![i] = "shown"]

Archive(s) ==
    /\ shelf[s] = "shown"
    /\ shelf' = [shelf EXCEPT ![s] = "archived"]

Restore(s) ==
    /\ shelf[s] = "archived" /\ UnderShown(s)
    /\ shelf' = [shelf EXCEPT ![s] = "shown"]

\* Category c becomes `is`, and those of its subcategories that are `from` become `to`.
Together(c, is, from, to) ==
    shelf' = [i \in Items |->
                IF i = c THEN is
                ELSE IF i \in Subcategories /\ Parent[i] = c /\ shelf[i] = from THEN to
                ELSE shelf[i]]

ArchiveAll(c) == shelf[c] = "shown" /\ Together(c, "archived", "shown", "hidden")

RestoreAll(c) == shelf[c] = "archived" /\ Together(c, "shown", "hidden", "shown")

Next == \/ \E i \in Items : Add(i)
        \/ \E s \in Subcategories : Archive(s) \/ Restore(s)
        \/ \E c \in Categories : ArchiveAll(c) \/ RestoreAll(c)

Spec == Init /\ [][Next]_shelf
=============================================================================
