-------------------------- MODULE CatalogInvariant --------------------------
(***************************************************************************)
(* The inductive invariants of Catalog: CatalogInvariant, behind           *)
(* ArchivedOnce, ArchivedHidesSubcategories and ConfirmedArchiveHides,     *)
(* EditsInvariant, behind ConfirmedEditsKept, OwnInvariant, behind         *)
(* OwnArchiveKept, RestoreInvariant and ReviveInvariant, behind            *)
(* RestoredWithCategory and ArchivedHidesSubcategories as far as those     *)
(* hold, and ShelfInvariant, which with all of them is behind              *)
(* ImplementsShelves. What a category request is about to commit is in     *)
(* drafts, so the first says who may hold them, what they contain and      *)
(* which subcategories the cascade has already dealt with. At the end,     *)
(* what can be said of progress without fairness.                          *)
(***************************************************************************)
EXTENDS Catalog

Transacting(p) == pc[p] \in {"cascade", "sweep", "end"}

\* The locks of p are on the category it cascades from and, once it has swept them, on
\* subcategories of that category.
LocksOfCascade(p) ==
    \A i \in Items : lock[i] = p =>
        /\ Transacting(p)
        /\ Cascades(p)
        /\ i = tgt[p] \/ (pc[p] = "end" /\ i \in SubcategoriesOf(tgt[p]))

\* No reading is mistaken for NULL.
ClockRead(p) == pc[p] \in {"write", "apply", "cascade", "sweep", "end"} => now[p] > 0

\* The category p is cascading from is locked by it and changed in its draft.
CategoryDrafted(p) ==
    Transacting(p) =>
        /\ Cascades(p)
        /\ lock[tgt[p]] = p
        /\ Archives(p) <=> draft[tgt[p]].archived # 0
        /\ draft[tgt[p]].present

MatchedInCategory(p) == pc[p] = "sweep" => matched[p] \subseteq SubcategoriesOf(tgt[p])

RequestInvariant(p) ==
    LocksOfCascade(p) /\ ClockRead(p) /\ CategoryDrafted(p) /\ MatchedInCategory(p)

\* Nothing is uncommitted in an unlocked row.
UnlockedSettled == \A i \in Items : lock[i] = Free => draft[i] = rows[i]

\* No draft moves the time of an archived row.
DraftsKeepTime ==
    \A i \in Items :
        rows[i].archived # 0 => draft[i].archived \in {rows[i].archived, 0}

\* What the cascade of an archive request still has to reach, and has reached.
Reached(p) ==
    kind[p] = "archiveCategory" =>
        \A s \in SubcategoriesOf(tgt[p]) :
            /\ pc[p] = "sweep" => (Active(rows[s]) => s \in matched[p])
            /\ pc[p] = "end" => ~Active(Visible(p, s))

\* The endpoints that can make a single subcategory active.
Revivers == {"createSubcategory", "restoreSubcategory"}

\* None of them has been called yet.
NobodyRevives == \A p \in Requests : kind[p] \in Revivers => pc[p] = "start"

\* Whoever is in the middle of archiving a category still reaches what is active in it.
Shielded == ArchivedHidesSubcategories /\ \A p \in Requests : Reached(p)

\* The invariant that every step of Catalog preserves; its last part until a
\* request begins to create or restore a single subcategory.
CatalogInvariant ==
    /\ kind \in [Requests -> Kinds]
    /\ clock > 0
    /\ UnlockedSettled
    /\ DraftsKeepTime
    /\ \A p \in Requests : RequestInvariant(p)
    /\ NobodyRevives => Shielded

\* A request that is under way addresses a row.
Targeted ==
    \A p \in Requests : pc[p] \notin {"start", "done"} => tgt[p] \in Addressable(p)

Typed == TypeOK /\ Targeted

\* What every step preserves, types included.
Inv == Typed /\ CatalogInvariant

----------------------------------------------------------------------------
(***************************************************************************)
(* What edits rest on, provided that the clock advances between readings:  *)
(* the reading a request writes as updated_at names a version of the row.  *)
(***************************************************************************)
\* p has read the clock, and nobody has seen anything with that reading.
Dated(p) == pc[p] \in {"write", "apply", "cascade", "sweep", "end"}

\* The one statement of p, or the first, has still to take effect.
Writing(p) == pc[p] \in {"write", "apply"}

\* Every version and every edit is by a reading the clock has given.
NothingFromTheFuture ==
    /\ \A i \in Items : rows[i].ver <= clock /\ \A f \in Fields : rows[i].field[f] <= clock
    /\ \A p \in Requests : seen[p].ver <= clock /\ now[p] <= clock

\* No row, no copy and no other request has the reading that p is to write.
FreshReading(p) ==
    Dated(p) =>
        /\ \A i \in Items : rows[i].ver # now[p]
        /\ \A q \in Requests : seen[q].ver # now[p]
        /\ \A q \in Requests \ {p} : Dated(q) => now[q] # now[p]

\* Only archiving and restoring a category leave a draft, which edits nothing.
DraftsKeepFields ==
    \A i \in Items :
        /\ draft[i].present = rows[i].present
        /\ draft[i].field = rows[i].field
        /\ lock[i] # Free => draft[i].ver = now[lock[i]]

\* The copy into which p merges its edits is the row itself, or its version is outdated.
CopyIdentified(p) ==
    Writing(p) /\ Updates(p) =>
        /\ rows[tgt[p]].ver = seen[p].ver => rows[tgt[p]].field = seen[p].field
        /\ \A f \in Fields : seen[p].field[f] <= now[p]

\* An id is new to the table and to everybody else who creates a row.
IdIsNew(p) ==
    Writing(p) /\ Creates(p) =>
        /\ ~rows[tgt[p]].present
        /\ \A q \in Requests \ {p} : Writing(q) /\ Creates(q) => tgt[q] # tgt[p]

\* Only a statement that has not taken effect yet has edits to make.
EditsPending(p) == edits[p] # {} => Writing(p) /\ (Creates(p) \/ Updates(p))

\* The category of a subcategory is read by itself only to restore the subcategory.
OnlyRestoreReadsParent(p) == pc[p] = "parent" => kind[p] = "restoreSubcategory"

EditsOf(p) ==
    /\ FreshReading(p)
    /\ CopyIdentified(p)
    /\ IdIsNew(p)
    /\ EditsPending(p)
    /\ OnlyRestoreReadsParent(p)

EditsInvariant ==
    /\ NothingFromTheFuture
    /\ DraftsKeepFields
    /\ \A p \in Requests : EditsOf(p)
----------------------------------------------------------------------------
(***************************************************************************)
(* What OwnArchiveKept rests on, also provided that the clock advances: a  *)
(* category is never archived at the time at which the owner of one of its *)
(* subcategories archived that, so the cascade of a restore can tell them. *)
(***************************************************************************)
\* Every archive time is a reading the clock has given.
ArchivesPast ==
    /\ \A i \in Items : rows[i].archived <= clock
    /\ \A p \in Requests : seen[p].archived <= clock

\* Nothing was archived at the time p is to write.
FreshForArchive(p) ==
    Dated(p) =>
        /\ \A i \in Items : rows[i].archived # now[p]
        /\ \A q \in Requests : seen[q].archived # now[p]

\* What a cascading request has written to archived_at.
DraftTimes == \A i \in Items : lock[i] # Free => draft[i].archived \in {0, now[lock[i]]}

\* A cascade passes over the subcategories archived by their owners, and makes none.
OwnPassedOver ==
    \A s \in Subcategories :
        lock[s] # Free => rows[s].by # "itself" /\ draft[s].by # "itself"

OwnTimesApart ==
    \A s \in Subcategories :
        rows[s].by = "itself" => rows[s].archived \notin {0, rows[Parent[s]].archived}

\* The time by which p is to find what was archived with its category is not one of them.
Spared(p) ==
    kind[p] = "restoreCategory" /\ Dated(p) =>
        \A s \in SubcategoriesOf(tgt[p]) :
            rows[s].by = "itself" => rows[s].archived # seen[p].archived

OwnInvariant ==
    /\ ArchivesPast
    /\ DraftTimes
    /\ OwnPassedOver
    /\ OwnTimesApart
    /\ \A p \in Requests : FreshForArchive(p) /\ Spared(p)
----------------------------------------------------------------------------
(***************************************************************************)
(* What RestoredWithCategory rests on, provided that no two requests       *)
(* restore the same category at the same time: whatever was archived with  *)
(* its category still has the time of the category, and that is the time   *)
(* by which the one request that restores it looks for it.                 *)
(***************************************************************************)
RestoresApart ==
    \A p, q \in Requests :
        /\ p # q
        /\ kind[p] = "restoreCategory" /\ Dated(p)
        /\ kind[q] = "restoreCategory" /\ Dated(q)
        => tgt[p] # tgt[q]

\* If r was archived with its category, c is that category as archived.
Together(r, c) ==
    r.by = "category" => /\ r.present /\ c.present
                         /\ r.archived = c.archived /\ r.archived # 0

HiddenTogether(table) == \A s \in Subcategories : Together(table[s], table[Parent[s]])

\* A request that restores a category has read the time at which that is archived.
SeenAsArchived(p) ==
    kind[p] = "restoreCategory" /\ Dated(p) =>
        /\ rows[tgt[p]].present
        /\ rows[tgt[p]].archived = seen[p].archived
        /\ seen[p].archived # 0

\* One that archives it has found it active, and gives it the time of the cascade.
FoundActive(p) ==
    kind[p] = "archiveCategory" /\ Transacting(p) =>
        /\ rows[tgt[p]].archived = 0
        /\ draft[tgt[p]].archived = now[p]

\* The cascade of a restore has selected all that was archived with the category ...
SelectedToRestore(p) ==
    kind[p] = "restoreCategory" /\ pc[p] = "sweep" =>
        \A s \in SubcategoriesOf(tgt[p]) : rows[s].by = "category" => s \in matched[p]

\* ... and what a cascade leaves behind goes with the category it commits.
SweptTogether(p) ==
    pc[p] = "end" =>
        \A s \in SubcategoriesOf(tgt[p]) : Together(Visible(p, s), draft[tgt[p]])

RestoreInvariant ==
    /\ HiddenTogether(rows)
    /\ \A i \in Items : draft[i].present = rows[i].present
    /\ \A p \in Requests : /\ SeenAsArchived(p) /\ FoundActive(p)
                           /\ SelectedToRestore(p) /\ SweptTogether(p)
                           /\ IdIsNew(p) /\ OnlyRestoreReadsParent(p)
----------------------------------------------------------------------------
(***************************************************************************)
(* What ArchivedHidesSubcategories rests on when single subcategories are  *)
(* created and restored, provided that nobody archives their category at   *)
(* the same time.                                                          *)
(***************************************************************************)
RevivesApart ==
    \A p, q \in Requests :
        /\ NeedsActiveParent(p) /\ Dated(p)
        /\ kind[q] = "archiveCategory" /\ Dated(q)
        => Parent[tgt[p]] # tgt[q]

\* A subcategory that is to become active is under an active category.
UnderActive(p) == NeedsActiveParent(p) /\ Dated(p) => Active(rows[Parent[tgt[p]]])

ReviveInvariant == Shielded /\ \A p \in Requests : UnderActive(p)

----------------------------------------------------------------------------
(***************************************************************************)
(* What ImplementsShelves rests on: all of the above and, for every row,   *)
(* that the label says who archived it and that a cascade has written      *)
(* exactly what it was to.                                                 *)
(***************************************************************************)
RequestsApart == RestoresApart /\ RevivesApart

Labelled(i, r) ==
    /\ r.present /\ r.archived # 0 => r.by # "nobody"
    /\ i \in Categories => r.by # "category"

Orderly(table) == HiddenTogether(table) /\ \A i \in Items : Labelled(i, table[i])

SweptExactly(p) ==
    \A s \in Subcategories : lock[s] = p =>
        IF kind[p] = "archiveCategory"
        THEN Active(rows[s]) /\ draft[s].archived # 0 /\ draft[s].by = "category"
        ELSE rows[s].archived # 0 /\ draft[s].archived = 0

ShelfInvariant ==
    /\ \A i \in Items : Labelled(i, rows[i]) /\ Labelled(i, draft[i])
    /\ \A p \in Requests : SweptExactly(p)
----------------------------------------------------------------------------
(***************************************************************************)
(* Progress, as far as it can be said without fairness: waits do not pile  *)
(* up, and no request ever has to start again.                             *)
(***************************************************************************)
\* The statements request p has still to carry out at most.
StepsLeft(p) ==
    CASE pc[p] = "start" -> 7
      [] pc[p] = "parent" -> 6
      [] pc[p] = "write" -> 5
      [] pc[p] = "apply" -> 4
      [] pc[p] = "cascade" -> 3
      [] pc[p] = "sweep" -> 2
      [] pc[p] = "done" -> 0
      [] OTHER -> 1

\* Its next statement is about a row that another request has locked.
Waits(p) == \/ pc[p] = "apply" /\ ~RowFree(p, tgt[p])
            \/ pc[p] = "sweep" /\ \E s \in matched[p] : ~RowFree(p, s)

\* Whoever waits has locked nothing yet, and waits for one request, which does not wait
\* itself and is about to end: there are no circles of waits, nor queues behind queues.
WaitsAreShort ==
    \A p \in Requests : Waits(p) =>
        /\ \A i \in Items : lock[i] # p
        /\ \E q \in Requests : lock[tgt[p]] = q /\ ~Waits(q) /\ StepsLeft(q) \in 1..3

\* Every step takes one request nearer to its end and leaves the others where they are.
NobodyIsDelayed ==
    [][\E p \in Requests :
          /\ StepsLeft(p)' \in 0..StepsLeft(p) - 1
          /\ \A q \in Requests \ {p} : StepsLeft(q)' = StepsLeft(q)]_vars

=============================================================================
