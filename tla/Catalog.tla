------------------------------ MODULE Catalog ------------------------------
(***************************************************************************)
(* Concurrent HTTP requests against the categories and subcategories       *)
(* tables (internal/app/catalog and its repositories).                     *)
(*                                                                         *)
(* Archiving or restoring a category runs in one database transaction and  *)
(* cascades to its subcategories; every other request is a SELECT or two   *)
(* and one statement that commits by itself. The tables have the same      *)
(* columns as far as these requests go, so `rows` is both of them.         *)
(*                                                                         *)
(* A statement takes two steps, as READ COMMITTED has it. It first selects *)
(* rows by its WHERE clause from the versions committed so far (and the    *)
(* request's own); then it waits for their locks, evaluates the clause once*)
(* more on the newest version, and writes. What it selected from another   *)
(* table (the parent category) it does not look at again.                  *)
(***************************************************************************)
EXTENDS Integers

CONSTANTS
    Categories, Subcategories,  \* ids
    Parent,         \* the category a subcategory id is used with
    Requests,       \* HTTP requests, each handled once
    Free,           \* the holder of an unlocked row
    Kinds,          \* the endpoints called
    InitialTables,  \* contents of the tables before the requests
    ClockSteps      \* how far the clock may have moved between two readings

Items == Categories \cup Subcategories

SubcategoriesOf(c) == {s \in Subcategories : Parent[s] = c}

\* The columns a client edits: name and, for the others, sort_order.
Fields == {"name", "order"}

\* A field holds the clock reading of the request that set it. archived_at is 0 for
\* NULL. `by` is history: who archived the row.
Row == [present : BOOLEAN, archived : Nat, by : {"nobody", "itself", "category"},
        ver : Nat, field : [Fields -> Nat]]

NoRow == [present |-> FALSE, archived |-> 0, by |-> "nobody", ver |-> 0,
          field |-> [f \in Fields |-> 0]]

Active(r) == r.present /\ r.archived = 0

\* The time at which the first request may come; the rows are older.
Epoch == 2

CategoryKinds == {"createCategory", "updateCategory", "archiveCategory", "restoreCategory"}
SubcategoryKinds == {"createSubcategory", "updateSubcategory", "archiveSubcategory",
                     "restoreSubcategory"}

ASSUME CatalogAssumption ==
    /\ Categories \cap Subcategories = {}
    /\ Parent \in [Subcategories -> Categories]
    /\ Free \notin Requests
    /\ Kinds \subseteq CategoryKinds \cup SubcategoryKinds
    /\ InitialTables \subseteq [Items -> Row]
    /\ \A table \in InitialTables :
          /\ \A i \in Items : /\ table[i].ver <= Epoch /\ table[i].archived <= Epoch
                              /\ \A f \in Fields : table[i].field[f] <= Epoch
          /\ \A s \in Subcategories :
                /\ Active(table[s]) => Active(table[Parent[s]])
                /\ table[s].by = "itself" =>
                      table[s].archived \notin {0, table[Parent[s]].archived}
    /\ ClockSteps \subseteq Nat

VARIABLES
    rows, draft, lock,  \* committed version, uncommitted version, its writer
    clock,
    \* one entry per request
    kind,       \* the endpoint (never changes)
    pc,         \* the next statement
    tgt,        \* the row it is about
    seen,       \* that row as the request has read it
    edits,      \* the fields it sets
    now,        \* its clock reading
    matched     \* rows the cascading statement has selected

tables == <<rows, draft, lock>>
vars == <<rows, draft, lock, clock, kind, pc, tgt, seen, edits, now, matched>>

IsCategoryRequest(p) == kind[p] \in CategoryKinds
Creates(p) == kind[p] \in {"createCategory", "createSubcategory"}
Updates(p) == kind[p] \in {"updateCategory", "updateSubcategory"}
Archives(p) == kind[p] \in {"archiveCategory", "archiveSubcategory"}

\* Variant for testing the properties: archiving a category stops at its own row.
CascadesOnRestore(p) == kind[p] = "restoreCategory"

\* The requests that run inside WithinTx.
Cascades(p) == kind[p] \in {"archiveCategory", "restoreCategory"}

\* What request p addresses, a category or a subcategory.
Addressable(p) == IF IsCategoryRequest(p) THEN Categories ELSE Subcategories

\* What a statement of request p sees.
Visible(p, i) == IF lock[i] = p THEN draft[i] ELSE rows[i]

RowFree(p, i) == lock[i] \in {Free, p}

ReadClock(p) ==
    \E d \in ClockSteps : clock' = clock + d /\ now' = [now EXCEPT ![p] = clock + d]

Nothing == "none"

Init ==
    /\ rows \in InitialTables
    /\ draft = rows
    /\ lock = [i \in Items |-> Free]
    /\ clock = Epoch
    /\ kind \in [Requests -> Kinds]
    /\ pc = [p \in Requests |-> "start"]
    /\ tgt = [p \in Requests |-> Nothing]
    /\ seen = [p \in Requests |-> NoRow]
    /\ edits = [p \in Requests |-> {}]
    /\ now = [p \in Requests |-> 0]
    /\ matched = [p \in Requests |-> {}]

----------------------------------------------------------------------------
(***************************************************************************)
(* The end of a request.                                                   *)
(***************************************************************************)
\* The handler has returned: its local variables are gone.
Return(p) ==
    /\ pc' = [pc EXCEPT ![p] = "done"]
    /\ tgt' = [tgt EXCEPT ![p] = Nothing]
    /\ seen' = [seen EXCEPT ![p] = NoRow]
    /\ edits' = [edits EXCEPT ![p] = {}]
    /\ now' = [now EXCEPT ![p] = 0]
    /\ matched' = [matched EXCEPT ![p] = {}]
    /\ UNCHANGED <<clock, kind>>

\* Return without having written anything.
ReturnUnchanged(p) == Return(p) /\ UNCHANGED tables

Unlock(p) == lock' = [i \in Items |-> IF lock[i] = p THEN Free ELSE lock[i]]

\* WithinTx after a nil error.
Commit(p) ==
    /\ pc[p] = "end"
    /\ rows' = [i \in Items |-> Visible(p, i)]
    /\ Unlock(p)
    /\ Return(p)
    /\ UNCHANGED draft

Discard(p) ==
    /\ draft' = [i \in Items |-> IF lock[i] = p THEN rows[i] ELSE draft[i]]
    /\ Unlock(p)
    /\ Return(p)
    /\ UNCHANGED rows

\* WithinTx after an error of the service.
Rollback(p) == pc[p] = "fail" /\ Discard(p)

\* A statement or the commit fails: a name is taken (the unique index on active
\* names), the request is cancelled, the connection is lost, the process dies.
Abort(p) == pc[p] \notin {"start", "fail", "done"} /\ Discard(p)

----------------------------------------------------------------------------
(***************************************************************************)
(* What a service reads and decides before its first write.                *)
(***************************************************************************)
Begin(p, i, fields, next) ==
    /\ tgt' = [tgt EXCEPT ![p] = i]
    /\ seen' = [seen EXCEPT ![p] = rows[i]]
    /\ edits' = [edits EXCEPT ![p] = fields]
    /\ pc' = [pc EXCEPT ![p] = next]
    /\ UNCHANGED <<tables, kind, matched>>

\* Create of both services. A subcategory needs an active parent.
FindForCreate(p) ==
    /\ pc[p] = "start"
    /\ Creates(p)
    /\ \E i \in Addressable(p) :
         /\ ~rows[i].present
         /\ \A q \in Requests : tgt[q] # i
         /\ IF i \in Categories \/ Active(rows[Parent[i]])
            THEN Begin(p, i, Fields, "write") /\ ReadClock(p)
            ELSE ReturnUnchanged(p)

FindForUpdate(p) ==
    /\ pc[p] = "start"
    /\ Updates(p)
    /\ \E i \in Addressable(p), fields \in SUBSET Fields \ {{}} :
         IF rows[i].present
         THEN Begin(p, i, fields, "write") /\ ReadClock(p)
         ELSE ReturnUnchanged(p)

\* Archive of both services: what is archived already is returned as it is.
FindForArchive(p) ==
    /\ pc[p] = "start"
    /\ Archives(p)
    /\ \E i \in Addressable(p) :
         IF Active(rows[i])
         THEN Begin(p, i, {}, "write") /\ ReadClock(p)
         ELSE ReturnUnchanged(p)

FindForRestoreCategory(p) ==
    /\ pc[p] = "start"
    /\ kind[p] = "restoreCategory"
    /\ \E c \in Categories :
         IF rows[c].present /\ ~Active(rows[c])
         THEN Begin(p, c, {}, "write") /\ ReadClock(p)
         ELSE ReturnUnchanged(p)

FindForRestoreSubcategory(p) ==
    /\ pc[p] = "start"
    /\ kind[p] = "restoreSubcategory"
    /\ \E s \in Subcategories :
         IF rows[s].present /\ ~Active(rows[s])
         THEN Begin(p, s, {}, "parent") /\ UNCHANGED <<clock, now>>
         ELSE ReturnUnchanged(p)

\* RestoreSubcategoryService reads the parent with a statement of its own.
FindParent(p) ==
    /\ pc[p] = "parent"
    /\ IF Active(rows[Parent[tgt[p]]])
       THEN /\ ReadClock(p)
            /\ pc' = [pc EXCEPT ![p] = "write"]
            /\ UNCHANGED <<tables, kind, tgt, seen, edits, matched>>
       ELSE ReturnUnchanged(p)

----------------------------------------------------------------------------
(***************************************************************************)
(* The INSERT or UPDATE of the addressed row: ... SELECT FROM categories   *)
(* and UPDATE ... FROM categories also read the parent, once.              *)
(***************************************************************************)
NeedsActiveParent(p) == kind[p] \in {"createSubcategory", "restoreSubcategory"}

\* Variant for testing the properties: ArchiveByID forgets archived_at IS NULL.
SelectsArchivedToo(p, r) ==
    /\ r.present \/ Creates(p)
    /\ Updates(p) => r.ver = seen[p].ver

\* Variant for testing the properties: UpdateByID forgets updated_at.
SelectsAnyVersion(p, r) ==
    /\ r.present \/ Creates(p)
    /\ Archives(p) => Active(r)

\* The WHERE clause on the addressed row.
Selects(p, r) ==
    /\ r.present \/ Creates(p)
    /\ Updates(p) => r.ver = seen[p].ver
    /\ Archives(p) => Active(r)

\* The fields as the service passes them on: what is not edited is what was read.
Merged(p) == [f \in Fields |-> IF f \in edits[p] THEN now[p] ELSE seen[p].field[f]]

Written(p, r) ==
    CASE Creates(p)  -> [present |-> TRUE, archived |-> 0, by |-> "nobody",
                         ver |-> now[p], field |-> [f \in Fields |-> now[p]]]
      [] Updates(p)  -> [r EXCEPT !.ver = now[p], !.field = Merged(p)]
      [] Archives(p) -> [r EXCEPT !.archived = now[p], !.by = "itself", !.ver = now[p]]
      [] OTHER       -> [r EXCEPT !.archived = 0, !.by = "nobody", !.ver = now[p]]

\* No row affected: ErrCategoryNotFound and the like, and for a cascade a rollback.
NoRowAffected(p) ==
    IF Cascades(p)
    THEN pc' = [pc EXCEPT ![p] = "fail"]
         /\ UNCHANGED <<tables, clock, kind, tgt, seen, edits, now, matched>>
    ELSE ReturnUnchanged(p)

SelectRow(p) ==
    /\ pc[p] = "write"
    /\ IF /\ Selects(p, rows[tgt[p]])
          /\ NeedsActiveParent(p) => Active(rows[Parent[tgt[p]]])
       THEN pc' = [pc EXCEPT ![p] = "apply"]
            /\ UNCHANGED <<tables, clock, kind, tgt, seen, edits, now, matched>>
       ELSE NoRowAffected(p)

\* Variant for testing the properties: the repository takes the pool although a
\* transaction is open.
CommitsAlways(p) == TRUE

\* databaseFromContext: outside WithinTx a statement commits by itself.
CommitsAtOnce(p) == ~Cascades(p)

WriteRow(p) ==
    LET i == tgt[p]
        new == Written(p, rows[i])
    IN
    /\ pc[p] = "apply"
    /\ RowFree(p, i)
    /\ IF ~Selects(p, rows[i])
       THEN NoRowAffected(p)
       ELSE /\ draft' = [draft EXCEPT ![i] = new]
            /\ rows' = IF CommitsAtOnce(p) THEN [rows EXCEPT ![i] = new] ELSE rows
            /\ IF Cascades(p)
               THEN /\ lock' = [lock EXCEPT ![i] = p]
                    /\ pc' = [pc EXCEPT ![p] = "cascade"]
                    /\ UNCHANGED <<clock, kind, tgt, seen, edits, now, matched>>
               ELSE Return(p) /\ UNCHANGED lock

----------------------------------------------------------------------------
(***************************************************************************)
(* ArchiveByCategoryID and RestoreByCategoryID: all active subcategories   *)
(* are archived with the category; those whose archived_at is that of the  *)
(* category, as read before it was restored, are restored with it.         *)
(***************************************************************************)
\* Variant for testing the properties: restore ignores when a row was archived.
InCascadeWhenever(p, r) ==
    r.present /\ (Archives(p) <=> r.archived = 0)

InCascade(p, r) ==
    r.present /\ IF Archives(p) THEN r.archived = 0 ELSE r.archived = seen[p].archived

Cascaded(p, r) ==
    IF Archives(p)
    THEN [r EXCEPT !.archived = now[p], !.by = "category", !.ver = now[p]]
    ELSE [r EXCEPT !.archived = 0, !.by = "nobody", !.ver = now[p]]

\* Variant for testing the properties: the service returns and leaves its transaction open.
CascadeAbandoned(p) == pc[p] = "cascade" /\ ReturnUnchanged(p)

SelectChildren(p) ==
    /\ pc[p] = "cascade"
    /\ matched' = [matched EXCEPT ![p] =
                     {s \in SubcategoriesOf(tgt[p]) : InCascade(p, Visible(p, s))}]
    /\ pc' = [pc EXCEPT ![p] = "sweep"]
    /\ UNCHANGED <<tables, clock, kind, tgt, seen, edits, now>>

WriteChildren(p) ==
    LET hit == {s \in matched[p] : InCascade(p, rows[s])} IN
    /\ pc[p] = "sweep"
    /\ \A s \in matched[p] : RowFree(p, s)
    /\ draft' = [i \in Items |-> IF i \in hit THEN Cascaded(p, rows[i]) ELSE draft[i]]
    /\ lock' = [i \in Items |-> IF i \in hit THEN p ELSE lock[i]]
    /\ pc' = [pc EXCEPT ![p] = "end"]
    /\ UNCHANGED <<rows, clock, kind, tgt, seen, edits, now, matched>>

----------------------------------------------------------------------------
Start(p) == \/ FindForCreate(p)
            \/ FindForUpdate(p)
            \/ FindForArchive(p)
            \/ FindForRestoreCategory(p)
            \/ FindForRestoreSubcategory(p)

\* What the handler goroutine and Postgres carry out on their own.
Progress(p) == \/ FindParent(p)
               \/ SelectRow(p)
               \/ WriteRow(p)
               \/ SelectChildren(p)
               \/ WriteChildren(p)
               \/ Commit(p)
               \/ Rollback(p)

AllDone == \A p \in Requests : pc[p] \in {"start", "done"}

Next == \/ \E p \in Requests : Start(p) \/ Progress(p) \/ Abort(p)
        \/ AllDone /\ UNCHANGED vars

Spec == Init /\ [][Next]_vars

----------------------------------------------------------------------------
(***************************************************************************)
(* Properties.                                                             *)
(***************************************************************************)
\* Every variable holds a value of its type.
TypeOK ==
    /\ rows \in [Items -> Row]
    /\ draft \in [Items -> Row]
    /\ lock \in [Items -> Requests \cup {Free}]
    /\ clock \in Nat
    /\ kind \in [Requests -> CategoryKinds \cup SubcategoryKinds]
    /\ pc \in [Requests -> {"start", "parent", "write", "apply", "cascade", "sweep",
                            "end", "fail", "done"}]
    /\ tgt \in [Requests -> Items \cup {Nothing}]
    /\ seen \in [Requests -> Row]
    /\ edits \in [Requests -> SUBSET Fields]
    /\ now \in [Requests -> Nat]
    /\ matched \in [Requests -> SUBSET Subcategories]

\* An archived category shows no active subcategory: the cascade of ArchiveCategory
\* reaches all of them and takes effect together with the category.
ArchivedHidesSubcategories ==
    \A s \in Subcategories : Active(rows[s]) => Active(rows[Parent[s]])

\* A subcategory that was hidden by archiving its category is back as soon as the
\* category is (RestoreCategory and RestoreByCategoryID).
RestoredWithCategory ==
    \A s \in Subcategories : rows[s].by = "category" => ~Active(rows[Parent[s]])

\* A subcategory its owner archived is never brought back by restoring the category,
\* even when both were archived or restored at the same time by several requests.
OwnArchiveKept ==
    [][\A s \in Subcategories :
          rows[s].by = "itself" /\ rows'[s].by = "nobody"
          => rows'[Parent[s]] = rows[Parent[s]]]_vars

\* A second archive request never moves the time of the first: RestoreByCategoryID
\* finds the subcategories of a category by that time.
ArchivedOnce ==
    [][\A i \in Items :
          rows[i].archived # 0 => rows'[i].archived \in {rows[i].archived, 0}]_vars

----------------------------------------------------------------------------
\* What a row tells of an item.
ShelfOf(r) ==
    IF ~r.present THEN "absent"
    ELSE IF r.archived = 0 THEN "shown"
    ELSE IF r.by = "category" THEN "hidden" ELSE "archived"

Promise == INSTANCE Shelves WITH shelf <- [i \in Items |-> ShelfOf(rows[i])]

\* The services do what Shelves promises: archiving and restoring a category take effect
\* as a whole and undo each other exactly, whatever requests interleave and fail.
ImplementsShelves == Promise!Spec
=============================================================================
